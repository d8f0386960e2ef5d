------------------------- MODULE OrchestratorProofs -------------------------
(***************************************************************************)
(* Proofs about Orchestrator for any number of overlapping invocations,     *)
(* instances and rows, any cap, divisor and ladder.                         *)
(***************************************************************************)
EXTENDS Orchestrator, FiniteSetTheorems, TLAPS

RowsFit == waiting + Processing <= Rows

InLadder(t) == tick[t] # "ladder" => shortfall[t] = 0 /\ tried[t] = 0

(* There is room under the cap for what a running ladder has yet to launch,  *)
(* and no other ladder runs beside it.                                      *)
FleetFits ==
  /\ Cardinality(Up) <= MaxWorkers
  /\ \A t \in Ticks : shortfall[t] > 0 =>
       /\ Cardinality(Up) + shortfall[t] <= MaxWorkers
       /\ \A u \in Ticks \ {t} : shortfall[u] = 0

(* Each invocation has its part of the room below Top: what it has launched   *)
(* or still owes.                                                           *)
Top == Cardinality(Ticks) * (Types * MaxWorkers)
OwedFits == Cardinality(Up) + Cardinality(Owed) <= Top

OInv ==
  /\ TypeOK /\ RowsFit
  /\ \A t \in Ticks : InLadder(t)
  /\ past = "clean" => FleetFits
  /\ past # "unseen" => OwedFits
-----------------------------------------------------------------------------
LEMMA CountsAreNumbers ==
  /\ IsFiniteSet(Up)   /\ Cardinality(Up) \in Nat
  /\ IsFiniteSet(Busy) /\ Cardinality(Busy) \in Nat
<1>1. Up \in SUBSET Instances /\ Busy \in SUBSET Instances
  BY DEF Up, Busy
<1>2. IsFiniteSet(Up) /\ IsFiniteSet(Busy)
  BY <1>1, LimitsAssumption, FS_Subset
<1>. QED
  BY <1>2, FS_CardinalityType

LEMMA UpCountNext == IsFiniteSet(Up') /\ Cardinality(Up') \in Nat
<1>1. Up' \in SUBSET Instances
  BY DEF Up
<1>2. IsFiniteSet(Up')
  BY <1>1, LimitsAssumption, FS_Subset
<1>. QED
  BY <1>2, FS_CardinalityType

(* The pairs of a part of the invocations.                                  *)
Slots(T) == T \X (1 .. Types * MaxWorkers)

LEMMA SlotsCount ==
  ASSUME NEW T \in SUBSET Ticks
  PROVE  /\ IsFiniteSet(Slots(T))
         /\ Cardinality(Slots(T)) = Cardinality(T) * (Types * MaxWorkers)
<1>1. Types * MaxWorkers \in Nat
  BY LimitsAssumption
<1>2. IsFiniteSet(1 .. Types * MaxWorkers) /\ Cardinality(1 .. Types * MaxWorkers) = Types * MaxWorkers
  BY <1>1, FS_Interval
<1>3. IsFiniteSet(T)
  BY LimitsAssumption, FS_Subset
<1>. QED
  BY <1>2, <1>3, FS_Product DEF Slots

LEMMA OwedIsFinite ==
  /\ IsFiniteSet(Owed)  /\ Cardinality(Owed) \in Nat
  /\ IsFiniteSet(Owed') /\ Cardinality(Owed') \in Nat
<1>1. Owed \in SUBSET Slots(Ticks) /\ Owed' \in SUBSET Slots(Ticks)
  BY DEF Owed, Slots
<1>2. IsFiniteSet(Owed) /\ IsFiniteSet(Owed')
  BY <1>1, SlotsCount, FS_Subset
<1>. QED
  BY <1>2, FS_CardinalityType

LEMMA TopIsNumber == Cardinality(Ticks) \in Nat /\ Types * MaxWorkers \in Nat /\ Top \in Nat
<1>1. Cardinality(Ticks) \in Nat /\ Types * MaxWorkers \in Nat
  BY LimitsAssumption, FS_CardinalityType
<1>. QED
  BY <1>1 DEF Top

LEMMA InitEstablishesOInv == Init => OInv
<1>. SUFFICES ASSUME Init PROVE OInv
  OBVIOUS
<1>1. Up = {} /\ Busy = {}
  BY DEF Init, Up, Busy
<1>2. Cardinality(Up) = 0 /\ Cardinality(Busy) = 0
  BY <1>1, FS_EmptySet
<1>3. TypeOK
  <2>1. 0 \in 0 .. Rows /\ 0 \in 0 .. MaxWorkers /\ 0 \in 0 .. Types
    BY LimitsAssumption
  <2>. QED
    BY <2>1 DEF Init, TypeOK, InstanceState
<1>4. RowsFit
  BY <1>2, LimitsAssumption DEF Init, RowsFit, Processing
<1>5. FleetFits
  BY <1>2, LimitsAssumption DEF Init, FleetFits
<1>6. \A t \in Ticks : InLadder(t)
  BY DEF Init, InLadder
<1>7. OwedFits
  <2>1. ASSUME NEW t \in Ticks PROVE shortfall[t] * (Types - tried[t]) = 0
    BY LimitsAssumption DEF Init
  <2>2. Owed = {}
    <3>1. ASSUME NEW p \in Owed PROVE FALSE
      <4>1. p[1] \in Ticks /\ p[2] \in 1 .. Types * MaxWorkers /\ p[2] <= shortfall[p[1]] * (Types - tried[p[1]])
        BY DEF Owed
      <4>2. p[2] <= 0
        BY <2>1, <4>1
      <4>. QED
        BY <4>1, <4>2
    <3>. QED
      BY <3>1
  <2>. QED
    BY <2>2, <1>2, FS_EmptySet, TopIsNumber DEF OwedFits
<1>. QED
  BY <1>3, <1>4, <1>5, <1>6, <1>7 DEF OInv

(* What one instance does to the two sets that are counted.                *)
LEMMA BecomeCounts ==
  ASSUME TypeOK, NEW i \in Instances, NEW s \in InstanceState, Become(i, s)
  PROVE  /\ instance' \in [Instances -> InstanceState]
         /\ instance[i] # "off" => Cardinality(Up') <= Cardinality(Up)
         /\ Cardinality(Busy') =
              Cardinality(Busy) - (IF instance[i] = "busy" THEN 1 ELSE 0)
                                + (IF s = "busy" THEN 1 ELSE 0)
         /\ Cardinality(Busy') \in Nat
<1>1. /\ instance' \in [Instances -> InstanceState] /\ instance'[i] = s
      /\ \A j \in Instances \ {i} : instance'[j] = instance[j]
  BY DEF TypeOK, Become
<1>2. ASSUME instance[i] # "off" PROVE Cardinality(Up') <= Cardinality(Up)
  <2>1. Up' \in SUBSET Up
    BY <1>1, <1>2 DEF Up
  <2>. QED
    BY <2>1, CountsAreNumbers, FS_Subset
<1>3. Busy' = IF s = "busy" THEN Busy \cup {i} ELSE Busy \ {i}
  BY <1>1 DEF Busy
<1>4. i \in Busy <=> instance[i] = "busy"
  BY DEF Busy
<1>5. /\ Cardinality(Busy \cup {i}) = IF i \in Busy THEN Cardinality(Busy) ELSE Cardinality(Busy) + 1
      /\ Cardinality(Busy \ {i}) = IF i \in Busy THEN Cardinality(Busy) - 1 ELSE Cardinality(Busy)
  BY CountsAreNumbers, FS_AddElement, FS_RemoveElement
<1>6. Cardinality(Busy') =
        Cardinality(Busy) - (IF instance[i] = "busy" THEN 1 ELSE 0) + (IF s = "busy" THEN 1 ELSE 0)
  BY <1>3, <1>4, <1>5, CountsAreNumbers
<1>7. Cardinality(Busy') \in Nat
  <2>1. Busy' \in SUBSET Instances
    BY DEF Busy
  <2>2. IsFiniteSet(Busy')
    BY <2>1, LimitsAssumption, FS_Subset
  <2>. QED
    BY <2>2, FS_CardinalityType
<1>. QED
  BY <1>1, <1>2, <1>6, <1>7
-----------------------------------------------------------------------------
(* A step of the queue or of a worker moves rows between waiting, busy and   *)
(* orphaned, and launches nothing.                                          *)
PoolMove ==
  /\ waiting' \in 0 .. Rows /\ orphaned' \in 0 .. Rows
  /\ instance' \in [Instances -> InstanceState]
  /\ RowsFit'
  /\ Cardinality(Up') <= Cardinality(Up)
  /\ UNCHANGED <<tickVars, past>>

LEMMA InstanceStepMoves ==
  ASSUME TypeOK, RowsFit, NEW i \in Instances, InstanceStep(i)
  PROVE  PoolMove
<1>. USE LimitsAssumption, CountsAreNumbers
<1>1. waiting \in Nat /\ orphaned \in Nat /\ waiting + Cardinality(Busy) + orphaned <= Rows
  BY DEF TypeOK, RowsFit, Processing
<1>2. instance[i] \in InstanceState
  BY DEF TypeOK
<1>. DEFINE b(s) == IF s = "busy" THEN 1 ELSE 0
<1>3. PICK s \in InstanceState :
        /\ Become(i, s)
        /\ instance[i] # "off"
        /\ waiting' \in Nat /\ orphaned' \in Nat
        /\ waiting' + orphaned' + b(s) <= waiting + orphaned + b(instance[i])
        /\ UNCHANGED <<tickVars, past>>
  <2>1. CASE Boot(i)
    BY <2>1, <1>1 DEF Boot, InstanceState
  <2>2. CASE Claim(i)
    BY <2>2, <1>1 DEF Claim, InstanceState
  <2>3. CASE FindNothing(i)
    BY <2>3, <1>1 DEF FindNothing, InstanceState
  <2>4. CASE EndRun(i)
    <3>1. waiting' \in Nat /\ waiting' <= waiting + 1
      BY <2>4, <1>1 DEF EndRun
    <3>2. /\ Become(i, "poll") /\ instance[i] = "busy" /\ orphaned' = orphaned
          /\ UNCHANGED <<tickVars, past>>
      BY <2>4 DEF EndRun
    <3>3. waiting' + orphaned' + b("poll") <= waiting + orphaned + b(instance[i])
      <4>1. b("poll") = 0 /\ b(instance[i]) = 1
        BY <3>2
      <4>. HIDE DEF b
      <4>. QED
        BY <4>1, <3>1, <3>2, <1>1
    <3>. QED
      BY <3>1, <3>2, <3>3, <1>1 DEF InstanceState
  <2>5. CASE SelfTerminate(i) \/ Reclaim(i)
    BY <2>5, <1>1 DEF SelfTerminate, Reclaim, Vanish, InstanceState
  <2>6. CASE LoseRow(i)
    <3>1. waiting' \in Nat /\ waiting' <= waiting + 1
      BY <2>6, <1>1 DEF LoseRow
    <3>2. /\ Become(i, "lost") /\ instance[i] = "busy" /\ orphaned' = orphaned
          /\ UNCHANGED <<tickVars, past>>
      BY <2>6 DEF LoseRow
    <3>3. waiting' + orphaned' + b("lost") <= waiting + orphaned + b(instance[i])
      <4>1. b("lost") = 0 /\ b(instance[i]) = 1
        BY <3>2
      <4>. HIDE DEF b
      <4>. QED
        BY <4>1, <3>1, <3>2, <1>1
    <3>. QED
      BY <3>1, <3>2, <3>3, <1>1 DEF InstanceState
  <2>7. CASE StopLostRun(i)
    BY <2>7, <1>1 DEF StopLostRun, InstanceState
  <2>. QED
    BY <2>1, <2>2, <2>3, <2>4, <2>5, <2>6, <2>7 DEF InstanceStep
<1>4. /\ instance' \in [Instances -> InstanceState]
      /\ Cardinality(Up') <= Cardinality(Up)
      /\ Cardinality(Busy') = Cardinality(Busy) - b(instance[i]) + b(s)
      /\ Cardinality(Busy') \in Nat
  BY <1>3, BecomeCounts
<1>5. waiting' + Cardinality(Busy') + orphaned' <= Rows
  <2>1. b(s) \in Nat /\ b(instance[i]) \in Nat
    OBVIOUS
  <2>. HIDE DEF b
  <2>. QED
    BY <2>1, <1>1, <1>3, <1>4
<1>. QED
  BY <1>3, <1>4, <1>5 DEF PoolMove, RowsFit, Processing

LEMMA QueueStepMoves ==
  ASSUME TypeOK, RowsFit, Arrive \/ Reap
  PROVE  PoolMove
<1>. USE LimitsAssumption, CountsAreNumbers
<1>1. Busy' = Busy /\ Up' = Up
  BY DEF Arrive, Reap, Busy, Up
<1>2. /\ waiting' \in Nat /\ orphaned' \in Nat
      /\ waiting' + orphaned' + Cardinality(Busy) <= Rows
  BY DEF Arrive, Reap, TypeOK, RowsFit, Processing
<1>3. instance' \in [Instances -> InstanceState] /\ UNCHANGED <<tickVars, past>>
  BY DEF Arrive, Reap, TypeOK
<1>. QED
  BY <1>1, <1>2, <1>3 DEF PoolMove, RowsFit, Processing

LEMMA PoolMoveKeepsOInv == OInv /\ PoolMove => OInv'
<1>. SUFFICES ASSUME OInv, PoolMove PROVE OInv'
  OBVIOUS
<1>1. TypeOK'
  BY DEF OInv, TypeOK, PoolMove, tickVars
<1>2. \A t \in Ticks : InLadder(t)'
  BY DEF OInv, InLadder, PoolMove, tickVars
<1>0. past' = past /\ Cardinality(Up') <= Cardinality(Up)
  BY DEF PoolMove
<1>3. ASSUME past' = "clean" PROVE FleetFits'
  <2>1. FleetFits
    BY <1>0, <1>3 DEF OInv
  <2>2. \A t \in Ticks : shortfall[t] \in Nat
    BY LimitsAssumption DEF OInv, TypeOK
  <2>. QED
    BY <1>0, <2>1, <2>2, UpCountNext, CountsAreNumbers, LimitsAssumption DEF FleetFits, PoolMove, tickVars
<1>4. ASSUME past' # "unseen" PROVE OwedFits'
  <2>1. OwedFits /\ Owed' = Owed
    BY <1>0, <1>4 DEF OInv, PoolMove, tickVars, Owed
  <2>. QED
    BY <1>0, <2>1, UpCountNext, CountsAreNumbers, OwedIsFinite, TopIsNumber DEF OwedFits, Top
<1>. QED
  BY <1>1, <1>2, <1>3, <1>4 DEF OInv, PoolMove
-----------------------------------------------------------------------------
LEMMA PlanWithinCap ==
  ASSUME NEW q \in Nat, NEW inProg \in Nat, NEW running \in Nat
  PROVE  /\ Plan(q, inProg, running) \in 0 .. MaxWorkers
         /\ Plan(q, inProg, running) > 0 => running + Plan(q, inProg, running) <= MaxWorkers
<1>1. Need(q) \in Int
  BY LimitsAssumption DEF Need
<1>2. \A a, b \in Int : Monus(a, b) \in Nat
  BY DEF Monus
<1>3. Monus(MaxWorkers, running) \in 0 .. MaxWorkers
  BY LimitsAssumption DEF Monus
<1>4. Monus(MaxWorkers, running) > 0 => running + Monus(MaxWorkers, running) = MaxWorkers
  BY LimitsAssumption DEF Monus
<1>5. Monus(running, inProg) \in Int
  BY <1>2
<1>6. Monus(Need(q), Monus(running, inProg)) \in Nat
  BY <1>1, <1>2, <1>5
<1>. QED
  BY <1>3, <1>4, <1>6, LimitsAssumption DEF Plan, Least

LEMMA CountQueueKeepsOInv ==
  ASSUME OInv, NEW t \in Ticks, CountQueue(t)
  PROVE  OInv'
<1>. USE LimitsAssumption, CountsAreNumbers
<1>1. UNCHANGED <<Up, Busy, Processing, RowsFit, FleetFits, OwedFits>>
  BY DEF CountQueue, poolVars, Up, Busy, Processing, RowsFit, FleetFits, OwedFits, Owed, Top
<1>2. Processing \in 0 .. Rows
  BY DEF OInv, RowsFit, Processing, TypeOK
<1>3. TypeOK'
  BY <1>2 DEF OInv, TypeOK, CountQueue, poolVars
<1>4. \A u \in Ticks : InLadder(u)'
  BY DEF OInv, InLadder, CountQueue, TypeOK
<1>. QED
  BY <1>1, <1>3, <1>4 DEF OInv, CountQueue

(* A plan that counted every instance takes the part of its invocation.      *)
LEMMA PlanOwes ==
  ASSUME TypeOK, OwedFits, NEW t \in Ticks, NEW n \in 0 .. MaxWorkers,
         shortfall[t] = 0, tried[t] = 0, tried' = tried, Up' = Up,
         shortfall' = [shortfall EXCEPT ![t] = n],
         n > 0 => Cardinality(Up) + n <= MaxWorkers
  PROVE  OwedFits'
<1>. DEFINE Part == {t} \X (1 .. n * Types)
            Others == Slots(Ticks \ {t})
<1>0. Types \in Nat \ {0} /\ MaxWorkers \in Nat /\ n \in Nat /\ Cardinality(Up) \in Nat
  BY LimitsAssumption, CountsAreNumbers
<1>1. CASE n = 0
  <2>1. shortfall' = shortfall
    BY <1>1 DEF TypeOK
  <2>2. Owed' = Owed
    BY <2>1 DEF Owed
  <2>. QED
    BY <2>2 DEF OwedFits, Top
<1>2. CASE n > 0
  <2>1. n * Types \in Nat /\ n * Types <= Types * MaxWorkers
    BY <1>0
  <2>2. Owed' \in SUBSET (Part \cup Others)
    <3>1. ASSUME NEW p \in Owed' PROVE p \in Part \cup Others
      <4>1. /\ p \in Ticks \X (1 .. Types * MaxWorkers)
            /\ p[2] <= shortfall'[p[1]] * (Types - tried[p[1]])
        BY DEF Owed
      <4>2. CASE p[1] = t
        <5>1. shortfall'[t] = n /\ tried[t] = 0
          BY DEF TypeOK
        <5>2. p[2] <= n * Types
          BY <4>1, <4>2, <5>1, <1>0
        <5>. QED
          BY <4>1, <4>2, <5>2, <2>1
      <4>3. CASE p[1] # t
        BY <4>1, <4>3 DEF Slots
      <4>. QED
        BY <4>2, <4>3
    <3>. QED
      BY <3>1
  <2>3. IsFiniteSet(Part) /\ Cardinality(Part) = n * Types
    <3>1. IsFiniteSet({t}) /\ Cardinality({t}) = 1
      BY FS_Singleton
    <3>2. IsFiniteSet(1 .. n * Types) /\ Cardinality(1 .. n * Types) = n * Types
      BY <2>1, FS_Interval
    <3>. QED
      BY <3>1, <3>2, <2>1, FS_Product
  <2>4. IsFiniteSet(Others) /\ Cardinality(Others) = (Cardinality(Ticks) - 1) * (Types * MaxWorkers)
    <3>1. Cardinality(Ticks \ {t}) = Cardinality(Ticks) - 1
      BY LimitsAssumption, FS_RemoveElement
    <3>. QED
      BY <3>1, SlotsCount
  <2>5. Cardinality(Owed') <= Cardinality(Part \cup Others) /\ IsFiniteSet(Part \cup Others)
    <3>1. IsFiniteSet(Part \cup Others)
      BY <2>3, <2>4, FS_Union
    <3>. QED
      BY <2>2, <3>1, FS_Subset
  <2>6. Cardinality(Part \cup Others) <= n * Types + (Cardinality(Ticks) - 1) * (Types * MaxWorkers)
    <3>1. /\ Cardinality(Part \cup Others) = Cardinality(Part) + Cardinality(Others) - Cardinality(Part \cap Others)
          /\ IsFiniteSet(Part \cap Others)
      BY <2>3, <2>4, FS_Union, FS_Intersection
    <3>2. Cardinality(Part \cap Others) \in Nat
      BY <3>1, FS_CardinalityType
    <3>3. n * Types \in Nat /\ (Cardinality(Ticks) - 1) * (Types * MaxWorkers) \in Int
      BY <2>1, TopIsNumber
    <3>. HIDE DEF Part, Others
    <3>. QED
      BY <2>3, <2>4, <3>1, <3>2, <3>3
  <2>7. Cardinality(Up) + n * Types <= Types * MaxWorkers
    <3>1. Cardinality(Up) <= Cardinality(Up) * Types
      BY <1>0
    <3>2. (Cardinality(Up) + n) * Types <= Types * MaxWorkers
      BY <1>0, <1>2
    <3>3. (Cardinality(Up) + n) * Types = Cardinality(Up) * Types + n * Types
      BY <1>0
    <3>. QED
      BY <3>1, <3>2, <3>3, <1>0
  <2>8. Types * MaxWorkers + (Cardinality(Ticks) - 1) * (Types * MaxWorkers) = Top
    BY TopIsNumber DEF Top
  <2>9. Cardinality(Up) + Cardinality(Owed') <= Top
    <3>1. (Cardinality(Ticks) - 1) * (Types * MaxWorkers) \in Int
      BY TopIsNumber
    <3>2. Cardinality(Part \cup Others) \in Nat
      BY <2>5, FS_CardinalityType
    <3>. HIDE DEF Part, Others
    <3>. QED
      BY <2>1, <2>5, <2>6, <2>7, <2>8, <3>1, <3>2, <1>0, OwedIsFinite, TopIsNumber
  <2>. QED
    BY <2>9 DEF OwedFits, Top
<1>. QED
  BY <1>0, <1>1, <1>2

LEMMA PlanKeepsOInv ==
  ASSUME OInv, NEW t \in Ticks, DescribeAndPlan(t)
  PROVE  OInv'
<1>. USE LimitsAssumption, CountsAreNumbers
<1>1. UNCHANGED <<Up, Busy, Processing, RowsFit>>
  BY DEF DescribeAndPlan, poolVars, Up, Busy, Processing, RowsFit
<1>2. Counted = Up
  BY DEF Counted
<1>3. PICK running \in 0 .. Cardinality(Up) :
        LET n == Plan(queued[t], inProgress[t], running)
        IN  /\ shortfall' = [shortfall EXCEPT ![t] = n]
            /\ past' = IF n > 0 /\ running < Cardinality(Up) THEN "unseen"
                       ELSE IF n > 0 /\ \E u \in Ticks \ {t} : shortfall[u] > 0 THEN Misled
                       ELSE past
  BY <1>2 DEF DescribeAndPlan
<1>. DEFINE n == Plan(queued[t], inProgress[t], running)
<1>4. n \in 0 .. MaxWorkers /\ (n > 0 => running + n <= MaxWorkers)
  <2>1. queued[t] \in Nat /\ inProgress[t] \in Nat /\ running \in Nat
    BY DEF OInv, TypeOK
  <2>. QED
    BY <2>1, PlanWithinCap
<1>5. /\ shortfall' = [shortfall EXCEPT ![t] = n]
      /\ past' = IF n > 0 /\ running < Cardinality(Up) THEN "unseen"
                 ELSE IF n > 0 /\ \E u \in Ticks \ {t} : shortfall[u] > 0 THEN Misled
                 ELSE past
  BY <1>3
<1>. HIDE DEF n
<1>6. TypeOK'
  BY <1>4, <1>5 DEF OInv, TypeOK, DescribeAndPlan, poolVars, Misled
<1>7. /\ shortfall[t] = 0 /\ tried[t] = 0 /\ tried' = tried
      /\ \A u \in Ticks : shortfall[u] \in Nat
  BY DEF OInv, InLadder, DescribeAndPlan, TypeOK
<1>8. \A u \in Ticks : InLadder(u)'
  BY <1>4, <1>5, <1>7 DEF OInv, InLadder, DescribeAndPlan, TypeOK
<1>10. ASSUME n > 0, past' # "unseen" PROVE running = Cardinality(Up)
  <2>1. running \in Nat /\ running <= Cardinality(Up)
    OBVIOUS
  <2>2. ~(running < Cardinality(Up))
    BY <1>5, <1>10
  <2>. QED
    BY <2>1, <2>2
<1>11. past' # "unseen" => past # "unseen"
  BY <1>5 DEF Misled
<1>9. ASSUME past' = "clean" PROVE FleetFits'
  <2>1. past = "clean" /\ (n > 0 => \A u \in Ticks \ {t} : ~(shortfall[u] > 0))
    BY <1>5, <1>9 DEF Misled
  <2>2. FleetFits
    BY <2>1 DEF OInv
  <2>3. CASE n = 0
    <3>1. shortfall' = shortfall
      BY <1>5, <1>7, <2>3 DEF OInv, TypeOK
    <3>. QED
      BY <3>1, <2>2, <1>1 DEF FleetFits
  <2>4. CASE n # 0
    <3>1. n > 0 /\ running = Cardinality(Up)
      BY <2>4, <1>4, <1>9, <1>10
    <3>2. shortfall'[t] = n /\ \A u \in Ticks \ {t} : shortfall'[u] = 0
      BY <2>1, <3>1, <1>5, <1>7 DEF OInv, TypeOK
    <3>. QED
      BY <3>1, <3>2, <2>2, <1>1, <1>4 DEF FleetFits
  <2>. QED
    BY <2>3, <2>4
<1>12. ASSUME past' # "unseen" PROVE OwedFits'
  <2>1. OwedFits /\ TypeOK
    BY <1>11, <1>12 DEF OInv
  <2>2. n > 0 => Cardinality(Up) + n <= MaxWorkers
    BY <1>4, <1>10, <1>12
  <2>. QED
    BY <1>1, <1>4, <1>5, <1>7, <2>1, <2>2, PlanOwes
<1>. QED
  BY <1>1, <1>6, <1>8, <1>9, <1>12 DEF OInv

(* What a rung grants is taken from what its invocation owed: also when the   *)
(* answer is lost, since a rung is gone.                                     *)
LEMMA RungPays ==
  ASSUME NEW k \in Nat \ {0}, NEW s \in Nat, NEW c \in 0 .. s, NEW s2 \in {s, s - c}
  PROVE  s2 * (k - 1) + c <= s * k /\ s2 * (k - 1) \in Nat
<1>1. PICK j \in Nat : k = j + 1
  BY k - 1 \in Nat
<1>2. PICK d \in Nat : s = c + d
  BY s - c \in Nat
<1>3. c * j \in Nat /\ d * j \in Nat /\ s * k = c * j + d * j + c + d
  BY <1>1, <1>2
<1>4. s2 * (k - 1) \in {c * j + d * j, d * j}
  BY <1>1, <1>2
<1>. QED
  BY <1>3, <1>4

LEMMA GrantKeepsOInv ==
  ASSUME OInv, NEW t \in Ticks, NEW S \in SUBSET Instances,
         CreateFleet(t, S) \/ CreateFleetThrows(t, S)
  PROVE  OInv'
<1>. USE LimitsAssumption, CountsAreNumbers
<1>0. Grant(t, S)
  BY DEF CreateFleet, CreateFleetThrows
<1>1. S \cap Up = {} /\ IsFiniteSet(S) /\ Cardinality(S) \in Nat
  <2>1. IsFiniteSet(S)
    BY FS_Subset
  <2>. QED
    BY <1>0, <2>1, FS_CardinalityType DEF Grant
<1>2. Up' = Up \cup S
  BY <1>0 DEF Up, Grant, OInv, TypeOK
<1>3. Cardinality(Up') = Cardinality(Up) + Cardinality(S)
  <2>1. Cardinality(Up \cap S) = 0
    <3>1. Up \cap S = {}
      BY <1>1
    <3>. QED
      BY <3>1, FS_EmptySet
  <2>2. Cardinality(Up \cup S) = Cardinality(Up) + Cardinality(S) - Cardinality(Up \cap S)
    BY <1>1, FS_Union
  <2>3. Cardinality(Up \cup S) = Cardinality(Up) + Cardinality(S)
    BY <2>1, <2>2, <1>1
  <2>. QED
    BY <2>3, <1>2
<1>4. UNCHANGED <<Busy, Processing, RowsFit>>
  <2>1. Busy' = Busy
    BY <1>0 DEF Busy, Up, Grant, OInv, TypeOK
  <2>. QED
    BY <1>0, <2>1 DEF Processing, RowsFit, Grant
<1>5. /\ shortfall[t] \in 1 .. MaxWorkers /\ Cardinality(S) <= shortfall[t]
      /\ tick[t] = "ladder" /\ tried[t] \in 0 .. Types /\ tried[t] < Types
  BY <1>0, <1>1 DEF OInv, TypeOK, Grant
<1>6. /\ shortfall'[t] \in {shortfall[t], shortfall[t] - Cardinality(S)}
      /\ \A u \in Ticks \ {t} : shortfall'[u] = shortfall[u]
      /\ tried'[t] = tried[t] + 1
      /\ \A u \in Ticks \ {t} : tried'[u] = tried[u]
  BY DEF OInv, TypeOK, Grant, CreateFleet, CreateFleetThrows
<1>7. TypeOK'
  <2>1. instance' \in [Instances -> InstanceState]
    BY <1>0 DEF OInv, TypeOK, Grant, InstanceState
  <2>2. shortfall' \in [Ticks -> 0 .. MaxWorkers]
    BY <1>1, <1>5 DEF OInv, TypeOK, CreateFleet, CreateFleetThrows
  <2>3. tried' \in [Ticks -> 0 .. Types]
    BY <1>0, <1>5 DEF OInv, TypeOK, Grant
  <2>4. past' \in {"clean", "misled", "unseen"}
    BY DEF OInv, TypeOK, CreateFleet, CreateFleetThrows, Misled
  <2>. QED
    BY <1>0, <2>1, <2>2, <2>3, <2>4 DEF OInv, TypeOK, Grant
<1>8. \A u \in Ticks : InLadder(u)'
  <2>1. tick' = tick
    BY <1>0 DEF Grant
  <2>. QED
    BY <1>5, <1>6, <2>1 DEF OInv, InLadder
<1>9. ASSUME past' = "clean" PROVE FleetFits'
  <2>1. past = "clean" /\ shortfall'[t] = shortfall[t] - Cardinality(S)
    <3>1. CASE CreateFleet(t, S)
      BY <1>9, <3>1 DEF CreateFleet, OInv, TypeOK
    <3>2. CASE CreateFleetThrows(t, S)
      <4>1. S = {} /\ past = "clean" /\ shortfall' = shortfall
        BY <1>9, <3>2 DEF CreateFleetThrows, Misled
      <4>2. Cardinality(S) = 0
        BY <4>1, FS_EmptySet
      <4>. QED
        BY <4>1, <4>2, <1>5
    <3>. QED
      BY <3>1, <3>2
  <2>2. FleetFits
    BY <2>1 DEF OInv
  <2>3. /\ Cardinality(Up) + shortfall[t] <= MaxWorkers
        /\ \A u \in Ticks \ {t} : shortfall[u] = 0
    BY <2>2, <1>5 DEF FleetFits
  <2>4. Cardinality(Up') <= MaxWorkers /\ Cardinality(Up') + shortfall'[t] <= MaxWorkers
    BY <1>1, <1>3, <1>5, <2>1, <2>3
  <2>. QED
    BY <1>6, <2>3, <2>4 DEF FleetFits
<1>10. ASSUME past' # "unseen" PROVE OwedFits'
  <2>. DEFINE due  == shortfall[t] * (Types - tried[t])
              due2 == shortfall'[t] * (Types - tried'[t])
              Paid == {t} \X ((due2 + 1) .. due)
  <2>1. OwedFits
    BY <1>10 DEF OInv, CreateFleet, CreateFleetThrows, Misled
  <2>2. due2 \in Nat /\ due \in Nat /\ due2 + Cardinality(S) <= due /\ due <= Types * MaxWorkers
    <3>1. /\ Types - tried[t] \in Nat \ {0} /\ shortfall[t] \in Nat
          /\ Cardinality(S) \in 0 .. shortfall[t] /\ Types - tried'[t] = (Types - tried[t]) - 1
      BY <1>1, <1>5, <1>6
    <3>2. due2 \in Nat /\ due2 + Cardinality(S) <= due
      BY <3>1, <1>6, RungPays
    <3>3. due \in Nat
      BY <3>1
    <3>4. due <= Types * MaxWorkers
      <4>1. PICK a \in Nat : MaxWorkers = shortfall[t] + a
        BY <1>5, MaxWorkers - shortfall[t] \in Nat
      <4>2. PICK b \in Nat : Types = (Types - tried[t]) + b
        BY <1>5, tried[t] \in Nat
      <4>3. \A x, y, c, d \in Nat : x * y <= (y + d) * (x + c)
        <5>1. \A x, y, c, d \in Nat : (y + d) * (x + c) = x * y + y * c + d * x + d * c
          OBVIOUS
        <5>2. \A x, y \in Nat : x * y \in Nat
          OBVIOUS
        <5>. QED
          BY <5>1, <5>2
      <4>. QED
        BY <3>1, <4>1, <4>2, <4>3
    <3>. QED
      BY <3>2, <3>3, <3>4
  <2>3. Paid \in SUBSET Owed
    BY <2>2 DEF Owed
  <2>4. IsFiniteSet(Paid) /\ Cardinality(Paid) = due - due2
    <3>1. IsFiniteSet({t}) /\ Cardinality({t}) = 1
      BY FS_Singleton
    <3>. HIDE DEF due, due2
    <3>2. /\ IsFiniteSet((due2 + 1) .. due)
          /\ Cardinality((due2 + 1) .. due) = IF due2 + 1 > due THEN 0 ELSE due - (due2 + 1) + 1
      BY <2>2, FS_Interval
    <3>3. Cardinality((due2 + 1) .. due) = due - due2
      BY <2>2, <3>2, <1>1
    <3>4. /\ IsFiniteSet({t} \X ((due2 + 1) .. due))
          /\ Cardinality({t} \X ((due2 + 1) .. due)) = 1 * (due - due2)
      BY <3>1, <3>2, <3>3, FS_Product
    <3>. QED
      BY <3>4, <2>2
  <2>5. Owed' \in SUBSET (Owed \ Paid)
    <3>1. ASSUME NEW p \in Owed' PROVE p \in Owed /\ p \notin Paid
      <4>1. /\ p \in Ticks \X (1 .. Types * MaxWorkers)
            /\ p[2] <= shortfall'[p[1]] * (Types - tried'[p[1]])
        BY DEF Owed
      <4>2. CASE p[1] = t
        <5>1. p[2] <= due2
          BY <4>1, <4>2
        <5>2. p[2] \in Nat
          BY <4>1
        <5>3. p \notin Paid
          <6>. HIDE DEF due, due2
          <6>. QED
            BY <5>1, <5>2, <2>2
        <5>4. p[2] <= due
          <6>. HIDE DEF due, due2
          <6>. QED
            BY <5>1, <5>2, <2>2, <1>1
        <5>. QED
          BY <4>1, <4>2, <5>3, <5>4 DEF Owed
      <4>3. CASE p[1] # t
        <5>1. p \in Owed
          BY <4>1, <4>3, <1>6 DEF Owed
        <5>2. p \notin Paid
          <6>. HIDE DEF due, due2
          <6>. QED
            BY <4>3
        <5>. QED
          BY <5>1, <5>2
      <4>. QED
        BY <4>2, <4>3
    <3>. QED
      BY <3>1
  <2>6. Cardinality(Owed') <= Cardinality(Owed) - (due - due2)
    <3>. HIDE DEF Paid, due, due2
    <3>1. IsFiniteSet(Owed \ Paid) /\ Cardinality(Owed \ Paid) = Cardinality(Owed) - Cardinality(Owed \cap Paid)
      BY OwedIsFinite, FS_Difference
    <3>2. Owed \cap Paid = Paid
      BY <2>3
    <3>3. Cardinality(Owed') <= Cardinality(Owed \ Paid)
      BY <2>5, <3>1, FS_Subset
    <3>. QED
      BY <2>4, <3>1, <3>2, <3>3
  <2>7. Cardinality(Up') + Cardinality(Owed') <= Cardinality(Up) + Cardinality(Owed)
    <3>. HIDE DEF due, due2
    <3>. QED
      BY <2>2, <2>6, <1>1, <1>3, OwedIsFinite
  <2>. QED
    BY <2>1, <2>7, UpCountNext, OwedIsFinite, TopIsNumber DEF OwedFits, Top
<1>. QED
  BY <1>4, <1>7, <1>8, <1>9, <1>10 DEF OInv

LEMMA TickOverKeepsOInv ==
  ASSUME OInv, NEW t \in Ticks, TickOver(t)
  PROVE  OInv'
<1>. USE LimitsAssumption, CountsAreNumbers
<1>1. UNCHANGED <<Up, Busy, Processing, RowsFit, past>>
  BY DEF TickOver, poolVars, Up, Busy, Processing, RowsFit
<1>2. TypeOK'
  BY DEF OInv, TypeOK, TickOver, poolVars
<1>3. \A u \in Ticks : InLadder(u)'
  BY DEF OInv, TypeOK, InLadder, TickOver
<1>5. /\ shortfall'[t] = 0 /\ tried'[t] = 0
      /\ \A u \in Ticks \ {t} : shortfall'[u] = shortfall[u] /\ tried'[u] = tried[u]
  BY DEF OInv, TypeOK, TickOver
<1>4. ASSUME past' = "clean" PROVE FleetFits'
  <2>1. FleetFits
    BY <1>1, <1>4 DEF OInv
  <2>. QED
    BY <2>1, <1>1, <1>5 DEF FleetFits
<1>6. ASSUME past' # "unseen" PROVE OwedFits'
  <2>1. OwedFits
    BY <1>1, <1>6 DEF OInv
  <2>2. Owed' \in SUBSET Owed
    <3>1. ASSUME NEW p \in Owed' PROVE p \in Owed
      <4>1. /\ p \in Ticks \X (1 .. Types * MaxWorkers)
            /\ p[2] <= shortfall'[p[1]] * (Types - tried'[p[1]])
        BY DEF Owed
      <4>2. p[1] # t
        <5>1. ASSUME p[1] = t PROVE FALSE
          <6>1. p[2] <= 0 * (Types - 0)
            BY <4>1, <5>1, <1>5
          <6>. QED
            BY <4>1, <6>1
        <5>. QED
          BY <5>1
      <4>. QED
        BY <4>1, <4>2, <1>5 DEF Owed
    <3>. QED
      BY <3>1
  <2>3. Cardinality(Owed') <= Cardinality(Owed)
    BY <2>2, OwedIsFinite, FS_Subset
  <2>. QED
    BY <2>1, <2>3, <1>1, OwedIsFinite, TopIsNumber DEF OwedFits, Top
<1>. QED
  BY <1>1, <1>2, <1>3, <1>4, <1>6 DEF OInv

LEMMA StepKeepsOInv == OInv /\ [Next]_vars => OInv'
<1>. SUFFICES ASSUME OInv, [Next]_vars PROVE OInv'
  OBVIOUS
<1>1. CASE UNCHANGED vars
  BY <1>1 DEF OInv, vars, poolVars, tickVars, TypeOK, RowsFit, InLadder, FleetFits,
              Processing, Busy, Up, OwedFits, Owed, Top
<1>2. CASE Arrive \/ Reap
  BY <1>2, QueueStepMoves, PoolMoveKeepsOInv DEF OInv
<1>3. ASSUME NEW i \in Instances, InstanceStep(i) PROVE OInv'
  BY <1>3, InstanceStepMoves, PoolMoveKeepsOInv DEF OInv
<1>4. ASSUME NEW t \in Ticks, TickStep(t) PROVE OInv'
  <2>1. CASE CountQueue(t)
    BY <2>1, CountQueueKeepsOInv
  <2>2. CASE DescribeAndPlan(t)
    BY <2>2, PlanKeepsOInv
  <2>3. CASE CreateTags(t) \/ TickDies(t)
    BY <2>3, TickOverKeepsOInv DEF CreateTags, TickDies
  <2>4. CASE AskFleet(t)
    BY <2>4, GrantKeepsOInv DEF AskFleet
  <2>. QED
    BY <1>4, <2>1, <2>2, <2>3, <2>4 DEF TickStep
<1>. QED
  BY <1>1, <1>2, <1>3, <1>4 DEF Next
-----------------------------------------------------------------------------
(* Every reachable state satisfies OInv. *)
THEOREM FleetInvariant == Spec => []OInv
  BY InitEstablishesOInv, StepKeepsOInv, PTL DEF Spec

(* No count is ever negative or above its bound: a busy worker and an        *)
(* orphaned row never stand for more rows than the queue holds, and no        *)
(* ladder launches more than its plan.                                      *)
THEOREM FleetTyped == Spec => []TypeOK
  BY FleetInvariant, PTL DEF OInv

(* "capped by MAX_WORKERS", for every cap, ladder and number of overlapping   *)
(* invocations, wherever any of them dies; and what overlapping plans and     *)
(* lost answers can make of the cap.                                         *)
THEOREM CapKept == Spec => []FleetWithinMax
<1>1. OInv => FleetWithinMax
  <2>1. ASSUME OInv, past # "unseen", past # "misled" PROVE Cardinality(Up) <= MaxWorkers
    BY <2>1 DEF OInv, TypeOK, FleetFits
  <2>2. ASSUME OInv, past # "unseen"
        PROVE  Cardinality(Up) + Cardinality(Owed) <= Cardinality(Ticks) * (Types * MaxWorkers)
    BY <2>2 DEF OInv, OwedFits, Top
  <2>. QED
    BY <2>1, <2>2 DEF FleetWithinMax
<1>. QED
  BY <1>1, FleetInvariant, PTL
=============================================================================
