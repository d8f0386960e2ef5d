---------------------------- MODULE Orchestrator ----------------------------
(***************************************************************************)
(* The scale-up Lambda as the sequence of calls it is: count the queue,     *)
(* describe the instances, walk the ladder of instance types with           *)
(* CreateFleet, tag what was launched.  Invocations overlap (a tick may     *)
(* take a minute, and the cron fires every minute) and may die anywhere.    *)
(*                                                                         *)
(* One pool and the queue it drains; with two pools the handler does the    *)
(* same for each.  Rows are only counted here: VideoQueue and JobQueue say   *)
(* what happens to each, and take the plan as one step.                     *)
(***************************************************************************)
EXTENDS Naturals, FiniteSets

CONSTANTS
  Rows,        \* bound on the rows of the pool's queue that are not settled
  Instances,   \* EC2 instance slots
  Ticks,       \* invocations that can be under way at the same time
  MaxWorkers,  \* config.MAX_WORKERS
  Divisor,     \* config.DIVISOR
  Types        \* calls of CreateFleet in a ladder: config.WORKER_INSTANCE_TYPES,
               \* and the On-Demand fallback

ASSUME LimitsAssumption ==
  /\ Rows \in Nat /\ MaxWorkers \in Nat
  /\ Divisor \in Nat \ {0} /\ Types \in Nat \ {0}
  /\ IsFiniteSet(Instances) /\ IsFiniteSet(Ticks)

VARIABLES
  waiting,    \* rows to be claimed
  orphaned,   \* rows 'processing' whose worker is gone
  instance,   \* state of a slot
  tick,       \* where an invocation is
  queued, inProgress,   \* its two counts
  shortfall,  \* what it has yet to launch: toLaunch, less what CreateFleet returned
  tried,      \* how many instance types it has tried
  past        \* history: "unseen" once a plan missed an instance; before that
              \* "misled" once a plan was made beside another's ladder, or a
              \* fleet was granted and the answer lost

poolVars == <<waiting, orphaned, instance>>
tickVars == <<tick, queued, inProgress, shortfall, tried>>
vars     == <<poolVars, tickVars, past>>

(* "poll" looks at the queue; "idle" found it empty and may terminate; a     *)
(* "busy" instance has one row in 'processing'; a "lost" one still runs a    *)
(* row that was cancelled or reaped.                                        *)
InstanceState == {"off", "pending", "poll", "idle", "busy", "lost"}

TypeOK ==
  /\ waiting \in 0 .. Rows /\ orphaned \in 0 .. Rows
  /\ instance \in [Instances -> InstanceState]
  /\ tick     \in [Ticks -> {"over", "counted", "ladder"}]
  /\ queued \in [Ticks -> 0 .. Rows] /\ inProgress \in [Ticks -> 0 .. Rows]
  /\ shortfall \in [Ticks -> 0 .. MaxWorkers]
  /\ tried     \in [Ticks -> 0 .. Types]
  /\ past \in {"clean", "misled", "unseen"}
-----------------------------------------------------------------------------
Up   == {i \in Instances : instance[i] # "off"}
Busy == {i \in Instances : instance[i] = "busy"}
Processing == Cardinality(Busy) + orphaned

Init ==
  /\ waiting  = 0 /\ orphaned = 0
  /\ instance = [i \in Instances |-> "off"]
  /\ tick     = [t \in Ticks |-> "over"]
  /\ queued = [t \in Ticks |-> 0] /\ inProgress = [t \in Ticks |-> 0]
  /\ shortfall = [t \in Ticks |-> 0]
  /\ tried     = [t \in Ticks |-> 0]
  /\ past = "clean"
-----------------------------------------------------------------------------
(* The queue and the workers, as far as the counts depend on them.          *)

Arrive ==
  /\ waiting + Processing < Rows
  /\ waiting' = waiting + 1
  /\ UNCHANGED <<orphaned, instance, tickVars, past>>

Become(i, state) == instance' = [instance EXCEPT ![i] = state]

Boot(i) ==
  /\ instance[i] = "pending"
  /\ Become(i, "poll")
  /\ UNCHANGED <<waiting, orphaned, tickVars, past>>

Claim(i) ==
  /\ instance[i] \in {"poll", "idle"}
  /\ waiting > 0
  /\ waiting' = waiting - 1
  /\ Become(i, "busy")
  /\ UNCHANGED <<orphaned, tickVars, past>>

FindNothing(i) ==
  /\ instance[i] = "poll" /\ waiting = 0
  /\ Become(i, "idle")
  /\ UNCHANGED <<waiting, orphaned, tickVars, past>>

(* The run ends; its row is finished or goes back to the queue. *)
EndRun(i) ==
  /\ instance[i] = "busy"
  /\ waiting' \in {waiting, waiting + 1}
  /\ Become(i, "poll")
  /\ UNCHANGED <<orphaned, tickVars, past>>

(* The row of a running worker is cancelled, or reaped. *)
LoseRow(i) ==
  /\ instance[i] = "busy"
  /\ waiting' \in {waiting, waiting + 1}
  /\ Become(i, "lost")
  /\ UNCHANGED <<orphaned, tickVars, past>>

(* The heartbeat aborts the run. *)
StopLostRun(i) ==
  /\ instance[i] = "lost"
  /\ Become(i, "poll")
  /\ UNCHANGED <<waiting, orphaned, tickVars, past>>

Vanish(i) ==
  /\ Become(i, "off")
  /\ orphaned' = IF instance[i] = "busy" THEN orphaned + 1 ELSE orphaned
  /\ UNCHANGED <<waiting, tickVars, past>>

SelfTerminate(i) == instance[i] = "idle" /\ Vanish(i)

(* A Spot reclaim; the row of a busy worker stays 'processing'. *)
Reclaim(i) == instance[i] # "off" /\ Vanish(i)

(* REAP_SQL of some tick returns the rows of workers that are gone. *)
Reap ==
  /\ orphaned > 0
  /\ \E n \in 1 .. orphaned :
       waiting' = waiting + n /\ orphaned' = orphaned - n
  /\ UNCHANGED <<instance, tickVars, past>>
-----------------------------------------------------------------------------
(* The handler.                                                            *)

(* COUNT_QUEUE_SQL *)
CountQueue(t) ==
  /\ tick[t] = "over"
  /\ tick'       = [tick EXCEPT ![t] = "counted"]
  /\ queued'     = [queued EXCEPT ![t] = waiting]
  /\ inProgress' = [inProgress EXCEPT ![t] = Processing]
  /\ UNCHANGED <<poolVars, shortfall, tried, past>>

FaultyCountedRunningOnly == {i \in Up : instance[i] # "pending"}

(* instance-state-name is pending or running *)
Counted == Up

Monus(a, b) == IF a > b THEN a - b ELSE 0
Least(a, b) == IF a < b THEN a ELSE b
Need(q)     == (q + Divisor - 1) \div Divisor

FaultyPlanCountsBusy(q, inProg, running) ==
  Least(Monus(Need(q), running), Monus(MaxWorkers, running))

Plan(q, inProg, running) ==
  Least(Monus(Need(q), Monus(running, inProg)), Monus(MaxWorkers, running))

Misled == IF past = "unseen" THEN "unseen" ELSE "misled"

(* countRunningWorkers answers, and plan() runs on what was counted before.  *)
(* An instance whose role tag is not visible yet is not in the answer.      *)
DescribeAndPlan(t) ==
  /\ tick[t] = "counted"
  /\ \E running \in 0 .. Cardinality(Counted) :
       LET n == Plan(queued[t], inProgress[t], running)
       IN  /\ shortfall' = [shortfall EXCEPT ![t] = n]
           /\ past' = IF n > 0 /\ running < Cardinality(Counted) THEN "unseen"
                      ELSE IF n > 0 /\ \E u \in Ticks \ {t} : shortfall[u] > 0 THEN Misled
                      ELSE past
  /\ tick'       = [tick EXCEPT ![t] = "ladder"]
  /\ queued'     = [queued EXCEPT ![t] = 0]
  /\ inProgress' = [inProgress EXCEPT ![t] = 0]
  /\ UNCHANGED <<poolVars, tried>>

(* One rung: EC2 grants as many instances of the type as it has now, ...   *)
Grant(t, S) ==
  /\ tick[t] = "ladder" /\ shortfall[t] > 0 /\ tried[t] < Types
  /\ S \subseteq Instances \ Up /\ Cardinality(S) <= shortfall[t]
  /\ instance' = [i \in Instances |-> IF i \in S THEN "pending" ELSE instance[i]]
  /\ tried'    = [tried EXCEPT ![t] = @ + 1]
  /\ UNCHANGED <<waiting, orphaned, tick, queued, inProgress>>

(* ... and returns their ids, ... *)
CreateFleet(t, S) ==
  /\ Grant(t, S)
  /\ shortfall' = [shortfall EXCEPT ![t] = @ - Cardinality(S)]
  /\ UNCHANGED past

(* ... or the call throws, before EC2 granted anything or after it did: the  *)
(* exception is logged and [] returned, so that the next rung asks for the   *)
(* whole shortfall again.                                                   *)
CreateFleetThrows(t, S) ==
  /\ Grant(t, S)
  /\ past' = IF S = {} THEN past ELSE Misled
  /\ UNCHANGED shortfall

TickOver(t) ==
  /\ tick'     = [tick EXCEPT ![t] = "over"]
  /\ queued'   = [queued EXCEPT ![t] = 0] /\ inProgress' = [inProgress EXCEPT ![t] = 0]
  /\ shortfall' = [shortfall EXCEPT ![t] = 0]
  /\ tried'     = [tried EXCEPT ![t] = 0]
  /\ UNCHANGED <<poolVars, past>>

(* The ladder is exhausted or satisfied, or nothing was to be launched:      *)
(* CreateTags, and the handler ends.                                        *)
CreateTags(t) ==
  /\ tick[t] = "ladder"
  /\ shortfall[t] = 0 \/ tried[t] = Types
  /\ TickOver(t)

(* A call throws, or the Lambda runs into its timeout. *)
TickDies(t) == tick[t] # "over" /\ TickOver(t)
-----------------------------------------------------------------------------
AskFleet(t)   == \E S \in SUBSET Instances : CreateFleet(t, S) \/ CreateFleetThrows(t, S)
LaunchSome(t) == \E i \in Instances : CreateFleet(t, {i})

TickStep(t) ==
  \/ CountQueue(t) \/ DescribeAndPlan(t) \/ CreateTags(t) \/ TickDies(t)
  \/ AskFleet(t)

InstanceStep(i) ==
  \/ Boot(i) \/ Claim(i) \/ FindNothing(i) \/ EndRun(i) \/ SelfTerminate(i)
  \/ Reclaim(i) \/ LoseRow(i) \/ StopLostRun(i)

Next ==
  \/ Arrive \/ Reap
  \/ \E i \in Instances : InstanceStep(i)
  \/ \E t \in Ticks : TickStep(t)

(* The cron keeps firing and its calls answer; EC2 does not refuse for ever; *)
(* instances boot, poll, and terminate when idle; a lost run is aborted.  No  *)
(* other run need end.                                                      *)
Fairness ==
  /\ \A t \in Ticks :
       /\ WF_vars(CountQueue(t) \/ DescribeAndPlan(t) \/ AskFleet(t) \/ CreateTags(t))
       /\ SF_vars(LaunchSome(t))
  /\ \A i \in Instances : WF_vars(Boot(i) \/ Claim(i) \/ StopLostRun(i) \/ SelfTerminate(i))

Spec == Init /\ [][Next]_vars /\ Fairness
-----------------------------------------------------------------------------
(* Properties.                                                             *)

(* What the running ladders can still launch, if every answer of EC2 is lost. *)
Owed ==
  {p \in Ticks \X (1 .. Types * MaxWorkers) : p[2] <= shortfall[p[1]] * (Types - tried[p[1]])}

(* "capped by MAX_WORKERS": as long as every plan counts the instances that  *)
(* exist, one invocation at a time keeps the fleet within the cap, wherever  *)
(* it dies.  Plans made during another's ladder, and rungs whose answer was  *)
(* lost and which are asked again, do exceed it; together they stay within   *)
(* the cap for each invocation and each rung, what they may still launch     *)
(* included.                                                                *)
FleetWithinMax ==
  past # "unseen" =>
    /\ past # "misled" => Cardinality(Up) <= MaxWorkers
    /\ Cardinality(Up) + Cardinality(Owed) <= Cardinality(Ticks) * (Types * MaxWorkers)

(* A plan never does without an instance it needs: with fewer than          *)
(* MAX_WORKERS busy, a queue that stays non-empty is claimed from again and  *)
(* again, although counts and plan are taken at different times and idle     *)
(* workers count as spare while they are terminating.  "a busy worker cannot *)
(* suppress a needed launch": the busy ones may be busy for ever.            *)
QueueIsServed ==
  (/\ <>[][\A i \in Instances : Reclaim(i) => instance[i] \in {"idle", "busy", "lost"}]_vars
   /\ <>[][\A t \in Ticks : TickDies(t) => CreateTags(t)]_vars
   /\ <>[](Cardinality(Busy) < MaxWorkers))
  => \/ []<>(waiting = 0)
     \/ []<><<\E i \in Instances : Claim(i)>>_vars
=============================================================================
