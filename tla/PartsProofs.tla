---------------------------- MODULE PartsProofs ----------------------------
(***************************************************************************)
(* Proofs about the parts that share no state, for every set of videos,      *)
(* tenants, clicks, workers, levels and bases, and for every bound.  Each    *)
(* part has an inductive invariant of its own, with three lemmas: it holds   *)
(* to begin with, a step of the part keeps it, and the part's property       *)
(* follows.  Of the composition PartMoves is all that they need.             *)
(* The last section is about the sweep of cancelled artifacts, by itself.     *)
(***************************************************************************)
EXTENDS Parts, FiniteSetTheorems, WellFoundedInduction, TLAPS

(* A step of the composition is one of the part that runs, or of none.       *)
LEMMA PartMoves ==
  ASSUME [Next]_vars
  PROVE  /\ part' = part
         /\ part = "list"       => [L!Next]_(L!vars)
         /\ part = "mutations"  => [D!Next]_(D!vars)
         /\ part = "figures"    => [F!Next]_(F!vars)
         /\ part = "embedded"   => [E!Next]_(E!vars)
         /\ part = "menu"       => [P!Next]_(P!vars)
         /\ part = "settings"   => [S!Next]_(S!vars)
         /\ part = "card"       => [A!Next]_(A!vars)
         /\ part = "connection" => [H!Next]_(H!vars)
         /\ part = "api"        => [K!Next]_(K!vars)
<1>1. CASE Next
  BY <1>1 DEF Next, lVars, dVars, fVars, eVars, pVars, sVars, aVars, cVars, kVars
<1>2. CASE UNCHANGED vars
  BY <1>2 DEF vars, lVars, L!vars, dVars, D!vars, D!cacheVars, D!mutationVars,
     fVars, F!vars, eVars, E!vars, pVars, P!vars, sVars, S!vars,
     aVars, A!vars,
     kVars, K!vars, cVars, H!vars, H!storeVars, H!pageVars, H!queryVars
<1>. QED BY <1>1, <1>2
-----------------------------------------------------------------------------
(* The list.  An answer, on its way or cached, has rows of the tenant it was  *)
(* asked for, and what the open page has asked for was asked for the tenant   *)
(* of now: the settings are saved on a page of their own.                     *)

(* Being elsewhere is not a page that somebody may open.                    *)
LEMMA ElsewhereIsNoPage == L!Elsewhere \notin ListKeys
BY PartsAssumption DEF L!ListingAssumption, L!Elsewhere

OfTenant(answer, t) == \A v \in DOMAIN answer.cards : Owner[v] = t

(* An answer on its way, or none. *)
FetchIs(f) ==
  /\ DOMAIN f = {"sent", "tenant", "done", "answer"}
  /\ DOMAIN f.answer = {"cards", "total", "torn"}
  /\ f.sent \in BOOLEAN
  /\ ~f.sent => f.done = {}
  /\ OfTenant(f.answer, f.tenant)

AnswersOwn ==
  /\ DOMAIN lFetch = ListKeys /\ DOMAIN lCache = ListKeys
  /\ \A k \in ListKeys : /\ FetchIs(lFetch[k])
                         /\ lCache[k].has => OfTenant(lCache[k].answer, lCache[k].tenant)

(* The settings do not change while a page is open. *)
PageOfTenant ==
  lView \in ListKeys =>
    /\ lVisit \in {"due", "answered"} => (lFetch[lView].sent => lFetch[lView].tenant = lTenant)
    /\ lVisit = "due" => lFetch[lView].sent
    /\ lVisit = "answered" => lCache[lView].has /\ lCache[lView].tenant = lTenant

ListInv == AnswersOwn /\ PageOfTenant

(* No request, which has read nothing.                                      *)
LEMMA IdleIs == FetchIs(L!Idle) /\ ~L!Idle.sent
BY DEF L!Idle, L!Blank, FetchIs, OfTenant

(* A request as it is sent.                                                 *)
LEMMA RequestIs == FetchIs(L!Request) /\ L!Request.sent /\ L!Request.tenant = lTenant
BY DEF L!Request, L!Idle, L!Blank, FetchIs, OfTenant

(* The list, before anything is fetched.                                    *)
LEMMA ListStarts == ASSUME L!Init PROVE ListInv
<1>1. /\ \A k \in ListKeys : lFetch[k] = L!Idle /\ ~lCache[k].has
      /\ DOMAIN lFetch = ListKeys /\ DOMAIN lCache = ListKeys /\ lView = L!Elsewhere
  BY DEF L!Init, L!Empty
<1>. QED BY <1>1, IdleIs, ElsewhereIsNoPage DEF ListInv, AnswersOwn, PageOfTenant

(* A statement reads rows of the tenant the request names.                  *)
LEMMA StatementKeeps ==
  ASSUME ListInv, NEW k \in ListKeys, NEW s \in L!Statements, L!Statement(k, s)
  PROVE  ListInv'
<1>. DEFINE f == lFetch[k]
            g == [f EXCEPT !.done = @ \cup {s},
                    !.answer = IF s = "rows" THEN L!ReadRows(k) ELSE L!ReadCount(k)]
<1>1. f.sent /\ lFetch' = [lFetch EXCEPT ![k] = g] /\ UNCHANGED <<lTenant, lView, lCache, lVisit>>
  BY DEF L!Statement
<1>2. FetchIs(f) /\ DOMAIN lFetch = ListKeys
  BY DEF ListInv, AnswersOwn
<1>3. /\ DOMAIN L!ReadRows(k) = {"cards", "total", "torn"}
      /\ OfTenant(L!ReadRows(k), f.tenant)
  <2>1. \A v \in L!Window(L!Matching(f.tenant, k[1], lRow), k[2]) : Owner[v] = f.tenant
    BY DEF L!Window, L!Matching
  <2>2. DOMAIN L!ReadRows(k) = DOMAIN f.answer
    BY DEF L!ReadRows
  <2>3. L!ReadRows(k).cards = [v \in L!Window(L!Matching(f.tenant, k[1], lRow), k[2]) |-> lRow[v]]
    BY <1>2 DEF L!ReadRows, FetchIs
  <2>. QED BY <1>2, <2>1, <2>2, <2>3 DEF OfTenant, FetchIs
<1>4. /\ DOMAIN L!ReadCount(k) = {"cards", "total", "torn"}
      /\ OfTenant(L!ReadCount(k), f.tenant)
  <2>1. DOMAIN L!ReadCount(k) = DOMAIN f.answer /\ L!ReadCount(k).cards = f.answer.cards
    BY <1>2 DEF L!ReadCount, FetchIs
  <2>. QED BY <1>2, <2>1 DEF OfTenant, FetchIs
<1>5. FetchIs(g) /\ g.sent /\ g.tenant = f.tenant
  <2>1. /\ DOMAIN g = {"sent", "tenant", "done", "answer"}
        /\ g.sent = f.sent /\ g.tenant = f.tenant
        /\ g.answer = IF s = "rows" THEN L!ReadRows(k) ELSE L!ReadCount(k)
    BY <1>2 DEF FetchIs
  <2>. QED BY <1>1, <1>2, <1>3, <1>4, <2>1 DEF FetchIs
<1>. HIDE DEF f, g
<1>6. lFetch'[k] = g /\ \A j \in ListKeys \ {k} : lFetch'[j] = lFetch[j]
  BY <1>1, <1>2
<1>7. AnswersOwn'
  BY <1>1, <1>2, <1>5, <1>6 DEF ListInv, AnswersOwn
<1>8. PageOfTenant'
  BY <1>1, <1>5, <1>6 DEF ListInv, PageOfTenant, f
<1>. QED BY <1>7, <1>8 DEF ListInv

(* What happens to rows marks answers as torn, and does no more to them.    *)
LEMMA RowMovesKeeps ==
  ASSUME ListInv, NEW v \in ListVideos, L!RowMoves(v)
  PROVE  ListInv'
<1>1. UNCHANGED <<lTenant, lView, lCache, lVisit>> /\ DOMAIN lFetch' = ListKeys
  BY DEF L!RowMoves
<1>2. ASSUME NEW k \in ListKeys
      PROVE  /\ lFetch'[k].sent = lFetch[k].sent /\ lFetch'[k].tenant = lFetch[k].tenant
             /\ FetchIs(lFetch'[k])
  <2>1. lFetch'[k] = lFetch[k] \/ lFetch'[k] = [lFetch[k] EXCEPT !.answer.torn = TRUE]
    BY DEF L!RowMoves
  <2>2. FetchIs(lFetch[k])
    BY DEF ListInv, AnswersOwn
  <2>3. CASE lFetch'[k] = [lFetch[k] EXCEPT !.answer.torn = TRUE]
    <3>1. /\ DOMAIN lFetch'[k] = DOMAIN lFetch[k]
          /\ lFetch'[k].sent = lFetch[k].sent /\ lFetch'[k].tenant = lFetch[k].tenant
          /\ lFetch'[k].done = lFetch[k].done
          /\ DOMAIN lFetch'[k].answer = DOMAIN lFetch[k].answer
          /\ lFetch'[k].answer.cards = lFetch[k].answer.cards
      BY <2>2, <2>3 DEF FetchIs
    <3>. QED BY <2>2, <3>1 DEF FetchIs, OfTenant
  <2>. QED BY <2>1, <2>2, <2>3
<1>3. AnswersOwn'
  BY <1>1, <1>2 DEF ListInv, AnswersOwn
<1>4. PageOfTenant'
  BY <1>1, <1>2 DEF ListInv, PageOfTenant
<1>. QED BY <1>3, <1>4 DEF ListInv

(* A request for the page that is open is for the tenant of now.            *)
LEMMA SendKeeps ==
  ASSUME ListInv, NEW k \in ListKeys, L!Send(k), lView' = k, UNCHANGED <<lTenant, lCache>>
  PROVE  ListInv'
BY RequestIs DEF L!Send, ListInv, AnswersOwn, PageOfTenant

(* A page is opened: with a request, or with what there is.                  *)
LEMMA ShowKeeps ==
  ASSUME ListInv, NEW k \in ListKeys, L!Show(k)
  PROVE  ListInv'
<1>1. PICK fresh : L!FetchUnless(k, fresh)
  BY DEF L!Show
<1>2. CASE L!Send(k)
  BY <1>2, SendKeeps DEF L!Show
<1>3. CASE lVisit' = "reuses" /\ UNCHANGED <<lSends, lFetch, lError>>
  BY <1>3 DEF L!Show, ListInv, AnswersOwn, PageOfTenant
<1>. QED BY <1>1, <1>2, <1>3 DEF L!FetchUnless

(* An answer is cached with the tenant it was asked for.                    *)
LEMMA ArriveKeeps ==
  ASSUME ListInv, NEW k \in ListKeys, L!Arrive(k)
  PROVE  ListInv'
<1>1. /\ lFetch[k].done = L!Statements
      /\ lFetch' = [lFetch EXCEPT ![k] = L!Idle]
      /\ lCache' = [lCache EXCEPT ![k] =
           [has |-> TRUE, tenant |-> lFetch[k].tenant, answer |-> lFetch[k].answer]]
      /\ UNCHANGED <<lTenant, lView>>
      /\ lVisit' = IF lView = k /\ lVisit = "due" THEN "answered" ELSE lVisit
  BY DEF L!Arrive
<1>2. FetchIs(lFetch[k]) /\ lFetch[k].sent
  BY <1>1 DEF ListInv, AnswersOwn, FetchIs, L!Statements
<1>3. AnswersOwn'
  BY <1>1, <1>2, IdleIs DEF ListInv, AnswersOwn, FetchIs
<1>4. PageOfTenant'
  BY <1>1, <1>2, IdleIs DEF ListInv, AnswersOwn, PageOfTenant
<1>. QED BY <1>3, <1>4 DEF ListInv

(* Every step of the list keeps that.                                       *)
LEMMA ListKept == ASSUME ListInv, [L!Next]_(L!vars) PROVE ListInv'
<1>1. CASE L!ServerStep
  BY <1>1, StatementKeeps, RowMovesKeeps DEF L!ServerStep
<1>2. ASSUME NEW t \in Tenants, L!Save(t) PROVE ListInv'
  BY <1>2, ElsewhereIsNoPage DEF L!Save, ListInv, AnswersOwn, PageOfTenant
<1>3. ASSUME NEW k \in ListKeys, L!Turn(k) \/ L!Filter(k) \/ L!Open(k) PROVE ListInv'
  BY <1>3, ShowKeeps DEF L!Turn, L!Filter, L!Open
<1>4. ASSUME NEW k \in ListKeys, L!Arrive(k) PROVE ListInv'
  BY <1>4, ArriveKeeps
<1>5. ASSUME NEW k \in ListKeys, L!FetchFails(k) PROVE ListInv'
  BY <1>5, IdleIs DEF L!FetchFails, ListInv, AnswersOwn, PageOfTenant
<1>6. CASE L!Leave
  BY <1>6, ElsewhereIsNoPage DEF L!Leave, ListInv, AnswersOwn, PageOfTenant
<1>7. CASE L!Poll
  BY <1>7, SendKeeps DEF L!Poll
<1>8. CASE L!Refresh
  BY <1>8, SendKeeps DEF L!Refresh
<1>9. CASE UNCHANGED L!vars
  BY <1>9 DEF L!vars, ListInv, AnswersOwn, PageOfTenant
<1>. QED BY <1>1, <1>2, <1>3, <1>4, <1>5, <1>6, <1>7, <1>8, <1>9 DEF L!Next, L!QueryStep

(* So the page that is open shows rows of its tenant.                       *)
LEMMA ListOwns == ASSUME ListInv PROVE L!OwnTenant
BY DEF ListInv, AnswersOwn, PageOfTenant, OfTenant, L!OwnTenant, L!HasData,
   L!Placeholder, L!Cards, L!Data

(* From the first answer to a request of the open page on, useVideos() shows  *)
(* rows of the tenant in the settings.                                       *)
THEOREM RowsOfTenant == Spec => []OwnTenant
<1>. DEFINE I == part = "list" => ListInv
<1>1. Init => I
  BY ListStarts DEF Init
<1>2. I /\ [Next]_vars => I'
  BY PartMoves, ListKept
<1>3. I => OwnTenant
  BY ListOwns DEF OwnTenant
<1>. QED BY <1>1, <1>2, <1>3, PTL DEF Spec

(* Listing has its own name for the library's cardinality.                  *)
LEMMA SameL == \A X : L!Cardinality(X) = Cardinality(X) /\ (L!IsFiniteSet(X) <=> IsFiniteSet(X))
BY DEF L!Cardinality, Cardinality, L!IsFiniteSet, IsFiniteSet

(* What is assumed of the videos and of the pages.                          *)
LEMMA PagesAre ==
  /\ ListVideos \subseteq Nat /\ IsFiniteSet(ListVideos) /\ LIMIT \in Nat \ {0}
  /\ \A k \in ListKeys : k[2] \in Nat \ {0}
<1>1. L!ListingAssumption
  BY PartsAssumption
<1>2. ListKeys \subseteq {"all", "failed", "ready", "processing"} \X (Nat \ {0})
  BY <1>1 DEF L!ListingAssumption
<1>. QED BY <1>1, <1>2, SameL DEF L!ListingAssumption

(* A page begins where the one before it ends.                              *)
LEMMA PageStarts ==
  ASSUME NEW p \in Nat \ {0}
  PROVE  /\ (p - 1) * LIMIT \in Nat /\ p * LIMIT \in Nat
         /\ p * LIMIT = (p - 1) * LIMIT + LIMIT
<1>1. LIMIT \in Nat /\ p - 1 \in Nat /\ p \in Nat
  BY PagesAre
<1>. QED BY <1>1

(* How many cards the label under a page counts. *)
Labelled(n, p) ==
  LET before == (p - 1) * LIMIT
      to     == IF n < p * LIMIT THEN n ELSE p * LIMIT
  IN  IF to > before THEN to - before ELSE 0

(* Each video of a set has a rank, and each rank a video. *)
LEMMA RankIs ==
  ASSUME NEW X \in SUBSET ListVideos
  PROVE  /\ IsFiniteSet(X) /\ Cardinality(X) \in Nat
         /\ LET rank == [v \in X |-> Cardinality({w \in X : w > v})]
            IN  /\ rank \in Injection(X, 0 .. Cardinality(X) - 1)
                /\ rank \in Surjection(X, 0 .. Cardinality(X) - 1)
<1>. DEFINE Above(v) == {w \in X : w > v}
            rank == [v \in X |-> Cardinality(Above(v))]
            n == Cardinality(X)
<1>1. IsFiniteSet(X) /\ n \in Nat /\ X \subseteq Nat
  BY PagesAre, FS_Subset, FS_CardinalityType
<1>2. ASSUME NEW v \in X PROVE /\ IsFiniteSet(Above(v)) /\ Cardinality(Above(v)) \in Nat
                               /\ Cardinality(Above(v)) < n
  <2>1. Above(v) \in SUBSET X /\ v \notin Above(v)
    BY <1>1
  <2>2. Cardinality(Above(v)) # n
    BY <1>1, <2>1, FS_Subset
  <2>. HIDE DEF Above
  <2>. QED BY <1>1, <2>1, <2>2, FS_Subset, FS_CardinalityType
<1>3. ASSUME NEW v \in X, NEW x \in X, v < x PROVE rank[x] < rank[v]
  <2>1. \A w \in Above(x) : w \in Above(v)
    <3>1. ASSUME NEW w \in X, w > x PROVE w > v
      <4>1. v \in Nat /\ x \in Nat /\ w \in Nat
        BY <1>1
      <4>. QED BY <1>3, <3>1, <4>1
    <3>. QED BY <3>1
  <2>2. x \in Above(v) /\ x \notin Above(x)
    BY <1>1, <1>3
  <2>. HIDE DEF Above
  <2>3. Above(x) \in SUBSET Above(v) /\ Above(x) # Above(v)
    BY <2>1, <2>2
  <2>4. Cardinality(Above(x)) <= Cardinality(Above(v)) /\ Cardinality(Above(x)) # Cardinality(Above(v))
    BY <1>2, <2>3, FS_Subset
  <2>. QED BY <1>2, <2>4
<1>. HIDE DEF Above, n
<1>4. rank \in [X -> 0 .. n - 1]
  BY <1>1, <1>2
<1>5. \A v, x \in X : v # x => rank[v] # rank[x]
  <2>1. ASSUME NEW v \in X, NEW x \in X, v # x PROVE rank[v] # rank[x]
    <3>1. v < x \/ x < v
      BY <1>1, <2>1
    <3>2. rank[v] \in Nat /\ rank[x] \in Nat
      BY <1>2
    <3>. HIDE DEF rank
    <3>. QED BY <1>3, <3>1, <3>2
  <2>. QED BY <2>1
<1>. HIDE DEF rank
<1>6. rank \in Injection(X, 0 .. n - 1)
  BY <1>4, <1>5 DEF Injection, IsInjective
<1>7. IsFiniteSet(0 .. n - 1) /\ Cardinality(0 .. n - 1) = n
  BY <1>1, FS_Interval
<1>8. rank \in Surjection(X, 0 .. n - 1)
  BY <1>6, <1>7, FS_Injection DEF n
<1>. QED BY <1>1, <1>6, <1>8 DEF n, rank, Above

(* LIMIT and OFFSET cut what the label says out of a list of that length.    *)
LEMMA WindowIs ==
  ASSUME NEW X \in SUBSET ListVideos, NEW p \in Nat \ {0}
  PROVE  Cardinality(L!Window(X, p)) = Labelled(Cardinality(X), p)
<1>. DEFINE rank == [v \in X |-> Cardinality({w \in X : w > v})]
            n == Cardinality(X)
            from == (p - 1) * LIMIT
            next == p * LIMIT
            to == IF n < next THEN n ELSE next
            W == L!Window(X, p)
            cut == [v \in W |-> rank[v]]
<1>1. /\ n \in Nat /\ rank \in Injection(X, 0 .. n - 1) /\ rank \in Surjection(X, 0 .. n - 1)
      /\ from \in Nat /\ next \in Nat /\ from <= next
  BY RankIs, PageStarts, PagesAre
<1>2. W = {v \in X : rank[v] \in from .. next - 1}
  BY SameL DEF L!Window
<1>. HIDE DEF rank, n, from, next, W
<1>3. cut \in Bijection(W, from .. to - 1)
  <2>1. \A v \in X : rank[v] \in 0 .. n - 1
    BY <1>1 DEF Injection
  <2>2. \A v \in W : v \in X /\ rank[v] \in from .. to - 1
    BY <1>1, <1>2, <2>1
  <2>3. ASSUME NEW i \in from .. to - 1 PROVE \E v \in W : rank[v] = i
    <3>1. i \in 0 .. n - 1 /\ i \in from .. next - 1
      BY <1>1
    <3>2. PICK v \in X : rank[v] = i
      BY <1>1, <3>1 DEF Surjection
    <3>. QED BY <1>2, <3>1, <3>2
  <2>4. \A v, x \in W : rank[v] = rank[x] => v = x
    BY <1>1, <2>2 DEF Injection, IsInjective
  <2>. HIDE DEF to
  <2>5. cut \in Injection(W, from .. to - 1)
    BY <2>2, <2>4 DEF Injection, IsInjective
  <2>6. cut \in Surjection(W, from .. to - 1)
    BY <2>2, <2>3 DEF Surjection
  <2>. QED BY <2>5, <2>6 DEF Bijection
<1>4. W \in SUBSET ListVideos
  BY <1>2
<1>5. IsFiniteSet(W) /\ ExistsBijection(W, from .. to - 1)
  BY <1>3, <1>4, RankIs DEF ExistsBijection
<1>6. Cardinality(W) = Cardinality(from .. to - 1)
  BY <1>5, FS_Bijection
<1>7. Cardinality(from .. to - 1) = IF to > from THEN to - from ELSE 0
  <2>1. from \in Int /\ to - 1 \in Int /\ to \in Int
    BY <1>1
  <2>2. Cardinality(from .. to - 1) = IF from > to - 1 THEN 0 ELSE to - 1 - from + 1
    BY <2>1, FS_Interval
  <2>. HIDE DEF to
  <2>. QED BY <2>1, <2>2
<1>. QED BY <1>6, <1>7 DEF Labelled, n, from, next, W
Matched(k) == L!Matching(lFetch[k].tenant, k[1], lRow)

(* An answer of which nothing is torn: what has been read of it was true of   *)
(* one moment, and one moment it remains until both are read.               *)
FetchCounts(f, k, matched) ==
  /\ f.done \subseteq L!Statements
  /\ ~f.answer.torn =>
       /\ f.done = {"rows"}  => DOMAIN f.answer.cards = L!Window(matched, k[2])
       /\ f.done = {"count"} => f.answer.total = Cardinality(matched)
       /\ f.done = L!Statements =>
            Cardinality(DOMAIN f.answer.cards) = Labelled(f.answer.total, k[2])

LabelsTrue ==
  \A k \in ListKeys :
    /\ FetchCounts(lFetch[k], k, Matched(k))
    /\ lCache[k].has /\ ~lCache[k].answer.torn =>
         Cardinality(DOMAIN lCache[k].answer.cards) = Labelled(lCache[k].answer.total, k[2])

LabelInv == ListInv /\ LabelsTrue

(* A filter lets videos through.                                            *)
LEMMA MatchedIs == \A t, f, r : L!Matching(t, f, r) \in SUBSET ListVideos
BY DEF L!Matching

(* A request that is not sent, or just so, has nothing to be torn.          *)
LEMMA NothingRead ==
  ASSUME NEW k, NEW matched
  PROVE  FetchCounts(L!Idle, k, matched) /\ FetchCounts(L!Request, k, matched)
BY DEF L!Request, L!Idle, L!Blank, FetchCounts, L!Statements

(* The labels, before anything is fetched.                                  *)
LEMMA LabelStarts == ASSUME L!Init PROVE LabelInv
<1>1. \A k \in ListKeys : lFetch[k] = L!Idle /\ ~lCache[k].has
  BY DEF L!Init, L!Empty
<1>. QED BY <1>1, ListStarts, NothingRead DEF LabelInv, LabelsTrue

(* The second statement reads of the rows what the first has read of them.  *)
LEMMA StatementCounts ==
  ASSUME LabelInv, NEW k \in ListKeys, NEW s \in L!Statements, L!Statement(k, s)
  PROVE  LabelsTrue'
<1>. DEFINE f == lFetch[k]
            m == Matched(k)
            g == [f EXCEPT !.done = @ \cup {s},
                    !.answer = IF s = "rows" THEN L!ReadRows(k) ELSE L!ReadCount(k)]
<1>1. /\ s \notin f.done /\ lFetch' = [lFetch EXCEPT ![k] = g]
      /\ UNCHANGED <<lRow, lCache>>
  BY DEF L!Statement
<1>2. /\ FetchIs(f) /\ DOMAIN lFetch = ListKeys /\ FetchCounts(f, k, m)
      /\ m \in SUBSET ListVideos /\ k[2] \in Nat \ {0}
  BY MatchedIs, PagesAre DEF LabelInv, ListInv, AnswersOwn, LabelsTrue, Matched
<1>3. /\ L!ReadRows(k).torn = f.answer.torn /\ L!ReadRows(k).total = f.answer.total
      /\ DOMAIN L!ReadRows(k).cards = L!Window(m, k[2])
  BY <1>2 DEF L!ReadRows, FetchIs, Matched
<1>4. /\ L!ReadCount(k).torn = f.answer.torn /\ L!ReadCount(k).cards = f.answer.cards
      /\ L!ReadCount(k).total = Cardinality(m)
  BY <1>2, SameL DEF L!ReadCount, L!Count, FetchIs, Matched
<1>5. /\ g.done = f.done \cup {s} /\ g.tenant = f.tenant
      /\ g.answer = IF s = "rows" THEN L!ReadRows(k) ELSE L!ReadCount(k)
  BY <1>2 DEF FetchIs
<1>. HIDE DEF f, g, m
<1>6. Cardinality(L!Window(m, k[2])) = Labelled(Cardinality(m), k[2])
  BY <1>2, WindowIs
<1>7. FetchCounts(g, k, m)
  <2>1. CASE s = "rows"
    <3>1. f.done = {} \/ f.done = {"count"}
      BY <1>1, <1>2, <2>1 DEF FetchCounts, L!Statements
    <3>. QED BY <1>2, <1>3, <1>5, <1>6, <2>1, <3>1 DEF FetchCounts, L!Statements
  <2>2. CASE s = "count"
    <3>1. f.done = {} \/ f.done = {"rows"}
      BY <1>1, <1>2, <2>2 DEF FetchCounts, L!Statements
    <3>. QED BY <1>2, <1>4, <1>5, <1>6, <2>2, <3>1 DEF FetchCounts, L!Statements
  <2>. QED BY <2>1, <2>2 DEF L!Statements
<1>8. lFetch'[k] = g /\ (\A j \in ListKeys \ {k} : lFetch'[j] = lFetch[j]) /\ Matched(k)' = m
  BY <1>1, <1>2, <1>5 DEF Matched, m, f
<1>. QED BY <1>1, <1>7, <1>8 DEF LabelInv, LabelsTrue, Matched

(* Rows that move between the two tear the answer; before and after, nothing.*)
LEMMA RowMovesCounts ==
  ASSUME LabelInv, NEW v \in ListVideos, L!RowMoves(v)
  PROVE  LabelsTrue'
<1>1. ASSUME NEW k \in ListKeys PROVE FetchCounts(lFetch'[k], k, Matched(k)')
  <2>. DEFINE f == lFetch[k]
  <2>1. FetchIs(f) /\ FetchCounts(f, k, Matched(k))
    BY DEF LabelInv, ListInv, AnswersOwn, LabelsTrue
  <2>2. CASE lFetch'[k] = [f EXCEPT !.answer.torn = TRUE]
    <3>1. lFetch'[k].done = f.done /\ lFetch'[k].answer.torn
      BY <2>1, <2>2 DEF FetchIs
    <3>. QED BY <2>1, <3>1 DEF FetchCounts
  <2>3. CASE lFetch'[k] # [f EXCEPT !.answer.torn = TRUE]
    <3>1. /\ lFetch'[k] = f
          /\ ~(/\ Cardinality(f.done) = 1
               /\ L!Matching(f.tenant, k[1], lRow) # L!Matching(f.tenant, k[1], lRow'))
      BY <2>3, SameL DEF L!RowMoves
    <3>2. f.done = {"rows"} \/ f.done = {"count"} => Matched(k)' = Matched(k)
      BY <3>1, FS_Singleton DEF Matched
    <3>. QED BY <2>1, <3>1, <3>2 DEF FetchCounts
  <2>. QED BY <2>2, <2>3
<1>2. UNCHANGED lCache
  BY DEF L!RowMoves
<1>. QED BY <1>1, <1>2 DEF LabelInv, LabelsTrue

(* Whatever asks for an answer, has it arrive, or gives it up. *)
LEMMA QueriesCount ==
  ASSUME LabelInv, UNCHANGED lRow,
         \A k \in ListKeys : lFetch'[k] \in {lFetch[k], L!Idle, L!Request},
         \A k \in ListKeys : lCache'[k] = lCache[k] \/
           (lFetch[k].done = L!Statements /\ lCache'[k].answer = lFetch[k].answer)
  PROVE  LabelsTrue'
<1>1. ASSUME NEW k \in ListKeys PROVE FetchCounts(lFetch'[k], k, Matched(k)')
  <2>1. CASE lFetch'[k] = lFetch[k]
    BY <2>1 DEF LabelInv, LabelsTrue, Matched
  <2>2. CASE lFetch'[k] # lFetch[k]
    BY <2>2, NothingRead
  <2>. QED BY <2>1, <2>2
<1>. QED BY <1>1 DEF LabelInv, LabelsTrue, FetchCounts

(* Every step of the list keeps the labels true.                            *)
LEMMA LabelKept == ASSUME LabelInv, [L!Next]_(L!vars) PROVE LabelInv'
<1>. SUFFICES LabelsTrue'
  BY ListKept DEF LabelInv
<1>0. DOMAIN lFetch = ListKeys /\ DOMAIN lCache = ListKeys
  BY DEF LabelInv, ListInv, AnswersOwn
<1>1. CASE L!ServerStep
  BY <1>1, StatementCounts, RowMovesCounts DEF L!ServerStep
<1>2. ASSUME NEW t \in Tenants, L!Save(t) PROVE LabelsTrue'
  BY <1>2, QueriesCount DEF L!Save
<1>3. ASSUME NEW k \in ListKeys, L!Turn(k) \/ L!Filter(k) \/ L!Open(k) PROVE LabelsTrue'
  <2>1. L!Show(k)
    BY <1>3 DEF L!Turn, L!Filter, L!Open
  <2>2. /\ UNCHANGED <<lRow, lCache>>
        /\ UNCHANGED lFetch \/ lFetch' = [lFetch EXCEPT ![k] = L!Request]
    BY <2>1 DEF L!Show, L!FetchUnless, L!Send
  <2>. QED BY <1>0, <2>2, QueriesCount
<1>4. ASSUME NEW k \in ListKeys, L!Arrive(k) PROVE LabelsTrue'
  BY <1>0, <1>4, QueriesCount DEF L!Arrive
<1>5. ASSUME NEW k \in ListKeys, L!FetchFails(k) PROVE LabelsTrue'
  BY <1>0, <1>5, QueriesCount DEF L!FetchFails
<1>6. CASE L!Leave
  BY <1>6, QueriesCount DEF L!Leave
<1>7. CASE L!Poll \/ L!Refresh
  BY <1>0, <1>7, QueriesCount DEF L!Poll, L!Refresh, L!Send
<1>8. CASE UNCHANGED L!vars
  BY <1>8, QueriesCount DEF L!vars
<1>. QED BY <1>1, <1>2, <1>3, <1>4, <1>5, <1>6, <1>7, <1>8 DEF L!Next, L!QueryStep

(* So the page that is open has the cards its label counts.                 *)
LEMMA LabelSays == ASSUME LabelInv PROVE L!LabelMatches
<1>. SUFFICES ASSUME L!Settled
              PROVE  Cardinality(L!Cards) = Labelled(L!Data.total, lView[2])
  BY SameL DEF L!LabelMatches, Labelled
<1>1. /\ lView \in ListKeys /\ lCache[lView].has /\ ~lCache[lView].answer.torn
      /\ L!Data = lCache[lView].answer
  BY DEF L!Settled, L!HasData, L!Placeholder, L!Data
<1>. QED BY <1>1 DEF LabelInv, LabelsTrue, L!Cards

(* The label under the cards of a page counts as many as there are.          *)
THEOREM LabelTrue == Spec => []LabelMatches
<1>. DEFINE I == part = "list" => LabelInv
<1>1. Init => I
  BY LabelStarts DEF Init
<1>2. I /\ [Next]_vars => I'
  BY PartMoves, LabelKept
<1>3. I => LabelMatches
  BY LabelSays DEF LabelMatches
<1>. QED BY <1>1, <1>2, <1>3, PTL DEF Spec
-----------------------------------------------------------------------------
(* The dashboard.  A query is at rest when nothing is on its way to it, no    *)
(* mutation of its videos is pending, and it would not be fetched again if    *)
(* its page were opened, or it is open already.  A query at rest that has no  *)
(* excuse shows of each video the row's status, or one that is polled.        *)

(* No mutation of a video that the query shows is pending. *)
NoneIsPending(q) == \A m \in D!Mutations : m.video \in D!Scope(q) => ~D!Pending(m)

AtRest(q) ==
  /\ dPhase[q] = "idle" /\ D!HasData(dData, q) /\ (dView = q \/ ~dInvalid[q])
  /\ NoneIsPending(q)

TrueOrPolled(q) == \A v \in D!Scope(q) : dData[<<q, v>>] \in {dRow[v], "moving"}

CachesTyped ==
  /\ DOMAIN dRow = DashVideos /\ DOMAIN dData = D!Cells /\ DOMAIN dAnswer = D!Cells
  /\ DOMAIN dPhase = D!Queries /\ DOMAIN dInvalid = D!Queries
  /\ DOMAIN dExcused = D!Queries /\ DOMAIN dRequest = D!Mutations

DashboardInv ==
  /\ CachesTyped
  /\ \A q \in D!Queries : ~dExcused[q] /\ AtRest(q) => TrueOrPolled(q)

(* A cell of a query. *)
LEMMA CellIs ==
  ASSUME NEW q \in D!Queries, NEW v \in D!Scope(q)
  PROVE  <<q, v>> \in D!Cells /\ <<q, v>>[1] = q /\ <<q, v>>[2] = v
<1>1. <<q, v>> \in {q} \X D!Scope(q)
  OBVIOUS
<1>. QED BY <1>1 DEF D!Cells

(* The queries a mutation touches are the ones that show its video.         *)
LEMMA TouchedShow ==
  ASSUME NEW q \in D!Queries, NEW m \in D!Mutations
  PROVE  /\ m.video \in DashVideos
         /\ q \in D!Touched(m) <=> m.video \in D!Scope(q)
         /\ q \notin D!Touched(m) => q # List /\ D!Scope(q) = {q}
<1>1. m.video \in DashVideos /\ List \notin DashVideos
  BY PartsAssumption DEF PartsAssumption, D!MutationsAssumption
<1>. QED BY <1>1 DEF D!Touched, D!Scope

(* What a query shows is among the videos, and elsewhere is no query's page.  *)
LEMMA ScopeIs ==
  ASSUME NEW q \in D!Queries
  PROVE  D!Scope(q) \subseteq DashVideos /\ q # "elsewhere"
<1>1. DashPages \subseteq DashVideos /\ "elsewhere" \notin DashVideos \cup {List}
  BY PartsAssumption DEF PartsAssumption, D!MutationsAssumption
<1>. QED BY <1>1 DEF D!Scope, D!Queries

(* The caches, before anything is fetched: there is no data.                 *)
LEMMA DashboardStarts == ASSUME D!Init PROVE DashboardInv
<1>1. ASSUME NEW q \in D!Queries, D!HasData(dData, q) PROVE TrueOrPolled(q)
  BY <1>1, CellIs DEF D!Init, D!Nothing, D!HasData, TrueOrPolled
<1>. QED BY <1>1 DEF D!Init, D!Nothing, DashboardInv, CachesTyped, AtRest

(* A query that has no excuse after a step is fetched again, or agrees with   *)
(* the rows, or needed none.                                                *)
LEMMA NoExcuseNeeded ==
  ASSUME D!Next, NEW q \in D!Queries, ~dExcused'[q], dPhase'[q] = "idle"
  PROVE  TrueOrPolled(q)' \/ (~dExcused[q] /\ ~D!Excuse(q))
<1>1. dExcused'[q] = (~D!Amends(q) /\ (dExcused[q] \/ D!Excuse(q)))
  BY DEF D!Next
<1>2. CASE D!Amends(q)
  BY <1>2 DEF D!Amends, D!Agrees, TrueOrPolled, D!Scope
<1>. QED BY <1>1, <1>2

(* What no step of a query or of a row does: the domains stay.               *)
LEMMA CachesStayTyped == ASSUME DashboardInv, D!Next PROVE CachesTyped'
<1>. USE DEF DashboardInv, CachesTyped
<1>0. DOMAIN dExcused' = D!Queries
  BY DEF D!Next
<1>1. ASSUME D!QueryStep PROVE CachesTyped'
  BY <1>0, <1>1 DEF D!QueryStep, D!Visit, D!Read, D!Arrive, D!FetchFails, D!Settled, D!Poll, D!Refresh,
     D!Merge, D!Without, D!mutationVars
<1>2. ASSUME NEW v \in DashVideos, D!RowMoves(v) PROVE CachesTyped'
  BY <1>0, <1>2 DEF D!RowMoves, D!cacheVars, D!mutationVars
<1>3. ASSUME NEW m \in D!Mutations, D!Click(m) \/ D!CheckRetry(m) \/ D!Serve(m) PROVE CachesTyped'
  BY <1>0, <1>3 DEF D!Click, D!CheckRetry, D!Serve, D!cacheVars, D!Without
<1>4. ASSUME NEW m \in D!Mutations, D!Succeed(m) \/ D!Fail(m) PROVE CachesTyped'
  BY <1>0, <1>4 DEF D!Succeed, D!Fail, D!Over, D!Invalidate, D!Without, D!Restored
<1>. QED BY <1>1, <1>2, <1>3, <1>4 DEF D!Next, D!Step, D!MutationStep

(* What a step leaves alone is as true as it was. *)
LEMMA LeftAlone ==
  ASSUME DashboardInv, NEW q \in D!Queries, ~dExcused[q], AtRest(q)',
         dPhase'[q] = dPhase[q],
         \A v \in D!Scope(q) : dData'[<<q, v>>] = dData[<<q, v>>] /\ dRow'[v] = dRow[v],
         dView = q \/ ~dInvalid[q], NoneIsPending(q)
  PROVE  TrueOrPolled(q)'
<1>1. D!HasData(dData, q)
  BY DEF AtRest, D!HasData
<1>2. AtRest(q)
  BY <1>1 DEF AtRest
<1>. QED BY <1>2 DEF DashboardInv, TrueOrPolled, D!Scope

(* A visit sends for a query that is invalid; an answer is excused when it is *)
(* neither true nor polled, unless the mutation is pending that it is older   *)
(* than; a fetch that fails is excused.                                     *)
LEMMA QueryStepKeeps ==
  ASSUME DashboardInv, D!QueryStep, NEW q \in D!Queries, ~dExcused[q], ~D!Excuse(q), AtRest(q)'
  PROVE  TrueOrPolled(q)'
<1>. USE DEF DashboardInv, CachesTyped
<1>0. UNCHANGED dRow /\ UNCHANGED dRequest /\ NoneIsPending(q)
  BY DEF D!QueryStep, D!Visit, D!Read, D!Arrive, D!FetchFails, D!Settled, D!Poll, D!Refresh,
     D!mutationVars, AtRest, NoneIsPending, D!Pending, D!Scope
<1>1. ASSUME NEW page \in D!Queries \cup {"elsewhere"}, D!Visit(page) PROVE TrueOrPolled(q)'
  <2>1. UNCHANGED dData /\ UNCHANGED dInvalid /\ dView' = page /\ dPhase'[q] = "idle"
    BY <1>1 DEF D!Visit, AtRest
  <2>2. dPhase[q] = "idle" /\ (q = page => ~dInvalid[q])
    <3>1. CASE dPhase' = dPhase
      BY <1>1, <2>1, <3>1, ScopeIs DEF D!Visit
    <3>2. CASE page \in D!Queries /\ dPhase' = [dPhase EXCEPT ![page] = "sent"]
      BY <2>1, <3>2
    <3>. QED BY <1>1, <3>1, <3>2 DEF D!Visit
  <2>3. ~dInvalid[q]
    BY <2>1, <2>2 DEF AtRest
  <2>. QED BY <1>0, <2>1, <2>2, <2>3, LeftAlone
<1>2. ASSUME D!Poll \/ D!Refresh \/ \E p \in D!Queries : D!Read(p) PROVE TrueOrPolled(q)'
  <2>1. UNCHANGED dData /\ UNCHANGED dInvalid /\ UNCHANGED dView /\ dPhase'[q] = "idle"
    BY <1>2 DEF D!Poll, D!Refresh, D!Read, AtRest
  <2>2. dPhase[q] = "idle"
    BY <1>2, <2>1 DEF D!Poll, D!Refresh, D!Read
  <2>. QED BY <1>0, <2>1, <2>2, LeftAlone DEF AtRest
<1>3. ASSUME NEW p \in D!Queries, D!Arrive(p) \/ D!FetchFails(p), p # q PROVE TrueOrPolled(q)'
  <2>1. /\ \A v \in D!Scope(q) : dData'[<<q, v>>] = dData[<<q, v>>]
        /\ dInvalid'[q] = dInvalid[q] /\ UNCHANGED dView /\ dPhase'[q] = dPhase[q]
    BY <1>3, CellIs DEF D!Arrive, D!FetchFails, D!Settled, D!Merge
  <2>. QED BY <1>0, <2>1, LeftAlone DEF AtRest
<1>4. ASSUME D!Arrive(q) PROVE TrueOrPolled(q)'
  <2>1. \A v \in D!Scope(q) : dData'[<<q, v>>] = dAnswer[<<q, v>>]
    BY <1>4, CellIs DEF D!Arrive, D!Merge
  <2>2. dPhase[q] = "read" /\ dPhase'[q] = "idle"
    BY <1>4 DEF D!Arrive, AtRest
  <2>3. ASSUME NEW v \in D!Scope(q) PROVE dAnswer[<<q, v>>] \in {"moving", dRow[v]}
    <3>1. \A m \in D!Mutations : m.video = v => ~D!Pending(m)
      BY <1>0 DEF NoneIsPending
    <3>. QED BY <2>2, <3>1 DEF D!Excuse
  <2>. QED BY <1>0, <2>1, <2>3 DEF TrueOrPolled, D!Scope
<1>5. ~D!FetchFails(q)
  BY DEF D!Excuse
<1>. QED BY <1>1, <1>2, <1>3, <1>4, <1>5 DEF D!QueryStep

(* A row that is at its end moves with an excuse; one that is not was shown   *)
(* as moving, and is.                                                       *)
LEMMA ShownRowMoves ==
  ASSUME DashboardInv, NEW w \in DashVideos, D!RowMoves(w),
         NEW q \in D!Queries, ~dExcused[q], ~D!Excuse(q), AtRest(q)'
  PROVE  TrueOrPolled(q)'
<1>1. UNCHANGED <<dView, dData, dPhase, dInvalid, dRequest>>
  BY DEF D!RowMoves, D!cacheVars, D!mutationVars
<1>2. AtRest(q)
  BY <1>1 DEF AtRest, D!HasData, D!Scope, NoneIsPending, D!Pending
<1>3. \A v \in D!Scope(q) : dData[<<q, v>>] \in {dRow[v], "moving"}
  BY <1>2 DEF DashboardInv, TrueOrPolled
<1>4. w \in D!Scope(q) => dRow[w] = "moving"
  BY DEF D!Excuse, D!NonTerminal
<1>5. \A v \in D!Scope(q) : v # w => dRow'[v] = dRow[v]
  BY ScopeIs DEF DashboardInv, CachesTyped, D!RowMoves
<1>. QED BY <1>1, <1>3, <1>4, <1>5 DEF TrueOrPolled, D!Scope

(* A click leaves its mutation pending; a statement of its handler moves the  *)
(* row of its video only.                                                   *)
LEMMA HandlerKeeps ==
  ASSUME DashboardInv, NEW m \in D!Mutations, D!Click(m) \/ D!CheckRetry(m) \/ D!Serve(m),
         NEW q \in D!Queries, ~dExcused[q], AtRest(q)'
  PROVE  TrueOrPolled(q)'
<1>. USE DEF DashboardInv, CachesTyped
<1>1. /\ D!Pending(m)' /\ UNCHANGED dView
      /\ \A n \in D!Mutations : n # m => dRequest'[n] = dRequest[n]
  BY DEF D!Click, D!CheckRetry, D!Serve, D!Pending
<1>2. m.video \notin D!Scope(q)
  BY <1>1 DEF AtRest, NoneIsPending, D!Scope
<1>3. NoneIsPending(q)
  BY <1>1, <1>2 DEF AtRest, NoneIsPending, D!Pending, D!Scope
<1>4. q \notin D!Touched(m)
  BY <1>2, TouchedShow
<1>5. dPhase'[q] = dPhase[q] /\ (dInvalid[q] => dInvalid'[q])
  BY <1>4 DEF D!Click, D!CheckRetry, D!Serve, D!cacheVars
<1>6. \A v \in D!Scope(q) : dData'[<<q, v>>] = dData[<<q, v>>]
  BY <1>2, CellIs DEF D!Click, D!CheckRetry, D!Serve, D!cacheVars
<1>7. \A v \in D!Scope(q) : dRow'[v] = dRow[v]
  BY <1>2, ScopeIs DEF D!Click, D!CheckRetry, D!Serve
<1>. QED BY <1>1, <1>3, <1>5, <1>6, <1>7, LeftAlone DEF AtRest

(* A mutation that settles leaves what it touched fetched or invalid, and     *)
(* what else it restored with an excuse.                                    *)
LEMMA SettlingKeeps ==
  ASSUME DashboardInv, NEW m \in D!Mutations, D!Succeed(m) \/ D!Fail(m),
         NEW q \in D!Queries, ~dExcused[q], ~D!Excuse(q), AtRest(q)'
  PROVE  TrueOrPolled(q)'
<1>. USE DEF DashboardInv, CachesTyped
<1>1. /\ UNCHANGED <<dView, dRow>> /\ \A n \in D!Mutations : n # m => dRequest'[n] = dRequest[n]
      /\ \E set : D!Invalidate(D!Touched(m), set)
  BY DEF D!Succeed, D!Fail, D!Over
<1>2. PICK set : D!Invalidate(D!Touched(m), set)
  BY <1>1
<1>3. D!HasData(dData', q)
  BY DEF AtRest, D!HasData, D!Scope
<1>4. ASSUME q \in D!Touched(m) PROVE FALSE
  <2>1. dInvalid'[q] /\ (dView = q => dPhase'[q] = "sent")
    BY <1>2, <1>3, <1>4 DEF D!Invalidate
  <2>. QED BY <1>1, <2>1 DEF AtRest
<1>5. q # List /\ q # m.video /\ D!Scope(q) = {q} /\ m.video \notin D!Scope(q)
  BY <1>4, TouchedShow DEF D!Touched
<1>6. dPhase'[q] = dPhase[q]
  BY <1>2, <1>4 DEF D!Invalidate
<1>7. NoneIsPending(q)
  BY <1>1, <1>5 DEF AtRest, NoneIsPending, D!Pending, D!Scope
<1>8. dData'[<<q, q>>] = dData[<<q, q>>] /\ (dView = q \/ ~dInvalid[q])
  <2>1. CASE D!Fail(m)
    BY <1>5, <2>1 DEF D!Excuse
  <2>2. CASE D!Succeed(m)
    BY <1>1, <1>4, <2>2 DEF D!Succeed, D!Invalidate, AtRest
  <2>. QED BY <2>1, <2>2
<1>. QED BY <1>1, <1>5, <1>6, <1>7, <1>8, LeftAlone

(* A step of the dashboard. *)
LEMMA DashboardKeeps == ASSUME DashboardInv, [D!Next]_(D!vars) PROVE DashboardInv'
<1>1. CASE UNCHANGED D!vars
  BY <1>1 DEF D!vars, D!cacheVars, D!mutationVars, DashboardInv, CachesTyped, AtRest, TrueOrPolled,
     D!HasData, D!Scope, NoneIsPending, D!Pending
<1>2. ASSUME D!Next, NEW q \in D!Queries, ~dExcused'[q], AtRest(q)' PROVE TrueOrPolled(q)'
  <2>1. SUFFICES ASSUME ~dExcused[q], ~D!Excuse(q) PROVE TrueOrPolled(q)'
    BY <1>2, NoExcuseNeeded DEF AtRest
  <2>2. CASE D!QueryStep
    BY <1>2, <2>1, <2>2, QueryStepKeeps
  <2>3. CASE \E w \in DashVideos : D!RowMoves(w)
    BY <1>2, <2>1, <2>3, ShownRowMoves
  <2>4. CASE \E m \in D!Mutations : D!MutationStep(m)
    BY <1>2, <2>1, <2>4, HandlerKeeps, SettlingKeeps DEF D!MutationStep
  <2>. QED BY <1>2, <2>2, <2>3, <2>4 DEF D!Next, D!Step
<1>3. CASE D!Next
  BY <1>2, <1>3, CachesStayTyped DEF DashboardInv, D!Queries
<1>. QED BY <1>1, <1>3

(* What is shown is polled no more, so it is true. *)
LEMMA DashboardIsTrue == ASSUME DashboardInv PROVE D!QuietPageIsTrue
<1>1. ASSUME NEW q \in D!Queries, dView = q, D!Quiet(q), ~dExcused[q], NEW v \in D!Scope(q)
      PROVE  dData[<<q, v>>] = dRow[v]
  <2>1. AtRest(q)
    BY <1>1 DEF D!Quiet, AtRest, NoneIsPending
  <2>2. dData[<<q, v>>] # "moving"
    BY <1>1 DEF D!Quiet, D!Polls, D!NonTerminal
  <2>. QED BY <1>1, <2>1, <2>2 DEF DashboardInv, TrueOrPolled
<1>. QED BY <1>1 DEF D!QuietPageIsTrue

(* A page on which nothing is under way any more shows the rows as they are:  *)
(* in whatever order mutations, of any videos and however many, polls and     *)
(* visits are answered, no guess outlives its mutation (useMutations.ts).    *)
THEOREM QuietPagesTrue == Spec => []QuietPageIsTrue
<1>. DEFINE I == part = "mutations" => DashboardInv
<1>1. Init => I
  BY DashboardStarts DEF Init
<1>2. I /\ [Next]_vars => I'
  BY PartMoves, DashboardKeeps
<1>3. I => QuietPageIsTrue
  BY DashboardIsTrue DEF QuietPageIsTrue
<1>. QED BY <1>1, <1>2, <1>3, PTL DEF Spec
-----------------------------------------------------------------------------
(* The figures.  A listing has counted what lies under its token, and of that  *)
(* all that PRIMARY published and nothing that is not there: a page ends      *)
(* where its last object does, and captions only come in between.             *)

(* Footprint has its own name for the library's cardinality.                *)
LEMMA SameF == \A X : F!Cardinality(X) = Cardinality(X) /\ (F!IsFiniteSet(X) <=> IsFiniteSet(X))
BY DEF F!Cardinality, Cardinality, F!IsFiniteSet, IsFiniteSet

(* A finite set of numbers has a least one: else there is no smallest of the*)
(* sets of what lies below its members.                                     *)
LEMMA LeastExists ==
  ASSUME NEW X \in SUBSET Nat, IsFiniteSet(X), X # {}
  PROVE  \E m \in X : \A x \in X : m <= x
<1>. DEFINE Below(m) == {x \in X : x < m}
           T == {Below(m) : m \in X}
<1>1. /\ IsWellFoundedOn(StrictSubsetOrdering(X), FiniteSubsetsOf(X))
      /\ T \subseteq FiniteSubsetsOf(X) /\ T # {}
  <2>1. T \subseteq SUBSET X /\ T # {}
    OBVIOUS
  <2>2. FiniteSubsetsOf(X) = SUBSET X
    BY FS_FiniteSubsetsOfFinite
  <2>. QED BY <2>1, <2>2, FS_StrictSubsetOrderingWellFounded
<1>2. \E b \in T : \A c \in T : ~(<<c, b>> \in StrictSubsetOrdering(X))
  <2>. HIDE DEF T
  <2>. QED BY <1>1, WFMin
<1>3. PICK m \in X : \A x \in X : ~(<<Below(x), Below(m)>> \in StrictSubsetOrdering(X))
  BY <1>2
<1>4. ASSUME NEW x \in X, x < m PROVE FALSE
  <2>1. Below(x) \subseteq Below(m) /\ Below(x) # Below(m)
    <3>1. m \in Nat /\ x \in Nat
      OBVIOUS
    <3>2. x \in Below(m) /\ x \notin Below(x)
      BY <1>4, <3>1
    <3>3. ASSUME NEW y \in Below(x) PROVE y \in Below(m)
      <4>1. y \in X /\ y \in Nat /\ y < x
        OBVIOUS
      <4>. QED BY <1>4, <3>1, <4>1
    <3>. QED BY <3>2, <3>3
  <2>. HIDE DEF Below
  <2>2. Below(x) \in SUBSET X /\ Below(m) \in SUBSET X
    BY DEF Below
  <2>. QED BY <1>3, <2>1, <2>2 DEF StrictSubsetOrdering
<1>. QED BY <1>4

(* And a greatest one.                                                      *)
LEMMA GreatestExists ==
  ASSUME NEW X \in SUBSET Nat, IsFiniteSet(X), X # {}
  PROVE  \E m \in X : \A x \in X : m >= x
<1>. DEFINE Above(m) == {x \in X : x > m}
           T == {Above(m) : m \in X}
<1>1. /\ IsWellFoundedOn(StrictSubsetOrdering(X), FiniteSubsetsOf(X))
      /\ T \subseteq FiniteSubsetsOf(X) /\ T # {}
  <2>1. T \subseteq SUBSET X /\ T # {}
    OBVIOUS
  <2>2. FiniteSubsetsOf(X) = SUBSET X
    BY FS_FiniteSubsetsOfFinite
  <2>. QED BY <2>1, <2>2, FS_StrictSubsetOrderingWellFounded
<1>2. \E b \in T : \A c \in T : ~(<<c, b>> \in StrictSubsetOrdering(X))
  <2>. HIDE DEF T
  <2>. QED BY <1>1, WFMin
<1>3. PICK m \in X : \A x \in X : ~(<<Above(x), Above(m)>> \in StrictSubsetOrdering(X))
  BY <1>2
<1>4. ASSUME NEW x \in X, x > m PROVE FALSE
  <2>1. Above(x) \subseteq Above(m) /\ Above(x) # Above(m)
    <3>1. m \in Nat /\ x \in Nat
      OBVIOUS
    <3>2. x \in Above(m) /\ x \notin Above(x)
      BY <1>4, <3>1
    <3>3. ASSUME NEW y \in Above(x) PROVE y \in Above(m)
      <4>1. y \in X /\ y \in Nat /\ y > x
        OBVIOUS
      <4>. QED BY <1>4, <3>1, <4>1
    <3>. QED BY <3>2, <3>3
  <2>. HIDE DEF Above
  <2>2. Above(x) \in SUBSET X /\ Above(m) \in SUBSET X
    BY DEF Above
  <2>. QED BY <1>3, <2>1, <2>2 DEF StrictSubsetOrdering
<1>. QED BY <1>4

Objects == Published \cup Captions
UpTo(X, n)  == {o \in X : o <= n}
After(X, n) == {o \in X : o > n}

(* What is assumed of the objects.                                          *)
LEMMA FiguresAre ==
  /\ Published \subseteq Nat \ {0} /\ Captions \subseteq Nat \ {0}
  /\ IsFiniteSet(Objects) /\ ListPage \in Nat \ {0}
BY PartsAssumption, SameF DEF F!FootprintAssumption, Objects

(* Sets of objects can be counted, and fewer objects count for less.        *)
LEMMA Counts ==
  ASSUME NEW T \in SUBSET Objects, NEW X \in SUBSET T
  PROVE  /\ IsFiniteSet(X) /\ Cardinality(X) \in Nat /\ Cardinality(T) \in Nat
         /\ Cardinality(X) <= Cardinality(T)
<1>1. IsFiniteSet(T)
  BY FiguresAre, FS_Subset
<1>2. IsFiniteSet(X) /\ Cardinality(X) <= Cardinality(T)
  BY <1>1, FS_Subset
<1>. QED BY <1>1, <1>2, FS_CardinalityType

(* What two sets without a common object count for.                         *)
LEMMA Apart ==
  ASSUME NEW X \in SUBSET Objects, NEW T \in SUBSET Objects, X \cap T = {}
  PROVE  Cardinality(X \cup T) = Cardinality(X) + Cardinality(T)
<1>1. IsFiniteSet(X) /\ IsFiniteSet(T) /\ Cardinality(X) \in Nat /\ Cardinality(T) \in Nat
  BY Counts
<1>2. Cardinality(X \cup T) = Cardinality(X) + Cardinality(T) - Cardinality(X \cap T)
  BY <1>1, FS_Union
<1>3. Cardinality(X \cap T) = 0
  BY FS_EmptySet
<1>. QED BY <1>1, <1>2, <1>3

(* What a listing that has come to n has counted of the objects O. *)
Counted(O, n, sum) ==
  /\ n \in Nat /\ sum \in Nat
  /\ Cardinality(UpTo(Published, n)) <= sum /\ sum <= Cardinality(UpTo(O, n))

Whole(O, sum) == sum \in Nat /\ Cardinality(Published) <= sum /\ sum <= Cardinality(O)

(* A listing begins with nothing counted.                                   *)
LEMMA NoneCounted == ASSUME NEW O \in SUBSET Objects PROVE Counted(O, 0, 0)
<1>1. ASSUME NEW o \in Objects PROVE ~(o <= 0)
  <2>1. o \in Nat \ {0}
    BY FiguresAre DEF Objects
  <2>. QED BY <2>1
<1>2. UpTo(Published, 0) = {} /\ UpTo(O, 0) = {}
  BY <1>1 DEF UpTo, Objects
<1>. QED BY <1>2, FS_EmptySet DEF Counted

(* The last page. *)
LEMMA LastCounted ==
  ASSUME NEW O \in SUBSET Objects, Published \subseteq O, NEW n, NEW sum, Counted(O, n, sum)
  PROVE  Whole(O, sum + Cardinality(After(O, n)))
<1>. DEFINE c == Cardinality(After(O, n))
<1>1. n \in Nat /\ sum \in Nat /\ Published \subseteq Objects /\ Objects \subseteq Nat
  BY FiguresAre DEF Counted, Objects
<1>2. ASSUME NEW X \in SUBSET O
      PROVE  /\ Cardinality(X) = Cardinality(UpTo(X, n)) + Cardinality(After(X, n))
             /\ Cardinality(UpTo(X, n)) \in Nat /\ Cardinality(After(X, n)) \in Nat
  <2>1. X = UpTo(X, n) \cup After(X, n) /\ UpTo(X, n) \cap After(X, n) = {}
    <3>1. ASSUME NEW o \in X PROVE (o <= n) # (o > n)
      <4>1. o \in Nat
        BY <1>1
      <4>. QED BY <1>1, <4>1
    <3>. QED BY <3>1 DEF UpTo, After
  <2>2. UpTo(X, n) \in SUBSET Objects /\ After(X, n) \in SUBSET Objects
    BY DEF UpTo, After
  <2>. QED BY <2>1, <2>2, Apart, Counts
<1>3. Cardinality(After(Published, n)) <= c
  <2>1. After(Published, n) \in SUBSET After(O, n) /\ After(O, n) \in SUBSET Objects
    BY DEF After
  <2>. QED BY <2>1, Counts
<1>. HIDE DEF c
<1>4. Cardinality(O) = Cardinality(UpTo(O, n)) + c /\ c \in Nat /\ Cardinality(UpTo(O, n)) \in Nat
  BY <1>2 DEF c
<1>. QED BY <1>1, <1>2, <1>3, <1>4 DEF Counted, Whole, c

(* A page with another behind it: its token is its last object. *)
LEMMA PageIs ==
  ASSUME NEW R \in SUBSET Objects, F!OnePage(R) # R
  PROVE  LET page == F!OnePage(R)
         IN  /\ page \subseteq R
             /\ F!Max(page) \in page
             /\ \A o \in R : o \in page <=> o <= F!Max(page)
<1>. DEFINE page == F!OnePage(R)
            Before(o) == {p \in R : p < o}
<1>0. R \subseteq Nat
  BY FiguresAre DEF Objects
<1>1. page = {o \in R : Cardinality(Before(o)) < ListPage}
  BY SameF DEF F!OnePage
<1>. HIDE DEF page
<1>2. R # {}
  BY <1>1 DEF page
<1>3. PICK first \in R : \A x \in R : first <= x
  BY <1>0, <1>2, LeastExists, Counts
<1>4. Before(first) = {}
  <2>1. ASSUME NEW p \in R PROVE ~(p < first)
    <3>1. p \in Nat /\ first \in Nat /\ first <= p
      BY <1>0, <1>3
    <3>. QED BY <3>1
  <2>. QED BY <2>1
<1>5. first \in page
  BY <1>1, <1>4, FiguresAre, FS_EmptySet
<1>6. ASSUME NEW p \in R, NEW o \in page, p <= o PROVE p \in page
  <2>1. o \in R /\ o \in Nat /\ p \in Nat
    BY <1>0, <1>1
  <2>2. Before(p) \in SUBSET Before(o) /\ Before(o) \in SUBSET Objects
    <3>1. ASSUME NEW x \in R, x < p PROVE x < o
      <4>1. x \in Nat
        BY <1>0
      <4>. QED BY <1>6, <2>1, <3>1, <4>1
    <3>. QED BY <3>1
  <2>3. /\ Cardinality(Before(p)) <= Cardinality(Before(o))
        /\ Cardinality(Before(p)) \in Nat /\ Cardinality(Before(o)) \in Nat
    BY <2>2, Counts
  <2>4. Cardinality(Before(o)) < ListPage /\ ListPage \in Nat
    BY <1>1, FiguresAre
  <2>. QED BY <1>1, <2>3, <2>4
<1>7. page \subseteq R /\ page \in SUBSET Nat /\ IsFiniteSet(page)
  BY <1>0, <1>1, Counts
<1>8. F!Max(page) \in page /\ \A x \in page : F!Max(page) >= x
  <2>1. \E m \in page : \A x \in page : m >= x
    BY <1>5, <1>7, GreatestExists
  <2>. QED BY <2>1 DEF F!Max
<1>9. \A o \in R : o \in page <=> o <= F!Max(page)
  BY <1>0, <1>6, <1>7, <1>8
<1>. QED BY <1>7, <1>8, <1>9 DEF page

(* Its objects are what lies between the token before and its own.          *)
LEMMA PageCounted ==
  ASSUME NEW O \in SUBSET Objects, Published \subseteq O, NEW n, NEW sum, Counted(O, n, sum),
         F!OnePage(After(O, n)) # After(O, n)
  PROVE  LET page == F!OnePage(After(O, n)) IN Counted(O, F!Max(page), sum + Cardinality(page))
<1>. DEFINE page == F!OnePage(After(O, n))
            m == F!Max(page)
<1>1. /\ page \subseteq After(O, n) /\ m \in page
      /\ \A o \in After(O, n) : o \in page <=> o <= m
  <2>1. After(O, n) \in SUBSET Objects
    BY DEF After
  <2>. QED BY <2>1, PageIs
<1>. HIDE DEF m, page
<1>2. n \in Nat /\ m \in Nat /\ n < m /\ Objects \subseteq Nat /\ sum \in Nat
  BY <1>1, FiguresAre DEF Counted, Objects, After
<1>3. ASSUME NEW X \in SUBSET O
      PROVE  /\ Cardinality(UpTo(X, m)) = Cardinality(UpTo(X, n)) + Cardinality(X \cap page)
             /\ Cardinality(UpTo(X, n)) \in Nat /\ Cardinality(X \cap page) \in Nat
             /\ Cardinality(X \cap page) <= Cardinality(page) /\ Cardinality(page) \in Nat
  <2>1. UpTo(X, n) \cap (X \cap page) = {}
    <3>1. ASSUME NEW o \in page PROVE ~(o <= n)
      <4>1. o > n /\ o \in Nat
        BY <1>1, <1>2 DEF After
      <4>. QED BY <1>2, <4>1
    <3>. QED BY <3>1 DEF UpTo
  <2>2. UpTo(X, m) = UpTo(X, n) \cup (X \cap page)
    <3>1. ASSUME NEW o \in X PROVE o <= m <=> (o <= n \/ o \in page)
      <4>1. o \in Nat
        BY <1>2
      <4>2. CASE o <= n
        BY <1>2, <4>1, <4>2
      <4>3. CASE ~(o <= n)
        BY <1>1, <1>2, <4>1, <4>3 DEF After
      <4>. QED BY <4>2, <4>3
    <3>. QED BY <3>1 DEF UpTo
  <2>3. UpTo(X, n) \in SUBSET Objects /\ X \cap page \in SUBSET Objects /\ page \in SUBSET Objects
    BY <1>1 DEF UpTo, After
  <2>4. Cardinality(UpTo(X, m)) = Cardinality(UpTo(X, n)) + Cardinality(X \cap page)
    BY <2>1, <2>2, <2>3, Apart
  <2>5. X \cap page \in SUBSET page
    OBVIOUS
  <2>. QED BY <2>3, <2>4, <2>5, Counts
<1>4. O \cap page = page
  BY <1>1 DEF After
<1>5. /\ Cardinality(UpTo(O, m)) = Cardinality(UpTo(O, n)) + Cardinality(page)
      /\ Cardinality(UpTo(O, n)) \in Nat /\ Cardinality(page) \in Nat
  BY <1>3, <1>4
<1>6. /\ Cardinality(UpTo(Published, m)) <= Cardinality(UpTo(Published, n)) + Cardinality(page)
      /\ Cardinality(UpTo(Published, n)) \in Nat /\ Cardinality(UpTo(Published, m)) \in Nat
  <2>1. Published \in SUBSET O
    OBVIOUS
  <2>2. /\ Cardinality(UpTo(Published, m))
             = Cardinality(UpTo(Published, n)) + Cardinality(Published \cap page)
        /\ Cardinality(UpTo(Published, n)) \in Nat /\ Cardinality(Published \cap page) \in Nat
        /\ Cardinality(Published \cap page) <= Cardinality(page) /\ Cardinality(page) \in Nat
    BY <1>3, <2>1
  <2>. QED BY <2>2
<1>7. Counted(O, m, sum + Cardinality(page))
  BY <1>2, <1>5, <1>6 DEF Counted
<1>. QED BY <1>7 DEF m, page

(* Captions that are published meanwhile. *)
LEMMA MoreObjects ==
  ASSUME NEW T \in SUBSET Objects, NEW O \in SUBSET T, NEW n, NEW sum
  PROVE  /\ Counted(O, n, sum) => Counted(T, n, sum)
         /\ Whole(O, sum) => Whole(T, sum)
<1>1. UpTo(O, n) \in SUBSET UpTo(T, n) /\ UpTo(T, n) \in SUBSET Objects
  BY DEF UpTo
<1>2. /\ Cardinality(UpTo(O, n)) <= Cardinality(UpTo(T, n)) /\ Cardinality(UpTo(O, n)) \in Nat
      /\ Cardinality(UpTo(T, n)) \in Nat
      /\ Cardinality(O) <= Cardinality(T) /\ Cardinality(O) \in Nat /\ Cardinality(T) \in Nat
  BY <1>1, Counts
<1>. QED BY <1>2 DEF Counted, Whole
FiguresTyped ==
  /\ fReady \subseteq FigureVideos /\ fCards \subseteq fReady
  /\ fObjects \in [FigureVideos -> SUBSET Objects]
  /\ \A v \in fReady : Published \subseteq fObjects[v]
  /\ DOMAIN fFetch = F!Keys /\ DOMAIN fItem = F!Keys /\ DOMAIN fCache = F!Keys
  /\ \A k \in F!Keys : DOMAIN fItem[k] = k

(* What a listing has counted of the objects O, done or on its way. *)
ItemIs(O, i) ==
  /\ DOMAIN i = {"phase", "after", "sum"}
  /\ IF i.phase = "done" THEN Whole(O, i.sum) ELSE Counted(O, i.after, i.sum)

ListingsCount ==
  \A k \in F!Keys : fFetch[k] =>
    k \subseteq fReady /\ \A v \in k : ItemIs(fObjects[v], fItem[k][v])

AnswersWhole ==
  \A k \in F!Keys : \A answer \in fCache[k] :
    k \subseteq fReady /\ \A v \in k : Whole(fObjects[v], answer[v])

FiguresInv == FiguresTyped /\ ListingsCount /\ AnswersWhole

(* A listing that nobody has begun.                                         *)
LEMMA WaitingIs == ASSUME NEW O \in SUBSET Objects PROVE ItemIs(O, F!Waiting)
BY NoneCounted DEF F!Waiting, ItemIs

(* The figures, before anything is ready.                                   *)
LEMMA FiguresStart == ASSUME F!Init PROVE FiguresInv
BY DEF F!Init, F!Keys, FiguresInv, FiguresTyped, ListingsCount, AnswersWhole

(* One listing of one request moves. *)
LEMMA ItemKeeps ==
  ASSUME FiguresInv, NEW k \in F!Keys, NEW v \in k, NEW i,
         fItem' = [fItem EXCEPT ![k][v] = i],
         fFetch[k] => ItemIs(fObjects[v], i),
         UNCHANGED <<fReady, fObjects, fView, fCards, fFetch, fCache>>
  PROVE  FiguresInv'
<1>1. /\ \A j \in F!Keys \ {k} : fItem'[j] = fItem[j]
      /\ fItem'[k] = [fItem[k] EXCEPT ![v] = i] /\ DOMAIN fItem' = F!Keys
      /\ DOMAIN fItem[k] = k
  BY DEF FiguresInv, FiguresTyped
<1>2. /\ DOMAIN fItem'[k] = k /\ fItem'[k][v] = i
      /\ \A w \in k \ {v} : fItem'[k][w] = fItem[k][w]
  BY <1>1
<1>3. FiguresTyped'
  BY <1>1, <1>2 DEF FiguresInv, FiguresTyped, F!Keys
<1>4. ListingsCount'
  BY <1>1, <1>2 DEF FiguresInv, ListingsCount, F!Keys
<1>5. AnswersWhole'
  BY DEF FiguresInv, AnswersWhole, F!Keys
<1>. QED BY <1>3, <1>4, <1>5 DEF FiguresInv

(* An answer of the bucket: the last page, or one with another behind it.   *)
LEMMA ListObjectsKeeps ==
  ASSUME FiguresInv, NEW k \in F!Keys, NEW v \in k, F!Begin(k, v) \/ F!ListObjects(k, v)
  PROVE  FiguresInv'
<1>. DEFINE O == fObjects[v]
            i == fItem[k][v]
            page == F!OnePage(After(O, i.after))
<1>1. /\ fFetch[k] /\ v \in FigureVideos /\ O \in SUBSET Objects /\ Published \subseteq O
      /\ ItemIs(O, i) /\ i.phase # "done"
  BY DEF F!Begin, F!ListObjects, FiguresInv, FiguresTyped, ListingsCount
<1>2. /\ UNCHANGED <<fReady, fObjects, fView, fCards, fFetch, fCache>>
      /\ DOMAIN fItem[k] = k
  BY DEF F!Begin, F!ListObjects, FiguresInv, FiguresTyped
<1>3. CASE F!Begin(k, v)
  <2>. DEFINE j == [i EXCEPT !.phase = "listing"]
  <2>1. fItem' = [fItem EXCEPT ![k][v] = j]
    BY <1>3 DEF F!Begin
  <2>2. ItemIs(O, j)
    BY <1>1 DEF ItemIs
  <2>. HIDE DEF j
  <2>. QED BY <1>2, <2>1, <2>2, ItemKeeps
<1>4. CASE F!ListObjects(k, v) /\ page = After(O, i.after)
  <2>. DEFINE j == [i EXCEPT !.sum = i.sum + Cardinality(After(O, i.after)), !.phase = "done"]
  <2>1. fItem' = [fItem EXCEPT ![k][v] = j]
    BY <1>2, <1>4, SameF DEF F!ListObjects, F!Remaining, After
  <2>2. ItemIs(O, j)
    BY <1>1, LastCounted DEF ItemIs
  <2>. HIDE DEF j
  <2>. QED BY <1>2, <2>1, <2>2, ItemKeeps
<1>5. CASE F!ListObjects(k, v) /\ page # After(O, i.after)
  <2>. DEFINE j == [i EXCEPT !.sum = i.sum + Cardinality(page), !.after = F!Max(page)]
  <2>1. fItem' = [fItem EXCEPT ![k][v] = j]
    BY <1>2, <1>5, SameF DEF F!ListObjects, F!Remaining, After
  <2>2. Counted(O, F!Max(page), i.sum + Cardinality(page))
    BY <1>1, <1>5, PageCounted DEF ItemIs
  <2>. HIDE DEF page
  <2>3. ItemIs(O, j)
    BY <1>1, <2>2 DEF ItemIs
  <2>. HIDE DEF j
  <2>. QED BY <1>2, <2>1, <2>3, ItemKeeps
<1>. QED BY <1>3, <1>4, <1>5

(* The pipeline only adds objects to what a listing has counted.            *)
LEMMA PublishKeeps ==
  ASSUME FiguresInv, NEW v \in FigureVideos,
         F!MarkReady(v) \/ \E o \in Captions : F!PublishCaptions(v, o)
  PROVE  FiguresInv'
<1>1. /\ fReady \subseteq fReady' /\ fReady' \subseteq FigureVideos
      /\ fObjects' \in [FigureVideos -> SUBSET Objects]
      /\ \A w \in fReady' : Published \subseteq fObjects'[w]
      /\ UNCHANGED <<fView, fCards, fFetch, fItem, fCache>>
  BY DEF F!MarkReady, F!PublishCaptions, FiguresInv, FiguresTyped, Objects
<1>2. ASSUME NEW w \in fReady PROVE fObjects[w] \subseteq fObjects'[w]
  BY DEF F!MarkReady, F!PublishCaptions, FiguresInv, FiguresTyped
<1>3. FiguresTyped'
  BY <1>1 DEF FiguresInv, FiguresTyped, F!Keys
<1>4. ASSUME NEW w \in fReady
      PROVE  /\ \A i : ItemIs(fObjects[w], i) => ItemIs(fObjects'[w], i)
             /\ \A n : Whole(fObjects[w], n) => Whole(fObjects'[w], n)
  <2>1. fObjects'[w] \in SUBSET Objects /\ fObjects[w] \in SUBSET fObjects'[w]
    BY <1>1, <1>2 DEF FiguresInv, FiguresTyped
  <2>. QED BY <2>1, MoreObjects DEF ItemIs
<1>5. ListingsCount'
  BY <1>1, <1>4 DEF FiguresInv, ListingsCount, F!Keys
<1>6. AnswersWhole'
  BY <1>1, <1>4 DEF FiguresInv, AnswersWhole, F!Keys
<1>. QED BY <1>3, <1>5, <1>6 DEF FiguresInv

(* A query is of the videos that are ready as it is made.                   *)
LEMMA MountsKeeps ==
  ASSUME FiguresInv, F!Mounts(fReady), fCards' = fReady, UNCHANGED <<fReady, fObjects, fCache>>
  PROVE  FiguresInv'
<1>1. fReady \in F!Keys
  BY DEF FiguresInv, FiguresTyped, F!Keys
<1>2. CASE UNCHANGED <<fFetch, fItem>>
  BY <1>2 DEF FiguresInv, FiguresTyped, ListingsCount, AnswersWhole, F!Keys
<1>3. CASE /\ fFetch' = [fFetch EXCEPT ![fReady] = TRUE]
           /\ fItem' = [fItem EXCEPT ![fReady] = [v \in fReady |-> F!Waiting]]
  <2>1. FiguresTyped'
    BY <1>1, <1>3 DEF FiguresInv, FiguresTyped, F!Keys
  <2>2. ASSUME NEW v \in fReady PROVE ItemIs(fObjects[v], F!Waiting)
    BY WaitingIs DEF FiguresInv, FiguresTyped
  <2>3. ListingsCount'
    BY <1>1, <1>3, <2>2 DEF FiguresInv, FiguresTyped, ListingsCount, F!Keys
  <2>4. AnswersWhole'
    BY DEF FiguresInv, AnswersWhole, F!Keys
  <2>. QED BY <2>1, <2>3, <2>4 DEF FiguresInv
<1>. QED BY <1>2, <1>3 DEF F!Mounts

(* A request ends, and its listings are what is cached.                     *)
LEMMA EndKeeps ==
  ASSUME FiguresInv, NEW k \in F!Keys, F!Arrive(k) \/ F!FetchFails(k)
  PROVE  FiguresInv'
<1>1. /\ fFetch' = [fFetch EXCEPT ![k] = FALSE]
      /\ fItem'  = [fItem EXCEPT ![k] = [v \in k |-> F!Waiting]]
      /\ UNCHANGED <<fReady, fObjects, fCards>>
  BY DEF F!Arrive, F!FetchFails
<1>2. \/ UNCHANGED fCache
      \/ /\ fFetch[k] /\ \A v \in k : fItem[k][v].phase = "done"
         /\ fCache' = [fCache EXCEPT ![k] = {[v \in k |-> fItem[k][v].sum]}]
  BY DEF F!Arrive, F!FetchFails
<1>3. FiguresTyped'
  BY <1>1, <1>2 DEF FiguresInv, FiguresTyped, F!Keys
<1>4. ListingsCount'
  BY <1>1 DEF FiguresInv, FiguresTyped, ListingsCount, F!Keys
<1>5. AnswersWhole'
  <2>1. CASE UNCHANGED fCache
    BY <1>1, <2>1 DEF FiguresInv, AnswersWhole, F!Keys
  <2>2. CASE /\ fFetch[k] /\ \A v \in k : fItem[k][v].phase = "done"
             /\ fCache' = [fCache EXCEPT ![k] = {[v \in k |-> fItem[k][v].sum]}]
    <3>1. k \subseteq fReady /\ \A v \in k : Whole(fObjects[v], fItem[k][v].sum)
      BY <2>2 DEF FiguresInv, ListingsCount, ItemIs
    <3>2. fCache'[k] = {[v \in k |-> fItem[k][v].sum]} /\ \A j \in F!Keys \ {k} : fCache'[j] = fCache[j]
      BY <2>2 DEF FiguresInv, FiguresTyped
    <3>3. \A answer \in fCache'[k] : \A v \in k : Whole(fObjects[v], answer[v])
      BY <3>1, <3>2
    <3>. QED BY <1>1, <3>1, <3>2, <3>3 DEF FiguresInv, AnswersWhole, F!Keys
  <2>. QED BY <1>2, <2>1, <2>2
<1>. QED BY <1>3, <1>4, <1>5 DEF FiguresInv

(* Every step of the figures keeps that.                                    *)
LEMMA FiguresKept == ASSUME FiguresInv, [F!Next]_(F!vars) PROVE FiguresInv'
<1>1. CASE F!Open \/ F!ListArrives
  BY <1>1, MountsKeeps DEF F!Open, F!ListArrives
<1>2. CASE F!Leave
  BY <1>2 DEF F!Leave, FiguresInv, FiguresTyped, ListingsCount, AnswersWhole, F!Keys
<1>3. CASE UNCHANGED F!vars
  BY <1>3 DEF F!vars, FiguresInv, FiguresTyped, ListingsCount, AnswersWhole, F!Keys
<1>. QED BY <1>1, <1>2, <1>3, PublishKeeps, ListObjectsKeeps, EndKeeps DEF F!Next

(* So a card has a whole figure: of the answer, or of the row.              *)
LEMMA FiguresWhole == ASSUME FiguresInv PROVE F!FigureIsWhole
<1>1. ASSUME NEW v \in fCards
      PROVE  F!Figure(v) \in Cardinality(Published) .. Cardinality(fObjects[v])
  <2>1. /\ v \in FigureVideos /\ fCards \in F!Keys
        /\ fObjects[v] \in SUBSET Objects /\ Published \in SUBSET fObjects[v]
    BY DEF FiguresInv, FiguresTyped, F!Keys
  <2>2. CASE fCache[fCards] = {}
    BY <2>1, <2>2, Counts, SameF DEF F!Figure
  <2>3. CASE fCache[fCards] # {}
    <3>1. Whole(fObjects[v], F!Figure(v))
      BY <2>1, <2>3 DEF F!Figure, FiguresInv, AnswersWhole
    <3>2. Cardinality(fObjects[v]) \in Nat /\ Cardinality(Published) \in Nat
      BY <2>1, Counts
    <3>. QED BY <3>1, <3>2 DEF Whole
  <2>. QED BY <2>2, <2>3
<1>. QED BY <1>1, SameF DEF F!FigureIsWhole

(* A card counts all that PRIMARY published, and nothing that is not there.    *)
THEOREM FigureWhole == Spec => []FigureIsWhole
<1>. DEFINE I == part = "figures" => FiguresInv
<1>1. Init => I
  BY FiguresStart DEF Init
<1>2. I /\ [Next]_vars => I'
  BY PartMoves, FiguresKept
<1>3. I => FigureIsWhole
  BY FiguresWhole DEF FigureIsWhole
<1>. QED BY <1>1, <1>2, <1>3, PTL DEF Spec
-----------------------------------------------------------------------------
(* The player package.  A click that destroys a player knows the parts of it  *)
(* that the player knew, and whatever starts after that starts in load(): so  *)
(* each stage of a destroy leaves alive no more than what load() had still    *)
(* ahead, and every player but the present one has been through all of them,  *)
(* or was replaced by a click that did not know it.                          *)

(* No click has the number that stands for none.                            *)
LEMMA LoadsNumbered == 0 \notin Loads
BY PartsAssumption DEF E!ClicksAssumption

EmbeddedTyped ==
  /\ eCurrent \in Loads \cup {0} /\ eTarget \in [Loads -> Loads \cup {0}]
  /\ eHandler \in [Loads -> {"idle", "ui", "player", "rest", "over"}]
  /\ eLoad \in [Loads -> E!Awaited \cup {"none", "done", "failed"}]
  /\ eField \in [Loads -> SUBSET E!Fields] /\ eLive \in [Loads -> SUBSET E!Fields]
  /\ eOverlap \in [Loads -> E!Awaited \cup {"none", "replaced"}]

(* A click ends by loading its player, which nothing is known of before. *)
LoadedByClick ==
  /\ \A h \in Loads : (eLoad[h] = "none" <=> eHandler[h] # "over") /\ (eLoad[h] = "none" => eLive[h] = {} /\ eOverlap[h] = "none")
  /\ IF eCurrent = 0 THEN \A p \in Loads : eLoad[p] = "none" ELSE eLoad[eCurrent] # "none"
  /\ \A h \in Loads : eTarget[h] \in Loads => eLoad[eTarget[h]] # "none"
  /\ \A h \in Loads : eHandler[h] \in {"ui", "player", "rest"} => eTarget[h] \in Loads

Targeted(p) == \E h \in Loads : eTarget[h] = p
Replaced(p) == \E h \in Loads : eTarget[h] = p /\ eHandler[h] = "over"

(* What a player that may be destroyed has it knows of, but for the first     *)
(* await of load().                                                        *)
Known(p) ==
  eLive[p] \subseteq eField[p] \cup (IF eLoad[p] = "attach" THEN {"player"} ELSE {})

(* What a load() that awaits a may still bring about, or has and cannot tell. *)
Ahead(a) ==
  {f \in E!Fields : \/ f = "player" /\ a = "attach"
                    \/ f = "ui" /\ a \in {"attach", "keys"}
                    \/ f = "watermark" /\ a \in E!Awaited}

(* What an overlap accounts for.                                            *)
May(o) == IF o = "replaced" THEN Ahead("attach") ELSE Ahead(o)

(* How far a click has got with the player it destroys. *)
StageReached(h) ==
  LET p == eTarget[h] IN
  /\ eHandler[h] = "ui"     => eLive[p] \subseteq {"ui", "player", "video"} \cup May(eOverlap[p])
  /\ eHandler[h] = "player" => eLive[p] \subseteq {"player", "video"} \cup May(eOverlap[p])
  /\ eHandler[h] = "rest"   => eLive[p] \subseteq {"video"} \cup May(eOverlap[p])
  /\ eHandler[h] = "over"   => eLive[p] \subseteq May(eOverlap[p])

Destroying ==
  /\ \A h \in Loads : eTarget[h] \in Loads => StageReached(h)
  /\ \A p \in Loads : Known(p) \/ Replaced(p) \/ eOverlap[p] = "replaced"
  /\ \A p \in Loads : Targeted(p) \/ eOverlap[p] # "none" => Ahead(eLoad[p]) \subseteq May(eOverlap[p])
  /\ \A p \in Loads : p # eCurrent =>
       /\ "video" \notin eLive[p]
       /\ eLoad[p] = "none" \/ Replaced(p) \/ eOverlap[p] = "replaced"
  /\ eCurrent \in Loads => eOverlap[eCurrent] # "replaced"

EmbeddedInv == EmbeddedTyped /\ LoadedByClick /\ Destroying

(* The page, before the first click.                                        *)
LEMMA EmbeddedStarts == ASSUME E!Init PROVE EmbeddedInv
BY LoadsNumbered DEF E!Init, EmbeddedInv, EmbeddedTyped, LoadedByClick, Destroying,
   StageReached, Known, Replaced, Targeted, E!Fields, E!Awaited

(* A load() goes on, and has then less ahead.                               *)
LEMMA LoadStepKeeps ==
  ASSUME EmbeddedInv, NEW p \in Loads, E!LoadStep(p)
  PROVE  EmbeddedInv'
<1>. USE DEF EmbeddedInv, EmbeddedTyped, E!LoadStep
<1>1. /\ UNCHANGED <<eCurrent, eHandler, eTarget, eOverlap>>
      /\ E!Awaits(p) /\ eLoad[p] # "none"
      /\ \A q \in Loads \ {p} : eLoad'[q] = eLoad[q] /\ eField'[q] = eField[q] /\ eLive'[q] = eLive[q]
      /\ eLoad'[p] \notin {"none", "attach"}
  BY DEF E!Attached, E!HasKeys, E!MediaLoaded, E!StartWatermark, E!LoadFails, E!Awaits, E!Awaited
<1>2. EmbeddedTyped'
  BY <1>1 DEF E!Attached, E!HasKeys, E!MediaLoaded, E!StartWatermark, E!LoadFails, E!Fields, E!Awaited
<1>3. LoadedByClick'
  BY <1>1, <1>2 DEF LoadedByClick
<1>4. Known(p) => Known(p)'
  BY <1>1 DEF Known, E!Attached, E!HasKeys, E!MediaLoaded, E!StartWatermark, E!LoadFails
<1>5. /\ eLive'[p] \subseteq eLive[p] \cup Ahead(eLoad[p])
      /\ Ahead(eLoad'[p]) \subseteq Ahead(eLoad[p])
      /\ "video" \in eLive'[p] => "video" \in eLive[p]
  BY <1>1 DEF Ahead, E!Attached, E!HasKeys, E!MediaLoaded, E!StartWatermark, E!LoadFails,
     E!Fields, E!Awaited
<1>6. \A q \in Loads : eOverlap'[q] = eOverlap[q]
  BY <1>1
<1>7. ASSUME NEW h \in Loads, eTarget[h] \in Loads PROVE StageReached(h)'
  <2>1. CASE eTarget[h] = p
    <3>1. StageReached(h) /\ Ahead(eLoad[p]) \subseteq May(eOverlap[p])
      BY <1>7, <2>1 DEF Destroying, Targeted
    <3>2. eLive'[p] \subseteq eLive[p] \cup May(eOverlap[p])
      BY <1>5, <3>1
    <3>. QED BY <1>1, <1>6, <2>1, <3>1, <3>2 DEF StageReached
  <2>2. CASE eTarget[h] # p
    <3>1. StageReached(h) /\ eLive'[eTarget[h]] = eLive[eTarget[h]]
      BY <1>1, <1>7, <2>2 DEF Destroying
    <3>. QED BY <1>1, <1>6, <1>7, <3>1 DEF StageReached
  <2>. QED BY <2>1, <2>2
<1>8. ASSUME NEW q \in Loads
      PROVE  /\ Known(q)' \/ Replaced(q)' \/ eOverlap'[q] = "replaced"
             /\ Targeted(q)' \/ eOverlap'[q] # "none" => Ahead(eLoad'[q]) \subseteq May(eOverlap'[q])
  <2>1. /\ Replaced(q)' <=> Replaced(q)
        /\ Targeted(q)' <=> Targeted(q)
        /\ Known(q) => Known(q)'
    BY <1>1, <1>4 DEF Replaced, Targeted, Known
  <2>. QED BY <1>1, <1>5, <1>6, <2>1 DEF Destroying
<1>9. ASSUME NEW q \in Loads, q # eCurrent
      PROVE  /\ "video" \notin eLive'[q]
             /\ eLoad'[q] = "none" \/ Replaced(q)' \/ eOverlap'[q] = "replaced"
  BY <1>1, <1>5, <1>9 DEF Destroying, Replaced
<1>. QED BY <1>1, <1>2, <1>3, <1>7, <1>8, <1>9 DEF Destroying

(* The overlap that a click has found accounts for at least as much later.    *)
LEMMA MayGrows ==
  ASSUME EmbeddedTyped, NEW p \in Loads, NEW q \in Loads,
         \/ eOverlap' = [eOverlap EXCEPT ![q] = "replaced"]
         \/ eOverlap' = [eOverlap EXCEPT ![q] = IF @ = "none" /\ E!Awaits(q) THEN eLoad[q] ELSE @]
         \/ eOverlap' = eOverlap
  PROVE  May(eOverlap[p]) \subseteq May(eOverlap'[p])
BY DEF EmbeddedTyped, May, Ahead, E!Awaited

(* A player that is loaded by a click which destroyed t, or nothing. *)
LEMMA LoadKeeps ==
  ASSUME EmbeddedInv, NEW h \in Loads, NEW t \in Loads \cup {0}, E!Load(h, t),
         eHandler[h] # "over", eTarget' = [eTarget EXCEPT ![h] = t],
         eHandler' = [eHandler EXCEPT ![h] = "over"],
         t \in Loads => eLoad[t] # "none",
         t \in Loads => eLive[t] \subseteq {"video"} \cup May(eOverlap[t]) /\ Targeted(t),
         eOverlap' = IF eCurrent = t THEN eOverlap ELSE [eOverlap EXCEPT ![eCurrent] = "replaced"],
         eCurrent \in Loads \/ eCurrent = t
  PROVE  EmbeddedInv'
<1>. USE LoadsNumbered DEF EmbeddedInv, EmbeddedTyped
<1>1. /\ eLoad[h] = "none" /\ t # h /\ eCurrent # h /\ eCurrent' = h
      /\ eOverlap' \in [Loads -> E!Awaited \cup {"none", "replaced"}]
      /\ \A x \in Loads : eTarget[x] # h
  BY DEF LoadedByClick, E!Load
<1>2. /\ eLoad'[h] \in {"done", "attach", "failed"}
      /\ E!AtOnce \subseteq E!Fields
      /\ eLive'[h] = E!AtOnce /\ eField'[h] = E!AtOnce \ {"player"}
      /\ eLoad'[h] # "attach" => "player" \notin E!AtOnce
  BY DEF E!Load, E!AtOnce, E!Fields
<1>3. /\ \A q \in Loads \ {h} : eLoad'[q] = eLoad[q] /\ eLive'[q] = eLive[q] \ {"video"}
                               /\ eField'[q] = IF q = t THEN {} ELSE eField[q]
  BY DEF E!Load
<1>4. EmbeddedTyped'
  <2>1. eField' \in [Loads -> SUBSET E!Fields] /\ eLive' \in [Loads -> SUBSET E!Fields]
    BY <1>2, <1>3 DEF E!Load
  <2>2. eLoad' \in [Loads -> E!Awaited \cup {"none", "done", "failed"}]
    BY DEF E!Load, E!Awaited
  <2>. QED BY <2>1, <2>2, <1>1
<1>5. LoadedByClick'
  BY <1>1, <1>2, <1>3 DEF LoadedByClick
<1>6. \A q \in Loads : /\ May(eOverlap[q]) \subseteq May(eOverlap'[q])
                       /\ eOverlap'[q] = eOverlap[q] \/ eOverlap'[q] = "replaced"
                       /\ eOverlap[q] = "replaced" => eOverlap'[q] = "replaced"
                       /\ q = eCurrent => q = t \/ eOverlap'[q] = "replaced"
  BY MayGrows
<1>7. ASSUME NEW x \in Loads, eTarget'[x] \in Loads PROVE StageReached(x)'
  <2>1. CASE x = h
    <3>1. eTarget'[x] = t /\ eHandler'[x] = "over" /\ t \in Loads
      BY <2>1, <1>1, <1>7
    <3>2. eLive'[t] \subseteq May(eOverlap'[t])
      BY <3>1, <1>1, <1>3, <1>6
    <3>. QED BY <3>1, <3>2 DEF StageReached
  <2>2. CASE x # h
    <3>1. /\ eTarget'[x] = eTarget[x] /\ eHandler'[x] = eHandler[x]
      BY <2>2
    <3>2. eTarget[x] \in Loads /\ eTarget[x] # h
      BY <3>1, <1>1, <1>7
    <3>3. /\ StageReached(x) /\ May(eOverlap[eTarget[x]]) \subseteq May(eOverlap'[eTarget[x]])
          /\ eLive'[eTarget[x]] \subseteq eLive[eTarget[x]]
      BY <3>2, <1>3, <1>6 DEF Destroying
    <3>. QED BY <3>1, <3>3 DEF StageReached
  <2>. QED BY <2>1, <2>2
<1>8. ASSUME NEW q \in Loads
      PROVE  /\ Replaced(q) => Replaced(q)'
             /\ Targeted(q)' => Targeted(q) \/ q = t
  BY DEF Replaced, Targeted, LoadedByClick
<1>9. t \in Loads => Replaced(t)'
  BY DEF Replaced
<1>10. ASSUME NEW q \in Loads
       PROVE  /\ Known(q)' \/ Replaced(q)' \/ eOverlap'[q] = "replaced"
              /\ Targeted(q)' \/ eOverlap'[q] # "none" => Ahead(eLoad'[q]) \subseteq May(eOverlap'[q])
  <2>1. CASE q = h
    <3>1. Known(q)'
      BY <2>1, <1>2 DEF Known
    <3>2. ~Targeted(q)'
      BY <2>1, <1>1 DEF Targeted
    <3>3. eOverlap'[q] = "none"
      BY <2>1, <1>1 DEF LoadedByClick
    <3>. QED BY <3>1, <3>2, <3>3
  <2>2. CASE q # h
    <3>1. Known(q)' \/ Replaced(q)' \/ eOverlap'[q] = "replaced"
      <4>1. CASE q = t
        BY <4>1, <1>9
      <4>2. CASE q # t
        BY <2>2, <4>2, <1>3, <1>6, <1>8 DEF Known, Destroying
      <4>. QED BY <4>1, <4>2
    <3>2. CASE eOverlap'[q] = "replaced" /\ eOverlap[q] # "replaced"
      <4>1. Ahead(eLoad'[q]) \subseteq May(eOverlap'[q])
        BY <3>2 DEF May, Ahead, E!Awaited
      <4>. QED BY <3>1, <4>1
    <3>3. CASE eOverlap'[q] = eOverlap[q]
      <4>1. Targeted(q)' \/ eOverlap'[q] # "none" => Ahead(eLoad[q]) \subseteq May(eOverlap[q])
        BY <3>3, <1>8 DEF Destroying
      <4>. QED BY <2>2, <3>1, <4>1, <1>3, <1>6
    <3>. QED BY <3>2, <3>3, <1>6
  <2>. QED BY <2>1, <2>2
<1>11. ASSUME NEW q \in Loads, q # h
       PROVE  /\ "video" \notin eLive'[q]
              /\ eLoad'[q] = "none" \/ Replaced(q)' \/ eOverlap'[q] = "replaced"
  BY <1>3, <1>6, <1>8, <1>9, <1>11 DEF Destroying
<1>12. eOverlap'[h] # "replaced"
  BY <1>1 DEF LoadedByClick
<1>. QED BY <1>1, <1>4, <1>5, <1>7, <1>10, <1>11, <1>12 DEF Destroying

(* A step of a destroy(), which stops something of the player it is of. *)
LEMMA StopKeeps ==
  ASSUME EmbeddedInv, NEW h \in Loads, NEW p \in Loads, NEW s \in {"ui", "player", "rest"}, NEW gone,
         eTarget' = [eTarget EXCEPT ![h] = p], eHandler' = [eHandler EXCEPT ![h] = s],
         eHandler[h] # "over", eLoad[p] # "none",
         eLive' = [eLive EXCEPT ![p] = @ \ gone],
         UNCHANGED <<eCurrent, eLoad, eField>>,
         \/ eOverlap' = [eOverlap EXCEPT ![p] = IF @ = "none" /\ E!Awaits(p) THEN eLoad[p] ELSE @]
         \/ eOverlap' = eOverlap /\ Targeted(p),
         StageReached(h)'
  PROVE  EmbeddedInv'
<1>. USE LoadsNumbered DEF EmbeddedInv, EmbeddedTyped
<1>1. EmbeddedTyped'
  BY DEF E!Awaits
<1>2. LoadedByClick'
  BY DEF LoadedByClick, E!Awaits
<1>3. \A q \in Loads : eLive'[q] \subseteq eLive[q]
  OBVIOUS
<1>4. \A q \in Loads : /\ May(eOverlap[q]) \subseteq May(eOverlap'[q])
                       /\ eOverlap[q] = "replaced" => eOverlap'[q] = "replaced"
                       /\ q # p => eOverlap'[q] = eOverlap[q]
  BY MayGrows
<1>5. ASSUME NEW x \in Loads, eTarget'[x] \in Loads PROVE StageReached(x)'
  <2>1. CASE x = h
    BY <2>1
  <2>2. CASE x # h
    <3>1. /\ eTarget'[x] = eTarget[x] /\ eHandler'[x] = eHandler[x] /\ eTarget[x] \in Loads
      BY <2>2, <1>5
    <3>2. StageReached(x) /\ May(eOverlap[eTarget[x]]) \subseteq May(eOverlap'[eTarget[x]])
      BY <3>1, <1>4 DEF Destroying
    <3>. QED BY <1>3, <3>1, <3>2 DEF StageReached
  <2>. QED BY <2>1, <2>2
<1>6. ASSUME NEW q \in Loads PROVE /\ Replaced(q) => Replaced(q)'
                                   /\ Known(q) => Known(q)'
                                   /\ Targeted(q)' => Targeted(q) \/ q = p
  BY <1>3 DEF Replaced, Known, Targeted
<1>7. Ahead(eLoad'[p]) \subseteq May(eOverlap'[p])
  <2>1. CASE Targeted(p) \/ eOverlap[p] # "none"
    BY <2>1, <1>4 DEF Destroying
  <2>2. CASE eOverlap[p] = "none" /\ E!Awaits(p) /\ eOverlap'[p] = eLoad[p]
    <3>1. eLoad[p] # "replaced"
      BY <2>2 DEF E!Awaits, E!Awaited
    <3>. QED BY <2>2, <3>1 DEF May
  <2>3. CASE ~E!Awaits(p)
    BY <2>3 DEF Ahead, E!Awaits, E!Awaited
  <2>. QED BY <2>1, <2>2, <2>3
<1>8. ASSUME NEW q \in Loads
      PROVE  Targeted(q)' \/ eOverlap'[q] # "none" => Ahead(eLoad'[q]) \subseteq May(eOverlap'[q])
  <2>1. CASE q = p
    BY <2>1, <1>7
  <2>2. CASE q # p
    BY <2>2, <1>4, <1>6 DEF Destroying
  <2>. QED BY <2>1, <2>2
<1>9. eCurrent \in Loads => eOverlap'[eCurrent] # "replaced"
  BY DEF Destroying, E!Awaits, E!Awaited
<1>. QED BY <1>1, <1>2, <1>3, <1>4, <1>5, <1>6, <1>8, <1>9 DEF Destroying

(* A click destroys the player it found, in stages, and loads its own.      *)
LEMMA ClickStepKeeps ==
  ASSUME EmbeddedInv, NEW h \in Loads, E!ClickStep(h)
  PROVE  EmbeddedInv'
<1>. USE LoadsNumbered DEF EmbeddedInv, EmbeddedTyped
<1>1. CASE E!Click(h) /\ eCurrent = 0
  BY <1>1, LoadKeeps DEF E!Click
<1>2. CASE E!Click(h) /\ eCurrent # 0
  <2>. DEFINE p == eCurrent
  <2>1. /\ eHandler[h] = "idle" /\ p \in Loads /\ eLoad[p] # "none"
        /\ eTarget' = [eTarget EXCEPT ![h] = p]
        /\ eHandler' = [eHandler EXCEPT ![h] = E!AfterWatermark(p)]
        /\ eLive' = [eLive EXCEPT ![p] = @ \ (eField[p] \cap {"watermark"})]
        /\ UNCHANGED <<eCurrent, eLoad, eField>>
        /\ eOverlap' = [eOverlap EXCEPT ![p] = IF @ = "none" /\ E!Awaits(p) THEN eLoad[p] ELSE @]
    BY <1>2 DEF E!Click, E!Stop, LoadedByClick
  <2>2. E!AfterWatermark(p) \in {"ui", "player", "rest"}
    BY DEF E!AfterWatermark
  <2>3. May(eOverlap[p]) \subseteq May(eOverlap'[p])
    BY <2>1, MayGrows
  <2>4. eLive'[p] \subseteq (eField[p] \ {"watermark"}) \cup May(eOverlap'[p])
    <3>1. CASE Known(p)
      <4>1. eLoad[p] = "attach" => "player" \in May(eOverlap'[p])
        <5>1. CASE eLoad[p] = "attach" /\ eOverlap[p] = "none"
          <6>1. eOverlap'[p] = "attach"
            BY <2>1, <5>1 DEF E!Awaits, E!Awaited
          <6>. QED BY <6>1 DEF May, Ahead, E!Fields
        <5>2. CASE eLoad[p] = "attach" /\ eOverlap[p] # "none"
          <6>1. "player" \in Ahead(eLoad[p]) /\ Ahead(eLoad[p]) \subseteq May(eOverlap[p])
            BY <2>1, <5>2 DEF Destroying, Ahead, E!Fields
          <6>. QED BY <2>3, <6>1
        <5>. QED BY <5>1, <5>2
      <4>. QED BY <2>1, <3>1, <4>1 DEF Known
    <3>2. CASE Replaced(p)
      <4>1. eLive[p] \subseteq May(eOverlap[p])
        BY <2>1, <3>2 DEF Destroying, StageReached, Replaced
      <4>. QED BY <2>1, <2>3, <4>1
    <3>3. CASE eOverlap[p] = "replaced" /\ ~Replaced(p)
      BY <2>1, <3>3 DEF Destroying
    <3>. QED BY <2>1, <3>1, <3>2, <3>3 DEF Destroying
  <2>5. StageReached(h)'
    <3>1. eHandler'[h] = E!AfterWatermark(p) /\ eTarget'[h] = p /\ eField[p] \subseteq E!Fields
      BY <2>1
    <3>. QED BY <2>4, <3>1 DEF StageReached, E!AfterWatermark, E!Fields
  <2>. QED BY <2>1, <2>2, <2>5, StopKeeps
<1>3. CASE E!UiDestroyed(h)
  <2>. DEFINE p == eTarget[h]
  <2>1. /\ p \in Loads /\ eHandler[h] = "ui" /\ eLoad[p] # "none"
        /\ eTarget' = [eTarget EXCEPT ![h] = p]
        /\ eLive' = [eLive EXCEPT ![p] = @ \ {"ui", "player"}]
        /\ UNCHANGED <<eCurrent, eLoad, eField, eOverlap>>
        /\ Targeted(p)
    BY <1>3 DEF E!UiDestroyed, LoadedByClick, Targeted
  <2>2. PICK s \in {"ui", "player", "rest"} : eHandler' = [eHandler EXCEPT ![h] = s] /\ s # "ui"
    BY <1>3 DEF E!UiDestroyed
  <2>3. StageReached(h) /\ May(eOverlap'[p]) = May(eOverlap[p]) /\ eTarget'[h] = p
    BY <2>1 DEF Destroying, May
  <2>4. StageReached(h)'
    BY <2>1, <2>2, <2>3 DEF StageReached, May
  <2>. QED BY <2>1, <2>2, <2>4, StopKeeps
<1>4. CASE E!PlayerDestroyed(h)
  <2>. DEFINE p == eTarget[h]
  <2>1. /\ p \in Loads /\ eHandler[h] = "player" /\ eLoad[p] # "none"
        /\ eTarget' = [eTarget EXCEPT ![h] = p] /\ eHandler' = [eHandler EXCEPT ![h] = "rest"]
        /\ eLive' = [eLive EXCEPT ![p] = @ \ {"player"}]
        /\ UNCHANGED <<eCurrent, eLoad, eField, eOverlap>>
        /\ Targeted(p)
    BY <1>4 DEF E!PlayerDestroyed, LoadedByClick, Targeted
  <2>2. StageReached(h) /\ May(eOverlap'[p]) = May(eOverlap[p]) /\ eTarget'[h] = p
    BY <2>1 DEF Destroying, May
  <2>3. StageReached(h)'
    BY <2>1, <2>2 DEF StageReached, May
  <2>. QED BY <2>1, <2>3, StopKeeps
<1>5. CASE E!Replace(h)
  <2>. DEFINE p == eTarget[h]
  <2>1. /\ p \in Loads /\ eHandler[h] = "rest" /\ eLoad[p] # "none" /\ E!Load(h, p)
        /\ eTarget' = [eTarget EXCEPT ![h] = p] /\ eHandler' = [eHandler EXCEPT ![h] = "over"]
        /\ eOverlap' = IF eCurrent = p THEN eOverlap ELSE [eOverlap EXCEPT ![eCurrent] = "replaced"]
        /\ eCurrent \in Loads
    BY <1>5 DEF E!Replace, LoadedByClick
  <2>2. eLive[p] \subseteq {"video"} \cup May(eOverlap[p]) /\ Targeted(p)
    BY <2>1 DEF StageReached, Destroying, Targeted
  <2>. QED BY <2>1, <2>2, LoadKeeps
<1>. QED BY <1>1, <1>2, <1>3, <1>4, <1>5 DEF E!ClickStep

(* Every step of the page keeps that.                                       *)
LEMMA EmbeddedKept == ASSUME EmbeddedInv, [E!Next]_(E!vars) PROVE EmbeddedInv'
<1>1. CASE E!Next
  BY <1>1, LoadStepKeeps, ClickStepKeeps DEF E!Next
<1>2. CASE UNCHANGED E!vars
  BY <1>2 DEF E!vars, EmbeddedInv, EmbeddedTyped, LoadedByClick, Destroying, StageReached,
     Known, Replaced, Targeted, May
<1>. QED BY <1>1, <1>2

(* So what was replaced has no more alive than its overlap accounts for.     *)
LEMMA NothingElseIsLeft == ASSUME EmbeddedInv PROVE E!NothingElseLeft
<1>. SUFFICES ASSUME NEW p \in Loads, p # eCurrent
              PROVE  /\ "video" \notin eLive[p]
                     /\ "player" \in eLive[p] => eOverlap[p] \in {"attach", "replaced"}
                     /\ "ui" \in eLive[p] => eOverlap[p] \in {"attach", "keys", "replaced"}
                     /\ "watermark" \in eLive[p] => eOverlap[p] # "none"
  BY DEF E!NothingElseLeft
<1>1. "video" \notin eLive[p] /\ (eLoad[p] = "none" \/ Replaced(p) \/ eOverlap[p] = "replaced")
  BY DEF EmbeddedInv, Destroying
<1>2. CASE Replaced(p)
  <2>1. eLive[p] \subseteq May(eOverlap[p])
    BY <1>2 DEF EmbeddedInv, Destroying, StageReached, Replaced
  <2>. QED BY <1>1, <2>1 DEF May, Ahead, E!Awaited
<1>3. CASE eLoad[p] = "none"
  BY <1>3 DEF EmbeddedInv, LoadedByClick
<1>4. CASE eOverlap[p] = "replaced" /\ ~Replaced(p)
  BY <1>1, <1>4
<1>. QED BY <1>1, <1>2, <1>3, <1>4

(* EuronVideoPlayer.destroy() under any number of clicks on "Load & Play",    *)
(* between any two awaits of load(): what it leaves running of a player is    *)
(* bounded by the await that it met.                                        *)
THEOREM NoPlayerLeft == Spec => []NothingElseLeft
<1>. DEFINE I == part = "embedded" => EmbeddedInv
<1>1. Init => I
  BY EmbeddedStarts DEF Init
<1>2. I /\ [Next]_vars => I'
  BY PartMoves, EmbeddedKept
<1>3. I => NothingElseLeft
  BY NothingElseIsLeft DEF NothingElseLeft
<1>. QED BY <1>1, <1>2, <1>3, PTL DEF Spec
-----------------------------------------------------------------------------
(* The settings menu.  Whoever has not rendered the tracks of now has a render *)
(* ahead: his own, or the player's, which brings the instance that an effect  *)
(* of his subscribes to.                                                     *)

MenuTyped ==
  /\ pNative \in BOOLEAN /\ pError \in BOOLEAN /\ pQueued \in BOOLEAN
  /\ pMade \in Nat \ {0} /\ pHls \in Nat
  /\ DOMAIN pHeard = P!Readers /\ pDue \in SUBSET P!Readers
  /\ pEngine \in P!Tracks /\ pShown \in [P!Readers -> P!Tracks]
  /\ pError => pView = "closed"

SameText(s, t) == s.listed = t.listed /\ s.on = t.on

(* Something is left that renders r again. *)
ToRender(r) == r \in pDue \/ "player" \in pDue \/ pHeard[r] # pHls

(* What hls.js is read for. *)
RendersFollow ==
  /\ pHls # pMade => "player" \in pDue
  /\ \/ ToRender("player")
     \/ SameText(pShown["player"], pEngine)
  /\ \/ pError \/ ToRender("menu")
     \/ pShown["menu"] = pEngine

(* Nothing of that happens where Safari plays: there are events instead. *)
SyncFollows ==
  /\ pHls = 0 /\ pDue = {} /\ \A r \in P!Readers : pHeard[r] = 0
  /\ pQueued \/ (pEngine.listed => SameText(pShown["player"], pEngine))

MenuInv == MenuTyped /\ (IF pNative THEN SyncFollows ELSE RendersFollow)

(* There are two readers.                                                   *)
LEMMA ReadersAre == P!Readers = {"player", "menu"}
BY DEF P!Readers

(* No tracks are tracks too.                                                *)
LEMMA TracksAre ==
  /\ P!NoTrack \in P!Tracks /\ P!NoTrack.listed = FALSE /\ P!NoTrack.on = FALSE
  /\ \A t \in P!Tracks : /\ t.levels \in BOOLEAN /\ t.listed \in BOOLEAN /\ t.on \in BOOLEAN
                         /\ t.locked \in Levels \cup {0} /\ t.playing \in Levels \cup {0}
BY DEF P!NoTrack, P!Tracks

(* Tracks of which a subtitle is found,                                     *)
LEMMA Relisted ==
  ASSUME NEW t \in P!Tracks, NEW b \in BOOLEAN
  PROVE  [t EXCEPT !.listed = TRUE, !.on = b] \in P!Tracks
BY DEF P!Tracks

(* switched on or off,                                                      *)
LEMMA Switched ==
  ASSUME NEW t \in P!Tracks, NEW b \in BOOLEAN
  PROVE  [t EXCEPT !.on = b] \in P!Tracks
BY DEF P!Tracks

(* of which the levels are found,                                           *)
LEMMA Parsed == ASSUME NEW t \in P!Tracks PROVE [t EXCEPT !.levels = TRUE] \in P!Tracks
BY DEF P!Tracks

(* of which another level plays,                                            *)
LEMMA Played ==
  ASSUME NEW t \in P!Tracks, NEW l \in Levels
  PROVE  [t EXCEPT !.playing = l] \in P!Tracks
BY DEF P!Tracks

(* and of which one is locked, which says nothing of the subtitles.         *)
LEMMA Locked ==
  ASSUME NEW t \in P!Tracks, NEW l \in Levels \cup {0}
  PROVE  /\ [t EXCEPT !.locked = l] \in P!Tracks
         /\ SameText([t EXCEPT !.locked = l], t)
BY DEF P!Tracks, SameText

(* The menu, as the player is started.                                      *)
LEMMA MenuStarts == ASSUME P!Init PROVE MenuInv
<1>1. pShown = [r \in P!Readers |-> P!NoTrack] /\ pEngine = P!NoTrack
  BY DEF P!Init
<1>2. MenuTyped
  <2>1. pNative \in BOOLEAN /\ pError = FALSE /\ pQueued = FALSE /\ pMade = 1 /\ pHls = 0
    BY DEF P!Init
  <2>2. DOMAIN pHeard = P!Readers /\ pDue \in SUBSET P!Readers
    BY ReadersAre DEF P!Init
  <2>3. pShown \in [P!Readers -> P!Tracks]
    BY <1>1, TracksAre
  <2>4. pMade \in Nat \ {0} /\ pHls \in Nat
    BY <2>1
  <2>5. pNative \in BOOLEAN /\ pError \in BOOLEAN /\ pQueued \in BOOLEAN /\ ~pError
    BY <2>1
  <2>6. pEngine \in P!Tracks
    BY <1>1, TracksAre
  <2>. QED BY <2>2, <2>3, <2>4, <2>5, <2>6, Zenon DEF MenuTyped
<1>. QED BY <1>1, <1>2, TracksAre, ReadersAre DEF P!Init, MenuInv, SyncFollows, RendersFollow,
        ToRender

(* The reader that has an effect to run, or an event to hear, is rendered *)
(* after what hls.js does.                                            *)
LEMMA FiresKeeps ==
  ASSUME MenuInv, ~pNative, pEngine' \in P!Tracks, P!Fires,
         UNCHANGED <<pNative, pError, pMade, pHls, pHeard, pQueued>>,
         pView' = pView \/ ~pError,
         pShown' \in [P!Readers -> P!Tracks]
  PROVE  MenuInv'
<1>. USE ReadersAre DEF MenuInv, MenuTyped
<1>1. pDue \subseteq pDue' /\ pDue' \in SUBSET P!Readers
  BY DEF P!Fires
<1>2. ASSUME NEW r \in P!Readers, pHls = pMade PROVE ToRender(r)'
  BY <1>2 DEF P!Fires, ToRender
<1>3. pHls # pMade => "player" \in pDue'
  BY <1>1 DEF RendersFollow
<1>4. RendersFollow'
  BY <1>2, <1>3 DEF RendersFollow, ToRender
<1>5. MenuTyped'
  BY <1>1
<1>. QED BY <1>4, <1>5

(* A reader renders what there is of the instance of now.                   *)
LEMMA RenderKeeps == ASSUME MenuInv, NEW r \in P!Readers, P!Render(r) PROVE MenuInv'
<1>. USE ReadersAre DEF MenuInv, MenuTyped, P!Mounted
<1>1. ~pNative
  BY DEF P!Render, SyncFollows
<1>2. MenuTyped'
  <2>1. pShown' \in [P!Readers -> P!Tracks]
    BY TracksAre DEF P!Render, P!Read
  <2>. QED BY <2>1 DEF P!Render
<1>3. CASE r = "player"
  <2>1. pHls' = pMade /\ P!Read(pHls') = pEngine
    BY <1>3 DEF P!Render, P!Read
  <2>2. pShown'["player"] = pEngine /\ (~pError => pShown'["menu"] = pEngine)
    BY <1>3, <2>1 DEF P!Render
  <2>. QED BY <1>1, <1>2, <2>1, <2>2 DEF P!Render, RendersFollow, SameText
<1>4. CASE r = "menu"
  <2>1. pHls' = pHls /\ pDue' = pDue \ {"menu"} /\ pShown'["player"] = pShown["player"]
        /\ UNCHANGED <<pNative, pError, pMade, pHeard, pEngine>>
    BY <1>4 DEF P!Render
  <2>2. ~pError /\ pHls = pMade => pShown'["menu"] = pEngine
    BY <1>4, <2>1 DEF P!Render, P!Read
  <2>. QED BY <1>1, <1>2, <2>1, <2>2 DEF RendersFollow, SameText, ToRender
<1>. QED BY <1>3, <1>4

(* An effect subscribes to what was rendered, and renders once more.        *)
LEMMA SubscribeKeeps == ASSUME MenuInv, NEW r \in P!Readers, P!Subscribe(r) PROVE MenuInv'
<1>. USE ReadersAre DEF MenuInv, MenuTyped, P!Subscribe, P!EffectDue
<1>1. ~pNative
  BY DEF SyncFollows
<1>2. MenuTyped'
  OBVIOUS
<1>3. RendersFollow'
  BY <1>1 DEF RendersFollow, ToRender, SameText
<1>. QED BY <1>1, <1>2, <1>3

(* hls.js finds levels and subtitles, and plays another level.              *)
LEMMA HlsKeeps ==
  ASSUME MenuInv, P!ManifestParsed \/ P!SubtitlesFound \/ P!LevelSwitched
  PROVE  MenuInv'
<1>. USE DEF MenuInv, MenuTyped
<1>1. CASE P!ManifestParsed
  <2>1. pEngine' = [pEngine EXCEPT !.levels = TRUE] /\ P!EngineMoves
    BY <1>1 DEF P!ManifestParsed
  <2>. QED BY <2>1, Parsed, FiresKeeps DEF P!EngineMoves
<1>2. CASE P!SubtitlesFound
  <2>1. pEngine' = [pEngine EXCEPT !.listed = TRUE, !.on = TRUE] /\ P!EngineMoves
    BY <1>2 DEF P!SubtitlesFound
  <2>2. pEngine' \in P!Tracks
    BY <2>1, Relisted
  <2>. QED BY <2>1, <2>2, FiresKeeps DEF P!EngineMoves
<1>3. CASE P!LevelSwitched
  <2>1. P!EngineMoves
    BY <1>3 DEF P!LevelSwitched
  <2>2. PICK l \in IF pEngine.locked = 0 THEN Levels ELSE {pEngine.locked} :
          pEngine' = [pEngine EXCEPT !.playing = l]
    BY <1>3 DEF P!LevelSwitched
  <2>3. l \in Levels
    BY <2>2, TracksAre
  <2>4. pEngine' \in P!Tracks
    BY <2>2, <2>3, Played
  <2>. QED BY <2>1, <2>4, FiresKeeps DEF P!EngineMoves
<1>. QED BY <1>1, <1>2, <1>3

(* The element finds its track, or switches it, and queues an event.        *)
LEMMA ElementKeeps ==
  ASSUME MenuInv, P!TrackAdded \/ P!TrackSwitched
  PROVE  MenuInv'
<1>. USE DEF MenuInv, MenuTyped
<1>1. P!TrackMoves
  BY DEF P!TrackAdded, P!TrackSwitched
<1>2. CASE P!TrackAdded
  <2>1. PICK b \in BOOLEAN : pEngine' = [pEngine EXCEPT !.listed = TRUE, !.on = b]
    BY <1>2 DEF P!TrackAdded
  <2>2. pEngine' \in P!Tracks
    BY <2>1, Relisted
  <2>. QED BY <1>1, <2>2 DEF P!TrackMoves, SyncFollows
<1>3. CASE P!TrackSwitched
  <2>1. pEngine' = [pEngine EXCEPT !.on = ~pEngine.on]
    BY <1>3 DEF P!TrackSwitched
  <2>2. pEngine' \in P!Tracks
    BY <2>1, Switched, TracksAre
  <2>. QED BY <1>1, <2>2 DEF P!TrackMoves, SyncFollows
<1>. QED BY <1>2, <1>3

(* The event is handled.                                                    *)
LEMMA SyncKeeps == ASSUME MenuInv, P!SyncTracks PROVE MenuInv'
<1>. USE ReadersAre DEF MenuInv, MenuTyped, P!SyncTracks
<1>1. MenuTyped'
  OBVIOUS
<1>2. CASE pNative
  BY <1>1, <1>2 DEF SyncFollows, SameText
<1>3. CASE ~pNative
  BY <1>1, <1>3 DEF RendersFollow, SameText, ToRender
<1>. QED BY <1>2, <1>3

(* The player fails, and is started again.                                  *)
LEMMA ErrorsKeep == ASSUME MenuInv, P!Fails \/ P!Restart PROVE MenuInv'
<1>. USE ReadersAre DEF MenuInv, MenuTyped
<1>1. CASE P!Fails
  <2>1. MenuTyped'
    BY <1>1, TracksAre DEF P!Fails
  <2>2. CASE pNative
    BY <1>1, <2>1, <2>2 DEF P!Fails, SyncFollows, SameText
  <2>3. CASE ~pNative
    BY <1>1, <2>1, <2>3 DEF P!Fails, RendersFollow, SameText, ToRender
  <2>. QED BY <2>2, <2>3
<1>2. CASE P!Restart
  <2>1. MenuTyped'
    <3>1. /\ pError' = FALSE /\ pMade' = pMade + 1 /\ pEngine' = P!NoTrack
          /\ UNCHANGED <<pNative, pHls, pHeard, pShown, pQueued>>
      BY <1>2 DEF P!Restart
    <3>2. pDue' \in SUBSET P!Readers
      BY <1>2 DEF P!Restart
    <3>3. pMade' \in Nat \ {0} /\ pHls' \in Nat
      BY <3>1
    <3>4. pNative' \in BOOLEAN /\ pError' \in BOOLEAN /\ pQueued' \in BOOLEAN /\ ~pError'
      BY <3>1
    <3>5. pEngine' \in P!Tracks /\ pShown' \in [P!Readers -> P!Tracks]
          /\ DOMAIN pHeard' = P!Readers
      BY <3>1, TracksAre
    <3>. QED BY <3>2, <3>3, <3>4, <3>5, Zenon DEF MenuTyped
  <2>2. CASE pNative
    BY <1>2, <2>1, <2>2, TracksAre DEF P!Restart, SyncFollows
  <2>3. CASE ~pNative
    BY <1>2, <2>1, <2>3 DEF P!Restart, RendersFollow, ToRender
  <2>. QED BY <2>2, <2>3
<1>. QED BY <1>1, <1>2

(* What only moves through the menu.                                        *)
LEMMA WalkKeeps ==
  ASSUME MenuInv, P!Settings \/ P!ClickElsewhere \/ P!Walk
  PROVE  MenuInv'
<1>1. /\ UNCHANGED <<pNative, pError, pMade, pHls, pHeard, pDue, pEngine, pShown, pQueued>>
      /\ pError => pView' = "closed"
  BY DEF MenuInv, MenuTyped, P!Settings, P!ClickElsewhere, P!Walk, P!Click
<1>. QED BY <1>1 DEF MenuInv, MenuTyped, SyncFollows, RendersFollow, SameText, ToRender

(* A quality is chosen, which fires nothing.                                *)
LEMMA QualityKeeps == ASSUME MenuInv, P!SelectQuality PROVE MenuInv'
<1>. USE ReadersAre DEF MenuInv, MenuTyped
<1>1. PICK l \in Levels \cup {0} : P!Choose([pEngine EXCEPT !.locked = l])
  BY DEF P!SelectQuality
<1>. DEFINE tracks == [pEngine EXCEPT !.locked = l]
<1>2. tracks \in P!Tracks /\ SameText(tracks, pEngine)
  BY Locked
<1>3. /\ UNCHANGED <<pNative, pError, pMade, pHls, pHeard, pDue, pQueued>> /\ ~pError
      /\ pEngine' = IF pHls = pMade THEN tracks ELSE pEngine
      /\ pShown' = [pShown EXCEPT !["menu"] = IF pHls = pMade THEN tracks ELSE P!NoTrack]
  BY <1>1 DEF P!SelectQuality, P!Click, P!Choose
<1>. HIDE DEF tracks
<1>4. MenuTyped'
  BY <1>2, <1>3, TracksAre
<1>5. CASE pNative
  BY <1>3, <1>4, <1>5 DEF SyncFollows, SameText
<1>6. CASE ~pNative
  BY <1>2, <1>3, <1>4, <1>6 DEF RendersFollow, SameText, ToRender
<1>. QED BY <1>5, <1>6

(* A subtitle is chosen, which fires an event if it changes anything.       *)
LEMMA TextKeeps == ASSUME MenuInv, P!SelectText PROVE MenuInv'
<1>. USE ReadersAre DEF MenuInv, MenuTyped
<1>1. PICK b \in BOOLEAN :
        /\ P!Choose([pEngine EXCEPT !.on = b /\ pEngine.listed])
        /\ IF pEngine' = pEngine THEN UNCHANGED pDue ELSE P!Fires
  BY DEF P!SelectText
<1>. DEFINE tracks == [pEngine EXCEPT !.on = b /\ pEngine.listed]
<1>2. tracks \in P!Tracks
  BY Switched, TracksAre
<1>3. /\ UNCHANGED <<pNative, pError, pMade, pHls, pHeard, pQueued>> /\ ~pError
      /\ pEngine' = IF pHls = pMade THEN tracks ELSE pEngine
      /\ pShown' = [pShown EXCEPT !["menu"] = IF pHls = pMade THEN tracks ELSE P!NoTrack]
  BY <1>1 DEF P!SelectText, P!Click, P!Choose
<1>. HIDE DEF tracks
<1>4. pEngine' \in P!Tracks /\ pShown' \in [P!Readers -> P!Tracks]
  BY <1>2, <1>3, TracksAre
<1>5. CASE pEngine' = pEngine
  <2>1. MenuTyped'
    BY <1>1, <1>3, <1>4, <1>5
  <2>2. CASE pNative
    BY <1>1, <1>3, <1>5, <2>1, <2>2 DEF SyncFollows, SameText
  <2>3. CASE ~pNative
    BY <1>1, <1>3, <1>5, <2>1, <2>3 DEF RendersFollow, SameText, ToRender
  <2>. QED BY <2>2, <2>3
<1>6. CASE pEngine' # pEngine
  <2>1. ~pNative
    BY <1>3, <1>6 DEF SyncFollows
  <2>. QED BY <1>1, <1>3, <1>4, <1>6, <2>1, FiresKeeps
<1>. QED BY <1>5, <1>6

(* The CC button, on either path.                                           *)
LEMMA ToggleKeeps == ASSUME MenuInv, P!ToggleCaptions PROVE MenuInv'
<1>. USE ReadersAre DEF MenuInv, MenuTyped
<1>1. /\ pEngine.listed /\ pEngine' = [pEngine EXCEPT !.on = ~pEngine.on] /\ pEngine' \in P!Tracks
      /\ UNCHANGED <<pNative, pError, pMade, pHls, pHeard, pView>>
  BY Switched, TracksAre DEF P!ToggleCaptions
<1>2. CASE pNative
  <2>1. /\ pShown' = [pShown EXCEPT !["player"].on = ~pEngine.on] /\ pQueued' = TRUE /\ UNCHANGED pDue
    BY <1>2 DEF P!ToggleCaptions, P!ToggleNative
  <2>2. [pShown["player"] EXCEPT !.on = ~pEngine.on] \in P!Tracks
    BY Switched, TracksAre
  <2>. HIDE DEF P!Tracks
  <2>3. pShown' = [pShown EXCEPT !["player"] = [pShown["player"] EXCEPT !.on = ~pEngine.on]]
    BY <2>1
  <2>4. pShown' \in [P!Readers -> P!Tracks]
    BY <2>2, <2>3
  <2>. QED BY <1>1, <1>2, <2>1, <2>4 DEF SyncFollows
<1>3. CASE ~pNative
  <2>1. P!Fires /\ UNCHANGED <<pShown, pQueued>>
    BY <1>3 DEF P!ToggleCaptions
  <2>. QED BY <1>1, <1>3, <2>1, FiresKeeps
<1>. QED BY <1>2, <1>3

(* Every step of the player keeps that.                                     *)
LEMMA MenuKept == ASSUME MenuInv, [P!Next]_(P!vars) PROVE MenuInv'
<1>1. CASE P!ReactStep
  BY <1>1, RenderKeeps, SubscribeKeeps DEF P!ReactStep
<1>2. CASE UNCHANGED P!vars
  BY <1>2 DEF P!vars, MenuInv, MenuTyped, SyncFollows, RendersFollow, SameText, ToRender
<1>. QED BY <1>1, <1>2, HlsKeeps, ElementKeeps, SyncKeeps, ErrorsKeep, WalkKeeps, QualityKeeps,
        TextKeeps,
            ToggleKeeps DEF P!Next

(* So whoever has nothing ahead has rendered the tracks of now.             *)
LEMMA MenuSays == ASSUME MenuInv PROVE P!MenuTrue
BY ReadersAre DEF MenuInv, MenuTyped, SyncFollows, RendersFollow, SameText, ToRender,
   P!MenuTrue, P!EffectDue, P!Mounted

(* What the menu and the CC button say once they have nothing to render is   *)
(* what the player does.                                                     *)
THEOREM MenuSaysTrue == Spec => []MenuTrue
<1>. DEFINE I == part = "menu" => MenuInv
<1>1. Init => I
  BY MenuStarts DEF Init
<1>2. I /\ [Next]_vars => I'
  BY PartMoves, MenuKept
<1>3. I => MenuTrue
  BY MenuSays DEF MenuTrue
<1>. QED BY <1>1, <1>2, <1>3, PTL DEF Spec
-----------------------------------------------------------------------------
(* The settings of a deployment, and the keys.  While neither of the two      *)
(* settings that wrap a key has been changed, the store, the workers and the   *)
(* rows have the value of the file, or none.                                  *)

(* The two settings that reach a content key. *)
KeySettings == {"KEY_KMS_KEY_ID", "PLAYBACK_TOKEN_SECRET"}
Set(value)  == value \notin {"absent", "empty"}

(* The settings that are pushed, as a set.                                  *)
LEMMA SettingsOfScript ==
  S!Settings = {"DATABASE_URL", "PG_DATABASE_HOST"} \cup KeySettings
<1>1. DOMAIN S!Pushed = 1 .. 4 /\ S!Pushed[1] = "DATABASE_URL" /\ S!Pushed[2] = "PG_DATABASE_HOST"
      /\ S!Pushed[3] = "KEY_KMS_KEY_ID" /\ S!Pushed[4] = "PLAYBACK_TOKEN_SECRET"
  BY DEF S!Pushed
<1>2. DOMAIN S!Pushed = {1, 2, 3, 4}
  BY <1>1
<1>. QED BY <1>1, <1>2 DEF S!Settings, KeySettings

SettingsTyped ==
  /\ DOMAIN sFile = S!Settings /\ DOMAIN sSsm = S!Settings
  /\ sRotated \in BOOLEAN
  /\ DOMAIN sConfig = Workers /\ \A w \in Workers : DOMAIN sConfig[w] = S!Settings
  /\ DOMAIN sRow = KeyVideos

(* Of the file's settings for keys the store has the present one or none, *)
StoreFollows ==
  \A s \in KeySettings : sSsm[s] # "absent" => sSsm[s] = sFile[s] /\ Set(sFile[s])

(* a worker that one or an empty one, *)
WorkersFollow ==
  \A w \in Workers : sConfig[w] # S!Off =>
    \A s \in KeySettings : sConfig[w][s] # "empty" => sConfig[w][s] = sFile[s] /\ Set(sFile[s])

(* and a key is wrapped under it. *)
RowsFollow ==
  \A v \in KeyVideos : sRow[v].under # "empty" =>
    \/ sRow[v].scheme = "kms" /\ sRow[v].under = sFile["KEY_KMS_KEY_ID"] /\ Set(sRow[v].under)
    \/ /\ sRow[v].scheme = "local_aes" /\ sRow[v].under = sFile["PLAYBACK_TOKEN_SECRET"]
       /\ Set(sRow[v].under)

SettingsInv ==
  /\ SettingsTyped
  /\ ~sRotated => StoreFollows /\ WorkersFollow /\ RowsFollow

(* The deployment, before anything is set.                                  *)
LEMMA SettingsStart == ASSUME S!Init PROVE SettingsInv
<1>1. \A s \in KeySettings : s \in S!Settings
  BY SettingsOfScript
<1>. QED BY <1>1 DEF S!Init, SettingsInv, SettingsTyped, StoreFollows, WorkersFollow,
        RowsFollow, S!Off, S!NoKey

(* A setting for keys that had a value takes another only by a rotation.    *)
LEMMA EditKeeps ==
  ASSUME SettingsInv, NEW s \in S!Settings, S!Edit(s)
  PROVE  SettingsInv'
<1>. USE SettingsOfScript DEF SettingsInv, SettingsTyped
<1>1. SettingsTyped' /\ (sRotated => sRotated')
  BY DEF S!Edit
<1>2. ASSUME ~sRotated', NEW k \in KeySettings, Set(sFile[k]) PROVE sFile'[k] = sFile[k]
  BY <1>2 DEF S!Edit, Set, KeySettings
<1>3. UNCHANGED <<sSsm, sConfig, sRow>>
  BY DEF S!Edit
<1>4. ~sRotated' => StoreFollows' /\ WorkersFollow'
  BY <1>1, <1>2, <1>3 DEF StoreFollows, WorkersFollow
<1>5. ~sRotated' => RowsFollow'
  BY <1>1, <1>2, <1>3 DEF RowsFollow, KeySettings, Set
<1>. QED BY <1>1, <1>4, <1>5

(* Every step of the deployment keeps that.                                 *)
LEMMA SettingsKept == ASSUME SettingsInv, [S!Next]_(S!vars) PROVE SettingsInv'
<1>. USE SettingsOfScript DEF SettingsInv, SettingsTyped, StoreFollows, WorkersFollow,
        RowsFollow
<1>1. ASSUME NEW s \in S!Settings, S!Edit(s) PROVE SettingsInv'
  BY <1>1, EditKeeps
<1>2. CASE S!Push \/ S!PushFails
  BY <1>2 DEF S!Push, S!PushFails
<1>3. CASE S!PutNext
  BY <1>3 DEF S!PutNext, Set
<1>4. ASSUME NEW w \in Workers, S!Boot(w) PROVE SettingsInv'
  <2>1. PICK missed : sConfig' = [sConfig EXCEPT ![w] = S!Configured(S!Written(missed))]
    BY <1>4 DEF S!Boot
  <2>2. \A s \in KeySettings :
          S!Written(missed)[s] \in {"empty", sSsm[s]} /\ S!Written(missed)[s] # "absent"
    BY DEF S!Written
  <2>3. \A s \in KeySettings : S!Configured(S!Written(missed))[s] = S!Written(missed)[s]
    BY <2>2 DEF S!Configured
  <2>4. /\ UNCHANGED <<sFile, sRotated, sSsm, sRow>>
        /\ DOMAIN S!Configured(S!Written(missed)) = S!Settings
    BY <1>4 DEF S!Boot, S!Configured
  <2>5. ~sRotated => WorkersFollow'
    BY <2>1, <2>2, <2>3, <2>4
  <2>. QED BY <2>1, <2>4, <2>5
<1>5. ASSUME NEW w \in Workers, S!Ends(w) PROVE SettingsInv'
  BY <1>5 DEF S!Ends, S!Off
<1>6. ASSUME NEW w \in Workers, NEW v \in KeyVideos, S!StoreKey(w, v) PROVE SettingsInv'
  <2>1. /\ UNCHANGED <<sFile, sRotated, sSsm, sConfig>> /\ sConfig[w] # S!Off
        /\ sRow' = [sRow EXCEPT ![v] = S!Wrapped(sConfig[w])]
    BY <1>6 DEF S!StoreKey, S!Running
  <2>2. ~sRotated => RowsFollow'
    BY <2>1 DEF S!Wrapped, S!UsesKms, KeySettings
  <2>. QED BY <2>1, <2>2
<1>7. CASE UNCHANGED S!vars
  BY <1>7 DEF S!vars
<1>. QED BY <1>1, <1>2, <1>3, <1>4, <1>5, <1>6, <1>7 DEF S!Next

(* So the file has what a key was wrapped under.                            *)
LEMMA SettingsDeliver == ASSUME SettingsInv PROVE S!KeysDeliverable
<1>. SUFFICES ASSUME ~sRotated, NEW v \in KeyVideos, sRow[v].under # "empty"
              PROVE  S!Unwraps(S!Configured(sFile), sRow[v])
  BY DEF S!KeysDeliverable
<1>1. \A s \in KeySettings : Set(sFile[s]) => S!Configured(sFile)[s] = sFile[s]
  BY SettingsOfScript DEF S!Configured, Set
<1>. QED BY <1>1 DEF SettingsInv, RowsFollow, S!Unwraps, S!UsesKms, Set, KeySettings

(* An API that is configured as the file says unwraps every key that a      *)
(* worker of any day has wrapped.                                           *)
THEOREM KeysUnwrap == Spec => []KeysDeliverable
<1>. DEFINE I == part = "settings" => SettingsInv
<1>1. Init => I
  BY SettingsStart DEF Init
<1>2. I /\ [Next]_vars => I'
  BY PartMoves, SettingsKept
<1>3. I => KeysDeliverable
  BY SettingsDeliver DEF KeysDeliverable
<1>. QED BY <1>1, <1>2, <1>3, PTL DEF Spec
-----------------------------------------------------------------------------
(* The buttons and the title.  A click is listened to until it is answered,  *)
(* or left; and of the renames only that of the editor which is open is.      *)

ClickRecords ==
  [control : A!Controls \cup {"none"},
   request : {"none", "sent", "found", "done", "refused", "over"},
   editor : Nat, was : A!Statuses \cup {"none"},
   heard : BOOLEAN, left : BOOLEAN, ok : BOOLEAN, told : BOOLEAN, saved : BOOLEAN]

CardTyped ==
  /\ aRow \in A!Statuses /\ aShown \in A!Statuses \cup {"none"}
  /\ aOpened \in Nat /\ aEditing \in Nat
  /\ aClick \in [Clicks -> ClickRecords]

(* Who is not listened to any more has left, or is answered. *)
HeardOrLeft(c) ==
  /\ c.request \in {"sent", "found", "done", "refused"} => c.heard \/ c.left
  /\ c.request \in {"none", "over"} => ~c.heard

Answered(c) ==
  c.request = "over" =>
    /\ c.told => ~c.ok
    /\ ~c.ok /\ ~c.left => c.told
    /\ c.saved <=> (c.ok /\ A!Download(c.control))

(* The one rename that is listened to is of the editor that is open. *)
Renames(c) == c.control = "rename" /\ c.heard

EditorOfRename ==
  /\ \A i \in Clicks : Renames(aClick[i]) => aClick[i].editor = aEditing /\ aEditing # 0
  /\ \A i, j \in Clicks : Renames(aClick[i]) /\ Renames(aClick[j]) => i = j

CardInv ==
  /\ CardTyped
  /\ \A i \in Clicks : HeardOrLeft(aClick[i]) /\ Answered(aClick[i])
  /\ EditorOfRename /\ aCutOff = FALSE

(* A click that nobody has made.                                            *)
LEMMA UnclickedIs ==
  /\ A!Unclicked \in ClickRecords /\ A!Unclicked.control = "none" /\ A!Unclicked.request = "none"
  /\ ~A!Unclicked.heard
BY DEF A!Unclicked, ClickRecords, A!Controls, A!Buttons, A!Statuses

(* The card, before the first click.                                        *)
LEMMA CardStarts == ASSUME A!Init PROVE CardInv
<1>1. \A i \in Clicks : aClick[i] = A!Unclicked
  BY DEF A!Init
<1>. QED BY <1>1, UnclickedIs DEF A!Init, CardInv, CardTyped, HeardOrLeft, Answered,
        EditorOfRename, Renames

(* Of a click, whether it is listened to is all that changes, and the rest *)
(* knows it has left.                                                   *)
MayLeave(c, d) ==
  /\ \A f \in {"control", "request", "editor", "was", "ok", "told", "saved"} : d[f] = c[f]
  /\ d.heard => c.heard
  /\ c.left => d.left
  /\ c.heard /\ ~d.heard => d.left

(* A click that is left loses its claim to be told.                         *)
LEMMA LeavingKeeps ==
  ASSUME NEW c \in ClickRecords, NEW d \in ClickRecords, MayLeave(c, d)
  PROVE  /\ HeardOrLeft(c) => HeardOrLeft(d)
         /\ Answered(c) => Answered(d)
         /\ Renames(d) => Renames(c) /\ d.editor = c.editor
BY DEF MayLeave, HeardOrLeft, Answered, Renames, ClickRecords

(* Whoever is removed leaves his clicks.                                    *)
LEMMA UnheardLeaves ==
  ASSUME CardTyped, NEW controls
  PROVE  /\ A!Unheard(controls) \in [Clicks -> ClickRecords]
         /\ \A i \in Clicks : /\ MayLeave(aClick[i], A!Unheard(controls)[i])
                              /\ aClick[i].control \in controls => ~A!Unheard(controls)[i].heard
<1>1. ASSUME NEW i \in Clicks
      PROVE  /\ A!Unheard(controls)[i] \in ClickRecords
             /\ MayLeave(aClick[i], A!Unheard(controls)[i])
             /\ aClick[i].control \in controls => ~A!Unheard(controls)[i].heard
  <2>1. aClick[i] \in ClickRecords
    BY DEF CardTyped
  <2>2. CASE aClick[i].control \in controls /\ aClick[i].heard
    <3>1. A!Unheard(controls)[i] = [aClick[i] EXCEPT !.heard = FALSE, !.left = TRUE]
      BY <2>2 DEF A!Unheard
    <3>. QED BY <2>1, <2>2, <3>1 DEF ClickRecords, MayLeave
  <2>3. CASE ~(aClick[i].control \in controls /\ aClick[i].heard)
    <3>1. A!Unheard(controls)[i] = aClick[i]
      BY <2>3 DEF A!Unheard
    <3>. QED BY <2>1, <2>3, <3>1 DEF ClickRecords, MayLeave
  <2>. QED BY <2>2, <2>3
<1>. QED BY <1>1 DEF A!Unheard

(* A click: a button is disabled while one of its own is heard, and the editor*)
(* leaves its earlier rename for this one.                                  *)
LEMMA MutateKeeps ==
  ASSUME CardInv, NEW control \in A!Controls, NEW guess \in A!Statuses \cup {"none"},
         A!Mutate(control, guess),
         control # "rename" => ~A!Pending(control),
         control = "rename" => aEditing # 0
  PROVE  CardInv'
<1>. USE DEF CardInv
<1>1. PICK i \in Clicks :
        /\ aClick[i] = A!Unclicked
        /\ aClick' = [j \in Clicks |->
                   IF j = i THEN A!Latest(control, A!Unclicked)
                   ELSE [aClick[j] EXCEPT !.heard = @ /\ aClick[j].control # control,
                           !.left = @ \/ (/\ control = "rename" /\ aClick[j].control = control
                                          /\ aClick[j].heard)]]
  BY DEF A!Mutate
<1>2. /\ aShown' = guess
      /\ UNCHANGED <<aRow, aMoves, aPage, aOpened, aEditing, aCutOff>>
  BY DEF A!Mutate
<1>3. /\ aClick'[i] \in ClickRecords /\ aClick'[i].control = control /\ aClick'[i].request = "sent"
      /\ aClick'[i].editor = aEditing /\ aClick'[i].heard
  BY <1>1, UnclickedIs DEF A!Latest, ClickRecords, CardTyped
<1>4. ASSUME NEW j \in Clicks, j # i
      PROVE  /\ aClick'[j] \in ClickRecords /\ MayLeave(aClick[j], aClick'[j])
             /\ aClick[j].control = control => ~aClick'[j].heard
  <2>. DEFINE c == aClick[j]
  <2>1. c \in ClickRecords
    BY DEF CardTyped
  <2>2. aClick'[j] = [c EXCEPT !.heard = c.heard /\ c.control # control,
                               !.left = c.left \/ (control = "rename" /\ c.control = control /\ c.heard)]
    BY <1>1, <1>4
  <2>3. control # "rename" => ~(c.control = control /\ c.heard)
    BY DEF A!Pending
  <2>. QED BY <2>1, <2>2, <2>3 DEF ClickRecords, MayLeave
<1>5. CardTyped'
  BY <1>1, <1>2, <1>3, <1>4 DEF CardTyped
<1>6. ASSUME NEW j \in Clicks PROVE HeardOrLeft(aClick[j])' /\ Answered(aClick[j])'
  BY <1>3, <1>4, LeavingKeeps DEF CardTyped, HeardOrLeft, Answered
<1>7. EditorOfRename'
  <2>1. ASSUME NEW j \in Clicks, Renames(aClick[j])', j # i
        PROVE  /\ Renames(aClick[j]) /\ control # "rename"
               /\ aClick'[j].editor = aClick[j].editor
    BY <1>4, <2>1, LeavingKeeps DEF CardTyped, Renames
  <2>. QED BY <1>2, <1>3, <2>1 DEF EditorOfRename, Renames
<1>. QED BY <1>2, <1>5, <1>6, <1>7

(* Clicks that are listened to no more, or not by an editor that is closed. *)
LEMMA UnheardKeeps ==
  ASSUME CardInv, NEW controls, aClick' = A!Unheard(controls),
         aRow' \in A!Statuses, aShown' \in A!Statuses \cup {"none"}, aOpened' \in Nat, aEditing' \in Nat,
         aEditing' = aEditing \/ "rename" \in controls,
         aCutOff' = aCutOff
  PROVE  CardInv'
<1>1. CardTyped' /\ \A i \in Clicks : HeardOrLeft(aClick[i])' /\ Answered(aClick[i])'
  BY UnheardLeaves, LeavingKeeps DEF CardInv, CardTyped
<1>2. EditorOfRename'
  BY UnheardLeaves, LeavingKeeps DEF CardInv, CardTyped, EditorOfRename, Renames
<1>. QED BY <1>1, <1>2 DEF CardInv

(* The API's handler goes on, and tells nobody yet.                         *)
LEMMA HandlerStepKeeps ==
  ASSUME CardInv, NEW i \in Clicks, A!HandlerStep(i)
  PROVE  CardInv'
<1>. USE DEF CardInv, CardTyped
<1>1. PICK r \in {"found", "refused", "done"} : A!Becomes(i, r)
  BY DEF A!HandlerStep, A!FindFailed, A!RetryRow, A!CancelRow, A!SetTitle, A!MintUrl,
     A!HeadAnswers, A!Lost
<1>2. aClick[i].request \in {"sent", "found", "done"} /\ aRow' \in A!Statuses
  BY DEF A!HandlerStep, A!FindFailed, A!RetryRow, A!CancelRow, A!SetTitle, A!MintUrl, A!Lost,
     A!At, A!Statuses
<1>3. /\ aClick' = [aClick EXCEPT ![i].request = r]
      /\ UNCHANGED <<aMoves, aPage, aShown, aOpened, aEditing, aCutOff>>
  BY <1>1 DEF A!Becomes
<1>4. aClick'[i] = [aClick[i] EXCEPT !.request = r] /\ \A j \in Clicks \ {i} : aClick'[j] = aClick[j]
  BY <1>3
<1>5. /\ aClick'[i] \in ClickRecords /\ aClick'[i].request = r /\ aClick'[i].heard = aClick[i].heard
      /\ aClick'[i].left = aClick[i].left /\ aClick'[i].control = aClick[i].control
      /\ aClick'[i].editor = aClick[i].editor
  BY <1>4 DEF ClickRecords
<1>6. CardTyped'
  BY <1>2, <1>3, <1>4, <1>5
<1>7. ASSUME NEW j \in Clicks PROVE HeardOrLeft(aClick[j])' /\ Answered(aClick[j])'
  BY <1>2, <1>4, <1>5 DEF HeardOrLeft, Answered
<1>8. EditorOfRename'
  BY <1>3, <1>4, <1>5 DEF EditorOfRename, Renames
<1>. QED BY <1>3, <1>6, <1>7, <1>8

(* The answer comes, and whoever still listens is told.                     *)
LEMMA SettleKeeps ==
  ASSUME CardInv, NEW i \in Clicks, A!Settle(i)
  PROVE  CardInv'
<1>. DEFINE c == aClick[i]
            others == A!Unheard(A!Removed(aShown'))
            ok == c.request = "done"
            saved == A!Saved(c)
            told == A!Told(c)
            d == [others[i] EXCEPT !.request = "over", !.ok = ok, !.heard = FALSE,
                    !.editor = 0, !.was = "none", !.saved = saved, !.told = told]
<1>. USE DEF CardInv, CardTyped
<1>1. c.request \in {"done", "refused"} /\ UNCHANGED <<aRow, aOpened>>
  BY DEF A!Settle
<1>2. aClick' = [others EXCEPT ![i] = d]
  BY DEF A!Settle
<1>3. /\ others \in [Clicks -> ClickRecords]
      /\ \A j \in Clicks : MayLeave(aClick[j], others[j])
  BY UnheardLeaves
<1>4. aClick'[i] = d /\ \A j \in Clicks \ {i} : aClick'[j] = others[j]
  BY <1>2, <1>3
<1>5. c \in ClickRecords /\ others[i] \in ClickRecords /\ MayLeave(c, others[i])
  BY <1>3
<1>. HIDE DEF c, others
<1>6. /\ d \in ClickRecords /\ d.request = "over" /\ ~d.heard
      /\ d.ok <=> c.request = "done"
      /\ d.told <=> c.request = "refused" /\ c.heard
      /\ d.saved <=> c.request = "done" /\ A!Download(d.control)
      /\ ~d.left => ~c.left
  <2>1. /\ ok \in BOOLEAN /\ saved \in BOOLEAN /\ told \in BOOLEAN
        /\ ok <=> c.request = "done"
        /\ saved <=> c.request = "done" /\ A!Download(c.control)
        /\ told <=> c.request = "refused" /\ c.heard
    BY <1>5 DEF A!Saved, A!Told, A!Download, ClickRecords
  <2>. HIDE DEF ok, saved, told
  <2>. HIDE DEF CardInv, CardTyped
  <2>2. /\ d.request = "over" /\ d.heard = FALSE /\ d.ok = ok /\ d.saved = saved /\ d.told = told
        /\ d.left = others[i].left /\ d.control = others[i].control
    <3>1. DOMAIN others[i] =
            {"control", "request", "editor", "was", "heard", "left", "ok", "told", "saved"}
      BY <1>5 DEF ClickRecords
    <3>. QED BY <3>1
  <2>3. others[i].control = c.control /\ (~others[i].left => ~c.left)
    BY <1>5 DEF MayLeave, ClickRecords
  <2>4. d \in ClickRecords
    BY <1>5, <2>1 DEF ClickRecords
  <2>. QED BY <2>1, <2>2, <2>3, <2>4
<1>7. HeardOrLeft(c)
  BY DEF c
<1>8. HeardOrLeft(d) /\ Answered(d)
  BY <1>1, <1>6, <1>7 DEF HeardOrLeft, Answered
<1>9. ASSUME NEW j \in Clicks PROVE HeardOrLeft(aClick[j])' /\ Answered(aClick[j])'
  BY <1>3, <1>4, <1>8, <1>9, LeavingKeeps
<1>10. /\ aShown' \in A!Statuses \cup {"none"} /\ aEditing' = (IF Renames(c) THEN 0 ELSE aEditing)
       /\ aCutOff' = (aCutOff \/ (aEditing' # aEditing /\ aEditing # c.editor))
  BY <1>5 DEF A!Settle, c, Renames, ClickRecords
<1>11. CardTyped'
  BY <1>1, <1>2, <1>3, <1>6, <1>10
<1>12. aCutOff' = FALSE
  <2>1. Renames(c) => c.editor = aEditing
    BY DEF EditorOfRename, c
  <2>2. aEditing' # aEditing => aEditing = c.editor
    BY <1>10, <2>1
  <2>3. (aCutOff \/ (aEditing' # aEditing /\ aEditing # c.editor)) = FALSE
    BY <2>2
  <2>. QED BY <1>10, <2>3
<1>13. EditorOfRename'
  <2>1. ASSUME NEW j \in Clicks, Renames(aClick'[j])
        PROVE  j # i /\ Renames(aClick[j]) /\ aClick'[j].editor = aClick[j].editor
    <3>1. j # i /\ aClick'[j] = others[j]
      BY <1>4, <1>6, <2>1 DEF Renames
    <3>. QED BY <1>3, <2>1, <3>1, LeavingKeeps
  <2>2. ASSUME NEW j \in Clicks, Renames(aClick'[j])
        PROVE  aEditing' = aEditing
    BY <1>10, <2>1, <2>2 DEF EditorOfRename, c
  <2>. QED BY <2>1, <2>2 DEF EditorOfRename
<1>. QED BY <1>9, <1>11, <1>12, <1>13

(* Every step of the card keeps that.                                       *)
LEMMA CardKept == ASSUME CardInv, [A!Next]_(A!vars) PROVE CardInv'
<1>1. ASSUME NEW control \in A!Buttons, A!Press(control) PROVE CardInv'
  <2>1. PICK guess \in A!Statuses \cup {"none"} : A!Mutate(control, guess)
    BY <1>1 DEF A!Press, CardInv, CardTyped, A!Statuses
  <2>2. control \in A!Controls /\ control # "rename" /\ ~A!Pending(control)
    BY <1>1 DEF A!Press, A!Disabled, A!Controls, A!Buttons
  <2>. QED BY <2>1, <2>2, MutateKeeps
<1>2. CASE A!OpenEditor
  BY <1>2 DEF A!OpenEditor, CardInv, CardTyped, EditorOfRename, HeardOrLeft, Answered
<1>3. CASE A!Submit
  BY <1>3, MutateKeeps DEF A!Submit, CardInv, CardTyped, A!Controls
<1>4. CASE A!CloseEditor
  BY <1>4, UnheardKeeps DEF A!CloseEditor, CardInv, CardTyped
<1>5. CASE A!Visit
  BY <1>5, UnheardKeeps DEF A!Visit, CardInv, CardTyped, A!Controls
<1>6. CASE A!Refetch
  BY <1>6, UnheardKeeps DEF A!Refetch, CardInv, CardTyped
<1>7. CASE A!RowMoves
  <2>1. aRow' \in A!Statuses
    BY <1>7 DEF A!RowMoves, A!Statuses
  <2>. QED BY <1>7, <2>1 DEF A!RowMoves, CardInv, CardTyped, EditorOfRename, HeardOrLeft,
          Answered
<1>8. ASSUME NEW i \in Clicks, A!HandlerStep(i) \/ A!Settle(i) PROVE CardInv'
  BY <1>8, HandlerStepKeeps, SettleKeeps
<1>9. CASE UNCHANGED A!vars
  BY <1>9 DEF A!vars, CardInv, CardTyped, EditorOfRename, HeardOrLeft, Answered, Renames
<1>. QED BY <1>1, <1>2, <1>3, <1>4, <1>5, <1>6, <1>7, <1>8, <1>9 DEF A!Next

(* So whoever stays has been answered.                                      *)
LEMMA CardAnswers == ASSUME CardInv PROVE A!ClicksAnswered
BY DEF CardInv, Answered, A!ClicksAnswered

(* Nobody who stays misses a refusal, a download is saved exactly once it is  *)
(* granted, and no rename closes an editor that was opened after it.          *)
THEOREM ClicksGetAnswers == Spec => []ClicksAnswered
<1>. DEFINE I == part = "card" => CardInv
<1>1. Init => I
  BY CardStarts DEF Init
<1>2. I /\ [Next]_vars => I'
  BY PartMoves, CardKept
<1>3. I => ClicksAnswered
  BY CardAnswers DEF ClicksAnswered
<1>. QED BY <1>1, <1>2, <1>3, PTL DEF Spec
-----------------------------------------------------------------------------
(* The connection settings.  What the query keeps of the present base is the  *)
(* last answer of that base, although an answer of the one before may still   *)
(* come after it, once.                                                      *)

Trimmed == {s \in H!Settings : s.apiBase # "/"}

ConnectionTyped ==
  /\ cStored \in Trimmed \cup {H!Nothing} /\ cCurrent \in Trimmed
  /\ cForm \in H!Settings \cup {H!Nothing}
  /\ cFetch \in {"idle", "paused"} \cup Bases
  /\ cData \in BOOLEAN /\ cError \in BOOLEAN
  /\ cSaid \in [base : Bases \cup {"none"}, ok : BOOLEAN] /\ cLate \in Nat

(* No base has the name of a state.                                         *)
LEMMA BasesAreUrls ==
  /\ BaseDefault \in Bases
  /\ "empty" \notin Bases /\ "/" \notin Bases /\ "none" \notin Bases
  /\ "idle" \notin Bases /\ "paused" \notin Bases
BY PartsAssumption DEF H!ConnectionAssumption

(* What is stored, and what is not, has the shape of settings.              *)
LEMMA SettingsAre ==
  /\ \A s \in H!Settings : s.apiBase \in Bases \cup {"empty", "/"} /\ s.keys \in BOOLEAN
  /\ \A s \in Trimmed : s \in H!Settings /\ s.apiBase \in Bases \cup {"empty"}
  /\ H!DEFAULTS \in Trimmed /\ H!DEFAULTS.apiBase = BaseDefault /\ H!DEFAULTS.keys = FALSE
  /\ [apiBase |-> BaseDefault, keys |-> TRUE] \in Trimmed
  /\ H!Nothing \notin H!Settings
  /\ H!Nobody \in [base : Bases \cup {"none"}, ok : BOOLEAN] /\ H!Nobody.base = "none"
<1>. USE BasesAreUrls
<1>1. \A s \in H!Settings : s.apiBase \in Bases \cup {"empty", "/"} /\ s.keys \in BOOLEAN
  BY DEF H!Settings
<1>2. \A s \in Trimmed : s \in H!Settings /\ s.apiBase \in Bases \cup {"empty"}
  BY <1>1 DEF Trimmed
<1>3. H!DEFAULTS \in H!Settings /\ [apiBase |-> BaseDefault, keys |-> TRUE] \in H!Settings
  BY DEF H!DEFAULTS, H!Settings
<1>4. H!DEFAULTS.apiBase = BaseDefault /\ H!DEFAULTS.keys = FALSE
  BY DEF H!DEFAULTS
<1>5. H!DEFAULTS \in Trimmed /\ [apiBase |-> BaseDefault, keys |-> TRUE] \in Trimmed
  BY <1>3, <1>4 DEF Trimmed
<1>6. H!Nothing.apiBase = "none"
  BY DEF H!Nothing
<1>7. H!Nothing \notin H!Settings
  BY <1>1, <1>6
<1>8. H!Nobody \in [base : Bases \cup {"none"}, ok : BOOLEAN] /\ H!Nobody.base = "none"
  BY DEF H!Nobody
<1>. QED BY <1>1, <1>2, <1>4, <1>5, <1>7, <1>8

(* A second answer of a former base has nothing to come from. *)
LateOnce ==
  /\ cLate <= 1
  /\ cLate = 1 => cFetch \in {"idle", "paused", cCurrent.apiBase}

(* What the query keeps of the present base is its last answer. *)
KeepsLast ==
  cSaid.base = cCurrent.apiBase =>
    IF cSaid.ok THEN cData /\ ~cError ELSE cError \/ ~cData

IdleKnows == H!isConfigured(cCurrent) /\ cFetch = "idle" => cData \/ cError

ConnectionInv == ConnectionTyped /\ LateOnce /\ KeepsLast /\ IdleKnows

(* The tab, as it is loaded.                                                *)
LEMMA ConnectionStarts == ASSUME H!Init PROVE ConnectionInv
<1>1. cStored \in Trimmed \cup {H!Nothing}
  BY SettingsAre DEF H!Init
<1>2. /\ H!Loaded.settings \in Trimmed
      /\ H!Loaded.fetch = "idle" => ~H!isConfigured(H!Loaded.settings)
      /\ H!Loaded.fetch \in {"idle", "paused"} \cup Bases
  BY <1>1, BasesAreUrls, SettingsAre DEF H!Loaded, H!isConfigured
<1>3. /\ cCurrent = H!Loaded.settings /\ cFetch = H!Loaded.fetch
      /\ cForm = H!Nothing /\ cData = FALSE /\ cError = FALSE /\ cSaid = H!Nobody /\ cLate = 0
  BY DEF H!Init
<1>4. ConnectionTyped
  BY <1>1, <1>2, <1>3, SettingsAre DEF ConnectionTyped
<1>5. cSaid.base # cCurrent.apiBase
  BY <1>2, <1>3, BasesAreUrls, SettingsAre
<1>6. LateOnce /\ IdleKnows
  BY <1>2, <1>3 DEF LateOnce, IdleKnows
<1>. QED BY <1>4, <1>5, <1>6 DEF ConnectionInv, KeepsLast

(* Every step of the tab keeps that.                                        *)
LEMMA ConnectionKept == ASSUME ConnectionInv, [H!Next]_(H!vars) PROVE ConnectionInv'
<1>. USE BasesAreUrls, SettingsAre DEF ConnectionInv, ConnectionTyped, LateOnce, KeepsLast,
        IdleKnows, H!isConfigured, H!storeVars, H!pageVars, H!queryVars
<1>1. CASE H!Poll
  BY <1>1 DEF H!Poll, H!Ask
<1>2. CASE H!NetworkTurns
  BY <1>2 DEF H!NetworkTurns
<1>3. ASSUME NEW ok \in BOOLEAN, H!Settle(ok) PROVE ConnectionInv'
  <2>1. /\ cFetch \in Bases /\ cFetch' = "idle"
        /\ cSaid' = [base |-> cFetch, ok |-> ok]
        /\ cLate' = IF cFetch = cCurrent.apiBase THEN cLate ELSE cLate + 1
        /\ UNCHANGED <<cStored, cCurrent, cForm>>
    BY <1>3 DEF H!Settle
  <2>2. /\ cData' \in BOOLEAN /\ cError' \in BOOLEAN
        /\ cSaid'.base = cFetch /\ cSaid'.ok = ok
        /\ IF ok THEN cData' /\ ~cError' ELSE cError'
    BY <1>3, <2>1 DEF H!Settle
  <2>3. ConnectionTyped'
    <3>1. cSaid' \in [base : Bases \cup {"none"}, ok : BOOLEAN]
      BY <2>1
    <3>2. cLate' \in Nat
      BY <2>1
    <3>. QED BY <2>1, <2>2, <3>1, <3>2
  <2>4. LateOnce'
    BY <2>1
  <2>5. KeepsLast'
    BY <2>1, <2>2
  <2>6. IdleKnows'
    BY <2>1, <2>2
  <2>. QED BY <2>3, <2>4, <2>5, <2>6
<1>4. CASE H!OpenSettings
  BY <1>4 DEF H!OpenSettings
<1>5. CASE H!CloseSettings
  BY <1>5 DEF H!CloseSettings
<1>6. CASE H!Edit
  BY <1>6 DEF H!Edit
<1>7. ASSUME H!OnSave \/ H!OnTest PROVE ConnectionInv'
  <2>. DEFINE new == IF cForm.apiBase = "/" THEN [cForm EXCEPT !.apiBase = "empty"] ELSE cForm
  <2>1. cForm \in H!Settings
    BY <1>7 DEF H!OnSave, H!OnTest
  <2>2. new \in Trimmed
    BY <2>1 DEF H!Settings, Trimmed
  <2>3. H!Save(cForm) /\ cForm' = cForm
    BY <1>7 DEF H!OnSave, H!OnTest
  <2>. HIDE DEF new
  <2>4. /\ cCurrent' = new /\ cStored' = new
        /\ \/ /\ H!isConfigured(new) /\ cFetch = "idle"
              /\ cFetch' \in {"paused", new.apiBase} /\ cError' = (cError /\ cData)
           \/ /\ ~(H!isConfigured(new) /\ ~H!isConfigured(cCurrent) /\ cFetch = "idle") \/ cData
              /\ UNCHANGED <<cFetch, cError>>
        /\ cLate' = IF new.apiBase = cCurrent.apiBase THEN cLate ELSE 0
        /\ cSaid' = IF new.apiBase = cCurrent.apiBase THEN cSaid ELSE H!Nobody
        /\ cData' = cData
    BY <2>3 DEF H!Save, H!Ask, new
  <2>5. ConnectionTyped'
    BY <2>1, <2>2, <2>3, <2>4
  <2>6. LateOnce'
    <3>1. CASE new.apiBase # cCurrent.apiBase
      BY <2>4, <3>1
    <3>2. CASE new.apiBase = cCurrent.apiBase
      BY <2>4, <3>2
    <3>. QED BY <3>1, <3>2
  <2>7. KeepsLast'
    BY <2>2, <2>4
  <2>8. IdleKnows'
    BY <2>2, <2>4
  <2>. QED BY <2>5, <2>6, <2>7, <2>8
<1>8. CASE H!TestAnswered
  BY <1>8 DEF H!TestAnswered
<1>9. CASE H!OtherTabSaves
  BY <1>9 DEF H!OtherTabSaves, Trimmed
<1>10. CASE H!Reload
  <2>1. H!Loaded.settings \in Trimmed /\ (H!Loaded.fetch = "idle" => ~H!isConfigured(H!Loaded.settings))
        /\ H!Loaded.fetch \in {"idle", "paused"} \cup Bases
    BY DEF H!Loaded
  <2>2. /\ cCurrent' = H!Loaded.settings /\ cFetch' = H!Loaded.fetch /\ cStored' = cStored
        /\ cForm' = H!Nothing /\ cData' = FALSE /\ cError' = FALSE /\ cSaid' = H!Nobody /\ cLate' = 0
    BY <1>10 DEF H!Reload
  <2>3. ConnectionTyped'
    BY <2>1, <2>2
  <2>4. LateOnce' /\ KeepsLast' /\ IdleKnows'
    BY <2>1, <2>2
  <2>. QED BY <2>3, <2>4
<1>11. CASE UNCHANGED H!vars
  BY <1>11 DEF H!vars
<1>. QED BY <1>1, <1>2, <1>3, <1>4, <1>5, <1>6, <1>7, <1>8, <1>9, <1>10, <1>11 DEF H!Next

(* So the dot says what the last answer of the present base was.            *)
LEMMA ConnectionTells == ASSUME ConnectionInv PROVE H!DotIsTrue
BY BasesAreUrls, SettingsAre DEF ConnectionInv, ConnectionTyped, LateOnce, KeepsLast,
   IdleKnows, H!DotIsTrue, H!Dot, H!isConfigured

(* The dot is about the API of the settings in force.                        *)
THEOREM DotTrue == Spec => []DotIsTrue
<1>. DEFINE I == part = "connection" => ConnectionInv
<1>1. Init => I
  BY ConnectionStarts DEF Init
<1>2. I /\ [Next]_vars => I'
  BY PartMoves, ConnectionKept
<1>3. I => DotIsTrue
  BY ConnectionTells DEF DotIsTrue
<1>. QED BY <1>1, <1>2, <1>3, PTL DEF Spec
-----------------------------------------------------------------------------
(* The processes of the API. *)
ApiTyped ==
  /\ DOMAIN kWorker = Slots /\ DOMAIN kRequest = Requests
  /\ kServer \in [Requests -> Slots]

ApiInv == ApiTyped /\ K!DrainAnswers

(* A process that ends takes its requests with it, and no other's.           *)
LEMMA ExitKeeps ==
  ASSUME ApiInv, NEW w \in Slots, K!Exits(w)
  PROVE  ApiInv'
<1>1. ASSUME NEW r \in Requests, K!InFlight(r)'
      PROVE  kWorker'[kServer'[r]] \in {"listening", "draining"}
  <2>1. r \notin K!At(w) /\ kRequest'[r] = kRequest[r] /\ kServer' = kServer
    BY <1>1 DEF K!Exits, K!InFlight
  <2>2. K!InFlight(r) /\ kServer[r] # w /\ kServer[r] \in Slots
    BY <1>1, <2>1 DEF K!At, K!InFlight, ApiInv, ApiTyped
  <2>. QED BY <2>1, <2>2 DEF K!Exits, ApiInv, ApiTyped, K!DrainAnswers
<1>2. ApiTyped'
  BY DEF K!Exits, ApiInv, ApiTyped
<1>. QED BY <1>1, <1>2 DEF ApiInv, K!DrainAnswers

(* A slot without requests may do what it likes; the others go on. *)
LEMMA SlotKeeps ==
  ASSUME ApiInv, NEW w \in Slots, NEW process,
         kWorker' = [kWorker EXCEPT ![w] = process], UNCHANGED <<kRequest, kServer>>,
         K!At(w) = {} \/ process \in {"listening", "draining"}
  PROVE  ApiInv'
<1>1. ASSUME NEW r \in Requests, K!InFlight(r)'
      PROVE  kWorker'[kServer'[r]] \in {"listening", "draining"}
  <2>1. K!InFlight(r) /\ kServer[r] \in Slots
    BY <1>1 DEF K!InFlight, ApiInv, ApiTyped
  <2>2. kServer[r] = w => r \in K!At(w)
    BY <2>1 DEF K!At
  <2>. QED BY <2>1, <2>2 DEF ApiInv, ApiTyped, K!DrainAnswers
<1>2. ApiTyped'
  BY DEF ApiInv, ApiTyped
<1>. QED BY <1>1, <1>2 DEF ApiInv, K!DrainAnswers

(* So a slot whose process neither listens nor drains has no requests.       *)
LEMMA IdleSlot ==
  ASSUME ApiInv, NEW w \in Slots, kWorker[w] \notin {"listening", "draining"}
  PROVE  K!At(w) = {}
BY DEF ApiInv, K!DrainAnswers, K!At

(* A step of the master, of a worker, or of the database. *)
LEMMA ProcessStepKeeps == ASSUME ApiInv, K!ProcessStep PROVE ApiInv'
<1>1. CASE K!MasterTimeout \/ K!MasterCrash \/ K!DatabaseMoves
  BY <1>1 DEF K!MasterTimeout, K!MasterCrash, K!DatabaseMoves, ApiInv, ApiTyped, K!DrainAnswers, K!InFlight
<1>2. CASE K!StopMaster
  <2>1. \A w \in Slots : kWorker[w] \in {"listening", "draining"} =>
                           kWorker'[w] \in {"listening", "draining"}
    BY <1>2 DEF K!StopMaster, K!AtSigterm
  <2>2. ApiTyped' /\ UNCHANGED <<kRequest, kServer>>
    BY <1>2 DEF K!StopMaster, ApiInv, ApiTyped
  <2>. QED BY <2>1, <2>2 DEF ApiInv, ApiTyped, K!DrainAnswers, K!InFlight
<1>3. ASSUME NEW w \in Slots, K!Fork(w) PROVE ApiInv'
  BY <1>3, IdleSlot, SlotKeeps DEF K!Fork
<1>4. ASSUME NEW w \in Slots, K!Connect(w) PROVE ApiInv'
  <2>1. K!At(w) = {}
    BY <1>4, IdleSlot DEF K!Connect
  <2>2. \E process : kWorker' = [kWorker EXCEPT ![w] = process]
    BY <1>4 DEF K!Connect
  <2>3. UNCHANGED <<kRequest, kServer>>
    BY <1>4 DEF K!Connect
  <2>. QED BY <2>1, <2>2, <2>3, SlotKeeps
<1>5. ASSUME NEW w \in Slots, K!StopWorker(w) PROVE ApiInv'
  <2>1. kWorker' = [kWorker EXCEPT ![w] = K!AtSigterm(kWorker[w])] /\ UNCHANGED <<kRequest, kServer>>
    BY <1>5 DEF K!StopWorker
  <2>2. kWorker[w] \in {"listening", "draining"} => K!AtSigterm(kWorker[w]) = "draining"
    BY DEF K!AtSigterm
  <2>. QED BY <2>1, <2>2, IdleSlot, SlotKeeps
<1>6. ASSUME NEW w \in Slots, K!Drained(w) PROVE ApiInv'
  BY <1>6, SlotKeeps DEF K!Drained
<1>7. ASSUME NEW w \in Slots, K!PoolEnds(w) \/ K!WorkerTimeout(w) \/ K!Crash(w) \/ K!Disconnect(w)
      PROVE  ApiInv'
  BY <1>7, ExitKeeps DEF K!PoolEnds, K!WorkerTimeout, K!Crash, K!Disconnect
<1>. QED BY <1>1, <1>2, <1>3, <1>4, <1>5, <1>6, <1>7 DEF K!ProcessStep

(* A request is accepted by a process that listens, and stays with it.       *)
LEMMA RequestStepKeeps == ASSUME ApiInv, K!RequestStep PROVE ApiInv'
<1>1. ASSUME NEW r \in Requests, K!Accept(r) PROVE ApiInv'
  <2>1. PICK w \in Slots : kWorker[w] = "listening" /\ kServer' = [kServer EXCEPT ![r] = w]
    BY <1>1 DEF K!Accept
  <2>2. UNCHANGED kWorker /\ kRequest' = [kRequest EXCEPT ![r] = "accepted"]
    BY <1>1 DEF K!Accept, K!Comes
  <2>. QED BY <2>1, <2>2 DEF ApiInv, ApiTyped, K!DrainAnswers, K!InFlight
<1>2. ASSUME NEW r \in Requests,
             \/ K!Refuse(r) \/ K!Ask(r) \/ K!Acquire(r)
             \/ K!LastStatement(r) \/ K!NextStatement(r) \/ K!Throw(r)
      PROVE  ApiInv'
  <2>1. K!InFlight(r) /\ UNCHANGED <<kWorker, kServer>>
    BY <1>2 DEF K!Refuse, K!Ask, K!Acquire, K!LastStatement, K!NextStatement, K!Throw, K!Comes, K!InFlight
  <2>2. DOMAIN kRequest' = Requests /\ \A q \in Requests \ {r} : kRequest'[q] = kRequest[q]
    BY <1>2 DEF K!Refuse, K!Ask, K!Acquire, K!LastStatement, K!NextStatement, K!Throw, K!Comes,
       ApiInv, ApiTyped
  <2>. QED BY <2>1, <2>2 DEF ApiInv, ApiTyped, K!DrainAnswers, K!InFlight
<1>. QED BY <1>1, <1>2 DEF K!RequestStep

(* "draining" (server.ts): whoever is stopped, killed or replaced, a request   *)
(* that was accepted is answered by its process or goes with it, for any      *)
(* number of workers, requests, attempts and connections.                    *)
THEOREM AcceptedGetAnswers == Spec => []DrainAnswers
<1>. DEFINE I == part = "api" => ApiInv
<1>1. Init => I
  BY DEF Init, K!Init, ApiInv, ApiTyped, K!DrainAnswers, K!InFlight
<1>2. I /\ [Next]_vars => I'
  <2>1. ASSUME ApiInv, UNCHANGED K!vars PROVE ApiInv'
    BY <2>1 DEF K!vars, ApiInv, ApiTyped, K!DrainAnswers, K!InFlight
  <2>. QED BY <2>1, PartMoves, ProcessStepKeeps, RequestStepKeeps DEF K!Next
<1>3. I => DrainAnswers
  BY DEF DrainAnswers, ApiInv
<1>. QED BY <1>1, <1>2, <1>3, PTL DEF Spec
-----------------------------------------------------------------------------
(* The sweep of cancelled artifacts, which MCProcesses puts beside the API's  *)
(* processes as Parts does its parts.                                       *)

CONSTANTS
  Videos, Started, Segments, Sweepers, PageSize, ListSize, Milli, Settle, Horizon, Instants

VARIABLES now, updatedAt, writing, tree, download, sweep

W == INSTANCE ArtifactSweep

(* A page is sorted by time and id; First is its least row. *)
LEMMA LeastNatural ==
  ASSUME NEW T \in SUBSET Nat, T # {}
  PROVE  \E x \in T : \A y \in T : x <= y
<1>1. PICK x \in T : \A y \in T : ~ (<<y, x>> \in OpToRel(<, Nat))
  BY WFMin, NatLessThanWellFounded, Zenon
<1>2. \A y \in T : ~ (y < x)
  BY <1>1, Zenon DEF OpToRel
<1>. QED
  BY <1>2

LEMMA FirstOfPage ==
  ASSUME NEW rows \in SUBSET (Nat \X Nat), rows # {}
  PROVE  W!First(rows) \in rows
<1>. DEFINE times == {a[1] : a \in rows}
<1>1. PICK t \in times : \A u \in times : t <= u
  <2>1. times \in SUBSET Nat /\ times # {}
    OBVIOUS
  <2>. HIDE DEF times
  <2>. QED
    BY <2>1, LeastNatural
<1>. DEFINE ids == {a[2] : a \in {b \in rows : b[1] = t}}
<1>2. PICK i \in ids : \A j \in ids : i <= j
  <2>1. ids \in SUBSET Nat /\ ids # {}
    OBVIOUS
  <2>. HIDE DEF ids
  <2>. QED
    BY <2>1, LeastNatural
<1>3. PICK a \in rows : a[1] = t /\ a[2] = i
  OBVIOUS
<1>4. ASSUME NEW b \in rows PROVE ~W!Before(b, a)
  <2>1. a[1] \in Nat /\ a[2] \in Nat /\ b[1] \in Nat /\ b[2] \in Nat
    OBVIOUS
  <2>2. a[1] <= b[1]
    BY <1>1, <1>3
  <2>3. b[1] = a[1] => a[2] <= b[2]
    BY <1>2, <1>3
  <2>. QED
    BY ONLY <2>1, <2>2, <2>3 DEF W!Before
<1>. QED
  BY <1>4 DEF W!First

(* What a sweep has read of the rows is true of them, as their times only     *)
(* grow.  In FitsRows, stamps and time are updatedAt and now of some state.  *)
FitsRows(local, stamps, time) ==
  /\ local \in
       [at : {"off", "query", "list", "delete", "download"}, cursor : {local.cursor},
        page : SUBSET (Nat \X Videos), next : {local.next}, full : BOOLEAN,
        token : {local.token}, keys : SUBSET Segments, truncated : BOOLEAN]
  /\ local.at \in {"list", "delete", "download"} => local.page # {}
  /\ \A a \in local.page : a[1] \in 1 .. stamps[a[2]] /\ a[1] + Settle <= time

SweepInv ==
  /\ now \in Nat /\ updatedAt \in [Videos -> Nat]
  /\ tree \in [Videos -> SUBSET Segments] /\ download \in [Videos -> BOOLEAN]
  /\ DOMAIN sweep = Sweepers
  /\ \A s \in Sweepers : FitsRows(sweep[s], updatedAt, now)

LEMMA RowOfPage ==
  ASSUME W!SweepAssumption, NEW local, NEW stamps, NEW time, FitsRows(local, stamps, time), local.page # {}
  PROVE  W!First(local.page) \in local.page
<1>1. local.page \in SUBSET (Nat \X Nat)
  <2>1. Videos \subseteq Nat
    BY DEF W!SweepAssumption
  <2>2. local.page \in SUBSET (Nat \X Videos)
    BY DEF FitsRows
  <2>. QED
    BY <2>1, <2>2
<1>. QED
  BY <1>1, FirstOfPage

LEMMA OffFits ==
  ASSUME NEW stamps, NEW time
  PROVE  FitsRows(W!Off, stamps, time)
  BY DEF FitsRows, W!Off

LEMMA NextRowFits ==
  ASSUME NEW local, NEW stamps, NEW time, FitsRows(local, stamps, time)
  PROVE  FitsRows(W!NextRow(local), stamps, time)
<1>. DEFINE rest == local.page \ {W!First(local.page)}
<1>1. CASE rest # {}
  <2>1. W!NextRow(local) = [W!Off EXCEPT !.at = "list", !.page = rest, !.next = local.next, !.full = local.full]
    BY <1>1 DEF W!NextRow
  <2>2. local.full \in BOOLEAN /\ rest \in SUBSET (Nat \X Videos)
    BY DEF FitsRows
  <2>3. \A a \in rest : a[1] \in 1 .. stamps[a[2]] /\ a[1] + Settle <= time
    BY DEF FitsRows
  <2>. HIDE DEF rest
  <2>. QED
    BY <1>1, <2>1, <2>2, <2>3 DEF FitsRows, W!Off
<1>2. CASE rest = {} /\ local.full
  BY <1>2 DEF W!NextRow, FitsRows, W!Off
<1>3. CASE rest = {} /\ ~local.full
  BY <1>3, OffFits DEF W!NextRow
<1>. QED
  BY <1>1, <1>2, <1>3 DEF FitsRows

LEMMA StaysFit ==
  ASSUME W!SweepAssumption, NEW local, NEW stamps \in [Videos -> Nat], NEW time \in Nat,
         NEW later \in [Videos -> Nat], NEW then \in Nat, FitsRows(local, stamps, time),
         \A v \in Videos : stamps[v] <= later[v], time <= then
  PROVE  FitsRows(local, later, then)
<1>1. local.page \in SUBSET (Nat \X Videos) /\ Settle \in Nat
  BY DEF FitsRows, W!SweepAssumption
<1>2. ASSUME NEW a \in local.page
      PROVE  a[1] \in 1 .. later[a[2]] /\ a[1] + Settle <= then
  <2>1. a[1] \in Nat /\ a[2] \in Videos
    BY <1>1
  <2>2. a[1] \in 1 .. stamps[a[2]] /\ a[1] + Settle <= time
    BY DEF FitsRows
  <2>3. stamps[a[2]] \in Nat /\ later[a[2]] \in Nat /\ stamps[a[2]] <= later[a[2]]
    BY <2>1
  <2>. QED
    BY <1>1, <2>1, <2>2, <2>3
<1>. QED
  BY <1>2 DEF FitsRows

(* A step of one sweep leaves the others alone. *)
LEMMA SweepMoves ==
  ASSUME W!SweepAssumption, SweepInv, NEW s \in Sweepers, NEW local,
         UNCHANGED <<now, updatedAt>>,
         tree' \in [Videos -> SUBSET Segments], download' \in [Videos -> BOOLEAN],
         sweep' = [sweep EXCEPT ![s] = local], FitsRows(local, updatedAt, now)
  PROVE  SweepInv'
  BY DEF SweepInv

(* The rows of a page are settled. *)
LEMMA PageFits ==
  ASSUME W!SweepAssumption, SweepInv, NEW cursor, W!CancelledPage(cursor) # {}, NEW next,
         NEW full \in BOOLEAN
  PROVE  FitsRows([W!Off EXCEPT !.at = "list", !.page = W!CancelledPage(cursor), !.next = next,
                                !.full = full], updatedAt, now)
<1>. DEFINE rows == W!CancelledPage(cursor)
<1>1. rows \subseteq W!Window
  BY DEF W!CancelledPage
<1>2. ASSUME NEW a \in rows
      PROVE  /\ a \in Nat \X Videos
             /\ a[1] \in 1 .. updatedAt[a[2]] /\ a[1] + Settle <= now
  <2>1. PICK v \in Videos : /\ a = <<updatedAt[v], v>> /\ W!Cancelled(v)
                            /\ now - updatedAt[v] \in Settle .. Horizon
    BY <1>1 DEF W!Window
  <2>2. updatedAt[v] \in Nat \ {0} /\ now \in Nat /\ Settle \in Nat /\ Horizon \in Nat
    BY <2>1 DEF SweepInv, W!Cancelled, W!NotCancelled, W!SweepAssumption
  <2>3. updatedAt[v] + Settle <= now
    BY <2>1, <2>2
  <2>. QED
    BY <2>1, <2>2, <2>3
<1>. HIDE DEF rows
<1>3. rows \in SUBSET (Nat \X Videos) /\ rows # {}
  BY <1>2 DEF rows
<1>4. FitsRows([W!Off EXCEPT !.at = "list", !.page = rows, !.next = next, !.full = full], updatedAt, now)
  BY <1>2, <1>3 DEF FitsRows, W!Off
<1>. QED
  BY <1>4 DEF rows

LEMMA InitEstablishesSweep == W!Init => SweepInv
  BY OffFits DEF W!Init, SweepInv, W!NotCancelled

(* Rows are stamped with later and later times. *)
LEMMA StampsGrow ==
  ASSUME W!SweepAssumption, SweepInv, NEW rows \in SUBSET Videos, NEW time \in Nat,
         \A v \in rows : updatedAt[v] <= time, W!Stamp(rows, time)
  PROVE  SweepInv'
<1>1. /\ updatedAt' \in [Videos -> Nat] /\ \A v \in Videos : updatedAt[v] <= updatedAt'[v]
      /\ now' = now /\ UNCHANGED <<tree, download, sweep>>
  BY DEF W!Stamp, W!r2Vars, SweepInv
<1>2. \A s \in Sweepers : FitsRows(sweep[s], updatedAt', now)
  BY <1>1, StaysFit DEF SweepInv
<1>. QED
  BY <1>1, <1>2 DEF SweepInv

LEMMA StepKeepsSweep == W!SweepAssumption /\ SweepInv /\ [W!Next]_(W!vars) => SweepInv'
<1>. SUFFICES ASSUME W!SweepAssumption, SweepInv, [W!Next]_(W!vars) PROVE SweepInv'
  OBVIOUS
<1>1. CASE W!Tick
  <2>1. now < now' /\ now' \in Nat /\ UNCHANGED <<updatedAt, tree, download, sweep>>
    BY <1>1 DEF W!Tick, W!r2Vars, W!SweepAssumption, SweepInv
  <2>2. \A s \in Sweepers : FitsRows(sweep[s], updatedAt, now')
    BY <2>1, StaysFit DEF SweepInv
  <2>. QED
    BY <2>1, <2>2 DEF SweepInv
<1>2. ASSUME NEW v \in Videos, W!Cancel(v) PROVE SweepInv'
  <2>1. W!JsDate(now) \in Nat
    BY DEF W!JsDate, W!SweepAssumption, SweepInv
  <2>2. updatedAt[v] = 0 /\ W!Stamp({v}, W!JsDate(now))
    BY <1>2 DEF W!Cancel, W!Cancelled, W!NotCancelled
  <2>. QED
    BY <2>1, <2>2, StampsGrow
<1>3. ASSUME NEW rows \in SUBSET Videos, W!Retire(rows) \/ W!Touch(rows) PROVE SweepInv'
  <2>1. now \in Nat /\ W!Stamp(rows, now)
    BY <1>3 DEF W!Retire, W!Touch, SweepInv
  <2>2. \A v \in rows : updatedAt[v] <= now
    BY <1>3, <2>1 DEF W!Retire, W!Touch, W!Cancelled, W!NotCancelled, SweepInv
  <2>. QED
    BY <2>1, <2>2, StampsGrow
<1>4. ASSUME NEW v \in Videos, W!Claim(v) \/ W!PutDownload(v) \/ W!StopWriting(v)
      PROVE  SweepInv'
  BY <1>4 DEF W!Claim, W!PutDownload, W!StopWriting, W!rowVars, SweepInv
<1>5. ASSUME NEW v \in Videos, NEW k \in Segments, W!PutSegment(v, k) PROVE SweepInv'
  BY <1>5 DEF W!PutSegment, W!rowVars, SweepInv
<1>6. ASSUME NEW s \in Sweepers, W!StartSweep(s) PROVE SweepInv'
  <2>1. FitsRows([sweep[s] EXCEPT !.at = "query"], updatedAt, now)
    BY DEF SweepInv, FitsRows
  <2>2. sweep' = [sweep EXCEPT ![s] = [sweep[s] EXCEPT !.at = "query"]]
    BY <1>6 DEF W!StartSweep
  <2>. QED
    BY <1>6, <2>1, <2>2, SweepMoves DEF W!StartSweep, W!rowVars, W!r2Vars, SweepInv
<1>7. ASSUME NEW s \in Sweepers, W!SweepStep(s) \/ W!RowFails(s) \/ W!SweepStops(s) PROVE SweepInv'
  <2>. DEFINE local == sweep[s]
              row == W!Row(s)
  <2>1. FitsRows(local, updatedAt, now)
    BY DEF SweepInv
  <2>2. CASE W!Query(s)
    <3>. DEFINE rows == W!CancelledPage(local.cursor)
                read == [W!Off EXCEPT !.at = "list", !.page = rows, !.next = W!CursorAfter(rows),
                                      !.full = (W!Cardinality(rows) = PageSize)]
    <3>1. sweep' = [sweep EXCEPT ![s] = IF rows = {} THEN W!Off ELSE read]
      BY <2>2 DEF W!Query
    <3>2. FitsRows(IF rows = {} THEN W!Off ELSE read, updatedAt, now)
      BY OffFits, PageFits
    <3>. QED
      BY <2>2, <3>1, <3>2, SweepMoves DEF W!Query, W!rowVars, W!r2Vars, SweepInv
  <2>3. CASE W!List(s)
    <3>. DEFINE ahead == {k \in tree[row] : k > local.token}
                keys == {k \in ahead : W!Cardinality({j \in ahead : j < k}) < ListSize}
                truncated == keys # ahead
                read == [local EXCEPT !.at = "delete", !.keys = keys, !.truncated = truncated]
    <3>1. sweep' = [sweep EXCEPT ![s].at = "delete", ![s].keys = keys, ![s].truncated = truncated]
          /\ keys \subseteq tree[row] /\ local.page # {}
      <4>1. sweep' = [sweep EXCEPT ![s].at = "delete", ![s].keys = keys, ![s].truncated = truncated]
        BY <2>3 DEF W!List
      <4>2. local.page # {}
        BY <2>1, <2>3 DEF W!List, FitsRows
      <4>. QED
        BY <4>1, <4>2
    <3>2. row \in Videos
      <4>1. W!First(local.page) \in local.page
        BY <2>1, <3>1, RowOfPage
      <4>2. local.page \in SUBSET (Nat \X Videos)
        BY <2>1 DEF FitsRows
      <4>3. row = W!First(local.page)[2]
        BY DEF W!Row
      <4>. HIDE DEF local, row
      <4>. QED
        BY <4>1, <4>2, <4>3
    <3>3. keys \subseteq Segments
      BY <3>1, <3>2 DEF SweepInv
    <3>. HIDE DEF keys, truncated
    <3>4. sweep' = [sweep EXCEPT ![s] = read]
      BY <3>1
    <3>5. FitsRows(read, updatedAt, now)
      <4>1. truncated \in BOOLEAN
        BY DEF truncated
      <4>. QED
        BY <2>1, <3>1, <3>3, <4>1 DEF FitsRows
    <3>. QED
      BY <2>3, <3>4, <3>5, SweepMoves DEF W!List, W!rowVars, W!r2Vars, SweepInv
  <2>4. CASE W!Delete(s)
    <3>1. tree' \in [Videos -> SUBSET Segments]
      BY <2>4 DEF W!Delete, SweepInv
    <3>. DEFINE token == CHOOSE k \in local.keys : \A j \in local.keys : j <= k
    <3>2. sweep' = [sweep EXCEPT ![s] =
              IF local.truncated THEN [local EXCEPT !.at = "list", !.keys = {}, !.token = token]
              ELSE [local EXCEPT !.at = "download", !.keys = {}]]
      BY <2>4 DEF W!Delete
    <3>. HIDE DEF token
    <3>3. local.page # {}
      BY <2>1, <2>4 DEF W!Delete, FitsRows
    <3>4. FitsRows([local EXCEPT !.at = "list", !.keys = {}, !.token = token], updatedAt, now)
          /\ FitsRows([local EXCEPT !.at = "download", !.keys = {}], updatedAt, now)
      BY <2>1, <3>3 DEF FitsRows
    <3>. QED
      BY <2>4, <3>1, <3>2, <3>4, SweepMoves DEF W!Delete, W!rowVars, SweepInv
  <2>5. CASE W!DeleteDownload(s) \/ W!RowFails(s)
    <3>1. tree' \in [Videos -> SUBSET Segments] /\ download' \in [Videos -> BOOLEAN]
      BY <2>5 DEF W!DeleteDownload, W!RowFails, SweepInv
    <3>2. sweep' = [sweep EXCEPT ![s] = W!NextRow(local)]
      BY <2>5 DEF W!DeleteDownload, W!RowFails, SweepInv
    <3>. QED
      BY <2>1, <2>5, <3>1, <3>2, NextRowFits, SweepMoves DEF W!DeleteDownload, W!RowFails, W!rowVars
  <2>6. CASE W!SweepStops(s)
    BY <2>6, OffFits, SweepMoves DEF W!SweepStops, W!rowVars, W!r2Vars, SweepInv
  <2>. QED
    BY <1>7, <2>2, <2>3, <2>4, <2>5, <2>6 DEF W!SweepStep
<1>8. CASE UNCHANGED W!vars
  BY <1>8 DEF W!vars, W!rowVars, W!r2Vars, SweepInv
<1>. QED
  BY <1>1, <1>2, <1>3, <1>4, <1>5, <1>6, <1>7, <1>8 DEF W!Next

(* Only a sweep deletes, and only of the row at the head of its page. *)
LEMMA StepDeletesSettled ==
  ASSUME W!SweepAssumption, SweepInv, [W!Next]_(W!vars), NEW v \in Videos,
         ~(tree[v] \subseteq tree'[v]) \/ (download[v] /\ ~download'[v])
  PROVE  \E s \in Sweepers, time \in 1 .. updatedAt[v] :
           <<time, v>> \in sweep[s].page /\ time + Settle <= now
<1>1. PICK s \in Sweepers : (W!Delete(s) \/ W!DeleteDownload(s) \/ W!RowFails(s)) /\ v = W!Row(s)
  <2>1. CASE UNCHANGED <<tree, download>>
    BY <2>1
  <2>2. ASSUME NEW u \in Videos, NEW k \in Segments, W!PutSegment(u, k) PROVE FALSE
    BY <2>2 DEF W!PutSegment, SweepInv
  <2>3. ASSUME NEW u \in Videos, W!PutDownload(u) PROVE FALSE
    BY <2>3 DEF W!PutDownload, SweepInv
  <2>4. ASSUME NEW s \in Sweepers, W!Delete(s) \/ W!DeleteDownload(s) \/ W!RowFails(s) PROVE v = W!Row(s)
    BY <2>4 DEF W!Delete, W!DeleteDownload, W!RowFails, SweepInv
  <2>5. CASE ~UNCHANGED <<tree, download>>
    BY <2>2, <2>3, <2>4, <2>5 DEF W!Next, W!vars, W!Tick, W!Cancel, W!Retire, W!Touch, W!Stamp, W!Claim,
       W!StopWriting, W!StartSweep, W!SweepStep, W!Query, W!List, W!SweepStops, W!r2Vars
  <2>. QED
    BY <2>1, <2>5
<1>. DEFINE a == W!First(sweep[s].page)
<1>2. FitsRows(sweep[s], updatedAt, now) /\ sweep[s].page # {}
  BY <1>1 DEF SweepInv, FitsRows, W!Delete, W!DeleteDownload, W!RowFails
<1>3. a \in sweep[s].page
  BY <1>2, RowOfPage
<1>4. a[2] = v
  BY <1>1 DEF W!Row
<1>. HIDE DEF a
<1>5. a \in Nat \X Videos /\ a[1] \in 1 .. updatedAt[a[2]] /\ a[1] + Settle <= now
  BY <1>2, <1>3 DEF FitsRows
<1>6. a = <<a[1], v>>
  BY <1>4, <1>5
<1>. QED
  BY <1>3, <1>4, <1>5, <1>6

(* findCancelledForSweep() and the sweep of a worker: whatever fails, stops,  *)
(* overlaps or is written meanwhile, only artifacts of videos that have been *)
(* cancelled for the time that an abort takes to settle are deleted.         *)
THEOREM SweepSparesTheRest ==
  ASSUME W!SweepAssumption
  PROVE  W!Spec => W!SweepsOnlySettled
<1>1. SweepInv /\ [W!Next]_(W!vars) => SweepInv'
  BY StepKeepsSweep
<1>2. SweepInv /\ [W!Next]_(W!vars) =>
        [\A v \in Videos :
           ~(tree[v] \subseteq tree'[v]) \/ (download[v] /\ ~download'[v]) =>
             \E s \in Sweepers, time \in 1 .. updatedAt[v] :
               <<time, v>> \in sweep[s].page /\ time + Settle <= now]_(W!vars)
  BY StepDeletesSettled
<1>. QED
  BY <1>1, <1>2, InitEstablishesSweep, PTL DEF W!Spec, W!SweepsOnlySettled
============================================================================
