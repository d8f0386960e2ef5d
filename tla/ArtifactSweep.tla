--------------------------- MODULE ArtifactSweep ---------------------------
(***************************************************************************)
(* What a cancelled video leaves in R2, and the sweep that workers make at   *)
(* startup and before they terminate themselves: a keyset cursor over the    *)
(* rows cancelled in the last week, and for each a listing and a deletion    *)
(* per page of its tree, then of its download.                             *)
(*                                                                         *)
(* Postgres keeps `updated_at` in microseconds and compares them; the        *)
(* cursor has been through a JavaScript Date, which keeps milliseconds.     *)
(***************************************************************************)
EXTENDS Integers, FiniteSets

CONSTANTS
  Videos,    \* row ids, in the order of their uuids
  Started,   \* the videos that workers ever claim
  Segments,  \* keys of a tree, in the order in which R2 lists them
  Sweepers,  \* sweeps that may be under way at the same time
  PageSize,  \* PAGE: rows of a page of the cursor
  ListSize,  \* keys of a page of a listing
  Milli,     \* microseconds of a millisecond
  Settle,    \* 15 minutes, in microseconds
  Horizon,   \* 7 days, in microseconds
  Instants   \* bound: the microseconds in which something happens

SweepAssumption ==
  /\ Videos \subseteq Nat \ {0} /\ Started \subseteq Videos
  /\ Segments \subseteq Nat \ {0} /\ IsFiniteSet(Videos) /\ IsFiniteSet(Segments)
  /\ {PageSize, ListSize, Milli, Settle, Horizon} \cup Instants \subseteq Nat \ {0}

VARIABLES
  now,        \* the clock of the database, and of the API
  updatedAt,  \* updated_at of a cancelled row, or NotCancelled
  writing,    \* a run or a job of the video may still write to R2
  tree,       \* keys in the output bucket
  download,   \* the MP4 is in the downloads bucket
  sweep       \* the local variables of a sweep

rowVars == <<now, updatedAt>>
r2Vars  == <<writing, tree, download>>
vars    == <<rowVars, r2Vars, sweep>>

NotCancelled == 0
Cancelled(v) == updatedAt[v] # NotCancelled
Leftovers(v) == tree[v] # {} \/ download[v]

Off == [at |-> "off", cursor |-> <<0, 0>>, page |-> {}, next |-> <<0, 0>>, full |-> FALSE,
        token |-> 0, keys |-> {}, truncated |-> FALSE]

(* Truncation to the millisecond: new Date(), and pg's parser.              *)
JsDate(time) == (time \div Milli) * Milli

Init ==
  /\ now = 1
  /\ updatedAt = [v \in Videos |-> NotCancelled]
  /\ writing   = [v \in Videos |-> FALSE]
  /\ tree      = [v \in Videos |-> {}]
  /\ download  = [v \in Videos |-> FALSE]
  /\ sweep     = [s \in Sweepers |-> Off]
-----------------------------------------------------------------------------
(* The rows.  The clock has few instants; no row changes so late that it      *)
(* could not get into the window.                                           *)

Tick ==
  /\ now' \in {t \in Instants : now < t /\ \A u \in Instants : now < u => t <= u}
  /\ UNCHANGED <<updatedAt, r2Vars, sweep>>

Stamp(S, time) ==
  /\ S # {} /\ \E t \in Instants : now + Settle <= t
  /\ updatedAt' = [v \in Videos |-> IF v \in S THEN time ELSE updatedAt[v]]
  /\ UNCHANGED <<now, r2Vars, sweep>>

(* The API's cancel, with the time of the API. *)
Cancel(v) == ~Cancelled(v) /\ JsDate(now) > 0 /\ Stamp({v}, JsDate(now))

(* The tenant-admin service retires ready videos in one statement. *)
Retire(S) == (\A v \in S : ~Cancelled(v)) /\ Stamp(S, now)

(* The statements on artifact columns of videos, which look at no status:    *)
(* those of a job, of one video; JOB_RECONCILE_SQL, of any number.          *)
Touch(S) == (\A v \in S : Cancelled(v) /\ updatedAt[v] < now) /\ Stamp(S, now)
-----------------------------------------------------------------------------
(* R2, as the workers write it.                                            *)

(* claimNext and claimNextJob look at the status. *)
Claim(v) ==
  /\ v \in Started /\ ~Cancelled(v) /\ ~writing[v]
  /\ writing' = [writing EXCEPT ![v] = TRUE]
  /\ UNCHANGED <<rowVars, tree, download, sweep>>

PutSegment(v, k) ==
  /\ writing[v] /\ k \notin tree[v]
  /\ tree' = [tree EXCEPT ![v] = @ \cup {k}]
  /\ UNCHANGED <<rowVars, writing, download, sweep>>

PutDownload(v) ==
  /\ writing[v] /\ ~download[v]
  /\ download' = [download EXCEPT ![v] = TRUE]
  /\ UNCHANGED <<rowVars, writing, tree, sweep>>

(* It is over, or its heartbeat found the video cancelled. *)
StopWriting(v) ==
  /\ writing[v]
  /\ writing' = [writing EXCEPT ![v] = FALSE]
  /\ UNCHANGED <<rowVars, tree, download, sweep>>
-----------------------------------------------------------------------------
(* The sweep.  Definitions named Faulty... are the code with one plausible   *)
(* mistake in it; no action uses them.                                      *)

Before(a, b) == a[1] < b[1] \/ (a[1] = b[1] /\ a[2] < b[2])
First(rows)  == CHOOSE a \in rows : \A b \in rows : ~Before(b, a)
Last(rows)   == CHOOSE a \in rows : \A b \in rows : ~Before(a, b)

Window ==
  {<<updatedAt[v], v>> : v \in {u \in Videos : Cancelled(u) /\
                                   now - updatedAt[u] \in Settle .. Horizon}}

(* ORDER BY updated_at, id LIMIT of the rows behind the cursor. *)
CancelledPage(cursor) ==
  LET behind == {a \in Window : Before(cursor, a)}
  IN  {a \in behind : Cardinality({b \in behind : Before(b, a)}) < PageSize}

FaultyCursorWithoutId(rows) == <<Last(rows)[1], Cardinality(Videos)>>

FaultyCursorForgetsId(rows) == <<JsDate(Last(rows)[1]), 0>>

(* cursor = { updatedAt: last.updated_at, id: last.id } *)
CursorAfter(rows) == <<JsDate(Last(rows)[1]), Last(rows)[2]>>

StartSweep(s) ==
  /\ sweep[s].at = "off"
  /\ sweep' = [sweep EXCEPT ![s].at = "query"]
  /\ UNCHANGED <<rowVars, r2Vars>>

Query(s) ==
  /\ sweep[s].at = "query"
  /\ LET rows == CancelledPage(sweep[s].cursor)
     IN  sweep' = [sweep EXCEPT ![s] =
           IF rows = {} THEN Off
           ELSE [Off EXCEPT !.at = "list", !.page = rows, !.next = CursorAfter(rows),
                            !.full = (Cardinality(rows) = PageSize)]]
  /\ UNCHANGED <<rowVars, r2Vars>>

Row(s) == First(sweep[s].page)[2]

(* ListObjectsV2 from the continuation token on. *)
List(s) ==
  /\ sweep[s].at = "list"
  /\ LET ahead == {k \in tree[Row(s)] : k > sweep[s].token}
         keys  == {k \in ahead : Cardinality({j \in ahead : j < k}) < ListSize}
     IN  sweep' = [sweep EXCEPT ![s].at = "delete", ![s].keys = keys,
                                ![s].truncated = (keys # ahead)]
  /\ UNCHANGED <<rowVars, r2Vars>>

(* DeleteObjects of what was listed, not of what has landed since. *)
Delete(s) ==
  /\ sweep[s].at = "delete"
  /\ tree' = [tree EXCEPT ![Row(s)] = @ \ sweep[s].keys]
  /\ LET keys == sweep[s].keys
     IN  sweep' = [sweep EXCEPT ![s] =
           IF @.truncated
           THEN [@ EXCEPT !.at = "list", !.keys = {}, !.token = CHOOSE k \in keys : \A j \in keys : j <= k]
           ELSE [@ EXCEPT !.at = "download", !.keys = {}]]
  /\ UNCHANGED <<rowVars, writing, download>>

(* The next row of the page; behind the last one the next page, unless this  *)
(* one was short.                                                          *)
NextRow(local) ==
  LET rest == local.page \ {First(local.page)}
  IN  IF rest # {}
      THEN [Off EXCEPT !.at = "list", !.page = rest, !.next = local.next, !.full = local.full]
      ELSE IF local.full THEN [Off EXCEPT !.at = "query", !.cursor = local.next] ELSE Off

DeleteDownload(s) ==
  /\ sweep[s].at = "download"
  /\ download' = [download EXCEPT ![Row(s)] = FALSE]
  /\ sweep' = [sweep EXCEPT ![s] = NextRow(@)]
  /\ UNCHANGED <<rowVars, writing, tree>>

(* A listing or a deletion throws, the latter having deleted some of its     *)
(* keys: the row is left to the next sweep.                                *)
RowFails(s) ==
  /\ sweep[s].at \in {"list", "delete", "download"}
  /\ \E K \in SUBSET sweep[s].keys : tree' = [tree EXCEPT ![Row(s)] = @ \ K]
  /\ sweep' = [sweep EXCEPT ![s] = NextRow(@)]
  /\ UNCHANGED <<rowVars, writing, download>>

(* The query throws, the worker is shut down, or its last five minutes end.  *)
SweepStops(s) ==
  /\ sweep[s].at # "off"
  /\ sweep' = [sweep EXCEPT ![s] = Off]
  /\ UNCHANGED <<rowVars, r2Vars>>
-----------------------------------------------------------------------------
SweepStep(s) == Query(s) \/ List(s) \/ Delete(s) \/ DeleteDownload(s)

Next ==
  \/ Tick
  \/ \E v \in Videos : \/ Cancel(v) \/ Claim(v) \/ PutDownload(v) \/ StopWriting(v)
                       \/ \E k \in Segments : PutSegment(v, k)
  \/ \E S \in SUBSET Videos : Retire(S) \/ Touch(S)
  \/ \E s \in Sweepers : StartSweep(s) \/ SweepStep(s) \/ RowFails(s) \/ SweepStops(s)

(* Time passes; workers come and go, and sweep when they do; a run ends, if   *)
(* only because its heartbeat aborts it.                                    *)
Fairness ==
  /\ WF_vars(Tick)
  /\ \A s \in Sweepers : WF_vars(StartSweep(s)) /\ WF_vars(SweepStep(s))
  /\ \A v \in Videos   : WF_vars(Cancelled(v) /\ StopWriting(v))

Spec == Init /\ [][Next]_vars /\ Fairness
-----------------------------------------------------------------------------
(* Properties.                                                             *)

(* "old enough (15 min) that an in-flight abort has settled": nothing but a    *)
(* sweep deletes, and what one deletes is of a row of its page, which was    *)
(* cancelled by then for as long.                                           *)
SweepsOnlySettled ==
  [][\A v \in Videos :
       ~(tree[v] \subseteq tree'[v]) \/ (download[v] /\ ~download'[v]) =>
         \E s \in Sweepers, time \in 1 .. updatedAt[v] :
           <<time, v>> \in sweep[s].page /\ time + Settle <= now]_vars

(* As many rows as fill a page share a millisecond, and not all begin it. The *)
(* cursor may then fall back behind the page it was taken from, which is      *)
(* read again for as long as its rows are in the window.                    *)
Crowded ==
  \E m \in {JsDate(updatedAt[v]) : v \in Videos} :
    LET sharing == {v \in Videos : Cancelled(v) /\ JsDate(updatedAt[v]) = m}
    IN  Cardinality(sharing) >= PageSize /\ \E v \in sharing : updatedAt[v] # m

(* A sweep comes to an end, although the cursor is coarser than the order, so  *)
(* that the last row of a page may be read again with the next, and although  *)
(* rows move to the end while it is under way; unless they are crowded.      *)
SweepEnds ==
  [](~Crowded) => \A s \in Sweepers : sweep[s].at # "off" ~> sweep[s].at = "off"

(* "lets the caller DRAIN the whole window even when a burst cancels more    *)
(* rows than one page": nothing that a cancelled video has in R2 stays there, *)
(* whatever its last run still put while it was being swept, unless no sweep *)
(* gets through before it leaves the window.  That is so of a burst of the    *)
(* API's cancels, whose times are whole milliseconds; not of one that a        *)
(* single statement of Postgres stamps within a millisecond (Crowded), behind *)
(* whose page the code never gets.                                          *)
NothingLeaks ==
  ([](~Crowded) /\ <>[][\A s \in Sweepers : RowFails(s) \/ SweepStops(s) => SweepStep(s)]_vars) =>
    \A v \in Videos :
      (Cancelled(v) /\ ~writing[v] /\ Leftovers(v)) ~>
        (~Leftovers(v) \/ now - updatedAt[v] > Horizon)
=============================================================================
