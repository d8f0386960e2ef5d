----------------------------- MODULE Dashboard -----------------------------
(***************************************************************************)
(* The dashboard: the list of videos and the page of each are cached by      *)
(* React Query and polled while something moves.  Retry, Cancel and Rename    *)
(* guess their result into every cache, keep a snapshot of all of them to     *)
(* restore, and have some fetched again when they settle.  They overlap each  *)
(* other, the polls, other clients, and the viewer's way between the pages.   *)
(***************************************************************************)
EXTENDS Naturals

CONSTANTS
  Videos,     \* what the list shows
  Pages,      \* the videos whose page may be opened
  List,       \* the query of the list; each page is a query of its own
  Crossings,  \* bound: a behaviour has the clicks of one of these sets, each
              \* once; a click is a record of video and kind
  MaxMoves    \* bound on what moves the rows without the dashboard

Mutations == UNION Crossings

MutationsAssumption ==
  /\ List \notin Videos /\ "elsewhere" \notin Videos \cup {List} /\ Pages \subseteq Videos
  /\ MaxMoves \in Nat
  /\ \A m \in Mutations : m.video \in Videos /\ m.kind \in {"retry", "cancel", "rename"}

VARIABLES
  row,      \* status in the database; "moving" is any that is not terminal
  moves,    \* how often it has been moved without the dashboard
  view,     \* the query whose page is mounted, or "elsewhere"
  data,     \* the cache: of each cell the status, or "none"
  phase,    \* the fetch of a query: "idle", "sent", or "read" by the API
  answer,   \* what it read, while it travels
  invalid,  \* isInvalidated
  request,  \* of each mutation: "idle", "sent", "done" or "refused" by the
            \* API, "checked" between two statements of its handler, "over"
  snapshot, \* the cache it would restore
  excused   \* history: the page may be left with what it shows (see Excuse)

cacheVars    == <<data, phase, answer, invalid>>
mutationVars == <<request, snapshot>>
vars         == <<row, moves, view, cacheVars, mutationVars, excused>>

Statuses == {"moving", "ready", "failed", "cancelled"}
Queries  == Pages \cup {List}

(* A cell is the status of a video in the answer of a query.                 *)
Scope(q) == IF q = List THEN Videos ELSE {q}
Cells    == UNION {{q} \X Scope(q) : q \in Queries}
Nothing  == [c \in Cells |-> "none"]
HasData(cache, q) == \A v \in Scope(q) : cache[<<q, v>>] # "none"

TypeOK ==
  /\ row \in [Videos -> Statuses] /\ moves \in 0 .. MaxMoves
  /\ view \in Queries \cup {"elsewhere"}
  /\ {data, answer} \subseteq [Cells -> Statuses \cup {"none"}]
  /\ phase \in [Queries -> {"idle", "sent", "read"}]
  /\ {invalid, excused} \subseteq [Queries -> BOOLEAN]
  /\ request \in [Mutations -> {"idle", "sent", "checked", "done", "refused", "over"}]
  /\ snapshot \in [Mutations -> [Cells -> Statuses \cup {"none"}]]

Init ==
  /\ row \in [Videos -> {"moving", "failed"}]
  /\ moves = 0 /\ view = "elsewhere"
  /\ data = Nothing /\ answer = Nothing
  /\ phase = [q \in Queries |-> "idle"] /\ invalid = [q \in Queries |-> FALSE]
  /\ request = [m \in Mutations |-> "idle"] /\ snapshot = [m \in Mutations |-> Nothing]
  /\ excused = [q \in Queries |-> FALSE]
-----------------------------------------------------------------------------
(* Queries.  Definitions named Faulty... are the code with one plausible     *)
(* mistake in it; no action uses them.                                      *)

(* The cells of a query in one cache, the others in another. *)
Merge(q, here, there) == [c \in DOMAIN data |-> IF c[1] = q THEN here[c] ELSE there[c]]

(* isNonTerminal *)
NonTerminal(status) == status = "moving"

(* refetchInterval of useVideos and of useVideo. *)
Polls(q) == HasData(data, q) /\ \E v \in Scope(q) : NonTerminal(data[<<q, v>>])

(* Mounting a page fetches what is missing, invalid, or older than 2 s; a     *)
(* fetch that is under way will do.  Leaving one stops nothing.  (The end of *)
(* an upload, elsewhere, makes the list invalid: fewer ways to come to it.)  *)
Visit(page) ==
  /\ view # page /\ view' = page
  /\ IF page = "elsewhere" \/ phase[page] # "idle" THEN UNCHANGED phase
     ELSE \/ phase' = [phase EXCEPT ![page] = "sent"]
          \/ HasData(data, page) /\ ~invalid[page] /\ UNCHANGED phase
  /\ UNCHANGED <<row, moves, data, answer, invalid, mutationVars>>

Poll ==
  /\ view \in Queries /\ phase[view] = "idle" /\ Polls(view)
  /\ phase' = [phase EXCEPT ![view] = "sent"]
  /\ UNCHANGED <<row, moves, view, data, answer, invalid, mutationVars>>

Read(q) ==
  /\ phase[q] = "sent" /\ phase' = [phase EXCEPT ![q] = "read"]
  /\ answer' = Merge(q, [c \in DOMAIN data |-> row[c[2]]], answer)
  /\ UNCHANGED <<row, moves, view, data, invalid, mutationVars>>

(* A fetch that ends leaves nothing on its way. *)
Settled(q) ==
  /\ phase' = [phase EXCEPT ![q] = "idle"] /\ answer' = Merge(q, Nothing, answer)
  /\ UNCHANGED <<row, moves, view, mutationVars>>

Arrive(q) ==
  /\ phase[q] = "read" /\ Settled(q)
  /\ data' = Merge(q, answer, data)
  /\ invalid' = [invalid EXCEPT ![q] = FALSE]

(* Its one retry failed as well; what is cached stays. *)
FetchFails(q) ==
  /\ phase[q] # "idle" /\ Settled(q)
  /\ UNCHANGED <<data, invalid>>

(* cancelQueries, or a fetch given up for a newer one. *)
Without(qs) == [c \in DOMAIN data |-> IF c[1] \in qs THEN "none" ELSE answer[c]]

FaultyInvalidate(qs, set) ==
  /\ invalid' = [q \in Queries |-> q \in qs \/ (invalid[q] /\ q \notin set)]
  /\ UNCHANGED <<phase, answer>>

(* invalidateQueries, after setQueryData of some queries: what is on the page *)
(* is fetched at once, and a fetch that is under way given up for it, but    *)
(* for the first one.                                                      *)
Invalidate(qs, set) ==
  LET again == {q \in qs \cap {view} : HasData(data', q) \/ phase[q] = "idle"}
  IN  /\ invalid' = [q \in Queries |-> q \in qs \/ (invalid[q] /\ q \notin set)]
      /\ phase'   = [q \in Queries |-> IF q \in again THEN "sent" ELSE phase[q]]
      /\ answer'  = Without(again)

(* The button beside the list. *)
Refresh ==
  /\ view = List /\ (HasData(data, List) \/ phase[List] = "idle")
  /\ phase' = [phase EXCEPT ![List] = "sent"] /\ answer' = Without({List})
  /\ UNCHANGED <<row, moves, view, data, invalid, mutationVars>>

QueryStep ==
  \/ \E page \in Queries \cup {"elsewhere"} : Visit(page)
  \/ \E q \in Queries : Read(q) \/ Arrive(q) \/ FetchFails(q)
  \/ Poll \/ Refresh
-----------------------------------------------------------------------------
(* Rows, as the pipeline, another client or the tenant-admin service moves   *)
(* them.                                                                   *)
RowMoves(v) ==
  /\ moves < MaxMoves /\ moves' = moves + 1
  /\ \/ row[v] = "moving" /\ row' \in {[row EXCEPT ![v] = s] : s \in {"ready", "failed"}}
     \/ row[v] = "failed" /\ row' = [row EXCEPT ![v] = "moving"]
     \/ row[v] = "ready"  /\ row' = [row EXCEPT ![v] = "cancelled"]
  /\ UNCHANGED <<view, cacheVars, mutationVars>>
-----------------------------------------------------------------------------
(* Mutations.                                                              *)

Guess(kind, status) ==
  CASE kind = "retry"  -> "moving"
    [] kind = "cancel" -> "cancelled"
    [] kind = "rename" -> status

(* Status-gated buttons; what they call "moving" may be 'processing', which   *)
(* shows no Cancel.                                                        *)
Offered(m) ==
  LET shown == data[<<List, m.video>>]
  IN  CASE m.kind = "retry"  -> shown = "failed"
        [] m.kind = "cancel" -> shown \in {"moving", "failed"}
        [] m.kind = "rename" -> shown # "none"

Touched(m) == {List, m.video}

(* onMutate: cancelQueries, snapshotCaches, patchVideoInCaches.  setQueryData *)
(* makes what it sets valid.                                               *)
Click(m) ==
  /\ \E crossing \in Crossings : {m} \cup {n \in Mutations : request[n] # "idle"} \subseteq crossing
  /\ view = List /\ request[m] = "idle" /\ Offered(m)
  /\ request'  = [request EXCEPT ![m] = "sent"]
  /\ phase'    = [q \in Queries |-> IF q \in Touched(m) THEN "idle" ELSE phase[q]]
  /\ answer'   = Without(Touched(m))
  /\ snapshot' = [snapshot EXCEPT ![m] = data]
  /\ data'     = [c \in DOMAIN data |-> IF c[2] = m.video /\ data[c] # "none"
                                  THEN Guess(m.kind, data[c]) ELSE data[c]]
  /\ invalid'  = [q \in Queries |-> invalid[q] /\ ~(q \in Touched(m) /\ HasData(data, q))]
  /\ UNCHANGED <<row, moves, view>>

Allowed(m) ==
  CASE m.kind = "retry"  -> row[m.video] = "failed"
    [] m.kind = "cancel" -> row[m.video] \in {"moving", "failed"}
    [] m.kind = "rename" -> TRUE

(* videosService.retry reads the row for its 409 ... *)
CheckRetry(m) ==
  /\ m.kind = "retry" /\ request[m] = "sent"
  /\ request' = [request EXCEPT ![m] = IF Allowed(m) THEN "checked" ELSE "refused"]
  /\ UNCHANGED <<row, moves, view, cacheVars, snapshot>>

(* ... and ignores whether its guarded UPDATE found the row still failed;    *)
(* cancel has its 409 from the UPDATE.                                     *)
Serve(m) ==
  /\ request[m] = IF m.kind = "retry" THEN "checked" ELSE "sent"
  /\ request' = [request EXCEPT ![m] = IF Allowed(m) \/ m.kind = "retry" THEN "done" ELSE "refused"]
  /\ row' = IF Allowed(m) THEN [row EXCEPT ![m.video] = Guess(m.kind, @)] ELSE row
  /\ UNCHANGED <<moves, view, cacheVars, snapshot>>

Over(m) ==
  /\ request'  = [request EXCEPT ![m] = "over"]
  /\ snapshot' = [snapshot EXCEPT ![m] = Nothing]
  /\ UNCHANGED <<row, moves, view>>

(* onSettled. *)
Succeed(m) ==
  /\ request[m] = "done" /\ Over(m)
  /\ UNCHANGED data
  /\ Invalidate(Touched(m), {})

(* restoreCaches: every video's, not only the mutation's own; setting a query *)
(* to nothing sets nothing.                                                *)
Restored(m) == [c \in DOMAIN data |-> IF snapshot[m][c] # "none" THEN snapshot[m][c] ELSE data[c]]

Pending(m) == request[m] \notin {"idle", "over"}

(* onError, onSettled: refused, or the request or its answer was lost.  Both  *)
(* belong to the hook, so they run whatever page is open by then.            *)
Fail(m) ==
  /\ Pending(m) /\ Over(m)
  /\ data' = Restored(m)
  /\ Invalidate(Touched(m), {q \in Queries : HasData(snapshot[m], q)})

MutationStep(m) == Click(m) \/ CheckRetry(m) \/ Serve(m) \/ Succeed(m) \/ Fail(m)
-----------------------------------------------------------------------------
(* Excuses for a page that does not show the rows.                          *)

Agrees(cache, q) == \A v \in Scope(q) : cache[<<q, v>>] = row'[v]

(* A fetch failed; ... *)
Excuse(q) ==
  \/ FetchFails(q)
  (* another client moved a row at its end, which is not polled; ... *)
  \/ \E v \in Scope(q) : RowMoves(v) /\ ~NonTerminal(row[v])
  (* an answer is older than a mutation that has settled: nothing gave it up, *)
  (* since the page was left, or had no data yet; ...                       *)
  \/ /\ phase[q] = "read" /\ phase'[q] = "idle"
     /\ \E v \in Scope(q) : /\ answer[<<q, v>>] \notin {"moving", row[v]}
                            /\ \A m \in Mutations : m.video = v => ~Pending(m)
  (* or the failed mutation of another video restored an older status of the *)
  (* page's, or called it valid, and had only its own fetched again.         *)
  \/ /\ q # List /\ (data'[<<q, q>>] # data[<<q, q>>] \/ invalid[q])
     /\ \E m \in Mutations : q # m.video /\ Fail(m)

(* It ends with an answer that is true, or a fetch that will bring one.      *)
Amends(q) == (Agrees(data', q) /\ phase'[q] = "idle") \/ phase'[q] = "sent"

Step ==
  \/ QueryStep
  \/ \E v \in Videos : RowMoves(v)
  \/ \E m \in Mutations : MutationStep(m)

Next ==
  /\ Step
  /\ excused' = [q \in Queries |-> ~Amends(q) /\ (excused[q] \/ Excuse(q))]

Spec == Init /\ [][Next]_vars
-----------------------------------------------------------------------------
(* Properties.                                                             *)

(* Nothing is on its way to a query whose page is open, and its timer is off. *)
Quiet(q) ==
  /\ phase[q] = "idle" /\ HasData(data, q) /\ ~Polls(q)
  /\ \A m \in Mutations : m.video \in Scope(q) => ~Pending(m)

(* "The server is the source of truth": a page that will not change by itself *)
(* any more shows the rows as they are, or has an excuse.  No guess outlives *)
(* its mutation, and no snapshot that holds another's guess, or an older     *)
(* status, stays restored, in whatever order the mutations of all videos,    *)
(* the polls and the visits of the pages are answered.                      *)
QuietPageIsTrue ==
  \A q \in Queries :
    view = q /\ Quiet(q) /\ ~excused[q] => \A v \in Scope(q) : data[<<q, v>>] = row[v]
=============================================================================
