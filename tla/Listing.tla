------------------------------ MODULE Listing ------------------------------
(***************************************************************************)
(* The list of videos, as the operator pages and filters it.  An answer of   *)
(* the API is put together from statements that run on their own            *)
(* connections, each at a moment of its own; React Query caches it under the *)
(* filter and the page, and shows the previous page until it is there; the   *)
(* tenant is a header, read from the settings when a request is sent.        *)
(***************************************************************************)
EXTENDS Naturals, FiniteSets

CONSTANTS
  Videos,     \* numbered in the order of created_at
  Tenants,
  Owner,      \* of each video its tenant
  Keys,       \* of the pages there may be: "all" or a status, and the number
  LIMIT,      \* cards of a page
  MaxSends,   \* bound on the requests
  MaxMoves,   \* bound on what happens to the rows
  MaxSaves    \* bound on how often the settings are saved

ListingAssumption ==
  /\ Videos \subseteq Nat /\ IsFiniteSet(Videos)
  /\ Owner \in [Videos -> Tenants]
  /\ "empty" \notin Tenants
  /\ Keys \subseteq {"all", "failed", "ready", "processing"} \X (Nat \ {0})
  /\ LIMIT \in Nat \ {0} /\ {MaxSends, MaxMoves, MaxSaves} \subseteq Nat

VARIABLES
  row,      \* status in the database
  moves,
  tenant,   \* tenantId of the settings, "empty" (the string) before there is one
  saves,
  view,     \* the key of the page that is open, or Elsewhere
  previous, \* the last key whose data this visit has shown, or Elsewhere
  sends,
  fetch,    \* of each key the request on its way
  cache,    \* of each key the answer that arrived last
  error,    \* of each key: its first fetch failed, and nothing is cached
  visit     \* history: what became of the wish of the open page for an answer

vars == <<row, moves, tenant, saves, view, previous, sends, fetch, cache, error, visit>>

Statuses  == {"absent", "processing", "ready", "failed"}
Elsewhere == <<"elsewhere", 0>>

(* No page is open; it does with what there is; an answer to a request of its *)
(* own is due, has arrived, or will not come.                               *)
Visits == {"none", "reuses", "due", "answered", "failed"}

(* The statements of listByTenant.  Each has its own moment.                *)
Statements == {"rows", "count"}

(* What an answer holds of them: the cards, by their status; the total; and   *)
(* (history) whether rows moved between the two.                            *)
Answers == [cards : UNION {[S -> Statuses] : S \in SUBSET Videos}, total : 0 .. Cardinality(Videos), torn : BOOLEAN]
Blank == [cards |-> <<>>, total |-> 0, torn |-> FALSE]
Idle  == [sent |-> FALSE, tenant |-> "empty", done |-> {}, answer |-> Blank]
Empty == [has |-> FALSE, tenant |-> "empty", answer |-> Blank]

TypeOK ==
  /\ row \in [Videos -> Statuses] /\ moves \in 0 .. MaxMoves /\ sends \in 0 .. MaxSends
  /\ tenant \in Tenants \cup {"empty"} /\ saves \in 0 .. MaxSaves
  /\ view \in Keys \cup {Elsewhere} /\ previous \in Keys \cup {Elsewhere}
  /\ \A k \in Keys :
       /\ fetch[k].sent \in BOOLEAN /\ fetch[k].tenant \in Tenants \cup {"empty"}
       /\ fetch[k].done \subseteq Statements /\ fetch[k].answer \in Answers
       /\ cache[k].has \in BOOLEAN /\ cache[k].tenant \in Tenants \cup {"empty"}
       /\ cache[k].answer \in Answers
  /\ error \in [Keys -> BOOLEAN] /\ visit \in Visits

(* A row is newer than those before it. *)
Newest(v, r) == \A w \in Videos : Owner[w] = Owner[v] /\ r[w] # "absent" => w <= v

Init ==
  /\ row \in {r \in [Videos -> {"absent", "processing", "failed"}] : \A v \in Videos : r[v] # "absent" \/ Newest(v, r)}
  /\ moves = 0 /\ sends = 0
  /\ tenant \in Tenants \cup {"empty"} /\ saves = 0
  /\ view = Elsewhere /\ previous = Elsewhere
  /\ fetch = [k \in Keys |-> Idle] /\ cache = [k \in Keys |-> Empty]
  /\ error = [k \in Keys |-> FALSE] /\ visit = "none"
-----------------------------------------------------------------------------
(* The API.  Definitions named Faulty... are the code with one plausible     *)
(* mistake in it; no action uses them.                                      *)

(* The WHERE of both queries. *)
Matching(t, f, r) == {v \in Videos : Owner[v] = t /\ r[v] # "absent" /\ (f = "all" \/ r[v] = f)}

(* ORDER BY created_at DESC LIMIT limit OFFSET (page - 1) * limit *)
Window(S, page) ==
  {v \in S : Cardinality({w \in S : w > v}) \in (page - 1) * LIMIT .. page * LIMIT - 1}

FaultyCount(t, f) == Cardinality(Matching(t, "all", row))

Count(t, f) == Cardinality(Matching(t, f, row))

ReadRows(k) ==
  LET f == fetch[k]
  IN  [f.answer EXCEPT !.cards = [v \in Window(Matching(f.tenant, k[1], row), k[2]) |-> row[v]]]

ReadCount(k) == [fetch[k].answer EXCEPT !.total = Count(fetch[k].tenant, k[1])]

(* getTenantId refuses a request without the header; the others run the       *)
(* statements, in any order.                                               *)
Statement(k, s) ==
  /\ fetch[k].sent /\ fetch[k].tenant # "empty" /\ s \notin fetch[k].done
  /\ fetch' = [fetch EXCEPT ![k].done = @ \cup {s},
                            ![k].answer = IF s = "rows" THEN ReadRows(k) ELSE ReadCount(k)]
  /\ UNCHANGED <<row, moves, tenant, saves, view, previous, sends, cache, error, visit>>

(* Uploads, the pipeline and other clients. *)
RowMoves(v) ==
  /\ moves < MaxMoves /\ moves' = moves + 1
  /\ \/ row[v] = "absent" /\ Newest(v, row) /\ row' = [row EXCEPT ![v] = "processing"]
     \/ row[v] = "processing" /\ row' \in {[row EXCEPT ![v] = s] : s \in {"ready", "failed"}}
     \/ row[v] = "failed" /\ row' = [row EXCEPT ![v] = "processing"]
  /\ fetch' = [k \in Keys |->
       IF /\ Cardinality(fetch[k].done) = 1
          /\ Matching(fetch[k].tenant, k[1], row) # Matching(fetch[k].tenant, k[1], row')
       THEN [fetch[k] EXCEPT !.answer.torn = TRUE] ELSE fetch[k]]
  /\ UNCHANGED <<tenant, saves, view, previous, sends, cache, error, visit>>

ServerStep ==
  \/ \E k \in Keys, s \in Statements : Statement(k, s)
  \/ \E v \in Videos : RowMoves(v)
-----------------------------------------------------------------------------
(* The settings.                                                           *)

(* saveSettings, on a page of its own.  What is cached stays.                *)
Save(t) ==
  /\ view = Elsewhere /\ t # tenant
  /\ saves < MaxSaves /\ saves' = saves + 1 /\ tenant' = t
  /\ UNCHANGED <<row, moves, view, previous, sends, fetch, cache, error, visit>>

isConfigured == tenant # "empty"
-----------------------------------------------------------------------------
(* The queries.                                                            *)

(* buildHeaders reads the settings as the request is sent. *)
Request == [Idle EXCEPT !.sent = TRUE, !.tenant = tenant]

Send(k) ==
  /\ sends < MaxSends /\ sends' = sends + 1
  /\ fetch' = [fetch EXCEPT ![k] = Request]
  /\ error' = [error EXCEPT ![k] = FALSE]
  /\ visit' = IF visit = "answered" /\ view = k THEN "answered" ELSE "due"

(* A request that is under way will do, and so will an answer of less than   *)
(* two seconds, whichever tenant's they are.                                *)
FetchUnless(k, fresh) ==
  IF fetch[k].sent \/ fresh \/ ~isConfigured
  THEN /\ visit' = "reuses"
       /\ UNCHANGED <<sends, fetch, error>>
  ELSE Send(k)

FaultyShow(k) ==
  /\ view # k /\ view' = k
  /\ previous' = IF cache[k].has THEN k ELSE previous
  /\ IF cache[k].has THEN visit' = "due" /\ UNCHANGED <<sends, fetch, error>> ELSE FetchUnless(k, FALSE)
  /\ UNCHANGED <<row, moves, tenant, saves, cache>>

(* The page with another key, or mounted with it. *)
Show(k) ==
  /\ view # k /\ view' = k
  /\ previous' = IF cache[k].has THEN k ELSE previous
  /\ \E fresh \in {FALSE, cache[k].has} : FetchUnless(k, fresh)
  /\ UNCHANGED <<row, moves, tenant, saves, cache>>

Placeholder == view \in Keys /\ ~cache[view].has /\ previous # Elsewhere /\ (fetch[view].sent \/ ~error[view])
HasData     == view \in Keys /\ (cache[view].has \/ Placeholder)
Data        == cache[IF cache[view].has THEN view ELSE previous].answer
Cards       == DOMAIN Data.cards

TotalPages == (Data.total + LIMIT - 1) \div LIMIT

(* The buttons beside the label, if there are cards, and more than one page. *)
Turn(k) ==
  /\ isConfigured /\ HasData /\ Cards # {} /\ TotalPages > 1
  /\ k[1] = view[1]
  /\ k[2] + 1 = view[2] \/ (k[2] = view[2] + 1 /\ view[2] < TotalPages)
  /\ Show(k)

(* Another status, from its first page. *)
Filter(k) == view \in Keys /\ k[2] = 1 /\ Show(k)

(* A link or the browser's Back: the key is in the address.                  *)
Open(k) == view = Elsewhere /\ Show(k)

Leave ==
  /\ view \in Keys /\ view' = Elsewhere /\ previous' = Elsewhere /\ visit' = "none"
  /\ UNCHANGED <<row, moves, tenant, saves, sends, fetch, cache, error>>

(* refetchInterval: while a card still moves. *)
Poll ==
  /\ view \in Keys /\ isConfigured /\ cache[view].has /\ ~fetch[view].sent
  /\ \E v \in Cards : Data.cards[v] = "processing"
  /\ Send(view)
  /\ UNCHANGED <<row, moves, tenant, saves, view, previous, cache>>

(* refetch() asks nobody whether the query is enabled, and gives a request    *)
(* up for a new one, but for the first.                                    *)
Refresh ==
  /\ view \in Keys /\ (cache[view].has \/ ~fetch[view].sent)
  /\ Send(view)
  /\ UNCHANGED <<row, moves, tenant, saves, view, previous, cache>>

Arrive(k) ==
  /\ fetch[k].done = Statements
  /\ fetch' = [fetch EXCEPT ![k] = Idle]
  /\ cache' = [cache EXCEPT ![k] = [has |-> TRUE, tenant |-> fetch[k].tenant, answer |-> fetch[k].answer]]
  /\ previous' = IF view = k THEN k ELSE previous
  /\ visit'    = IF view = k /\ visit = "due" THEN "answered" ELSE visit
  /\ UNCHANGED <<row, moves, tenant, saves, view, sends, error>>

(* Refused, or lost, and so was its one retry.  What is cached stays.        *)
FetchFails(k) ==
  /\ fetch[k].sent /\ fetch' = [fetch EXCEPT ![k] = Idle]
  /\ error'   = [error EXCEPT ![k] = ~cache[k].has]
  /\ visit'   = IF view = k /\ visit # "answered" THEN "failed" ELSE visit
  /\ UNCHANGED <<row, moves, tenant, saves, view, previous, sends, cache>>

QueryStep ==
  \/ \E k \in Keys : Turn(k) \/ Filter(k) \/ Open(k) \/ Arrive(k) \/ FetchFails(k)
  \/ Leave \/ Poll \/ Refresh

Next ==
  \/ ServerStep
  \/ \E t \in Tenants : Save(t)
  \/ QueryStep

Spec == Init /\ [][Next]_vars
-----------------------------------------------------------------------------
(* Properties.                                                             *)

(* What the page says it shows is its own, and read at one moment.           *)
Settled == isConfigured /\ HasData /\ ~Placeholder /\ ~Data.torn

(* The label under the cards, "from-to of total", counts as many as there     *)
(* are, and an empty page says that there are none only where the list has    *)
(* ended before it, on any page of any filter, after whatever moved while the *)
(* operator was on the way to it, unless something moved between the          *)
(* statements of this very answer.                                          *)
LabelMatches ==
  Settled =>
    LET before == (view[2] - 1) * LIMIT
        to     == IF Data.total < view[2] * LIMIT THEN Data.total ELSE view[2] * LIMIT
    IN  Cardinality(Cards) = IF to > before THEN to - before ELSE 0

(* No key names the tenant.  Yet from the first answer to a request that the  *)
(* open page has sent, which is due unless it is told why not, the page shows *)
(* rows of the tenant in the settings only, however often that was changed    *)
(* while answers to another were cached or on their way, and through later    *)
(* polls, refreshes and failures.  Until then the code may show the rows of   *)
(* the tenant before, and so may this: while that answer is on its way, and   *)
(* for as long as the page makes do with an answer of the last two seconds or *)
(* a request that it found under way, or as its own request has failed.       *)
OwnTenant ==
  HasData /\ (visit = "answered" \/ (visit = "due" /\ ~fetch[view].sent)) =>
    \A v \in Cards : Owner[v] = tenant
=============================================================================
