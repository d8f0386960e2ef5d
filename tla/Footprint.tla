----------------------------- MODULE Footprint -----------------------------
(***************************************************************************)
(* What the ready videos of a page occupy in the output bucket, as the list   *)
(* shows it: the API lists each one's prefix, page by page and a few videos   *)
(* at a time, while the captions job may still be publishing into it, and     *)
(* React Query keeps the answer for five minutes under the set of their ids.  *)
(***************************************************************************)
EXTENDS Naturals, FiniteSets, FiniteSetsExt

CONSTANTS
  Videos,
  Published,  \* the objects of a ready video, numbered in the order of keys
  Captions,   \* those that the captions job adds
  ListPage,   \* objects in an answer of ListObjectsV2
  POOL        \* prefixes that are listed at a time

FootprintAssumption ==
  /\ IsFiniteSet(Videos) /\ IsFiniteSet(Published \cup Captions)
  /\ Published \cup Captions \subseteq Nat \ {0} /\ Published \cap Captions = {}
  /\ {ListPage, POOL} \subseteq Nat \ {0}

VARIABLES
  ready,    \* the videos that are
  objects,  \* of each the objects under its prefix
  view,     \* the list is open
  cards,    \* the ready videos it shows
  fetch,    \* of each set of ids: the request is on its way
  item,     \* of each of its ids the listing
  cache     \* of each set of ids the answer, {} before there is one

vars == <<ready, objects, view, cards, fetch, item, cache>>

Keys == SUBSET Videos

Waiting == [phase |-> "waiting", after |-> 0, sum |-> 0]

TypeOK ==
  /\ ready \subseteq Videos /\ cards \subseteq ready /\ view \in BOOLEAN
  /\ objects \in [Videos -> SUBSET (Published \cup Captions)]
  /\ fetch \in [Keys -> BOOLEAN]
  /\ \A k \in Keys : \A v \in k :
       /\ item[k][v].phase \in {"waiting", "listing", "done"}
       /\ item[k][v].after \in 0 .. Max(Published \cup Captions)
       /\ item[k][v].sum \in 0 .. Cardinality(Published \cup Captions)
  /\ \A k \in Keys : \A answer \in cache[k] : DOMAIN answer = k

Init ==
  /\ ready = {} /\ objects = [v \in Videos |-> {}]
  /\ view = FALSE /\ cards = {}
  /\ fetch = [k \in Keys |-> FALSE] /\ item = [k \in Keys |-> [v \in k |-> Waiting]]
  /\ cache = [k \in Keys |-> {}]
-----------------------------------------------------------------------------
(* The pipeline.                                                           *)

(* PRIMARY has published the tree, and markReady writes its size. *)
MarkReady(v) ==
  /\ v \notin ready /\ ready' = ready \cup {v}
  /\ objects' = [objects EXCEPT ![v] = Published]
  /\ UNCHANGED <<view, cards, fetch, item, cache>>

(* The captions job, later, and on another machine. *)
PublishCaptions(v, o) ==
  /\ v \in ready /\ o \in Captions \ objects[v]
  /\ objects' = [objects EXCEPT ![v] = @ \cup {o}]
  /\ UNCHANGED <<ready, view, cards, fetch, item, cache>>
-----------------------------------------------------------------------------
(* The API.  Definitions named Faulty... are the code with one plausible     *)
(* mistake in it; no action uses them.                                      *)

(* mapPool: as many workers as the pool has, each takes one after another.   *)
Begin(k, v) ==
  /\ fetch[k] /\ item[k][v].phase = "waiting"
  /\ Cardinality({w \in k : item[k][w].phase = "listing"}) < POOL
  /\ item' = [item EXCEPT ![k][v].phase = "listing"]
  /\ UNCHANGED <<ready, objects, view, cards, fetch, cache>>

Remaining(k, v) == {o \in objects[v] : o > item[k][v].after}

(* ListObjectsV2: the first that come after the token; the token of what is   *)
(* left, if anything is.                                                    *)
OnePage(S) == {o \in S : Cardinality({p \in S : p < o}) < ListPage}

FaultyListObjects(k, v) ==
  LET page == OnePage(Remaining(k, v))
  IN  /\ fetch[k] /\ item[k][v].phase = "listing"
      /\ item' = [item EXCEPT ![k][v].sum = @ + Cardinality(page), ![k][v].phase = "done"]
      /\ UNCHANGED <<ready, objects, view, cards, fetch, cache>>

ListObjects(k, v) ==
  LET rest == Remaining(k, v)
      page == OnePage(rest)
  IN  /\ fetch[k] /\ item[k][v].phase = "listing"
      /\ item' = IF page = rest
                 THEN [item EXCEPT ![k][v].sum = @ + Cardinality(page), ![k][v].phase = "done"]
                 ELSE [item EXCEPT ![k][v].sum = @ + Cardinality(page), ![k][v].after = Max(page)]
      /\ UNCHANGED <<ready, objects, view, cards, fetch, cache>>
-----------------------------------------------------------------------------
(* The page.                                                               *)

(* The query of the set of ids that are shown: nothing to ask for none, and   *)
(* nothing while an answer is younger than five minutes, or on its way.      *)
Mounts(k) ==
  \/ /\ k # {} /\ ~fetch[k]
     /\ fetch' = [fetch EXCEPT ![k] = TRUE]
     /\ item'  = [item EXCEPT ![k] = [v \in k |-> Waiting]]
  \/ /\ k # {} => (fetch[k] \/ cache[k] # {})
     /\ UNCHANGED <<fetch, item>>

Open ==
  /\ ~view /\ view' = TRUE /\ cards' = ready
  /\ Mounts(ready)
  /\ UNCHANGED <<ready, objects, cache>>

Leave ==
  /\ view /\ view' = FALSE /\ cards' = {}
  /\ UNCHANGED <<ready, objects, fetch, item, cache>>

(* The list is polled, or refreshed; another set is another query.           *)
ListArrives ==
  /\ view /\ cards # ready /\ cards' = ready
  /\ Mounts(ready)
  /\ UNCHANGED <<ready, objects, view, cache>>

Arrive(k) ==
  /\ fetch[k] /\ \A v \in k : item[k][v].phase = "done"
  /\ fetch' = [fetch EXCEPT ![k] = FALSE]
  /\ item'  = [item EXCEPT ![k] = [v \in k |-> Waiting]]
  /\ cache' = [cache EXCEPT ![k] = {[v \in k |-> item[k][v].sum]}]
  /\ UNCHANGED <<ready, objects, view, cards>>

FetchFails(k) ==
  /\ fetch[k] /\ fetch' = [fetch EXCEPT ![k] = FALSE]
  /\ item' = [item EXCEPT ![k] = [v \in k |-> Waiting]]
  /\ UNCHANGED <<ready, objects, view, cards, cache>>

(* On the card: the answer, or output_bytes of the row until there is one.   *)
Figure(v) ==
  IF cache[cards] = {} THEN Cardinality(Published)
  ELSE (CHOOSE answer \in cache[cards] : TRUE)[v]

Next ==
  \/ \E v \in Videos : MarkReady(v) \/ \E o \in Captions : PublishCaptions(v, o)
  \/ \E k \in Keys : \E v \in k : Begin(k, v) \/ ListObjects(k, v)
  \/ Open \/ Leave \/ ListArrives
  \/ \E k \in Keys : Arrive(k) \/ FetchFails(k)

Spec == Init /\ [][Next]_vars
-----------------------------------------------------------------------------
(* Properties.                                                             *)

(* Whatever is published while a prefix is being listed, however many pages   *)
(* it has, and whichever set of ids the answer was asked for: a card counts   *)
(* all that PRIMARY published, and nothing that is not in the bucket.        *)
FigureIsWhole ==
  \A v \in cards : Figure(v) \in Cardinality(Published) .. Cardinality(objects[v])

=============================================================================
