--------------------------- MODULE PublishedTree ---------------------------
(***************************************************************************)
(* What the PRIMARY run of a video leaves outside its row: the content key *)
(* in video_keys and the AES-encrypted HLS segments under the video's      *)
(* prefix in R2.  Neither is guarded by the claim.  The module runs the    *)
(* whole protocol of VideoQueue and adds the two stores to it.             *)
(***************************************************************************)
EXTENDS VideoQueue

CONSTANTS
  Segments,   \* the object names of a published tree
  Keys,       \* content keys; a run takes one that is not in use anywhere
  NoKey       \* no row in video_keys, no object in R2

ASSUME NoKeyAssumption == NoKey \notin Keys

VARIABLES
  keyOf,    \* the key the video_keys row of a video delivers to the player
  tree,     \* the key each segment in R2 is encrypted with
  runKey,   \* the key the run of a worker packages with
  sent,     \* segments the run of a worker has uploaded
  late,     \* PUTs of ended runs that may still land: <<video, segment, key>>
  overlapped \* history: a run of the video was started before an earlier one ended

storeVars == <<keyOf, tree, runKey, sent, late, overlapped>>
treeVars  == <<vars, storeVars>>

TreeTypeOK ==
  /\ TypeOK
  /\ keyOf  \in [Videos -> Keys \cup {NoKey}]
  /\ tree   \in [Videos -> [Segments -> Keys \cup {NoKey}]]
  /\ runKey \in [Workers -> Keys \cup {NoKey}]
  /\ sent   \in [Workers -> SUBSET Segments]
  /\ late   \subseteq Videos \X Segments \X Keys
  /\ overlapped \subseteq Videos
  /\ \A w \in Workers : sent[w] # {} => runKey[w] \in Keys

TreeInit ==
  /\ Init
  /\ keyOf  = [v \in Videos |-> NoKey]
  /\ tree   = [v \in Videos |-> [s \in Segments |-> NoKey]]
  /\ runKey = [w \in Workers |-> NoKey]
  /\ sent   = [w \in Workers |-> {}]
  /\ late   = {}
  /\ overlapped = {}
-----------------------------------------------------------------------------
Uploading(w) == pc[w] = "run" /\ stage[w] = "upload"

(* Random 128-bit keys do not repeat. *)
InUse ==
  {keyOf[v] : v \in Videos} \cup {tree[v][s] : v \in Videos, s \in Segments}
  \cup {runKey[w] : w \in Workers} \cup {put[3] : put \in late}

(* FaultyKeepFirstKey: ON CONFLICT DO NOTHING.  Faulty... as in VideoQueue.  *)
FaultyKeepFirstKey(w) ==
  /\ pc[w] = "run" /\ stage[w] = "package" /\ runKey[w] = NoKey
  /\ \E k \in Keys \ InUse :
       /\ runKey' = [runKey EXCEPT ![w] = k]
       /\ keyOf'  = [keyOf EXCEPT ![held[w]] = IF @ = NoKey THEN k ELSE @]
  /\ UNCHANGED <<vars, tree, sent, late, overlapped>>

(* generateAndStore: a new key per run, upserted into video_keys. *)
GenerateAndStore(w) ==
  /\ pc[w] = "run" /\ stage[w] = "package" /\ runKey[w] = NoKey
  /\ \E k \in Keys \ InUse :
       /\ runKey' = [runKey EXCEPT ![w] = k]
       /\ keyOf'  = [keyOf EXCEPT ![held[w]] = k]
  /\ UNCHANGED <<vars, tree, sent, late, overlapped>>

(* One lane of uploadOutputTree: the abort check, then the PUT. *)
PutSegment(w, s) ==
  /\ Uploading(w) /\ s \notin sent[w]
  /\ ~aborted[w]
  /\ tree' = [tree EXCEPT ![held[w]][s] = runKey[w]]
  /\ sent' = [sent EXCEPT ![w] = @ \cup {s}]
  /\ UNCHANGED <<vars, keyOf, runKey, late, overlapped>>

(* A PUT in flight when its run threw, was aborted or crashed lands later,  *)
LateLands ==
  \E put \in late :
    /\ tree' = [tree EXCEPT ![put[1]][put[2]] = put[3]]
    /\ late' = late \ {put}
    /\ UNCHANGED <<vars, keyOf, runKey, sent, overlapped>>

(* or never. *)
LateVanishes ==
  \E put \in late :
    /\ late' = late \ {put}
    /\ UNCHANGED <<vars, keyOf, tree, runKey, sent, overlapped>>
-----------------------------------------------------------------------------
(* A step of the queue, with what it means for the run's upload.           *)

PackagedFirst(w) ==
  stage[w] = "package" /\ stage'[w] = "upload" => runKey[w] # NoKey

FaultyUploadedSome(w) ==
  pc[w] = "run" /\ pc'[w] = "finish" => sent[w] # {}

UploadedAll(w) ==
  pc[w] = "run" /\ pc'[w] = "finish" => sent[w] = Segments

(* Runs that end in the middle of their upload: its PUTs in flight. *)
LeftBehind ==
  {put \in Videos \X Segments \X Keys :
     \E w \in Workers :
       /\ Uploading(w) /\ pc'[w] \notin {"run", "finish"}
       /\ put[1] = held[w] /\ put[3] = runKey[w] /\ put[2] \notin sent[w]}

(* A run of v is going on, or will as soon as its claim is answered, or its *)
(* PUTs are still in flight.                                               *)
Writing(v) ==
  \/ \E w \in Workers : held[w] = v /\ pc[w] \in {"claimed", "run"}
  \/ \E put \in late : put[1] = v

QueueStep ==
  /\ Next
  /\ \A w \in Workers : PackagedFirst(w) /\ UploadedAll(w)
  /\ runKey' = [w \in Workers |-> IF pc'[w] = "run" THEN runKey[w] ELSE NoKey]
  /\ sent'   = [w \in Workers |-> IF pc'[w] = "run" THEN sent[w] ELSE {}]
  /\ late'   = late \cup LeftBehind
  /\ overlapped' = overlapped \cup
       {v \in Videos : status[v] = "uploaded" /\ status'[v] = "processing" /\ Writing(v)}
  /\ UNCHANGED <<keyOf, tree>>

StoreStep ==
  \/ \E w \in Workers : GenerateAndStore(w)
  \/ \E w \in Workers, s \in Segments : PutSegment(w, s)
  \/ LateLands \/ LateVanishes

TreeNext == QueueStep \/ StoreStep
TreeSpec == TreeInit /\ [][TreeNext]_treeVars
-----------------------------------------------------------------------------
(* Properties.                                                             *)

(* A ready video is complete: every segment its playlists name is in R2,    *)
(* even when zombie runs and late PUTs wrote to the same prefix.           *)
ReadyTreeIsComplete ==
  \A v \in Videos : status[v] = "ready" => \A s \in Segments : tree[v][s] # NoKey

Decrypts(v) == \A s \in Segments : tree[v][s] = keyOf[v]

(* A ready video plays: the key the API delivers decrypts every segment,    *)
(* whatever was retried, released, reaped or crashed before, as long as no  *)
(* run of it was started while an earlier one could still write.           *)
UnsharedTreeDecrypts ==
  \A v \in Videos : status[v] = "ready" /\ v \notin overlapped => Decrypts(v)
=============================================================================
