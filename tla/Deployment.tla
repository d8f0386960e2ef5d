----------------------------- MODULE Deployment -----------------------------
(***************************************************************************)
(* Where the settings of a process come from, and what that does to the       *)
(* content keys.  The API reads the operator's .env; push-ssm.sh copies what  *)
(* is set there to the parameter store, and a worker writes an .env of its    *)
(* own from that when it boots.  Both put it through config/index.ts, once;   *)
(* so a worker wraps keys by the settings of one day and an API unwraps them  *)
(* by those of another.                                                    *)
(***************************************************************************)
EXTENDS Naturals, Sequences

CONSTANTS
  Videos,
  Workers,
  MaxEdits   \* bound on the changes of the operator's file

VARIABLES
  file,     \* the operator's .env: of each setting its value, or "absent"
  edits,
  rotated,  \* history: the secret or the KMS key in it was replaced
  pushing,  \* push-ssm.sh: the settings it has yet to put
  ssm,      \* the parameter store
  config,   \* of each worker what config/index.ts made of its .env, or Off
  row       \* video_keys: of each video its scheme, and what wraps it

vars == <<file, edits, rotated, pushing, ssm, config, row>>

(* KEYS of push-ssm.sh, those of them that matter here, in their order.  (The *)
(* settings that are empty in the store on purpose, and have || for ??, are  *)
(* not among them.)                                                        *)
Pushed == <<"DATABASE_URL", "PG_DATABASE_HOST", "KEY_KMS_KEY_ID", "PLAYBACK_TOKEN_SECRET">>

Settings == {Pushed[i] : i \in DOMAIN Pushed}
Values   == {"absent", "empty", "dev", "own", "new"}  \* "empty" is the empty string
NoKey    == [scheme |-> "none", under |-> "empty"]
Off      == [s \in Settings |-> "absent"]
Running(w) == config[w] # Off

TypeOK ==
  /\ file \in [Settings -> Values] /\ ssm \in [Settings -> Values \ {"empty"}]
  /\ edits \in 0 .. MaxEdits /\ rotated \in BOOLEAN
  /\ \E n \in 0 .. Len(Pushed) : pushing = SubSeq(Pushed, n + 1, Len(Pushed))
  /\ \A w \in Workers : config[w] \in [Settings -> Values]
  /\ row \in [Videos -> [scheme : {"none", "kms", "local_aes"}, under : Values]]

(* .env.example, or nothing yet. *)
Init ==
  /\ file \in {Off, [s \in Settings |->
       IF s = "KEY_KMS_KEY_ID" THEN "empty" ELSE "dev"]}
  /\ edits = 0 /\ rotated = FALSE /\ pushing = <<>>
  /\ ssm = Off /\ config = [w \in Workers |-> Off]
  /\ row = [v \in Videos |-> NoKey]
-----------------------------------------------------------------------------
(* config/index.ts, and who reads it.  Definitions named Faulty... are the    *)
(* code with one plausible mistake in it; no action uses them.              *)

(* What stands behind the ?? of a setting. *)
Default(s) == IF s \in {"PG_DATABASE_HOST", "PLAYBACK_TOKEN_SECRET"} THEN "dev" ELSE "empty"

(* ?? keeps what is empty. *)
Configured(env) == [s \in Settings |-> IF env[s] = "absent" THEN Default(s) ELSE env[s]]

(* getPoolConfig: the database that is the service's own is "own". *)
Database(c) == IF c["DATABASE_URL"] # "empty" THEN c["DATABASE_URL"] ELSE c["PG_DATABASE_HOST"]

(* The service makes its KMS client once, from the settings it booted with. *)
UsesKms(c) == c["KEY_KMS_KEY_ID"] # "empty"

(* wrap; the local key is a hash of the secret. *)
Wrapped(c) ==
  IF UsesKms(c) THEN [scheme |-> "kms", under |-> c["KEY_KMS_KEY_ID"]]
  ELSE [scheme |-> "local_aes", under |-> c["PLAYBACK_TOKEN_SECRET"]]

FaultyUnwraps(c, key) == key = Wrapped(c)

(* unwrap, by the scheme of the row. *)
Unwraps(c, key) ==
  \/ key.scheme = "kms" /\ UsesKms(c) /\ c["KEY_KMS_KEY_ID"] = key.under
  \/ key.scheme = "local_aes" /\ c["PLAYBACK_TOKEN_SECRET"] = key.under
-----------------------------------------------------------------------------
(* The operator.                                                           *)

Edit(s) ==
  /\ edits < MaxEdits /\ edits' = edits + 1
  /\ \E value \in {"empty", "own", "new"} \ {file[s]} :
       file' = [file EXCEPT ![s] = value]
  /\ rotated' = (rotated \/ (/\ s \in {"KEY_KMS_KEY_ID", "PLAYBACK_TOKEN_SECRET"}
                             /\ file[s] \notin {"absent", "empty"}))
  /\ UNCHANGED <<pushing, ssm, config, row>>

Push ==
  /\ pushing = <<>> /\ pushing' = Pushed
  /\ UNCHANGED <<file, edits, rotated, ssm, config, row>>

(* What is empty is skipped, and stays in the store as it was. *)
PutNext ==
  LET s == Head(pushing)
  IN  /\ pushing # <<>> /\ file[s] # "absent" /\ pushing' = Tail(pushing)
      /\ ssm' = IF file[s] = "empty" THEN ssm ELSE [ssm EXCEPT ![s] = file[s]]
      /\ UNCHANGED <<file, edits, rotated, config, row>>

(* set -e and pipefail: grep finds no line, or put-parameter is refused.     *)
PushFails ==
  /\ pushing # <<>> /\ pushing' = <<>>
  /\ UNCHANGED <<file, edits, rotated, ssm, config, row>>
-----------------------------------------------------------------------------
(* Workers.                                                                *)

(* write_param makes nothing of a parameter that is not there, and of one it  *)
(* cannot read (of which a boot has one at most).                           *)
Written(missed) ==
  [s \in Settings |-> IF ssm[s] = "absent" \/ s = missed THEN "empty" ELSE ssm[s]]

Boot(w) ==
  /\ ~Running(w)
  /\ \E missed \in Settings : config' = [config EXCEPT ![w] = Configured(Written(missed))]
  /\ UNCHANGED <<file, edits, rotated, pushing, ssm, row>>

(* It finds no queue, or nothing in it, or is interrupted. *)
Ends(w) ==
  /\ Running(w) /\ config' = [config EXCEPT ![w] = Off]
  /\ UNCHANGED <<file, edits, rotated, pushing, ssm, row>>

(* generateAndStore, for a first run of the video or another. *)
StoreKey(w, v) ==
  /\ Running(w) /\ Database(config[w]) = "own"
  /\ row' = [row EXCEPT ![v] = Wrapped(config[w])]
  /\ UNCHANGED <<file, edits, rotated, pushing, ssm, config>>

Next ==
  \/ \E s \in Settings : Edit(s)
  \/ Push \/ PutNext \/ PushFails
  \/ \E w \in Workers : Boot(w) \/ Ends(w) \/ \E v \in Videos : StoreKey(w, v)

Spec == Init /\ [][Next]_vars
-----------------------------------------------------------------------------
(* Properties.                                                             *)

(* getForPlayback: whoever starts an API on the file as it is can unwrap all  *)
(* the keys there are, whatever half of it had been pushed when they were     *)
(* wrapped, and by workers of which day: KMS may be turned on over a secret,  *)
(* or not be seen by a worker.  (Not after the secret or the KMS key was      *)
(* replaced, nor if a worker went without a secret.)                        *)
KeysDeliverable ==
  ~rotated => \A v \in Videos :
    row[v].under # "empty" => Unwraps(Configured(file), row[v])
=============================================================================
