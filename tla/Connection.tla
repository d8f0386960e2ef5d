----------------------------- MODULE Connection ------------------------------
(***************************************************************************)
(* The connection settings and the dot that says whether the API answers:    *)
(* one tab with its store, its settings page and its health query, beside    *)
(* other tabs of the same browser.  The query names no API, so what it has   *)
(* learnt of one stays when the settings name another.                      *)
(***************************************************************************)
EXTENDS Naturals

CONSTANTS
  Bases,    \* API base URLs
  Default,  \* DEFAULTS.apiBase, one of them
  MaxSaves  \* bound on saves, of this tab and of others

(* A base is a URL, and none of the words that stand for something else here;  *)
(* "empty" is the string that is.                                           *)
ConnectionAssumption ==
  /\ Default \in Bases /\ MaxSaves \in Nat
  /\ Bases \cap {"empty", "/", "none", "idle", "paused"} = {}

VARIABLES
  stored,   \* localStorage, Nothing at first
  current,  \* the tab's settings, read from it once
  saves,    \* how often a tab has saved
  form,     \* what the settings page shows, Nothing when it is closed
  testing,  \* its test is under way
  online,   \* the browser's opinion of its network
  fetch,    \* the health query: "idle", "paused", or the base it has asked
  data,     \* it has an answer
  error,    \* isError
  said,     \* history: of the last fetch, its base and whether it was answered
  late      \* history: fetches of another base that ended since the last save

storeVars == <<stored, current, saves>>
pageVars  == <<form, testing>>
queryVars == <<fetch, data, error>>
vars      == <<storeVars, pageVars, online, queryVars, said, late>>

(* The service key and the tenant are there, or not. *)
Settings == [apiBase : Bases \cup {"empty", "/"}, keys : BOOLEAN]
DEFAULTS == [apiBase |-> Default, keys |-> FALSE]
Nothing  == [apiBase |-> "none", keys |-> FALSE]
Nobody   == [base |-> "none", ok |-> FALSE]

TypeOK ==
  /\ stored \in Settings \cup {Nothing} /\ current \in Settings /\ saves \in 0 .. MaxSaves
  /\ form \in Settings \cup {Nothing}
  /\ fetch \in {"idle", "paused"} \cup Bases
  /\ {testing, online, data, error} \subseteq BOOLEAN
  /\ said \in [base : Bases \cup {"none"}, ok : BOOLEAN] /\ late \in Nat

isConfigured(s) == s.apiBase # "empty" /\ s.keys

(* Mounting the dot fetches, if there is an API to ask. *)
Loaded ==
  LET kept == IF stored = Nothing THEN DEFAULTS ELSE stored
  IN  [settings |-> kept,
       fetch    |-> IF ~isConfigured(kept) THEN "idle"
                    ELSE IF online THEN kept.apiBase ELSE "paused"]

Init ==
  /\ stored \in {Nothing, [apiBase |-> Default, keys |-> TRUE]} /\ saves = 0
  /\ online \in BOOLEAN
  /\ current = Loaded.settings /\ fetch = Loaded.fetch
  /\ form = Nothing /\ testing = FALSE
  /\ data = FALSE /\ error = FALSE
  /\ said = Nobody /\ late = 0
-----------------------------------------------------------------------------
(* The query.                                                              *)

(* queryFn, which takes the base from the settings as they are when it runs. *)
Ask(settings) ==
  /\ fetch' = IF online THEN settings.apiBase ELSE "paused"
  /\ error' = (error /\ data)

(* Every 15 s; a fetch that is under way will do. *)
Poll ==
  /\ isConfigured(current) /\ fetch = "idle" /\ Ask(current)
  /\ UNCHANGED <<storeVars, pageVars, online, data, said, late>>

(* A fetch that waits for the network runs when it is there, and nothing     *)
(* asks it whether there still is an API.                                   *)
NetworkTurns ==
  /\ online' = ~online
  /\ fetch' = IF fetch # "paused" THEN fetch
              ELSE IF current.apiBase = "empty" THEN "idle" ELSE current.apiBase
  /\ error' = (error \/ (fetch = "paused" /\ current.apiBase = "empty"))
  /\ UNCHANGED <<storeVars, pageVars, data, said, late>>

(* There is no retry.  A body that is not JSON is no answer. *)
Settle(ok) ==
  /\ fetch \notin {"idle", "paused"} /\ fetch' = "idle"
  /\ data' = (data \/ ok) /\ error' = ~ok
  /\ said' = [base |-> fetch, ok |-> ok]
  /\ late' = IF fetch = current.apiBase THEN late ELSE late + 1
  /\ UNCHANGED <<storeVars, pageVars, online>>
-----------------------------------------------------------------------------
(* The settings.                                                           *)

(* saveSettings, whose listeners render the dot: a query that becomes enabled *)
(* fetches what it lacks, or has had for more than 10 s.                     *)
Save(next) ==
  LET trimmed == IF next.apiBase = "/" THEN [next EXCEPT !.apiBase = "empty"] ELSE next
      enabled == isConfigured(trimmed) /\ ~isConfigured(current) /\ fetch = "idle"
  IN  /\ saves < MaxSaves /\ saves' = saves + 1
      /\ current' = trimmed /\ stored' = trimmed
      /\ \/ enabled /\ Ask(trimmed)
         \/ (~enabled \/ data) /\ UNCHANGED <<fetch, error>>
      /\ late' = IF trimmed.apiBase = current.apiBase THEN late ELSE 0
      /\ said' = IF trimmed.apiBase = current.apiBase THEN said ELSE Nobody
      /\ UNCHANGED <<online, data>>

OpenSettings ==
  /\ form = Nothing /\ form' = current /\ testing' = FALSE
  /\ UNCHANGED <<storeVars, online, queryVars, said, late>>

CloseSettings ==
  /\ form # Nothing /\ form' = Nothing
  /\ UNCHANGED <<storeVars, testing, online, queryVars, said, late>>

Edit ==
  /\ form # Nothing /\ form' \in Settings \ {form}
  /\ UNCHANGED <<storeVars, testing, online, queryVars, said, late>>

OnSave == form # Nothing /\ Save(form) /\ UNCHANGED pageVars

(* "persist first so the client uses the latest values" *)
OnTest ==
  /\ form # Nothing /\ ~testing /\ form.apiBase # "empty"
  /\ Save(form) /\ testing' = TRUE /\ UNCHANGED form

TestAnswered ==
  /\ testing /\ testing' = FALSE
  /\ UNCHANGED <<storeVars, form, online, queryVars, said, late>>

(* Another tab saves its form, which this one does not hear of ... *)
OtherTabSaves ==
  /\ saves < MaxSaves /\ saves' = saves + 1
  /\ stored' \in {s \in Settings : s.apiBase # "/"}
  /\ UNCHANGED <<current, pageVars, online, queryVars, said, late>>

(* ... until it is loaded again. *)
Reload ==
  /\ current' = Loaded.settings /\ fetch' = Loaded.fetch
  /\ form' = Nothing /\ testing' = FALSE
  /\ data' = FALSE /\ error' = FALSE
  /\ said' = Nobody /\ late' = 0
  /\ UNCHANGED <<stored, saves, online>>
-----------------------------------------------------------------------------
Next ==
  \/ Poll \/ NetworkTurns \/ Settle(TRUE) \/ Settle(FALSE)
  \/ OpenSettings \/ CloseSettings \/ Edit \/ OnSave \/ OnTest \/ TestAnswered
  \/ OtherTabSaves \/ Reload

Spec == Init /\ [][Next]_vars
-----------------------------------------------------------------------------
(* Properties.                                                             *)

(* ConnectionStatus.  The Faulty one is the code with a plausible mistake in  *)
(* it.                                                                     *)
FaultyDot ==
  IF ~isConfigured(current) THEN "idle"
  ELSE IF data THEN "ok"
  ELSE IF error THEN "bad"
  ELSE IF fetch \notin {"idle", "paused"} THEN "checking" ELSE "idle"

Dot ==
  IF ~isConfigured(current) THEN "idle"
  ELSE IF error THEN "bad"
  ELSE IF data THEN "ok"
  ELSE IF fetch \notin {"idle", "paused"} THEN "checking" ELSE "idle"

(* "Topbar dot reflecting reachability of the pipeline API": after a change   *)
(* of the API at most one answer of the former one comes, and once the       *)
(* present one has answered, or failed to, the dot says so, whatever was      *)
(* known of others; and it calls nothing unconfigured that is configured,    *)
(* unless it waits for a network.                                           *)
DotIsTrue ==
  /\ late <= 1
  /\ isConfigured(current) /\ said.base = current.apiBase =>
       /\ Dot = "ok"  => said.ok
       /\ Dot = "bad" => ~said.ok
  /\ isConfigured(current) /\ Dot = "idle" => fetch = "paused"
=============================================================================
