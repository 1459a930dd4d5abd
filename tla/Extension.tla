----------------------------- MODULE Extension -----------------------------
(***************************************************************************)
(* The Chrome extension: the popup and the options page save settings in   *)
(* storage.local, and the service worker (chrome-extension/background.js)  *)
(* migrates the settings of older versions and hands the endpoint to       *)
(* chrome.proxy, in refreshes that overlap at their awaits.                *)
(*                                                                         *)
(* A refresh runs for a page that waits for it, or for an event: a start   *)
(* of the worker, the keepAlive alarm, or a change of storage.local.       *)
(* Chrome executes the calls to chrome.proxy in the order they were made.  *)
(***************************************************************************)
EXTENDS ProxySettings

CONSTANTS
  Inputs,            \* what a user may enter in the host and the port field
  Logins,            \* and in the popup: the id, and whether there is a password
  LegacyHost, LegacyPort, LegacyId,    \* left behind by an older version
  EventRefreshes,    \* slots for refreshes of events that overlap
  MaxSaves,          \* bound: saves of the user
  MaxStops           \* bound: how often Chrome stops the worker

None == "none"       \* '': no value
NoHost == <<>>
NoPort == 0
DefaultHost == <<"localhost">>
DefaultPort == 8080

\* What the user can save: what parseProxySettings accepts of the inputs.
Parsed(input) == parseProxySettings(input.text, input.port)

Pages == {"popup", "options"}
Refreshes == Pages \cup EventRefreshes

ASSUME ExtensionAssumption ==
  /\ LegacyHost \in Seq(Part) \ {DefaultHost, NoHost, <<"">>}
  /\ LegacyPort \in ValidPort \ (AdminPorts \cup {DefaultPort})
  /\ LegacyId # None /\ \A l \in Logins : l.password \in BOOLEAN
  /\ EventRefreshes \cap (Pages \cup {None}) = {}
  /\ MaxSaves \in Nat /\ MaxStops \in Nat

ASSUME InputAssumption ==
  \A input \in Inputs : IsHostText(input.text) /\ input.port \in Int

VARIABLES
  local,    \* storage.local with the defaults of getConfig
  legacy,   \* what older versions left in storage.sync and storage.local
  pc,       \* each refresh: "idle", "asked", "migrating", "migrated", "applying"
  seen,     \* the configuration it read for the migration
  pending,  \* events whose refresh has not begun
  toApply,  \* calls of chrome.proxy.settings.set under way
  applied,  \* the endpoint Chrome uses
  saved,    \* history: what the user saved last
  reported, \* history: the pages that show "Saved" or "Cleared" for it
  saves, stops

vars == <<local, legacy, pc, seen, pending, toApply, applied, saved, reported,
          saves, stops>>

Config == [id : {l.id : l \in Logins} \cup {None, LegacyId},
           password : BOOLEAN,              \* whether one is stored
           host : Seq(Part) \ {NoHost},
           port : ValidPort]

Defaults == [id |-> None, password |-> FALSE, host |-> DefaultHost, port |-> DefaultPort]

Legacy == [id : {None, LegacyId}, host : {NoHost, LegacyHost}, port : {NoPort, LegacyPort}]

Endpoint(cfg) == [host |-> cfg.host, port |-> cfg.port]

\* handleProxyAuth supplies credentials only when both parts are stored.
Supplied(cfg) == IF cfg.id # None /\ cfg.password THEN cfg.id ELSE None

-----------------------------------------------------------------------------
(* Pieces of the code; the forms before them are faults for mutants.       *)

\* migrateLegacyStorage that forgets the port, one that does not look whether
\* there is a legacy host, and one that writes back all it has read.
MigrateForgetsPort(was, cfg) ==
  [cfg EXCEPT !.id = IF was.id = None /\ legacy.id # None THEN legacy.id ELSE @,
              !.host = IF was.host = DefaultHost /\ legacy.host # NoHost
                       THEN legacy.host ELSE @]
MigrateUnchecked(was, cfg) ==
  [cfg EXCEPT !.host = IF was.host = DefaultHost THEN legacy.host ELSE @]
MigrateWritesAll(was, cfg) == was

\* The patch of migrateLegacyStorage over the stored configuration cfg, from
\* the configuration was that the refresh saw.
Migrate(was, cfg) ==
  [cfg EXCEPT !.id = IF was.id = None /\ legacy.id # None THEN legacy.id ELSE @,
              !.host = IF was.host = DefaultHost /\ legacy.host # NoHost
                       THEN legacy.host ELSE @,
              !.port = IF was.port = DefaultPort /\ legacy.port # NoPort
                       THEN legacy.port ELSE @]

\* applyProxySettings reads the configuration again.
ReadOnce(s) == seen[s]
ReadAgain(s) == local

\* onChanged asks for a refresh if a value is another one.
ChangeHeard(old, new) == IF old # new THEN 1 ELSE 0

\* What the alarm asks for.
AlarmUnheard == 0
AlarmHeard == 1

-----------------------------------------------------------------------------
Init ==
  /\ local = Defaults
  /\ legacy \in Legacy
  /\ pc = [s \in Refreshes |-> "idle"]
  /\ seen = [s \in Refreshes |-> Defaults]
  /\ pending \in 1..2                       \* the worker starts; onInstalled
  /\ toApply = <<>>
  /\ applied = [host |-> NoHost, port |-> NoPort]
  /\ saved = Defaults /\ reported = {}
  /\ saves = 0 /\ stops = 0

\* storage.local.set on a page, which then asks the worker for a refresh.
Save(page, cfg, wish) ==
  /\ pc[page] = "idle" /\ saves < MaxSaves
  /\ local' = cfg /\ saved' = wish
  /\ reported' = reported \ {page}
  /\ pending' = pending + ChangeHeard(local, cfg)
  /\ pc' = [pc EXCEPT ![page] = "asked"]
  /\ saves' = saves + 1
  /\ UNCHANGED <<legacy, seen, toApply, applied, stops>>

\* The popup saves credentials, an empty id to clear them.
PopupSave ==
  \E l \in Logins :
    LET Set(cfg) == [cfg EXCEPT !.id = l.id, !.password = l.password]
    IN  Save("popup", Set(local), Set(saved))

\* The options page saves an endpoint that parseProxySettings accepts: one the
\* user enters, or the one it showed when it was opened.
OptionsSave ==
  \E input \in Inputs \cup
       {[text |-> AsText(Shown(Endpoint(local)).host), port |-> Shown(Endpoint(local)).port]} :
    LET Set(cfg) == [cfg EXCEPT !.host = Parsed(input).host, !.port = Parsed(input).port]
    IN  Parsed(input) # Refused /\ Save("options", Set(local), Set(saved))

\* refresh() begins: migrateLegacyStorage reads the configuration.
Begin(s) ==
  /\ \/ pc[s] = "asked" /\ UNCHANGED pending
     \/ s \in EventRefreshes /\ pc[s] = "idle" /\ pending > 0 /\ pending' = pending - 1
  /\ pc' = [pc EXCEPT ![s] = "migrating"]
  /\ seen' = [seen EXCEPT ![s] = local]
  /\ UNCHANGED <<local, legacy, toApply, applied, saved, reported, saves, stops>>

\* It has read what older versions left, and writes the patch.
WritePatch(s) ==
  /\ pc[s] = "migrating"
  /\ local' = Migrate(seen[s], local)
  /\ pending' = pending + ChangeHeard(local, local')
  /\ pc' = [pc EXCEPT ![s] = "migrated"]
  /\ UNCHANGED <<legacy, seen, toApply, applied, saved, reported, saves, stops>>

\* applyProxySettings reads, and calls chrome.proxy in the same task.
ReadToApply(s) ==
  /\ pc[s] = "migrated"
  /\ toApply' = Append(toApply, [by |-> s, endpoint |-> Endpoint(ReadAgain(s))])
  /\ pc' = [pc EXCEPT ![s] = "applying"] /\ seen' = [seen EXCEPT ![s] = Defaults]
  /\ UNCHANGED <<local, legacy, pending, applied, saved, reported, saves, stops>>

\* Chrome takes the endpoint over; the refresh ends, and its page reports.
ApplyProxy ==
  /\ toApply # <<>>
  /\ applied' = Head(toApply).endpoint
  /\ toApply' = Tail(toApply)
  /\ LET s == Head(toApply).by
     IN  IF s \in Refreshes    \* else the worker that called has stopped
         THEN /\ pc' = [pc EXCEPT ![s] = "idle"]
              /\ reported' = reported \cup ({s} \cap Pages)
         ELSE UNCHANGED <<pc, reported>>
  /\ UNCHANGED <<local, legacy, seen, pending, saved, saves, stops>>

\* The alarm of registerKeepAlive.
KeepAlive ==
  /\ pending = 0
  /\ pending' = AlarmHeard
  /\ UNCHANGED <<local, legacy, pc, seen, toApply, applied, saved, reported, saves, stops>>

\* Chrome stops the worker: its refreshes are gone, a page that waits is told
\* so, and what was handed to chrome.proxy is still executed.
WorkerStops ==
  /\ stops < MaxStops
  /\ stops' = stops + 1
  /\ pc' = [s \in Refreshes |-> "idle"] /\ seen' = [s \in Refreshes |-> Defaults]
  /\ pending' = 0
  /\ toApply' = [i \in 1..Len(toApply) |-> [toApply[i] EXCEPT !.by = None]]
  /\ UNCHANGED <<local, legacy, applied, saved, reported, saves>>

Refresh(s) == Begin(s) \/ WritePatch(s) \/ ReadToApply(s)

Next ==
  \/ PopupSave \/ OptionsSave
  \/ \E s \in Refreshes : Refresh(s)
  \/ ApplyProxy \/ KeepAlive \/ WorkerStops

\* The worker goes on with what it awaits, and the alarm comes every minute.
Fairness ==
  /\ \A s \in Refreshes : WF_vars(Refresh(s))
  /\ WF_vars(ApplyProxy) /\ WF_vars(KeepAlive)

Spec == Init /\ [][Next]_vars /\ Fairness
-----------------------------------------------------------------------------
TypeOK ==
  /\ local \in Config /\ saved \in Config /\ legacy \in Legacy
  /\ pc \in [Refreshes -> {"idle", "asked", "migrating", "migrated", "applying"}]
  /\ seen \in [Refreshes -> Config]
  /\ pending \in Nat
  /\ \A i \in 1..Len(toApply) : toApply[i].by \in Refreshes \cup {None}
  /\ reported \subseteq Pages
  /\ saves \in 0..MaxSaves /\ stops \in 0..MaxStops

Quiet == pending = 0 /\ (\A s \in Refreshes : pc[s] = "idle") /\ toApply = <<>>

(***************************************************************************)
(* When every refresh has ended, Chrome uses the stored endpoint, however  *)
(* saves, migrations and refreshes overlapped (refresh, the onChanged      *)
(* listener of background.js), unless the worker was stopped.              *)
(***************************************************************************)
QuietMeansApplied == (Quiet /\ stops = 0) => applied = Endpoint(local)

(***************************************************************************)
(* The user who has saved nothing keeps what an older version had stored:  *)
(* migrateLegacyStorage has carried all of it over, and it is applied.     *)
(***************************************************************************)
UpgradeKeepsSettings ==
  (Quiet /\ stops = 0 /\ saves = 0) =>
    /\ legacy.id # None => local.id = legacy.id
    /\ legacy.host # NoHost => applied.host = legacy.host
    /\ legacy.port # NoPort => applied.port = legacy.port

(***************************************************************************)
(* What a page has reported as saved stays so until the next save: the     *)
(* popup's "Saved. Proxy credentials applied." or "Cleared.", the options  *)
(* page's "Saved. Proxy ...".                                              *)
(***************************************************************************)
SavedStays ==
  /\ "options" \in reported =>
       Endpoint(local) = Endpoint(saved) /\ applied = Endpoint(saved)
  /\ "popup" \in reported => Supplied(local) = Supplied(saved)

(***************************************************************************)
(* Where no older version left anything, no refresh, however late, undoes  *)
(* what a page reported (applyProxySettings reads again before it acts).   *)
(***************************************************************************)
SavedStaysWithoutLegacy ==
  legacy = [id |-> None, host |-> NoHost, port |-> NoPort] => SavedStays

(***************************************************************************)
(* The port of the admin API is never stored, wherever the user wrote it   *)
(* (rules.js: "is the read-only admin API").                               *)
(***************************************************************************)
AdminPortNotStored == local.port \notin AdminPorts

(***************************************************************************)
(* Chrome ends up with the stored endpoint even if it stops the worker in  *)
(* the middle of a refresh (the keepAlive alarm).                          *)
(***************************************************************************)
Converges == <>[](applied = Endpoint(local))
=============================================================================
