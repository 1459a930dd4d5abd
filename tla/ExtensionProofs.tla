-------------------------- MODULE ExtensionProofs --------------------------
(***************************************************************************)
(* What the Chrome extension stores and applies, for any number of         *)
(* refreshes that overlap, any inputs and any number of saves and stops.   *)
(***************************************************************************)
EXTENDS Extension, SequenceTheorems, TLAPS

-----------------------------------------------------------------------------
(* The inductive invariant.                                                *)

Stored == [host : Seq(Part) \ {NoHost}, port : ValidPort]
Call == [by : Refreshes \cup {None}, endpoint : Stored]

\* A call that a living refresh waits for is its only one.
QueueInv ==
  /\ toApply \in Seq(Call)
  /\ \A i \in 1..Len(toApply) :
       toApply[i].by \in Refreshes => pc[toApply[i].by] = "applying"
  /\ \A i, j \in 1..Len(toApply) :
       toApply[i].by \in Refreshes /\ toApply[i].by = toApply[j].by => i = j

\* parseProxySettings and the migration let nothing else be stored.
StoredInv == local.host # <<"">> /\ local.port \notin AdminPorts

\* The endpoint Chrome will use when it has executed the calls under way.
Last == IF toApply = <<>> THEN applied ELSE toApply[Len(toApply)].endpoint

\* That is the stored one, or a refresh will read it again.
ApplyInv ==
  stops = 0 => \/ pending > 0
               \/ \E s \in Refreshes : pc[s] \in {"asked", "migrating", "migrated"}
               \/ Last = Endpoint(local)

\* What an older version left is in place, or a refresh will put it there.
Migrated(cfg) ==
  /\ legacy.id # None => cfg.id = legacy.id
  /\ legacy.host # NoHost => cfg.host = legacy.host
  /\ legacy.port # NoPort => cfg.port = legacy.port

UpgradeInv ==
  saves = 0 =>
    /\ local.id \in {None, legacy.id}
    /\ local.host \in {DefaultHost, legacy.host}
    /\ local.port \in {DefaultPort, legacy.port}
    /\ \A s \in Refreshes : /\ seen[s].id \in {None, local.id}
                            /\ seen[s].host \in {DefaultHost, local.host}
                            /\ seen[s].port \in {DefaultPort, local.port}
    /\ stops = 0 => \/ pending > 0
                    \/ \E s \in Refreshes : pc[s] \in {"asked", "migrating"}
                    \/ Migrated(local)

\* With nothing to migrate, a call the options page waits for and all calls
\* after it have the stored endpoint; so has Chrome, once the page reports.
NoLegacy == legacy = [id |-> None, host |-> NoHost, port |-> NoPort]

SavedInv ==
  NoLegacy =>
    /\ local = saved
    /\ \A i, j \in 1..Len(toApply) :
         i <= j /\ toApply[i].by = "options" => toApply[j].endpoint = Endpoint(local)
    /\ "options" \in reported =>
         /\ applied = Endpoint(local)
         /\ \A i \in 1..Len(toApply) : toApply[i].endpoint = Endpoint(local)

SettingsInv ==
  TypeOK /\ QueueInv /\ StoredInv /\ ApplyInv /\ UpgradeInv /\ SavedInv

-----------------------------------------------------------------------------
(* What parseProxySettings lets through.                                   *)

LEMMA OnePart ==
  ASSUME NEW S, NEW x \in S
  PROVE  <<x>> \in Seq(S) /\ Len(<<x>>) = 1
OBVIOUS

\* The parts that remain of a host, a port at its end taken away.
LEMMA PartsLeft ==
  ASSUME NEW text, IsHostText(text)
  PROVE  HostWithoutPort(text) \in Seq(Part)
<1> DEFINE parts == text.parts
<1>1. parts \in Seq(Part) /\ Len(parts) \in Nat
  BY LenProperties DEF IsHostText
<1>2. CASE ~text.brackets /\ HasPort(text)
  <2>1. HostWithoutPort(text) = SubSeq(parts, 1, Len(parts) - 1)
    BY <1>2 DEF HostWithoutPort
  <2>2. Len(parts) > 1
    BY <1>2 DEF HasPort, Embedded
  <2>3. \A k \in 1..(Len(parts) - 1) : parts[k] \in Part
    BY <1>1, ElementOfSeq
  <2> HIDE DEF parts
  <2>4. SubSeq(parts, 1, Len(parts) - 1) \in Seq(Part)
    BY <1>1, <2>2, <2>3, SubSeqProperties
  <2> QED BY <2>1, <2>4, Zenon
<1>3. CASE ~(~text.brackets /\ HasPort(text))
  BY <1>1, <1>3 DEF HostWithoutPort
<1> QED BY <1>2, <1>3

\* A host and a port that are accepted are those of a proxy.
LEMMA ParsedStored ==
  ASSUME NEW text, IsHostText(text), NEW field \in Int,
         NEW parsed, parsed = parseProxySettings(text, field), parsed # Refused
  PROVE  /\ parsed.host = Canonical(HostWithoutPort(text))
         /\ parsed.host \in Seq(Part) \ {NoHost, <<"">>}
         /\ parsed.port \in ValidPort \ AdminPorts
<1> DEFINE host == Canonical(HostWithoutPort(text))
           port == CheckedPort(text, field)
<1>1. host \in Seq(Part)
  <2>1. "127.0.0.1" \in Part
    BY PartAssumption
  <2>2. <<"127.0.0.1">> \in Seq(Part)
    BY <2>1, OnePart
  <2> QED BY <2>2, PartsLeft DEF Canonical
<1>2. /\ host \notin {<<>>, <<"">>} /\ port \in ValidPort /\ port \notin AdminPorts
      /\ parsed = [host |-> host, port |-> port]
  <2>1. parsed = IF host \in {<<>>, <<"">>} \/ port \notin ValidPort \/ port \in AdminPorts
                 THEN Refused ELSE [host |-> host, port |-> port]
    BY Zenon DEF parseProxySettings, CheckedPort
  <2> HIDE DEF host, port
  <2> QED BY <2>1
<1>3. parsed.host = host /\ parsed.port = port
  <2>1. parsed = [host |-> host, port |-> port]
    BY <1>2, Zenon
  <2> HIDE DEF host, port
  <2> QED BY <2>1
<1> QED BY <1>1, <1>2, <1>3, Zenon DEF NoHost

\* The options page shows a host and a port it could have been given.
LEMMA ShownIsText ==
  ASSUME NEW host \in Seq(Part) \ {NoHost}, NEW port \in ValidPort,
         NEW shown, shown = Shown([host |-> host, port |-> port])
  PROVE  IsHostText(AsText(shown.host)) /\ shown.port \in Int
<1> DEFINE text == AsText(host)
           parsed == parseProxySettings(text, port)
<1>1. IsHostText(text) /\ text.parts = host /\ ~text.brackets
  BY DEF AsText, HostText, IsHostText
<1>2. \A h, p : [host |-> h, port |-> p].host = h /\ [host |-> h, port |-> p].port = p
  OBVIOUS
<1>3. shown = IF parsed # Refused THEN parsed ELSE [host |-> host, port |-> port]
  BY <1>2, Zenon DEF Shown
<1>4. \A h \in Seq(Part) : IsHostText(AsText(h))
  <2> SUFFICES ASSUME NEW h \in Seq(Part) PROVE IsHostText(AsText(h))
    OBVIOUS
  <2>1. /\ AsText(h).brackets = FALSE /\ AsText(h).parts = h
        /\ AsText(h).after = NoPart
    BY DEF AsText, HostText
  <2> QED BY <2>1 DEF IsHostText
<1>8. ValidPort \subseteq Int
  <2>1. \A n : 1..n \subseteq Int
    BY SMT
  <2> QED BY <2>1, SMT DEF ValidPort
<1>5. port \in Int
  BY <1>8, Zenon
<1>6. CASE parsed # Refused
  <2>1. /\ parsed.host = Canonical(HostWithoutPort(text))
        /\ parsed.host \in Seq(Part) /\ parsed.port \in ValidPort
    BY <1>1, <1>5, <1>6, ParsedStored
  <2>2. shown = parsed /\ parsed.port \in Int
    <3>1. shown = parsed
      BY <1>3, <1>6, Zenon
    <3>2. parsed.port \in Int
      BY <1>8, <2>1, Zenon
    <3> QED BY <3>1, <3>2
  <2> QED BY <1>4, <2>1, <2>2, Zenon
<1>7. CASE ~(parsed # Refused)
  <2>1. shown.host = host /\ shown.port = port
    BY <1>2, <1>3, <1>7, Zenon
  <2>2. host \in Seq(Part)
    OBVIOUS
  <2> QED BY <1>4, <1>5, <2>1, <2>2, Zenon
<1> QED BY <1>6, <1>7

-----------------------------------------------------------------------------
(* What the steps write.                                                   *)

\* The patch of a migration, field by field.
LEMMA MigrateFields ==
  ASSUME legacy \in Legacy, NEW was \in Config, NEW cfg \in Config, NEW new, new = Migrate(was, cfg)
  PROVE  /\ new \in Config /\ new.password = cfg.password
         /\ new.id = IF was.id = None /\ legacy.id # None THEN legacy.id ELSE cfg.id
         /\ new.host = IF was.host = DefaultHost /\ legacy.host # NoHost
                       THEN legacy.host ELSE cfg.host
         /\ new.port = IF was.port = DefaultPort /\ legacy.port # NoPort
                       THEN legacy.port ELSE cfg.port
         /\ NoLegacy => new = cfg
<1>1. /\ legacy.id \in {None, LegacyId} /\ legacy.host \in {NoHost, LegacyHost}
      /\ legacy.port \in {NoPort, LegacyPort}
      /\ LegacyHost \in Seq(Part) \ {NoHost} /\ LegacyPort \in ValidPort
  BY ExtensionAssumption DEF Legacy
<1>2. /\ new.password = cfg.password
      /\ new.id = IF was.id = None /\ legacy.id # None THEN legacy.id ELSE cfg.id
      /\ new.host = IF was.host = DefaultHost /\ legacy.host # NoHost
                    THEN legacy.host ELSE cfg.host
      /\ new.port = IF was.port = DefaultPort /\ legacy.port # NoPort
                    THEN legacy.port ELSE cfg.port
      /\ new = [id |-> new.id, password |-> new.password, host |-> new.host, port |-> new.port]
  BY DEF Migrate, Config
<1>3. new \in Config
  BY <1>1, <1>2 DEF Config
<1>4. NoLegacy => new = cfg
  BY <1>2 DEF NoLegacy, Config
<1> QED BY <1>2, <1>3, <1>4

\* What a user saves, on which page.
LEMMA UserSaves ==
  TypeOK /\ (PopupSave \/ OptionsSave) =>
    \E page \in Pages, cfg \in Config, wish \in Config :
      /\ Save(page, cfg, wish)
      /\ page = "popup" => Endpoint(cfg) = Endpoint(local)
      /\ local = saved => cfg = wish
      /\ StoredInv => cfg.host # <<"">> /\ cfg.port \notin AdminPorts
<1> SUFFICES ASSUME TypeOK, PopupSave \/ OptionsSave PROVE UserSaves!2
  OBVIOUS
<1>1. local \in Config /\ saved \in Config
  BY DEF TypeOK
<1>2. ASSUME NEW l \in Logins,
             Save("popup", [local EXCEPT !.id = l.id, !.password = l.password],
                           [saved EXCEPT !.id = l.id, !.password = l.password])
      PROVE  UserSaves!2
  <2> DEFINE cfg == [local EXCEPT !.id = l.id, !.password = l.password]
             wish == [saved EXCEPT !.id = l.id, !.password = l.password]
  <2>1. l.password \in BOOLEAN
    BY ExtensionAssumption
  <2>2. cfg \in Config /\ wish \in Config /\ cfg.host = local.host /\ cfg.port = local.port
    BY <1>1, <2>1 DEF Config
  <2>3. local = saved => cfg = wish
    OBVIOUS
  <2> HIDE DEF cfg, wish
  <2>4. Endpoint(cfg) = Endpoint(local)
    BY <2>2 DEF Endpoint
  <2>5. Save("popup", cfg, wish)
    BY <1>2 DEF cfg, wish
  <2> QED BY <2>2, <2>3, <2>4, <2>5 DEF Pages, StoredInv
<1>3. ASSUME NEW host \in Seq(Part) \ {NoHost, <<"">>}, NEW port \in ValidPort \ AdminPorts,
             Save("options", [local EXCEPT !.host = host, !.port = port],
                             [saved EXCEPT !.host = host, !.port = port])
      PROVE  UserSaves!2
  <2> DEFINE cfg == [local EXCEPT !.host = host, !.port = port]
             wish == [saved EXCEPT !.host = host, !.port = port]
  <2>1. cfg \in Config /\ wish \in Config /\ cfg.host = host /\ cfg.port = port
    BY <1>1 DEF Config
  <2>2. local = saved => cfg = wish
    OBVIOUS
  <2> HIDE DEF cfg, wish
  <2>3. Save("options", cfg, wish)
    BY <1>3 DEF cfg, wish
  <2> QED BY <1>3, <2>1, <2>2, <2>3 DEF Pages, StoredInv
<1>4. CASE PopupSave
  BY <1>2, <1>4, Zenon DEF PopupSave
<1>5. CASE OptionsSave
  <2> DEFINE shown == Shown(Endpoint(local))
             reopened == [text |-> AsText(shown.host), port |-> shown.port]
  <2>1. PICK input \in Inputs \cup {reopened} :
          /\ Parsed(input) # Refused
          /\ Save("options",
                  [local EXCEPT !.host = Parsed(input).host, !.port = Parsed(input).port],
                  [saved EXCEPT !.host = Parsed(input).host, !.port = Parsed(input).port])
    BY <1>5, Zenon DEF OptionsSave
  <2>2. IsHostText(AsText(shown.host)) /\ shown.port \in Int
    <3>1. Endpoint(local) = [host |-> local.host, port |-> local.port]
      BY DEF Endpoint
    <3>2. local.host \in Seq(Part) \ {NoHost} /\ local.port \in ValidPort
      BY <1>1 DEF Config
    <3> QED BY <3>1, <3>2, ShownIsText
  <2>3. IsHostText(input.text) /\ input.port \in Int
    <3>1. CASE input \in Inputs
      BY <3>1, InputAssumption
    <3>2. CASE input = reopened
      <4> HIDE DEF shown
      <4>1. input.text = AsText(shown.host) /\ input.port = shown.port
        BY <3>2
      <4> QED BY <2>2, <4>1, Zenon
    <3> QED BY <2>1, <3>1, <3>2
  <2> DEFINE parsed == Parsed(input)
  <2>5. parsed = parseProxySettings(input.text, input.port)
    BY DEF Parsed
  <2>6. /\ parsed # Refused
        /\ Save("options", [local EXCEPT !.host = parsed.host, !.port = parsed.port],
                           [saved EXCEPT !.host = parsed.host, !.port = parsed.port])
    BY <2>1
  <2> HIDE DEF parsed, reopened
  <2>7. /\ parsed.host = Canonical(HostWithoutPort(input.text))
        /\ parsed.host \in Seq(Part) \ {NoHost, <<"">>}
        /\ parsed.port \in ValidPort \ AdminPorts
    BY <2>3, <2>5, <2>6, ParsedStored
  <2> QED BY <1>3, <2>6, <2>7
<1> QED BY <1>4, <1>5

-----------------------------------------------------------------------------
(* The steps keep the invariant.                                           *)

\* What it says of the calls does not depend on more than this.
LEMMA CallsUntouched ==
  ASSUME SettingsInv, NEW s \in Refreshes, NEW phase, pc[s] # "applying",
         pc' = [pc EXCEPT ![s] = phase], toApply' = toApply
  PROVE  QueueInv'
<1>1. pc \in [Refreshes -> {"idle", "asked", "migrating", "migrated", "applying"}]
  BY DEF SettingsInv, TypeOK
<1>2. \A r \in Refreshes : pc[r] = "applying" => pc'[r] = "applying"
  BY <1>1
<1> QED BY <1>2 DEF SettingsInv, QueueInv

LEMMA SaveInv == SettingsInv /\ (PopupSave \/ OptionsSave) => SettingsInv'
<1> SUFFICES ASSUME SettingsInv, PopupSave \/ OptionsSave PROVE SettingsInv'
  OBVIOUS
<1>1. PICK page \in Pages, cfg \in Config, wish \in Config :
        /\ Save(page, cfg, wish)
        /\ page = "popup" => Endpoint(cfg) = Endpoint(local)
        /\ local = saved => cfg = wish
        /\ StoredInv => cfg.host # <<"">> /\ cfg.port \notin AdminPorts
  BY UserSaves DEF SettingsInv
<1>2. /\ pc[page] = "idle" /\ page \in Refreshes /\ saves < MaxSaves
      /\ local' = cfg /\ saved' = wish /\ reported' = reported \ {page}
      /\ pending' = pending + ChangeHeard(local, cfg)
      /\ pc' = [pc EXCEPT ![page] = "asked"] /\ saves' = saves + 1
      /\ UNCHANGED <<legacy, seen, toApply, applied, stops>>
  BY <1>1 DEF Save, Refreshes
<1>3. /\ saves \in 0..MaxSaves /\ MaxSaves \in Nat
      /\ pc \in [Refreshes -> {"idle", "asked", "migrating", "migrated", "applying"}]
  BY ExtensionAssumption DEF SettingsInv, TypeOK
<1>4. pc'[page] = "asked"
  BY <1>2, <1>3
<1>5. TypeOK'
  <2>1. pending' \in Nat
    BY <1>2 DEF SettingsInv, TypeOK, ChangeHeard
  <2>2. saves' \in 0..MaxSaves
    BY <1>2, <1>3
  <2> QED BY <1>1, <1>2, <2>1, <2>2 DEF SettingsInv, TypeOK
<1>6. QueueInv'
  BY <1>2, CallsUntouched
<1>7. StoredInv'
  BY <1>1, <1>2 DEF SettingsInv, StoredInv
<1>8. ApplyInv'
  BY <1>2, <1>4 DEF ApplyInv
<1>9. UpgradeInv'
  BY <1>2, <1>3 DEF UpgradeInv
<1>10. SavedInv'
  <2>1. CASE page = "popup"
    <3>1. Endpoint(local') = Endpoint(local)
      BY <1>1, <1>2, <2>1
    <3> QED BY <1>1, <1>2, <2>1, <3>1 DEF SettingsInv, SavedInv, NoLegacy
  <2>2. CASE page = "options"
    <3>1. \A i \in 1..Len(toApply) : toApply[i].by # "options"
      BY <1>2, <2>2 DEF SettingsInv, QueueInv
    <3> QED BY <1>1, <1>2, <2>2, <3>1 DEF SettingsInv, SavedInv, NoLegacy
  <2> QED BY <2>1, <2>2 DEF Pages
<1> QED BY <1>5, <1>6, <1>7, <1>8, <1>9, <1>10 DEF SettingsInv

LEMMA BeginInv == \A s \in Refreshes : SettingsInv /\ Begin(s) => SettingsInv'
<1> SUFFICES ASSUME NEW s \in Refreshes, SettingsInv, Begin(s) PROVE SettingsInv'
  OBVIOUS
<1>1. /\ pc[s] \in {"asked", "idle"} /\ pending' \in {pending, pending - 1}
      /\ pending' # pending => pending > 0
      /\ pc' = [pc EXCEPT ![s] = "migrating"] /\ seen' = [seen EXCEPT ![s] = local]
      /\ UNCHANGED <<local, legacy, toApply, applied, saved, reported, saves, stops>>
  BY DEF Begin
<1>2. /\ pc \in [Refreshes -> {"idle", "asked", "migrating", "migrated", "applying"}]
      /\ seen \in [Refreshes -> Config] /\ local \in Config /\ pending \in Nat
  BY DEF SettingsInv, TypeOK
<1>3. /\ pc'[s] = "migrating"
      /\ \A r \in Refreshes : seen'[r] = IF r = s THEN local ELSE seen[r]
  BY <1>1, <1>2
<1>4. TypeOK'
  <2>1. pending' \in Nat
    BY <1>1, <1>2
  <2>2. /\ pc' \in [Refreshes -> {"idle", "asked", "migrating", "migrated", "applying"}]
        /\ seen' \in [Refreshes -> Config]
    BY <1>1, <1>2
  <2> QED BY <1>1, <2>1, <2>2 DEF SettingsInv, TypeOK
<1>5. QueueInv'
  BY <1>1, CallsUntouched
<1>6. StoredInv' /\ SavedInv'
  BY <1>1 DEF SettingsInv, StoredInv, SavedInv, NoLegacy
<1>7. ApplyInv'
  BY <1>3 DEF ApplyInv
<1>8. UpgradeInv'
  BY <1>1, <1>3 DEF SettingsInv, UpgradeInv, Migrated
<1> QED BY <1>4, <1>5, <1>6, <1>7, <1>8 DEF SettingsInv

LEMMA WritePatchInv == \A s \in Refreshes : SettingsInv /\ WritePatch(s) => SettingsInv'
<1> SUFFICES ASSUME NEW s \in Refreshes, SettingsInv, WritePatch(s) PROVE SettingsInv'
  OBVIOUS
<1>1. /\ pc[s] = "migrating" /\ local' = Migrate(seen[s], local)
      /\ pending' = pending + ChangeHeard(local, local')
      /\ pc' = [pc EXCEPT ![s] = "migrated"]
      /\ UNCHANGED <<legacy, seen, toApply, applied, saved, reported, saves, stops>>
  BY DEF WritePatch
<1>2. /\ pc \in [Refreshes -> {"idle", "asked", "migrating", "migrated", "applying"}]
      /\ seen \in [Refreshes -> Config] /\ seen[s] \in Config /\ local \in Config
      /\ pending \in Nat /\ legacy \in Legacy
  BY DEF SettingsInv, TypeOK
<1>3. /\ local' \in Config
      /\ local'.id = IF seen[s].id = None /\ legacy.id # None THEN legacy.id ELSE local.id
      /\ local'.host = IF seen[s].host = DefaultHost /\ legacy.host # NoHost
                       THEN legacy.host ELSE local.host
      /\ local'.port = IF seen[s].port = DefaultPort /\ legacy.port # NoPort
                       THEN legacy.port ELSE local.port
      /\ NoLegacy => local' = local
  <2>1. local' = Migrate(seen[s], local)
    BY <1>1
  <2> QED BY <1>2, <2>1, MigrateFields
<1>4. pc'[s] = "migrated"
  BY <1>1, <1>2
<1>5. TypeOK'
  <2>1. pending' \in Nat
    BY <1>1, <1>2 DEF ChangeHeard
  <2>2. pc' \in [Refreshes -> {"idle", "asked", "migrating", "migrated", "applying"}]
    BY <1>1, <1>2
  <2> QED BY <1>1, <1>3, <2>1, <2>2 DEF SettingsInv, TypeOK
<1>6. QueueInv'
  BY <1>1, CallsUntouched
<1>7. StoredInv'
  <2>1. /\ legacy.host \in {NoHost, LegacyHost} /\ LegacyHost # <<"">>
        /\ legacy.port \in {NoPort, LegacyPort} /\ LegacyPort \notin AdminPorts
    BY <1>2, ExtensionAssumption DEF Legacy
  <2> QED BY <1>3, <2>1 DEF SettingsInv, StoredInv
<1>8. ApplyInv'
  BY <1>4 DEF ApplyInv
<1>9. UpgradeInv'
  <2> SUFFICES ASSUME saves = 0 PROVE UpgradeInv'
    BY <1>1 DEF UpgradeInv
  <2>1. /\ local.id \in {None, legacy.id} /\ local.host \in {DefaultHost, legacy.host}
        /\ local.port \in {DefaultPort, legacy.port}
        /\ \A r \in Refreshes : /\ seen[r].id \in {None, local.id}
                                /\ seen[r].host \in {DefaultHost, local.host}
                                /\ seen[r].port \in {DefaultPort, local.port}
    BY DEF SettingsInv, UpgradeInv
  <2>2. /\ local'.id \in {local.id, legacy.id}
        /\ local'.id # local.id => local.id = None
        /\ legacy.id # None => local'.id = legacy.id
    BY <1>3, <2>1
  <2>3. /\ local'.host \in {local.host, legacy.host}
        /\ local'.host # local.host => local.host = DefaultHost
        /\ legacy.host # NoHost => local'.host = legacy.host
    BY <1>3, <2>1
  <2>4. /\ local'.port \in {local.port, legacy.port}
        /\ local'.port # local.port => local.port = DefaultPort
        /\ legacy.port # NoPort => local'.port = legacy.port
    BY <1>3, <2>1
  <2>5. Migrated(local)'
    BY <1>1, <2>2, <2>3, <2>4 DEF Migrated
  <2>6. /\ local'.id \in {None, legacy.id} /\ local'.host \in {DefaultHost, legacy.host}
        /\ local'.port \in {DefaultPort, legacy.port}
    BY <2>1, <2>2, <2>3, <2>4
  <2>7. \A r \in Refreshes : /\ seen[r].id \in {None, local'.id}
                             /\ seen[r].host \in {DefaultHost, local'.host}
                             /\ seen[r].port \in {DefaultPort, local'.port}
    BY <2>1, <2>2, <2>3, <2>4
  <2> QED BY <1>1, <2>5, <2>6, <2>7 DEF UpgradeInv
<1>10. SavedInv'
  BY <1>1, <1>3 DEF SettingsInv, SavedInv, NoLegacy
<1> QED BY <1>5, <1>6, <1>7, <1>8, <1>9, <1>10 DEF SettingsInv

LEMMA ReadToApplyInv == \A s \in Refreshes : SettingsInv /\ ReadToApply(s) => SettingsInv'
<1> SUFFICES ASSUME NEW s \in Refreshes, SettingsInv, ReadToApply(s) PROVE SettingsInv'
  OBVIOUS
<1> DEFINE call == [by |-> s, endpoint |-> Endpoint(local)]
           n == Len(toApply)
<1>1. /\ pc[s] = "migrated" /\ toApply' = Append(toApply, call)
      /\ pc' = [pc EXCEPT ![s] = "applying"] /\ seen' = [seen EXCEPT ![s] = Defaults]
      /\ UNCHANGED <<local, legacy, pending, applied, saved, reported, saves, stops>>
  BY DEF ReadToApply, ReadAgain
<1>2. /\ pc \in [Refreshes -> {"idle", "asked", "migrating", "migrated", "applying"}]
      /\ seen \in [Refreshes -> Config] /\ local \in Config /\ toApply \in Seq(Call)
      /\ n \in Nat
  BY LenProperties DEF SettingsInv, TypeOK, QueueInv
<1>3. call \in Call /\ call.by = s /\ call.endpoint = Endpoint(local)
  BY <1>2 DEF Call, Stored, Endpoint, Config
<1>4. Defaults \in Config
  <2>1. <<"localhost">> \in Seq(Part) /\ <<"localhost">> # <<>>
    BY PartAssumption, OnePart
  <2> QED BY <2>1 DEF Defaults, Config, DefaultHost, DefaultPort, ValidPort, NoHost
<1> HIDE DEF call
<1>5. /\ toApply' \in Seq(Call) /\ Len(toApply') = n + 1 /\ toApply' # <<>>
      /\ \A i \in 1..n : toApply'[i] = toApply[i]
      /\ toApply'[n + 1] = call
  BY <1>1, <1>2, <1>3, AppendProperties
<1>6. \A i \in 1..Len(toApply') : i \in 1..n \/ i = n + 1
  BY <1>2, <1>5
<1>7. /\ pc'[s] = "applying" /\ \A r \in Refreshes : r # s => pc'[r] = pc[r]
      /\ \A r \in Refreshes : seen'[r] = IF r = s THEN Defaults ELSE seen[r]
  BY <1>1, <1>2
<1> HIDE DEF n
<1>8. TypeOK'
  <2>1. /\ pc' \in [Refreshes -> {"idle", "asked", "migrating", "migrated", "applying"}]
        /\ seen' \in [Refreshes -> Config]
    BY <1>1, <1>2, <1>4
  <2>2. \A i \in 1..Len(toApply') : toApply'[i].by \in Refreshes \cup {None}
    BY <1>3, <1>5, <1>6 DEF SettingsInv, TypeOK, n
  <2> QED BY <1>1, <2>1, <2>2 DEF SettingsInv, TypeOK
<1>9. QueueInv'
  <2>1. \A i \in 1..n : toApply[i].by # s
    BY <1>1 DEF SettingsInv, QueueInv, n
  <2>2. \A i \in 1..Len(toApply') :
          toApply'[i].by \in Refreshes => pc'[toApply'[i].by] = "applying"
    BY <1>3, <1>5, <1>6, <1>7, <2>1 DEF SettingsInv, QueueInv, n
  <2>3. \A i, j \in 1..Len(toApply') :
          toApply'[i].by \in Refreshes /\ toApply'[i].by = toApply'[j].by => i = j
    BY <1>3, <1>5, <1>6, <2>1 DEF SettingsInv, QueueInv, n
  <2> QED BY <1>5, <2>2, <2>3 DEF QueueInv
<1>10. StoredInv'
  BY <1>1 DEF SettingsInv, StoredInv
<1>11. ApplyInv'
  BY <1>1, <1>3, <1>5 DEF ApplyInv, Last, Endpoint
<1>12. UpgradeInv'
  BY <1>1, <1>7 DEF SettingsInv, UpgradeInv, Migrated, Defaults
<1>13. SavedInv'
  <2> SUFFICES ASSUME NoLegacy PROVE SavedInv'
    BY <1>1 DEF SavedInv, NoLegacy
  <2>1. Endpoint(local') = Endpoint(local) /\ local' = local /\ saved' = saved
    BY <1>1
  <2>2. \A i, j \in 1..Len(toApply') :
          i <= j /\ toApply'[i].by = "options" => toApply'[j].endpoint = Endpoint(local)
    <3> SUFFICES ASSUME NEW i \in 1..Len(toApply'), NEW j \in 1..Len(toApply'),
                        i <= j, toApply'[i].by = "options"
                 PROVE  toApply'[j].endpoint = Endpoint(local)
      OBVIOUS
    <3>1. CASE j = n + 1
      BY <1>3, <1>5, <3>1
    <3>2. CASE j \in 1..n
      <4>1. i \in 1..n
        BY <1>2, <1>6, <3>2 DEF n
      <4> QED BY <1>5, <3>2, <4>1 DEF SettingsInv, SavedInv, n
    <3> QED BY <1>6, <3>1, <3>2
  <2>3. "options" \in reported =>
          /\ applied = Endpoint(local)
          /\ \A i \in 1..Len(toApply') : toApply'[i].endpoint = Endpoint(local)
    BY <1>3, <1>5, <1>6 DEF SettingsInv, SavedInv, n
  <2> QED BY <1>1, <2>1, <2>2, <2>3 DEF SettingsInv, SavedInv
<1> QED BY <1>8, <1>9, <1>10, <1>11, <1>12, <1>13 DEF SettingsInv

LEMMA ApplyProxyInv == SettingsInv /\ ApplyProxy => SettingsInv'
<1> SUFFICES ASSUME SettingsInv, ApplyProxy PROVE SettingsInv'
  OBVIOUS
<1> DEFINE n == Len(toApply)
           s == toApply[1].by
<1>1. /\ toApply # <<>> /\ applied' = Head(toApply).endpoint /\ toApply' = Tail(toApply)
      /\ IF Head(toApply).by \in Refreshes
         THEN /\ pc' = [pc EXCEPT ![Head(toApply).by] = "idle"]
              /\ reported' = reported \cup ({Head(toApply).by} \cap Pages)
         ELSE UNCHANGED <<pc, reported>>
      /\ UNCHANGED <<local, legacy, seen, pending, saved, saves, stops>>
  BY DEF ApplyProxy
<1>2. /\ pc \in [Refreshes -> {"idle", "asked", "migrating", "migrated", "applying"}]
      /\ toApply \in Seq(Call) /\ n \in Nat /\ n # 0
  BY <1>1, LenProperties, EmptySeq DEF SettingsInv, TypeOK, QueueInv
<1>3. /\ Head(toApply) = toApply[1] /\ toApply' \in Seq(Call) /\ Len(toApply') = n - 1
      /\ \A i \in 1..Len(toApply') : toApply'[i] = toApply[i + 1]
  BY <1>1, <1>2, HeadTailProperties
<1>4. \A i \in 1..Len(toApply') : i + 1 \in 1..n /\ i + 1 # 1
  BY <1>2, <1>3
<1>5. 1 \in 1..n
  BY <1>2
<1> HIDE DEF n
<1>6. s \in Refreshes => /\ pc[s] = "applying" /\ pc' = [pc EXCEPT ![s] = "idle"]
                         /\ reported' = reported \cup ({s} \cap Pages)
  BY <1>1, <1>3, <1>5 DEF SettingsInv, QueueInv, n
<1>7. s \notin Refreshes => UNCHANGED <<pc, reported>>
  BY <1>1, <1>3
<1>8. \A i \in 1..Len(toApply') : toApply'[i].by \in Refreshes => toApply'[i].by # s
  <2> SUFFICES ASSUME NEW i \in 1..Len(toApply'), toApply'[i].by \in Refreshes,
                      toApply'[i].by = s
               PROVE  FALSE
    OBVIOUS
  <2>1. toApply[i + 1].by = toApply[1].by /\ toApply[i + 1].by \in Refreshes
    BY <1>3
  <2>2. i + 1 = 1
    BY <1>4, <1>5, <2>1 DEF SettingsInv, QueueInv, n
  <2> QED BY <1>4, <2>2
<1> HIDE DEF s
<1>9. \A r \in Refreshes : r # s => pc'[r] = pc[r]
  BY <1>2, <1>6, <1>7
<1>10. TypeOK'
  <2>1. pc' \in [Refreshes -> {"idle", "asked", "migrating", "migrated", "applying"}]
    BY <1>2, <1>6, <1>7
  <2>2. reported' \subseteq Pages
    BY <1>6, <1>7 DEF SettingsInv, TypeOK
  <2>3. \A i \in 1..Len(toApply') : toApply'[i].by \in Refreshes \cup {None}
    BY <1>3, <1>4 DEF SettingsInv, TypeOK, n
  <2> QED BY <1>1, <2>1, <2>2, <2>3 DEF SettingsInv, TypeOK
<1>11. QueueInv'
  <2>1. \A i \in 1..Len(toApply') :
          toApply'[i].by \in Refreshes => pc'[toApply'[i].by] = "applying"
    BY <1>3, <1>4, <1>8, <1>9 DEF SettingsInv, QueueInv, n
  <2>2. ASSUME NEW i \in 1..Len(toApply'), NEW j \in 1..Len(toApply'),
               toApply'[i].by \in Refreshes, toApply'[i].by = toApply'[j].by
        PROVE  i = j
    <3>1. i + 1 = j + 1
      BY <1>3, <1>4, <2>2 DEF SettingsInv, QueueInv, n
    <3> QED BY <3>1
  <2> QED BY <1>3, <2>1, <2>2 DEF QueueInv
<1>12. StoredInv'
  BY <1>1 DEF SettingsInv, StoredInv
<1>13. ApplyInv'
  <2> SUFFICES ASSUME stops = 0, pending = 0,
                      \A r \in Refreshes : pc'[r] \notin {"asked", "migrating", "migrated"}
               PROVE  Last' = Endpoint(local)
    BY <1>1 DEF ApplyInv, SettingsInv, TypeOK, Endpoint
  <2>1. \A r \in Refreshes : pc[r] \notin {"asked", "migrating", "migrated"}
    BY <1>6, <1>9
  <2>2. toApply[n].endpoint = Endpoint(local)
    BY <1>1, <2>1 DEF SettingsInv, ApplyInv, Last, n
  <2>3. CASE n = 1
    <3>1. toApply' = <<>>
      BY <1>3, <2>3, EmptySeq
    <3>2. applied' = toApply[n].endpoint
      BY <1>1, <1>3, <2>3
    <3> QED BY <2>2, <3>1, <3>2 DEF Last
  <2>4. CASE n # 1
    <3>1. Len(toApply') \in 1..Len(toApply') /\ Len(toApply') + 1 = n /\ toApply' # <<>>
      BY <1>2, <1>3, <2>4, EmptySeq DEF n
    <3>2. toApply'[Len(toApply')] = toApply[n]
      BY <1>3, <3>1
    <3> QED BY <2>2, <3>1, <3>2 DEF Last
  <2> QED BY <2>3, <2>4
<1>14. UpgradeInv'
  <2>1. \A r \in Refreshes : pc[r] \in {"asked", "migrating"} => pc'[r] = pc[r]
    BY <1>6, <1>9
  <2> QED BY <1>1, <2>1 DEF SettingsInv, UpgradeInv, Migrated
<1>15. SavedInv'
  <2> SUFFICES ASSUME NoLegacy PROVE SavedInv'
    BY <1>1 DEF SavedInv, NoLegacy
  <2>1. /\ local = saved /\ local' = local /\ saved' = saved
        /\ Endpoint(local') = Endpoint(local)
    BY <1>1 DEF SettingsInv, SavedInv
  <2>2. \A i, j \in 1..Len(toApply') :
          i <= j /\ toApply'[i].by = "options" => toApply'[j].endpoint = Endpoint(local)
    <3> SUFFICES ASSUME NEW i \in 1..Len(toApply'), NEW j \in 1..Len(toApply'),
                        i <= j, toApply'[i].by = "options"
                 PROVE  toApply'[j].endpoint = Endpoint(local)
      OBVIOUS
    <3>1. /\ i + 1 \in 1..n /\ j + 1 \in 1..n /\ i + 1 <= j + 1
          /\ toApply[i + 1].by = "options" /\ toApply'[j] = toApply[j + 1]
      BY <1>3, <1>4
    <3> QED BY <3>1 DEF SettingsInv, SavedInv, n
  <2>3. ASSUME "options" \in reported'
        PROVE  /\ applied' = Endpoint(local)
               /\ \A i \in 1..Len(toApply') : toApply'[i].endpoint = Endpoint(local)
    <3>1. \A i \in 1..n : toApply[i].endpoint = Endpoint(local)
      <4>1. CASE "options" \in reported
        BY <4>1 DEF SettingsInv, SavedInv, n
      <4>2. CASE s = "options"
        <5>1. toApply[1].by = "options" /\ \A i \in 1..n : 1 <= i
          BY <1>2, <4>2 DEF s
        <5> QED BY <1>5, <5>1 DEF SettingsInv, SavedInv, n
      <4> QED BY <1>6, <1>7, <2>3, <4>1, <4>2
    <3> QED BY <1>1, <1>3, <1>4, <1>5, <3>1
  <2> QED BY <2>1, <2>2, <2>3 DEF SavedInv
<1> QED BY <1>10, <1>11, <1>12, <1>13, <1>14, <1>15 DEF SettingsInv

LEMMA KeepAliveInv == SettingsInv /\ KeepAlive => SettingsInv'
<1> SUFFICES ASSUME SettingsInv, KeepAlive PROVE SettingsInv'
  OBVIOUS
<1>1. /\ pending' = 1
      /\ UNCHANGED <<local, legacy, pc, seen, toApply, applied, saved, reported, saves, stops>>
  BY DEF KeepAlive, AlarmHeard
<1>2. TypeOK'
  BY <1>1 DEF SettingsInv, TypeOK
<1>3. QueueInv' /\ StoredInv' /\ SavedInv'
  BY <1>1 DEF SettingsInv, QueueInv, StoredInv, SavedInv, NoLegacy
<1>4. ApplyInv'
  BY <1>1 DEF ApplyInv
<1>5. UpgradeInv'
  BY <1>1 DEF SettingsInv, UpgradeInv, Migrated
<1> QED BY <1>2, <1>3, <1>4, <1>5 DEF SettingsInv

\* What ApplyInv and UpgradeInv promise, they promise of a worker that went on.
LEMMA WorkerStopsInv == SettingsInv /\ WorkerStops => SettingsInv'
<1> SUFFICES ASSUME SettingsInv, WorkerStops PROVE SettingsInv'
  OBVIOUS
<1>1. /\ stops < MaxStops /\ stops' = stops + 1 /\ pending' = 0
      /\ pc' = [s \in Refreshes |-> "idle"] /\ seen' = [s \in Refreshes |-> Defaults]
      /\ toApply' = [i \in 1..Len(toApply) |-> [toApply[i] EXCEPT !.by = None]]
      /\ UNCHANGED <<local, legacy, applied, saved, reported, saves>>
  BY DEF WorkerStops
<1>2. toApply \in Seq(Call) /\ Len(toApply) \in Nat /\ stops \in 0..MaxStops /\ MaxStops \in Nat
  BY LenProperties, ExtensionAssumption DEF SettingsInv, TypeOK, QueueInv
<1>3. stops' # 0 /\ stops' \in 0..MaxStops
  BY <1>1, <1>2
<1>4. \A i \in 1..Len(toApply) :
        LET call == [toApply[i] EXCEPT !.by = None]
        IN  call \in Call /\ call.by = None /\ call.endpoint = toApply[i].endpoint
  <2> SUFFICES ASSUME NEW i \in 1..Len(toApply)
               PROVE  LET call == [toApply[i] EXCEPT !.by = None]
                      IN  call \in Call /\ call.by = None /\ call.endpoint = toApply[i].endpoint
    OBVIOUS
  <2>1. toApply[i] \in Call
    BY <1>2, ElementOfSeq
  <2> QED BY <2>1 DEF Call
<1>5. /\ toApply' \in Seq(Call) /\ Len(toApply') = Len(toApply)
      /\ \A i \in 1..Len(toApply') : /\ toApply'[i].by = None
                                     /\ toApply'[i].endpoint = toApply[i].endpoint
  <2> DEFINE F(i) == [toApply[i] EXCEPT !.by = None]
  <2>1. \A i \in 1..Len(toApply) :
          F(i) \in Call /\ F(i).by = None /\ F(i).endpoint = toApply[i].endpoint
    BY <1>4
  <2>2. toApply' = [i \in 1..Len(toApply) |-> F(i)]
    BY <1>1
  <2> HIDE DEF F
  <2>3. toApply' \in Seq(Call) /\ Len(toApply') = Len(toApply)
    BY <1>2, <2>1, <2>2
  <2>4. \A i \in 1..Len(toApply) : toApply'[i] = F(i)
    BY <2>2
  <2> QED BY <2>1, <2>3, <2>4
<1>6. None \notin Refreshes
  BY ExtensionAssumption DEF Refreshes, Pages, None
<1>7. Defaults \in Config
  <2>1. <<"localhost">> \in Seq(Part) /\ <<"localhost">> # <<>>
    BY PartAssumption, OnePart
  <2> QED BY <2>1 DEF Defaults, Config, DefaultHost, DefaultPort, ValidPort, NoHost
<1>8. TypeOK'
  <2>1. seen' \in [Refreshes -> Config]
    BY <1>1, <1>7
  <2> QED BY <1>1, <1>3, <1>5, <2>1 DEF SettingsInv, TypeOK
<1>9. QueueInv'
  BY <1>5, <1>6 DEF QueueInv
<1>10. StoredInv'
  BY <1>1 DEF SettingsInv, StoredInv
<1>11. ApplyInv'
  BY <1>3 DEF ApplyInv
<1>12. UpgradeInv'
  <2>1. \A s \in Refreshes : seen'[s] = Defaults
    BY <1>1
  <2> QED BY <1>1, <1>3, <2>1 DEF SettingsInv, UpgradeInv, Defaults
<1>13. SavedInv'
  <2>1. \A i \in 1..Len(toApply') : toApply'[i].by # "options"
    BY <1>5 DEF None
  <2> QED BY <1>1, <1>5, <2>1 DEF SettingsInv, SavedInv, NoLegacy
<1> QED BY <1>8, <1>9, <1>10, <1>11, <1>12, <1>13 DEF SettingsInv

LEMMA InitInv == Init => SettingsInv
<1> SUFFICES ASSUME Init PROVE SettingsInv
  OBVIOUS
<1>1. Defaults \in Config
  <2>1. <<"localhost">> \in Seq(Part) /\ <<"localhost">> # <<>>
    BY PartAssumption, OnePart
  <2> QED BY <2>1 DEF Defaults, Config, DefaultHost, DefaultPort, ValidPort, NoHost
<1>2. /\ local = Defaults /\ saved = Defaults /\ toApply = <<>> /\ reported = {}
      /\ pending > 0 /\ pending \in Nat
      /\ \A s \in Refreshes : seen[s] = Defaults
  BY DEF Init
<1>3. \A C : <<>> \in Seq(C) /\ Len(<<>>) = 0
  OBVIOUS
<1>4. TypeOK
  <2>1. 0 \in 0..MaxSaves /\ 0 \in 0..MaxStops
    <3>1. MaxSaves \in Nat /\ MaxStops \in Nat
      BY ExtensionAssumption
    <3> QED BY <3>1
  <2>2. seen \in [Refreshes -> Config]
    BY <1>1 DEF Init
  <2> QED BY <1>1, <1>2, <2>1, <2>2 DEF Init, TypeOK
<1>5. QueueInv
  BY <1>2, <1>3 DEF QueueInv
<1>6. StoredInv
  BY <1>2 DEF StoredInv, Defaults, DefaultHost, DefaultPort, AdminPorts
<1>7. ApplyInv /\ UpgradeInv
  BY <1>2 DEF ApplyInv, UpgradeInv, Defaults
<1>8. SavedInv
  BY <1>2, <1>3 DEF SavedInv
<1> QED BY <1>4, <1>5, <1>6, <1>7, <1>8 DEF SettingsInv

LEMMA StepInv == SettingsInv /\ [Next]_vars => SettingsInv'
<1>1. SettingsInv /\ (PopupSave \/ OptionsSave) => SettingsInv'
  BY SaveInv
<1>2. ASSUME NEW s \in Refreshes PROVE SettingsInv /\ Refresh(s) => SettingsInv'
  BY BeginInv, WritePatchInv, ReadToApplyInv DEF Refresh
<1>3. SettingsInv /\ UNCHANGED vars => SettingsInv'
  <2> SUFFICES ASSUME SettingsInv, UNCHANGED vars PROVE SettingsInv'
    OBVIOUS
  <2>1. TypeOK' /\ QueueInv'
    BY DEF vars, SettingsInv, TypeOK, QueueInv
  <2>2. StoredInv' /\ ApplyInv'
    BY DEF vars, SettingsInv, StoredInv, ApplyInv, Last, Endpoint
  <2>3. UpgradeInv'
    BY DEF vars, SettingsInv, UpgradeInv, Migrated
  <2>4. SavedInv'
    BY DEF vars, SettingsInv, SavedInv, NoLegacy, Endpoint
  <2> QED BY <2>1, <2>2, <2>3, <2>4 DEF SettingsInv
<1> QED BY <1>1, <1>2, <1>3, ApplyProxyInv, KeepAliveInv, WorkerStopsInv DEF Next

-----------------------------------------------------------------------------
(* The theorems.                                                           *)

(***************************************************************************)
(* The invariant of the extension: what is stored, what is handed to       *)
(* chrome.proxy and what Chrome uses agree, or a refresh is still to come, *)
(* however pages and refreshes of the worker overlap.                      *)
(***************************************************************************)
THEOREM SettingsInvariant == Spec => []SettingsInv
BY InitInv, StepInv, PTL DEF Spec

(***************************************************************************)
(* Types of the extension's state, kept by saves, migrations and refreshes.*)
(***************************************************************************)
THEOREM SettingsTypes == Spec => []TypeOK
<1>1. SettingsInv => TypeOK
  BY DEF SettingsInv
<1> QED BY <1>1, SettingsInvariant, PTL

(***************************************************************************)
(* However many refreshes overlap, once all have ended Chrome uses the     *)
(* stored endpoint, unless the worker was stopped (refresh, onChanged).    *)
(***************************************************************************)
THEOREM AppliedWhenQuiet == Spec => []QuietMeansApplied
<1>1. SettingsInv => QuietMeansApplied
  BY DEF SettingsInv, ApplyInv, Last, QuietMeansApplied, Quiet
<1> QED BY <1>1, SettingsInvariant, PTL

(***************************************************************************)
(* What an older version stored is carried over and applied for a user who *)
(* saves nothing (migrateLegacyStorage).                                   *)
(***************************************************************************)
THEOREM UpgradeKept == Spec => []UpgradeKeepsSettings
<1>1. SettingsInv => UpgradeKeepsSettings
  <2> SUFFICES ASSUME SettingsInv, Quiet, stops = 0, saves = 0
               PROVE  /\ legacy.id # None => local.id = legacy.id
                      /\ legacy.host # NoHost => applied.host = legacy.host
                      /\ legacy.port # NoPort => applied.port = legacy.port
    BY DEF UpgradeKeepsSettings
  <2>1. applied.host = local.host /\ applied.port = local.port
    BY DEF SettingsInv, ApplyInv, Last, Quiet, Endpoint
  <2>2. Migrated(local)
    BY DEF SettingsInv, UpgradeInv, Quiet
  <2> QED BY <2>1, <2>2 DEF Migrated
<1> QED BY <1>1, SettingsInvariant, PTL

(***************************************************************************)
(* Where no older version left anything, what a page reports as saved      *)
(* stays stored, and applied, until the next save (applyProxySettings).    *)
(***************************************************************************)
THEOREM SavedKept == Spec => []SavedStaysWithoutLegacy
<1>1. SettingsInv => SavedStaysWithoutLegacy
  BY DEF SettingsInv, SavedInv, NoLegacy, SavedStaysWithoutLegacy, SavedStays
<1> QED BY <1>1, SettingsInvariant, PTL

(***************************************************************************)
(* No port of the admin API gets stored, wherever in the two fields a user *)
(* writes it (parseProxySettings).  The migration copies the port of an    *)
(* older version unchecked: ExtensionAssumption says it was another one.   *)
(***************************************************************************)
THEOREM NoAdminPort == Spec => []AdminPortNotStored
<1>1. SettingsInv => AdminPortNotStored
  BY DEF SettingsInv, StoredInv, AdminPortNotStored
<1> QED BY <1>1, SettingsInvariant, PTL
=============================================================================
