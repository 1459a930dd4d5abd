----------------------------- MODULE KeyHistory -----------------------------
(***************************************************************************)
(* The session keys of Valkey and the clock, outside the proxies.  Tools   *)
(* that seed sessions, key expiry and operators change the keys at any     *)
(* time; the proxies only ask whether a key exists.                        *)
(*                                                                         *)
(* lastAlive and lastAbsent are history: the last instant each key existed *)
(* and the last instant it did not.  The promises about caching are stated *)
(* with them.                                                              *)
(***************************************************************************)
EXTENDS DomainMatch

CONSTANTS
  Users,    \* user session ids
  Hosts,    \* the hosts that are asked for
  Window,   \* how old the news behind a decision may be
  MaxTime   \* bound: the clock stops there

ASSUME KeyAssumption ==
  /\ Hosts \subseteq HostText
  /\ Window \in Nat
  /\ MaxTime \in Nat

Query == Users \X Hosts

Candidates(q) == hostSuffixCandidates(q[2])

\* sessions:{user}:{domain}; a user id of Basic credentials holds no colon, so
\* two pairs never share a key.
domainKey(user, domain) == <<user, domain>>

KeyAt(q, i) == domainKey(q[1], Candidates(q)[i])

Key == UNION {{KeyAt(q, i) : i \in DOMAIN Candidates(q)} : q \in Query}

\* Long ago: before anything a decision may still rest on.
Never == -(Window + 1)

VARIABLES now, alive, lastAlive, lastAbsent

envVars == <<now, alive, lastAlive, lastAbsent>>

EnvInit ==
  /\ now = 0
  /\ alive \in [Key -> BOOLEAN]
  /\ lastAlive = [k \in Key |-> IF alive[k] THEN now ELSE Never]
  /\ lastAbsent = [k \in Key |-> IF alive[k] THEN Never ELSE now]

Tick ==
  /\ now < MaxTime
  /\ now' = now + 1
  /\ lastAlive' = [k \in Key |-> IF alive[k] THEN now' ELSE lastAlive[k]]
  /\ lastAbsent' = [k \in Key |-> IF alive[k] THEN lastAbsent[k] ELSE now']
  /\ UNCHANGED alive

\* SET by a seeding tool.
Seed(k) ==
  /\ ~alive[k]
  /\ alive' = [alive EXCEPT ![k] = TRUE]
  /\ lastAlive' = [lastAlive EXCEPT ![k] = now]
  /\ UNCHANGED <<now, lastAbsent>>

\* DEL, or the key's own expiry.
Revoke(k) ==
  /\ alive[k]
  /\ alive' = [alive EXCEPT ![k] = FALSE]
  /\ lastAbsent' = [lastAbsent EXCEPT ![k] = now]
  /\ UNCHANGED <<now, lastAlive>>

KeyChange == \E k \in Key : Seed(k) \/ Revoke(k)

EnvTypeOK ==
  /\ now \in 0..MaxTime
  /\ alive \in [Key -> BOOLEAN]
  /\ lastAlive \in [Key -> Never..MaxTime]
  /\ lastAbsent \in [Key -> Never..MaxTime]

\* The history is that of alive.
HistoryOK ==
  \A k \in Key :
    /\ lastAlive[k] <= now /\ lastAbsent[k] <= now
    /\ alive[k] => lastAlive[k] = now
    /\ ~alive[k] => lastAbsent[k] = now
=============================================================================
