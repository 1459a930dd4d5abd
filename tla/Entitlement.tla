---------------------------- MODULE Entitlement ----------------------------
(***************************************************************************)
(* What a session store promises about a request, whatever it caches.      *)
(*                                                                         *)
(* A grant names a domain that covers the host and whose key existed no    *)
(* longer than Window ago; every more specific domain, like every domain   *)
(* behind a denial, had no key at some instant of the request or of the    *)
(* Window before it.  A lookup that fails is neither a grant nor a denial. *)
(***************************************************************************)
EXTENDS KeyHistory

CONSTANT Requests

VARIABLES
  state,    \* "idle", "pending", "granted", "denied" or "failed"
  query,    \* the user and the host a request is about
  began,    \* when it was asked
  matched   \* the index of the domain that granted it, else 0

vars == <<envVars, state, query, began, matched>>

Absent(q, i, since) == lastAbsent[KeyAt(q, i)] >= since - Window
Alive(q, i) == lastAlive[KeyAt(q, i)] >= now - Window

Init ==
  /\ EnvInit
  /\ state = [r \in Requests |-> "idle"]
  /\ query \in [Requests -> Query]
  /\ began = [r \in Requests |-> 0]
  /\ matched = [r \in Requests |-> 0]

Ask(r) ==
  /\ state[r] # "pending"
  /\ state' = [state EXCEPT ![r] = "pending"]
  /\ \E q \in Query : query' = [query EXCEPT ![r] = q]
  /\ began' = [began EXCEPT ![r] = now]
  /\ matched' = [matched EXCEPT ![r] = 0]
  /\ UNCHANGED envVars

Grant(r) ==
  /\ state[r] = "pending"
  /\ \E i \in DOMAIN Candidates(query[r]) :
       /\ Alive(query[r], i)
       /\ \A j \in 1..(i - 1) : Absent(query[r], j, began[r])
       /\ matched' = [matched EXCEPT ![r] = i]
  /\ state' = [state EXCEPT ![r] = "granted"]
  /\ UNCHANGED <<envVars, query, began>>

Deny(r) ==
  /\ state[r] = "pending"
  /\ \A j \in DOMAIN Candidates(query[r]) : Absent(query[r], j, began[r])
  /\ state' = [state EXCEPT ![r] = "denied"]
  /\ UNCHANGED <<envVars, query, began, matched>>

Fail(r) ==
  /\ state[r] = "pending"
  /\ state' = [state EXCEPT ![r] = "failed"]
  /\ UNCHANGED <<envVars, query, began, matched>>

\* A restart of the proxy forgets every request.
Restart ==
  /\ state' = [r \in Requests |-> "idle"]
  /\ matched' = [r \in Requests |-> 0]
  /\ UNCHANGED <<envVars, query, began>>

Env == (Tick \/ KeyChange) /\ UNCHANGED <<state, query, began, matched>>

Next ==
  \/ \E r \in Requests : Ask(r) \/ Grant(r) \/ Deny(r) \/ Fail(r)
  \/ Restart
  \/ Env

Spec == Init /\ [][Next]_vars
=============================================================================
