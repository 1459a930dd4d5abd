--------------------------- MODULE ConnectService ---------------------------
(***************************************************************************)
(* What both proxies promise about a CONNECT request, however their event  *)
(* handlers or goroutines interleave:                                      *)
(*   - nothing is dialed unless the gate let the request pass;             *)
(*   - one status is written, and 200 only once the connection is up;      *)
(*   - nothing is tunnelled before the 200, or after a refusal;            *)
(*   - each side receives the bytes the other sent, in order, none twice.  *)
(* The bytes of a side are numbered from 1 in the order it sends them.     *)
(***************************************************************************)
EXTENDS Integers, Sequences

CONSTANT Statuses    \* the refusals

VARIABLES
  gate,         \* "undecided", "pass" or "refuse"
  dialed,       \* a connection to the upstream was asked for
  up,           \* it came up
  resp,         \* the status written, 0 before
  sentUp,       \* how many bytes the client has sent
  toUpstream,   \* the bytes written to the upstream
  sentDown,     \* how many bytes the upstream has sent
  toClient      \* the bytes written to the client after the status

vars == <<gate, dialed, up, resp, sentUp, toUpstream, sentDown, toClient>>

FirstBytes(n) == [i \in 1..n |-> i]

Init ==
  /\ gate = "undecided"
  /\ dialed = FALSE /\ up = FALSE
  /\ resp = 0
  /\ sentUp \in Nat
  /\ sentDown = 0
  /\ toUpstream = <<>> /\ toClient = <<>>

\* The gate decides; an upstream may be dialed or a refusal written at once.
Decide ==
  /\ gate = "undecided"
  /\ gate' \in {"pass", "refuse"}
  /\ dialed' \in {FALSE, gate' = "pass"}
  /\ resp' \in {0} \cup Statuses
  /\ UNCHANGED <<up, sentUp, toUpstream, sentDown, toClient>>

Dial ==
  /\ gate = "pass" /\ ~dialed /\ resp = 0
  /\ dialed' = TRUE
  /\ up' \in BOOLEAN
  /\ UNCHANGED <<gate, resp, sentUp, toUpstream, sentDown, toClient>>

Refuse ==
  /\ gate # "undecided" /\ resp = 0
  /\ resp' \in Statuses
  /\ UNCHANGED <<gate, dialed, up, sentUp, toUpstream, sentDown, toClient>>

\* The connection is up: 200, and whatever the client had sent along with its request.
Establish ==
  /\ gate = "pass" /\ dialed /\ resp = 0
  /\ up' = TRUE
  /\ resp' = 200
  /\ \E n \in 0..sentUp : toUpstream' = FirstBytes(n)
  /\ UNCHANGED <<gate, dialed, sentUp, sentDown, toClient>>

Up ==
  /\ resp = 200
  /\ \E n \in Len(toUpstream)..sentUp : toUpstream' = FirstBytes(n)
  /\ UNCHANGED <<gate, dialed, up, resp, sentUp, sentDown, toClient>>

Down ==
  /\ resp = 200
  /\ \E n \in Len(toClient)..sentDown : toClient' = FirstBytes(n)
  /\ UNCHANGED <<gate, dialed, up, resp, sentUp, toUpstream, sentDown>>

ClientSends ==
  /\ sentUp' = sentUp + 1
  /\ UNCHANGED <<gate, dialed, up, resp, toUpstream, sentDown, toClient>>

UpstreamSends ==
  /\ up
  /\ sentDown' = sentDown + 1
  /\ UNCHANGED <<gate, dialed, up, resp, sentUp, toUpstream, toClient>>

Next ==
  \/ Decide \/ Dial \/ Refuse \/ Establish \/ Up \/ Down
  \/ ClientSends \/ UpstreamSends

Spec == Init /\ [][Next]_vars
=============================================================================
