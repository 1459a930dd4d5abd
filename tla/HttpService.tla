---------------------------- MODULE HttpService ----------------------------
(***************************************************************************)
(* What both proxies promise about a plain HTTP request:                   *)
(*   - nothing is fetched unless the gate let the request pass;            *)
(*   - one status is written, the upstream's or a refusal;                 *)
(*   - the body is the upstream's, in order, none of it before the status; *)
(*   - a response of the upstream with a Content-Length that the proxy     *)
(*     ends is complete, or, where EndsShort allows it, is one the         *)
(*     upstream has sent the whole of.                                     *)
(* Chunks of the body are numbered from 1.                                 *)
(***************************************************************************)
EXTENDS Integers, Sequences

CONSTANTS
  Upstream, Statuses,   \* the upstream's status, the refusals
  EndsShort             \* may chunks that came too late for a slow client be dropped

VARIABLES
  gate,       \* "undecided", "pass" or "refuse"
  fetched,    \* a request went to the upstream
  framed,     \* its response has a Content-Length
  resp,       \* the status written, 0 before
  sent,       \* how many chunks of the body the upstream sent
  whole,      \* the upstream has sent all of its body
  toClient,   \* the chunks written to the client
  outcome     \* "open", "complete" or "cut" as the client sees the response

vars == <<gate, fetched, framed, resp, sent, whole, toClient, outcome>>

FirstChunks(n) == [i \in 1..n |-> i]

Init ==
  /\ gate = "undecided" /\ ~fetched /\ framed \in BOOLEAN
  /\ resp = 0 /\ sent = 0 /\ ~whole
  /\ toClient = <<>> /\ outcome = "open"

\* A refusal, the proxy's own answer, is written whole, or for a client that
\* has gone, in vain.
Refusing ==
  /\ resp' \in Statuses
  /\ \/ outcome = "open" /\ outcome' = "complete"
     \/ outcome = "cut" /\ outcome' = "cut"

\* Before the gate only a request that is no proxy request is refused.
Decide ==
  /\ gate = "undecided" /\ resp = 0
  /\ gate' \in {"pass", "refuse"}
  /\ fetched' \in {FALSE, gate' = "pass"}
  /\ \/ ~fetched' /\ Refusing
     \/ UNCHANGED <<resp, outcome>>
  /\ UNCHANGED <<framed, sent, whole, toClient>>

Fetch ==
  /\ gate = "pass" /\ ~fetched /\ resp = 0
  /\ fetched' = TRUE
  /\ UNCHANGED <<gate, framed, resp, sent, whole, toClient, outcome>>

Refuse ==
  /\ resp = 0 /\ gate # "undecided"
  /\ Refusing
  /\ UNCHANGED <<gate, fetched, framed, sent, whole, toClient>>

Respond ==
  /\ fetched /\ resp = 0
  /\ resp' = Upstream
  /\ UNCHANGED <<gate, fetched, framed, sent, whole, toClient, outcome>>

UpstreamSends ==
  /\ fetched /\ ~whole
  /\ sent' \in {sent, sent + 1}
  /\ whole' \in BOOLEAN
  /\ UNCHANGED <<gate, fetched, framed, resp, toClient, outcome>>

Copy ==
  /\ resp = Upstream /\ outcome = "open"
  /\ \E n \in Len(toClient)..sent : toClient' = FirstChunks(n)
  /\ UNCHANGED <<gate, fetched, framed, resp, sent, whole, outcome>>

Finish ==
  /\ resp = Upstream /\ outcome = "open"
  /\ outcome' = "complete"
  /\ framed => whole /\ (toClient = FirstChunks(sent) \/ EndsShort)
  /\ UNCHANGED <<gate, fetched, framed, resp, sent, whole, toClient>>

\* The client goes, or the proxy closes the connection mid-response.
Cut ==
  /\ outcome = "open"
  /\ outcome' = "cut"
  /\ UNCHANGED <<gate, fetched, framed, resp, sent, whole, toClient>>

Next ==
  \/ Decide \/ Fetch \/ Refuse \/ Respond \/ UpstreamSends
  \/ Copy \/ Finish \/ Cut

Spec == Init /\ [][Next]_vars
=============================================================================
