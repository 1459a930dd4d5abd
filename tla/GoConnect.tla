----------------------------- MODULE GoConnect -----------------------------
(***************************************************************************)
(* One CONNECT request in the Go proxy: HandleConnect and pipe in          *)
(* go-proxy/internal/proxy/handler.go, with the writers of                 *)
(* internal/proxyutil/connect.go.                                          *)
(*                                                                         *)
(* The handler's goroutine runs from the gate to the copy of the           *)
(* upstream's bytes; a second goroutine, the copier, copies the client's.  *)
(* Both connections are closed when the handler returns.                   *)
(*                                                                         *)
(* Bytes are numbered from 1 in the order their side sends them.           *)
(***************************************************************************)
EXTENDS Authorize, Sequences

CONSTANTS
  MaxUp,     \* bound: bytes the client sends
  MaxDown    \* bound: bytes the upstream sends

ASSUME ConnectAssumption == MaxUp \in Nat /\ MaxDown \in Nat

Refusals == {403, 407, 500, 502}

VARIABLES
  req,         \* what the gate reads, and whether the connection can be hijacked
  pc,          \* "authorize", "hijack", "refuse", "dial", "establish",
               \* "forward", "copy" or "returned"
  status,      \* what authorize returned
  resp,        \* the status written, 0 before
  copier,      \* "none", "running" or "done"
  client,      \* what the client did: "open", "ended" (its FIN) or "reset"
  conn,        \* clientConn: "open" or "closed"
  buffered,    \* bytes the server read together with the request
  clientIn,    \* later bytes of the client, not read yet
  sentUp,      \* how many bytes the client sent
  upstream,    \* "none", "open" or "closed", as the proxy has it
  upstreamEnd, \* what the upstream did: "open", "ended" or "reset"
  upstreamIn,  \* bytes of the upstream, not read yet
  chunk,       \* what io.Copy has read of them and not written yet
  sentDown,    \* how many bytes the upstream sent
  toUpstream, toClient

handlerVars == <<req, pc, status, resp, copier>>
endVars == <<client, sentUp, upstreamEnd, sentDown>>
bufferVars == <<buffered, clientIn, upstreamIn, chunk>>
writtenVars == <<toUpstream, toClient>>
vars == <<handlerVars, endVars, bufferVars, writtenVars, conn, upstream>>

Request == [ipAllowed : BOOLEAN, public : BOOLEAN, creds : BOOLEAN, hijackable : BOOLEAN]

-----------------------------------------------------------------------------
(* Pieces of the code; the forms before them are faults for mutants.       *)

\* The deferred Close of the client's connection.
CloseForgotten == "open"
ClosedOnReturn == "closed"

\* The bytes ForwardBuffered writes before the copier starts.
ForwardNothing == <<>>
ForwardBuffered == buffered

\* DialTimeout gives up; a dial without a deadline may not.
DialForever == FALSE
DialGivesUp == TRUE

\* What an upstream that cannot be dialed is answered with.
DialReply == 502

\* io.Copy ends at the end of its source, after every byte before it.
CopyStopsEarly == TRUE
CopyDrained == upstreamIn = <<>>

-----------------------------------------------------------------------------
Init ==
  /\ req \in Request
  /\ pc = "authorize" /\ status = 0 /\ resp = 0 /\ copier = "none"
  /\ client = "open" /\ conn = "open"
  /\ buffered \in {<<>>} \cup (IF MaxUp > 0 THEN {<<1>>} ELSE {})
  /\ clientIn = <<>> /\ sentUp = Len(buffered)
  /\ upstream = "none" /\ upstreamEnd = "open"
  /\ upstreamIn = <<>> /\ chunk = <<>> /\ sentDown = 0
  /\ toUpstream = <<>> /\ toClient = <<>>

\* The deferred calls: both connections are closed.
Return ==
  /\ pc' = "returned"
  /\ conn' = ClosedOnReturn
  /\ upstream' = IF upstream = "open" THEN "closed" ELSE upstream

\* c.authorize returns; nothing is written yet.
AuthorizeReturns ==
  /\ pc = "authorize"
  /\ \E lookup \in Lookup : status' = authorize(req, lookup)
  /\ pc' = "hijack"
  /\ UNCHANGED <<endVars, bufferVars, writtenVars, req, resp, copier, conn, upstream>>

\* No Hijacker, or Hijack fails: 500, whatever the gate said.  No Close is
\* deferred yet, so the connection stays with the server.
HijackRefused ==
  /\ pc = "hijack" /\ ~req.hijackable
  /\ pc' = "returned" /\ resp' = 500
  /\ UNCHANGED <<endVars, bufferVars, writtenVars, req, status, copier, conn,
                 upstream>>

Hijacked ==
  /\ pc = "hijack" /\ req.hijackable
  /\ pc' = IF status = Pass THEN "dial" ELSE "refuse"
  /\ UNCHANGED <<endVars, bufferVars, writtenVars, req, status, resp, copier, conn,
                 upstream>>

\* 407 raw, another refusal as JSON; then the handler returns.
Refuse ==
  /\ pc = "refuse"
  /\ resp' = status
  /\ Return
  /\ UNCHANGED <<endVars, bufferVars, writtenVars, req, status, copier>>

Dialed ==
  /\ pc = "dial"
  /\ pc' = "establish" /\ upstream' = "open"
  /\ UNCHANGED <<endVars, bufferVars, writtenVars, req, status, resp, copier, conn>>

\* Refused, unknown host, no such port, or no answer within c.Timeout.
DialFails ==
  /\ pc = "dial" /\ DialGivesUp
  /\ resp' = DialReply
  /\ Return
  /\ UNCHANGED <<endVars, bufferVars, writtenVars, req, status, copier>>

\* The write of the 200 succeeds, or fails if the client has reset.
Established ==
  /\ pc = "establish"
  /\ pc' = "forward" /\ resp' = 200
  /\ UNCHANGED <<endVars, bufferVars, writtenVars, req, status, copier, conn,
                 upstream>>

EstablishFails ==
  /\ pc = "establish" /\ client = "reset"
  /\ Return
  /\ UNCHANGED <<endVars, bufferVars, writtenVars, req, status, resp, copier>>

\* The buffered bytes are written, then the copier starts.
Forwarded ==
  /\ pc = "forward"
  /\ toUpstream' = toUpstream \o ForwardBuffered
  /\ buffered' = <<>>
  /\ pc' = "copy" /\ copier' = "running"
  /\ UNCHANGED <<endVars, req, status, resp, conn, upstream, clientIn, upstreamIn,
                 chunk, toClient>>

ForwardFails ==
  /\ pc = "forward" /\ buffered # <<>> /\ upstreamEnd = "reset"
  /\ Return
  /\ UNCHANGED <<endVars, bufferVars, writtenVars, req, status, resp, copier>>

\* pipe(upstreamConn, clientConn) in the copier.  A write to an upstream that
\* has reset may fail or, for a moment, still be taken by the kernel.
CopyUpMoves ==
  /\ copier = "running" /\ conn = "open" /\ clientIn # <<>>
  /\ clientIn' = Tail(clientIn)
  /\ toUpstream' = Append(toUpstream, Head(clientIn))
  /\ UNCHANGED <<handlerVars, endVars, conn, upstream, buffered, upstreamIn, chunk,
                 toClient>>

\* The client's end or reset, a failed write, or connections closed by the
\* handler.  Nothing tells the upstream that the client has ended.
CopyUpEnds ==
  /\ copier = "running"
  /\ \/ conn = "closed"
     \/ client = "reset"
     \/ client = "ended" /\ clientIn = <<>>
     \/ upstreamEnd = "reset" /\ clientIn # <<>>
  /\ copier' = "done"
  /\ UNCHANGED <<endVars, bufferVars, writtenVars, req, pc, status, resp, conn,
                 upstream>>

\* pipe(clientConn, upstreamConn) in the handler: io.Copy reads, ...
CopyReads ==
  /\ pc = "copy" /\ chunk = <<>> /\ upstreamIn # <<>>
  /\ chunk' = <<Head(upstreamIn)>>
  /\ upstreamIn' = Tail(upstreamIn)
  /\ UNCHANGED <<handlerVars, endVars, writtenVars, conn, upstream, buffered,
                 clientIn>>

\* ... and writes, which no deadline bounds: it takes a client that reads.
CopyWrites ==
  /\ pc = "copy" /\ chunk # <<>>
  /\ toClient' = toClient \o chunk
  /\ chunk' = <<>>
  /\ UNCHANGED <<handlerVars, endVars, conn, upstream, buffered, clientIn,
                 upstreamIn, toUpstream>>

\* A read finds the upstream's end or reset, or a write finds that the client
\* has reset.
CopyDownEnds ==
  /\ pc = "copy"
  /\ \/ chunk = <<>> /\ upstreamEnd = "ended" /\ CopyDrained
     \/ chunk = <<>> /\ upstreamEnd = "reset"
     \/ chunk # <<>> /\ client = "reset"
  /\ Return
  /\ UNCHANGED <<endVars, bufferVars, writtenVars, req, status, resp, copier>>

-----------------------------------------------------------------------------
(* The two ends.                                                           *)

ClientSends ==
  /\ client = "open" /\ sentUp < MaxUp
  /\ sentUp' = sentUp + 1
  /\ clientIn' = IF conn = "open" THEN Append(clientIn, sentUp + 1) ELSE clientIn
  /\ UNCHANGED <<handlerVars, writtenVars, client, conn, upstream, upstreamEnd,
                 sentDown, buffered, upstreamIn, chunk>>

ClientEnds ==
  /\ client = "open"
  /\ client' = "ended"
  /\ UNCHANGED <<handlerVars, bufferVars, writtenVars, sentUp, conn, upstream,
                 upstreamEnd, sentDown>>

ClientResets ==
  /\ client # "reset"
  /\ client' = "reset" /\ clientIn' = <<>>
  /\ UNCHANGED <<handlerVars, writtenVars, sentUp, conn, upstream, upstreamEnd,
                 sentDown, buffered, upstreamIn, chunk>>

UpstreamSends ==
  /\ upstream = "open" /\ upstreamEnd = "open" /\ sentDown < MaxDown
  /\ sentDown' = sentDown + 1
  /\ upstreamIn' = Append(upstreamIn, sentDown + 1)
  /\ UNCHANGED <<handlerVars, writtenVars, client, sentUp, conn, upstream,
                 upstreamEnd, buffered, clientIn, chunk>>

UpstreamEnds ==
  /\ upstream = "open" /\ upstreamEnd = "open"
  /\ upstreamEnd' = "ended"
  /\ UNCHANGED <<handlerVars, bufferVars, writtenVars, client, sentUp, conn, upstream,
                 sentDown>>

UpstreamResets ==
  /\ upstream = "open" /\ upstreamEnd # "reset"
  /\ upstreamEnd' = "reset" /\ upstreamIn' = <<>>
  /\ UNCHANGED <<handlerVars, writtenVars, client, sentUp, conn, upstream, sentDown,
                 buffered, clientIn, chunk>>

Answer ==
  \/ AuthorizeReturns \/ HijackRefused \/ Hijacked \/ Refuse
  \/ DialFails \/ Established \/ EstablishFails
Forward == Forwarded \/ ForwardFails
CopyDown == CopyReads \/ CopyWrites \/ CopyDownEnds
CopyUp == CopyUpMoves \/ CopyUpEnds
Ends == ClientSends \/ ClientEnds \/ ClientResets
          \/ UpstreamSends \/ UpstreamEnds \/ UpstreamResets

Next == Answer \/ Dialed \/ Forward \/ CopyDown \/ CopyUp \/ Ends

\* The runtime schedules both goroutines, the dial has a deadline, and the few
\* bytes of a status fit the socket's buffer.  Nobody makes a dial succeed or
\* the two ends act, and neither end need read: the copies' writes, and
\* ForwardBuffered's, may block for ever.
Fairness ==
  /\ WF_vars(Answer)
  /\ WF_vars(CopyReads) /\ WF_vars(CopyDownEnds)
  /\ WF_vars(conn = "closed" /\ CopyUpEnds)

Spec == Init /\ [][Next]_vars /\ Fairness
-----------------------------------------------------------------------------
TypeOK ==
  /\ req \in Request
  /\ pc \in {"authorize", "hijack", "refuse", "dial", "establish", "forward",
             "copy", "returned"}
  /\ status \in {0, Pass} \cup Refusals /\ resp \in {0, Pass} \cup Refusals
  /\ copier \in {"none", "running", "done"}
  /\ client \in {"open", "ended", "reset"} /\ conn \in {"open", "closed"}
  /\ buffered \in Seq(1..MaxUp) /\ clientIn \in Seq(1..MaxUp)
  /\ toUpstream \in Seq(1..MaxUp)
  /\ upstreamIn \in Seq(1..MaxDown) /\ toClient \in Seq(1..MaxDown)
  /\ chunk \in {<<>>} \cup {<<n>> : n \in 1..MaxDown}
  /\ upstream \in {"none", "open", "closed"}
  /\ upstreamEnd \in {"open", "ended", "reset"}
  /\ sentUp \in 0..MaxUp /\ sentDown \in 0..MaxDown

(***************************************************************************)
(* HandleConnect keeps the promise of ConnectService: the gate before the  *)
(* dial, one status, and every byte in order although two goroutines and   *)
(* ForwardBuffered write to the upstream.                                  *)
(***************************************************************************)
Service == INSTANCE ConnectService WITH
  Statuses <- Refusals,
  dialed <- upstream # "none",
  up <- upstream # "none",
  gate <- IF status = 0 THEN "undecided" ELSE IF status = Pass THEN "pass" ELSE "refuse"

Implements == Service!Spec

(***************************************************************************)
(* Every CONNECT gets a status or a closed connection (DialTimeout and the *)
(* deferred Close of HandleConnect).                                       *)
(***************************************************************************)
AnsweredOrClosed == <>(resp # 0 \/ conn = "closed")

(***************************************************************************)
(* When the upstream has gone, the handler returns and the copier with it, *)
(* and neither connection is left behind, unless the handler is blocked    *)
(* for ever in a write to a client that neither reads nor resets: Hijack   *)
(* has taken the server's deadlines off the connection (pipe).             *)
(***************************************************************************)
TornDown ==
  (pc = "copy" /\ upstreamEnd # "open")
    ~> \/ pc = "returned" /\ copier = "done" /\ conn = "closed" /\ upstream = "closed"
       \/ [](chunk # <<>> /\ client # "reset")

(***************************************************************************)
(* The deferred Close loses no byte of an upstream that ended in order: a  *)
(* client still there has been written all of them before (pipe).          *)
(***************************************************************************)
CloseMeansAll ==
  (pc = "returned" /\ copier # "none" /\ upstreamEnd = "ended" /\ client # "reset")
    => Len(toClient) = sentDown
=============================================================================
