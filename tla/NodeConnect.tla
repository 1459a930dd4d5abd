---------------------------- MODULE NodeConnect ----------------------------
(***************************************************************************)
(* One CONNECT request in the Node proxy: the 'connect' listener of        *)
(* node-proxy/src/index.js, handleConnect and tunnelSockets.               *)
(*                                                                         *)
(* When it emits 'connect', Node detaches the client's socket from its     *)
(* HTTP parser: from then on only this handler reads it, and it does so    *)
(* only once the pipes are laid.  Callbacks run one at a time, so each is  *)
(* an action; the client and the upstream act between any two of them.     *)
(*                                                                         *)
(* Bytes are numbered from 1 in the order their side sends them.           *)
(***************************************************************************)
EXTENDS Authorize, Sequences

CONSTANTS
  MaxUp,     \* bound: bytes the client sends
  MaxDown    \* bound: bytes the upstream sends

ASSUME ConnectAssumption == MaxUp \in Nat /\ MaxDown \in Nat

Refusals == {403, 407, 502}

VARIABLES
  req,         \* what the gate reads, and whether net.connect takes the port
  phase,       \* "authorizing", "refused", "dialing", "tunnel" or "failed"
  resp,        \* the status handed to fakeRes, 0 while headersSent is false
  client,      \* what the client did: "open", "ended" (its FIN) or "reset"
  conn,        \* the proxy's side of that socket: "open", "ended", "destroyed"
  head,        \* bytes that came along with the request
  clientIn,    \* later bytes of the client, not read yet
  sentUp,      \* how many bytes the client sent
  upstream,    \* "none", "connecting", "open" or "destroyed"
  upstreamFin, \* the upstream sent its FIN
  upstreamIn,  \* bytes of the upstream, not read yet
  sentDown,    \* how many bytes the upstream sent
  upEnded,     \* upstream.end() was called
  piped,       \* the two pipes are laid
  active,      \* there was traffic on the upstream since the timer last looked
  toUpstream, toClient

handlerVars == <<req, phase, resp>>
endVars == <<client, sentUp, upstreamFin, sentDown>>
upVars == <<head, clientIn, upEnded, toUpstream>>
downVars == <<upstreamIn, toClient>>
vars == <<handlerVars, endVars, upVars, downVars, conn, upstream, piped, active>>

Request == [ipAllowed : BOOLEAN, public : BOOLEAN, creds : BOOLEAN, portOK : BOOLEAN]

Live(up) == up \in {"connecting", "open"}

-----------------------------------------------------------------------------
(* Pieces of the code; the forms before them are faults for mutants.       *)

\* net.connect throws on a port out of range; .catch answers.
ThrowEscapes == 0
ThrowIs500 == 500
ThrowReply == 502

\* tunnelSockets writes head before it lays the pipes.
HeadDropped == <<>>
HeadFirst == head

\* upstream.setTimeout fires in every state of the socket.
TimerUntilConnect == upstream = "connecting"
TimerFires == Live(upstream)

\* pipe() ends its destination when its source has ended, after all data.
EndsEarly == TRUE
Drained == upstreamIn = <<>>

-----------------------------------------------------------------------------
Init ==
  /\ req \in Request
  /\ phase = "authorizing" /\ resp = 0
  /\ client = "open" /\ conn = "open"
  /\ head \in {<<>>} \cup (IF MaxUp > 0 THEN {<<1>>} ELSE {})
  /\ clientIn = <<>> /\ sentUp = Len(head)
  /\ upstream = "none" /\ upstreamFin = FALSE
  /\ upstreamIn = <<>> /\ sentDown = 0
  /\ upEnded = FALSE /\ piped = FALSE /\ active = FALSE
  /\ toUpstream = <<>> /\ toClient = <<>>

\* sendAuthFailure: a 407 is written raw and leaves the socket open, any
\* other refusal goes through sendJson, whose end() ends it.
Closing(status) == IF status = 407 \/ conn # "open" THEN conn ELSE "ended"

\* authorizeRequest resolves.
Authorized ==
  /\ phase = "authorizing"
  /\ \E lookup \in Lookup :
       LET status == authorize(req, lookup) IN
       \/ /\ status # Pass
          /\ phase' = "refused" /\ resp' = status /\ conn' = Closing(status)
          /\ UNCHANGED <<upstream, active>>
       \/ /\ status = Pass /\ ~req.portOK
          /\ phase' = "failed" /\ resp' = ThrowReply
          /\ conn' = IF ThrowReply = 0 THEN conn ELSE Closing(ThrowReply)
          /\ UNCHANGED <<upstream, active>>
       \/ /\ status = Pass /\ req.portOK
          /\ phase' = "dialing" /\ upstream' = "connecting" /\ active' = TRUE
          /\ UNCHANGED <<resp, conn>>
  /\ UNCHANGED <<endVars, upVars, downVars, req, piped>>

\* The connect listener: 200, head, pipes.  On a client socket that is gone
\* the pipes carry nothing.
Connected ==
  /\ upstream = "connecting"
  /\ upstream' = "open" /\ phase' = "tunnel" /\ active' = TRUE
  /\ resp' = 200
  /\ toUpstream' = HeadFirst /\ head' = <<>>
  /\ piped' = (conn = "open")
  /\ UNCHANGED <<endVars, downVars, req, conn, clientIn, upEnded>>

\* clientSocket.pipe(upstream): a chunk, then the end.
PipeUp ==
  /\ piped /\ ~upEnded /\ clientIn # <<>>
  /\ toUpstream' = Append(toUpstream, Head(clientIn))
  /\ clientIn' = Tail(clientIn)
  /\ active' = TRUE
  /\ UNCHANGED <<handlerVars, endVars, downVars, conn, head, upstream, upEnded,
                 piped>>

PipeUpEnd ==
  /\ piped /\ ~upEnded /\ clientIn = <<>> /\ client = "ended"
  /\ upEnded' = TRUE
  /\ UNCHANGED <<handlerVars, endVars, downVars, conn, head, clientIn, upstream,
                 piped, active, toUpstream>>

\* upstream.pipe(clientSocket).
PipeDown ==
  /\ piped /\ upstreamIn # <<>>
  /\ toClient' = Append(toClient, Head(upstreamIn))
  /\ upstreamIn' = Tail(upstreamIn)
  /\ active' = TRUE
  /\ UNCHANGED <<handlerVars, endVars, upVars, conn, upstream, piped>>

\* The upstream's FIN also ends and closes its own socket (allowHalfOpen is
\* false for net.connect), which takes the pipes away.
PipeDownEnd ==
  /\ piped /\ upstreamFin /\ Drained
  /\ conn' = "ended"
  /\ upstream' = "destroyed" /\ piped' = FALSE
  /\ UNCHANGED <<handlerVars, endVars, upVars, downVars, active>>

\* 'error' on the upstream: a refused, unreachable or unknown host before the
\* connection is up, a reset after it.
UpstreamError ==
  /\ Live(upstream)
  /\ upstream' = "destroyed" /\ piped' = FALSE /\ upstreamIn' = <<>>
  /\ IF resp = 0
     THEN phase' = "failed" /\ resp' = 502 /\ conn' = Closing(502)
     ELSE conn' = "destroyed" /\ UNCHANGED <<phase, resp>>
  /\ UNCHANGED <<endVars, upVars, req, active, toClient>>

\* upstream.setTimeout: no traffic for timeoutMs.
IdleTimeout ==
  /\ TimerFires /\ ~active
  /\ upstream' = "destroyed" /\ conn' = "destroyed" /\ piped' = FALSE
  /\ upstreamIn' = <<>> /\ clientIn' = <<>>
  /\ UNCHANGED <<handlerVars, endVars, head, upEnded, active, toUpstream, toClient>>

\* timeoutMs goes by without traffic as far as the timer has looked.
QuietPeriod ==
  /\ Live(upstream) /\ active
  /\ active' = FALSE
  /\ UNCHANGED <<handlerVars, endVars, upVars, downVars, conn, upstream, piped>>

-----------------------------------------------------------------------------
(* The two ends.                                                           *)

ClientSends ==
  /\ client = "open" /\ sentUp < MaxUp
  /\ sentUp' = sentUp + 1
  /\ clientIn' = IF conn = "destroyed" THEN clientIn ELSE Append(clientIn, sentUp + 1)
  /\ UNCHANGED <<handlerVars, downVars, client, conn, head, upstream, upstreamFin,
                 sentDown, upEnded, piped, active, toUpstream>>

ClientEnds ==
  /\ client = "open"
  /\ client' = "ended"
  /\ UNCHANGED <<handlerVars, upVars, downVars, conn, sentUp, upstream, upstreamFin,
                 sentDown, piped, active>>

\* 'error' on the client's socket destroys it; the cleanup of tunnelSockets
\* takes the pipes away and leaves the upstream alone.
ClientResets ==
  /\ client # "reset"
  /\ client' = "reset" /\ conn' = "destroyed" /\ piped' = FALSE
  /\ clientIn' = <<>>
  /\ UNCHANGED <<handlerVars, downVars, head, sentUp, upstream, upstreamFin, sentDown,
                 upEnded, active, toUpstream>>

UpstreamSends ==
  /\ upstream = "open" /\ ~upstreamFin /\ sentDown < MaxDown
  /\ sentDown' = sentDown + 1
  /\ upstreamIn' = Append(upstreamIn, sentDown + 1)
  /\ active' = TRUE
  /\ UNCHANGED <<handlerVars, upVars, client, conn, sentUp, upstream, upstreamFin,
                 piped, toClient>>

UpstreamEnds ==
  /\ upstream = "open" /\ ~upstreamFin
  /\ upstreamFin' = TRUE
  /\ UNCHANGED <<handlerVars, upVars, downVars, client, conn, sentUp, upstream,
                 sentDown, piped, active>>

Pipes == PipeUp \/ PipeUpEnd \/ PipeDown \/ PipeDownEnd
Ends == ClientSends \/ ClientEnds \/ ClientResets \/ UpstreamSends \/ UpstreamEnds

Next ==
  \/ Authorized \/ Connected \/ Pipes \/ UpstreamError
  \/ IdleTimeout \/ QuietPeriod
  \/ Ends

\* The event loop runs what is ready and its timers; the store answers.
\* Nobody makes the network or the two ends act, and neither end need read.
Fairness ==
  /\ WF_vars(Authorized)
  /\ WF_vars(IdleTimeout) /\ WF_vars(QuietPeriod)

Spec == Init /\ [][Next]_vars /\ Fairness
-----------------------------------------------------------------------------
TypeOK ==
  /\ req \in Request
  /\ phase \in {"authorizing", "refused", "dialing", "tunnel", "failed"}
  /\ resp \in {0, Pass} \cup Refusals
  /\ client \in {"open", "ended", "reset"}
  /\ conn \in {"open", "ended", "destroyed"}
  /\ head \in Seq(1..MaxUp) /\ clientIn \in Seq(1..MaxUp)
  /\ toUpstream \in Seq(1..MaxUp)
  /\ upstreamIn \in Seq(1..MaxDown) /\ toClient \in Seq(1..MaxDown)
  /\ upstream \in {"none", "connecting", "open", "destroyed"}
  /\ sentUp \in 0..MaxUp /\ sentDown \in 0..MaxDown
  /\ {upstreamFin, upEnded, piped, active} \subseteq BOOLEAN

(***************************************************************************)
(* handleConnect keeps the promise of ConnectService: the gate before the  *)
(* dial, one status, no byte before the connection is up, and every byte   *)
(* in order, head first.                                                   *)
(***************************************************************************)
Service == INSTANCE ConnectService WITH
  Statuses <- Refusals,
  dialed <- upstream # "none",
  up <- phase = "tunnel",
  gate <- IF phase = "authorizing" THEN "undecided"
          ELSE IF phase = "refused" THEN "refuse" ELSE "pass"

Implements == Service!Spec

(***************************************************************************)
(* The idle timer of handleConnect releases every upstream socket, whoever *)
(* has gone: a client that resets, or dies while the dial is under way,    *)
(* leaves no upstream connection behind.                                   *)
(***************************************************************************)
UpstreamReleased == Live(upstream) ~> upstream = "destroyed"

(***************************************************************************)
(* No CONNECT is left without a status on a socket that stays open, even   *)
(* when net.connect throws (the .catch of handleConnect).                  *)
(***************************************************************************)
AnsweredOrClosed == <>(resp # 0 \/ conn = "destroyed")

(***************************************************************************)
(* A side of the tunnel that is ended, not destroyed, has been written     *)
(* every byte the other side sent before its FIN, head included            *)
(* (tunnelSockets).                                                        *)
(***************************************************************************)
EndMeansAll ==
  /\ (phase = "tunnel" /\ conn = "ended") => Len(toClient) = sentDown
  /\ upEnded => Len(toUpstream) = sentUp

(***************************************************************************)
(* README.md promises 502 for an upstream that cannot be reached.  The     *)
(* timer of handleConnect closes the socket without a status when the dial *)
(* itself takes longer than timeoutMs.                                     *)
(***************************************************************************)
UnreachableIs502 ==
  [][upstream = "connecting" /\ upstream' = "destroyed" /\ client # "reset"
       => resp' = 502]_vars

(***************************************************************************)
(* README.md: a 407 lets the browser supply its credentials and go on.     *)
(* sendConnectProxyAuthRequired leaves the socket open for the request to  *)
(* come again, but no parser reads that socket any more: bytes a client    *)
(* sends after its 407 stay unread on an open connection.                  *)
(***************************************************************************)
RetryHeard ==
  (resp = 407 /\ clientIn # <<>>) ~> (clientIn = <<>> \/ conn # "open")
=============================================================================
