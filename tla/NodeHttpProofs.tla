--------------------------- MODULE NodeHttpProofs ---------------------------
(***************************************************************************)
(* A plain request of the Node proxy keeps the promise of HttpService, and *)
(* what it ends is whole but for one exception, for bodies of any number   *)
(* of chunks.                                                              *)
(***************************************************************************)
EXTENDS NodeHttp, SequenceTheorems, TLAPS

-----------------------------------------------------------------------------
(* The inductive invariant.                                                *)

\* The elements of s are the chunks that follow the first n.
Follows(s, n) == \A i \in 1..Len(s) : s[i] = n + i

\* What the listeners have done so far says what they have written: each
\* looks at headersSent, so the status is that of the first.
ListenerInv ==
  /\ phase \in {"received", "authorizing"} => resp = 0 /\ upstream = "none"
  /\ phase = "refused" => resp \in Refusals /\ upstream = "none"
  /\ phase = "fetching" => resp = 0 /\ upstream = "open"
  /\ phase \in {"received", "authorizing", "fetching"} => ~whole
  /\ phase = "streaming" => resp = OK /\ upstream \in {"open", "done"}
  /\ phase = "failed" => resp # 0 /\ upstream \in {"none", "destroyed"}

\* A response that is over: lost with its client, or ended by sendJson, by the
\* pipe, or by the pipe when the timer has dumped the rest of a whole one.
ResponseInv ==
  /\ client = "open" => res # "lost"
  /\ client = "gone" => res # "open"
  /\ resp = 0 => res # "ended"
  /\ resp \in Refusals => res # "open"
  /\ resp = OK /\ res = "ended" =>
       whole /\ (upstream = "destroyed" \/ (upstream = "done" /\ bodyIn = <<>>))
  /\ upstream = "done" => whole

\* The chunks written, and those still to be read while nothing is lost.
BodyInv ==
  /\ Follows(toClient, 0)
  /\ Follows(bodyIn, Len(toClient))
  /\ Len(toClient) + Len(bodyIn) <= sent
  /\ upstream # "destroyed" => Len(toClient) + Len(bodyIn) = sent

ExchangeInv == TypeOK /\ ListenerInv /\ ResponseInv /\ BodyInv
-----------------------------------------------------------------------------
(* Sequences of consecutive chunks.                                         *)

LEMMA FollowsEmpty == \A n : Follows(<<>>, n)
BY DEF Follows

\* The next chunk may be appended.
LEMMA FollowsAppend ==
  ASSUME NEW S, NEW s \in Seq(S), NEW n \in Nat, Follows(s, n), n + Len(s) + 1 \in S
  PROVE  LET t == Append(s, n + Len(s) + 1)
         IN  t \in Seq(S) /\ Len(t) = Len(s) + 1 /\ Follows(t, n)
BY AppendProperties, LenProperties DEF Follows

\* The first chunk may be taken away.
LEMMA FollowsTail ==
  ASSUME NEW S, NEW s \in Seq(S), NEW n \in Nat, Follows(s, n), s # <<>>
  PROVE  /\ Head(s) = n + 1 /\ n + 1 \in S
         /\ Tail(s) \in Seq(S) /\ Len(s) \in Nat \ {0} /\ Len(Tail(s)) = Len(s) - 1
         /\ Follows(Tail(s), n + 1)
<1>1. Len(s) \in Nat \ {0}
  BY EmptySeq
<1>2. Head(s) = s[1]
  OBVIOUS
<1>3. Head(s) \in S /\ Tail(s) \in Seq(S) /\ Len(Tail(s)) = Len(s) - 1
        /\ \A i \in 1..Len(Tail(s)) : Tail(s)[i] = s[i + 1]
  BY HeadTailProperties
<1> QED BY <1>1, <1>2, <1>3 DEF Follows

\* A chunk moves from what is not read yet to what is written.
LEMMA MoveChunk ==
  ASSUME NEW M \in Nat, NEW s \in Seq(1..M), NEW t \in Seq(1..M),
         Follows(t, 0), Follows(s, Len(t)), s # <<>>
  PROVE  LET rest == Tail(s)
             more == Append(t, Head(s))
         IN  /\ rest \in Seq(1..M) /\ more \in Seq(1..M)
             /\ Follows(more, 0) /\ Follows(rest, Len(more))
             /\ Len(more) \in Nat /\ Len(more) = Len(t) + 1 /\ Len(rest) = Len(s) - 1
<1>1. Len(t) \in Nat
  BY LenProperties
<1>2. /\ Head(s) = Len(t) + 1 /\ Len(t) + 1 \in 1..M
      /\ Tail(s) \in Seq(1..M) /\ Len(Tail(s)) = Len(s) - 1
      /\ Follows(Tail(s), Len(t) + 1)
  BY <1>1, FollowsTail
<1>3. 0 + Len(t) + 1 = Head(s) /\ 0 + Len(t) + 1 \in 1..M
  BY <1>1, <1>2
<1>4. /\ Append(t, 0 + Len(t) + 1) \in Seq(1..M) /\ Follows(Append(t, 0 + Len(t) + 1), 0)
      /\ Len(Append(t, 0 + Len(t) + 1)) = Len(t) + 1
  BY <1>3, FollowsAppend
<1> QED BY <1>1, <1>2, <1>3, <1>4

\* Chunks from the first on are the first chunks.
LEMMA FollowsNone ==
  ASSUME NEW S, NEW s \in Seq(S), Follows(s, 0)
  PROVE  s = Service!FirstChunks(Len(s))
BY LenProperties DEF Follows, Service!FirstChunks

-----------------------------------------------------------------------------
(* The invariant is inductive.                                             *)

LEMMA InitInv == Init => ExchangeInv
<1> SUFFICES ASSUME Init PROVE ExchangeInv
  OBVIOUS
<1>1. TypeOK
  <2>1. framed \in BOOLEAN
    BY Zenon DEF Init
  <2>2. bodyIn \in Seq(1..MaxChunks) /\ toClient \in Seq(1..MaxChunks) /\ sent \in 0..MaxChunks
    BY HttpAssumption, EmptySeq DEF Init
  <2> QED BY <2>1, <2>2 DEF Init, TypeOK, OK, Refusals
<1>2. ListenerInv /\ ResponseInv
  BY DEF Init, ListenerInv, ResponseInv, OK, Refusals
<1>3. BodyInv
  BY DEF Init, BodyInv, Follows
<1> QED BY <1>1, <1>2, <1>3 DEF ExchangeInv

\* The status of a refusal of the gate.
LEMMA RefusalStatus ==
  ASSUME NEW lookup \in Lookup, authorize(req, lookup) # Pass
  PROVE  authorize(req, lookup) \in {403, 407, 502}
BY DEF authorize, Lookup, InternalError, Pass

\* sendJson writes the whole of a refusal, or nothing to a client that is gone.
LEMMA SendEnds ==
  ASSUME ExchangeInv, NEW code \in Refusals, resp = 0, Send(code), client' = client
  PROVE  /\ resp' = code /\ res' \in {"ended", "lost"} /\ (client' = "open" => res' # "lost")
         /\ Service!Refusing
BY DEF ExchangeInv, TypeOK, ResponseInv, Send, Service!Refusing

\* Steps that leave the body alone.
LEMMA ListenerSteps ==
  ASSUME ExchangeInv, Received \/ Authorized \/ Response \/ QuietPeriod \/ ClientGoes
  PROVE  TypeOK' /\ ListenerInv' /\ ResponseInv'
<1> USE DEF ExchangeInv, TypeOK, ListenerInv, ResponseInv, OK, handlerVars, bodyVars
<1>1. CASE Received
  <2>1. CASE phase' = "refused"
    <3>1. 400 \in Refusals /\ resp = 0 /\ Send(400)
      BY <1>1, <2>1 DEF Received, Refusals
    <3> QED BY <1>1, <2>1, <3>1, SendEnds DEF Received, Refusals
  <2>2. CASE phase' = "authorizing"
    BY <1>1, <2>2 DEF Received
  <2> QED BY <1>1, <2>1, <2>2 DEF Received
<1>2. CASE Authorized
  <2>1. PICK lookup \in Lookup :
          LET status == authorize(req, lookup) IN
          \/ /\ status # Pass
             /\ phase' = "refused" /\ Send(status)
             /\ UNCHANGED <<upstream, active>>
          \/ /\ status = Pass /\ req.url = "scheme"
             /\ phase' = "failed" /\ Send(ThrowReply)
             /\ UNCHANGED <<upstream, active>>
          \/ /\ status = Pass /\ req.url = "http"
             /\ phase' = "fetching" /\ upstream' = "open" /\ active' = TRUE
             /\ UNCHANGED <<resp, res>>
    BY <1>2 DEF Authorized
  <2>2. phase = "authorizing" /\ UNCHANGED <<bodyVars, req, client>>
    BY <1>2 DEF Authorized
  <2>3. CASE phase' \in {"refused", "failed"}
    <3>1. PICK code \in {403, 407, 502} : Send(code)
      BY <2>1, <2>3, RefusalStatus DEF ThrowReply
    <3>2. /\ resp' = code /\ res' \in {"ended", "lost"} /\ (client' = "open" => res' # "lost")
          /\ UNCHANGED <<upstream, active>>
      BY <2>1, <2>2, <2>3, <3>1, SendEnds DEF Refusals
    <3> QED BY <2>2, <2>3, <3>2 DEF Refusals
  <2>4. CASE phase' = "fetching"
    BY <2>1, <2>2, <2>4
  <2> QED BY <2>1, <2>3, <2>4
<1>3. CASE Response
  BY <1>3 DEF Response, Refusals
<1>4. CASE QuietPeriod
  BY <1>4 DEF QuietPeriod
<1>5. CASE ClientGoes
  BY <1>5 DEF ClientGoes
<1> QED BY <1>1, <1>2, <1>3, <1>4, <1>5

LEMMA ListenerBody ==
  ASSUME ExchangeInv, Received \/ Authorized \/ Response \/ QuietPeriod \/ ClientGoes
  PROVE  BodyInv'
<1>1. UNCHANGED bodyVars /\ (upstream' = "destroyed" <=> upstream = "destroyed")
  BY DEF Received, Authorized, Response, QuietPeriod, ClientGoes, ExchangeInv, ListenerInv
<1> QED BY <1>1 DEF ExchangeInv, BodyInv, Follows, bodyVars

LEMMA PipeChunkInv == ExchangeInv /\ PipeChunk => ExchangeInv'
<1> SUFFICES ASSUME ExchangeInv, PipeChunk PROVE ExchangeInv'
  OBVIOUS
<1>1. /\ phase = "streaming" /\ bodyIn # <<>> /\ Len(bodyIn) \in Nat /\ Len(toClient) \in Nat
      /\ toClient \in Seq(1..MaxChunks) /\ bodyIn \in Seq(1..MaxChunks)
      /\ Follows(toClient, 0) /\ Follows(bodyIn, Len(toClient))
  BY LenProperties DEF PipeChunk, ExchangeInv, TypeOK, BodyInv
<1>2. /\ bodyIn' \in Seq(1..MaxChunks) /\ toClient' \in Seq(1..MaxChunks)
      /\ Follows(toClient', 0) /\ Follows(bodyIn', Len(toClient'))
      /\ Len(toClient') \in Nat
      /\ Len(toClient') = Len(toClient) + 1 /\ Len(bodyIn') = Len(bodyIn) - 1
  BY <1>1, MoveChunk, HttpAssumption DEF PipeChunk
<1>3. TypeOK' /\ ListenerInv' /\ ResponseInv'
  BY <1>1, <1>2
     DEF PipeChunk, ExchangeInv, TypeOK, ListenerInv, ResponseInv, handlerVars
<1>4. BodyInv'
  <2>1. UNCHANGED <<upstream, sent>> /\ sent \in Nat
    BY DEF PipeChunk, ExchangeInv, TypeOK
  <2>2. Len(toClient') + Len(bodyIn') = Len(toClient) + Len(bodyIn)
    BY <1>1, <1>2
  <2> QED BY <1>2, <2>1, <2>2 DEF ExchangeInv, BodyInv
<1> QED BY <1>3, <1>4 DEF ExchangeInv

\* The upstream sends the chunk that follows.
LEMMA UpstreamSendsInv == ExchangeInv /\ UpstreamSends => ExchangeInv'
<1> SUFFICES ASSUME ExchangeInv, UpstreamSends PROVE ExchangeInv'
  OBVIOUS
<1> DEFINE n == Len(toClient)
<1>1. /\ n \in Nat /\ sent + 1 \in 1..MaxChunks /\ bodyIn \in Seq(1..MaxChunks)
      /\ Len(bodyIn) \in Nat /\ Follows(bodyIn, n) /\ sent = n + Len(bodyIn)
  BY HttpAssumption, LenProperties DEF UpstreamSends, ExchangeInv, TypeOK, BodyInv
<1>2. bodyIn' = Append(bodyIn, n + Len(bodyIn) + 1)
  BY <1>1 DEF UpstreamSends
<1>3. /\ bodyIn' \in Seq(1..MaxChunks) /\ Len(bodyIn') = Len(bodyIn) + 1
      /\ Follows(bodyIn', n)
  <2> HIDE DEF n
  <2> QED BY <1>1, <1>2, FollowsAppend
<1>4. TypeOK' /\ ListenerInv' /\ ResponseInv'
  BY <1>1, <1>3 DEF UpstreamSends, ExchangeInv, TypeOK, ListenerInv, ResponseInv, handlerVars
<1>5. BodyInv'
  <2>1. UNCHANGED toClient /\ sent' = sent + 1
    BY DEF UpstreamSends
  <2>2. Follows(toClient', 0) /\ Follows(bodyIn', Len(toClient'))
    BY <1>3, <2>1 DEF ExchangeInv, BodyInv
  <2>3. Len(toClient') + Len(bodyIn') = sent' /\ sent' \in Nat
    BY <1>1, <1>3, <2>1
  <2> QED BY <2>2, <2>3 DEF BodyInv
<1> QED BY <1>4, <1>5 DEF ExchangeInv

\* The end of the body, the two listeners of a failure, and the end of the
\* upstream's body.
LEMMA EndingInv ==
  ExchangeInv /\ (PipeEnd \/ UpstreamError \/ Timeout \/ UpstreamEnds \/ UpstreamCloses)
    => ExchangeInv'
<1> SUFFICES ASSUME ExchangeInv
             PROVE  PipeEnd \/ UpstreamError \/ Timeout \/ UpstreamEnds \/ UpstreamCloses
                      => ExchangeInv'
  OBVIOUS
<1> USE DEF ExchangeInv, TypeOK, ListenerInv, ResponseInv, BodyInv, Follows, OK,
            handlerVars, bodyVars
<1>1. PipeEnd => ExchangeInv'
  BY DEF PipeEnd, Drained, Refusals
<1>2. UpstreamEnds => ExchangeInv'
  BY DEF UpstreamEnds
<1>3. ASSUME UpstreamCloses PROVE ExchangeInv'
  <2>1. /\ phase = "streaming" /\ resp = OK /\ whole /\ upstream = "open" /\ upstream' = "done"
        /\ UNCHANGED <<req, phase, resp, framed, whole, bodyIn, sent, toClient, client, res, active>>
    BY <1>3 DEF UpstreamCloses
  <2>2. TypeOK' /\ BodyInv'
    BY <2>1
  <2>3. ListenerInv'
    BY <2>1
  <2>4. ResponseInv'
    <3>1. res # "ended"
      BY <2>1
    <3> QED BY <2>1, <3>1
  <2> QED BY <2>2, <2>3, <2>4
<1>4. ASSUME UpstreamError \/ Timeout PROVE ExchangeInv'
  <2>1. /\ upstream = "open" /\ upstream' = "destroyed" /\ bodyIn' = <<>> /\ phase' = "failed"
        /\ UNCHANGED <<req, client, framed, whole, sent, toClient>> /\ active' = active
    BY <1>4 DEF UpstreamError, Timeout, Lost
  <2>2. BodyInv'
    <3>1. bodyIn' \in Seq(1..MaxChunks) /\ Len(bodyIn') = 0 /\ Len(bodyIn) \in Nat
            /\ Len(toClient) \in Nat
      BY <2>1, LenProperties
    <3> QED BY <2>1, <3>1
  <2>3. CASE resp = 0
    <3>1. PICK code \in {502, 504} : Send(code)
      BY <1>4, <2>3 DEF UpstreamError, Timeout, HeadersNotSent
    <3>2. resp' = code /\ res' \in {"ended", "lost"} /\ (client' = "open" => res' # "lost")
      BY <2>1, <2>3, <3>1, SendEnds DEF Refusals
    <3> QED BY <2>1, <2>2, <3>2 DEF Refusals
  <2>4. CASE resp # 0
    <3>1. resp' = resp /\ (res' = res \/ (whole /\ res = "open" /\ res' = "ended"))
      BY <1>4, <2>4 DEF UpstreamError, Timeout, HeadersNotSent
    <3> QED BY <2>1, <2>2, <2>4, <3>1 DEF Refusals
  <2> QED BY <2>3, <2>4
<1> QED BY <1>1, <1>2, <1>3, <1>4

LEMMA StepInv == ExchangeInv /\ [Next]_vars => ExchangeInv'
<1> SUFFICES ASSUME ExchangeInv, [Next]_vars PROVE ExchangeInv'
  OBVIOUS
<1>1. CASE Received \/ Authorized \/ Response \/ QuietPeriod \/ ClientGoes
  BY <1>1, ListenerSteps, ListenerBody DEF ExchangeInv
<1>2. CASE UNCHANGED vars
  BY <1>2 DEF vars, handlerVars, bodyVars, ExchangeInv, TypeOK, ListenerInv, ResponseInv,
              BodyInv, Follows
<1> QED BY <1>1, <1>2, PipeChunkInv, UpstreamSendsInv, EndingInv DEF Next

(***************************************************************************)
(* The invariant of an exchange: what was written and what was read have   *)
(* no gap, and phase, status, response and upstream agree, whichever of    *)
(* the listeners of proxyReq runs first.                                   *)
(***************************************************************************)
THEOREM ExchangeInvariant == Spec => []ExchangeInv
BY InitInv, StepInv, PTL DEF Spec

(***************************************************************************)
(* Types of an exchange, kept by every listener of handleHttp.             *)
(***************************************************************************)
THEOREM ExchangeTypes == Spec => []TypeOK
<1>1. ExchangeInv => TypeOK
  BY DEF ExchangeInv
<1> QED BY <1>1, ExchangeInvariant, PTL

(***************************************************************************)
(* A response that handleHttp ends is one the upstream has sent the end    *)
(* of, and every chunk was written, unless the idle timer dropped what a   *)
(* slow client had kept waiting, for bodies of any number of chunks.       *)
(***************************************************************************)
THEOREM CompleteIsWhole == Spec => []CompleteMeansAll
<1>1. ExchangeInv => CompleteMeansAll
  <2> SUFFICES ASSUME ExchangeInv, res = "ended", resp = OK
               PROVE  whole /\ (Len(toClient) = sent \/ upstream = "destroyed")
    BY DEF CompleteMeansAll
  <2>1. whole /\ (upstream = "destroyed" \/ (upstream = "done" /\ bodyIn = <<>>))
    BY DEF ExchangeInv, ResponseInv
  <2>2. CASE upstream = "done" /\ bodyIn = <<>>
    <3>1. Len(toClient) + Len(bodyIn) = sent /\ Len(toClient) \in Nat
      BY <2>2, LenProperties DEF ExchangeInv, BodyInv, TypeOK
    <3> QED BY <2>1, <2>2, <3>1
  <2> QED BY <2>1, <2>2
<1> QED BY <1>1, ExchangeInvariant, PTL

-----------------------------------------------------------------------------
(* The refinement of HttpService.                                          *)

\* The URL and the gate.
LEMMA GateSteps ==
  ASSUME ExchangeInv, Received \/ Authorized
  PROVE  Service!Next \/ UNCHANGED Service!vars
<1>1. /\ phase \in {"received", "authorizing"} /\ resp = 0 /\ upstream = "none"
      /\ UNCHANGED <<framed, sent, whole, toClient, client>>
  BY DEF Received, Authorized, ExchangeInv, ListenerInv, bodyVars
<1>2. CASE phase' = "authorizing"
  BY <1>1, <1>2 DEF Received, Authorized, Service!vars
<1>3. CASE phase' = "refused"
  <2>1. upstream' = "none" /\ \E code \in Refusals : Send(code)
    <3>1. CASE Received
      BY <1>1, <1>3, <3>1 DEF Received, Refusals
    <3>2. CASE Authorized
      BY <1>1, <1>3, <3>2, RefusalStatus DEF Authorized, Refusals
    <3> QED BY <3>1, <3>2
  <2>2. Service!Refusing
    BY <1>1, <2>1, SendEnds
  <2>3. Service!Decide
    BY <1>1, <1>3, <2>1, <2>2, Zenon DEF Service!Decide
  <2> QED BY <2>3 DEF Service!Next
<1>4. CASE phase' = "failed"
  <2>1. upstream' = "none" /\ Send(502)
    BY <1>1, <1>4 DEF Received, Authorized, ThrowReply
  <2>2. Service!Refusing
    BY <1>1, <2>1, SendEnds DEF Refusals
  <2>3. phase' \notin {"received", "authorizing", "refused"}
    BY <1>4
  <2>4. Service!Decide
    BY <1>1, <2>1, <2>2, <2>3, Zenon DEF Service!Decide
  <2> QED BY <2>4 DEF Service!Next
<1>5. CASE phase' = "fetching"
  <2>1. upstream' = "open" /\ UNCHANGED <<resp, res>>
    BY <1>5 DEF Received, Authorized
  <2>2. /\ phase' \notin {"received", "authorizing", "refused"} /\ upstream' # "none"
    BY <1>5, <2>1
  <2>3. Service!Decide
    BY <1>1, <2>1, <2>2, Zenon DEF Service!Decide
  <2> QED BY <2>3 DEF Service!Next
<1>6. phase' \in {"authorizing", "refused", "failed", "fetching"}
  BY DEF Received, Authorized
<1> QED BY <1>2, <1>3, <1>4, <1>5, <1>6

\* What the listeners write, and the end of the pipe.
LEMMA ListenerWrites ==
  ASSUME ExchangeInv, Response \/ PipeEnd \/ UpstreamError \/ Timeout
  PROVE  Service!Next \/ UNCHANGED Service!vars
<1> USE DEF ExchangeInv, ListenerInv, ResponseInv, TypeOK, handlerVars, bodyVars
<1>1. CASE Response
  <2>1. Service!Respond
    BY <1>1 DEF Response, Service!Respond
  <2> QED BY <2>1 DEF Service!Next
<1>2. CASE PipeEnd
  <2>1. toClient = Service!FirstChunks(sent)
    <3>1. toClient = Service!FirstChunks(Len(toClient))
      BY FollowsNone DEF BodyInv
    <3>2. Len(toClient) = sent
      <4>1. upstream # "destroyed" /\ bodyIn = <<>> /\ Len(toClient) \in Nat
        BY <1>2, LenProperties DEF PipeEnd, Drained
      <4> QED BY <4>1 DEF BodyInv
    <3> QED BY <3>1, <3>2
  <2>2. Service!Finish
    BY <1>2, <2>1 DEF PipeEnd, OK, Service!Finish
  <2> QED BY <2>2 DEF Service!Next
<1>3. CASE UpstreamError \/ Timeout
  <2>1. /\ phase \in {"fetching", "streaming"} /\ phase' = "failed"
        /\ upstream = "open" /\ upstream' = "destroyed"
        /\ UNCHANGED <<framed, sent, whole, toClient, client>>
        /\ resp = 0 \/ resp = OK
    BY <1>3 DEF UpstreamError, Timeout, Lost
  <2>2. CASE resp = 0
    <3>1. PICK code \in {502, 504} : Send(code)
      BY <1>3, <2>2 DEF UpstreamError, Timeout, HeadersNotSent
    <3>2. Service!Refusing
      BY <2>1, <2>2, <3>1, SendEnds DEF Refusals
    <3>3. Service!Refuse
      BY <2>1, <2>2, <3>2 DEF Service!Refuse
    <3> QED BY <3>3 DEF Service!Next
  <2>3. CASE resp # 0 /\ res' = res
    BY <1>3, <2>1, <2>3 DEF UpstreamError, Timeout, HeadersNotSent, Service!vars
  <2>4. CASE resp # 0 /\ res' # res
    <3>1. resp = OK /\ resp' = resp /\ whole /\ res = "open" /\ res' = "ended"
      BY <1>3, <2>1, <2>4 DEF UpstreamError, Timeout, HeadersNotSent
    <3>2. Service!Finish
      BY <2>1, <3>1 DEF Service!Finish
    <3> QED BY <3>2 DEF Service!Next
  <2> QED BY <2>2, <2>3, <2>4
<1> QED BY <1>1, <1>2, <1>3

\* The chunks, and the two ends.
LEMMA BodySteps ==
  ASSUME ExchangeInv, ExchangeInv',
         \/ PipeChunk \/ UpstreamSends \/ UpstreamEnds \/ UpstreamCloses
         \/ ClientGoes \/ QuietPeriod
  PROVE  Service!Next \/ UNCHANGED Service!vars
<1>1. CASE PipeChunk
  <2>1. /\ toClient \in Seq(1..MaxChunks) /\ bodyIn \in Seq(1..MaxChunks) /\ bodyIn # <<>>
        /\ toClient' = Append(toClient, Head(bodyIn)) /\ toClient' \in Seq(1..MaxChunks)
        /\ Follows(toClient', 0)
    BY <1>1 DEF PipeChunk, ExchangeInv, TypeOK, BodyInv
  <2>2. Len(toClient') = Len(toClient) + 1 /\ Len(toClient) \in Nat
    BY <2>1, AppendProperties, HeadTailProperties, LenProperties
  <2>3. toClient' = Service!FirstChunks(Len(toClient'))
    BY <2>1, FollowsNone
  <2>4. Len(toClient') <= sent /\ sent \in Nat
    <3>1. /\ Len(toClient') + Len(bodyIn') <= sent' /\ sent' = sent /\ sent \in Nat
          /\ bodyIn' \in Seq(1..MaxChunks)
      BY <1>1 DEF PipeChunk, ExchangeInv, TypeOK, BodyInv
    <3>2. Len(bodyIn') \in Nat
      BY <3>1, LenProperties
    <3> QED BY <2>2, <3>1, <3>2
  <2>5. resp = OK /\ res = "open" /\ UNCHANGED <<phase, upstream, whole, framed, resp, res, sent>>
    BY <1>1 DEF PipeChunk, ExchangeInv, ListenerInv, handlerVars
  <2>6. Service!Copy
    BY <2>2, <2>3, <2>4, <2>5 DEF Service!Copy
  <2> QED BY <2>6 DEF Service!Next
<1>2. CASE UpstreamSends
  <2>1. Service!UpstreamSends
    BY <1>2 DEF UpstreamSends, ExchangeInv, TypeOK, handlerVars, Service!UpstreamSends
  <2> QED BY <2>1 DEF Service!Next
<1>3. CASE UpstreamEnds
  <2>1. Service!UpstreamSends
    BY <1>3 DEF UpstreamEnds, ExchangeInv, TypeOK, handlerVars, Service!UpstreamSends
  <2> QED BY <2>1 DEF Service!Next
<1>4. CASE ClientGoes
  <2>1. CASE res = "open"
    <3>1. Service!Cut
      BY <1>4, <2>1 DEF ClientGoes, handlerVars, bodyVars, Service!Cut
    <3> QED BY <3>1 DEF Service!Next
  <2>2. CASE res # "open"
    BY <1>4, <2>2 DEF ClientGoes, handlerVars, bodyVars, Service!vars
  <2> QED BY <2>1, <2>2
<1>5. CASE QuietPeriod \/ UpstreamCloses
  BY <1>5 DEF QuietPeriod, UpstreamCloses, handlerVars, bodyVars, Service!vars
<1> QED BY <1>1, <1>2, <1>3, <1>4, <1>5

(***************************************************************************)
(* handleHttp implements HttpService: the gate before the exchange, one    *)
(* status although three listeners may write it, the body in order, and no *)
(* response that is ended although the upstream broke it off, for every    *)
(* number of chunks.                                                       *)
(***************************************************************************)
THEOREM NodeHttpImplementsService == Spec => Implements
<1>1. Init => Service!Init
  BY DEF Init, Service!Init
<1>2. ExchangeInv /\ ExchangeInv' /\ [Next]_vars => [Service!Next]_(Service!vars)
  <2> SUFFICES ASSUME ExchangeInv, ExchangeInv', [Next]_vars
               PROVE  Service!Next \/ UNCHANGED Service!vars
    OBVIOUS
  <2>1. CASE UNCHANGED vars
    BY <2>1 DEF vars, handlerVars, bodyVars, Service!vars
  <2> QED BY <2>1, GateSteps, ListenerWrites, BodySteps DEF Next
<1> QED BY <1>1, <1>2, ExchangeInvariant, PTL DEF Spec, Implements, Service!Spec
=============================================================================
