---------------------------- MODULE GoHttpProofs ----------------------------
(***************************************************************************)
(* A plain request of the Go proxy keeps the promise of HttpService, for   *)
(* bodies of any number of chunks.                                         *)
(***************************************************************************)
EXTENDS GoHttp, SequenceTheorems, TLAPS

-----------------------------------------------------------------------------
(* The inductive invariant.                                                *)

\* The elements of s are the chunks that follow the first n.
Follows(s, n) == \A i \in 1..Len(s) : s[i] = n + i

\* What the position of the handler says of the rest.
HandlerInv ==
  /\ pc \in {"check", "authorize"} => status = 0 /\ resp = 0
  /\ pc \in {"do", "copy"} => status = Pass
  /\ pc = "do" => resp = 0
  /\ pc = "copy" => resp = OK
  /\ status = Pass <=> upstream # "none"
  /\ pc \in {"do", "copy"} <=> upstream = "open"
  /\ pc = "returned" => resp # 0
  /\ IF pc = "returned" THEN res # "open" ELSE res # "ended"
  /\ upstream = "none" => upstreamEnd = "open"

\* The chunks written, and those still to be read while nothing is lost.
BodyInv ==
  /\ Follows(toClient, 0)
  /\ Follows(bodyIn, Len(toClient))
  /\ Len(toClient) + Len(bodyIn) <= sent
  /\ upstreamEnd # "lost" /\ ~expired => Len(toClient) + Len(bodyIn) = sent
  /\ pc \notin {"copy", "returned"} => sent = 0

ExchangeInv == TypeOK /\ HandlerInv /\ BodyInv
-----------------------------------------------------------------------------
(* Sequences of consecutive chunks.                                         *)

LEMMA FollowsEmpty == \A n : Follows(<<>>, n)
BY DEF Follows

\* The next chunk may be appended.
LEMMA FollowsAppend ==
  ASSUME NEW S, NEW s \in Seq(S), NEW n \in Nat, Follows(s, n), n + Len(s) + 1 \in S
  PROVE  LET t == Append(s, n + Len(s) + 1)
         IN  t \in Seq(S) /\ Len(t) = Len(s) + 1 /\ Follows(t, n)
BY AppendProperties, LenProperties DEF Follows

\* The first chunk may be taken away.
LEMMA FollowsTail ==
  ASSUME NEW S, NEW s \in Seq(S), NEW n \in Nat, Follows(s, n), s # <<>>
  PROVE  /\ Head(s) = n + 1 /\ n + 1 \in S
         /\ Tail(s) \in Seq(S) /\ Len(s) \in Nat \ {0} /\ Len(Tail(s)) = Len(s) - 1
         /\ Follows(Tail(s), n + 1)
<1>1. Len(s) \in Nat \ {0}
  BY EmptySeq
<1>2. Head(s) = s[1]
  OBVIOUS
<1>3. Head(s) \in S /\ Tail(s) \in Seq(S) /\ Len(Tail(s)) = Len(s) - 1
        /\ \A i \in 1..Len(Tail(s)) : Tail(s)[i] = s[i + 1]
  BY HeadTailProperties
<1> QED BY <1>1, <1>2, <1>3 DEF Follows

\* A chunk moves from what is not read yet to what is written.
LEMMA MoveChunk ==
  ASSUME NEW M \in Nat, NEW s \in Seq(1..M), NEW t \in Seq(1..M),
         Follows(t, 0), Follows(s, Len(t)), s # <<>>
  PROVE  LET rest == Tail(s)
             more == Append(t, Head(s))
         IN  /\ rest \in Seq(1..M) /\ more \in Seq(1..M)
             /\ Follows(more, 0) /\ Follows(rest, Len(more))
             /\ Len(more) \in Nat /\ Len(more) = Len(t) + 1 /\ Len(rest) = Len(s) - 1
<1>1. Len(t) \in Nat
  BY LenProperties
<1>2. /\ Head(s) = Len(t) + 1 /\ Len(t) + 1 \in 1..M
      /\ Tail(s) \in Seq(1..M) /\ Len(Tail(s)) = Len(s) - 1
      /\ Follows(Tail(s), Len(t) + 1)
  BY <1>1, FollowsTail
<1>3. 0 + Len(t) + 1 = Head(s) /\ 0 + Len(t) + 1 \in 1..M
  BY <1>1, <1>2
<1>4. /\ Append(t, 0 + Len(t) + 1) \in Seq(1..M) /\ Follows(Append(t, 0 + Len(t) + 1), 0)
      /\ Len(Append(t, 0 + Len(t) + 1)) = Len(t) + 1
  BY <1>3, FollowsAppend
<1> QED BY <1>1, <1>2, <1>3, <1>4

\* Chunks from the first on are the first chunks.
LEMMA FollowsNone ==
  ASSUME NEW S, NEW s \in Seq(S), Follows(s, 0)
  PROVE  s = Service!FirstChunks(Len(s))
BY LenProperties DEF Follows, Service!FirstChunks

-----------------------------------------------------------------------------
(* The invariant is inductive.                                             *)

LEMMA InitInv == Init => ExchangeInv
<1> SUFFICES ASSUME Init PROVE ExchangeInv
  OBVIOUS
<1>1. TypeOK
  <2>1. framed \in BOOLEAN /\ expired \in BOOLEAN
    BY Zenon DEF Init
  <2>2. bodyIn \in Seq(1..MaxChunks) /\ toClient \in Seq(1..MaxChunks) /\ sent \in 0..MaxChunks
    BY HttpAssumption, EmptySeq DEF Init
  <2> QED BY <2>1, <2>2 DEF Init, TypeOK, OK, Pass, Refusals
<1>2. HandlerInv
  BY DEF Init, HandlerInv, Pass
<1>3. BodyInv
  BY DEF Init, BodyInv, Follows
<1> QED BY <1>1, <1>2, <1>3 DEF ExchangeInv

\* Steps that leave the body alone.
LEMMA HandlerSteps ==
  ASSUME ExchangeInv, Check \/ AuthorizeReturns \/ DoFails \/ DoReturns \/ CopyReturns
  PROVE  TypeOK' /\ HandlerInv'
<1> USE DEF ExchangeInv, TypeOK, HandlerInv, Refusals, Pass, OK, Send, bodyVars, exchangeVars
<1>1. CASE Check
  BY <1>1 DEF Check
<1>2. CASE AuthorizeReturns
  <2>1. PICK lookup \in Lookup : status' = authorize(req, lookup)
    BY <1>2 DEF AuthorizeReturns
  <2>2. status' \in {Pass, 403, 407, 502}
    BY <2>1 DEF authorize, Lookup, InternalError
  <2>3. CASE status' = Pass
    BY <1>2, <2>3 DEF AuthorizeReturns
  <2>4. CASE status' # Pass
    BY <1>2, <2>2, <2>4 DEF AuthorizeReturns
  <2> QED BY <2>3, <2>4
<1>3. CASE DoFails
  BY <1>3 DEF DoFails, DoFailure
<1>4. CASE DoReturns
  BY <1>4 DEF DoReturns
<1>5. CASE CopyReturns
  BY <1>5 DEF CopyReturns
<1> QED BY <1>1, <1>2, <1>3, <1>4, <1>5

LEMMA HandlerBody ==
  ASSUME ExchangeInv, Check \/ AuthorizeReturns \/ DoFails \/ DoReturns \/ CopyReturns
  PROVE  BodyInv'
<1>1. UNCHANGED <<bodyVars, upstreamEnd, expired>>
        /\ (pc' \in {"copy", "returned"} \/ pc \notin {"copy", "returned"})
  BY DEF Check, AuthorizeReturns, DoFails, DoReturns, CopyReturns, exchangeVars
<1> QED BY <1>1 DEF ExchangeInv, BodyInv, Follows, bodyVars

LEMMA CopyChunkInv == ExchangeInv /\ CopyChunk => ExchangeInv'
<1> SUFFICES ASSUME ExchangeInv, CopyChunk PROVE ExchangeInv'
  OBVIOUS
<1>1. /\ pc = "copy" /\ bodyIn # <<>> /\ Len(bodyIn) \in Nat /\ Len(toClient) \in Nat
      /\ toClient \in Seq(1..MaxChunks) /\ bodyIn \in Seq(1..MaxChunks)
      /\ Follows(toClient, 0) /\ Follows(bodyIn, Len(toClient))
  BY LenProperties DEF CopyChunk, ExchangeInv, TypeOK, BodyInv
<1>2. /\ bodyIn' \in Seq(1..MaxChunks) /\ toClient' \in Seq(1..MaxChunks)
      /\ Follows(toClient', 0) /\ Follows(bodyIn', Len(toClient'))
      /\ Len(toClient') \in Nat
      /\ Len(toClient') = Len(toClient) + 1 /\ Len(bodyIn') = Len(bodyIn) - 1
  BY <1>1, MoveChunk, HttpAssumption DEF CopyChunk
<1>3. TypeOK' /\ HandlerInv'
  BY <1>2 DEF CopyChunk, ExchangeInv, TypeOK, HandlerInv, handlerVars, exchangeVars
<1>4. BodyInv'
  <2>1. UNCHANGED <<pc, upstreamEnd, expired, sent>> /\ sent \in Nat
    BY DEF CopyChunk, handlerVars, exchangeVars, ExchangeInv, TypeOK
  <2>2. Len(toClient') + Len(bodyIn') = Len(toClient) + Len(bodyIn)
    BY <1>1, <1>2
  <2>3. BodyInv
    BY DEF ExchangeInv
  <2> QED BY <1>1, <1>2, <2>1, <2>2, <2>3 DEF BodyInv
<1> QED BY <1>3, <1>4 DEF ExchangeInv

\* The upstream sends the chunk that follows.
LEMMA UpstreamSendsInv == ExchangeInv /\ UpstreamSends => ExchangeInv'
<1> SUFFICES ASSUME ExchangeInv, UpstreamSends PROVE ExchangeInv'
  OBVIOUS
<1> DEFINE n == Len(toClient)
<1>1. /\ n \in Nat /\ sent + 1 \in 1..MaxChunks /\ bodyIn \in Seq(1..MaxChunks)
      /\ Len(bodyIn) \in Nat /\ Follows(bodyIn, n) /\ sent = n + Len(bodyIn)
  BY HttpAssumption, LenProperties DEF UpstreamSends, ExchangeInv, TypeOK, BodyInv
<1>2. bodyIn' = Append(bodyIn, n + Len(bodyIn) + 1)
  BY <1>1 DEF UpstreamSends
<1>3. /\ bodyIn' \in Seq(1..MaxChunks) /\ Len(bodyIn') = Len(bodyIn) + 1
      /\ Follows(bodyIn', n)
  <2> HIDE DEF n
  <2> QED BY <1>1, <1>2, FollowsAppend
<1>4. TypeOK' /\ HandlerInv'
  BY <1>1, <1>3
     DEF UpstreamSends, ExchangeInv, TypeOK, HandlerInv, handlerVars, exchangeVars
<1>5. BodyInv'
  <2>1. UNCHANGED <<pc, toClient>> /\ pc = "copy" /\ sent' = sent + 1
    BY DEF UpstreamSends, handlerVars
  <2>2. Follows(toClient', 0) /\ Follows(bodyIn', Len(toClient'))
    BY <1>3, <2>1 DEF ExchangeInv, BodyInv
  <2>3. Len(toClient') + Len(bodyIn') = sent' /\ sent' \in Nat
    BY <1>1, <1>3, <2>1
  <2> QED BY <2>1, <2>2, <2>3 DEF BodyInv
<1> QED BY <1>4, <1>5 DEF ExchangeInv

\* The deadlines and the ends that send nothing.
LEMMA LossInv ==
  ExchangeInv /\ (Expire \/ WriteDeadline \/ ClientGoes \/ UpstreamEnds \/ UpstreamLost)
    => ExchangeInv'
<1> SUFFICES ASSUME ExchangeInv
             PROVE  Expire \/ WriteDeadline \/ ClientGoes \/ UpstreamEnds \/ UpstreamLost
                      => ExchangeInv'
  OBVIOUS
<1> USE DEF ExchangeInv, TypeOK, HandlerInv, BodyInv, Follows, handlerVars, bodyVars, exchangeVars
<1>1. ASSUME Expire PROVE ExchangeInv'
  <2>1. CASE bodyIn' = bodyIn
    BY <1>1, <2>1 DEF Expire, HasTimeout
  <2>2. CASE bodyIn' = <<>>
    BY <1>1, <2>2 DEF Expire, HasTimeout
  <2> QED BY <1>1, <2>1, <2>2 DEF Expire
<1>2. WriteDeadline => ExchangeInv'
  BY DEF WriteDeadline, HasWriteTimeout
<1>3. ClientGoes => ExchangeInv'
  BY DEF ClientGoes
<1>4. UpstreamEnds => ExchangeInv'
  BY DEF UpstreamEnds
<1>5. ASSUME UpstreamLost PROVE ExchangeInv'
  <2>1. CASE bodyIn' = bodyIn
    BY <1>5, <2>1 DEF UpstreamLost
  <2>2. CASE bodyIn' = <<>>
    BY <1>5, <2>2 DEF UpstreamLost
  <2> QED BY <1>5, <2>1, <2>2 DEF UpstreamLost
<1> QED BY <1>1, <1>2, <1>3, <1>4, <1>5

LEMMA StepInv == ExchangeInv /\ [Next]_vars => ExchangeInv'
<1> SUFFICES ASSUME ExchangeInv, [Next]_vars PROVE ExchangeInv'
  OBVIOUS
<1>1. CASE Handler
  BY <1>1, HandlerSteps, HandlerBody DEF Handler, ExchangeInv
<1>2. CASE UNCHANGED vars
  BY <1>2 DEF vars, handlerVars, bodyVars, exchangeVars, ExchangeInv, TypeOK, HandlerInv,
              BodyInv, Follows
<1> QED BY <1>1, <1>2, CopyChunkInv, UpstreamSendsInv, LossInv DEF Next, Ends

(***************************************************************************)
(* The invariant of an exchange: what was written and what was read have   *)
(* no gap, and the position of HandleHTTP agrees with status, response and *)
(* upstream, whichever deadline or end comes first.                        *)
(***************************************************************************)
THEOREM ExchangeInvariant == Spec => []ExchangeInv
BY InitInv, StepInv, PTL DEF Spec

-----------------------------------------------------------------------------
(* The refinement of HttpService.                                          *)

LEMMA GateSteps ==
  ASSUME ExchangeInv, AuthorizeReturns
  PROVE  Service!Decide
<1> USE DEF ExchangeInv, HandlerInv, Pass, Refusals
<1>1. PICK lookup \in Lookup : status' = authorize(req, lookup)
  BY DEF AuthorizeReturns
<1>2. status' \in {Pass, 403, 407, 502}
  BY <1>1 DEF authorize, Lookup, InternalError
<1>3. /\ status = 0 /\ resp = 0 /\ status' # 0 /\ upstream = "none"
      /\ UNCHANGED <<framed, sent, upstreamEnd, toClient>>
  BY <1>2 DEF AuthorizeReturns, bodyVars
<1>4. CASE status' = Pass
  <2>1. upstream' = "open" /\ UNCHANGED <<resp, res>>
    BY <1>4 DEF AuthorizeReturns
  <2> QED BY <1>3, <1>4, <2>1, Zenon DEF Service!Decide
<1>5. CASE status' # Pass
  <2>1. /\ upstream' = "none" /\ resp' \in Refusals /\ res \in {"open", "lost"}
        /\ res' = IF res = "open" THEN "ended" ELSE res
    BY <1>2, <1>3, <1>5 DEF AuthorizeReturns, Send, TypeOK
  <2>2. Service!Refusing
    BY <2>1 DEF Service!Refusing
  <2> QED BY <1>3, <1>5, <2>1, <2>2, Zenon DEF Service!Decide
<1> QED BY <1>4, <1>5

LEMMA RefusalSteps ==
  ASSUME ExchangeInv, Check \/ DoFails
  PROVE  Service!Next \/ UNCHANGED Service!vars
<1> USE DEF ExchangeInv, HandlerInv, TypeOK, Pass, Refusals, bodyVars, exchangeVars
<1>1. CASE Check /\ req.proxyURL
  BY <1>1 DEF Check, Service!vars
<1>2. CASE Check /\ ~req.proxyURL
  <2>1. /\ status = 0 /\ status' = 0 /\ resp = 0 /\ resp' = 400
        /\ upstream = "none" /\ upstream' = "none"
        /\ res \in {"open", "lost"} /\ res' = IF res = "open" THEN "ended" ELSE res
        /\ UNCHANGED <<framed, sent, upstreamEnd, toClient>>
    BY <1>2 DEF Check, Send
  <2>2. Service!Refusing
    BY <2>1 DEF Service!Refusing
  <2>3. resp' # 0 /\ status' # Pass
    BY <2>1
  <2>4. Service!Decide
    <3> HIDE DEF Pass, Refusals, TypeOK, HandlerInv
    <3>1. /\ status = 0 /\ resp = 0 /\ resp' # 0 /\ status' # Pass
          /\ upstream' = "none"
          /\ UNCHANGED <<framed, sent, upstreamEnd, toClient>>
      BY <2>1, <2>3
    <3> QED BY <2>2, <3>1, Zenon DEF Service!Decide
  <2> QED BY <2>4 DEF Service!Next
<1>3. CASE DoFails
  <2>1. Service!Refuse
    BY <1>3 DEF DoFails, DoFailure, Send, Service!Refuse, Service!Refusing
  <2> QED BY <2>1 DEF Service!Next
<1> QED BY <1>1, <1>2, <1>3

LEMMA ResponseSteps ==
  ASSUME ExchangeInv, DoReturns \/ CopyReturns \/ WriteDeadline \/ ClientGoes \/ Expire
  PROVE  Service!Next \/ UNCHANGED Service!vars
<1> USE DEF ExchangeInv, HandlerInv, TypeOK, Pass, handlerVars, bodyVars, exchangeVars
<1>1. CASE DoReturns
  <2>1. Service!Respond
    BY <1>1 DEF DoReturns, OK, Service!Respond
  <2> QED BY <2>1 DEF Service!Next
<1>2. CASE CopyReturns
  <2>1. CASE res = "open" /\ Complete
    <3>1. framed => upstreamEnd = "whole" /\ toClient = Service!FirstChunks(sent)
      <4>1. toClient = Service!FirstChunks(Len(toClient))
        BY FollowsNone DEF BodyInv
      <4> QED BY <2>1, <4>1 DEF Complete
    <3>2. Service!Finish
      BY <1>2, <2>1, <3>1 DEF CopyReturns, OK, Service!Finish
    <3> QED BY <3>2 DEF Service!Next
  <2>2. CASE res = "open" /\ ~Complete
    <3>1. Service!Cut
      BY <1>2, <2>2 DEF CopyReturns, Service!Cut
    <3> QED BY <3>1 DEF Service!Next
  <2>3. CASE res # "open"
    BY <1>2, <2>3 DEF CopyReturns, Service!vars
  <2> QED BY <2>1, <2>2, <2>3
<1>3. CASE WriteDeadline
  <2>1. Service!Cut
    BY <1>3 DEF WriteDeadline, HasWriteTimeout, Service!Cut
  <2> QED BY <2>1 DEF Service!Next
<1>4. CASE ClientGoes
  <2>1. Service!Cut
    BY <1>4 DEF ClientGoes, Service!Cut
  <2> QED BY <2>1 DEF Service!Next
<1>5. CASE Expire
  BY <1>5 DEF Expire, Service!vars
<1> QED BY <1>1, <1>2, <1>3, <1>4, <1>5

LEMMA BodySteps ==
  ASSUME ExchangeInv, ExchangeInv',
         CopyChunk \/ UpstreamSends \/ UpstreamEnds \/ UpstreamLost
  PROVE  Service!Next \/ UNCHANGED Service!vars
<1>1. CASE CopyChunk
  <2>1. /\ toClient \in Seq(1..MaxChunks) /\ bodyIn \in Seq(1..MaxChunks) /\ bodyIn # <<>>
        /\ toClient' = Append(toClient, Head(bodyIn)) /\ toClient' \in Seq(1..MaxChunks)
        /\ Follows(toClient', 0)
    BY <1>1 DEF CopyChunk, ExchangeInv, TypeOK, BodyInv
  <2>2. Len(toClient') = Len(toClient) + 1 /\ Len(toClient) \in Nat
    BY <2>1, AppendProperties, HeadTailProperties, LenProperties
  <2>3. toClient' = Service!FirstChunks(Len(toClient'))
    BY <2>1, FollowsNone
  <2>4. Len(toClient') <= sent /\ sent \in Nat
    <3>1. /\ Len(toClient') + Len(bodyIn') <= sent' /\ sent' = sent /\ sent \in Nat
          /\ bodyIn' \in Seq(1..MaxChunks)
      BY <1>1 DEF CopyChunk, ExchangeInv, TypeOK, BodyInv
    <3>2. Len(bodyIn') \in Nat
      BY <3>1, LenProperties
    <3> QED BY <2>2, <3>1, <3>2
  <2>5. resp = OK /\ res = "open"
          /\ UNCHANGED <<status, upstream, upstreamEnd, framed, resp, res, sent>>
    BY <1>1 DEF CopyChunk, ExchangeInv, HandlerInv, handlerVars, exchangeVars
  <2>6. Service!Copy
    BY <2>2, <2>3, <2>4, <2>5 DEF Service!Copy
  <2> QED BY <2>6 DEF Service!Next
<1>2. CASE UpstreamSends
  <2>1. Service!UpstreamSends
    <3>1. /\ upstream = "open" /\ upstreamEnd = "open" /\ sent' = sent + 1
          /\ UNCHANGED <<status, resp, upstream, upstreamEnd, framed, res, toClient>>
      BY <1>2 DEF UpstreamSends, ExchangeInv, HandlerInv, handlerVars, exchangeVars
    <3> QED BY <3>1 DEF Service!UpstreamSends
  <2> QED BY <2>1 DEF Service!Next
<1>3. CASE UpstreamEnds
  <2>1. Service!UpstreamSends
    <3>1. /\ upstream = "open" /\ upstreamEnd = "open" /\ upstreamEnd' = "whole"
          /\ UNCHANGED <<status, resp, upstream, sent, framed, res, toClient>>
      BY <1>3 DEF UpstreamEnds, ExchangeInv, HandlerInv, handlerVars, bodyVars
    <3> QED BY <3>1 DEF Service!UpstreamSends
  <2> QED BY <2>1 DEF Service!Next
<1>4. CASE UpstreamLost
  BY <1>4 DEF UpstreamLost, Service!vars, handlerVars
<1> QED BY <1>1, <1>2, <1>3, <1>4

(***************************************************************************)
(* HandleHTTP implements HttpService: the gate before the exchange, one    *)
(* status, the body in order, and no response with a Content-Length that   *)
(* ends as complete without being whole, for every number of chunks.       *)
(***************************************************************************)
THEOREM GoHttpImplementsService == Spec => Implements
<1>1. Init => Service!Init
  BY DEF Init, Service!Init
<1>2. ExchangeInv /\ ExchangeInv' /\ [Next]_vars => [Service!Next]_(Service!vars)
  <2> SUFFICES ASSUME ExchangeInv, ExchangeInv', [Next]_vars
               PROVE  Service!Next \/ UNCHANGED Service!vars
    OBVIOUS
  <2>1. CASE AuthorizeReturns
    BY <2>1, GateSteps DEF Service!Next
  <2>2. CASE UNCHANGED vars
    BY <2>2 DEF vars, handlerVars, bodyVars, exchangeVars, Service!vars
  <2> QED
    BY <2>1, <2>2, RefusalSteps, ResponseSteps, BodySteps DEF Next, Handler, Ends
<1> QED BY <1>1, <1>2, ExchangeInvariant, PTL DEF Spec, Implements, Service!Spec
=============================================================================
