------------------------- MODULE NodeConnectProofs -------------------------
(***************************************************************************)
(* A CONNECT of the Node proxy keeps the promise of ConnectService, and a  *)
(* side it ends has been written everything, for every number of bytes.    *)
(***************************************************************************)
EXTENDS NodeConnect, SequenceTheorems, TLAPS

-----------------------------------------------------------------------------
(* The inductive invariant.                                                *)

\* The elements of s are the bytes that follow the first n.
Follows(s, n) == \A i \in 1..Len(s) : s[i] = n + i

\* What the phase says of the status and of the two sockets.
ControlInv ==
  /\ phase \in {"authorizing", "dialing"} <=> resp = 0
  /\ phase = "tunnel" <=> resp = 200
  /\ phase \in {"authorizing", "refused"} => upstream = "none"
  /\ phase = "dialing" => upstream \in {"connecting", "destroyed"}
  /\ phase = "tunnel" => upstream \in {"open", "destroyed"}
  /\ phase = "failed" => upstream \in {"none", "destroyed"}
  /\ resp = 0 => conn # "ended"
  /\ piped => upstream = "open" /\ conn = "open"

\* The client's bytes, from those written to those not read yet, have no gap
\* as long as the socket may bring more; after upstream.end() there are none.
UpOrder ==
  /\ Follows(toUpstream, 0)
  /\ Follows(head, Len(toUpstream))
  /\ Follows(clientIn, Len(toUpstream) + Len(head))
  /\ IF resp = 200 THEN head = <<>> ELSE toUpstream = <<>>
  /\ Len(toUpstream) + Len(head) + Len(clientIn) <= sentUp
  /\ conn # "destroyed" => Len(toUpstream) + Len(head) + Len(clientIn) = sentUp
  /\ upEnded => resp = 200 /\ client # "open" /\ Len(toUpstream) = sentUp

\* The same for the upstream's bytes: all of them while its socket is open,
\* and all written where the client's socket was ended.
DownOrder ==
  /\ Follows(toClient, 0)
  /\ Follows(upstreamIn, Len(toClient))
  /\ upstream \in {"none", "connecting"} => sentDown = 0
  /\ resp # 200 => toClient = <<>>
  /\ Len(toClient) + Len(upstreamIn) <= sentDown
  /\ upstream = "open" => Len(toClient) + Len(upstreamIn) = sentDown
  /\ resp = 200 /\ conn = "ended" => upstream = "destroyed" /\ Len(toClient) = sentDown

TunnelInv == TypeOK /\ ControlInv /\ UpOrder /\ DownOrder
-----------------------------------------------------------------------------
(* Sequences of consecutive bytes.                                         *)

LEMMA FollowsEmpty == \A n : Follows(<<>>, n)
BY DEF Follows

\* The next byte may be appended.
LEMMA FollowsAppend ==
  ASSUME NEW S, NEW s \in Seq(S), NEW n \in Nat, Follows(s, n), n + Len(s) + 1 \in S
  PROVE  LET t == Append(s, n + Len(s) + 1)
         IN  t \in Seq(S) /\ Len(t) = Len(s) + 1 /\ Follows(t, n)
BY AppendProperties, LenProperties DEF Follows

\* The first byte may be taken away.
LEMMA FollowsTail ==
  ASSUME NEW S, NEW s \in Seq(S), NEW n \in Nat, Follows(s, n), s # <<>>
  PROVE  /\ Head(s) = n + 1 /\ n + 1 \in S
         /\ Tail(s) \in Seq(S) /\ Len(s) \in Nat \ {0} /\ Len(Tail(s)) = Len(s) - 1
         /\ Follows(Tail(s), n + 1)
<1>1. Len(s) \in Nat \ {0}
  BY EmptySeq
<1>2. Head(s) = s[1]
  OBVIOUS
<1>3. Head(s) \in S /\ Tail(s) \in Seq(S) /\ Len(Tail(s)) = Len(s) - 1
        /\ \A i \in 1..Len(Tail(s)) : Tail(s)[i] = s[i + 1]
  BY HeadTailProperties
<1> QED BY <1>1, <1>2, <1>3 DEF Follows

\* A byte moves from what is not read yet to what is written.
LEMMA MoveByte ==
  ASSUME NEW M \in Nat, NEW s \in Seq(1..M), NEW t \in Seq(1..M),
         Follows(t, 0), Follows(s, Len(t)), s # <<>>
  PROVE  LET rest == Tail(s)
             more == Append(t, Head(s))
         IN  /\ rest \in Seq(1..M) /\ more \in Seq(1..M)
             /\ Follows(more, 0) /\ Follows(rest, Len(more))
             /\ Len(more) \in Nat /\ Len(more) = Len(t) + 1 /\ Len(rest) = Len(s) - 1
<1>1. Len(t) \in Nat
  BY LenProperties
<1>2. /\ Head(s) = Len(t) + 1 /\ Len(t) + 1 \in 1..M
      /\ Tail(s) \in Seq(1..M) /\ Len(Tail(s)) = Len(s) - 1
      /\ Follows(Tail(s), Len(t) + 1)
  BY <1>1, FollowsTail
<1>3. 0 + Len(t) + 1 = Head(s) /\ 0 + Len(t) + 1 \in 1..M
  BY <1>1, <1>2
<1>4. /\ Append(t, 0 + Len(t) + 1) \in Seq(1..M) /\ Follows(Append(t, 0 + Len(t) + 1), 0)
      /\ Len(Append(t, 0 + Len(t) + 1)) = Len(t) + 1
  BY <1>3, FollowsAppend
<1> QED BY <1>1, <1>2, <1>3, <1>4

\* Bytes from the first on are the first bytes.
LEMMA FollowsNone ==
  ASSUME NEW S, NEW s \in Seq(S), Follows(s, 0)
  PROVE  s = Service!FirstBytes(Len(s))
BY LenProperties DEF Follows, Service!FirstBytes

-----------------------------------------------------------------------------
(* Steps that move no byte.                                                *)

\* What authorizeRequest answers.
LEMMA GateStatus ==
  ASSUME NEW lookup \in Lookup
  PROVE  authorize(req, lookup) \in {Pass, 403, 407, 502}
BY DEF authorize, Lookup, InternalError

\* What a step of the gate writes: nothing when it dials, else a refusal.
LEMMA GateWrites ==
  Authorized =>
    /\ phase = "authorizing"
    /\ \/ /\ phase' = "dialing" /\ upstream' = "connecting" /\ active' = TRUE
          /\ resp' = resp /\ conn' = conn
       \/ /\ phase' \in {"refused", "failed"} /\ resp' \in {403, 407, 502}
          /\ conn' = conn \/ (conn' = "ended" /\ conn # "destroyed")
          /\ upstream' = upstream /\ active' = active
<1> SUFFICES ASSUME Authorized PROVE GateWrites!2
  OBVIOUS
<1>1. PICK lookup \in Lookup :
        LET status == authorize(req, lookup) IN
        \/ /\ status # Pass
           /\ phase' = "refused" /\ resp' = status /\ conn' = Closing(status)
           /\ UNCHANGED <<upstream, active>>
        \/ /\ status = Pass /\ ~req.portOK
           /\ phase' = "failed" /\ resp' = ThrowReply
           /\ conn' = IF ThrowReply = 0 THEN conn ELSE Closing(ThrowReply)
           /\ UNCHANGED <<upstream, active>>
        \/ /\ status = Pass /\ req.portOK
           /\ phase' = "dialing" /\ upstream' = "connecting" /\ active' = TRUE
           /\ UNCHANGED <<resp, conn>>
  BY DEF Authorized
<1>2. authorize(req, lookup) \in {Pass, 403, 407, 502}
  BY GateStatus
<1> HIDE DEF Pass
<1> QED BY <1>1, <1>2 DEF Authorized, Refusals, ThrowReply, Closing

LEMMA AuthorizedInv == TunnelInv /\ Authorized => TunnelInv'
<1> SUFFICES ASSUME TunnelInv, Authorized PROVE TunnelInv'
  OBVIOUS
<1> USE DEF TunnelInv, endVars, upVars, downVars
<1>1. phase = "authorizing" /\ resp = 0 /\ upstream = "none"
        /\ UNCHANGED <<endVars, upVars, downVars, req, piped>>
  BY DEF Authorized, ControlInv
<1>2. TypeOK'
  <2>1. upstreamFin' = upstreamFin /\ upEnded' = upEnded /\ piped' = piped
    BY <1>1
  <2>2. active' \in {TRUE, active}
    BY GateWrites, Zenon
  <2>3. {upstreamFin', upEnded', piped', active'} \subseteq BOOLEAN
    BY <2>1, <2>2, Zenon DEF TypeOK
  <2>4. /\ phase' \in {"refused", "dialing", "failed"} /\ upstream' \in {"none", "connecting"}
        /\ resp' \in {0, 403, 407, 502} /\ conn' \in {conn, "ended"}
    BY <1>1, GateWrites
  <2> QED BY <1>1, <2>3, <2>4 DEF TypeOK, Refusals, Pass
<1>c. ControlInv'
  BY <1>1, GateWrites DEF TypeOK, ControlInv
<1>3. resp' # 200 /\ upstream' \in {"none", "connecting"}
        /\ (conn' # "destroyed" => conn # "destroyed")
  BY <1>1, GateWrites DEF Refusals
<1>4. UpOrder' /\ DownOrder'
  BY <1>1, <1>3 DEF UpOrder, DownOrder, Follows
<1> QED BY <1>2, <1>c, <1>4

LEMMA ConnectedInv == TunnelInv /\ Connected => TunnelInv'
<1> SUFFICES ASSUME TunnelInv, Connected PROVE TunnelInv'
  OBVIOUS
<1> USE DEF TunnelInv, endVars, downVars
<1>1. phase = "dialing" /\ resp = 0 /\ conn # "ended" /\ toUpstream = <<>> /\ toClient = <<>>
        /\ sentDown = 0
  BY DEF Connected, ControlInv, UpOrder, DownOrder, TypeOK
<1>2. TypeOK' /\ ControlInv'
  BY <1>1 DEF Connected, HeadFirst, TypeOK, ControlInv, Pass
<1>3. UpOrder'
  BY <1>1 DEF Connected, HeadFirst, UpOrder, Follows, TypeOK
<1>4. DownOrder'
  <2>1. Len(toClient) \in Nat /\ Len(upstreamIn) \in Nat
    BY LenProperties DEF TypeOK
  <2>2. Len(toClient) + Len(upstreamIn) = sentDown
    BY <1>1, <2>1 DEF DownOrder
  <2> QED BY <1>1, <2>2 DEF Connected, DownOrder, Follows
<1> QED BY <1>2, <1>3, <1>4

\* The ends of the pipes and of the sockets, and the timer.
LEMMA EndingInv ==
  TunnelInv /\ (PipeUpEnd \/ PipeDownEnd \/ UpstreamError \/ IdleTimeout \/ QuietPeriod
                  \/ ClientEnds \/ ClientResets \/ UpstreamEnds)
    => TunnelInv'
<1> SUFFICES ASSUME TunnelInv
             PROVE  PipeUpEnd \/ PipeDownEnd \/ UpstreamError \/ IdleTimeout \/ QuietPeriod
                      \/ ClientEnds \/ ClientResets \/ UpstreamEnds => TunnelInv'
  OBVIOUS
<1>1. /\ Len(toUpstream) \in Nat /\ Len(head) \in Nat /\ Len(clientIn) \in Nat
      /\ Len(toClient) \in Nat /\ Len(upstreamIn) \in Nat
      /\ sentUp \in Nat /\ sentDown \in Nat
  BY LenProperties DEF TunnelInv, TypeOK
<1>e. /\ <<>> \in Seq(1..MaxUp) /\ <<>> \in Seq(1..MaxDown) /\ Len(<<>>) = 0
      /\ \A n : Follows(<<>>, n)
  BY EmptySeq, FollowsEmpty
<1> USE DEF TunnelInv
<1>2. PipeUpEnd => TunnelInv'
  BY <1>1 DEF PipeUpEnd, TypeOK, ControlInv, UpOrder, DownOrder, Follows,
     handlerVars, endVars, downVars
<1>3. PipeDownEnd => TunnelInv'
  <2> SUFFICES ASSUME PipeDownEnd PROVE TunnelInv'
    OBVIOUS
  <2>1. /\ UNCHANGED <<req, phase, resp, client, sentUp, upstreamFin, sentDown, head, clientIn,
                       upEnded, toUpstream, upstreamIn, toClient, active>>
        /\ conn' = "ended" /\ upstream' = "destroyed" /\ piped' = FALSE
        /\ upstream = "open" /\ conn = "open" /\ upstreamIn = <<>>
    BY DEF PipeDownEnd, Drained, ControlInv, handlerVars, endVars, upVars, downVars
  <2>2. TypeOK'
    BY <2>1 DEF TypeOK
  <2>3. ControlInv'
    BY <2>1 DEF TypeOK, ControlInv
  <2>4. UpOrder' /\ DownOrder'
    BY <1>1, <1>e, <2>1 DEF UpOrder, DownOrder, Follows
  <2> QED BY <2>2, <2>3, <2>4
<1>4. UpstreamError => TunnelInv'
  <2> SUFFICES ASSUME UpstreamError PROVE TunnelInv'
    OBVIOUS
  <2>1. /\ UNCHANGED <<client, sentUp, upstreamFin, sentDown, head, clientIn, upEnded,
                       toUpstream, req, active, toClient>>
        /\ upstream' = "destroyed" /\ piped' = FALSE /\ upstreamIn' = <<>>
        /\ \/ resp = 0 /\ phase' = "failed" /\ resp' = 502 /\ conn' \in {"open", "ended", "destroyed"}
              /\ (conn' = "destroyed" <=> conn = "destroyed")
           \/ resp # 0 /\ conn' = "destroyed" /\ UNCHANGED <<phase, resp>>
    BY DEF UpstreamError, Closing, endVars, upVars, TypeOK, ControlInv
  <2>2. TypeOK'
    <3>1. {upstreamFin', upEnded', piped', active'} \subseteq BOOLEAN
      BY <2>1, Zenon DEF TypeOK
    <3>2. /\ phase' \in {phase, "failed"} /\ resp' \in {resp, 502}
          /\ conn' \in {"open", "ended", "destroyed"}
      BY <2>1
    <3> QED BY <1>e, <2>1, <3>1, <3>2 DEF TypeOK, Refusals
  <2>c. ControlInv'
    BY <2>1 DEF TypeOK, ControlInv, UpstreamError, Live
  <2>3. UpOrder' /\ DownOrder'
    BY <1>1, <1>e, <2>1 DEF UpOrder, DownOrder, Follows, ControlInv, UpstreamError, Live
  <2> QED BY <2>2, <2>c, <2>3
<1>5. IdleTimeout => TunnelInv'
  <2> SUFFICES ASSUME IdleTimeout PROVE TunnelInv'
    OBVIOUS
  <2>1. TypeOK' /\ ControlInv'
    <3>1. /\ Live(upstream) /\ upstream' = "destroyed" /\ conn' = "destroyed"
          /\ piped' = FALSE /\ upstreamIn' = <<>> /\ clientIn' = <<>>
          /\ UNCHANGED <<req, phase, resp, client, sentUp, upstreamFin, sentDown, head,
                         upEnded, active, toUpstream, toClient>>
      BY DEF IdleTimeout, TimerFires, handlerVars, endVars
    <3>2. {upstreamFin', upEnded', piped', active'} \subseteq BOOLEAN
      BY <3>1, Zenon DEF TypeOK
    <3>3. TypeOK'
      BY <1>e, <3>1, <3>2 DEF TypeOK
    <3>4. ControlInv'
      BY <3>1 DEF ControlInv, Live
    <3> QED BY <3>3, <3>4
  <2>2. UpOrder' /\ DownOrder'
    BY <1>1, <1>e DEF UpOrder, DownOrder, Follows, IdleTimeout, handlerVars, endVars
  <2> QED BY <2>1, <2>2
<1>6. QuietPeriod => TunnelInv'
  <2> SUFFICES ASSUME QuietPeriod PROVE TunnelInv'
    OBVIOUS
  <2>1. /\ UNCHANGED <<req, phase, resp, client, sentUp, upstreamFin, sentDown, head, clientIn,
                       upEnded, toUpstream, upstreamIn, toClient, conn, upstream, piped>>
        /\ active' = FALSE
    BY DEF QuietPeriod, handlerVars, endVars, upVars, downVars
  <2>2. TypeOK'
    BY <2>1 DEF TypeOK
  <2>3. ControlInv'
    BY <2>1 DEF ControlInv
  <2>4. UpOrder' /\ DownOrder'
    BY <1>1, <2>1 DEF UpOrder, DownOrder, Follows
  <2> QED BY <2>2, <2>3, <2>4
<1>7. ClientEnds => TunnelInv'
  BY <1>1 DEF ClientEnds, TypeOK, ControlInv, UpOrder, DownOrder, Follows,
     handlerVars, upVars, downVars
<1>8. ClientResets => TunnelInv'
  <2> SUFFICES ASSUME ClientResets PROVE TunnelInv'
    OBVIOUS
  <2>1. /\ client' = "reset" /\ conn' = "destroyed" /\ piped' = FALSE /\ clientIn' = <<>>
        /\ UNCHANGED <<req, phase, resp, upstreamIn, toClient, head, sentUp, upstream,
                       upstreamFin, sentDown, upEnded, active, toUpstream>>
    BY DEF ClientResets, handlerVars, downVars
  <2>2. TypeOK'
    <3>1. {upstreamFin', upEnded', piped', active'} \subseteq BOOLEAN
      BY <2>1, Zenon DEF TypeOK
    <3> QED BY <1>e, <2>1, <3>1 DEF TypeOK
  <2>3. ControlInv'
    BY <2>1 DEF ControlInv
  <2>4. UpOrder' /\ DownOrder'
    BY <1>1, <1>e, <2>1 DEF UpOrder, DownOrder, Follows
  <2> QED BY <2>2, <2>3, <2>4
<1>9. UpstreamEnds => TunnelInv'
  BY <1>1 DEF UpstreamEnds, TypeOK, ControlInv, UpOrder, DownOrder, Follows,
     handlerVars, upVars, downVars
<1> QED BY <1>2, <1>3, <1>4, <1>5, <1>6, <1>7, <1>8, <1>9

-----------------------------------------------------------------------------
(* Steps that move bytes.                                                  *)

LEMMA PipeUpInv == TunnelInv /\ PipeUp => TunnelInv'
<1> SUFFICES ASSUME TunnelInv, PipeUp PROVE TunnelInv'
  OBVIOUS
<1>1. /\ piped /\ ~upEnded /\ conn = "open" /\ resp = 200 /\ clientIn # <<>>
      /\ head = <<>> /\ Len(head) = 0 /\ Len(toUpstream) \in Nat /\ Len(clientIn) \in Nat
      /\ toUpstream \in Seq(1..MaxUp) /\ clientIn \in Seq(1..MaxUp)
      /\ Follows(toUpstream, 0) /\ Follows(clientIn, Len(toUpstream))
      /\ Len(toUpstream) + Len(head) + Len(clientIn) = sentUp
  <2>1. piped /\ ~upEnded /\ clientIn # <<>>
    BY DEF PipeUp
  <2>2. conn = "open" /\ resp = 200
    <3>1. upstream = "open" /\ conn = "open"
      BY <2>1 DEF TunnelInv, ControlInv
    <3>2. phase = "tunnel"
      BY <3>1 DEF TunnelInv, TypeOK, ControlInv
    <3> QED BY <3>1, <3>2 DEF TunnelInv, ControlInv
  <2>3. toUpstream \in Seq(1..MaxUp) /\ clientIn \in Seq(1..MaxUp)
    BY DEF TunnelInv, TypeOK
  <2>4. Len(toUpstream) \in Nat /\ Len(clientIn) \in Nat
    BY <2>3, LenProperties
  <2>5. head = <<>> /\ Len(head) = 0
    BY <2>2 DEF TunnelInv, UpOrder
  <2>6. Len(toUpstream) + Len(head) + Len(clientIn) = sentUp
    BY <2>2 DEF TunnelInv, UpOrder
  <2>7. Follows(toUpstream, 0) /\ Follows(clientIn, Len(toUpstream))
    <3>1. Len(toUpstream) + Len(head) = Len(toUpstream)
      BY <2>4, <2>5
    <3>2. Follows(toUpstream, 0) /\ Follows(clientIn, Len(toUpstream) + Len(head))
      BY DEF TunnelInv, UpOrder
    <3> QED BY <3>1, <3>2, Zenon
  <2> QED BY <2>1, <2>2, <2>3, <2>4, <2>5, <2>6, <2>7
<1>2. /\ clientIn' \in Seq(1..MaxUp) /\ toUpstream' \in Seq(1..MaxUp)
      /\ Follows(toUpstream', 0) /\ Follows(clientIn', Len(toUpstream'))
      /\ Len(toUpstream') \in Nat
      /\ Len(toUpstream') = Len(toUpstream) + 1 /\ Len(clientIn') = Len(clientIn) - 1
  BY <1>1, MoveByte, ConnectAssumption DEF PipeUp
<1>3. TypeOK' /\ ControlInv'
  BY <1>1, <1>2 DEF PipeUp, TunnelInv, TypeOK, ControlInv, handlerVars, endVars, downVars
<1>4. UpOrder'
  <2>1. UNCHANGED <<resp, conn, client, sentUp, head, upEnded>> /\ sentUp \in Nat
    BY DEF PipeUp, handlerVars, endVars, TunnelInv, TypeOK
  <2>2. Len(toUpstream') + Len(head') + Len(clientIn') = sentUp'
    <3>1. \A m, n \in Nat : (m + 1) + 0 + (n - 1) = m + 0 + n
      OBVIOUS
    <3>2. Len(head') = 0 /\ sentUp' = Len(toUpstream) + 0 + Len(clientIn)
      BY <1>1, <2>1, Zenon
    <3> QED BY <1>1, <1>2, <3>1, <3>2, Zenon
  <2>3. Follows(head', Len(toUpstream')) /\ Follows(clientIn', Len(toUpstream') + Len(head'))
    <3>1. Len(toUpstream') + Len(head') = Len(toUpstream')
      BY <1>1, <1>2, <2>1
    <3> QED BY <1>1, <1>2, <2>1, <3>1, FollowsEmpty, Zenon
  <2> QED BY <1>1, <1>2, <2>1, <2>2, <2>3 DEF UpOrder
<1>5. DownOrder'
  BY DEF PipeUp, TunnelInv, DownOrder, Follows, handlerVars, endVars, downVars
<1> QED BY <1>3, <1>4, <1>5 DEF TunnelInv

LEMMA PipeDownInv == TunnelInv /\ PipeDown => TunnelInv'
<1> SUFFICES ASSUME TunnelInv, PipeDown PROVE TunnelInv'
  OBVIOUS
<1>1. /\ piped /\ upstream = "open" /\ conn = "open" /\ resp = 200 /\ upstreamIn # <<>>
      /\ Len(toClient) \in Nat /\ Len(upstreamIn) \in Nat
      /\ toClient \in Seq(1..MaxDown) /\ upstreamIn \in Seq(1..MaxDown)
      /\ Follows(toClient, 0) /\ Follows(upstreamIn, Len(toClient))
      /\ Len(toClient) + Len(upstreamIn) = sentDown
  BY LenProperties DEF PipeDown, TunnelInv, TypeOK, ControlInv, DownOrder
<1>2. /\ upstreamIn' \in Seq(1..MaxDown) /\ toClient' \in Seq(1..MaxDown)
      /\ Follows(toClient', 0) /\ Follows(upstreamIn', Len(toClient'))
      /\ Len(toClient') \in Nat
      /\ Len(toClient') = Len(toClient) + 1 /\ Len(upstreamIn') = Len(upstreamIn) - 1
  BY <1>1, MoveByte, ConnectAssumption DEF PipeDown
<1>3. TypeOK' /\ ControlInv'
  BY <1>1, <1>2 DEF PipeDown, TunnelInv, TypeOK, ControlInv, handlerVars, endVars, upVars
<1>4. DownOrder'
  <2>1. UNCHANGED <<resp, conn, upstream, sentDown>> /\ sentDown \in Nat
    BY DEF PipeDown, handlerVars, endVars, TunnelInv, TypeOK
  <2>2. Len(toClient') + Len(upstreamIn') = sentDown'
    <3>1. \A m, n \in Nat : (m + 1) + (n - 1) = m + n
      OBVIOUS
    <3> QED BY <1>1, <1>2, <2>1, <3>1, Zenon
  <2> QED BY <1>1, <1>2, <2>1, <2>2 DEF DownOrder
<1>5. UpOrder'
  BY DEF PipeDown, TunnelInv, UpOrder, Follows, handlerVars, endVars, upVars
<1> QED BY <1>3, <1>4, <1>5 DEF TunnelInv

LEMMA ClientSendsInv == TunnelInv /\ ClientSends => TunnelInv'
<1> SUFFICES ASSUME TunnelInv, ClientSends PROVE TunnelInv'
  OBVIOUS
<1> DEFINE n == Len(toUpstream) + Len(head)
<1>1. /\ n \in Nat /\ sentUp \in Nat /\ sentUp + 1 \in 1..MaxUp /\ Len(clientIn) \in Nat
      /\ clientIn \in Seq(1..MaxUp) /\ Follows(clientIn, n) /\ ~upEnded
  BY ConnectAssumption, LenProperties DEF ClientSends, TunnelInv, TypeOK, UpOrder
<1>2. /\ clientIn' \in Seq(1..MaxUp) /\ Follows(clientIn', n) /\ Len(clientIn') \in Nat
      /\ n + Len(clientIn') <= sentUp + 1
      /\ conn # "destroyed" => n + Len(clientIn') = sentUp + 1
  <2>1. CASE conn = "destroyed"
    BY <1>1, <2>1 DEF ClientSends, TunnelInv, UpOrder
  <2>2. CASE conn # "destroyed"
    <3>1. clientIn' = Append(clientIn, n + Len(clientIn) + 1) /\ sentUp = n + Len(clientIn)
      BY <1>1, <2>2 DEF ClientSends, TunnelInv, UpOrder
    <3>2. /\ clientIn' \in Seq(1..MaxUp) /\ Len(clientIn') = Len(clientIn) + 1
          /\ Follows(clientIn', n)
      <4> HIDE DEF n
      <4> QED BY <1>1, <3>1, FollowsAppend
    <3> HIDE DEF n
    <3> QED BY <1>1, <3>1, <3>2
  <2> QED BY <2>1, <2>2
<1>3. TypeOK' /\ ControlInv'
  BY <1>1, <1>2 DEF ClientSends, TunnelInv, TypeOK, ControlInv, handlerVars, downVars
<1>4. UpOrder'
  <2>1. /\ UNCHANGED <<toUpstream, head, resp, conn, client, upEnded>> /\ sentUp' = sentUp + 1
    BY DEF ClientSends, handlerVars
  <2> QED BY <1>1, <1>2, <2>1 DEF TunnelInv, UpOrder
<1>5. DownOrder'
  BY DEF ClientSends, TunnelInv, DownOrder, Follows, handlerVars, downVars
<1> QED BY <1>3, <1>4, <1>5 DEF TunnelInv

LEMMA UpstreamSendsInv == TunnelInv /\ UpstreamSends => TunnelInv'
<1> SUFFICES ASSUME TunnelInv, UpstreamSends PROVE TunnelInv'
  OBVIOUS
<1> DEFINE n == Len(toClient)
<1>1. /\ n \in Nat /\ sentDown + 1 \in 1..MaxDown /\ upstreamIn \in Seq(1..MaxDown)
      /\ Len(upstreamIn) \in Nat /\ Follows(upstreamIn, n) /\ sentDown = n + Len(upstreamIn)
  BY ConnectAssumption, LenProperties DEF UpstreamSends, TunnelInv, TypeOK, DownOrder
<1>2. upstreamIn' = Append(upstreamIn, n + Len(upstreamIn) + 1)
  BY <1>1 DEF UpstreamSends
<1>3. /\ upstreamIn' \in Seq(1..MaxDown) /\ Len(upstreamIn') = Len(upstreamIn) + 1
      /\ Follows(upstreamIn', n)
  <2> HIDE DEF n
  <2> QED BY <1>1, <1>2, FollowsAppend
<1>4. TypeOK' /\ ControlInv'
  BY <1>1, <1>3 DEF UpstreamSends, TunnelInv, TypeOK, ControlInv, handlerVars, upVars
<1>5. DownOrder'
  <2>1. /\ UNCHANGED <<toClient, resp, conn, upstream>> /\ upstream = "open"
        /\ sentDown' = sentDown + 1
    BY DEF UpstreamSends, handlerVars
  <2>2. Len(toClient') + Len(upstreamIn') = sentDown' /\ sentDown' \in Nat
    BY <1>1, <1>3, <2>1
  <2> QED BY <1>3, <2>1, <2>2 DEF TunnelInv, DownOrder
<1>6. UpOrder'
  BY DEF UpstreamSends, TunnelInv, UpOrder, Follows, handlerVars, upVars
<1> QED BY <1>4, <1>5, <1>6 DEF TunnelInv

LEMMA InitInv == Init => TunnelInv
<1> SUFFICES ASSUME Init PROVE TunnelInv
  OBVIOUS
<1>1. head \in Seq(1..MaxUp) /\ Len(head) \in 0..MaxUp /\ Follows(head, 0)
  <2>1. CASE head = <<>>
    BY <2>1, EmptySeq, ConnectAssumption, FollowsEmpty
  <2>2. CASE head = <<1>> /\ MaxUp > 0
    BY <2>2, ConnectAssumption DEF Follows
  <2> QED BY <2>1, <2>2 DEF Init
<1>2. TypeOK
  <2>1. /\ clientIn \in Seq(1..MaxUp) /\ toUpstream \in Seq(1..MaxUp)
        /\ upstreamIn \in Seq(1..MaxDown) /\ toClient \in Seq(1..MaxDown)
        /\ sentUp \in 0..MaxUp /\ sentDown \in 0..MaxDown
    BY <1>1, ConnectAssumption, EmptySeq DEF Init
  <2> QED BY <1>1, <2>1 DEF Init, TypeOK, Refusals, Pass
<1>3. ControlInv
  BY DEF Init, ControlInv
<1>4. UpOrder /\ DownOrder
  BY <1>1, ConnectAssumption DEF Init, UpOrder, DownOrder, Follows
<1> QED BY <1>2, <1>3, <1>4 DEF TunnelInv

LEMMA StepInv == TunnelInv /\ [Next]_vars => TunnelInv'
<1> SUFFICES ASSUME TunnelInv, [Next]_vars PROVE TunnelInv'
  OBVIOUS
<1>1. CASE UNCHANGED vars
  BY <1>1 DEF vars, handlerVars, endVars, upVars, downVars, TunnelInv, TypeOK, ControlInv,
              UpOrder, DownOrder, Follows
<1> QED
  BY <1>1, AuthorizedInv, ConnectedInv, EndingInv, PipeUpInv, PipeDownInv, ClientSendsInv,
     UpstreamSendsInv DEF Next, Pipes, Ends

(***************************************************************************)
(* The invariant of a tunnel: its bytes have no gap and its phase agrees   *)
(* with the status and the sockets, whichever callback runs first          *)
(* (handleConnect, tunnelSockets).                                         *)
(***************************************************************************)
THEOREM TunnelInvariant == Spec => []TunnelInv
BY InitInv, StepInv, PTL DEF Spec

(***************************************************************************)
(* Types of a tunnel, kept by every callback of handleConnect.             *)
(***************************************************************************)
THEOREM TunnelTypes == Spec => []TypeOK
<1>1. TunnelInv => TypeOK
  BY DEF TunnelInv
<1> QED BY <1>1, TunnelInvariant, PTL

(***************************************************************************)
(* A side that tunnelSockets ends has been written every byte the other    *)
(* side sent before its FIN, however many, head included.                  *)
(***************************************************************************)
THEOREM EndLosesNothing == Spec => []EndMeansAll
<1>1. TunnelInv => EndMeansAll
  BY DEF TunnelInv, ControlInv, UpOrder, DownOrder, EndMeansAll
<1> QED BY <1>1, TunnelInvariant, PTL

-----------------------------------------------------------------------------
(* The refinement of ConnectService.                                       *)

\* Nothing that the mapping looks at.
LEMMA HiddenSteps ==
  ASSUME TunnelInv,
         \/ PipeUpEnd \/ PipeDownEnd \/ IdleTimeout \/ QuietPeriod
         \/ ClientEnds \/ ClientResets \/ UpstreamEnds
  PROVE  UNCHANGED Service!vars
<1>1. /\ UNCHANGED <<phase, resp, sentUp, toUpstream, sentDown, toClient>>
      /\ (upstream' # "none") = (upstream # "none")
  BY DEF PipeUpEnd, PipeDownEnd, IdleTimeout, QuietPeriod, ClientEnds, ClientResets,
         UpstreamEnds, TimerFires, Live, handlerVars, endVars, upVars, downVars,
         TunnelInv, ControlInv
<1> QED BY <1>1, Zenon DEF Service!vars

\* The gate, with the dial or the refusal it leads to, and a dial that fails.
LEMMA GateSteps ==
  ASSUME TunnelInv, Authorized \/ UpstreamError
  PROVE  Service!Next \/ UNCHANGED Service!vars
<1>1. CASE Authorized
  <2>1. /\ phase = "authorizing" /\ upstream = "none" /\ resp = 0
        /\ UNCHANGED <<sentUp, toUpstream, sentDown, toClient>>
    BY <1>1 DEF Authorized, TunnelInv, ControlInv, endVars, upVars, downVars
  <2> DEFINE Dials == phase' = "dialing" /\ upstream' = "connecting" /\ resp' = resp
             Refuses == /\ phase' \in {"refused", "failed"} /\ resp' \in {403, 407, 502}
                        /\ upstream' = upstream
             Decides == /\ phase' # "authorizing" /\ resp' \in {0} \cup Refusals
                        /\ (phase' = "tunnel") = (phase = "tunnel")
                        /\ (upstream' # "none") \in {FALSE, phase' # "refused"}
  <2>2. Decides
    <3>1. Dials => Decides
      BY <2>1
    <3>2. Refuses => Decides
      <4> SUFFICES ASSUME Refuses PROVE Decides
        OBVIOUS
      <4>1. /\ phase' # "authorizing" /\ resp' \in {0} \cup Refusals
            /\ (phase' = "tunnel") = (phase = "tunnel")
        BY <2>1 DEF Refusals
      <4>2. (upstream' # "none") = FALSE
        BY <2>1
      <4> QED BY <4>1, <4>2
    <3>3. Dials \/ Refuses
      BY <1>1, GateWrites
    <3> HIDE DEF Dials, Refuses, Decides
    <3> QED BY <3>1, <3>2, <3>3
  <2>3. Service!Decide
    BY <2>1, <2>2, Zenon DEF Service!Decide
  <2> QED BY <2>3 DEF Service!Next
<1>2. CASE UpstreamError
  <2>1. /\ phase # "authorizing" /\ phase # "refused" /\ upstream # "none" /\ upstream' # "none"
        /\ UNCHANGED <<sentUp, toUpstream, sentDown, toClient>>
    BY <1>2 DEF UpstreamError, Live, TunnelInv, ControlInv, endVars, upVars
  <2>2. CASE resp = 0
    <3>1. phase' = "failed" /\ resp' = 502 /\ phase # "tunnel"
      BY <1>2, <2>2 DEF UpstreamError, TunnelInv, ControlInv
    <3>2. (phase' = "tunnel") = (phase = "tunnel") /\ 502 \in Refusals
      BY <3>1 DEF Refusals
    <3>3. Service!Refuse
      BY <2>1, <2>2, <3>1, <3>2 DEF Service!Refuse
    <3> QED BY <3>3 DEF Service!Next
  <2>3. CASE resp # 0
    <3>1. UNCHANGED <<phase, resp>>
      BY <1>2, <2>3 DEF UpstreamError
    <3> QED BY <2>1, <3>1 DEF Service!vars
  <2> QED BY <2>2, <2>3
<1> QED BY <1>1, <1>2

\* The 200 and the bytes.
LEMMA TunnelSteps ==
  ASSUME TunnelInv, TunnelInv',
         Connected \/ PipeUp \/ PipeDown \/ ClientSends \/ UpstreamSends
  PROVE  Service!Next
<1>1. /\ toUpstream' = Service!FirstBytes(Len(toUpstream')) /\ Len(toUpstream') \in 0..sentUp'
      /\ toClient' = Service!FirstBytes(Len(toClient')) /\ Len(toClient') \in 0..sentDown'
  <2>1. toUpstream' \in Seq(1..MaxUp) /\ toClient' \in Seq(1..MaxDown)
          /\ Follows(toUpstream', 0) /\ Follows(toClient', 0)
    BY DEF TunnelInv, TypeOK, UpOrder, DownOrder
  <2>2. /\ Len(toUpstream') \in Nat /\ Len(head') \in Nat /\ Len(clientIn') \in Nat
        /\ Len(toClient') \in Nat /\ Len(upstreamIn') \in Nat
        /\ sentUp' \in Nat /\ sentDown' \in Nat
    BY LenProperties DEF TunnelInv, TypeOK
  <2>3. /\ Len(toUpstream') + Len(head') + Len(clientIn') <= sentUp'
        /\ Len(toClient') + Len(upstreamIn') <= sentDown'
    BY DEF TunnelInv, UpOrder, DownOrder
  <2>4. Len(toUpstream') \in 0..sentUp' /\ Len(toClient') \in 0..sentDown'
    BY <2>2, <2>3
  <2> QED BY <2>1, <2>4, FollowsNone
<1>2. CASE Connected
  <2>1. /\ phase = "dialing" /\ phase' = "tunnel" /\ resp = 0 /\ resp' = 200
        /\ upstream = "connecting" /\ upstream' = "open"
        /\ UNCHANGED <<sentUp, sentDown, toClient>>
    BY <1>2 DEF Connected, TunnelInv, TypeOK, ControlInv, endVars, downVars
  <2>2. Service!Establish
    BY <1>1, <2>1 DEF Service!Establish
  <2> QED BY <2>2 DEF Service!Next
<1>3. CASE PipeUp
  <2>1. resp = 200 /\ UNCHANGED <<phase, upstream, resp, sentUp, sentDown, toClient>>
    BY <1>3 DEF PipeUp, TunnelInv, TypeOK, ControlInv, handlerVars, endVars, downVars
  <2>2. Len(toUpstream') = Len(toUpstream) + 1 /\ Len(toUpstream) \in Nat
    <3>1. clientIn \in Seq(1..MaxUp) /\ clientIn # <<>> /\ toUpstream \in Seq(1..MaxUp)
            /\ toUpstream' = Append(toUpstream, Head(clientIn))
      BY <1>3 DEF PipeUp, TunnelInv, TypeOK
    <3> QED BY <3>1, AppendProperties, HeadTailProperties, LenProperties
  <2>3. Service!Up
    BY <1>1, <2>1, <2>2 DEF Service!Up
  <2> QED BY <2>3 DEF Service!Next
<1>4. CASE PipeDown
  <2>1. resp = 200 /\ UNCHANGED <<phase, upstream, resp, sentUp, sentDown, toUpstream>>
    BY <1>4 DEF PipeDown, TunnelInv, TypeOK, ControlInv, handlerVars, endVars, upVars
  <2>2. Len(toClient') = Len(toClient) + 1 /\ Len(toClient) \in Nat
    <3>1. upstreamIn \in Seq(1..MaxDown) /\ upstreamIn # <<>> /\ toClient \in Seq(1..MaxDown)
            /\ toClient' = Append(toClient, Head(upstreamIn))
      BY <1>4 DEF PipeDown, TunnelInv, TypeOK
    <3> QED BY <3>1, AppendProperties, HeadTailProperties, LenProperties
  <2>3. Service!Down
    BY <1>1, <2>1, <2>2 DEF Service!Down
  <2> QED BY <2>3 DEF Service!Next
<1>5. CASE ClientSends
  <2>1. Service!ClientSends
    BY <1>5 DEF ClientSends, handlerVars, downVars, Service!ClientSends
  <2> QED BY <2>1 DEF Service!Next
<1>6. CASE UpstreamSends
  <2>1. phase = "tunnel" /\ UNCHANGED <<phase, resp, upstream, sentUp, toUpstream, toClient>>
          /\ sentDown' = sentDown + 1
    BY <1>6 DEF UpstreamSends, handlerVars, upVars, TunnelInv, TypeOK, ControlInv
  <2>2. Service!UpstreamSends
    BY <2>1 DEF Service!UpstreamSends
  <2> QED BY <2>2 DEF Service!Next
<1> QED BY <1>2, <1>3, <1>4, <1>5, <1>6

(***************************************************************************)
(* handleConnect implements ConnectService: no dial before the gate lets   *)
(* the request pass, one status, and each side's bytes in order and once,  *)
(* head first, for every number of them.                                   *)
(***************************************************************************)
THEOREM NodeConnectImplementsService == Spec => Implements
<1>1. Init => Service!Init
  <2> SUFFICES ASSUME Init PROVE Service!Init
    OBVIOUS
  <2>1. sentUp \in Nat
    BY InitInv DEF TunnelInv, TypeOK
  <2> QED BY <2>1 DEF Init, Service!Init
<1>2. TunnelInv /\ TunnelInv' /\ [Next]_vars => [Service!Next]_(Service!vars)
  <2> SUFFICES ASSUME TunnelInv, TunnelInv', [Next]_vars
               PROVE  Service!Next \/ UNCHANGED Service!vars
    OBVIOUS
  <2>1. CASE UNCHANGED vars
    <3>1. UNCHANGED <<phase, upstream, resp, sentUp, toUpstream, sentDown, toClient>>
      BY <2>1 DEF vars, handlerVars, endVars, upVars, downVars
    <3> QED BY <3>1, Zenon DEF Service!vars
  <2> QED BY <2>1, HiddenSteps, GateSteps, TunnelSteps DEF Next, Pipes, Ends
<1> QED BY <1>1, <1>2, TunnelInvariant, PTL DEF Spec, Implements, Service!Spec
=============================================================================
