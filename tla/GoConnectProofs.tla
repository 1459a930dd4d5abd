-------------------------- MODULE GoConnectProofs --------------------------
(***************************************************************************)
(* A CONNECT of the Go proxy keeps the promise of ConnectService, and its  *)
(* deferred Close loses nothing, for every number of bytes.                *)
(***************************************************************************)
EXTENDS GoConnect, SequenceTheorems, TLAPS

-----------------------------------------------------------------------------
(* The inductive invariant.                                                *)

\* The elements of s are the bytes that follow the first n.
Follows(s, n) == \A i \in 1..Len(s) : s[i] = n + i

\* What the gate's answer and the position of the handler say of the rest.
ControlInv ==
  /\ status = 0 <=> pc = "authorize"
  /\ pc = "refuse" => status \in Refusals
  /\ pc \in {"dial", "establish", "forward", "copy"} => status = Pass
  /\ upstream # "none" => status = Pass
  /\ pc \in {"authorize", "hijack", "refuse", "dial"} => upstream = "none"
  /\ pc \in {"authorize", "hijack", "refuse", "dial", "establish"} => resp = 0
  /\ pc \in {"establish", "forward", "copy"} => upstream = "open"
  /\ pc \in {"forward", "copy"} => resp = 200
  /\ pc = "copy" => copier # "none"
  /\ copier # "none" => pc \in {"copy", "returned"} /\ resp = 200 /\ status = Pass /\ req.hijackable
  /\ conn = IF pc = "returned" /\ req.hijackable THEN "closed" ELSE "open"
  /\ pc = "returned" => upstream # "open"
  /\ pc \notin {"authorize", "hijack", "returned"} => req.hijackable
  /\ upstream = "none" => upstreamEnd = "open" /\ sentDown = 0

\* The client's bytes, from those written to those not read yet, have no gap
\* as long as the client may add to them.
UpOrder ==
  /\ Follows(toUpstream, 0)
  /\ Follows(buffered, Len(toUpstream))
  /\ Follows(clientIn, Len(toUpstream) + Len(buffered))
  /\ IF copier = "none" THEN toUpstream = <<>> ELSE buffered = <<>>
  /\ Len(toUpstream) + Len(buffered) + Len(clientIn) <= sentUp
  /\ conn = "open" /\ client = "open" =>
       Len(toUpstream) + Len(buffered) + Len(clientIn) = sentUp

\* The same for the upstream's bytes: all of them, unless it has reset.
DownOrder ==
  /\ Follows(toClient, 0)
  /\ Follows(chunk, Len(toClient))
  /\ Follows(upstreamIn, Len(toClient) + Len(chunk))
  /\ toClient # <<>> => resp = 200
  /\ Len(toClient) + Len(chunk) + Len(upstreamIn) <= sentDown
  /\ upstreamEnd # "reset" => Len(toClient) + Len(chunk) + Len(upstreamIn) = sentDown

TunnelInv == TypeOK /\ ControlInv /\ UpOrder /\ DownOrder /\ CloseMeansAll
-----------------------------------------------------------------------------
(* Sequences of consecutive bytes.                                         *)

LEMMA FollowsEmpty == \A n : Follows(<<>>, n)
BY DEF Follows

\* The next byte may be appended.
LEMMA FollowsAppend ==
  ASSUME NEW S, NEW s \in Seq(S), NEW n \in Nat, Follows(s, n), n + Len(s) + 1 \in S
  PROVE  LET t == Append(s, n + Len(s) + 1)
         IN  t \in Seq(S) /\ Len(t) = Len(s) + 1 /\ Follows(t, n)
BY AppendProperties, LenProperties DEF Follows

\* The first byte may be taken away.
LEMMA FollowsTail ==
  ASSUME NEW S, NEW s \in Seq(S), NEW n \in Nat, Follows(s, n), s # <<>>
  PROVE  /\ Head(s) = n + 1 /\ n + 1 \in S
         /\ Tail(s) \in Seq(S) /\ Len(s) \in Nat \ {0} /\ Len(Tail(s)) = Len(s) - 1
         /\ Follows(Tail(s), n + 1)
<1>1. Len(s) \in Nat \ {0}
  BY EmptySeq
<1>2. Head(s) = s[1]
  OBVIOUS
<1>3. Head(s) \in S /\ Tail(s) \in Seq(S) /\ Len(Tail(s)) = Len(s) - 1
        /\ \A i \in 1..Len(Tail(s)) : Tail(s)[i] = s[i + 1]
  BY HeadTailProperties
<1> QED BY <1>1, <1>2, <1>3 DEF Follows

\* A byte moves from what is not read yet to what is written.
LEMMA MoveByte ==
  ASSUME NEW M \in Nat, NEW s \in Seq(1..M), NEW t \in Seq(1..M),
         Follows(t, 0), Follows(s, Len(t)), s # <<>>
  PROVE  LET rest == Tail(s)
             more == Append(t, Head(s))
         IN  /\ Head(s) = Len(t) + 1 /\ Head(s) \in 1..M /\ Len(s) \in Nat
             /\ rest \in Seq(1..M) /\ more \in Seq(1..M)
             /\ Follows(more, 0) /\ Follows(rest, Len(more))
             /\ Len(more) \in Nat /\ Len(more) = Len(t) + 1 /\ Len(rest) = Len(s) - 1
<1>1. Len(t) \in Nat
  BY LenProperties
<1>2. /\ Head(s) = Len(t) + 1 /\ Len(t) + 1 \in 1..M
      /\ Tail(s) \in Seq(1..M) /\ Len(s) \in Nat /\ Len(Tail(s)) = Len(s) - 1
      /\ Follows(Tail(s), Len(t) + 1)
  BY <1>1, FollowsTail
<1>3. 0 + Len(t) + 1 = Head(s) /\ 0 + Len(t) + 1 \in 1..M
  BY <1>1, <1>2
<1>4. /\ Append(t, 0 + Len(t) + 1) \in Seq(1..M) /\ Follows(Append(t, 0 + Len(t) + 1), 0)
      /\ Len(Append(t, 0 + Len(t) + 1)) = Len(t) + 1
  BY <1>3, FollowsAppend
<1> QED BY <1>1, <1>2, <1>3, <1>4

\* Bytes from the first on are the first bytes.
LEMMA FollowsNone ==
  ASSUME NEW S, NEW s \in Seq(S), Follows(s, 0)
  PROVE  s = Service!FirstBytes(Len(s))
BY LenProperties DEF Follows, Service!FirstBytes

-----------------------------------------------------------------------------
(* Steps of the handler that move no byte.                                 *)

\* The positions and the order are untouched, so only what they imply is new.
LEMMA BytesUntouched ==
  ASSUME TunnelInv, UNCHANGED <<endVars, bufferVars, writtenVars>>,
         copier' = copier, resp = 200 => resp' = 200,
         conn' = "closed" \/ conn' = conn
  PROVE  UpOrder' /\ DownOrder'
BY DEF TunnelInv, UpOrder, DownOrder, Follows, endVars, bufferVars, writtenVars

LEMMA ControlSteps ==
  ASSUME TunnelInv,
         \/ AuthorizeReturns \/ HijackRefused \/ Hijacked \/ Refuse \/ Dialed \/ DialFails
         \/ Established \/ EstablishFails \/ ForwardFails
  PROVE  TypeOK' /\ ControlInv' /\ CloseMeansAll'
<1> USE DEF TunnelInv, TypeOK, ControlInv, CloseMeansAll, Refusals, Pass, Return,
            ClosedOnReturn, endVars, bufferVars, writtenVars
<1>1. CASE AuthorizeReturns
  <2>1. PICK lookup \in Lookup : status' = authorize(req, lookup)
    BY <1>1 DEF AuthorizeReturns
  <2>2. status' \in {Pass, 403, 407, 502}
    BY <2>1 DEF authorize, Lookup, InternalError
  <2> QED BY <1>1, <2>2 DEF AuthorizeReturns
<1>2. CASE HijackRefused
  BY <1>2 DEF HijackRefused
<1>3. CASE Hijacked
  BY <1>3 DEF Hijacked
<1>4. CASE Refuse
  BY <1>4 DEF Refuse
<1>5. CASE Dialed
  BY <1>5 DEF Dialed
<1>6. CASE DialFails
  BY <1>6 DEF DialFails, DialReply
<1>7. CASE Established
  BY <1>7 DEF Established
<1>8. CASE EstablishFails
  BY <1>8 DEF EstablishFails
<1>9. CASE ForwardFails
  BY <1>9 DEF ForwardFails
<1> QED BY <1>1, <1>2, <1>3, <1>4, <1>5, <1>6, <1>7, <1>8, <1>9

-----------------------------------------------------------------------------
(* Steps that move bytes.                                                  *)

LEMMA ForwardedInv == TunnelInv /\ Forwarded => TunnelInv'
<1> SUFFICES ASSUME TunnelInv, Forwarded PROVE TunnelInv'
  OBVIOUS
<1> USE DEF TunnelInv
<1>1. pc = "forward" /\ copier = "none" /\ toUpstream = <<>> /\ toUpstream' = buffered
        /\ buffered' = <<>>
  BY ConcatEmptySeq DEF Forwarded, ForwardBuffered, TypeOK, ControlInv, UpOrder
<1>2. TypeOK' /\ ControlInv' /\ CloseMeansAll'
  BY <1>1 DEF Forwarded, TypeOK, ControlInv, CloseMeansAll, endVars
<1>3. UpOrder'
  BY <1>1, EmptySeq DEF Forwarded, UpOrder, Follows, TypeOK, endVars
<1>4. DownOrder'
  BY <1>1 DEF Forwarded, DownOrder, Follows, endVars
<1> QED BY <1>2, <1>3, <1>4

LEMMA CopyUpInv == TunnelInv /\ CopyUpMoves => TunnelInv'
<1> SUFFICES ASSUME TunnelInv, CopyUpMoves PROVE TunnelInv'
  OBVIOUS
<1>1. /\ copier = "running" /\ conn = "open" /\ clientIn # <<>> /\ pc = "copy"
      /\ buffered = <<>> /\ Len(buffered) = 0 /\ Len(toUpstream) \in Nat
      /\ toUpstream \in Seq(1..MaxUp) /\ clientIn \in Seq(1..MaxUp)
      /\ Follows(toUpstream, 0) /\ Follows(clientIn, Len(toUpstream))
  BY LenProperties DEF CopyUpMoves, ControlInv, UpOrder, TypeOK, TunnelInv
<1>2. /\ clientIn' \in Seq(1..MaxUp) /\ toUpstream' \in Seq(1..MaxUp)
      /\ Follows(toUpstream', 0) /\ Follows(clientIn', Len(toUpstream'))
      /\ Len(toUpstream') \in Nat
      /\ Len(toUpstream') = Len(toUpstream) + 1 /\ Len(clientIn') = Len(clientIn) - 1
  BY <1>1, MoveByte, ConnectAssumption DEF CopyUpMoves
<1>3. TypeOK' /\ ControlInv' /\ CloseMeansAll'
  BY <1>1, <1>2
     DEF CopyUpMoves, TunnelInv, TypeOK, ControlInv, CloseMeansAll, handlerVars, endVars
<1>4. buffered' = <<>> /\ Len(buffered') = 0 /\ Len(toUpstream') + Len(buffered') = Len(toUpstream')
  BY <1>1, <1>2 DEF CopyUpMoves
<1>5. UpOrder'
  <2>1. Follows(buffered', Len(toUpstream')) /\ Follows(clientIn', Len(toUpstream') + Len(buffered'))
    BY <1>2, <1>4, FollowsEmpty
  <2>2. Len(clientIn) \in Nat
    BY <1>1, LenProperties
  <2>3. UNCHANGED <<copier, conn, client, sentUp>> /\ sentUp \in Nat
    BY DEF CopyUpMoves, handlerVars, endVars, TunnelInv, TypeOK
  <2>4. Len(toUpstream') + Len(buffered') + Len(clientIn')
          = Len(toUpstream) + Len(buffered) + Len(clientIn)
    BY <1>1, <1>2, <1>4, <2>2
  <2>5. /\ Len(toUpstream) + Len(buffered) + Len(clientIn) <= sentUp
        /\ conn = "open" /\ client = "open" =>
             Len(toUpstream) + Len(buffered) + Len(clientIn) = sentUp
    BY DEF TunnelInv, UpOrder
  <2> QED
    BY <1>1, <1>2, <1>4, <2>1, <2>3, <2>4, <2>5 DEF UpOrder
<1>6. DownOrder'
  BY DEF CopyUpMoves, TunnelInv, DownOrder, Follows, handlerVars, endVars
<1> QED BY <1>3, <1>5, <1>6 DEF TunnelInv

LEMMA CopyReadsInv == TunnelInv /\ CopyReads => TunnelInv'
<1> SUFFICES ASSUME TunnelInv, CopyReads PROVE TunnelInv'
  OBVIOUS
<1>1. /\ chunk = <<>> /\ Len(chunk) = 0 /\ upstreamIn # <<>> /\ Len(toClient) \in Nat
      /\ upstreamIn \in Seq(1..MaxDown) /\ Follows(upstreamIn, Len(toClient))
  <2>1. /\ chunk = <<>> /\ Len(chunk) = 0 /\ upstreamIn # <<>>
        /\ toClient \in Seq(1..MaxDown) /\ upstreamIn \in Seq(1..MaxDown)
        /\ Follows(upstreamIn, Len(toClient) + Len(chunk))
    BY DEF CopyReads, DownOrder, TypeOK, TunnelInv
  <2> QED BY <2>1, LenProperties
<1>2. /\ Head(upstreamIn) = Len(toClient) + 1 /\ Head(upstreamIn) \in 1..MaxDown
      /\ upstreamIn' \in Seq(1..MaxDown) /\ Len(upstreamIn') = Len(upstreamIn) - 1
      /\ Follows(upstreamIn', Len(toClient) + 1)
      /\ Len(upstreamIn) \in Nat
  <2>1. toClient \in Seq(1..MaxDown) /\ Follows(toClient, 0)
    BY DEF TunnelInv, TypeOK, DownOrder
  <2>2. Len(Append(toClient, Head(upstreamIn))) = Len(toClient) + 1
          /\ Follows(Tail(upstreamIn), Len(Append(toClient, Head(upstreamIn))))
    BY <1>1, <2>1, MoveByte, ConnectAssumption
  <2> QED BY <1>1, <2>1, <2>2, MoveByte, ConnectAssumption DEF CopyReads
<1>3. /\ chunk' = <<Len(toClient) + 1>> /\ Len(chunk') = 1 /\ Follows(chunk', Len(toClient))
      /\ chunk' \in {<<n>> : n \in 1..MaxDown}
  BY <1>1, <1>2 DEF CopyReads, Follows
<1>4. TypeOK' /\ ControlInv' /\ CloseMeansAll'
  BY <1>2, <1>3 DEF CopyReads, TunnelInv, TypeOK, ControlInv, CloseMeansAll, handlerVars,
                    endVars, writtenVars
<1>5. DownOrder'
  <2>1. UNCHANGED <<resp, upstreamEnd, sentDown, toClient>>
    BY DEF CopyReads, handlerVars, endVars, writtenVars
  <2>2. Len(toClient) + Len(chunk') + Len(upstreamIn') = Len(toClient) + Len(chunk) + Len(upstreamIn)
    BY <1>1, <1>2, <1>3
  <2> QED BY <1>2, <1>3, <2>1, <2>2 DEF DownOrder, TunnelInv
<1>6. UpOrder'
  BY DEF CopyReads, TunnelInv, UpOrder, Follows, handlerVars, endVars, writtenVars
<1> QED BY <1>4, <1>5, <1>6 DEF TunnelInv

LEMMA CopyWritesInv ==
  TunnelInv /\ CopyWrites => TunnelInv' /\ Len(toClient') = Len(toClient) + 1
<1> SUFFICES ASSUME TunnelInv, CopyWrites
             PROVE  TunnelInv' /\ Len(toClient') = Len(toClient) + 1
  OBVIOUS
<1>1. /\ pc = "copy" /\ resp = 200 /\ Len(toClient) \in Nat /\ toClient \in Seq(1..MaxDown)
      /\ Len(upstreamIn) \in Nat
      /\ Follows(toClient, 0) /\ Follows(upstreamIn, Len(toClient) + Len(chunk))
  BY LenProperties DEF CopyWrites, ControlInv, DownOrder, TypeOK, TunnelInv
<1>2. /\ chunk = <<Len(toClient) + 1>> /\ Len(chunk) = 1 /\ Len(toClient) + 1 \in 1..MaxDown
  <2>1. PICK n \in 1..MaxDown : chunk = <<n>>
    BY DEF CopyWrites, TunnelInv, TypeOK
  <2>2. n = Len(toClient) + 1
    BY <2>1 DEF TunnelInv, DownOrder, Follows
  <2> QED BY <2>1, <2>2
<1>3. toClient' = Append(toClient, 0 + Len(toClient) + 1)
  <2>1. Append(toClient, Len(toClient) + 1) = toClient \o <<Len(toClient) + 1>>
    BY <1>1, <1>2, AppendIsConcat
  <2> QED BY <1>1, <1>2, <2>1 DEF CopyWrites
<1>4. /\ toClient' \in Seq(1..MaxDown) /\ Follows(toClient', 0)
      /\ Len(toClient') = Len(toClient) + 1
  <2>1. 0 + Len(toClient) + 1 \in 1..MaxDown
    BY <1>1, <1>2
  <2> QED BY <1>1, <1>3, <2>1, FollowsAppend
<1>5. chunk' = <<>> /\ Len(chunk') = 0 /\ Follows(chunk', Len(toClient'))
  BY FollowsEmpty DEF CopyWrites
<1>6. TypeOK' /\ ControlInv' /\ CloseMeansAll'
  BY <1>1, <1>4, <1>5 DEF CopyWrites, TunnelInv, TypeOK, ControlInv, CloseMeansAll,
                          handlerVars, endVars
<1>7. DownOrder'
  <2>1. UNCHANGED <<resp, upstreamEnd, sentDown, upstreamIn>>
    BY DEF CopyWrites, handlerVars, endVars
  <2>2. /\ Len(toClient') + Len(chunk') = Len(toClient) + Len(chunk)
        /\ Len(toClient') + Len(chunk') + Len(upstreamIn)
             = Len(toClient) + Len(chunk) + Len(upstreamIn)
    BY <1>1, <1>2, <1>4, <1>5
  <2> QED BY <1>1, <1>4, <1>5, <2>1, <2>2 DEF DownOrder, TunnelInv
<1>8. UpOrder'
  BY DEF CopyWrites, TunnelInv, UpOrder, Follows, handlerVars, endVars
<1> QED BY <1>4, <1>6, <1>7, <1>8 DEF TunnelInv

\* Either end adds the byte that follows.
LEMMA SendsInv == TunnelInv /\ (ClientSends \/ UpstreamSends) => TunnelInv'
<1> SUFFICES ASSUME TunnelInv PROVE ClientSends \/ UpstreamSends => TunnelInv'
  OBVIOUS
<1> USE DEF TunnelInv
<1>1. ASSUME ClientSends PROVE TunnelInv'
  <2> DEFINE n == Len(toUpstream) + Len(buffered)
  <2>1. n \in Nat /\ sentUp + 1 \in 1..MaxUp /\ clientIn \in Seq(1..MaxUp) /\ Follows(clientIn, n)
    BY <1>1, ConnectAssumption DEF ClientSends, TypeOK, UpOrder
  <2>2. CASE conn = "open"
    <3>1. clientIn' = Append(clientIn, n + Len(clientIn) + 1) /\ sentUp = n + Len(clientIn)
      BY <1>1, <2>1, <2>2 DEF ClientSends, UpOrder, TypeOK
    <3>2. /\ clientIn' \in Seq(1..MaxUp) /\ Len(clientIn') = Len(clientIn) + 1
          /\ Follows(clientIn', n)
      <4> HIDE DEF n
      <4> QED BY <2>1, <3>1, FollowsAppend
    <3>3. TypeOK' /\ ControlInv' /\ CloseMeansAll'
      BY <1>1, <2>1, <3>2 DEF ClientSends, TypeOK, ControlInv, CloseMeansAll, handlerVars, writtenVars
    <3>4. UpOrder'
      <4>1. /\ UNCHANGED <<toUpstream, buffered, copier, conn, client>> /\ sentUp' = sentUp + 1
            /\ Len(clientIn) \in Nat
        BY <1>1, <2>1, LenProperties DEF ClientSends, handlerVars, writtenVars
      <4>2. Follows(clientIn', Len(toUpstream') + Len(buffered'))
        BY <3>2, <4>1
      <4>3. Len(toUpstream') + Len(buffered') + Len(clientIn') = sentUp'
        BY <2>1, <3>1, <3>2, <4>1
      <4> QED BY <4>1, <4>2, <4>3, <2>1, <3>1 DEF UpOrder, TypeOK
    <3>5. DownOrder'
      BY <1>1 DEF ClientSends, DownOrder, Follows, handlerVars, writtenVars
    <3> QED BY <3>3, <3>4, <3>5
  <2>3. CASE conn # "open"
    <3>1. TypeOK' /\ ControlInv' /\ CloseMeansAll'
      BY <1>1, <2>1, <2>3 DEF ClientSends, TypeOK, ControlInv, CloseMeansAll, handlerVars, writtenVars
    <3>2. UpOrder' /\ DownOrder'
      BY <1>1, <2>1, <2>3
         DEF ClientSends, UpOrder, DownOrder, Follows, TypeOK, handlerVars, writtenVars
    <3> QED BY <3>1, <3>2
  <2> QED BY <2>2, <2>3
<1>2. ASSUME UpstreamSends PROVE TunnelInv'
  <2> DEFINE n == Len(toClient) + Len(chunk)
  <2>1. /\ n \in Nat /\ sentDown + 1 \in 1..MaxDown /\ upstreamIn \in Seq(1..MaxDown)
        /\ Follows(upstreamIn, n) /\ sentDown = n + Len(upstreamIn)
    <3>1. /\ Len(toClient) \in Nat /\ Len(chunk) \in Nat /\ Len(upstreamIn) \in Nat
          /\ upstreamIn \in Seq(1..MaxDown)
      BY LenProperties DEF TypeOK
    <3>2. /\ sentDown \in Nat /\ sentDown + 1 \in 1..MaxDown
          /\ Follows(upstreamIn, n) /\ sentDown = n + Len(upstreamIn)
      BY <1>2, ConnectAssumption DEF UpstreamSends, TypeOK, DownOrder
    <3> QED BY <3>1, <3>2
  <2>2. upstreamIn' = Append(upstreamIn, n + Len(upstreamIn) + 1)
    BY <1>2, <2>1 DEF UpstreamSends
  <2>3. /\ upstreamIn' \in Seq(1..MaxDown) /\ Len(upstreamIn') = Len(upstreamIn) + 1
        /\ Follows(upstreamIn', n)
    <3> HIDE DEF n
    <3> QED BY <2>1, <2>2, FollowsAppend
  <2>4. TypeOK' /\ ControlInv' /\ CloseMeansAll'
    BY <1>2, <2>1, <2>3
       DEF UpstreamSends, TypeOK, ControlInv, CloseMeansAll, handlerVars, writtenVars
  <2>5. DownOrder'
    BY <1>2, <2>1, <2>3 DEF UpstreamSends, DownOrder, TypeOK, handlerVars, writtenVars
  <2>6. UpOrder'
    BY <1>2 DEF UpstreamSends, UpOrder, Follows, handlerVars, writtenVars
  <2> QED BY <2>4, <2>5, <2>6
<1> QED BY <1>1, <1>2

\* The ends that send no more, and the copies that end.
LEMMA EndingInv ==
  TunnelInv /\ (CopyUpEnds \/ CopyDownEnds \/ ClientEnds \/ ClientResets
                  \/ UpstreamEnds \/ UpstreamResets)
    => TunnelInv'
<1> SUFFICES ASSUME TunnelInv
             PROVE  CopyUpEnds \/ CopyDownEnds \/ ClientEnds \/ ClientResets
                      \/ UpstreamEnds \/ UpstreamResets => TunnelInv'
  OBVIOUS
<1> USE DEF TunnelInv, TypeOK, ControlInv, UpOrder, DownOrder, CloseMeansAll, Follows,
            handlerVars, endVars, bufferVars, writtenVars
<1>1. CopyUpEnds => TunnelInv'
  BY DEF CopyUpEnds
<1>2. CopyDownEnds => TunnelInv'
  BY EmptySeq DEF CopyDownEnds, CopyDrained, Return, ClosedOnReturn
<1>3. ClientEnds => TunnelInv'
  BY DEF ClientEnds
<1>4. ClientResets => TunnelInv'
  BY DEF ClientResets
<1>5. UpstreamEnds => TunnelInv'
  BY DEF UpstreamEnds
<1>6. UpstreamResets => TunnelInv'
  BY DEF UpstreamResets
<1> QED BY <1>1, <1>2, <1>3, <1>4, <1>5, <1>6

LEMMA InitInv == Init => TunnelInv
<1> SUFFICES ASSUME Init PROVE TunnelInv
  OBVIOUS
<1>1. buffered \in Seq(1..MaxUp) /\ Len(buffered) \in 0..MaxUp /\ Follows(buffered, 0)
  <2>1. CASE buffered = <<>>
    BY <2>1, EmptySeq, ConnectAssumption, FollowsEmpty
  <2>2. CASE buffered = <<1>> /\ MaxUp > 0
    BY <2>2, ConnectAssumption DEF Follows
  <2> QED BY <2>1, <2>2 DEF Init
<1>2. TypeOK
  BY <1>1, ConnectAssumption DEF Init, TypeOK, Refusals, Pass
<1>3. ControlInv /\ CloseMeansAll
  BY DEF Init, ControlInv, CloseMeansAll, Pass
<1>4. UpOrder /\ DownOrder
  BY <1>1, ConnectAssumption DEF Init, UpOrder, DownOrder, Follows
<1> QED BY <1>2, <1>3, <1>4 DEF TunnelInv

LEMMA StepInv == TunnelInv /\ [Next]_vars => TunnelInv'
<1> SUFFICES ASSUME TunnelInv, [Next]_vars PROVE TunnelInv'
  OBVIOUS
<1>1. ASSUME AuthorizeReturns \/ HijackRefused \/ Hijacked \/ Refuse \/ Dialed \/ DialFails
              \/ Established \/ EstablishFails \/ ForwardFails
      PROVE  TunnelInv'
  <2>1. /\ UNCHANGED <<endVars, bufferVars, writtenVars>> /\ copier' = copier
        /\ resp = 200 => resp' = 200
        /\ conn' = "closed" \/ conn' = conn
    BY <1>1 DEF AuthorizeReturns, HijackRefused, Hijacked, Refuse, Dialed, DialFails,
                Established, EstablishFails, ForwardFails, Return, ClosedOnReturn,
                TunnelInv, ControlInv
  <2> QED BY <1>1, <2>1, ControlSteps, BytesUntouched DEF TunnelInv
<1>2. CASE Forwarded \/ CopyUpMoves \/ CopyReads \/ CopyWrites \/ ClientSends \/ UpstreamSends
  BY <1>2, ForwardedInv, CopyUpInv, CopyReadsInv, CopyWritesInv, SendsInv
<1>3. CASE CopyUpEnds \/ CopyDownEnds \/ ClientEnds \/ ClientResets
             \/ UpstreamEnds \/ UpstreamResets
  BY <1>3, EndingInv
<1>4. CASE UNCHANGED vars
  BY <1>4 DEF vars, handlerVars, endVars, bufferVars, writtenVars, TunnelInv, TypeOK,
              ControlInv, UpOrder, DownOrder, CloseMeansAll, Follows
<1> QED BY <1>1, <1>2, <1>3, <1>4 DEF Next, Answer, Forward, CopyDown, CopyUp, Ends

(***************************************************************************)
(* The invariant of a tunnel: its bytes have no gap and its control agrees *)
(* with what was written, whoever stops first (HandleConnect, pipe).       *)
(***************************************************************************)
THEOREM TunnelInvariant == Spec => []TunnelInv
BY InitInv, StepInv, PTL DEF Spec

(***************************************************************************)
(* The deferred Close of HandleConnect loses no byte of an upstream that   *)
(* ended in order, however many it sent.                                   *)
(***************************************************************************)
THEOREM CloseLosesNothing == Spec => []CloseMeansAll
<1>1. TunnelInv => CloseMeansAll
  BY DEF TunnelInv
<1> QED BY <1>1, TunnelInvariant, PTL

-----------------------------------------------------------------------------
(* The refinement of ConnectService.                                       *)

\* Nothing that the mapping looks at.
LEMMA HiddenSteps ==
  ASSUME TunnelInv,
         \/ Hijacked \/ EstablishFails \/ ForwardFails \/ CopyUpEnds \/ CopyDownEnds
         \/ ClientEnds \/ ClientResets \/ UpstreamEnds \/ UpstreamResets \/ CopyReads
  PROVE  UNCHANGED Service!vars
BY DEF Hijacked, CopyReads, EstablishFails, ForwardFails, CopyUpEnds, CopyDownEnds, ClientEnds,
       ClientResets, UpstreamEnds, UpstreamResets, Return, handlerVars, endVars,
       writtenVars, Service!vars, TunnelInv, ControlInv

\* The gate, the refusals and the dial.
LEMMA GateSteps ==
  ASSUME TunnelInv, AuthorizeReturns \/ HijackRefused \/ Refuse \/ Dialed \/ DialFails
  PROVE  Service!Next
<1> USE DEF TunnelInv, ControlInv, endVars, writtenVars, Refusals, Pass
<1>1. CASE AuthorizeReturns
  <2>1. PICK lookup \in Lookup : status' = authorize(req, lookup)
    BY <1>1 DEF AuthorizeReturns
  <2>2. status' \in {Pass, 403, 407, 502}
    BY <2>1 DEF authorize, Lookup, InternalError
  <2>3. /\ status = 0 /\ status' # 0 /\ upstream' = "none" /\ resp' = 0
        /\ UNCHANGED <<sentUp, toUpstream, sentDown, toClient>>
    BY <1>1, <2>2 DEF AuthorizeReturns
  <2>4. Service!Decide
    BY <2>3, ZenonT(40) DEF Service!Decide
  <2> QED BY <2>4 DEF Service!Next
<1>2. CASE HijackRefused
  <2>1. Service!Refuse
    BY <1>2 DEF HijackRefused, Return, Service!Refuse
  <2> QED BY <2>1 DEF Service!Next
<1>3. CASE Refuse
  <2>1. Service!Refuse
    BY <1>3 DEF Refuse, Return, Service!Refuse
  <2> QED BY <2>1 DEF Service!Next
<1>4. CASE Dialed
  <2>1. Service!Dial
    BY <1>4 DEF Dialed, Service!Dial
  <2> QED BY <2>1 DEF Service!Next
<1>5. CASE DialFails
  <2>1. Service!Refuse
    BY <1>5 DEF DialFails, DialReply, Return, Service!Refuse
  <2> QED BY <2>1 DEF Service!Next
<1> QED BY <1>1, <1>2, <1>3, <1>4, <1>5

\* The 200, the bytes and the two ends.
LEMMA TunnelSteps ==
  ASSUME TunnelInv, TunnelInv',
         Established \/ Forwarded \/ CopyUpMoves \/ CopyWrites \/ ClientSends \/ UpstreamSends
  PROVE  Service!Next
<1>1. /\ toUpstream' = Service!FirstBytes(Len(toUpstream')) /\ Len(toUpstream') \in 0..sentUp'
      /\ toClient' = Service!FirstBytes(Len(toClient')) /\ Len(toClient') \in 0..sentDown'
  <2>1. toUpstream' \in Seq(1..MaxUp) /\ toClient' \in Seq(1..MaxDown)
          /\ Follows(toUpstream', 0) /\ Follows(toClient', 0)
    BY DEF TunnelInv, TypeOK, UpOrder, DownOrder
  <2>2. Len(toUpstream') \in 0..sentUp' /\ Len(toClient') \in 0..sentDown'
    <3>1. /\ Len(toUpstream') \in Nat /\ Len(buffered') \in Nat /\ Len(clientIn') \in Nat
          /\ Len(toClient') \in Nat /\ Len(chunk') \in Nat /\ Len(upstreamIn') \in Nat
          /\ sentUp' \in Nat /\ sentDown' \in Nat
      BY LenProperties DEF TunnelInv, TypeOK
    <3>2. /\ Len(toUpstream') + Len(buffered') + Len(clientIn') <= sentUp'
          /\ Len(toClient') + Len(chunk') + Len(upstreamIn') <= sentDown'
      BY DEF TunnelInv, UpOrder, DownOrder
    <3> QED BY <3>1, <3>2
  <2> QED BY <2>1, <2>2, FollowsNone
<1>2. CASE Established
  <2>1. toUpstream' = toUpstream /\ sentUp' = sentUp
    BY <1>2 DEF Established, endVars, writtenVars
  <2>2. Service!Establish
    BY <1>1, <1>2, <2>1
       DEF Established, TunnelInv, ControlInv, endVars, writtenVars, Service!Establish, Pass
  <2> QED BY <2>2 DEF Service!Next
<1>3. CASE Forwarded \/ CopyUpMoves
  <2>1. /\ status = Pass /\ resp = 200
        /\ UNCHANGED <<status, upstream, resp, sentUp, sentDown, toClient>>
    BY <1>3 DEF Forwarded, CopyUpMoves, TunnelInv, ControlInv, handlerVars, endVars
  <2>2. Len(toUpstream') \in Len(toUpstream)..sentUp
    <3>1. CASE Forwarded
      <4>1. toUpstream = <<>> /\ Len(toUpstream) = 0
        BY <3>1 DEF Forwarded, TunnelInv, ControlInv, UpOrder
      <4> QED BY <1>1, <2>1, <4>1
    <3>2. CASE CopyUpMoves
      <4>1. Len(toUpstream') = Len(toUpstream) + 1 /\ Len(toUpstream) \in Nat
        <5>1. clientIn \in Seq(1..MaxUp) /\ clientIn # <<>> /\ toUpstream \in Seq(1..MaxUp)
                /\ toUpstream' = Append(toUpstream, Head(clientIn))
          BY <3>2 DEF CopyUpMoves, TunnelInv, TypeOK
        <5> QED BY <5>1, AppendProperties, HeadTailProperties, LenProperties
      <4> QED BY <1>1, <2>1, <4>1
    <3> QED BY <1>3, <3>1, <3>2
  <2>3. Service!Up
    BY <1>1, <2>1, <2>2 DEF Service!Up
  <2> QED BY <2>3 DEF Service!Next
<1>4. CASE CopyWrites
  <2>1. /\ resp = 200 /\ UNCHANGED <<status, upstream, resp, sentUp, sentDown, toUpstream>>
    BY <1>4 DEF CopyWrites, TunnelInv, ControlInv, handlerVars, endVars
  <2>2. Len(toClient') = Len(toClient) + 1 /\ Len(toClient) \in Nat
    BY <1>4, CopyWritesInv, LenProperties DEF TunnelInv, TypeOK
  <2>3. Service!Down
    BY <1>1, <2>1, <2>2 DEF Service!Down
  <2> QED BY <2>3 DEF Service!Next
<1>5. CASE ClientSends
  <2>1. Service!ClientSends
    BY <1>5 DEF ClientSends, handlerVars, writtenVars, Service!ClientSends
  <2> QED BY <2>1 DEF Service!Next
<1>6. CASE UpstreamSends
  <2>1. Service!UpstreamSends
    BY <1>6 DEF UpstreamSends, handlerVars, writtenVars, Service!UpstreamSends
  <2> QED BY <2>1 DEF Service!Next
<1> QED BY <1>2, <1>3, <1>4, <1>5, <1>6

(***************************************************************************)
(* HandleConnect implements ConnectService: the gate before the dial, one  *)
(* status, the 200 only for an upstream that is connected, and each side's *)
(* bytes in order and once, for every number of them.                      *)
(***************************************************************************)
THEOREM GoConnectImplementsService == Spec => Implements
<1>1. Init => Service!Init
  <2> SUFFICES ASSUME Init PROVE Service!Init
    OBVIOUS
  <2>1. sentUp \in Nat
    BY InitInv DEF TunnelInv, TypeOK
  <2> QED BY <2>1 DEF Init, Service!Init
<1>2. TunnelInv /\ TunnelInv' /\ [Next]_vars => [Service!Next]_(Service!vars)
  <2> SUFFICES ASSUME TunnelInv, TunnelInv', [Next]_vars
               PROVE  Service!Next \/ UNCHANGED Service!vars
    OBVIOUS
  <2>1. CASE UNCHANGED vars
    BY <2>1 DEF vars, handlerVars, endVars, writtenVars, Service!vars
  <2> QED
    BY <2>1, HiddenSteps, GateSteps, TunnelSteps DEF Next, Answer, Forward, CopyDown, CopyUp, Ends
<1> QED BY <1>1, <1>2, TunnelInvariant, PTL DEF Spec, Implements, Service!Spec
=============================================================================
