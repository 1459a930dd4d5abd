-------------------------- MODULE DualProxyProofs --------------------------
(***************************************************************************)
(* What a request passes by, for any file, request, list of addresses and  *)
(* hosts: the arithmetic of the allowlist, the operators and the loop of   *)
(* domain matching, and the two put together at the gate.                  *)
(***************************************************************************)
EXTENDS DualProxy, SequenceTheorems, TLAPS

-----------------------------------------------------------------------------
(* The allowlist: addresses of any width and any prefix.                   *)

\* A number below the modulus is its own remainder.
LEMMA SmallRemainder ==
  ASSUME NEW n \in Nat, NEW k \in Nat, k < n
  PROVE  k % n = k
OBVIOUS

\* The widths an address of either kind has.
LEMMA Widths ==
  /\ Groups6 \in Nat /\ Groups6 > 2 /\ GroupBits \in Nat \ {0}
  /\ ByteBits \in Nat \ {0} /\ Bytes6 \in Nat \ {0}
  /\ Bits4 \in Nat \ {0} /\ Bits6 \in Nat /\ MappedBits \in Nat
  /\ Bits6 = Bytes6 * ByteBits /\ Bits6 = Groups6 * GroupBits
  /\ MappedBits + Bits4 = Bits6
<1>1. Groups6 \in Nat /\ Groups6 > 2 /\ GroupBytes \in Nat \ {0} /\ ByteBits \in Nat \ {0}
  BY AddressAssumption
<1>2. GroupBits \in Nat \ {0} /\ Bytes6 \in Nat \ {0}
  BY <1>1 DEF GroupBits, Bytes6
<1>3. Bits4 = 2 * GroupBits /\ Bits4 \in Nat \ {0}
  BY <1>2 DEF Bits4
<1>4. Bits6 = Bytes6 * ByteBits /\ Bits6 \in Nat
  BY <1>1, <1>2 DEF Bits6
<1>5. Bits6 = Groups6 * GroupBits
  BY <1>1 DEF Bits6, Bytes6, GroupBits
<1>6. (Groups6 - 2) * GroupBits = Groups6 * GroupBits - 2 * GroupBits
      /\ (Groups6 - 2) * GroupBits \in Nat
  BY <1>1, <1>2
<1>7. MappedBits = (Groups6 - 2) * GroupBits
  BY <1>3, <1>5, <1>6 DEF MappedBits
<1> QED BY <1>1, <1>2, <1>3, <1>4, <1>5, <1>6, <1>7 DEF MappedBits

\* parseCidr: the mask of a prefix has the bits of the prefix, prefix 0 too.
LEMMA MaskHasPrefix ==
  ASSUME NEW prefix \in 0..Bits4
  PROVE  Mask4(prefix) = [i \in 1..Bits4 |-> i <= prefix]
<1>1. CASE prefix = 0
  <2>1. \A i \in 1..Bits4 : (i <= prefix) = FALSE
    BY <1>1, Widths
  <2>2. [i \in 1..Bits4 |-> FALSE] = [i \in 1..Bits4 |-> i <= prefix]
    BY <2>1, Zenon
  <2> QED BY <1>1, <2>2 DEF Mask4
<1>2. CASE prefix # 0
  <2>1. (Bits4 - prefix) % Bits4 = Bits4 - prefix
    BY <1>2, SmallRemainder, Widths
  <2>2. Bits4 - (Bits4 - prefix) = prefix
    BY Widths
  <2> QED BY <1>2, <2>1, <2>2, Zenon DEF Mask4, OnesShifted
<1> QED BY <1>1, <1>2

\* ipMatchesRule on IPv4: masked bits are equal if the prefixes are.
THEOREM MaskComparesPrefix ==
  ASSUME NEW prefix \in 0..Bits4, NEW a \in IPv4, NEW b \in IPv4
  PROVE  And(a, Mask4(prefix)) = Network(b, Mask4(prefix)) <=> SamePrefix(a, b, prefix)
<1> DEFINE mask == [i \in 1..Bits4 |-> i <= prefix]
<1>1. Mask4(prefix) = mask
  BY MaskHasPrefix
<1>2. And(a, mask) = [i \in 1..Bits4 |-> a[i] /\ i <= prefix]
  BY DEF And, IPv4
<1>3. And(b, mask) = [i \in 1..Bits4 |-> b[i] /\ i <= prefix]
  BY DEF And, IPv4
<1>4. ASSUME SamePrefix(a, b, prefix)
      PROVE  And(a, mask) = And(b, mask)
  <2>1. \A i \in 1..Bits4 : i <= prefix => a[i] = b[i]
    <3> TAKE i \in 1..Bits4
    <3>1. i <= prefix => i \in 1..prefix
      BY Widths
    <3> QED BY <1>4, <3>1 DEF SamePrefix
  <2>2. \A i \in 1..Bits4 : (a[i] /\ i <= prefix) = (b[i] /\ i <= prefix)
    BY <2>1, Zenon
  <2> QED BY <1>2, <1>3, <2>2, Zenon
<1>5. ASSUME And(a, mask) = And(b, mask)
      PROVE  SamePrefix(a, b, prefix)
  <2> SUFFICES ASSUME NEW i \in 1..prefix
               PROVE  a[i] = b[i]
    BY DEF SamePrefix
  <2>1. i \in 1..Bits4 /\ i <= prefix
    BY Widths
  <2>2. (a[i] /\ i <= prefix) = (b[i] /\ i <= prefix)
    BY <1>2, <1>3, <1>5, <2>1, Zenon
  <2>3. a[i] \in BOOLEAN /\ b[i] \in BOOLEAN
    BY <2>1 DEF IPv4
  <2>4. a[i] <=> b[i]
    BY <2>1, <2>2, Zenon
  <2> QED BY <2>3, <2>4
<1> QED BY <1>1, <1>4, <1>5 DEF Network

\* Every bit is one of a byte.
LEMMA BitOfByte ==
  ASSUME NEW k \in 1..Bits6
  PROVE  \E i \in 0..(Bytes6 - 1), j \in 1..ByteBits : k = i * ByteBits + j
<1> DEFINE i == (k - 1) \div ByteBits
           r == (k - 1) % ByteBits
<1>1. k - 1 = ByteBits * i + r /\ r \in 0..(ByteBits - 1) /\ i \in Nat
  BY Widths
<1>2. i <= Bytes6 - 1
  BY <1>1, Widths
<1>3. r + 1 \in 1..ByteBits /\ k = i * ByteBits + (r + 1) /\ i \in 0..(Bytes6 - 1)
  BY <1>1, <1>2, Widths
<1> QED BY <1>3

\* And a bit of a byte is one of the address.
LEMMA ByteHasBits ==
  ASSUME NEW i \in 0..(Bytes6 - 1), NEW j \in 1..ByteBits
  PROVE  i * ByteBits + j \in 1..Bits6
<1>1. i * ByteBits >= 0 /\ (Bytes6 - 1 - i) * ByteBits >= 0
  BY Widths
<1>2. i * ByteBits + ByteBits <= Bytes6 * ByteBits
  BY <1>1, Widths
<1> QED BY <1>1, <1>2, Widths

\* A bit of a masked byte.
LEMMA MaskedByte ==
  ASSUME NEW bits \in IPv6, NEW i \in 0..(Bytes6 - 1), NEW remaining \in Int
  PROVE  And(ByteOf(bits, i), ByteMask(remaining)) =
           [j \in 1..ByteBits |->
              bits[i * ByteBits + j] /\ (remaining >= ByteBits \/ j <= remaining)]
BY DEF And, ByteOf, ByteMask

\* The loop of ipMatchesRule over the bytes of IPv6 addresses.
THEOREM BytesComparePrefix ==
  ASSUME NEW prefix \in 0..Bits6, NEW a \in IPv6, NEW b \in IPv6
  PROVE  BytesMatch(a, b, prefix) <=> SamePrefix(a, b, prefix)
<1> DEFINE In(i, j) == prefix - i * ByteBits >= ByteBits \/ j <= prefix - i * ByteBits
           Masked(bits, i) == And(ByteOf(bits, i), ByteMask(prefix - i * ByteBits))
<1>0. /\ ByteBits \in Nat \ {0} /\ Bytes6 \in Nat \ {0} /\ Bits6 \in Nat
      /\ \A i \in 0..(Bytes6 - 1) : i * ByteBits \in Nat /\ prefix - i * ByteBits \in Int
  BY Widths
<1>1. \A i \in 0..(Bytes6 - 1) :
        /\ Masked(a, i) = [j \in 1..ByteBits |-> a[i * ByteBits + j] /\ In(i, j)]
        /\ Masked(b, i) = [j \in 1..ByteBits |-> b[i * ByteBits + j] /\ In(i, j)]
  BY <1>0, MaskedByte
<1>2. ASSUME SamePrefix(a, b, prefix)
      PROVE  BytesMatch(a, b, prefix)
  <2> SUFFICES ASSUME NEW i \in 0..(Bytes6 - 1)
               PROVE  Masked(a, i) = Masked(b, i)
    BY DEF BytesMatch
  <2>1. \A j \in 1..ByteBits :
          (a[i * ByteBits + j] /\ In(i, j)) = (b[i * ByteBits + j] /\ In(i, j))
    <3> TAKE j \in 1..ByteBits
    <3>1. CASE In(i, j)
      <4>1. i * ByteBits + j \in 1..prefix
        BY <1>0, <3>1
      <4>2. a[i * ByteBits + j] = b[i * ByteBits + j]
        BY <1>2, <4>1 DEF SamePrefix
      <4> QED BY <4>2, Zenon
    <3>2. CASE ~In(i, j)
      BY <3>2, Zenon
    <3> QED BY <3>1, <3>2, Zenon
  <2>2. [j \in 1..ByteBits |-> a[i * ByteBits + j] /\ In(i, j)]
          = [j \in 1..ByteBits |-> b[i * ByteBits + j] /\ In(i, j)]
    BY <2>1, Zenon
  <2> QED BY <1>1, <2>2, Zenon
<1>3. ASSUME BytesMatch(a, b, prefix)
      PROVE  SamePrefix(a, b, prefix)
  <2> SUFFICES ASSUME NEW k \in 1..prefix
               PROVE  a[k] = b[k]
    BY DEF SamePrefix
  <2>1. k \in 1..Bits6
    BY <1>0
  <2>2. PICK i \in 0..(Bytes6 - 1), j \in 1..ByteBits : k = i * ByteBits + j
    BY <2>1, BitOfByte
  <2>3. LoopReaches(i, prefix) /\ In(i, j)
    BY <1>0, <2>2 DEF LoopReaches
  <2>4. Masked(a, i) = Masked(b, i)
    BY <1>3, <2>3 DEF BytesMatch
  <2>5. [l \in 1..ByteBits |-> a[i * ByteBits + l] /\ In(i, l)][j]
          = [l \in 1..ByteBits |-> b[i * ByteBits + l] /\ In(i, l)][j]
    BY <1>1, <2>4, Zenon
  <2>6. (a[k] /\ In(i, j)) = (b[k] /\ In(i, j))
    BY <2>2, <2>5, Zenon
  <2>7. a[k] <=> b[k]
    BY <2>3, <2>6, Zenon
  <2>8. a[k] \in BOOLEAN /\ b[k] \in BOOLEAN
    BY <2>1 DEF IPv6
  <2> QED BY <2>7, <2>8
<1> QED BY <1>2, <1>3

\* How many groups a bit is from the first one.
LEMMA BitOfGroup ==
  ASSUME NEW k \in 1..Bits6
  PROVE  /\ ((k - 1) \div GroupBits) + 1 \in 1..Groups6
         /\ ((k - 1) % GroupBits) + 1 \in 1..GroupBits
         /\ k = ((k - 1) \div GroupBits) * GroupBits + ((k - 1) % GroupBits) + 1
<1> DEFINE i == (k - 1) \div GroupBits
           r == (k - 1) % GroupBits
<1>1. k - 1 = GroupBits * i + r /\ r \in 0..(GroupBits - 1) /\ i \in Nat
  BY Widths
<1>2. i <= Groups6 - 1
  BY <1>1, Widths
<1> HIDE DEF i, r
<1>3. k = i * GroupBits + r + 1
  BY <1>1, Widths
<1> QED BY <1>1, <1>2, <1>3, Widths DEF i, r

\* A group of an address.
LEMMA GroupType ==
  ASSUME NEW bits \in IPv6, NEW i \in 1..Groups6
  PROVE  Group(bits, i) \in [1..GroupBits -> BOOLEAN]
<1> SUFFICES ASSUME NEW j \in 1..GroupBits
             PROVE  bits[(i - 1) * GroupBits + j] \in BOOLEAN
  BY DEF Group
<1>1. (i - 1) * GroupBits \in Nat /\ (Groups6 - i) * GroupBits \in Nat
  BY Widths
<1>2. (i - 1) * GroupBits + (Groups6 - i) * GroupBits + GroupBits = Bits6
  BY Widths
<1>3. (i - 1) * GroupBits + j \in 1..Bits6
  BY <1>1, <1>2, Widths
<1> QED BY <1>3 DEF IPv6

(***************************************************************************)
(* expandIpv6 and ipv6ToBytes read a text of IPv6 that is not dotted as    *)
(* the address it is of.                                                   *)
(***************************************************************************)
THEOREM UndottedReadRight ==
  ASSUME NEW addr \in IPv6Text, ~addr.dotted
  PROVE  ipv6ToBytes(addr) = addr.bits
<1> DEFINE i(k) == ((k - 1) \div GroupBits) + 1
           j(k) == ((k - 1) % GroupBits) + 1
<1>1. addr.bits \in IPv6
  BY DEF IPv6Text
<1>2. \A k \in 1..Bits6 : expandIpv6(addr)[i(k)][j(k)] = addr.bits[k]
  <2> TAKE k \in 1..Bits6
  <2>1. /\ i(k) \in 1..Groups6 /\ j(k) \in 1..GroupBits
        /\ k = (i(k) - 1) * GroupBits + j(k)
    BY BitOfGroup, Widths
  <2> HIDE DEF i, j
  <2>2. expandIpv6(addr)[i(k)] = Group(addr.bits, i(k))
    BY <2>1 DEF expandIpv6, GroupAsRead
  <2>3. Group(addr.bits, i(k))[j(k)] = addr.bits[k]
    BY <2>1 DEF Group
  <2> QED BY <2>2, <2>3
<1>3. ipv6ToBytes(addr) = [k \in 1..Bits6 |-> expandIpv6(addr)[i(k)][j(k)]]
  BY DEF ipv6ToBytes
<1> HIDE DEF i, j
<1>4. ipv6ToBytes(addr) = [k \in 1..Bits6 |-> addr.bits[k]]
  BY <1>2, <1>3, Zenon
<1> QED BY <1>1, <1>4 DEF IPv6

\* Without the mapped prefix both proxies see an address of the same kind.
LEMMA ReadAlike ==
  ASSUME NEW addr \in AddressText, ~IsMapped(addr)
  PROVE  /\ To4(addr) = [kind |-> normalizeIp(addr).kind, bits |-> normalizeIp(addr).bits]
         /\ \/ normalizeIp(addr).kind = "ipv4" /\ normalizeIp(addr).bits \in IPv4
            \/ /\ normalizeIp(addr) = addr /\ addr.kind = "ipv6"
               /\ addr \in IPv6Text /\ addr.bits \in IPv6
<1>1. CASE addr.kind = "mapped"
  BY <1>1 DEF AddressText, IPv4Text, IPv6Text, normalizeIp, To4
<1>2. CASE addr.kind = "ipv4"
  BY <1>2 DEF AddressText, IPv4Text, IPv6Text, normalizeIp, To4
<1>3. CASE addr.kind = "ipv6"
  <2>1. addr \in IPv6Text /\ addr.bits \in IPv6
    BY <1>3 DEF AddressText, IPv4Text, IPv6Text
  <2> QED BY <1>3, <2>1 DEF normalizeIp, To4
<1> QED BY <1>1, <1>2, <1>3 DEF AddressText, IPv4Text, IPv6Text

(***************************************************************************)
(* An entry with a prefix matches the same addresses in both proxies: what *)
(* parseCidr and ipMatchesRule of ipAllowlist.js compute is what           *)
(* net.IPNet.Contains compares.  Excepted are texts that Node misreads,    *)
(* which are dotted (UndottedReadRight), and those with the mapped prefix. *)
(***************************************************************************)
THEOREM CidrMeansPrefix ==
  ASSUME NEW addr \in IPv4Text \cup IPv6Text, NEW client \in AddressText,
         ~IsMapped(addr), ~IsMapped(client),
         ~MisreadText(addr), ~MisreadText(client),
         NEW prefix \in 0..Width(addr), NEW tail
  PROVE  ipMatchesRule(normalizeIp(client), parseCidr(Cidr(addr, prefix, tail)))
           <=> Covers(Cidr(addr, prefix, tail), To4(client))
<1> DEFINE entry == Cidr(addr, prefix, tail)
           ip == normalizeIp(client)
<1>0. /\ entry.form = "cidr" /\ entry.text = addr /\ entry.prefix = prefix
      /\ Covers(entry, To4(client)) <=> InNetwork(entry, To4(client))
  BY DEF Cidr, Covers
<1>1. /\ To4(client) = [kind |-> ip.kind, bits |-> ip.bits]
      /\ \/ ip.kind = "ipv4" /\ ip.bits \in IPv4
         \/ ip = client /\ ip.kind = "ipv6" /\ ip.bits \in IPv6
  BY ReadAlike
<1>2. CASE addr.kind = "ipv4"
  <2>1. addr.bits \in IPv4 /\ normalizeIp(addr) = addr /\ prefix \in 0..Bits4
    BY <1>2 DEF IPv4Text, IPv6Text, normalizeIp, Width
  <2>2. parseCidr(entry) = [type |-> "ipv4", network |-> Network(addr.bits, Mask4(prefix)),
                            mask |-> Mask4(prefix)]
    BY <1>0, <1>2, <2>1 DEF parseCidr
  <2>3. ipMatchesRule(ip, parseCidr(entry))
          <=> ip.kind = "ipv4" /\ And(ip.bits, Mask4(prefix)) = Network(addr.bits, Mask4(prefix))
    BY <2>2 DEF ipMatchesRule
  <2>4. ip.kind = "ipv4" =>
          (And(ip.bits, Mask4(prefix)) = Network(addr.bits, Mask4(prefix))
             <=> SamePrefix(ip.bits, addr.bits, prefix))
    BY <1>1, <2>1, MaskComparesPrefix
  <2>5. SamePrefix(ip.bits, addr.bits, prefix) <=> SamePrefix(addr.bits, ip.bits, prefix)
    BY DEF SamePrefix
  <2>6. To4(addr) = [kind |-> "ipv4", bits |-> addr.bits] /\ prefix >= 0
    BY <1>2, <2>1 DEF To4
  <2>7. InNetwork(entry, To4(client))
          <=> ip.kind = "ipv4" /\ SamePrefix(addr.bits, ip.bits, prefix)
    BY <1>0, <1>1, <1>2, <2>6 DEF InNetwork
  <2> QED BY <1>0, <2>3, <2>4, <2>5, <2>7
<1>3. CASE addr.kind = "ipv6"
  <2>1. addr.bits \in IPv6 /\ normalizeIp(addr) = addr /\ prefix \in 0..Bits6
    BY <1>3 DEF IPv4Text, IPv6Text, normalizeIp, Width
  <2>2. parseCidr(entry) = [type |-> "ipv6", bytes |-> addr.bits, prefix |-> prefix]
    BY <1>0, <1>3, <2>1 DEF parseCidr, MisreadText
  <2>3. ip.kind = "ipv6" => ipv6ToBytes(ip) = ip.bits
    BY <1>1 DEF MisreadText
  <2>4. ipMatchesRule(ip, parseCidr(entry))
          <=> ip.kind = "ipv6" /\ BytesMatch(ip.bits, addr.bits, prefix)
    BY <2>2, <2>3 DEF ipMatchesRule
  <2>5. ip.kind = "ipv6" =>
          (BytesMatch(ip.bits, addr.bits, prefix) <=> SamePrefix(ip.bits, addr.bits, prefix))
    BY <1>1, <2>1, BytesComparePrefix
  <2>6. SamePrefix(ip.bits, addr.bits, prefix) <=> SamePrefix(addr.bits, ip.bits, prefix)
    BY DEF SamePrefix
  <2>7. To4(addr).kind = "ipv6" /\ Wide(addr) = addr.bits
    BY <1>3 DEF To4, Wide
  <2>8. InNetwork(entry, To4(client))
          <=> ip.kind = "ipv6" /\ SamePrefix(addr.bits, ip.bits, prefix)
    BY <1>0, <1>1, <2>7 DEF InNetwork
  <2> QED BY <1>0, <2>4, <2>5, <2>6, <2>8
<1> QED BY <1>2, <1>3 DEF IPv4Text, IPv6Text

(***************************************************************************)
(* An entry that is one address matches that address, but for the mapped   *)
(* prefix, and in the Node proxy only an IPv6 address written as in the    *)
(* file.                                                                   *)
(***************************************************************************)
THEOREM SingleMeansAddress ==
  ASSUME NEW addr \in AddressText, NEW client \in AddressText,
         ~IsMapped(addr), ~IsMapped(client)
  PROVE  /\ ipMatchesRule(normalizeIp(client), parseCidr(Single(addr)))
              => Covers(Single(addr), To4(client))
         /\ Covers(Single(addr), To4(client)) =>
              \/ ipMatchesRule(normalizeIp(client), parseCidr(Single(addr)))
              \/ addr.kind = "ipv6" /\ client.kind = "ipv6"
                 /\ addr.bits = client.bits /\ addr # client
<1> DEFINE base == normalizeIp(addr)
           ip == normalizeIp(client)
<1>1. ipMatchesRule(ip, parseCidr(Single(addr))) <=> base = ip
  BY DEF Single, parseCidr, ipMatchesRule
<1>2. Covers(Single(addr), To4(client)) <=> To4(addr) = To4(client)
  BY DEF Single, Covers
<1>3. /\ To4(addr) = [kind |-> base.kind, bits |-> base.bits]
      /\ To4(client) = [kind |-> ip.kind, bits |-> ip.bits]
  BY ReadAlike
<1>4. To4(addr) = To4(client) <=> base.kind = ip.kind /\ base.bits = ip.bits
  BY <1>3
<1>5. base.kind = "ipv4" /\ ip.kind = "ipv4" /\ base.bits = ip.bits => base = ip
  BY DEF normalizeIp, AddressText, IPv4Text, IPv6Text
<1>6. (base.kind = "ipv6" => base = addr) /\ (ip.kind = "ipv6" => ip = client)
  BY DEF normalizeIp
<1>7. base.kind \in {"ipv4", "ipv6"}
  BY ReadAlike
<1> QED BY <1>1, <1>2, <1>4, <1>5, <1>6, <1>7

-----------------------------------------------------------------------------
(* The operators of DomainMatch, for hosts of any length.                  *)

LEMMA NormalizeType ==
  ASSUME NEW t \in HostText
  PROVE  /\ normalizeHost(t) \in Seq(Label)
         /\ Len(normalizeHost(t)) = Len(t.labels)
<1>1. t.labels \in Seq(Label)
  BY DEF HostText
<1>2. Len(t.labels) \in Nat /\ \A i \in 1..Len(t.labels) : t.labels[i] \in Label
  BY <1>1, ElementOfSeq, LenProperties
<1>3. \A i \in 1..Len(t.labels) : Lower[t.labels[i]] \in Label
  BY <1>2, LabelAssumption
<1> QED
  BY <1>2, <1>3, SMT DEF normalizeHost

LEMMA CountType ==
  ASSUME NEW s \in Seq(Label)
  PROVE  CandidateCount(s) \in 0..Len(s)
BY LenProperties, EmptySeq DEF CandidateCount

LEMMA CandidatesDomain ==
  ASSUME NEW t \in HostText
  PROVE  /\ CandidateCount(normalizeHost(t)) \in Nat
         /\ DOMAIN hostSuffixCandidates(t) = 1..CandidateCount(normalizeHost(t))
<1>1. normalizeHost(t) \in Seq(Label)
  BY NormalizeType
<1>2. CandidateCount(normalizeHost(t)) \in Nat
  BY <1>1, CountType, LenProperties
<1> QED
  BY <1>2 DEF hostSuffixCandidates

-----------------------------------------------------------------------------
(* The suffix loop, whatever the labels are.                               *)

LEMMA SuffixType ==
  ASSUME NEW s \in Seq(Label), NEW i \in 1..Len(s)
  PROVE  /\ SuffixFrom(s, i) \in Seq(Label)
         /\ Len(SuffixFrom(s, i)) = Len(s) - i + 1
         /\ SuffixFrom(s, i)[1] = s[i]
         /\ SuffixFrom(s, i)[Len(SuffixFrom(s, i))] = s[Len(s)]
<1>1. Len(s) \in Nat /\ \A j \in i..Len(s) : s[j] \in Label
  BY ElementOfSeq, LenProperties
<1>2. /\ SubSeq(s, i, Len(s)) \in Seq(Label)
      /\ Len(SubSeq(s, i, Len(s))) = Len(s) - i + 1
      /\ \A j \in 1..(Len(s) - i + 1) : SubSeq(s, i, Len(s))[j] = s[i + j - 1]
  BY <1>1, SubSeqProperties
<1> QED
  BY <1>1, <1>2 DEF SuffixFrom

\* Dropping the first label of a suffix leaves the next suffix.
LEMMA RestOfSuffix ==
  ASSUME NEW s \in Seq(Label), NEW i \in 1..(Len(s) - 1)
  PROVE  Rest(SuffixFrom(s, i)) = SuffixFrom(s, i + 1)
BY HeadTailOfSubSeq, LenProperties DEF Rest, SuffixFrom

LEMMA InitIInv == Init => IInv
<1> SUFFICES ASSUME Init PROVE IInv
  OBVIOUS
<1> DEFINE name == normalizeHost(text)
<1>1. text \in HostText
  BY TextsAssumption DEF Init
<1>2. name \in Seq(Label) /\ Len(name) \in Nat
  BY <1>1, NormalizeType, LenProperties
<1>3. TypeOK
  BY <1>1, <1>2, EmptySeq DEF Init, TypeOK
<1>4. name = <<>> \/ (0 < Len(name) /\ name = SuffixFrom(name, 1))
  BY <1>2, SubSeqFull, EmptySeq DEF SuffixFrom
<1> QED
  BY <1>3, <1>4 DEF Init, IInv, Pushed, Remains, Complete

LEMMA StepIInv == IInv /\ [Next]_vars => IInv'
<1> SUFFICES ASSUME IInv, [Next]_vars PROVE IInv'
  OBVIOUS
<1> DEFINE name == normalizeHost(text)
<1>1. text \in HostText /\ h \in Seq(Label) /\ out \in Seq(Seq(Label))
  BY DEF IInv, TypeOK
<1>2. /\ name \in Seq(Label)
      /\ Len(name) \in Nat
      /\ Len(out) \in Nat
  BY <1>1, NormalizeType, LenProperties
<1>3. CASE Push
  <2>1. text' = text /\ ~done /\ NonBlank(h) /\ out' = Append(out, h)
    BY <1>3 DEF Push, LoopGoesOn
  <2>2. Len(out) < Len(name) /\ h = SuffixFrom(name, Len(out) + 1)
    BY <2>1 DEF IInv, Remains, NonBlank
  <2> DEFINE i == Len(out) + 1
  <2>3. i \in 1..Len(name)
    BY <1>2, <2>2
  <2>4. Len(h) = Len(name) - Len(out) /\ h[Len(h)] = name[Len(name)]
    <3>1. /\ Len(SuffixFrom(name, i)) = Len(name) - i + 1
          /\ SuffixFrom(name, i)[Len(SuffixFrom(name, i))] = name[Len(name)]
      BY <1>2, <2>3, SuffixType
    <3> QED
      BY <3>1, <2>2, <1>2
  <2>5. /\ out' \in Seq(Seq(Label))
        /\ Len(out') = i
        /\ \A j \in 1..Len(out) : out'[j] = out[j]
        /\ out'[i] = h
    BY <1>1, <2>1, AppendProperties
  <2>6. Pushed'
    BY <2>1, <2>2, <2>5, <1>2 DEF IInv, Pushed
  <2>7. CASE Len(h) = 1 /\ done' = TRUE /\ h' = h
    <3>1. Len(name) = i
      <4>1. Len(name) - Len(out) = 1
        BY <2>4, <2>7
      <4>2. Len(name) \in Nat /\ Len(out) \in Nat
        BY <1>2
      <4>3. \A a, b \in Nat : a - b = 1 => a = b + 1
        OBVIOUS
      <4> HIDE DEF name
      <4> QED
        BY <4>1, <4>2, <4>3, Zenon
    <3>2. h = <<h[1]>>
      BY <2>7, <1>1
    <3>3. name[Len(name)] # Empty
      BY <3>2, <2>4, <2>7, <2>1 DEF NonBlank
    <3>4. Complete'
      BY <3>1, <3>3, <2>1, <2>5 DEF Complete, CandidateCount
    <3> QED
      BY <2>1, <2>5, <2>6, <2>7, <3>4, <1>1 DEF IInv, TypeOK, Remains
  <2>8. CASE Len(h) > 1 /\ done' = FALSE /\ h' = Rest(h)
    <3>1. i \in 1..(Len(name) - 1)
      BY <2>4, <2>8, <2>3, <1>2
    <3>2. h' = SuffixFrom(name, i + 1)
      BY <3>1, <2>2, <2>8, <1>2, RestOfSuffix
    <3>3. h' \in Seq(Label)
      BY <3>1, <3>2, <1>2, SuffixType
    <3>4. Remains'
      BY <3>1, <3>2, <2>1, <2>5 DEF Remains
    <3> QED
      BY <2>1, <2>5, <2>6, <2>8, <3>3, <3>4, <1>1
      DEF IInv, TypeOK, Complete
  <2> QED
    BY <1>3, <2>7, <2>8 DEF Push
<1>4. CASE Stop
  <2>1. ~done /\ ~NonBlank(h) /\ done' = TRUE /\ UNCHANGED <<text, h, out>>
    BY <1>4 DEF Stop, LoopGoesOn
  <2>2. CASE name = <<>> /\ h = <<>> /\ out = <<>>
    BY <2>1, <2>2, <1>1 DEF IInv, TypeOK, Pushed, Remains, Complete, CandidateCount
  <2>3. CASE Len(out) < Len(name) /\ h = SuffixFrom(name, Len(out) + 1)
    <3> DEFINE i == Len(out) + 1
    <3>1. i \in 1..Len(name)
      BY <2>3, <1>2
    <3>2. /\ Len(SuffixFrom(name, i)) = Len(name) - i + 1
          /\ SuffixFrom(name, i)[Len(SuffixFrom(name, i))] = name[Len(name)]
      BY <3>1, <1>2, SuffixType
    <3>3. h = <<Empty>>
      BY <3>1, <3>2, <2>3, <2>1, <1>2 DEF NonBlank
    <3>4. Len(name) = i /\ name[Len(name)] = Empty
      BY <3>2, <3>3, <2>3, <1>2
    <3>5. Complete'
      BY <3>4, <2>1, <1>2 DEF Complete, CandidateCount
    <3> QED
      BY <3>5, <2>1, <1>1 DEF IInv, TypeOK, Pushed, Remains
  <2> QED
    BY <2>1, <2>2, <2>3 DEF IInv, Remains
<1>5. CASE UNCHANGED vars
  BY <1>5 DEF vars, IInv, TypeOK, Pushed, Remains, Complete
<1> QED
  BY <1>3, <1>4, <1>5 DEF Next

(***************************************************************************)
(* The invariant behind the loop of HostSuffixCandidates: out is always a  *)
(* prefix of the suffixes of the host, and h the next of them.             *)
(***************************************************************************)
THEOREM LoopInvariant == Spec => []IInv
<1>1. Init => IInv
  BY InitIInv
<1>2. IInv /\ [Next]_vars => IInv'
  BY StepIInv
<1> QED
  BY <1>1, <1>2, PTL DEF Spec

(***************************************************************************)
(* Types, as a part of the invariant of the loop in HostSuffixCandidates.  *)
(***************************************************************************)
THEOREM LoopTypes == Spec => []TypeOK
BY LoopInvariant, PTL DEF IInv

LEMMA CompleteIsClosedForm == IInv => LoopComputesCandidates
<1> SUFFICES ASSUME IInv, done PROVE out = hostSuffixCandidates(text)
  BY DEF LoopComputesCandidates
<1> DEFINE name == normalizeHost(text)
           c == hostSuffixCandidates(text)
<1>1. out \in Seq(Seq(Label)) /\ Len(out) \in Nat
  BY LenProperties DEF IInv, TypeOK
<1>2. out = [i \in 1..Len(out) |-> out[i]]
  BY <1>1
<1>3. Len(out) = CandidateCount(name)
  BY DEF IInv, Complete
<1>4. \A i \in 1..Len(out) : out[i] = SuffixFrom(name, i)
  BY DEF IInv, Pushed
<1> QED
  BY <1>2, <1>3, <1>4 DEF hostSuffixCandidates

(***************************************************************************)
(* When the loop of HostSuffixCandidates ends it has returned every suffix *)
(* of the host, the most specific first, for hosts of any length.          *)
(***************************************************************************)
THEOREM LoopIsCorrect == Spec => []LoopComputesCandidates
BY LoopInvariant, CompleteIsClosedForm, PTL

\* The suffix that a trailing dot cuts off is blank, and no domain equals it.
LEMMA CandidatesAgree == IInv => CandidatesAgreeWithHostAllowed
<1> DEFINE name == normalizeHost(text)
<1> SUFFICES ASSUME IInv, done,
                    NEW d \in Texts, NonBlank(normalizeHost(d))
             PROVE  hostAllowed(text, d)
                      <=> \E i \in 1..Len(out) : out[i] = normalizeHost(d)
  BY DEF CandidatesAgreeWithHostAllowed
<1>1. name \in Seq(Label) /\ Len(name) \in Nat
  BY NormalizeType, LenProperties DEF IInv, TypeOK
<1>2. /\ Len(out) = CandidateCount(name)
      /\ \A i \in 1..Len(out) : out[i] = SuffixFrom(name, i)
  BY DEF IInv, Complete, Pushed
<1>3. Len(out) \in 0..Len(name)
  BY <1>1, <1>2, EmptySeq DEF CandidateCount
<1>4. ASSUME NEW i \in 1..Len(name), SuffixFrom(name, i) = normalizeHost(d)
      PROVE  i \in 1..Len(out) /\ NonBlank(name)
  <2>1. /\ Len(SuffixFrom(name, i)) = Len(name) - i + 1
        /\ SuffixFrom(name, i)[1] = name[i]
        /\ SuffixFrom(name, i) \in Seq(Label)
    BY <1>1, SuffixType
  <2>2. SuffixFrom(name, i) # <<Empty>>
    BY <1>4 DEF NonBlank
  <2>3. ~(i = Len(name) /\ name[Len(name)] = Empty)
    <3> SUFFICES ASSUME i = Len(name), name[Len(name)] = Empty PROVE FALSE
      OBVIOUS
    <3>1. Len(SuffixFrom(name, i)) = 1
      BY <2>1, <1>1
    <3> QED
      BY <3>1, <2>1, <2>2
  <2>4. i \in 1..Len(out)
    BY <2>3, <1>1, <1>2 DEF CandidateCount
  <2>5. name # <<>>
    BY <1>1, EmptySeq
  <2>6. name # <<Empty>>
    <3> SUFFICES ASSUME name = <<Empty>> PROVE FALSE
      OBVIOUS
    <3>1. Len(name) = 1 /\ name[1] = Empty
      OBVIOUS
    <3> QED
      BY <3>1, <2>3
  <2> QED
    BY <2>4, <2>5, <2>6 DEF NonBlank
<1>5. hostAllowed(text, d)
        <=> /\ NonBlank(name)
            /\ \E i \in 1..Len(name) : SuffixFrom(name, i) = normalizeHost(d)
  BY DEF hostAllowed
<1> QED
  BY <1>1, <1>2, <1>3, <1>4, <1>5

(***************************************************************************)
(* A domain that HostAllowed accepts as public is one HostSuffixCandidates *)
(* would look up, and the other way round, for hosts of any length.        *)
(***************************************************************************)
THEOREM ListAndTestAgree == Spec => []CandidatesAgreeWithHostAllowed
BY LoopInvariant, CandidatesAgree, PTL

-----------------------------------------------------------------------------
(* The gate.                                                               *)

\* authorize, as a condition on its facts.
LEMMA GatePasses ==
  ASSUME NEW required \in BOOLEAN, NEW facts \in Gate(required)!Facts,
         NEW lookup \in Gate(required)!Lookup
  PROVE  /\ Gate(required)!authorize(facts, lookup) \in {200, 403, 407, 502}
         /\ Gate(required)!authorize(facts, lookup) = 200 <=>
              /\ facts.ipAllowed
              /\ facts.public \/ ~required \/ (facts.creds /\ lookup = "granted")
BY DEF Gate!authorize, Gate!Facts, Gate!Lookup, Gate!InternalError, Gate!Pass

\* What a gate is configured with, whatever the fields of the file hold.
LEMMA ConfiguredTypes ==
  ASSUME scene \in Scenarios, NEW p \in Proxies
  PROVE  /\ Configured(p).entries \subseteq Entry
         /\ Configured(p).publicDomains \subseteq Texts
         /\ Configured(p).requireProxyAuth \in BOOLEAN
         /\ Configured(p).trustProxyHeaders \in BOOLEAN
<1>1. CASE p = "node"
  BY <1>1, ScenarioAssumption
     DEF Configured, nodeConfig, NodeEntries, NodeRequiresAuth, truthy
<1>2. CASE p = "go"
  BY <1>2, ScenarioAssumption DEF Configured, goConfig
<1> QED BY <1>1, <1>2 DEF Proxies

\* resolveClientIp and ClientIP find the client, where it has an address.
LEMMA ClientResolved ==
  ASSUME scene \in Scenarios, NEW trust \in BOOLEAN
  PROVE  /\ IsAddress(Client(trust)) =>
              /\ Client(trust) \in AddressText
              /\ resolveClientIp(scene.req, trust) = normalizeIp(Client(trust))
              /\ ClientIP(scene.req, trust) = To4(Client(trust))
         /\ ~IsAddress(Client(trust)) => ClientIP(scene.req, trust) = NoText
<1>1. /\ scene.req.xff \in Seq(RequestText)
      /\ scene.req.remote \in RequestText
  BY ScenarioAssumption
<1>2. scene.req.xff # <<>> =>
        Head(scene.req.xff) = scene.req.xff[1] /\ scene.req.xff[1] \in RequestText
  BY <1>1
<1>3. Forwarded(scene.req) = IF scene.req.xff = <<>> THEN NoText ELSE scene.req.xff[1]
  BY DEF Forwarded, ForwardedFirst
<1>4. ~IsAddress(NoText)
  BY DEF IsAddress, NoText
<1>5. Client(trust) = IF trust /\ IsAddress(Forwarded(scene.req))
                      THEN Forwarded(scene.req) ELSE scene.req.remote
  BY <1>2, <1>3, <1>4 DEF Client
<1>6. Client(trust) \in RequestText
  BY <1>1, <1>2, <1>3, <1>4, <1>5
<1>7. IsAddress(Client(trust)) => Client(trust) \in AddressText
  BY <1>6 DEF RequestText, IsAddress, Junk, NoText
<1> QED BY <1>5, <1>7 DEF resolveClientIp, ClientIP

LEMMA GoListed ==
  ASSUME scene \in Scenarios
  PROVE  IpAllowed("go") <=> Listed("go")
<1> DEFINE cfg == Configured("go")
           client == Client(cfg.trustProxyHeaders)
<1>1. cfg.trustProxyHeaders \in BOOLEAN
  BY ConfiguredTypes DEF Proxies
<1>2. IpAllowed("go") <=> GoAllows(cfg.entries, scene.req, cfg.trustProxyHeaders)
  BY DEF IpAllowed
<1>3. CASE IsAddress(client)
  <2>1. ClientIP(scene.req, cfg.trustProxyHeaders) = To4(client)
    BY <1>1, <1>3, ClientResolved
  <2>2. IsAddress(To4(client))
    BY DEF To4, IsAddress
  <2> QED BY <1>2, <1>3, <2>1, <2>2 DEF GoAllows, Listed
<1>4. CASE ~IsAddress(client)
  <2>1. ClientIP(scene.req, cfg.trustProxyHeaders) = NoText
    BY <1>1, <1>4, ClientResolved
  <2> QED BY <1>2, <1>4, <2>1 DEF GoAllows, Listed, IsAddress, NoText
<1> QED BY <1>3, <1>4

\* A rule of the Node proxy matches what its entry means, where both proxies
\* read the addresses alike, but for the text of a single one.
LEMMA RuleMeansEntry ==
  ASSUME NEW e \in Entry, NEW client \in AddressText, ~IsMapped(client),
         e.form \in {"single", "cidr"} => ~IsMapped(e.text),
         e.form = "cidr" => e.text.kind # "mapped" /\ ~MisreadText(e.text),
         ~MisreadText(client)
  PROVE  /\ HasRule(e) /\ ipMatchesRule(normalizeIp(client), parseCidr(e))
              => GoHasRule(e) /\ Covers(e, To4(client))
         /\ GoHasRule(e) /\ Covers(e, To4(client)) =>
              \/ HasRule(e) /\ ipMatchesRule(normalizeIp(client), parseCidr(e))
              \/ /\ e.form = "single" /\ e.text.kind = "ipv6" /\ client.kind = "ipv6"
                 /\ e.text.bits = client.bits /\ e.text # client
<1>1. SUFFICES ASSUME e.form \in {"single", "cidr"}, IsAddress(e.text)
               PROVE  /\ HasRule(e) /\ ipMatchesRule(normalizeIp(client), parseCidr(e))
                           => GoHasRule(e) /\ Covers(e, To4(client))
                      /\ GoHasRule(e) /\ Covers(e, To4(client)) =>
                           \/ HasRule(e) /\ ipMatchesRule(normalizeIp(client), parseCidr(e))
                           \/ /\ e.form = "single" /\ e.text.kind = "ipv6"
                              /\ client.kind = "ipv6"
                              /\ e.text.bits = client.bits /\ e.text # client
  BY DEF HasRule, GoHasRule
<1>2. e.text \in AddressText
  BY <1>1 DEF Entry, IsAddress, Junk
<1>3. CASE e.form = "single"
  <2>1. e = Single(e.text)
    BY <1>3 DEF Entry, Single
  <2>2. HasRule(e) /\ GoHasRule(e)
    BY <1>1, <1>3 DEF HasRule, GoHasRule
  <2> QED BY <1>1, <1>2, <1>3, <2>1, <2>2, SingleMeansAddress
<1>4. CASE e.form = "cidr"
  <2>1. e = Cidr(e.text, e.prefix, e.tail)
    BY <1>4 DEF Entry, Cidr
  <2>2. e.text \in IPv4Text \cup IPv6Text
    BY <1>2, <1>4 DEF AddressText
  <2>3. HasRule(e) <=> e.prefix \in 0..Width(e.text)
    BY <1>1, <1>4 DEF HasRule
  <2>4. GoHasRule(e) <=> e.prefix \in 0..Width(e.text)
    BY <1>1, <1>4, <2>2 DEF GoHasRule, PrefixFits, Width, IPv4Text, IPv6Text
  <2> QED BY <1>1, <1>4, <2>1, <2>2, <2>3, <2>4, CidrMeansPrefix
<1> QED BY <1>1, <1>3, <1>4

LEMMA NodeListed ==
  ASSUME scene \in Scenarios
  PROVE  /\ IpAllowed("node") => Listed("node") \/ NamelessClient \/ OtherReading
         /\ Listed("node") => IpAllowed("node") \/ SpellingMatters \/ OtherReading
<1> DEFINE cfg == Configured("node")
           client == Client(cfg.trustProxyHeaders)
<1>1. cfg.trustProxyHeaders \in BOOLEAN /\ cfg.entries \subseteq Entry
  BY ConfiguredTypes DEF Proxies
<1>2. cfg = nodeConfig(scene.file) /\ NodeClient = client
  BY DEF NodeClient, Configured
<1>3. SUFFICES ASSUME IsAddress(client), ~OtherReading
               PROVE  /\ IpAllowed("node") => Listed("node")
                      /\ Listed("node") => IpAllowed("node") \/ SpellingMatters
  BY <1>2 DEF Listed, NamelessClient
<1>4. /\ resolveClientIp(scene.req, cfg.trustProxyHeaders) = normalizeIp(client)
      /\ client \in AddressText
  BY <1>1, <1>3, ClientResolved
<1>5. IpAllowed("node")
        <=> \E e \in cfg.entries : HasRule(e) /\ ipMatchesRule(normalizeIp(client), parseCidr(e))
  BY <1>4 DEF IpAllowed, NodeAllows
<1>6. Listed("node") <=> \E e \in cfg.entries : GoHasRule(e) /\ Covers(e, To4(client))
  BY <1>3 DEF Listed
<1>7. \A form : NodeRules(form) = {e.text : e \in {x \in cfg.entries : x.form = form}}
  BY <1>2 DEF NodeRules
<1>8. ~IsMapped(client) /\ ~MisreadText(client)
  BY <1>2, <1>3 DEF OtherReading, Misread, MappedMatters
<1>9. \A e \in cfg.entries :
        /\ e.form \in {"single", "cidr"} => ~IsMapped(e.text)
        /\ e.form = "cidr" => e.text.kind # "mapped" /\ ~MisreadText(e.text)
  <2> TAKE e \in cfg.entries
  <2>1. e.form \in {"single", "cidr"} => e.text \in NodeRules("single") \cup NodeRules("cidr")
    BY <1>7
  <2>2. e.form = "cidr" => e.text \in NodeRules("cidr")
    BY <1>7
  <2> QED BY <1>3, <2>1, <2>2 DEF OtherReading, Misread, MappedMatters
<1>10. \A e \in cfg.entries :
         e.form = "single" /\ e.text.kind = "ipv6" /\ client.kind = "ipv6"
           /\ e.text.bits = client.bits /\ e.text # client => SpellingMatters
  BY <1>2, <1>7 DEF SpellingMatters
<1>11. \A e \in cfg.entries :
         /\ HasRule(e) /\ ipMatchesRule(normalizeIp(client), parseCidr(e))
              => GoHasRule(e) /\ Covers(e, To4(client))
         /\ GoHasRule(e) /\ Covers(e, To4(client)) =>
              \/ HasRule(e) /\ ipMatchesRule(normalizeIp(client), parseCidr(e))
              \/ SpellingMatters
  BY <1>1, <1>4, <1>8, <1>9, <1>10, RuleMeansEntry
<1> QED BY <1>5, <1>6, <1>11

\* authorizeDomain finds a key exactly when a key covers the host.
LEMMA LookupCovers ==
  ASSUME DualInv, done
  PROVE  /\ LookupOutcome \in {"granted", "denied", "failed"}
         /\ LookupOutcome = "granted" <=> scene.valkeyUp /\ CoveredBy(KeyTexts)
<1>1. CandidatesAgreeWithHostAllowed
  BY CandidatesAgree DEF DualInv
<1>2. \A d \in Texts : NonBlank(normalizeHost(d)) =>
        (hostAllowed(text, d) <=> \E i \in 1..Len(out) : out[i] = normalizeHost(d))
  BY <1>1 DEF CandidatesAgreeWithHostAllowed
<1>3. (\E i \in 1..Len(out) : out[i] \in SessionKeys) <=> CoveredBy(KeyTexts)
  <2>1. ASSUME NEW i \in 1..Len(out), out[i] \in SessionKeys PROVE CoveredBy(KeyTexts)
    <3>1. PICK t \in Texts : normalizeHost(t) = out[i]
      BY <2>1, ScenarioAssumption
    <3>2. hostAllowed(text, t) /\ t \in KeyTexts
      BY <1>2, <2>1, <3>1, ScenarioAssumption DEF KeyTexts
    <3> QED BY <3>2 DEF CoveredBy
  <2>2. ASSUME CoveredBy(KeyTexts) PROVE \E i \in 1..Len(out) : out[i] \in SessionKeys
    <3>1. PICK d \in Texts : normalizeHost(d) \in SessionKeys /\ hostAllowed(text, d)
      BY <2>2 DEF CoveredBy, KeyTexts
    <3> QED BY <1>2, <3>1, ScenarioAssumption
  <2> QED BY <2>1, <2>2
<1> QED BY <1>3, ScenarioAssumption DEF LookupOutcome, DualInv

\* What a verdict says, from what the gate is told.
LEMMA VerdictPasses ==
  ASSUME DualInv, done, NEW p \in Proxies
  PROVE  /\ Verdict(p) \in {200, 403, 407, 502}
         /\ Verdict(p) = 200 <=> IpAllowed(p) /\ Entitled(p)
<1> DEFINE required == Configured(p).requireProxyAuth
           facts == [ipAllowed |-> IpAllowed(p),
                     public |-> isPublicHost(text, Configured(p).publicDomains),
                     creds |-> scene.creds]
<1>1. scene \in Scenarios /\ scene.creds \in BOOLEAN
  BY ScenarioAssumption DEF DualInv
<1>2. required \in BOOLEAN
  BY <1>1, ConfiguredTypes
<1>3. IpAllowed(p) \in BOOLEAN
  BY DEF IpAllowed, NodeAllows, GoAllows
<1>4. facts \in Gate(required)!Facts
  BY <1>1, <1>3 DEF Gate!Facts, isPublicHost
<1>5. LookupOutcome \in Gate(required)!Lookup
  BY LookupCovers DEF Gate!Lookup
<1>6. Verdict(p) = Gate(required)!authorize(facts, LookupOutcome)
  BY DEF Verdict
<1> HIDE DEF required
<1>7. /\ Verdict(p) \in {200, 403, 407, 502}
      /\ Verdict(p) = 200 <=>
           /\ facts.ipAllowed
           /\ facts.public \/ ~required \/ (facts.creds /\ LookupOutcome = "granted")
  BY <1>2, <1>4, <1>5, <1>6, GatePasses
<1>8. Entitled(p) <=> facts.public \/ ~required \/ (facts.creds /\ LookupOutcome = "granted")
  BY LookupCovers DEF Entitled, CoveredBy, isPublicHost, required
<1> QED BY <1>7, <1>8

LEMMA DualInitInv == DualInit => DualInv
<1> SUFFICES ASSUME DualInit PROVE DualInv
  OBVIOUS
<1>1. IInv
  BY InitIInv DEF DualInit
<1> QED BY <1>1 DEF DualInit, DualInv, GateInv, Proxies, Judged, Unjudged

\* A verdict that has been given does not change: nothing it rests on does.
LEMMA VerdictLasts ==
  ASSUME scene' = scene, text' = text, out' = out, NEW p \in Proxies
  PROVE  Verdict(p)' = Verdict(p) /\ Starts(p)' = Starts(p)
BY DEF Verdict, Starts, Configured, IpAllowed, LookupOutcome

LEMMA DualStepInv == DualInv /\ [DualNext]_allVars => DualInv'
<1> SUFFICES ASSUME DualInv, [DualNext]_allVars PROVE DualInv'
  OBVIOUS
<1>1. scene' = scene /\ scene \in Scenarios /\ scene.host = text
  BY DEF DualInv, GateInv, DualNext, Suffixes, Run, Start, Listen, Judge, allVars
<1>2. [Next]_vars
  BY DEF DualNext, Suffixes, Run, Start, Listen, Judge, allVars, loopVars
<1>3. IInv'
  BY <1>2, StepIInv DEF DualInv
<1>4. text' = text /\ (done => done' = done /\ out' = out)
  BY <1>2 DEF Next, Push, Stop, vars
<1>5. done => \A p \in Proxies : Verdict(p)' = Verdict(p) /\ Starts(p)' = Starts(p)
  BY <1>1, <1>4, VerdictLasts
<1>6. \A p \in Proxies : Starts(p)' = Starts(p)
  BY <1>1 DEF Starts
<1>7. /\ pc' \in [Proxies -> {"start", "running", "exited"}]
      /\ bound' \in [Proxies -> SUBSET Listeners]
      /\ \A p \in Proxies : pc'[p] = "running" => Starts(p)
  <2>1. CASE Suffixes \/ (\E p \in Proxies : Judge(p)) \/ UNCHANGED allVars
    BY <2>1 DEF DualInv, GateInv, Suffixes, Judge, procVars, allVars
  <2>2. ASSUME NEW p \in Proxies, Start(p) \/ \E l \in Listeners : Listen(p, l)
        PROVE  <1>7!:
    BY <2>2 DEF DualInv, GateInv, Start, Listen, BindErrorEnds, Listeners
  <2> QED BY <2>1, <2>2 DEF DualNext, Run
<1>8. /\ verdict' \in [Proxies -> {Unjudged, 200, 403, 407, 502}]
      /\ \A p \in Proxies : Judged(p)' => done /\ Starts(p) /\ verdict'[p] = Verdict(p)
  <2>1. CASE UNCHANGED verdict
    BY <2>1 DEF DualInv, GateInv, Judged
  <2>2. ASSUME NEW q \in Proxies, Judge(q)
        PROVE  <1>8!:
    <3>1. done /\ Verdict(q) \in {200, 403, 407, 502}
      BY <2>2, VerdictPasses DEF Judge
    <3>2. verdict' = [verdict EXCEPT ![q] = Verdict(q)] /\ Starts(q)
      BY <2>2 DEF Judge, DualInv, GateInv
    <3> QED BY <3>1, <3>2 DEF DualInv, GateInv, Judged
  <2> QED BY <2>1, <2>2 DEF DualNext, Run, Suffixes, Start, Listen, procVars, allVars
<1> QED BY <1>1, <1>3, <1>4, <1>5, <1>6, <1>7, <1>8 DEF DualInv, GateInv, Judged

(***************************************************************************)
(* The invariant of the two processes, with that of the loop they run.     *)
(***************************************************************************)
THEOREM DualInvariant == DualSpec => []DualInv
<1>1. DualInit => DualInv
  BY DualInitInv
<1>2. DualInv /\ [DualNext]_allVars => DualInv'
  BY DualStepInv
<1> QED BY <1>1, <1>2, PTL DEF DualSpec

(***************************************************************************)
(* A verdict stays the one of the whole gate, and no process that refused  *)
(* its file runs.                                                          *)
(***************************************************************************)
THEOREM GateInvariant == DualSpec => []GateInv
<1>1. DualInv => GateInv
  BY DEF DualInv
<1> QED BY <1>1, DualInvariant, PTL

(***************************************************************************)
(* A request passes exactly when its client is on the list and its host is *)
(* public, open or covered by a key, and the Node proxy differs only where *)
(* PassExactly says so.                                                    *)
(***************************************************************************)
THEOREM GatePassesExactly == DualSpec => []PassExactly
<1>1. DualInv => PassExactly
  <2> SUFFICES ASSUME DualInv PROVE PassExactly
    OBVIOUS
  <2>1. \A p \in Proxies : Judged(p) => (Passed(p) <=> IpAllowed(p) /\ Entitled(p))
    BY VerdictPasses DEF DualInv, GateInv, Passed
  <2>2. IpAllowed("go") <=> Listed("go")
    BY GoListed DEF DualInv
  <2>3. /\ IpAllowed("node") => Listed("node") \/ NamelessClient \/ OtherReading
        /\ Listed("node") => IpAllowed("node") \/ SpellingMatters \/ OtherReading
    BY NodeListed DEF DualInv
  <2> QED BY <2>1, <2>2, <2>3 DEF PassExactly, Proxies
<1> QED BY <1>1, DualInvariant, PTL

\* What the two programs read of the switches.
LEMMA SwitchesRead ==
  ASSUME NEW file
  PROVE  /\ nodeConfig(file).trustProxyHeaders = truthy(file.trustProxyHeaders)
         /\ nodeConfig(file).requireProxyAuth = NodeRequiresAuth(file.requireProxyAuth)
         /\ goConfig(file).trustProxyHeaders
              = (file.trustProxyHeaders.json = "bool" /\ file.trustProxyHeaders.bool)
         /\ goConfig(file).requireProxyAuth
              = (file.requireProxyAuth.json = "bool" => file.requireProxyAuth.bool)
<1>1. nodeConfig(file).trustProxyHeaders = truthy(file.trustProxyHeaders)
  BY ZenonT(60) DEF nodeConfig
<1>2. nodeConfig(file).requireProxyAuth = NodeRequiresAuth(file.requireProxyAuth)
  BY ZenonT(60) DEF nodeConfig
<1>3. goConfig(file).trustProxyHeaders
        = (file.trustProxyHeaders.json = "bool" /\ file.trustProxyHeaders.bool)
  BY ZenonT(60) DEF goConfig
<1>4. goConfig(file).requireProxyAuth
        = (file.requireProxyAuth.json = "bool" => file.requireProxyAuth.bool)
  BY ZenonT(60) DEF goConfig
<1> QED BY <1>1, <1>2, <1>3, <1>4

\* Both proxies read the same from a file that Go accepts.
LEMMA AlikeConfigured ==
  ASSUME scene \in Scenarios, GoDecodes(scene.file), Alike
  PROVE  /\ Configured("node").entries = Configured("go").entries
         /\ Configured("node").publicDomains = Configured("go").publicDomains
         /\ Configured("node").trustProxyHeaders = Configured("go").trustProxyHeaders
         /\ Configured("node").requireProxyAuth = Configured("go").requireProxyAuth
<1> DEFINE file == scene.file
<1>1. /\ file.allowedClientIps.json \in {"absent", "null", "list"}
      /\ file.publicDomains.json \in {"absent", "null", "list"}
      /\ file.trustProxyHeaders.json \in {"absent", "null", "bool"}
      /\ file.requireProxyAuth.json \in {"absent", "bool"}
      /\ file.allowedClientIps.json = "list" => file.allowedClientIps.list # {}
  BY DEF GoDecodes, GoField, Alike
<1>2. Configured("node").entries = Configured("go").entries
  BY <1>1 DEF Configured, nodeConfig, goConfig, NodeEntries
<1>3. Configured("node").publicDomains = Configured("go").publicDomains
  BY <1>1 DEF Configured, nodeConfig, goConfig
<1>4. Configured("node").trustProxyHeaders <=> Configured("go").trustProxyHeaders
  <2>1. truthy(file.trustProxyHeaders)
          <=> file.trustProxyHeaders.json = "bool" /\ file.trustProxyHeaders.bool
    BY <1>1 DEF truthy
  <2>2. Configured("node").trustProxyHeaders = truthy(file.trustProxyHeaders)
    BY SwitchesRead, Zenon DEF Configured
  <2>3. Configured("go").trustProxyHeaders
          = (file.trustProxyHeaders.json = "bool" /\ file.trustProxyHeaders.bool)
    <3>1. Configured("go") = goConfig(file)
      BY DEF Configured
    <3> QED BY <3>1, SwitchesRead, Zenon
  <2> QED BY <2>1, <2>2, <2>3
<1>5. Configured("node").requireProxyAuth <=> Configured("go").requireProxyAuth
  <2>1. NodeRequiresAuth(file.requireProxyAuth)
          <=> (file.requireProxyAuth.json = "bool" => file.requireProxyAuth.bool)
    BY <1>1 DEF truthy, NodeRequiresAuth
  <2>2. Configured("node") = nodeConfig(file) /\ Configured("go") = goConfig(file)
    BY DEF Configured
  <2> QED BY <2>1, <2>2, SwitchesRead, Zenon
<1> QED BY <1>2, <1>3, <1>4, <1>5, ConfiguredTypes DEF Proxies

(***************************************************************************)
(* The two proxies give the same answer to the same request under the same *)
(* file, but for the differences that Alike names.                         *)
(***************************************************************************)
THEOREM ProxiesAgree == DualSpec => []SameVerdict
<1>1. DualInv => SameVerdict
  <2> SUFFICES ASSUME DualInv, Judged("node"), Judged("go"), Alike
               PROVE  verdict["node"] = verdict["go"]
    BY DEF SameVerdict
  <2>1. /\ scene \in Scenarios /\ GoDecodes(scene.file)
        /\ verdict["node"] = Verdict("node") /\ verdict["go"] = Verdict("go")
    BY DEF DualInv, GateInv, Proxies, Starts, GoStarts
  <2>2. /\ Configured("node").entries = Configured("go").entries
        /\ Configured("node").publicDomains = Configured("go").publicDomains
        /\ Configured("node").trustProxyHeaders = Configured("go").trustProxyHeaders
        /\ Configured("node").requireProxyAuth = Configured("go").requireProxyAuth
    BY <2>1, AlikeConfigured
  <2>3. Listed("node") <=> Listed("go")
    BY <2>2 DEF Listed
  <2>4. IpAllowed("node") <=> IpAllowed("go")
    BY <2>1, <2>3, GoListed, NodeListed DEF Alike
  <2>5. IpAllowed("node") = IpAllowed("go")
    BY <2>4 DEF IpAllowed, NodeAllows, GoAllows
  <2>6. Verdict("node") = Verdict("go")
    BY <2>2, <2>5, Zenon DEF Verdict
  <2> QED BY <2>1, <2>6
<1> QED BY <1>1, DualInvariant, PTL

\* What the file holds where the Node proxy asks for no authentication.
LEMMA FalsySwitch ==
  ASSUME NEW v \in Switch, v.json # "absent", ~truthy(v)
  PROVE  v \in {Bool(FALSE)} \cup NodeFalsy
<1>1. CASE v \in {Absent, Null}
  <2>1. v = Null
    BY <1>1 DEF Absent
  <2> QED BY <2>1 DEF NodeFalsy
<1>2. CASE v \in [json : {"bool"}, bool : BOOLEAN]
  BY <1>2 DEF truthy, Bool
<1>3. CASE v \in [json : {"number"}, number : Int]
  BY <1>3 DEF truthy, Number, NodeFalsy
<1>4. CASE v \in [json : {"text"}, text : STRING]
  BY <1>4 DEF truthy, Text, NodeFalsy
<1>5. CASE v \in [json : {"list"}, list : {{}}]
  BY <1>5 DEF truthy
<1> QED BY <1>1, <1>2, <1>3, <1>4, <1>5 DEF Switch

(***************************************************************************)
(* No proxy is an open relay unless the file turns authentication off, or  *)
(* holds a value that is false as a condition, in Node.                    *)
(***************************************************************************)
THEOREM NoRelayUntold == DualSpec => []OpenOnlyIfTold
<1>1. DualInv => OpenOnlyIfTold
  <2> SUFFICES ASSUME DualInv, NEW p \in Proxies, RelayUsed(p)
               PROVE  scene.file.requireProxyAuth \in
                        {Bool(FALSE)} \cup (IF p = "node" THEN NodeFalsy ELSE {})
    BY DEF OpenOnlyIfTold
  <2> DEFINE v == scene.file.requireProxyAuth
  <2>1. scene \in Scenarios /\ v \in Switch
    BY ScenarioAssumption DEF DualInv
  <2>2. ~Configured(p).requireProxyAuth
    BY VerdictPasses DEF RelayUsed, DualInv, GateInv, Passed, Judged, Unjudged, Entitled
  <2>3. CASE p = "node"
    <3>1. v.json # "absent" /\ ~truthy(v)
      <4>1. Configured(p) = nodeConfig(scene.file)
        BY <2>3 DEF Configured
      <4> QED BY <2>2, <4>1, SwitchesRead, Zenon DEF NodeRequiresAuth
    <3> QED BY <2>1, <2>3, <3>1, FalsySwitch
  <2>4. CASE p = "go"
    <3>1. Configured(p) = goConfig(scene.file)
      BY <2>4 DEF Configured
    <3>2. goConfig(scene.file).requireProxyAuth = (v.json = "bool" => v.bool)
      BY SwitchesRead, Zenon
    <3>3. v.json = "bool" /\ ~v.bool
      BY <2>2, <3>1, <3>2
    <3> QED BY <2>1, <3>3 DEF Switch, Absent, Null, Bool
  <2> QED BY <2>3, <2>4 DEF Proxies
<1> QED BY <1>1, DualInvariant, PTL

\* Addresses that have a port are left as they are.
LEMMA PortsKept ==
  ASSUME NEW addrs, addrs \subseteq [at : STRING, port : Nat],
         \A a \in addrs : a.port # NoPortGiven
  PROVE  parseSentinelAddrs(addrs) = addrs
<1> DEFINE Completed(a) == [a EXCEPT !.port = IF @ = NoPortGiven THEN SentinelPort ELSE @]
<1>1. \A a \in addrs : Completed(a) = a
  OBVIOUS
<1>2. parseSentinelAddrs(addrs) = {Completed(a) : a \in addrs}
  BY DEF parseSentinelAddrs
<1> HIDE DEF Completed
<1>3. {Completed(a) : a \in addrs} = addrs
  BY <1>1
<1> QED BY <1>2, <1>3

(***************************************************************************)
(* Two proxies that run on one file use the same Valkey, by the same kind  *)
(* of connection, but for a sentinel without a port and for the name that  *)
(* the certificate is checked against.                                     *)
(***************************************************************************)
THEOREM ValkeyShared == DualSpec => []SameValkey
<1>1. DualInv => SameValkey
  <2> DEFINE file == scene.file
             tls == file.valkeyTls
             node == createValkeyClient(file)
             go == NewValkeyClient(file)
  <2> SUFFICES ASSUME scene \in Scenarios
               PROVE  /\ (\A a \in go.servers : a.port # NoPortGiven) => node.servers = go.servers
                      /\ ~tls.serverName => node.tls = go.tls
                      /\ node.tls.on = go.tls.on /\ node.tls.client = go.tls.client
    BY DEF DualInv, SameValkey
  <2>1. /\ node.tls = ValkeyTls(tls, "host")
        /\ go.tls = ValkeyTls(tls, IF tls.serverName THEN "serverName" ELSE "host")
    BY DEF createValkeyClient, NewValkeyClient, NodePeer, GoPeer
  <2>2. /\ ~tls.serverName => node.tls = go.tls
        /\ node.tls.on = go.tls.on /\ node.tls.client = go.tls.client
    <3>1. \A peer : ValkeyTls(tls, peer).on = ValkeyTls(tls, "host").on
      BY DEF ValkeyTls
    <3>2. \A peer : ValkeyTls(tls, peer).client = ValkeyTls(tls, "host").client
      BY DEF ValkeyTls
    <3>3. ~tls.serverName => (IF tls.serverName THEN "serverName" ELSE "host") = "host"
      OBVIOUS
    <3> QED BY <2>1, <3>1, <3>2, <3>3, Zenon
  <2>3. ASSUME \A a \in go.servers : a.port # NoPortGiven
        PROVE  node.servers = go.servers
    <3>1. CASE GoUsesSentinel(file.sentinel)
      <4>1. /\ go.servers = file.sentinel.sentinels.list
            /\ node.servers = parseSentinelAddrs(file.sentinel.sentinels.list)
        BY <3>1 DEF createValkeyClient, NewValkeyClient, GoUsesSentinel, useSentinel
      <4>2. go.servers \subseteq [at : STRING, port : Nat]
        BY <3>1, <4>1, ScenarioAssumption DEF GoUsesSentinel
      <4> QED BY <2>3, <4>1, <4>2, PortsKept
    <3>2. CASE ~GoUsesSentinel(file.sentinel)
      BY <3>2 DEF createValkeyClient, NewValkeyClient, GoUsesSentinel, useSentinel
    <3> QED BY <3>1, <3>2
  <2> QED BY <2>2, <2>3
<1> QED BY <1>1, DualInvariant, PTL
=============================================================================
