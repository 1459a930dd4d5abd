----------------------------- MODULE Allowlist -----------------------------
(***************************************************************************)
(* The IP allowlist of both proxies: node-proxy/src/ipAllowlist.js, which  *)
(* does the arithmetic of prefixes itself, and                             *)
(* go-proxy/internal/allowlist/ip.go, which leaves it to package net.      *)
(*                                                                         *)
(* An address is its bits, the most significant first.  As text an IPv4    *)
(* address may have the mapped form ::ffff:a.b.c.d, and an IPv6 address is *)
(* written in groups, the last two perhaps in the dotted form of IPv4.     *)
(***************************************************************************)
EXTENDS Integers, Sequences

CONSTANTS
  Groups6,    \* an IPv6 address has 8 groups
  GroupBytes, \* of 2 bytes
  ByteBits,   \* of 8 bits
  Loopback,   \* the bits of 127.0.0.1
  MappedPrefix,   \* those of ::ffff: in the mapped form
  DottedAsHex     \* what parseInt(a.b.c.d, 16) makes of a dotted form: a group

GroupBits == GroupBytes * ByteBits
Bytes6 == Groups6 * GroupBytes
Bits6 == Bytes6 * ByteBits
Bits4 == 2 * GroupBits
MappedBits == Bits6 - Bits4
IPv4 == [1..Bits4 -> BOOLEAN]
IPv6 == [1..Bits6 -> BOOLEAN]

ASSUME AddressAssumption ==
  /\ Groups6 \in Nat /\ Groups6 > 2
  /\ GroupBytes \in Nat \ {0} /\ ByteBits \in Nat \ {0}
  /\ Loopback \in IPv4
  /\ MappedPrefix \in [1..MappedBits -> BOOLEAN]
  /\ DottedAsHex \in [IPv4 -> [1..GroupBits -> BOOLEAN]]

Group(bits, i) == [j \in 1..GroupBits |-> bits[(i - 1) * GroupBits + j]]
Zero == [j \in 1..GroupBits |-> FALSE]
Tail4(bits) == [j \in 1..Bits4 |-> bits[MappedBits + j]]

\* A text of IPv6: whether it is dotted; the group that a :: in front of the
\* dotted part ends with, 0: there is none; how its zeros are written.
IPv6Text ==
  {t \in [kind : {"ipv6"}, bits : IPv6, dotted : BOOLEAN, gap : 0..(Groups6 - 2),
          spelling : {"canonical", "other"}] :
     /\ ~t.dotted => t.gap = 0
     /\ t.gap # 0 => Group(t.bits, t.gap) = Zero}

IPv4Text == [kind : {"ipv4"}, bits : IPv4]
AddressText == IPv4Text \cup IPv6Text \cup [kind : {"mapped"}, bits : IPv4]

Junk == [kind |-> "junk"]       \* a text that is no address
NoText == [kind |-> "none"]     \* undefined, or the empty string

IsAddress(text) == text.kind \in {"ipv4", "ipv6", "mapped"}

(***************************************************************************)
(* Entries of allowedClientIps.  The number after a slash may be anything, *)
(* and may have other text after it, which parseInt ignores.               *)
(***************************************************************************)
Single(text) == [form |-> "single", text |-> text]
Cidr(text, prefix, tail) ==
  [form |-> "cidr", text |-> text, prefix |-> prefix, tail |-> tail]

\* What the list of a file may hold.
Entry ==
  [form : {"single"}, text : AddressText \cup {Junk}] \cup
  [form : {"cidr"}, text : AddressText \cup {Junk}, prefix : Int, tail : BOOLEAN] \cup
  {[form |-> "blank"], [form |-> "number"]}

-----------------------------------------------------------------------------
(* Pieces of parseCidr and ipMatchesRule; the forms before them are faults *)
(* for mutants.                                                            *)

And(a, b) == [i \in DOMAIN a |-> a[i] /\ b[i]]

\* ~0 << count: the shift counts modulo the width.
OnesShifted(count) == [i \in 1..Bits4 |-> i <= Bits4 - (count % Bits4)]

\* prefix === 0 ? 0 : (~0 << (32 - prefix)) >>> 0
MaskUnguarded(prefix) == OnesShifted(Bits4 - prefix)
Mask4(prefix) ==
  IF prefix = 0 THEN [i \in 1..Bits4 |-> FALSE] ELSE OnesShifted(Bits4 - prefix)

\* The network of a rule: addr & mask.
NetworkAsWritten(addr, mask) == addr
Network(addr, mask) == And(addr, mask)

\* Byte i of an address, and of the mask for what remains of the prefix.
ByteOf(bits, i) == [j \in 1..ByteBits |-> bits[i * ByteBits + j]]
ByteMask(remaining) == [j \in 1..ByteBits |-> remaining >= ByteBits \/ j <= remaining]

\* The loop over the bytes: it ends where the prefix does.  The faulty form
\* leaves out a byte that the prefix covers in part.
LoopReachesWhole(i, prefix) == (i + 1) * ByteBits <= prefix
LoopReaches(i, prefix) == i * ByteBits < prefix

BytesMatch(a, b, prefix) ==
  \A i \in 0..(Bytes6 - 1) : LoopReaches(i, prefix) =>
    LET mask == ByteMask(prefix - i * ByteBits)
    IN  And(ByteOf(a, i), mask) = And(ByteOf(b, i), mask)

-----------------------------------------------------------------------------
(* The Node proxy.                                                         *)

\* normalizeIp: an address of IPv4, or a text of IPv6 as it is.
normalizeIp(text) ==
  IF text.kind = "mapped" THEN [kind |-> "ipv4", bits |-> text.bits] ELSE text

\* expandIpv6 counts a dotted part, two groups, as one, and ipv6ToBytes reads
\* it by parseInt in base 16.  Without a :: the part then becomes the group
\* before the last; with one, the gap is filled with a group too many and what
\* is between it and the dotted part moves up.
GroupAsRead(text, i) ==
  CASE ~text.dotted \/ i <= text.gap -> Group(text.bits, i)
    [] text.dotted /\ text.gap = 0 ->
         (CASE i < Groups6 - 1 -> Group(text.bits, i)
            [] i = Groups6 - 1 -> DottedAsHex[Tail4(text.bits)]
            [] OTHER -> Zero)
    [] OTHER -> IF i < Groups6 THEN Group(text.bits, i - 1)
                ELSE DottedAsHex[Tail4(text.bits)]

expandIpv6(text) == [i \in 1..Groups6 |-> GroupAsRead(text, i)]
ipv6ToBytes(text) ==
  [k \in 1..Bits6 |->
     expandIpv6(text)[((k - 1) \div GroupBits) + 1][((k - 1) % GroupBits) + 1]]

\* normalizeIp's address decides how far a prefix may go.
Width(text) == IF text.kind = "ipv6" THEN Bits6 ELSE Bits4

\* parseCidr returns a rule for these entries and null for the others.
HasRule(entry) ==
  /\ entry.form \in {"single", "cidr"} /\ IsAddress(entry.text)
  /\ entry.form = "cidr" => entry.prefix \in 0..Width(entry.text)

parseCidr(entry) ==
  LET ip == normalizeIp(entry.text)
  IN  IF entry.form = "single" THEN [type |-> "single", ip |-> ip]
      ELSE IF ip.kind = "ipv4"
      THEN LET mask == Mask4(entry.prefix)
           IN  [type |-> "ipv4", network |-> Network(ip.bits, mask), mask |-> mask]
      ELSE [type |-> "ipv6", bytes |-> ipv6ToBytes(ip), prefix |-> entry.prefix]

ipMatchesRule(ip, rule) ==
  \/ rule.type = "single" /\ rule.ip = ip     \* as texts
  \/ rule.type = "ipv4" /\ ip.kind = "ipv4" /\ And(ip.bits, rule.mask) = rule.network
  \/ /\ rule.type = "ipv6" /\ ip.kind = "ipv6"
     /\ BytesMatch(ipv6ToBytes(ip), rule.bytes, rule.prefix)

\* The first entry of X-Forwarded-For, when it counts and is an address.
ForwardedFirst(req) == IF req.xff = <<>> THEN NoText ELSE req.xff[1]
ForwardedLast(req) == IF req.xff = <<>> THEN NoText ELSE req.xff[Len(req.xff)]
Forwarded(req) == ForwardedFirst(req)

resolveClientIp(req, trustProxyHeaders) ==
  IF trustProxyHeaders /\ IsAddress(Forwarded(req)) THEN normalizeIp(Forwarded(req))
  ELSE IF IsAddress(req.remote) THEN normalizeIp(req.remote)
  ELSE [kind |-> "ipv4", bits |-> Loopback]

\* entries.map(parseCidr) throws when an entry is not a string.
NodeParses(entries) == \A e \in entries : e.form # "number"

NodeAllows(entries, req, trustProxyHeaders) ==
  LET ip == resolveClientIp(req, trustProxyHeaders)
  IN  \E e \in entries : HasRule(e) /\ ipMatchesRule(ip, parseCidr(e))

-----------------------------------------------------------------------------
(* The Go proxy.                                                           *)

(* normalizeIP and package net (external) take an address of IPv6 with the *)
(* mapped prefix for the one of IPv4, however it is written.               *)

IsMapped(text) ==
  text.kind = "ipv6" /\ \A i \in 1..MappedBits : text.bits[i] = MappedPrefix[i]

To4(text) ==
  IF text.kind \in {"ipv4", "mapped"} THEN [kind |-> "ipv4", bits |-> text.bits]
  ELSE IF IsMapped(text) THEN [kind |-> "ipv4", bits |-> Tail4(text.bits)]
  ELSE [kind |-> "ipv6", bits |-> text.bits]

\* The bits of a text of IPv6, the mapped form included.
Wide(text) ==
  IF text.kind = "mapped"
  THEN [i \in 1..Bits6 |-> IF i <= MappedBits THEN MappedPrefix[i]
                           ELSE text.bits[i - MappedBits]]
  ELSE text.bits

\* Parse fails on what net.ParseCIDR refuses, which counts the prefix of a
\* mapped form from its first bit; the decoder of the configuration has
\* refused what is not a string.
PrefixFits(entry) == entry.prefix \in 0..(IF entry.text.kind = "ipv4" THEN Bits4 ELSE Bits6)

GoParses(entries) ==
  \A e \in entries : e.form = "cidr" => IsAddress(e.text) /\ PrefixFits(e) /\ ~e.tail

GoHasRule(entry) ==
  /\ entry.form \in {"single", "cidr"} /\ IsAddress(entry.text)
  /\ entry.form = "cidr" => PrefixFits(entry)

\* The same first n bits: what net.IPNet.Contains compares (external).
SamePrefix(a, b, n) == \A i \in 1..n : a[i] = b[i]

\* An address is in a network: one of IPv4 if it is written so, or if it has
\* the mapped prefix and its own reaches beyond that.
InNetwork(entry, ip) ==
  LET base == To4(entry.text)
      n == IF entry.text.kind = "ipv4" THEN entry.prefix ELSE entry.prefix - MappedBits
  IN  IF base.kind = "ipv4" /\ n >= 0
      THEN ip.kind = "ipv4" /\ SamePrefix(base.bits, ip.bits, n)
      ELSE ip.kind = "ipv6" /\ SamePrefix(Wide(entry.text), ip.bits, entry.prefix)

Covers(entry, ip) ==
  IF entry.form = "single" THEN To4(entry.text) = ip ELSE InNetwork(entry, ip)

\* ClientIP gives nil, which Allowed refuses, where there is no address.
ClientIP(req, trustProxy) ==
  IF trustProxy /\ IsAddress(Forwarded(req)) THEN To4(Forwarded(req))
  ELSE IF IsAddress(req.remote) THEN To4(req.remote) ELSE NoText

GoAllows(entries, req, trustProxy) ==
  LET ip == ClientIP(req, trustProxy)
  IN  IsAddress(ip) /\ \E e \in entries : GoHasRule(e) /\ Covers(e, ip)
=============================================================================
