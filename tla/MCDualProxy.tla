---------------------------- MODULE MCDualProxy ----------------------------
(***************************************************************************)
(* IPv6 addresses of four groups of one byte of two bits, so that IPv4     *)
(* addresses have four bits, hosts of up to three labels; five families of *)
(* scenarios around a plain one.                                           *)
(***************************************************************************)
EXTENDS DualProxy

MCLabel == {"", "a", "A", "b"}
MCLower == [l \in MCLabel |-> IF l = "A" THEN "a" ELSE l]
MCTexts ==
  LET names == UNION {[1..n -> MCLabel] : n \in 0..3} \ {<<"">>}
  IN  [labels : names, form : {"bare", "port", "bracketed"}]

T == TRUE
F == FALSE
MCLoopback == <<F, T, T, T>>
MCMappedPrefix == <<F, F, T, T>>
\* The first of the two bytes, whose single digit is the same in base 16.
MCDottedAsHex == [a \in [1..4 -> BOOLEAN] |-> <<a[1], a[2]>>]
V4(bits) == [kind |-> "ipv4", bits |-> bits]
Mapped(bits) == [kind |-> "mapped", bits |-> bits]
V6(bits, spelling) ==
  [kind |-> "ipv6", bits |-> bits, dotted |-> FALSE, gap |-> 0, spelling |-> spelling]
Dotted(bits, gap) ==
  [kind |-> "ipv6", bits |-> bits, dotted |-> TRUE, gap |-> gap, spelling |-> "canonical"]
Six == <<F, F, F, F, F, F, F, T>>    \* ::1
MCDefaultEntries == {Single(V4(MCLoopback)), Single(V6(Six, "canonical"))}
MCNoPublicDomains == {}
MCSessionKeys == {<<"b">>, <<"a", "">>}

Host == [labels |-> <<"b">>, form |-> "bare"]
Public == [labels |-> <<"A">>, form |-> "bare"]
Stranger == <<T, T, T, T>>
From(address) == [xff |-> <<>>, remote |-> address]

Direct == [at |-> "valkey", port |-> 6379]
NoTls == [enabled |-> FALSE, caFile |-> "", certFile |-> "", keyFile |-> "",
          serverName |-> FALSE]
PlainFile ==
  [allowedClientIps |-> Absent, trustProxyHeaders |-> Absent,
   requireProxyAuth |-> Absent, publicDomains |-> List({Public}),
   proxyPort |-> Absent, adminPort |-> Absent, valkeyUrl |-> Direct,
   sentinel |-> [masterName |-> FALSE, sentinels |-> Absent], valkeyTls |-> NoTls]
Plain ==
  [file |-> PlainFile, req |-> From(V4(MCLoopback)), host |-> Host,
   creds |-> TRUE, valkeyUp |-> TRUE, taken |-> {}]

\* Every host, with and without credentials, or with Valkey away.
HostScenes ==
  {[Plain EXCEPT !.host = t] : t \in MCTexts} \cup
  {[Plain EXCEPT !.host = t, !.creds = c, !.valkeyUp = u] :
     t \in {Host, Public}, c \in BOOLEAN, u \in BOOLEAN}

\* Every prefix of some networks, for the clients that differ from the base in
\* one bit or none.
OpenTo(entries, req) ==
  [Plain EXCEPT !.file.allowedClientIps = List(entries), !.req = req, !.host = Public]
Nets(bases, prefixes) == {Cidr(b, n, FALSE) : b \in bases, n \in prefixes}
Near(bits) == {bits} \cup {[bits EXCEPT ![i] = ~@] : i \in DOMAIN bits}
AddressScenes ==
  {OpenTo({e}, From(V4(c))) :
     e \in Nets({V4(MCLoopback), V4(<<T, F, T, F>>)}, -1..(Bits4 + 1)),
     c \in Near(MCLoopback) \cup Near(<<T, F, T, F>>)} \cup
  {OpenTo({e}, From(V6(c, "canonical"))) :
     e \in Nets({V6(Six, "other"), V6(<<T, T, T, T, F, F, T, F>>, "canonical")},
                -1..(Bits6 + 1)),
     c \in Near(Six) \cup Near(<<T, T, T, T, F, F, T, F>>)}

\* Dotted forms, one read right, and the mapped prefix in either form.
DottedTexts ==
  {Dotted(<<F, F, F, F, F, T, F, F>>, 2), Dotted(<<F, F, F, F, F, T, F, F>>, 1),
   Dotted(<<F, F, T, F, T, T, F, T>>, 1), Dotted(<<T, F, F, T, T, T, F, F>>, 0),
   Dotted(<<T, F, F, T, T, T, F, T>>, 0)}
MappedTexts == {Mapped(MCLoopback), V6(MCMappedPrefix \o MCLoopback, "other")}
OddNets(texts, clients) ==
  {[OpenTo({e}, [xff |-> <<c>>, remote |-> V4(Stranger)])
      EXCEPT !.file.trustProxyHeaders = Bool(TRUE)] :
     e \in Nets(texts, 0..(Bits6 + 1)) \cup {Single(t) : t \in texts},
     c \in clients \cup {V6(Six, "canonical"), V6(<<F, F, F, F, F, F, T, F>>, "canonical"),
                         V6(<<T, F, F, T, T, T, F, F>>, "canonical")}}
OddScenes ==
  OddNets(DottedTexts \cup {V6(Six, "canonical")}, DottedTexts) \cup
  OddNets(DottedTexts \cup MappedTexts, MappedTexts \cup {V4(MCLoopback)}) \cup
  {OpenTo({e}, From(c)) :
     e \in {Cidr(V4(MCLoopback), 2, TRUE), Single(Mapped(MCLoopback)),
            Single(V6(Six, "other")), Single(Junk), [form |-> "blank"],
            [form |-> "number"], Cidr(Junk, 0, FALSE), Cidr(V4(MCLoopback), 0, FALSE)},
     c \in {Mapped(MCLoopback), V4(MCLoopback), V6(Six, "canonical"), Junk, NoText}}

\* What the fields of the file may hold, and what the headers may.
Scalars == {Absent, Null, Bool(TRUE), Bool(FALSE), Number(0), Number(1), Text(""),
            Text("false"), List({})}
FieldScenes ==
  {[Plain EXCEPT !.file.requireProxyAuth = v, !.creds = c, !.host = t] :
     v \in Scalars, c \in BOOLEAN, t \in {Host, Public}} \cup
  {[Plain EXCEPT !.file.allowedClientIps = v, !.req = From(V4(c))] :
     v \in Scalars, c \in {MCLoopback, Stranger}} \cup
  {[Plain EXCEPT !.file.publicDomains = v, !.host = Public] : v \in Scalars} \cup
  {[Plain EXCEPT !.file.trustProxyHeaders = v, !.req.xff = x, !.req.remote = r] :
     v \in Scalars,
     x \in {<<>>, <<Junk>>, <<V4(MCLoopback), V4(Stranger)>>,
            <<V4(Stranger), V4(MCLoopback)>>},
     r \in {V4(MCLoopback), V4(Stranger)}}

\* Ports, sentinels and TLS.
Sentinels == {Absent, List({}), List({Direct}),
              List({[at |-> "sentinel", port |-> NoPortGiven]})}
TlsFiles == [enabled : BOOLEAN, caFile : {"", "missing"}, certFile : Path,
             keyFile : Path, serverName : BOOLEAN]
SetupScenes ==
  {[Plain EXCEPT !.file.proxyPort = a, !.file.adminPort = b, !.taken = t] :
     a \in {Absent, Number(0), Number(3001)}, b \in {Absent, Number(3001), Number(8081)},
     t \in {{}, {8080}, {9001}, {3001, 8081}}} \cup
  {[Plain EXCEPT !.file.sentinel = [masterName |-> m, sentinels |-> s]] :
     m \in BOOLEAN, s \in Sentinels} \cup
  {[Plain EXCEPT !.file.valkeyTls = t] : t \in TlsFiles}

MCScenarios ==
  HostScenes \cup AddressScenes \cup OddScenes \cup FieldScenes \cup SetupScenes
=============================================================================
