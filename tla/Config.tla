------------------------------- MODULE Config -------------------------------
(***************************************************************************)
(* What the two proxies make of one configuration file:                    *)
(* node-proxy/src/config.js with valkeyClient.js and valkeyTls.js,         *)
(* and go-proxy/internal/config/config.go with session/client.go and       *)
(* valkeytls/tls.go.                                                       *)
(*                                                                         *)
(* A file is a record of JSON values.  A path in it is given by what is    *)
(* there: a readable file of the right kind, nothing, or no path at all.   *)
(***************************************************************************)
EXTENDS Allowlist

CONSTANTS
  DefaultEntries,     \* DEFAULTS.allowedClientIps: 127.0.0.1 and ::1
  NoPublicDomains     \* []

Absent == [json |-> "absent"]
Null == [json |-> "null"]
Bool(b) == [json |-> "bool", bool |-> b]
Number(n) == [json |-> "number", number |-> n]
Text(s) == [json |-> "text", text |-> s]
List(s) == [json |-> "list", list |-> s]

\* What a field that is meant to be true or false may hold; an object does as
\* a list does.
Switch ==
  {Absent, Null} \cup [json : {"bool"}, bool : BOOLEAN] \cup
  [json : {"number"}, number : Int] \cup [json : {"text"}, text : STRING] \cup
  [json : {"list"}, list : {{}}]

\* And a port: what else Number() would convert is left out.
PortField == {Absent, Null} \cup [json : {"number"}, number : Int]

NoPath == ""
Path == {NoPath, "readable", "missing"}
ReadableIfGiven(path) == path # "missing"

\* Boolean(v)
truthy(v) ==
  \/ v.json = "bool" /\ v.bool
  \/ v.json = "number" /\ v.number # 0
  \/ v.json = "text" /\ v.text # ""
  \/ v.json = "list"

IntOr(v, default) == IF v.json = "number" /\ v.number # 0 THEN v.number ELSE default

-----------------------------------------------------------------------------
(* The Node proxy: loadConfig.  An undefined field has its default, and    *)
(* what is there is coerced, null to false.                                *)

\* requireProxyAuth; the faulty form is Boolean(parsed.requireProxyAuth).
RequireAuthCoerced(v) == truthy(v)
NodeRequiresAuth(v) == v.json = "absent" \/ truthy(v)

NodeEntries(v) == IF v.json = "list" THEN v.list ELSE DefaultEntries

nodeConfig(file) ==
  [entries           |-> NodeEntries(file.allowedClientIps),
   trustProxyHeaders |-> truthy(file.trustProxyHeaders),
   requireProxyAuth  |-> NodeRequiresAuth(file.requireProxyAuth),
   publicDomains     |-> IF file.publicDomains.json = "list"
                         THEN file.publicDomains.list ELSE NoPublicDomains,
   ports             |-> [proxy |-> IntOr(file.proxyPort, 8080),
                          admin |-> IntOr(file.adminPort, 3001)]]

(***************************************************************************)
(* The Go proxy: Load.  null leaves a scalar at its default and empties a  *)
(* list, an empty allowlist becomes the default one, and a value of        *)
(* another type fails the start.                                           *)
(***************************************************************************)
GoField(v, kind) == v.json \in {"absent", "null", kind}

GoDecodes(file) ==
  /\ GoField(file.allowedClientIps, "list") /\ GoField(file.publicDomains, "list")
  /\ GoField(file.trustProxyHeaders, "bool") /\ GoField(file.requireProxyAuth, "bool")
  /\ GoField(file.proxyPort, "number") /\ GoField(file.adminPort, "number")
  /\ file.allowedClientIps.json = "list" =>
       \A e \in file.allowedClientIps.list : e.form # "number"

goConfig(file) ==
  [entries           |-> IF file.allowedClientIps.json = "list"
                            /\ file.allowedClientIps.list # {}
                         THEN file.allowedClientIps.list ELSE DefaultEntries,
   trustProxyHeaders |-> file.trustProxyHeaders.json = "bool" /\ file.trustProxyHeaders.bool,
   requireProxyAuth  |-> file.requireProxyAuth.json = "bool" => file.requireProxyAuth.bool,
   publicDomains     |-> IF file.publicDomains.json = "list"
                         THEN file.publicDomains.list ELSE NoPublicDomains,
   ports             |-> [proxy |-> IntOr(file.proxyPort, 8081),
                          admin |-> IntOr(file.adminPort, 9001)]]

-----------------------------------------------------------------------------
(* The client of Valkey, and TLS.                                          *)

\* A sentinel setup counts with a name and at least one address; the faulty
\* form is parseValkeyConfig alone, which takes an empty list.
SentinelNamed(s) == s.masterName /\ s.sentinels.json = "list"
useSentinel(s) == s.masterName /\ s.sentinels.json = "list" /\ s.sentinels.list # {}

NoPortGiven == 0
SentinelPort == 26379

\* parseSentinelAddrs completes a port; Go hands the text to its library.
parseSentinelAddrs(addrs) ==
  {[a EXCEPT !.port = IF @ = NoPortGiven THEN SentinelPort ELSE @] : a \in addrs}

\* valkeyTls.loadTlsOptions throws on a file that cannot be read, and leaves a
\* certificate without its key out; valkeytls.Build refuses that too.
NodeTlsBuilds(t) ==
  t.enabled =>
    /\ ReadableIfGiven(t.caFile)
    /\ t.certFile # NoPath /\ t.keyFile # NoPath =>
         ReadableIfGiven(t.certFile) /\ ReadableIfGiven(t.keyFile)
GoTlsBuilds(t) ==
  t.enabled =>
    /\ ReadableIfGiven(t.caFile)
    /\ ReadableIfGiven(t.certFile) /\ ReadableIfGiven(t.keyFile)
    /\ (t.certFile = NoPath) = (t.keyFile = NoPath)

\* The name a certificate of Valkey is checked against.  The option that
\* valkeyTls.js sets is serverName, and the one Node's tls reads servername.
NodePeer(t) == "host"
GoPeer(t) == IF t.serverName THEN "serverName" ELSE "host"

ValkeyTls(t, peer) ==
  IF t.enabled
  THEN [on |-> TRUE, client |-> t.certFile # NoPath /\ t.keyFile # NoPath, peer |-> peer]
  ELSE [on |-> FALSE, client |-> FALSE, peer |-> "none"]

createValkeyClient(file) ==
  [servers |-> IF useSentinel(file.sentinel)
               THEN parseSentinelAddrs(file.sentinel.sentinels.list) ELSE {file.valkeyUrl},
   tls |-> ValkeyTls(file.valkeyTls, NodePeer(file.valkeyTls))]

GoUsesSentinel(s) == s.masterName /\ s.sentinels.json = "list" /\ s.sentinels.list # {}

NewValkeyClient(file) ==
  [servers |-> IF GoUsesSentinel(file.sentinel)
               THEN file.sentinel.sentinels.list ELSE {file.valkeyUrl},
   tls |-> ValkeyTls(file.valkeyTls, GoPeer(file.valkeyTls))]

-----------------------------------------------------------------------------
(* Whether the start gets as far as the listeners.                         *)
NodeStarts(file) ==
  NodeTlsBuilds(file.valkeyTls) /\ NodeParses(nodeConfig(file).entries)
GoStarts(file) ==
  GoDecodes(file) /\ GoTlsBuilds(file.valkeyTls) /\ GoParses(goConfig(file).entries)
=============================================================================
