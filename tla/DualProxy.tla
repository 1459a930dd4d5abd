----------------------------- MODULE DualProxy -----------------------------
(***************************************************************************)
(* The two proxies side by side: each is started on the same configuration *)
(* file (node-proxy/src/index.js, go-proxy/cmd/proxy/main.go), opens its   *)
(* two listeners, and judges the same request at its gate.  The gate asks  *)
(* Allowlist about the client, DomainMatch about public domains, and the   *)
(* loop of SuffixLoop for the keys of the host.                            *)
(***************************************************************************)
EXTENDS Config, SuffixLoop

CONSTANTS
  Scenarios,    \* the files, requests and surroundings that are tried
  SessionKeys   \* session keys of the user: the domains, normalized

\* A file and a request are any the programs can be given; the domains of the
\* file and of the keys are among the hosts that are tried.
RequestText == AddressText \cup {Junk, NoText}
ASSUME ScenarioAssumption ==
  /\ \A s \in Scenarios :
       /\ s.file.allowedClientIps.json = "list" => s.file.allowedClientIps.list \subseteq Entry
       /\ s.file.publicDomains.json = "list" => s.file.publicDomains.list \subseteq Texts
       /\ s.file.requireProxyAuth \in Switch
       /\ {s.file.proxyPort, s.file.adminPort} \subseteq PortField
       /\ s.req \in [xff : Seq(RequestText), remote : RequestText]
       /\ s.file.sentinel.sentinels.json = "list" =>
            s.file.sentinel.sentinels.list \subseteq [at : STRING, port : Nat]
       /\ s.creds \in BOOLEAN /\ s.valkeyUp \in BOOLEAN
  /\ DefaultEntries \subseteq Entry /\ NoPublicDomains \subseteq Texts
  /\ \A k \in SessionKeys : NonBlank(k) /\ \E t \in Texts : normalizeHost(t) = k

VARIABLES
  scene,      \* the scenario: fixed
  pc,         \* each process: "start", "running" or "exited"
  bound,      \* the listeners it has open
  verdict     \* what its gate said to the request

Gate(required) == INSTANCE Authorize WITH RequireProxyAuth <- required

loopVars == vars    \* of SuffixLoop
procVars == <<pc, bound, verdict>>
allVars == <<scene, loopVars, procVars>>

Proxies == {"node", "go"}
Listeners == {"proxy", "admin"}
Unjudged == 0

Configured(p) == IF p = "node" THEN nodeConfig(scene.file) ELSE goConfig(scene.file)
Starts(p) == IF p = "node" THEN NodeStarts(scene.file) ELSE GoStarts(scene.file)

-----------------------------------------------------------------------------
\* The proxy and the admin listener may ask for the same port, and other
\* programs have some of them.
PortFree(p, l) ==
  LET ports == Configured(p).ports
  IN  /\ ports[l] \notin scene.taken
      /\ \A other \in bound[p] : ports[other] # ports[l]

\* An error of listen ends the process: nobody handles the event in Node, and
\* the goroutine calls log.Fatal.  The faulty form goes on without.
BindErrorLogged == "running"
BindErrorEnds == "exited"

DualInit ==
  /\ Init
  /\ scene \in {s \in Scenarios : s.host = text}
  /\ pc = [p \in Proxies |-> "start"]
  /\ bound = [p \in Proxies |-> {}]
  /\ verdict = [p \in Proxies |-> Unjudged]

\* Everything before the first listen.
Start(p) ==
  /\ pc[p] = "start"
  /\ pc' = [pc EXCEPT ![p] = IF Starts(p) THEN "running" ELSE "exited"]
  /\ UNCHANGED <<scene, loopVars, bound, verdict>>

Listen(p, l) ==
  /\ pc[p] = "running" /\ l \notin bound[p]
  /\ IF PortFree(p, l)
     THEN bound' = [bound EXCEPT ![p] = @ \cup {l}] /\ UNCHANGED pc
     ELSE /\ pc' = [pc EXCEPT ![p] = BindErrorEnds]
          /\ bound' = [bound EXCEPT ![p] = {}]
  /\ UNCHANGED <<scene, loopVars, verdict>>

\* One iteration of the loop that authorizeDomain runs over, on a copy that
\* stands for both proxies.
Suffixes == Next /\ UNCHANGED <<scene, procVars>>

\* authorizeRequest, authorize: the facts the gate rests on, from the parts.
IpAllowed(p) ==
  LET cfg == Configured(p)
  IN  IF p = "node"
      THEN NodeAllows(cfg.entries, scene.req, cfg.trustProxyHeaders)
      ELSE GoAllows(cfg.entries, scene.req, cfg.trustProxyHeaders)

LookupOutcome ==
  IF ~scene.valkeyUp THEN "failed"
  ELSE IF \E i \in 1..Len(out) : out[i] \in SessionKeys THEN "granted" ELSE "denied"

Verdict(p) ==
  LET cfg == Configured(p)
      facts == [ipAllowed |-> IpAllowed(p),
                public |-> isPublicHost(text, cfg.publicDomains),
                creds |-> scene.creds]
  IN  Gate(cfg.requireProxyAuth)!authorize(facts, LookupOutcome)

Judge(p) ==
  /\ pc[p] = "running" /\ "proxy" \in bound[p]
  /\ done /\ verdict[p] = Unjudged
  /\ verdict' = [verdict EXCEPT ![p] = Verdict(p)]
  /\ UNCHANGED <<scene, loopVars, pc, bound>>

Run(p) == Start(p) \/ \E l \in Listeners : Listen(p, l)

DualNext == Suffixes \/ \E p \in Proxies : Run(p) \/ Judge(p)

\* A process that was started runs its start to the end.
Fairness == \A p \in Proxies : WF_allVars(Run(p))

DualSpec == DualInit /\ [][DualNext]_allVars /\ Fairness
-----------------------------------------------------------------------------
Judged(p) == verdict[p] # Unjudged
Passed(p) == verdict[p] = 200

\* The client is on the list, as package net reads entry and address.
Client(trust) ==
  IF trust /\ scene.req.xff # <<>> /\ IsAddress(Head(scene.req.xff))
  THEN Head(scene.req.xff) ELSE scene.req.remote

Listed(p) ==
  LET cfg == Configured(p)
      client == Client(cfg.trustProxyHeaders)
  IN  /\ IsAddress(client)
      /\ \E e \in cfg.entries : GoHasRule(e) /\ Covers(e, To4(client))

\* The host is covered by one of the domains, by the test on suffixes.
CoveredBy(domains) == \E d \in domains : hostAllowed(text, d)
KeyTexts == {t \in Texts : normalizeHost(t) \in SessionKeys}

Entitled(p) ==
  LET cfg == Configured(p)
  IN  \/ CoveredBy(cfg.publicDomains)
      \/ ~cfg.requireProxyAuth
      \/ scene.creds /\ scene.valkeyUp /\ CoveredBy(KeyTexts)

\* Why the rest holds: a verdict stays the one of the whole gate, whose
\* inputs no longer change once the loop is done.
GateInv ==
  /\ scene.host = text
  /\ pc \in [Proxies -> {"start", "running", "exited"}]
  /\ bound \in [Proxies -> SUBSET Listeners]
  /\ verdict \in [Proxies -> {Unjudged, 200, 403, 407, 502}]
  /\ \A p \in Proxies : pc[p] = "running" => Starts(p)
  /\ \A p \in Proxies : Judged(p) => done /\ Starts(p) /\ verdict[p] = Verdict(p)

DualInv == IInv /\ scene \in Scenarios /\ GateInv

\* Where the Node proxy reads addresses otherwise than package net: a peer
\* whose address it cannot read counts as 127.0.0.1; a single address of IPv6
\* is compared as a text; bytes are misread where the form is dotted; and only
\* ::ffff:a.b.c.d is taken for IPv4, its prefix counted as one of IPv4.
NodeClient == Client(nodeConfig(scene.file).trustProxyHeaders)
NodeRules(form) == {e.text : e \in {x \in nodeConfig(scene.file).entries : x.form = form}}

NamelessClient == ~IsAddress(NodeClient)

SpellingMatters ==
  \E t \in NodeRules("single") :
    t.kind = "ipv6" /\ NodeClient.kind = "ipv6" /\ t.bits = NodeClient.bits /\ t # NodeClient

MisreadText(t) == t.kind = "ipv6" /\ ipv6ToBytes(t) # t.bits
Misread == \E t \in NodeRules("cidr") \cup {NodeClient} : MisreadText(t)

MappedMatters ==
  \/ \E t \in NodeRules("single") \cup NodeRules("cidr") \cup {NodeClient} : IsMapped(t)
  \/ \E t \in NodeRules("cidr") : t.kind = "mapped"

OtherReading == Misread \/ MappedMatters

(***************************************************************************)
(* A gate lets a request pass exactly when the client's address, as the    *)
(* headers the file trusts give it, is in the network of a list entry, and *)
(* the host is public, or authentication is off, or a session key covers   *)
(* the host: masks, byte loops, the loop over suffixes and the order of    *)
(* authorizeRequest and authorize together.  The Node proxy differs in the *)
(* four places above.                                                      *)
(***************************************************************************)
PassExactly ==
  /\ Judged("go") => (Passed("go") <=> Listed("go") /\ Entitled("go"))
  /\ Judged("node") =>
       /\ Passed("node") =>
            Entitled("node") /\ (Listed("node") \/ NamelessClient \/ OtherReading)
       /\ Listed("node") /\ Entitled("node") =>
            Passed("node") \/ SpellingMatters \/ OtherReading

(***************************************************************************)
(* The two proxies give the same answer to the same request under the same *)
(* file, but for six differences: the four above, an empty allowlist (all  *)
(* refused by Node, the default one in Go), and requireProxyAuth: null     *)
(* (off in Node, on in Go).                                                *)
(***************************************************************************)
Alike ==
  /\ ~NamelessClient /\ ~SpellingMatters /\ ~OtherReading
  /\ scene.file.allowedClientIps.json = "list" => scene.file.allowedClientIps.list # {}
  /\ scene.file.requireProxyAuth.json # "null"

SameVerdict ==
  Judged("node") /\ Judged("go") /\ Alike => verdict["node"] = verdict["go"]

(***************************************************************************)
(* A request without credentials for a host that is not public only passes *)
(* if the file says false: not by a default, not by "false" or another     *)
(* value that Boolean takes for true.  In Node null, 0 and "" open the     *)
(* relay as well (config.js:113), in Go nothing else does.                 *)
(***************************************************************************)
NodeFalsy == {Null, Number(0), Text("")}
RelayUsed(p) == Passed(p) /\ ~scene.creds /\ ~CoveredBy(Configured(p).publicDomains)

OpenOnlyIfTold ==
  \A p \in Proxies :
    RelayUsed(p) => scene.file.requireProxyAuth \in
                      {Bool(FALSE)} \cup (IF p = "node" THEN NodeFalsy ELSE {})

(***************************************************************************)
(* Two proxies that run on the same file ask the same Valkey, by the same  *)
(* kind of connection, except where a sentinel has no port or serverName   *)
(* is set, which only the Go proxy checks certificates against.            *)
(***************************************************************************)
SameValkey ==
  (\A p \in Proxies : pc[p] = "running") =>
    LET node == createValkeyClient(scene.file)
        go == NewValkeyClient(scene.file)
    IN  /\ (\A a \in go.servers : a.port # NoPortGiven) => node.servers = go.servers
        /\ ~scene.file.valkeyTls.serverName => node.tls = go.tls
        /\ node.tls.on = go.tls.on /\ node.tls.client = go.tls.client

(***************************************************************************)
(* A start ends with both listeners open or with no process: none goes on  *)
(* with one of them, however their binds interleave and whoever has the    *)
(* port.                                                                   *)
(***************************************************************************)
StartedWhole ==
  \A p \in Proxies : <>[](bound[p] = Listeners \/ pc[p] = "exited")
=============================================================================
