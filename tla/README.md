# Verification of the forward proxy

TLA+ models of the dual forward proxy (Node.js and Go) and its Chrome
extension, the TLC runs that check them and the theorems that TLAPS proves
about them. Paths are relative to the repository; `PROJECT.json` maps every
definition to the lines it models.

## The system

| Part | Source | State | Operations | What makes it correct |
|---|---|---|---|---|
| Domain matching | `node-proxy/src/domainMatch.js`, `go-proxy/internal/domain/match.go` | none | `normalizeHost`, `hostAllowed`, `isPublicHost`, `hostSuffixCandidates` | the list of keys to look up and the suffix test accept the same domains; the loop ends with the right list at every edge |
| Session store | `sessionStore.js`, `session/store.go` | the cache of EXISTS answers, one cursor per request | `authorizeDomain`, `domainKeyExists`, `getCached`, `setCache` | decisions rest on recent news although answers overtake each other; failures are not denials |
| Gate | `authorizeRequest` (`proxyHandler.js`), `authorize` (`handler.go`), credential parsing | none | one decision per request | order of the checks; nothing is fetched or dialed before it |
| CONNECT tunnels | `handleConnect`, `tunnelSockets`, the fake response of `index.js`; `HandleConnect`, `pipe`, `proxyutil/connect.go` | two sockets, bytes read and not yet written, timers | authorize, hijack, dial, answer, forward, copy, tear down | one status, bytes in order and complete; where the code has a timer or a close for it, connections are released |
| HTTP forwarding | `handleHttp`; `HandleHTTP` | the exchange with the upstream, the response | check, authorize, exchange, copy, time out | one status, a response the upstream broke off is not taken for complete, the upstream is released |
| Chrome extension | `chrome-extension/*.js` | `storage.local`, legacy storage, the endpoint Chrome uses, overlapping refreshes | save (popup, options), migrate, apply, alarm, supply credentials | what was saved is what is used; overlapping refreshes and stopped workers do no harm |
| IP allowlist | `ipAllowlist.js`, `allowlist/ip.go` | none | `parseCidr`, `normalizeIp`, `ipMatchesRule`, `resolveClientIp`; `Parse`, `ClientIP`, `Allowed` | a rule matches the addresses that share its prefix, at every prefix; the header counts only where it is trusted |
| Configuration | `config.js`, `config/config.go` | none after start | `loadConfig`, `Load` | one file means the same to both proxies, and no odd value opens a relay |
| Admin API | `admin.js`, `admin/handler.go`, `listUserDomains`, `ListUserDomains` | the cursor and the list of a request | health, list the domains of a user by SCAN | nothing lasting that the pattern matches is missed, nothing invented, every request answered but for those that end the process |
| Valkey client | `valkeyClient.js`, `valkeyTls.js`, `session/client.go`, `valkeytls/tls.go` | none | build options for libraries | both proxies ask the same server in the same way |
| Bootstrap | `index.js`, `cmd/proxy/main.go` | two listeners per process | load, check, listen | a process has both listeners or is gone |
| Listener TLS, scripts | `tls.js`, `tlsconfig/tls.go`, `benchmarks/`, `deploy/` | none | read files, run the program | – |

How they interact: a process loads its configuration, opens a proxy and an
admin listener, and the listener of a proxy hands each request to a CONNECT or
an HTTP handler; the handler asks the gate; the gate asks the allowlist about
the client, domain matching about public domains and the session store about
the user's keys; the store asks its cache and then Valkey, one suffix of the
host after the other. The cache is the only state that requests share. The
extension only meets the proxies through Chrome: the endpoint it sets and the
credentials it supplies on a 407.

What is hard here: goroutines and awaits that interleave on the shared cache;
answers of Valkey that arrive late, are asked for again or fail; keys that
change while their answers are cached; sockets whose two ends stop, reset or
stall in any order while a timer runs; several listeners that each may write
the one response; refreshes of the extension that overlap at their awaits; a
walk over pages of keys while keys come and go; two programs that must read one
file alike; masks, loops over bytes and loops over labels at their edges.

## The modules

| Module | Models |
|---|---|
| `DomainMatch` | hosts as sequences of labels, the matching operators |
| `SuffixLoop` | the loop of `hostSuffixCandidates`, one iteration per step |
| `Allowlist` | addresses as bits, rules as the two proxies parse them, masks and the loop over bytes, the address a request counts as |
| `Config` | what each proxy makes of a file: defaults, coercions, refusals, the Valkey client it builds |
| `DualProxy` | both processes on one file: start, listeners, and the gate's verdict on one request |
| `KeyHistory` | Valkey's session keys and the clock (external), with the history of when each key last existed and last did not |
| `Entitlement` | abstract: what a store promises about grants, denials and failures |
| `SessionStore` | the store of both proxies; `DeletesExpired` tells Node (TRUE) from Go |
| `Authorize` | the gate: the order of its checks and its statuses |
| `ConnectService` | abstract: what a CONNECT promises, common to both proxies |
| `NodeConnect`, `GoConnect` | one CONNECT in each proxy |
| `HttpService` | abstract: what a plain request promises, common to both proxies |
| `NodeHttp`, `GoHttp` | one plain request in each proxy |
| `Admin` | the admin API of either proxy and its walk over the keys by SCAN |
| `ProxySettings` | `parseProxySettings`: what a typed or stored host and port become |
| `Extension` | the extension's storage, refreshes, alarm and worker |
| `*Proofs` | theorems and their proofs, for `DualProxy` (with the modules it extends: `DomainMatch`, `SuffixLoop`, `Allowlist`, `Config`), `SessionStore`, `Admin`, the four handlers and `Extension` (with `ProxySettings`) |
| `MC*` | instances for TLC |

Composition. `DualProxy` extends `Config`, which extends `Allowlist`, and
`SuffixLoop`, which extends `DomainMatch`; it instantiates `Authorize` once per
value of `requireProxyAuth` (`Gate(required)`) and hands it the facts that those
modules compute, so the verdict it checks is that of masks, matching, loop,
configuration and order of checks together. `Entitlement` and `SessionStore`
extend `KeyHistory`, which extends `DomainMatch`; the four handlers extend
`Authorize` and take the outcome of a lookup from the set of outcomes of the
store; `SessionStore`, `NodeConnect`, `GoConnect`, `NodeHttp` and `GoHttp`
instantiate their abstract module with a refinement mapping and have
`Implements` as a property. `Extension` extends `ProxySettings`.

Conventions. One action per step that the event loop, a goroutine, a timer or
the outside world takes without being interrupted; an `await`, a callback or a
blocking call ends the step. Operators named for a fault (`ExpiryDoubled`,
`EndsEarly`, ...) stand before the one they are a faulty form of; nothing else
uses them, and they are there to show that a property notices the fault.

### State and code

* `Allowlist`: an address is its bits and its kind; an IPv6 text also says
  whether its last two groups are dotted, where the gap of a `::` before them
  ends, and whether the rest is spelled as the kernel spells it; `mapped` is the
  spelling `::ffff:a.b.c.d`, the one `normalizeIp` of Node knows. `Mask4`, `And`
  and `Network` are the arithmetic on 32-bit numbers, `expandIpv6` and
  `ipv6ToBytes` the groups and bytes Node reads from a text, `BytesMatch` the
  loop over the bytes. `DottedAsHex` is what `parseInt(., 16)` makes of a dotted
  tail. `package net`, to which the Go proxy leaves all of it, is `To4`, `Wide`,
  `PrefixFits`, `InNetwork` and `SamePrefix`: any text with the mapped prefix is
  an IPv4 address, and a CIDR entry in that form counts its prefix from the
  first of 128 bits.
* `Config`: a file is a record of JSON values, each with its JSON type, so that
  `||`, `Boolean(...)`, the test for `undefined` and Go's decoding differ where
  they do in the code; strings are among the values of a switch. A path is given by what is there.
* `DualProxy`: `scene` is the file, the request and its surroundings, chosen
  once; `pc[p]` and `bound[p]` are a process and its listeners, `verdict[p]`
  what its gate said. `Start` is everything before the first `listen`; `Listen`
  one bind, in either order; `Suffixes` one iteration of the candidate loop;
  `Judge` is `authorizeRequest` and `authorize`. The two processes run on hosts
  of their own, `taken` are ports other programs have there.
* `Admin`: `cursor` is the set of slots the walk has yet to visit, which stands
  for SCAN's cursor; `ScanPage` is the instant Valkey executes SCAN, `TakePage`
  the code that takes the page, `ScanRetry` the client library's repetition,
  `Resize` a resize of the table, which sends the walk back. `throughout` and
  `ever` are history. Both proxies put the id into the pattern as it is:
  `Own[id]` are the keys with the id's prefix, `Matching[id]` those that the
  pattern matches, which is the same for an id without `*`, `?`, `[` and `\`
  (`Plain`). `Pushed` is what is kept of a page: in Node what starts with the
  prefix, in Go whatever is longer than it (`Bare` is not). `HandlerThrows` are
  the two ways to throw outside the `try` of Node's handler, a malformed escape
  and a path that is no URL, which end the process.
* `ProxySettings`: a host is the sequence of its parts between colons, since the
  parser only asks for the last colon and for brackets.
* `SessionStore`: `cache` is the Map, `pc[r]`, `idx[r]` the position of
  request `r` in `authorizeDomain`. `CacheHit` and `CacheMiss` are the
  synchronous part of `domainKeyExists` up to the EXISTS; `ValkeyExec` is the
  instant Valkey executes it, `Complete` the code after the await: cache, then
  take the answer. `LookupRetry` and `LookupFail` are the client library's.
  `sampled`, `began`, `lastAlive` and `lastAbsent` are history for the
  properties and no guard but `Elapse` and the bounds reads them.
* `NodeConnect`: `conn` is the proxy's end of the client socket and `client`
  what the client did. `Connected`, `UpstreamError` and `IdleTimeout` are the
  listeners of `upstream`; the four pipe actions are `tunnelSockets`. The
  socket of `net.connect` closes after the upstream's FIN (`allowHalfOpen` is
  off), the client's socket of an HTTP server does not.
* `GoConnect`: `pc` is the handler's goroutine, `copier` the other one;
  `Return` is the return with its deferred closes, `HijackRefused` the one
  before the first of them is registered. `chunk` is what the handler's
  `io.Copy` has read and not yet been able to write.
* `ConnectService`: `up` says that the connection to the upstream stands; no byte
  is forwarded before. `NodeConnect` maps it to the `connect` event.
* `NodeHttp`: the listeners of `proxyReq`; `resp # 0` is `res.headersSent`.
  `Timeout` is `proxyReq.destroy()` with what it brings about: the response is
  dumped, and one that has arrived whole then ends, and `res` with it, short of
  what was dumped. `HttpService` allows that where `EndsShort` is TRUE, which
  only Node's mapping needs.
* `GoHttp`: `expired` covers `client.Timeout` and the request's context,
  `WriteDeadline` the server's `WriteTimeout`; after `CopyReturns` the server
  cuts a response that is shorter than its Content-Length and completes any
  other, as `net/http` does.
* `Extension`: `Begin`, `WritePatch`, `ReadToApply` and `ApplyProxy` are
  `refresh()` between its awaits. Reads that influence nothing (`cachedConfig`,
  the status line) are left out.

## The runs

| Run | Instance | Shows |
|---|---|---|
| `DualProxy` | hosts of up to 3 labels over empty, `a`, `A`, `b` in three forms; IPv4 of 4 bits, IPv6 of 4 groups of a byte of 2 bits, every prefix and one beyond each end; dotted and mapped texts; every odd value of a field; ports, sentinels, TLS files | `PassExactly`: a request passes exactly if its client is listed and its host entitled; `SameVerdict`: the proxies agree but for six named differences; `OpenOnlyIfTold`: nothing opens the relay but `false`, and in Node `null`, `0` and `""`; `SameValkey`; the candidate loop is right at every edge; a start ends with both listeners or no process |
| `StoreNode` | 2 requests, 2 candidates, TTL 1, clock to 2 | skipped candidates were absent recently; implements `Entitlement`, siblings of different age in the cache included |
| `StoreGo` | 2 requests, 1 key, Go cache, TTL 1, answers travel up to 1 tick, clock to 3, 1 retry | no cached answer outlives its news by more than the window, no grant is older; implements `Entitlement`; every call returns |
| `Admin` | a user with 3 keys, one without a domain, in 3 slots, and the id `[u]`, a glob that matches the keys of `u` and not its own; 2 requests, 1 retry, 1 resize, 2 key changes; either proxy | the list has what matches and was there all the time, and nothing that never was; keys of others only in Go, for a glob; 404 is never a failure in disguise; only a resize repeats a domain; every request is answered but for the two throws of Node |
| `NodeConnect`, `GoConnect` | 2 bytes each way, every form of request, ends that stop reading | implement `ConnectService`; bytes are complete where a side is ended in order; every request gets a status or a close. In Node the idle timer releases the upstream; in Go both connections are closed once the upstream has ended, unless a write to the client blocks for ever |
| `NodeHttp`, `GoHttp` | bodies of up to 3 chunks | implement `HttpService`; always answered, upstream released; in Node a response that ends is whole, or was whole when the idle timer dumped it |
| `Extension` | 2 saves, 2 page refreshes and 1 event refresh overlapping, 1 stop of the worker; hosts typed with ports and brackets, an IPv6 address among them | the stored endpoint is in force when all is quiet; upgrades keep settings; saves survive; no admin port is stored; the alarm repairs what a stop left undone |
| `NodeConnectTimeout`, `NodeConnectRetry`, `ExtensionLegacy` | as above | three places where the code does not do what the repository says of it |

Bounds. In `DualProxy` the families of scenarios vary one part at a time around
a plain file and request: all hosts; all prefixes of all short networks against
all clients; all values of each field that both programs coerce; all setups of
ports and Valkey. Four bits show a prefix at 0, inside and at the width, four
bytes of two bits one that ends inside a byte and on its border; a group of one
byte is enough for a dotted tail of two groups, a gap and a group between them; three labels an
empty one at every place. The freshness of a cached answer needs an answer
overtaken by another (2 requests), a key that changes in between and an expiry
(TTL 1, window 2, clock to 3); the clock, the travel of an answer and the
retries are bounded by guards. A listing needs three slots to be cut twice and
to revisit one, and a second request to see what the first left. Order and loss
of bytes need two bytes, one of them sent along with the request. A body of
three chunks can be cut before, between and after what was copied. Two saves are
enough for a save to meet a refresh that is older than it and for the two pages
to meet each other. Where a theorem is listed below, it lifts these bounds.

The six differences of `SameVerdict` are the code's, and worth knowing:

1. a peer whose address cannot be read counts as 127.0.0.1 in Node
   (`ipAllowlist.js:111`), and is refused in Go;
2. a single IPv6 address of the allowlist that is not spelled as the client's
   never matches in Node, which compares texts (`ipAllowlist.js:74`);
3. Node misreads IPv6 texts with a dotted tail, in the list or in
   `X-Forwarded-For`: `expandIpv6` (`ipAllowlist.js:58`) counts the tail as one
   group, fills a gap with one group too many, and `parseInt(., 16)` stops at the
   first dot, so that `::5:1.2.3.4` becomes `::5:1`, which is in `::/96`; a client
   can pass that no entry lists, against README.md:24;
4. the mapped prefix `::ffff:` makes an IPv4 address of any text in Go, and in
   Node only of `::ffff:a.b.c.d`, where it also counts the prefix of a CIDR entry
   as one of IPv4: `::ffff:10.0.0.0/8` is 10.0.0.0/8 in Node, and in Go a network
   of IPv6 that no IPv4 client is in;
5. an empty allowlist refuses everyone in Node and becomes the default list in
   Go;
6. `requireProxyAuth: null` turns authentication off in Node only.

`0` and `""` for `requireProxyAuth` turn it off in Node as well, where README.md:22
only names `false`, but the Go proxy does not start on such a file. `SameValkey` names two more differences: a
sentinel without a port, and `serverName`, which Node's `tls` does not read.

### What the violated runs show

* `NodeConnectTimeout`: the timer of `handleConnect` (`proxyHandler.js:157`)
  also runs while the dial does and destroys the client's socket without a
  status; README.md:158 lists 502 for an unreachable upstream, which the Go
  proxy sends.
* `NodeConnectRetry`: the raw 407 of a CONNECT leaves a socket open that no
  parser reads any more, so a client that answers the challenge on it, as its
  framing invites, waits forever; README.md:24 and :80 rely on the challenge.
* `ExtensionLegacy`: `migrateLegacyStorage` runs in every refresh and never
  removes what it migrated, so it undoes a cleared id (`'Cleared.'`,
  popup.js:47) and a saved default port (README.md:76).

### Fairness

* The store: the proxy takes its own steps, and a lookup is executed or fails
  (go-redis has read timeouts and a retry limit). Fair steps never include the
  arrival of requests, key changes or restarts. `Decided` is only checked for
  Go: iovalkey, as `valkeyClient.js` sets it up, limits the retries of a command
  (`maxRetriesPerRequest`) but has no timeout for one.
* `DualProxy`: a process that was started runs its start to the end. Requests
  are not owed.
* `Admin`: the handler goes on, and a command is executed or fails; for Node
  that is an assumption on Valkey and the network (no command timeout). Keys,
  resizes and retries owe nothing.
* The handlers: the event loop or the Go runtime runs what is ready, timers fire,
  and the store decides, which for Node rests on the same assumption. The client,
  the upstream and the network owe nothing: a dial need not succeed, a client
  need not read or stay. So no write of bytes is fair, in Go the writes of
  `io.Copy` and `ForwardBuffered` in particular: after `Hijack` no deadline is
  set, and `TornDown` excuses a handler that a client blocks for ever. Only the
  few bytes of a status are assumed to fit the socket's buffer.
* The extension: Chrome resolves what the worker awaits, and the alarm comes.

Deadlock is not checked where a connection or a request comes to its end and
nothing is left to do, or where the clock's bound is reached.

## What is proved

For every value of the constants that satisfies their assumptions:

* `DualProxyProofs`, the candidate loop: its invariant (`LoopInvariant`: what is
  in the list is the suffixes so far, what remains is the next one), hence the
  loop's result is the closed form (`LoopIsCorrect`), hence list and suffix test
  agree (`ListAndTestAgree`), for hosts of any length.
* `DualProxyProofs`, the allowlist: masking two IPv4 addresses compares their
  first bits, for any width and prefix, zero included (`MaskComparesPrefix`); the
  loop over IPv6 bytes with a partial mask does the same, for any number and size
  of bytes (`BytesComparePrefix`, from what a byte's mask keeps); a text that is
  not dotted is read as its address (`UndottedReadRight`, by division into
  groups). Hence a CIDR rule means the same in both proxies unless a text is
  misread or has the mapped prefix (`CidrMeansPrefix`), and a single address is
  itself but for that prefix and its text (`SingleMeansAddress`).
* `DualProxyProofs`, the two processes: over any scenarios, `DualInv` joins the
  loop's invariant to `GateInv` (a verdict, once given, is that of the whole
  gate, and only a process that accepted its file runs), since the verdict's
  inputs are fixed only when the loop is done. From it and the theorems above:
  `GatePassesExactly`, `ProxiesAgree`, `NoRelayUntold`, and `ValkeyShared`, which
  compares the lists of servers the two programs build, entry by entry.
* `SessionStoreProofs`: the inductive invariant `IInv` (`StoreInvariant`), one
  step per action. The promises are not inductive alone: a grant is fresh
  because the entry or the answer it takes is, which needs the history to be
  that of the keys (`HistoryOK`), the entries to be bounded by their news
  (`CacheNewsRecent`) and the answers under way to be young (`AnswersRecent`).
  From it: `StoreTypes`, `StoreCacheNews`, `StorePassesOver`, the action
  property `StoreGrantsFresh`, and `StoreImplementsEntitlement`: the initial
  states map to initial states and each action to a step or a stutter of
  `Entitlement`.
* `AdminProofs`: a list is complete because, while the walk goes on, every key
  that lasted is on the list or in a slot still to visit, and the page under way
  has what its slots had (`WalkKeeps`); sound because what is listed existed
  and passed `Pushed` (`WalkAddsNothing`); without repetition because what is listed lies behind the
  cursor until a resize moves it back (`WalkPassesOnce`). `AdminInvariant` joins
  them; `ListingIsComplete`, `ListingIsSound`, `NotFoundIsTrue` and
  `OnlyResizeRepeats` follow.
* `GoConnectProofs`: `TunnelInv` is the types, where goroutine, copier and
  connections can be together (`ControlInv`), and that what is written, held and
  still to come are consecutive bytes in each direction (`UpOrder`, `DownOrder`).
  From it `CloseLosesNothing` and `GoConnectImplementsService`, for any number of
  bytes.
* `GoHttpProofs`: the same for an exchange (`ExchangeInv`: types, the handler's
  position, chunks without a gap), hence `GoHttpImplementsService`.
* `NodeConnectProofs`: `TunnelInv` is the types, which phase goes with which
  status and which state of the two sockets (`ControlInv`), and bytes without a
  gap, the head of the request included (`UpOrder`, `DownOrder`). There are more steps than in Go,
  since a callback may find the other socket gone, ended or reset; an end that is
  passed on has to know that the pipe before it is empty. From it
  `EndLosesNothing` and `NodeConnectImplementsService`.
* `NodeHttpProofs`: `ExchangeInv` is the types, what the phase says of status and
  upstream, whichever listener wrote the status (`ListenerInv`), when the response
  is over (`ResponseInv`), and chunks without a gap (`BodyInv`).
  From it `CompleteIsWhole` and `NodeHttpImplementsService`: the status is written
  once although the response, the error and the timeout of the upstream race for
  it, and what is ended was whole. That all of it was written is proved up to the
  dump by the idle timer, where it is false.
* `ExtensionProofs`: `SettingsInv`, for any set of overlapping refreshes and any
  number of saves and stops. That the stored endpoint is in force when all is
  quiet is not inductive. `ApplyInv` says that the last call handed to Chrome, or
  what Chrome uses when there is none, has the stored endpoint, or a refresh has
  yet to read it, or an event to start one. `UpgradeInv` adds what a migration
  that has read and not yet written may still believe (a default, or what is
  stored), so that a late patch writes nothing but what is there. `SavedInv`
  orders the calls: from the one the options page waits for, all that follow
  carry the stored endpoint, which needs each refresh to have one call at most
  (`QueueInv`). Stops of the worker void the first two and not the third. From it
  `AppliedWhenQuiet`, `UpgradeKept`, `SavedKept` and `NoAdminPort`.

Assumptions: `LabelAssumption` (lower-casing keeps the empty label apart),
`TextsAssumption`, `AddressAssumption` (widths are positive, and an IPv6 address
has more than the two groups of a dotted tail), `ScenarioAssumption` (a file and a request are of the kinds the programs can be given; what the
gate compares is among the hosts; a list of sentinels has names and numbers),
`AuthAssumption`, `KeyAssumption`, `StoreAssumption` (the window covers the TTL and
the travel of an answer), `AdminAssumption`, `ConnectAssumption`,
`HttpAssumption`, `PartAssumption` (the texts the parser knows by name are among
the parts), `InputAssumption` (a user types a host text and a number),
`ExtensionAssumption` (the host and port an older version left are not the
defaults and its port not an admin port; the slots of event refreshes are not
named as a page). TLC evaluates each of them. Every type invariant is part of an
inductive invariant; the runs of `NodeConnect`, `NodeHttp` and `Extension` check
it too.

Every safety invariant, action property and refinement that a passing run checks
is thus proved. Only model-checked: every liveness property (`Decided`,
`Answered`, `Returns`, `Settled`, `UpstreamReleased`, `AnsweredOrClosed`,
`TornDown`, `Converges`, `StartedWhole`), since fairness is out of the prover's
reach, and the properties of the three violated runs, which are false.

## Not modelled

The TLS setup of the listeners (reads files and hands them to the runtime),
benchmarks, deployment scripts, `SIGTERM`, the `clientError` listener and
logging. Of the configuration: the search for the file, the timeout and the key
prefix, passwords, the database number and `insecureSkipVerify`, which are handed
through, ports that are no numbers, and a Valkey URL that does not parse. Of
addresses: zones. Of the extension: how an IPv6 host loses its last group to the
port each time the options page shows and saves it (`rules.js:36`; the input is
in the instance, no document says what should hold of it),
legacy settings that `parseProxySettings` or `chrome.proxy.settings.set` would
refuse (the migration copies them unchecked), a user who
presses Save again before the page has answered, Chrome's own cache of
credentials, and `isOurProxyChallenge`, which cannot refuse what the check of
`isProxy` before it let through. Within the handlers: the text of headers and
bodies, the stripping of hop-by-hop headers, the request body of a plain request,
back-pressure (a pipe that has bytes may always be slow), and more than one
request per connection.

## Plan

Done, the most important behaviour first: matching and the candidate loop; the
store; the gate and the tunnels; plain requests; the extension; the two proxies
on one file with allowlist and configuration; the admin listing; the proofs named
above, the two Node handlers and the extension last. Left:

1. `SessionStore`, `Authorize` and a handler composed over several requests, so
   that an open tunnel is traced to the key that allowed it, and the proof that
   it is.
2. Theorems on what the abstract modules promise (`ConnectService`,
   `HttpService`), which every handler inherits by its refinement.
