------------------------------- MODULE Admin -------------------------------
(***************************************************************************)
(* The admin API of both proxies (node-proxy/src/admin.js,                 *)
(* go-proxy/internal/admin/handler.go) with the listing it asks of the     *)
(* store: listUserDomains (sessionStore.js) and ListUserDomains (store.go) *)
(* walk the keys of a user by SCAN, while keys come and go.                *)
(*                                                                         *)
(* SCAN is Valkey's (external).  Its cursor stands for the slots it still  *)
(* has to visit; a page has the keys that are in some of them when it is   *)
(* executed and match the pattern, and a resize of the table sends the     *)
(* walk back to slots it has visited already.                              *)
(*                                                                         *)
(* Both proxies put the id into the pattern as it is, so one with *, ?, [  *)
(* or \ in it may match keys that are not its own and miss some that are.  *)
(* Node drops what does not start with the prefix; Go does not, and cuts   *)
(* every key at the length of the prefix.                                  *)
(***************************************************************************)
EXTENDS Integers, FiniteSets

CONSTANTS
  Key,                  \* the session keys there may be
  Id, Plain,            \* what may follow /sessions/; ids that are no glob
  Own,                  \* of an id: the keys that start with sessions:id:
  Matching,             \* of an id: the keys that match sessions:id:* as a glob
  Bare,                 \* of an id: the keys no longer than sessions:id:
  Slot, SlotOf,         \* the slots of the table, and the one each key is in
  MaxRequests,          \* bound: requests
  MaxRetries,           \* maxRetriesPerRequest
  MaxResizes,           \* bound: resizes of the table during a request
  MaxChanges            \* bound: keys set or removed

ASSUME AdminAssumption ==
  /\ Own \in [Id -> SUBSET Key] /\ Matching \in [Id -> SUBSET Key]
  /\ Bare \in [Id -> SUBSET Key]
  /\ \A i \in Id \cap Plain : Matching[i] = Own[i]
  /\ IsFiniteSet(Slot) /\ SlotOf \in [Key -> Slot]
  /\ {MaxRequests, MaxRetries, MaxResizes, MaxChanges} \subseteq Nat

VARIABLES
  side,       \* the proxy: "node" or "go"
  keys,       \* the keys in the store
  pc,         \* "idle", "asked", "ping", "scan", "page", "done" or "exited"
  path, id,   \* what was asked for, and of whom
  cursor,     \* the slots the walk has to visit yet
  page,       \* the page under way: its keys, the next cursor
  domains,    \* how often each key was pushed on the list, cut down to a domain
  tries,      \* how often the command was sent again
  status,     \* of the answer
  throughout, ever,   \* history: keys that existed all the time, at some time
  resizes, requests, changes

walkVars == <<cursor, page, domains, tries, resizes>>
history == <<throughout, ever, changes>>
vars == <<side, keys, pc, path, id, status, walkVars, history, requests>>

\* GET /health; GET /sessions/id; one with a slash after the id or in it, or
\* with nothing there; with an escape that does not decode; //, which is no
\* URL; a method that writes.
Path == {"health", "list", "below", "escape", "noURL", "write", "other"}

NoStatus == 0
Working == {"asked", "ping", "scan", "page"}
NoPage == [keys |-> {}, next |-> {}]
Unlisted == [k \in Key |-> 0]

-----------------------------------------------------------------------------
(* Pieces of the code; the forms before them are faults for mutants.       *)

\* do ... while (cursor !== '0'), and the iterator's: a page may be empty.
WalkOverOnEmptyPage(p) == p.keys = {}
WalkOver(p) == p.next = {}

\* cursor = nextCursor
CursorKept(p) == cursor
CursorNext(p) == p.next

\* The client library counts the retries of a command.
MayRetry == tries < MaxRetries

\* Every call begins a list of its own.
ListKept == domains
ListBegun == Unlisted

\* The error of a listing.
ErrorIsNotFound == 404
ErrorUnanswered == NoStatus
ErrorStatus == 502

\* Which keys of a page are pushed: Node's start with the prefix, Go's are
\* longer than it.
PushedUnfiltered(p) == IF side = "go" THEN p.keys \ Bare[id] ELSE p.keys
Pushed(p) == IF side = "go" THEN p.keys \ Bare[id] ELSE p.keys \cap Own[id]

-----------------------------------------------------------------------------
Init ==
  /\ side \in {"node", "go"}
  /\ keys \in SUBSET Key
  /\ pc = "idle" /\ path = "other" /\ id \in Id /\ status = NoStatus
  /\ cursor = {} /\ page = NoPage /\ domains = Unlisted /\ tries = 0
  /\ throughout = {} /\ ever = {}
  /\ resizes = 0 /\ requests = 0 /\ changes = 0

Ask ==
  /\ pc \in {"idle", "done"} /\ requests < MaxRequests
  /\ pc' = "asked" /\ path' \in Path /\ status' = NoStatus
  /\ IF path' \in {"list", "below"} THEN id' \in Id ELSE UNCHANGED id
  /\ requests' = requests + 1
  /\ throughout' = keys /\ ever' = keys /\ resizes' = 0
  /\ UNCHANGED <<side, keys, cursor, page, domains, tries, changes>>

Reply(code) ==
  /\ pc' = "done" /\ status' = code
  /\ tries' = 0 /\ page' = NoPage /\ cursor' = {}
  /\ UNCHANGED <<side, keys, path, id, domains, resizes, history, requests>>

\* The paths that take no list: Node's pattern wants one part after /sessions/.
AnswerAtOnce ==
  /\ pc = "asked"
  /\ \/ path = "write" /\ Reply(405)
     \/ path = "other" /\ Reply(404)
     \/ path = "below" /\ side = "node" /\ Reply(404)
     \/ path = "escape" /\ side = "go" /\ Reply(400)    \* net/http refuses it
     \/ path = "noURL" /\ side = "go" /\ \E code \in {400, 404, 405} : Reply(code)

\* new URL and decodeURIComponent throw outside the try: the promise of the
\* handler is rejected, nobody handles that, and Node ends the process.
HandlerThrows ==
  /\ pc = "asked" /\ path \in {"escape", "noURL"} /\ side = "node"
  /\ pc' = "exited"
  /\ UNCHANGED <<side, keys, path, id, status, walkVars, history, requests>>

SendPing ==
  /\ pc = "asked" /\ path = "health"
  /\ pc' = "ping"
  /\ UNCHANGED <<side, keys, path, id, status, walkVars, history, requests>>

Pong == pc = "ping" /\ (Reply(200) \/ Reply(503))

\* The listing begins; in Go also for an id with a slash.
BeginList ==
  /\ pc = "asked"
  /\ path = "list" \/ (side = "go" /\ path = "below")
  /\ pc' = "scan" /\ cursor' = Slot /\ domains' = ListBegun
  /\ UNCHANGED <<side, keys, path, id, status, page, tries, resizes, history, requests>>

\* Valkey executes SCAN: some slots are visited.
ScanPage ==
  /\ pc = "scan"
  /\ \E visited \in SUBSET cursor \ {{}} :
       page' = [keys |-> {k \in keys \cap Matching[id] : SlotOf[k] \in visited},
                next |-> cursor \ visited]
  /\ pc' = "page"
  /\ UNCHANGED <<side, keys, path, id, status, cursor, domains, tries, resizes, history, requests>>

\* The connection broke before the page arrived: the command is sent again.
ScanRetry ==
  /\ pc = "page" /\ MayRetry
  /\ tries' = tries + 1 /\ page' = NoPage /\ pc' = "scan"
  /\ UNCHANGED <<side, keys, path, id, status, cursor, domains, resizes, history, requests>>

ScanFails == pc \in {"scan", "page"} /\ Reply(ErrorStatus)

\* The page arrives.
TakePage ==
  /\ pc = "page"
  /\ domains' = [k \in Key |-> domains[k] + (IF k \in Pushed(page) THEN 1 ELSE 0)]
  /\ IF WalkOver(page)
     THEN /\ pc' = "done"
          /\ status' = IF domains' = Unlisted THEN 404 ELSE 200
          /\ cursor' = {}
     ELSE pc' = "scan" /\ cursor' = CursorNext(page) /\ UNCHANGED status
  /\ tries' = 0 /\ page' = NoPage
  /\ UNCHANGED <<side, keys, path, id, resizes, history, requests>>

\* The table is resized between two pages.
Resize ==
  /\ pc = "scan" /\ resizes < MaxResizes
  /\ \E again \in SUBSET (Slot \ cursor) \ {{}} : cursor' = cursor \cup again
  /\ resizes' = resizes + 1
  /\ UNCHANGED <<side, keys, pc, path, id, status, page, domains, tries, history, requests>>

\* A key is set, or removed, or expires.
ChangeKey(k) ==
  /\ changes < MaxChanges /\ changes' = changes + 1
  /\ keys' = IF k \in keys THEN keys \ {k} ELSE keys \cup {k}
  /\ IF pc \in Working
     THEN throughout' = throughout \ {k} /\ ever' = ever \cup {k}
     ELSE UNCHANGED <<throughout, ever>>
  /\ UNCHANGED <<side, pc, path, id, status, walkVars, requests>>

Handler == AnswerAtOnce \/ HandlerThrows \/ SendPing \/ BeginList \/ TakePage
Valkey == Pong \/ ScanPage \/ ScanFails

Next == Ask \/ Handler \/ Valkey \/ ScanRetry \/ Resize \/ \E k \in Key : ChangeKey(k)

\* The handler goes on, and a command is executed or fails.
Fairness == WF_vars(Handler) /\ WF_vars(Valkey)

Spec == Init /\ [][Next]_vars /\ Fairness
-----------------------------------------------------------------------------
TypeOK ==
  /\ side \in {"node", "go"} /\ keys \subseteq Key
  /\ pc \in {"idle", "done", "exited"} \cup Working
  /\ path \in Path /\ id \in Id
  /\ cursor \subseteq Slot
  /\ page.keys \subseteq Key /\ page.next \subseteq cursor
  /\ domains \in [Key -> Nat]
  /\ tries \in 0..MaxRetries /\ resizes \in 0..MaxResizes
  /\ status \in {NoStatus, 200, 400, 404, 405, 502, 503}
  /\ throughout \subseteq ever /\ ever \subseteq Key

Listed(k) == domains[k] > 0
ListAnswered == pc = "done" /\ path \in {"list", "below"} /\ status = 200

\* What must be on the list of an id: its own keys that match the pattern; Go
\* leaves the one with nothing after the id out.
Listable == (Own[id] \cap Matching[id]) \ (IF side = "go" THEN Bare[id] ELSE {})

\* What may be on it: in Go also keys of others that match a glob.
MayBeListed(k) == k \in Own[id] \/ (side = "go" /\ id \notin Plain)

\* Why a walk misses nothing: what was there all the time is on the list, or
\* in a slot the cursor has yet to come to, and the page under way has all
\* that is in the slots it passes.
Walking == pc \in {"scan", "page"}

WalkKeeps ==
  /\ Walking => \A k \in throughout \cap Listable : Listed(k) \/ SlotOf[k] \in cursor
  /\ pc = "page" =>
       \A k \in throughout \cap Matching[id] :
         SlotOf[k] \in cursor => k \in page.keys \/ SlotOf[k] \in page.next

\* And why it adds nothing, and nothing twice.
WalkAddsNothing ==
  /\ pc \in Working => throughout \subseteq keys /\ keys \subseteq ever
  /\ pc = "page" => page.keys \subseteq ever \cap Matching[id]
  /\ Walking => \A k \in Key : Listed(k) => k \in ever /\ MayBeListed(k)

WalkPassesOnce ==
  /\ pc = "page" => \A k \in page.keys : SlotOf[k] \in cursor \ page.next
  /\ Walking /\ resizes = 0 => \A k \in Key : Listed(k) => SlotOf[k] \notin cursor

(***************************************************************************)
(* The domains that GET /sessions/id answers include one for every key of  *)
(* the id that was there all the time the request ran and matches the      *)
(* pattern, in whatever pages SCAN gave them, empty ones included, and     *)
(* although the table was resized.                                         *)
(***************************************************************************)
ListingComplete ==
  ListAnswered => \A k \in throughout \cap Listable : Listed(k)

(***************************************************************************)
(* They include none whose key was there at no time of the request, and    *)
(* none whose key is another id's, but in Go for an id that is a glob:     *)
(* there ListUserDomains cuts every key that matches, whosever it is.      *)
(***************************************************************************)
ListingSound == ListAnswered => \A k \in Key : Listed(k) => k \in ever /\ MayBeListed(k)

(***************************************************************************)
(* session_not_found is the answer only if none of the keys of the id that *)
(* match the pattern was there all the time: not after a failed or a       *)
(* broken-off walk.                                                        *)
(***************************************************************************)
NotFoundMeansNone ==
  pc = "done" /\ path = "list" /\ status = 404 => throughout \cap Listable = {}

(***************************************************************************)
(* The list holds a key twice only if the table was resized while the walk *)
(* went on: not because a page was asked for again.                        *)
(***************************************************************************)
RepeatedOnlyByResize ==
  (Walking \/ ListAnswered) /\ resizes = 0 => \A k \in Key : domains[k] <= 1

\* What makes the four inductive.
AdminInv ==
  /\ TypeOK /\ WalkKeeps /\ WalkAddsNothing /\ WalkPassesOnce
  /\ pc = "ping" => path = "health"
  /\ Walking => path \in {"list", "below"}
  /\ ListingComplete /\ ListingSound /\ NotFoundMeansNone /\ RepeatedOnlyByResize

(***************************************************************************)
(* Every request of the admin API is answered, unless the process ends:    *)
(* in Node, on a path that is no URL or that does not decode.              *)
(***************************************************************************)
Answered == pc = "asked" ~> (pc = "exited" \/ status # NoStatus)
=============================================================================
