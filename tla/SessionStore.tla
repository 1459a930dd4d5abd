---------------------------- MODULE SessionStore ----------------------------
(***************************************************************************)
(* The session store of both proxies: authorizeDomain looks the suffixes   *)
(* of a host up in Valkey one after the other, through a cache of the      *)
(* answers, positive and negative.  Many requests do so at once, in        *)
(* goroutines (go-proxy/internal/session/store.go) or between the awaits   *)
(* of node-proxy/src/sessionStore.js.                                      *)
(*                                                                         *)
(* A lookup is sent, executed by Valkey at some later instant, and its     *)
(* answer reaches the proxy later still; the client library sends it again *)
(* when the connection breaks, and gives up after MaxRetries.              *)
(***************************************************************************)
EXTENDS KeyHistory

CONSTANTS
  Requests,
  TTL,              \* cacheTTL
  MaxLag,           \* bound: how long an answer of Valkey may travel
  MaxRetries,       \* maxRetriesPerRequest
  DeletesExpired    \* TRUE: Node drops an expired entry it meets, Go keeps it

ASSUME StoreAssumption ==
  /\ TTL \in Nat /\ MaxLag \in Nat /\ MaxRetries \in Nat
  /\ Window \in Nat /\ Window >= TTL + MaxLag
  /\ DeletesExpired \in BOOLEAN

VARIABLES
  cache,    \* the Map: a function on the keys it holds
  pc,       \* where authorizeDomain is for each request
  query,    \* the user and the host it was called with
  idx,      \* the candidate the loop is at
  reply,    \* Valkey's answer, on its way to the proxy
  tries,    \* how often the lookup was sent again
  sampled,  \* history: when Valkey executed the lookup
  began     \* history: when the request arrived

reqVars == <<pc, query, idx, reply, tries, sampled, began>>
vars == <<envVars, cache, reqVars>>

Entry == [exists : BOOLEAN, expiresAt : Int]

Working == {"lookup", "sent", "answered"}
Outcome == {"granted", "denied", "failed"}

CurrentKey(r) == KeyAt(query[r], idx[r])

-----------------------------------------------------------------------------
(* The pieces of the code; the forms before them are faults for mutants.   *)

\* getCachedExists / getCached: an entry counts until expiresAt has passed.
FreshForever(k) == k \in DOMAIN cache
FreshLate(k) == k \in DOMAIN cache /\ now <= cache[k].expiresAt + 1
Fresh(k) == k \in DOMAIN cache /\ now <= cache[k].expiresAt

\* setCachedExists / setCache: now + cacheTTL.
ExpiryDoubled(r) == now + 2 * TTL
Expiry(r) == now + TTL

\* count > 0
AnswerInverted(r) == ~reply[r]
Answer(r) == reply[r]

\* A cached negative answer moves the loop on to the next candidate.
AdvanceTwo(i) == i + 2
AdvanceNone(i) == i
Advance(i) == i + 1

\* The client library counts the retries of a lookup.
MayRetry(r) == tries[r] < MaxRetries

\* An error of the lookup ends the request.
ErrorIsDenial == "denied"
ErrorOutcome == "failed"

-----------------------------------------------------------------------------
Init ==
  /\ EnvInit
  /\ cache = [k \in {} |-> [exists |-> FALSE, expiresAt |-> 0]]
  /\ pc = [r \in Requests |-> "idle"]
  /\ query \in [Requests -> Query]
  /\ idx = [r \in Requests |-> 0]
  /\ reply = [r \in Requests |-> FALSE]
  /\ tries = [r \in Requests |-> 0]
  /\ sampled = [r \in Requests |-> 0]
  /\ began = [r \in Requests |-> 0]

\* authorizeDomain is called; a request slot is used again after an outcome.
Arrive(r) ==
  /\ pc[r] \notin Working
  /\ pc' = [pc EXCEPT ![r] = "lookup"]
  /\ \E q \in Query : query' = [query EXCEPT ![r] = q]
  /\ idx' = [idx EXCEPT ![r] = 1]
  /\ began' = [began EXCEPT ![r] = now]
  /\ UNCHANGED <<envVars, cache, reply, tries, sampled>>

\* The loop takes an answer: return the candidate, or go to the next one.
Take(r, exists) ==
  IF exists
  THEN pc' = [pc EXCEPT ![r] = "granted"] /\ UNCHANGED idx
  ELSE /\ pc' = [pc EXCEPT ![r] = "lookup"]
       /\ idx' = [idx EXCEPT ![r] = Advance(@)]

LookingUp(r) == pc[r] = "lookup" /\ idx[r] \in DOMAIN Candidates(query[r])

CacheHit(r) ==
  /\ LookingUp(r)
  /\ Fresh(CurrentKey(r))
  /\ Take(r, cache[CurrentKey(r)].exists)
  /\ UNCHANGED <<envVars, cache, query, reply, tries, sampled, began>>

\* No entry, or an expired one: EXISTS is sent.
CacheMiss(r) ==
  /\ LookingUp(r)
  /\ ~Fresh(CurrentKey(r))
  /\ pc' = [pc EXCEPT ![r] = "sent"]
  /\ cache' = IF DeletesExpired
              THEN [k \in DOMAIN cache \ {CurrentKey(r)} |-> cache[k]]
              ELSE cache
  /\ UNCHANGED <<envVars, query, idx, reply, tries, sampled, began>>

\* Valkey executes EXISTS.
ValkeyExec(r) ==
  /\ pc[r] = "sent"
  /\ pc' = [pc EXCEPT ![r] = "answered"]
  /\ reply' = [reply EXCEPT ![r] = alive[CurrentKey(r)]]
  /\ sampled' = [sampled EXCEPT ![r] = now]
  /\ UNCHANGED <<envVars, cache, query, idx, tries, began>>

\* The connection broke and the answer is lost: the command is sent again.
LookupRetry(r) ==
  /\ pc[r] = "answered"
  /\ MayRetry(r)
  /\ pc' = [pc EXCEPT ![r] = "sent"]
  /\ tries' = [tries EXCEPT ![r] = @ + 1]
  /\ reply' = [reply EXCEPT ![r] = FALSE]
  /\ sampled' = [sampled EXCEPT ![r] = 0]
  /\ UNCHANGED <<envVars, cache, query, idx, began>>

\* The lookup of r is over: nothing of it is left.
Forget(r) ==
  /\ reply' = [reply EXCEPT ![r] = FALSE]
  /\ tries' = [tries EXCEPT ![r] = 0]
  /\ sampled' = [sampled EXCEPT ![r] = 0]

\* An error reply, a timeout, or no retry left: nothing is cached.
LookupFail(r) ==
  /\ pc[r] \in {"sent", "answered"}
  /\ pc' = [pc EXCEPT ![r] = ErrorOutcome]
  /\ Forget(r)
  /\ UNCHANGED <<envVars, cache, query, idx, began>>

\* The answer arrives: cache it, then take it.
Complete(r) ==
  /\ pc[r] = "answered"
  /\ cache' = [k \in DOMAIN cache \cup {CurrentKey(r)} |->
                 IF k = CurrentKey(r)
                 THEN [exists |-> Answer(r), expiresAt |-> Expiry(r)]
                 ELSE cache[k]]
  /\ Take(r, Answer(r))
  /\ Forget(r)
  /\ UNCHANGED <<envVars, query, began>>

\* No candidate is left: domain_not_allowed.
Exhaust(r) ==
  /\ pc[r] = "lookup"
  /\ idx[r] \notin DOMAIN Candidates(query[r])
  /\ pc' = [pc EXCEPT ![r] = "denied"]
  /\ UNCHANGED <<envVars, cache, query, idx, reply, tries, sampled, began>>

\* The process restarts: the cache and every request are gone.
Restart ==
  /\ cache' = [k \in {} |-> [exists |-> FALSE, expiresAt |-> 0]]
  /\ pc' = [r \in Requests |-> "idle"]
  /\ reply' = [r \in Requests |-> FALSE]
  /\ tries' = [r \in Requests |-> 0]
  /\ sampled' = [r \in Requests |-> 0]
  /\ UNCHANGED <<envVars, query, idx, began>>

\* Time passes, but no answer travels longer than MaxLag.
Elapse ==
  /\ \A r \in Requests : pc[r] = "answered" => now + 1 - sampled[r] <= MaxLag
  /\ Tick
  /\ UNCHANGED <<cache, reqVars>>

ChangeKeys == KeyChange /\ UNCHANGED <<cache, reqVars>>

Serve(r) == CacheHit(r) \/ CacheMiss(r) \/ Complete(r) \/ Exhaust(r)
Valkey(r) == ValkeyExec(r) \/ LookupRetry(r) \/ LookupFail(r)

Next ==
  \/ \E r \in Requests : Arrive(r) \/ Serve(r) \/ Valkey(r)
  \/ Restart
  \/ Elapse
  \/ ChangeKeys

\* The proxy takes its steps, and a lookup is answered or fails.
Fairness ==
  \A r \in Requests :
    WF_vars(Serve(r)) /\ WF_vars(ValkeyExec(r) \/ LookupFail(r))

Spec == Init /\ [][Next]_vars /\ Fairness
-----------------------------------------------------------------------------
TypeOK ==
  /\ EnvTypeOK
  /\ DOMAIN cache \subseteq Key
  /\ cache \in [DOMAIN cache -> Entry]
  /\ pc \in [Requests -> {"idle"} \cup Working \cup Outcome]
  /\ query \in [Requests -> Query]
  /\ idx \in [Requests -> Nat]
  /\ reply \in [Requests -> BOOLEAN]
  /\ tries \in [Requests -> 0..MaxRetries]
  /\ sampled \in [Requests -> 0..MaxTime]
  /\ began \in [Requests -> 0..MaxTime]
  /\ \A r \in Requests :
       pc[r] \in {"sent", "answered"} => idx[r] \in DOMAIN Candidates(query[r])

(***************************************************************************)
(* AuthorizeDomain grants only on recent news: the key of the domain it    *)
(* returns existed no longer than cacheTTL plus an answer's travel ago, so *)
(* a revoked session stops working after at most that long, whatever the   *)
(* other requests put in the cache meanwhile.                              *)
(***************************************************************************)
GrantFresh ==
  [][\A r \in Requests :
       pc[r] # "granted" /\ pc'[r] = "granted"
         => lastAlive[CurrentKey(r)] >= now - Window]_vars

(***************************************************************************)
(* AuthorizeDomain passes a more specific domain over, and denies a host,  *)
(* only if each key it skipped was absent during the request or within     *)
(* cacheTTL plus an answer's travel before it: a new session is honoured   *)
(* that soon, and a failed lookup never counts as an absent key.           *)
(***************************************************************************)
PassedOver(r) ==
  IF pc[r] = "denied" THEN DOMAIN Candidates(query[r])
  ELSE IF pc[r] \in Working \cup {"granted"} THEN 1..(idx[r] - 1)
  ELSE {}

PassedOverAbsent ==
  \A r \in Requests : \A j \in PassedOver(r) :
    /\ j \in DOMAIN Candidates(query[r])
    /\ lastAbsent[KeyAt(query[r], j)] >= began[r] - Window

(***************************************************************************)
(* An entry of the cache was true of Valkey no longer than TTL + MaxLag    *)
(* before it expires, although the answer it holds may have been overtaken *)
(* by a later one: getCachedExists never serves older news.                *)
(***************************************************************************)
CacheNewsRecent ==
  \A k \in DOMAIN cache :
    LET news == IF cache[k].exists THEN lastAlive[k] ELSE lastAbsent[k]
    IN  cache[k].expiresAt <= news + Window

\* An answer under way is news of its own request, and not too old.
AnswersRecent ==
  \A r \in Requests : pc[r] = "answered" =>
    LET news == IF reply[r] THEN lastAlive[CurrentKey(r)]
                            ELSE lastAbsent[CurrentKey(r)]
    IN  /\ began[r] <= sampled[r] /\ sampled[r] <= now
        /\ now <= sampled[r] + MaxLag
        /\ sampled[r] <= news

RequestsBegan ==
  \A r \in Requests :
    /\ began[r] <= now
    /\ pc[r] \in Working \cup {"granted"} => idx[r] >= 1

\* What makes the promises inductive.
IInv ==
  /\ TypeOK
  /\ HistoryOK
  /\ CacheNewsRecent
  /\ AnswersRecent
  /\ RequestsBegan
  /\ PassedOverAbsent

(***************************************************************************)
(* Every call of AuthorizeDomain returns, unless the proxy restarts.       *)
(***************************************************************************)
Decided == \A r \in Requests : pc[r] \in Working ~> pc[r] \notin Working

(***************************************************************************)
(* The store keeps the promise of module Entitlement.                      *)
(***************************************************************************)
Abstract == INSTANCE Entitlement WITH
  state <- [r \in Requests |-> IF pc[r] \in Working THEN "pending" ELSE pc[r]],
  matched <- [r \in Requests |-> IF pc[r] = "granted" THEN idx[r] ELSE 0]

Implements == Abstract!Spec
=============================================================================
