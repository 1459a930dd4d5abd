------------------------- MODULE SessionStoreProofs -------------------------
(***************************************************************************)
(* The session store keeps its promise for every number of users, hosts    *)
(* and concurrent requests, every TTL and every lag of Valkey's answers.   *)
(***************************************************************************)
EXTENDS SessionStore, SequenceTheorems, TLAPS

-----------------------------------------------------------------------------
(* Keys of a host, of any length.                                          *)

LEMMA NormalizeType ==
  ASSUME NEW t \in HostText
  PROVE  /\ normalizeHost(t) \in Seq(Label)
         /\ Len(normalizeHost(t)) = Len(t.labels)
<1>1. t.labels \in Seq(Label)
  BY DEF HostText
<1>2. Len(t.labels) \in Nat /\ \A i \in 1..Len(t.labels) : t.labels[i] \in Label
  BY <1>1, ElementOfSeq, LenProperties
<1>3. \A i \in 1..Len(t.labels) : Lower[t.labels[i]] \in Label
  BY <1>2, LabelAssumption
<1> QED
  BY <1>2, <1>3, SMT DEF normalizeHost

LEMMA CountType ==
  ASSUME NEW s \in Seq(Label)
  PROVE  CandidateCount(s) \in 0..Len(s)
BY LenProperties, EmptySeq DEF CandidateCount

LEMMA CandidatesDomain ==
  ASSUME NEW t \in HostText
  PROVE  /\ CandidateCount(normalizeHost(t)) \in Nat
         /\ DOMAIN hostSuffixCandidates(t) = 1..CandidateCount(normalizeHost(t))
<1>1. normalizeHost(t) \in Seq(Label)
  BY NormalizeType
<1>2. CandidateCount(normalizeHost(t)) \in Nat
  BY <1>1, CountType, LenProperties
<1> QED
  BY <1>2 DEF hostSuffixCandidates

-----------------------------------------------------------------------------
(* Keys and candidates.                                                    *)

LEMMA WindowType == TTL \in Nat /\ MaxLag \in Nat /\ MaxRetries \in Nat
                      /\ Window \in Nat /\ MaxTime \in Nat /\ Never \in Int
                      /\ Never < 0 /\ Never <= MaxTime /\ Window >= TTL + MaxLag
BY StoreAssumption, KeyAssumption DEF Never

LEMMA QueryCandidates ==
  ASSUME NEW q \in Query
  PROVE  /\ \E n \in Nat : DOMAIN Candidates(q) = 1..n
         /\ \A i \in DOMAIN Candidates(q) : KeyAt(q, i) \in Key
<1>1. q[2] \in HostText
  BY KeyAssumption DEF Query
<1>2. \E n \in Nat : DOMAIN Candidates(q) = 1..n
  BY <1>1, CandidatesDomain DEF Candidates
<1> QED
  BY <1>2 DEF Key

-----------------------------------------------------------------------------
(* The environment.                                                        *)

LEMMA EnvInitOK == EnvInit => EnvTypeOK /\ HistoryOK
BY WindowType DEF EnvInit, EnvTypeOK, HistoryOK

LEMMA TickOK ==
  ASSUME EnvTypeOK, HistoryOK, Tick
  PROVE  /\ EnvTypeOK' /\ HistoryOK'
         /\ now' = now + 1
         /\ \A k \in Key : lastAlive[k] <= lastAlive'[k]
                             /\ lastAbsent[k] <= lastAbsent'[k]
BY WindowType DEF Tick, EnvTypeOK, HistoryOK

LEMMA KeyChangeOK ==
  ASSUME EnvTypeOK, HistoryOK, KeyChange
  PROVE  /\ EnvTypeOK' /\ HistoryOK'
         /\ now' = now
         /\ \A k \in Key : lastAlive[k] <= lastAlive'[k]
                             /\ lastAbsent[k] <= lastAbsent'[k]
<1>1. PICK k \in Key : Seed(k) \/ Revoke(k)
  BY DEF KeyChange
<1>2. CASE Seed(k)
  BY <1>2, WindowType DEF Seed, EnvTypeOK, HistoryOK
<1>3. CASE Revoke(k)
  BY <1>3, WindowType DEF Revoke, EnvTypeOK, HistoryOK
<1> QED
  BY <1>1, <1>2, <1>3

-----------------------------------------------------------------------------
(* Types.                                                                  *)

LEMMA InitTypes == Init => TypeOK
<1> SUFFICES ASSUME Init PROVE TypeOK
  OBVIOUS
<1>1. EnvTypeOK
  BY EnvInitOK DEF Init
<1>2. DOMAIN cache \subseteq Key /\ cache \in [DOMAIN cache -> Entry]
  BY DEF Init
<1> QED
  BY <1>1, <1>2, WindowType DEF Init, TypeOK

\* Where Take leaves the loop.
LEMMA TakeTypes ==
  ASSUME TypeOK, NEW r \in Requests, NEW e \in BOOLEAN, Take(r, e)
  PROVE  /\ pc' \in [Requests -> {"idle"} \cup Working \cup Outcome]
         /\ idx' \in [Requests -> Nat]
         /\ pc'[r] \in {"lookup", "granted"}
         /\ \A s \in Requests \ {r} : pc'[s] = pc[s] /\ idx'[s] = idx[s]
BY DEF Take, TypeOK, Working, Outcome, Advance

LEMMA ForgetTypes ==
  ASSUME TypeOK, NEW r \in Requests, Forget(r)
  PROVE  /\ reply' \in [Requests -> BOOLEAN]
         /\ tries' \in [Requests -> 0..MaxRetries]
         /\ sampled' \in [Requests -> 0..MaxTime]
BY WindowType DEF Forget, TypeOK

LEMMA StepTypes == TypeOK /\ HistoryOK /\ [Next]_vars => TypeOK'
<1> SUFFICES ASSUME TypeOK, HistoryOK, [Next]_vars PROVE TypeOK'
  OBVIOUS
<1> USE WindowType
<1>1. ASSUME NEW r \in Requests, Arrive(r) PROVE TypeOK'
  BY <1>1 DEF Arrive, TypeOK, EnvTypeOK, envVars, Working, Outcome
<1>2. ASSUME NEW r \in Requests, CacheHit(r) PROVE TypeOK'
  <2>1. CurrentKey(r) \in DOMAIN cache
    BY <1>2 DEF CacheHit, Fresh
  <2>2. cache[CurrentKey(r)].exists \in BOOLEAN
    BY <2>1 DEF TypeOK, Entry
  <2>3. /\ pc' \in [Requests -> {"idle"} \cup Working \cup Outcome]
        /\ idx' \in [Requests -> Nat]
        /\ pc'[r] \in {"lookup", "granted"}
        /\ \A s \in Requests \ {r} : pc'[s] = pc[s] /\ idx'[s] = idx[s]
    BY <1>2, <2>2, TakeTypes DEF CacheHit
  <2> QED
    BY <1>2, <2>3 DEF CacheHit, TypeOK, EnvTypeOK, envVars
<1>3. ASSUME NEW r \in Requests, CacheMiss(r) PROVE TypeOK'
  <2>1. DOMAIN cache' \subseteq Key /\ cache' \in [DOMAIN cache' -> Entry]
    BY <1>3 DEF CacheMiss, TypeOK
  <2>2. pc' \in [Requests -> {"idle"} \cup Working \cup Outcome]
    BY <1>3 DEF CacheMiss, TypeOK, Working, Outcome
  <2>3. \A s \in Requests : pc'[s] \in {"sent", "answered"} =>
                              idx[s] \in DOMAIN Candidates(query[s])
    BY <1>3 DEF CacheMiss, LookingUp, TypeOK
  <2> QED
    BY <1>3, <2>1, <2>2, <2>3 DEF CacheMiss, TypeOK, EnvTypeOK, envVars
<1>4. ASSUME NEW r \in Requests, ValkeyExec(r) PROVE TypeOK'
  <2>1. CurrentKey(r) \in Key
    BY <1>4, QueryCandidates DEF ValkeyExec, TypeOK, CurrentKey
  <2>2. alive[CurrentKey(r)] \in BOOLEAN
    BY <2>1 DEF TypeOK, EnvTypeOK
  <2> QED
    BY <1>4, <2>2 DEF ValkeyExec, TypeOK, EnvTypeOK, envVars, Working, Outcome
<1>5. ASSUME NEW r \in Requests, LookupRetry(r) PROVE TypeOK'
  BY <1>5 DEF LookupRetry, MayRetry, TypeOK, EnvTypeOK, envVars, Working, Outcome
<1>6. ASSUME NEW r \in Requests, LookupFail(r) PROVE TypeOK'
  <2>1. /\ reply' \in [Requests -> BOOLEAN]
        /\ tries' \in [Requests -> 0..MaxRetries]
        /\ sampled' \in [Requests -> 0..MaxTime]
    BY <1>6, ForgetTypes DEF LookupFail
  <2> QED
    BY <1>6, <2>1
    DEF LookupFail, ErrorOutcome, TypeOK, EnvTypeOK, envVars, Working, Outcome
<1>7. ASSUME NEW r \in Requests, Complete(r) PROVE TypeOK'
  <2>1. CurrentKey(r) \in Key
    BY <1>7, QueryCandidates DEF Complete, TypeOK, CurrentKey
  <2>2. Answer(r) \in BOOLEAN /\ Expiry(r) \in Int
    BY DEF Answer, Expiry, TypeOK, EnvTypeOK
  <2>3. DOMAIN cache' \subseteq Key /\ cache' \in [DOMAIN cache' -> Entry]
    <3>1. DOMAIN cache' = DOMAIN cache \cup {CurrentKey(r)}
      BY <1>7 DEF Complete
    <3>2. \A k \in DOMAIN cache' : cache'[k] \in Entry
      BY <1>7, <3>1, <2>2 DEF Complete, TypeOK, Entry
    <3>3. cache' = [k \in DOMAIN cache' |-> cache'[k]]
      BY <1>7, <3>1 DEF Complete
    <3> QED
      BY <3>1, <3>2, <3>3, <2>1 DEF TypeOK
  <2>4. /\ pc' \in [Requests -> {"idle"} \cup Working \cup Outcome]
        /\ idx' \in [Requests -> Nat]
        /\ pc'[r] \in {"lookup", "granted"}
        /\ \A s \in Requests \ {r} : pc'[s] = pc[s] /\ idx'[s] = idx[s]
    BY <1>7, <2>2, TakeTypes DEF Complete
  <2>5. /\ reply' \in [Requests -> BOOLEAN]
        /\ tries' \in [Requests -> 0..MaxRetries]
        /\ sampled' \in [Requests -> 0..MaxTime]
    BY <1>7, ForgetTypes DEF Complete
  <2> QED
    BY <1>7, <2>3, <2>4, <2>5 DEF Complete, TypeOK, EnvTypeOK, envVars
<1>8. ASSUME NEW r \in Requests, Exhaust(r) PROVE TypeOK'
  BY <1>8 DEF Exhaust, TypeOK, EnvTypeOK, envVars, Working, Outcome
<1>9. CASE Restart
  <2>1. DOMAIN cache' \subseteq Key /\ cache' \in [DOMAIN cache' -> Entry]
    BY <1>9 DEF Restart
  <2> QED
    BY <1>9, <2>1 DEF Restart, TypeOK, EnvTypeOK, envVars
<1>10. CASE Elapse
  <2>1. EnvTypeOK'
    BY <1>10, TickOK DEF Elapse, TypeOK
  <2> QED
    BY <1>10, <2>1 DEF Elapse, TypeOK, reqVars
<1>11. CASE ChangeKeys
  <2>1. EnvTypeOK'
    BY <1>11, KeyChangeOK DEF ChangeKeys, TypeOK
  <2> QED
    BY <1>11, <2>1 DEF ChangeKeys, TypeOK, reqVars
<1>12. CASE UNCHANGED vars
  BY <1>12 DEF vars, reqVars, envVars, TypeOK, EnvTypeOK
<1> QED
  BY <1>1, <1>2, <1>3, <1>4, <1>5, <1>6, <1>7, <1>8, <1>9, <1>10, <1>11, <1>12
  DEF Next, Serve, Valkey

-----------------------------------------------------------------------------
(* The invariant.                                                          *)

LEMMA InitIInv == Init => IInv
<1> SUFFICES ASSUME Init PROVE IInv
  OBVIOUS
<1>1. TypeOK /\ HistoryOK
  BY InitTypes, EnvInitOK DEF Init
<1>2. CacheNewsRecent /\ AnswersRecent /\ RequestsBegan
  BY <1>1 DEF Init, EnvInit, CacheNewsRecent, AnswersRecent, RequestsBegan, Working
<1>3. PassedOverAbsent
  BY DEF Init, PassedOverAbsent, PassedOver, Working
<1> QED
  BY <1>1, <1>2, <1>3 DEF IInv

\* A request at a candidate has passed over the candidates before it.
LEMMA Skipped ==
  ASSUME IInv, NEW r \in Requests, pc[r] \in Working
  PROVE  /\ idx[r] \in Nat /\ idx[r] >= 1
         /\ \A j \in 1..(idx[r] - 1) :
              /\ j \in DOMAIN Candidates(query[r])
              /\ lastAbsent[KeyAt(query[r], j)] >= began[r] - Window
BY DEF IInv, TypeOK, RequestsBegan, PassedOverAbsent, PassedOver, Working

\* A cached answer that is still fresh is recent news of its key.
LEMMA FreshNews ==
  ASSUME IInv, NEW k, Fresh(k)
  PROVE  /\ k \in Key
         /\ now - Window <= IF cache[k].exists THEN lastAlive[k] ELSE lastAbsent[k]
BY WindowType DEF IInv, Fresh, CacheNewsRecent, TypeOK, EnvTypeOK, Entry

\* So is an answer that has just arrived.
LEMMA AnswerNews ==
  ASSUME IInv, NEW r \in Requests, pc[r] = "answered"
  PROVE  /\ CurrentKey(r) \in Key
         /\ Expiry(r) - Window <= IF Answer(r) THEN lastAlive[CurrentKey(r)]
                                               ELSE lastAbsent[CurrentKey(r)]
         /\ now - Window <= IF Answer(r) THEN lastAlive[CurrentKey(r)]
                                         ELSE lastAbsent[CurrentKey(r)]
<1>1. CurrentKey(r) \in Key
  BY QueryCandidates DEF IInv, TypeOK, CurrentKey
<1>2. /\ now \in Int /\ sampled[r] \in Int
      /\ lastAlive[CurrentKey(r)] \in Int /\ lastAbsent[CurrentKey(r)] \in Int
  BY <1>1, WindowType DEF IInv, TypeOK, EnvTypeOK
<1>3. /\ now <= sampled[r] + MaxLag
      /\ sampled[r] <= IF reply[r] THEN lastAlive[CurrentKey(r)]
                                   ELSE lastAbsent[CurrentKey(r)]
  BY DEF IInv, AnswersRecent
<1> QED
  BY <1>1, <1>2, <1>3, WindowType DEF Expiry, Answer

\* Taking an answer that is recent news keeps what was passed over right.
LEMMA TakePasses ==
  ASSUME IInv, TypeOK', NEW r \in Requests, NEW e \in BOOLEAN, Take(r, e),
         pc[r] \in Working, idx[r] \in DOMAIN Candidates(query[r]),
         ~e => lastAbsent[CurrentKey(r)] >= now - Window,
         UNCHANGED <<envVars, query, began>>
  PROVE  PassedOverAbsent' /\ RequestsBegan'
<1>1. /\ idx[r] \in Nat /\ idx[r] >= 1
      /\ \A j \in 1..(idx[r] - 1) :
           /\ j \in DOMAIN Candidates(query[r])
           /\ lastAbsent[KeyAt(query[r], j)] >= began[r] - Window
  BY Skipped
<1>2. pc'[r] \in {"lookup", "granted"}
  BY DEF Take, IInv, TypeOK
<1>3. \A s \in Requests \ {r} : pc'[s] = pc[s] /\ idx'[s] = idx[s]
  BY DEF Take, IInv, TypeOK
<1>4. idx'[r] = IF e THEN idx[r] ELSE idx[r] + 1
  BY DEF Take, IInv, TypeOK, Advance
<1>5. /\ CurrentKey(r) = KeyAt(query[r], idx[r]) /\ CurrentKey(r) \in Key
      /\ lastAbsent[CurrentKey(r)] \in Int /\ now \in Int /\ began[r] \in Int
      /\ began[r] <= now
  BY QueryCandidates, WindowType
  DEF CurrentKey, IInv, TypeOK, EnvTypeOK, RequestsBegan
<1>6. \A j \in 1..(idx'[r] - 1) :
        /\ j \in DOMAIN Candidates(query[r])
        /\ lastAbsent[KeyAt(query[r], j)] >= began[r] - Window
  <2>1. CASE e
    BY <2>1, <1>1, <1>4
  <2>2. CASE ~e
    <3>1. lastAbsent[KeyAt(query[r], idx[r])] >= began[r] - Window
      BY <2>2, <1>5, WindowType
    <3> QED
      BY <3>1, <2>2, <1>1, <1>4
  <2> QED
    BY <2>1, <2>2
<1>7. \A j \in PassedOver(r)' :
        /\ j \in DOMAIN Candidates(query[r])
        /\ lastAbsent[KeyAt(query[r], j)] >= began[r] - Window
  BY <1>2, <1>6 DEF PassedOver, Working
<1>8. ASSUME NEW s \in Requests \ {r} PROVE PassedOver(s)' = PassedOver(s)
  BY <1>3 DEF PassedOver
<1>9. PassedOverAbsent'
  BY <1>7, <1>8 DEF PassedOverAbsent, IInv, envVars
<1>10. RequestsBegan'
  BY <1>1, <1>2, <1>3, <1>4 DEF RequestsBegan, IInv, envVars
<1> QED
  BY <1>9, <1>10

LEMMA StepIInv == IInv /\ [Next]_vars => IInv'
<1> SUFFICES ASSUME IInv, [Next]_vars PROVE IInv'
  OBVIOUS
<1> USE WindowType
<1>1. TypeOK'
  BY StepTypes DEF IInv
<1>2. ASSUME NEW r \in Requests, Arrive(r) PROVE IInv'
  <2>1. HistoryOK' /\ CacheNewsRecent'
    BY <1>2 DEF Arrive, IInv, HistoryOK, CacheNewsRecent, envVars
  <2>2. AnswersRecent'
    BY <1>2 DEF Arrive, IInv, TypeOK, AnswersRecent, CurrentKey, envVars
  <2>3. RequestsBegan'
    BY <1>2 DEF Arrive, IInv, TypeOK, EnvTypeOK, RequestsBegan, envVars, Working
  <2>4. PassedOver(r)' = {}
    BY <1>2 DEF Arrive, IInv, TypeOK, PassedOver, Working
  <2>5. PassedOverAbsent'
    BY <1>2, <2>4 DEF Arrive, IInv, TypeOK, PassedOverAbsent, PassedOver, envVars
  <2> QED
    BY <1>1, <2>1, <2>2, <2>3, <2>5 DEF IInv
<1>3. ASSUME NEW r \in Requests, CacheHit(r) PROVE IInv'
  <2> DEFINE e == cache[CurrentKey(r)].exists
  <2>1. e \in BOOLEAN
    BY <1>3 DEF CacheHit, Fresh, IInv, TypeOK, Entry
  <2>2. HistoryOK' /\ CacheNewsRecent'
    BY <1>3 DEF CacheHit, IInv, HistoryOK, CacheNewsRecent, envVars
  <2>3. pc'[r] # "answered" /\ \A s \in Requests \ {r} : pc'[s] = pc[s] /\ idx'[s] = idx[s]
    BY <1>3, <2>1, TakeTypes DEF CacheHit, IInv
  <2>4. AnswersRecent'
    BY <1>3, <2>3 DEF CacheHit, IInv, AnswersRecent, CurrentKey, envVars
  <2>5. ~e => lastAbsent[CurrentKey(r)] >= now - Window
    <3>1. CurrentKey(r) \in Key
          /\ now - Window <= IF e THEN lastAlive[CurrentKey(r)]
                                  ELSE lastAbsent[CurrentKey(r)]
      BY <1>3, FreshNews DEF CacheHit
    <3>2. now \in Int /\ lastAbsent[CurrentKey(r)] \in Int
      BY <3>1 DEF IInv, TypeOK, EnvTypeOK
    <3> QED
      BY <3>1, <3>2
  <2>6. PassedOverAbsent' /\ RequestsBegan'
    BY <1>1, <1>3, <2>1, <2>5, TakePasses DEF CacheHit, LookingUp, Working
  <2> QED
    BY <1>1, <2>2, <2>4, <2>6 DEF IInv
<1>4. ASSUME NEW r \in Requests, CacheMiss(r) PROVE IInv'
  <2>1. HistoryOK' /\ CacheNewsRecent'
    BY <1>4 DEF CacheMiss, IInv, HistoryOK, CacheNewsRecent, envVars
  <2>2. AnswersRecent'
    BY <1>4 DEF CacheMiss, IInv, TypeOK, AnswersRecent, CurrentKey, envVars
  <2>3. RequestsBegan' /\ PassedOverAbsent'
    BY <1>4 DEF CacheMiss, LookingUp, IInv, TypeOK, RequestsBegan,
                PassedOverAbsent, PassedOver, envVars, Working
  <2> QED
    BY <1>1, <2>1, <2>2, <2>3 DEF IInv
<1>5. ASSUME NEW r \in Requests, ValkeyExec(r) PROVE IInv'
  <2>1. HistoryOK' /\ CacheNewsRecent'
    BY <1>5 DEF ValkeyExec, IInv, HistoryOK, CacheNewsRecent, envVars
  <2>2. CurrentKey(r) \in Key
    BY <1>5, QueryCandidates DEF ValkeyExec, IInv, TypeOK, CurrentKey
  <2>3. AnswersRecent'
    <3>1. /\ pc'[r] = "answered" /\ reply'[r] = alive[CurrentKey(r)]
          /\ sampled'[r] = now
          /\ \A s \in Requests \ {r} : /\ pc'[s] = pc[s]
                                       /\ reply'[s] = reply[s]
                                       /\ sampled'[s] = sampled[s]
      BY <1>5 DEF ValkeyExec, IInv, TypeOK
    <3>2. now \in Int /\ began[r] <= now
      BY DEF IInv, TypeOK, EnvTypeOK, RequestsBegan
    <3>3. now <= IF alive[CurrentKey(r)] THEN lastAlive[CurrentKey(r)]
                                         ELSE lastAbsent[CurrentKey(r)]
      BY <2>2, <3>2 DEF IInv, HistoryOK
    <3> QED
      BY <1>5, <3>1, <3>2, <3>3
      DEF ValkeyExec, IInv, AnswersRecent, CurrentKey, envVars
  <2>4. RequestsBegan' /\ PassedOverAbsent'
    BY <1>5 DEF ValkeyExec, IInv, TypeOK, RequestsBegan,
                PassedOverAbsent, PassedOver, envVars, Working
  <2> QED
    BY <1>1, <2>1, <2>3, <2>4 DEF IInv
<1>6. ASSUME NEW r \in Requests, LookupRetry(r) PROVE IInv'
  <2>1. HistoryOK' /\ CacheNewsRecent'
    BY <1>6 DEF LookupRetry, IInv, HistoryOK, CacheNewsRecent, envVars
  <2>2. AnswersRecent'
    BY <1>6 DEF LookupRetry, IInv, TypeOK, AnswersRecent, CurrentKey, envVars
  <2>3. RequestsBegan' /\ PassedOverAbsent'
    BY <1>6 DEF LookupRetry, IInv, TypeOK, RequestsBegan,
                PassedOverAbsent, PassedOver, envVars, Working
  <2> QED
    BY <1>1, <2>1, <2>2, <2>3 DEF IInv
<1>7. ASSUME NEW r \in Requests, LookupFail(r) PROVE IInv'
  <2>1. HistoryOK' /\ CacheNewsRecent'
    BY <1>7 DEF LookupFail, IInv, HistoryOK, CacheNewsRecent, envVars
  <2>2. AnswersRecent'
    BY <1>7 DEF LookupFail, ErrorOutcome, Forget, IInv, TypeOK, AnswersRecent,
                CurrentKey, envVars
  <2>3. RequestsBegan' /\ PassedOverAbsent'
    BY <1>7 DEF LookupFail, ErrorOutcome, IInv, TypeOK, RequestsBegan,
                PassedOverAbsent, PassedOver, envVars, Working
  <2> QED
    BY <1>1, <2>1, <2>2, <2>3 DEF IInv
<1>8. ASSUME NEW r \in Requests, Complete(r) PROVE IInv'
  <2>1. HistoryOK'
    BY <1>8 DEF Complete, IInv, HistoryOK, envVars
  <2>2. /\ CurrentKey(r) \in Key
        /\ Expiry(r) - Window <= IF Answer(r) THEN lastAlive[CurrentKey(r)]
                                              ELSE lastAbsent[CurrentKey(r)]
        /\ now - Window <= IF Answer(r) THEN lastAlive[CurrentKey(r)]
                                        ELSE lastAbsent[CurrentKey(r)]
    BY <1>8, AnswerNews DEF Complete
  <2>3. /\ Answer(r) \in BOOLEAN /\ Expiry(r) \in Int /\ now \in Int
        /\ lastAlive[CurrentKey(r)] \in Int /\ lastAbsent[CurrentKey(r)] \in Int
    BY <2>2 DEF Answer, Expiry, IInv, TypeOK, EnvTypeOK
  <2>4. CacheNewsRecent'
    <3> SUFFICES ASSUME NEW k \in DOMAIN cache'
                 PROVE  cache'[k].expiresAt
                          <= (IF cache'[k].exists THEN lastAlive[k] ELSE lastAbsent[k])
                               + Window
      BY <1>8 DEF Complete, CacheNewsRecent, envVars
    <3>1. CASE k = CurrentKey(r)
      <4>1. cache'[k] = [exists |-> Answer(r), expiresAt |-> Expiry(r)]
        BY <1>8, <3>1 DEF Complete
      <4> QED
        BY <4>1, <3>1, <2>2, <2>3
    <3>2. CASE k # CurrentKey(r)
      <4>1. k \in DOMAIN cache /\ cache'[k] = cache[k]
        BY <1>8, <3>2 DEF Complete
      <4> QED
        BY <4>1 DEF IInv, CacheNewsRecent
    <3> QED
      BY <3>1, <3>2
  <2>5. /\ pc'[r] # "answered"
        /\ \A s \in Requests \ {r} : pc'[s] = pc[s] /\ idx'[s] = idx[s]
    BY <1>8, <2>3, TakeTypes DEF Complete, IInv
  <2>6. \A s \in Requests \ {r} : reply'[s] = reply[s] /\ sampled'[s] = sampled[s]
    BY <1>8 DEF Complete, Forget, IInv, TypeOK
  <2>7. AnswersRecent'
    BY <1>8, <2>5, <2>6 DEF Complete, IInv, AnswersRecent, CurrentKey, envVars
  <2>8. ~Answer(r) => lastAbsent[CurrentKey(r)] >= now - Window
    BY <2>2, <2>3
  <2>9. idx[r] \in DOMAIN Candidates(query[r])
    BY <1>8 DEF Complete, IInv, TypeOK
  <2>10. PassedOverAbsent' /\ RequestsBegan'
    BY <1>1, <1>8, <2>3, <2>8, <2>9, TakePasses DEF Complete, Working
  <2> QED
    BY <1>1, <2>1, <2>4, <2>7, <2>10 DEF IInv
<1>9. ASSUME NEW r \in Requests, Exhaust(r) PROVE IInv'
  <2>1. HistoryOK' /\ CacheNewsRecent'
    BY <1>9 DEF Exhaust, IInv, HistoryOK, CacheNewsRecent, envVars
  <2>2. AnswersRecent'
    BY <1>9 DEF Exhaust, IInv, TypeOK, AnswersRecent, CurrentKey, envVars
  <2>3. RequestsBegan'
    BY <1>9 DEF Exhaust, IInv, TypeOK, RequestsBegan, envVars, Working
  <2>4. /\ idx[r] \in Nat /\ idx[r] >= 1
        /\ \A j \in 1..(idx[r] - 1) :
             /\ j \in DOMAIN Candidates(query[r])
             /\ lastAbsent[KeyAt(query[r], j)] >= began[r] - Window
    BY <1>9, Skipped DEF Exhaust, Working
  <2>5. PICK n \in Nat : DOMAIN Candidates(query[r]) = 1..n
    BY QueryCandidates DEF IInv, TypeOK
  <2>6. \A j \in DOMAIN Candidates(query[r]) : j \in 1..(idx[r] - 1)
    BY <1>9, <2>4, <2>5 DEF Exhaust
  <2>7. PassedOver(r)' = DOMAIN Candidates(query[r])
        /\ \A s \in Requests \ {r} : PassedOver(s)' = PassedOver(s)
    BY <1>9 DEF Exhaust, IInv, TypeOK, PassedOver
  <2>8. PassedOverAbsent'
    BY <1>9, <2>4, <2>6, <2>7 DEF Exhaust, IInv, PassedOverAbsent, envVars
  <2> QED
    BY <1>1, <2>1, <2>2, <2>3, <2>8 DEF IInv
<1>10. CASE Restart
  <2>1. HistoryOK' /\ CacheNewsRecent'
    BY <1>10 DEF Restart, IInv, HistoryOK, CacheNewsRecent, envVars
  <2>2. AnswersRecent' /\ RequestsBegan' /\ PassedOverAbsent'
    BY <1>10 DEF Restart, IInv, AnswersRecent, RequestsBegan, PassedOverAbsent,
                 PassedOver, envVars, Working
  <2> QED
    BY <1>1, <2>1, <2>2 DEF IInv
\* Time and the keys move; what is known of the past stays known.
<1>11. ASSUME HistoryOK', now' \in Nat, now <= now',
              \A k \in Key : lastAlive[k] <= lastAlive'[k]
                               /\ lastAbsent[k] <= lastAbsent'[k],
              \A r \in Requests : pc[r] = "answered" => now' <= sampled[r] + MaxLag,
              UNCHANGED <<cache, reqVars>>
       PROVE  IInv'
  <2>1. /\ now \in Int
        /\ \A k \in Key : /\ lastAlive[k] \in Int /\ lastAlive'[k] \in Int
                          /\ lastAbsent[k] \in Int /\ lastAbsent'[k] \in Int
        /\ \A r \in Requests : began[r] \in Int /\ sampled[r] \in Int
    BY <1>1 DEF IInv, TypeOK, EnvTypeOK
  <2>2. CacheNewsRecent'
    <3> SUFFICES ASSUME NEW k \in DOMAIN cache
                 PROVE  cache[k].expiresAt
                          <= (IF cache[k].exists THEN lastAlive'[k] ELSE lastAbsent'[k])
                               + Window
      BY <1>11 DEF CacheNewsRecent, reqVars
    <3>1. k \in Key /\ cache[k].expiresAt \in Int
      BY DEF IInv, TypeOK, Entry
    <3> QED
      BY <1>11, <2>1, <3>1 DEF IInv, CacheNewsRecent
  <2>3. AnswersRecent'
    <3> SUFFICES ASSUME NEW r \in Requests, pc[r] = "answered"
                 PROVE  /\ began[r] <= sampled[r] /\ sampled[r] <= now'
                        /\ now' <= sampled[r] + MaxLag
                        /\ sampled[r] <= IF reply[r] THEN lastAlive'[CurrentKey(r)]
                                                     ELSE lastAbsent'[CurrentKey(r)]
      BY <1>11 DEF AnswersRecent, CurrentKey, reqVars
    <3>1. CurrentKey(r) \in Key
      BY AnswerNews
    <3> QED
      BY <1>11, <2>1, <3>1 DEF IInv, AnswersRecent
  <2>4. RequestsBegan'
    BY <1>11, <2>1 DEF IInv, RequestsBegan, reqVars
  <2>5. PassedOverAbsent'
    <3> SUFFICES ASSUME NEW r \in Requests, NEW j \in PassedOver(r)
                 PROVE  /\ j \in DOMAIN Candidates(query[r])
                        /\ lastAbsent'[KeyAt(query[r], j)] >= began[r] - Window
      BY <1>11 DEF PassedOverAbsent, PassedOver, reqVars
    <3>1. /\ j \in DOMAIN Candidates(query[r])
          /\ lastAbsent[KeyAt(query[r], j)] >= began[r] - Window
      BY DEF IInv, PassedOverAbsent
    <3>2. KeyAt(query[r], j) \in Key
      BY <3>1, QueryCandidates DEF IInv, TypeOK
    <3> QED
      BY <1>11, <2>1, <3>1, <3>2
  <2> QED
    BY <1>1, <1>11, <2>2, <2>3, <2>4, <2>5 DEF IInv
<1>12. CASE Elapse
  <2>1. /\ HistoryOK' /\ now' = now + 1
        /\ \A k \in Key : lastAlive[k] <= lastAlive'[k]
                            /\ lastAbsent[k] <= lastAbsent'[k]
    BY <1>12, TickOK DEF Elapse, IInv, TypeOK
  <2>2. now \in Nat /\ \A r \in Requests : sampled[r] \in Nat
    BY DEF IInv, TypeOK, EnvTypeOK
  <2>3. \A r \in Requests : pc[r] = "answered" => now' <= sampled[r] + MaxLag
    BY <1>12, <2>1, <2>2 DEF Elapse
  <2> QED
    BY <1>11, <1>12, <2>1, <2>2, <2>3 DEF Elapse
<1>13. CASE ChangeKeys
  <2>1. /\ HistoryOK' /\ now' = now
        /\ \A k \in Key : lastAlive[k] <= lastAlive'[k]
                            /\ lastAbsent[k] <= lastAbsent'[k]
    BY <1>13, KeyChangeOK DEF ChangeKeys, IInv, TypeOK
  <2>2. now \in Nat
    BY DEF IInv, TypeOK, EnvTypeOK
  <2>3. \A r \in Requests : pc[r] = "answered" => now' <= sampled[r] + MaxLag
    BY <2>1 DEF IInv, AnswersRecent
  <2> QED
    BY <1>11, <1>13, <2>1, <2>2, <2>3 DEF ChangeKeys
<1>14. CASE UNCHANGED vars
  BY <1>14, <1>1 DEF vars, reqVars, envVars, IInv, HistoryOK, CacheNewsRecent,
             AnswersRecent, CurrentKey, RequestsBegan, PassedOverAbsent, PassedOver
<1> QED
  BY <1>2, <1>3, <1>4, <1>5, <1>6, <1>7, <1>8, <1>9, <1>10, <1>12, <1>13, <1>14
  DEF Next, Serve, Valkey

-----------------------------------------------------------------------------
(***************************************************************************)
(* The invariant of the store: every entry of the cache and every answer   *)
(* on its way is recent news of its key (Store in store.go, SessionStore   *)
(* in sessionStore.js).                                                    *)
(***************************************************************************)
THEOREM StoreInvariant == Spec => []IInv
<1>1. Init => IInv
  BY InitIInv
<1>2. IInv /\ [Next]_vars => IInv'
  BY StepIInv
<1> QED
  BY <1>1, <1>2, PTL DEF Spec

(***************************************************************************)
(* Types of the store's state, kept by every call of AuthorizeDomain.      *)
(***************************************************************************)
THEOREM StoreTypes == Spec => []TypeOK
BY StoreInvariant, PTL DEF IInv

(***************************************************************************)
(* A cache entry is never older news than TTL + MaxLag when it expires     *)
(* (setCachedExists, setCache).                                            *)
(***************************************************************************)
THEOREM StoreCacheNews == Spec => []CacheNewsRecent
BY StoreInvariant, PTL DEF IInv

(***************************************************************************)
(* A more specific domain is passed over, and a host is denied, only on    *)
(* recent news that the keys are absent (AuthorizeDomain).                 *)
(***************************************************************************)
THEOREM StorePassesOver == Spec => []PassedOverAbsent
BY StoreInvariant, PTL DEF IInv

LEMMA GrantStep ==
  ASSUME IInv, [Next]_vars, NEW r \in Requests,
         pc[r] # "granted", pc'[r] = "granted"
  PROVE  /\ lastAlive[CurrentKey(r)] >= now - Window
         /\ pc[r] \in Working /\ idx[r] \in DOMAIN Candidates(query[r])
         /\ pc' = [pc EXCEPT ![r] = "granted"]
         /\ UNCHANGED <<envVars, query, idx, began>>
<1>1. CacheHit(r) \/ Complete(r)
  <2>1. pc \in [Requests -> {"idle"} \cup Working \cup Outcome]
    BY DEF IInv, TypeOK
  <2>2. ~UNCHANGED vars /\ ~Restart /\ ~Elapse /\ ~ChangeKeys
    BY DEF vars, reqVars, Restart, Elapse, ChangeKeys
  <2>3. PICK s \in Requests : Arrive(s) \/ Serve(s) \/ Valkey(s)
    BY <2>2 DEF Next
  <2>4. ~Arrive(s) /\ ~CacheMiss(s) /\ ~ValkeyExec(s) /\ ~LookupRetry(s)
    BY <2>1 DEF Arrive, CacheMiss, ValkeyExec, LookupRetry
  <2>5. ~LookupFail(s) /\ ~Exhaust(s)
    BY <2>1 DEF LookupFail, ErrorOutcome, Exhaust
  <2>6. CacheHit(s) \/ Complete(s)
    BY <2>3, <2>4, <2>5 DEF Serve, Valkey
  <2>7. s = r
    BY <2>1, <2>6 DEF CacheHit, Complete, Take
  <2> QED
    BY <2>6, <2>7
<1>2. CASE CacheHit(r)
  <2>1. /\ cache[CurrentKey(r)].exists /\ UNCHANGED idx
        /\ pc' = [pc EXCEPT ![r] = "granted"]
    BY <1>2 DEF CacheHit, Take, IInv, TypeOK
  <2>2. /\ CurrentKey(r) \in Key
        /\ now - Window <= IF cache[CurrentKey(r)].exists
                           THEN lastAlive[CurrentKey(r)] ELSE lastAbsent[CurrentKey(r)]
    BY <1>2, FreshNews DEF CacheHit
  <2>3. lastAlive[CurrentKey(r)] \in Int /\ now \in Int
    BY <2>2, WindowType DEF IInv, TypeOK, EnvTypeOK
  <2> QED
    BY <1>2, <2>1, <2>2, <2>3, WindowType DEF CacheHit, LookingUp, Working
<1>3. CASE Complete(r)
  <2>1. /\ Answer(r) /\ UNCHANGED idx
        /\ pc' = [pc EXCEPT ![r] = "granted"]
    BY <1>3 DEF Complete, Take, IInv, TypeOK
  <2>2. /\ CurrentKey(r) \in Key
        /\ now - Window <= IF Answer(r) THEN lastAlive[CurrentKey(r)]
                                        ELSE lastAbsent[CurrentKey(r)]
    BY <1>3, AnswerNews DEF Complete
  <2>3. lastAlive[CurrentKey(r)] \in Int /\ now \in Int
    BY <2>2, WindowType DEF IInv, TypeOK, EnvTypeOK
  <2> QED
    BY <1>3, <2>1, <2>2, <2>3, WindowType DEF Complete, IInv, TypeOK, Working
<1> QED
  BY <1>1, <1>2, <1>3

(***************************************************************************)
(* A revoked session is refused after at most cacheTTL plus the travel of  *)
(* an answer, however many requests share the cache (AuthorizeDomain).     *)
(***************************************************************************)
THEOREM StoreGrantsFresh == Spec => GrantFresh
<1>1. IInv /\ [Next]_vars =>
        [\A r \in Requests : pc[r] # "granted" /\ pc'[r] = "granted"
           => lastAlive[CurrentKey(r)] >= now - Window]_vars
  BY GrantStep
<1> QED
  BY <1>1, StoreInvariant, PTL DEF Spec, GrantFresh

-----------------------------------------------------------------------------
(* Refinement: the store implements Entitlement.                           *)

LEMMA SameKeys ==
  /\ Abstract!Query = Query /\ Abstract!Key = Key /\ Abstract!Never = Never
  /\ \A q : Abstract!Candidates(q) = Candidates(q)
  /\ \A q, i : Abstract!KeyAt(q, i) = KeyAt(q, i)
<1>1. \A q : Abstract!Candidates(q) = Candidates(q)
  BY DEF Abstract!Candidates, Candidates, Abstract!hostSuffixCandidates,
         hostSuffixCandidates, Abstract!normalizeHost, normalizeHost,
         Abstract!CandidateCount, CandidateCount, Abstract!SuffixFrom, SuffixFrom
<1>2. \A q, i : Abstract!KeyAt(q, i) = KeyAt(q, i)
  BY <1>1 DEF Abstract!KeyAt, KeyAt, Abstract!domainKey, domainKey
<1>3. Abstract!Query = Query
  BY DEF Abstract!Query, Query
<1>4. Abstract!Key = Key
  BY <1>1, <1>2, <1>3 DEF Abstract!Key, Key
<1>5. Abstract!Never = Never
  BY DEF Abstract!Never, Never
<1> QED
  BY <1>1, <1>2, <1>3, <1>4, <1>5

LEMMA SameEnv ==
  /\ EnvInit => Abstract!EnvInit
  /\ Tick => Abstract!Tick
  /\ KeyChange => Abstract!KeyChange
  /\ UNCHANGED envVars => UNCHANGED Abstract!envVars
BY SameKeys DEF EnvInit, Abstract!EnvInit, Tick, Abstract!Tick,
     KeyChange, Abstract!KeyChange, Seed, Abstract!Seed, Revoke, Abstract!Revoke,
     envVars, Abstract!envVars

absState == [r \in Requests |-> IF pc[r] \in Working THEN "pending" ELSE pc[r]]
absMatched == [r \in Requests |-> IF pc[r] = "granted" THEN idx[r] ELSE 0]

LEMMA InitRefines == Init => Abstract!Init
BY SameKeys, SameEnv DEF Init, Abstract!Init, Working

\* A step that leaves r undecided is no step of the promise.
LEMMA StillPending ==
  ASSUME TypeOK, NEW r \in Requests, pc[r] \in Working, NEW w \in Working,
         pc' = [pc EXCEPT ![r] = w],
         \A s \in Requests \ {r} : idx'[s] = idx[s],
         UNCHANGED <<envVars, query, began>>
  PROVE  UNCHANGED Abstract!vars
<1>1. absState' = absState
  BY DEF absState, TypeOK
<1>2. absMatched' = absMatched
  BY DEF absMatched, TypeOK, Working
<1> QED
  BY <1>1, <1>2, SameEnv DEF Abstract!vars, absState, absMatched

LEMMA GrantRefines ==
  ASSUME IInv, [Next]_vars, NEW r \in Requests,
         pc[r] # "granted", pc'[r] = "granted"
  PROVE  Abstract!Grant(r)
<1>1. /\ lastAlive[CurrentKey(r)] >= now - Window
      /\ pc[r] \in Working /\ idx[r] \in DOMAIN Candidates(query[r])
      /\ pc' = [pc EXCEPT ![r] = "granted"]
      /\ UNCHANGED <<envVars, query, idx, began>>
  BY GrantStep
<1>2. \A j \in 1..(idx[r] - 1) :
        lastAbsent[KeyAt(query[r], j)] >= began[r] - Window
  BY <1>1, Skipped
<1>3. absState' = [absState EXCEPT ![r] = "granted"]
  BY <1>1 DEF absState, IInv, TypeOK, Working
<1>4. absMatched' = [absMatched EXCEPT ![r] = idx[r]]
  BY <1>1 DEF absMatched, IInv, TypeOK
<1>5. absState[r] = "pending"
  BY <1>1 DEF absState
<1>6. UNCHANGED Abstract!envVars
  BY <1>1, SameEnv
<1> QED
  BY <1>1, <1>2, <1>3, <1>4, <1>5, <1>6, SameKeys
  DEF Abstract!Grant, Abstract!Alive, Abstract!Absent, absState, absMatched, CurrentKey

LEMMA DenyRefines ==
  ASSUME IInv, NEW r \in Requests, Exhaust(r)
  PROVE  Abstract!Deny(r)
<1>1. IInv'
  BY StepIInv DEF Next, Serve
<1>2. /\ pc[r] \in Working /\ pc' = [pc EXCEPT ![r] = "denied"]
      /\ UNCHANGED <<envVars, query, idx, began>>
  BY DEF Exhaust, Working
<1>3. \A j \in DOMAIN Candidates(query[r]) :
        lastAbsent[KeyAt(query[r], j)] >= began[r] - Window
  <2>1. pc'[r] = "denied"
    BY <1>2 DEF IInv, TypeOK
  <2>2. PassedOver(r)' = DOMAIN Candidates(query[r])
    BY <2>1, <1>2 DEF PassedOver
  <2> QED
    BY <1>1, <1>2, <2>2 DEF IInv, PassedOverAbsent, envVars
<1>4. absState' = [absState EXCEPT ![r] = "denied"] /\ absState[r] = "pending"
  BY <1>2 DEF absState, IInv, TypeOK, Working
<1>5. absMatched' = absMatched
  BY <1>2 DEF absMatched, IInv, TypeOK, Working
<1>6. UNCHANGED Abstract!envVars
  BY <1>2, SameEnv
<1> QED
  BY <1>2, <1>3, <1>4, <1>5, <1>6, SameKeys
  DEF Abstract!Deny, Abstract!Absent, absState, absMatched

LEMMA StepRefines ==
  IInv /\ [Next]_vars => [Abstract!Next]_(Abstract!vars)
<1> SUFFICES ASSUME IInv, [Next]_vars PROVE [Abstract!Next]_(Abstract!vars)
  OBVIOUS
<1>1. ASSUME NEW r \in Requests, Arrive(r) PROVE Abstract!Ask(r)
  <2>1. absState' = [absState EXCEPT ![r] = "pending"] /\ absState[r] # "pending"
    BY <1>1 DEF Arrive, absState, IInv, TypeOK, Working, Outcome
  <2>2. absMatched' = [absMatched EXCEPT ![r] = 0]
    BY <1>1 DEF Arrive, absMatched, IInv, TypeOK, Working
  <2> QED
    BY <1>1, <2>1, <2>2, SameKeys, SameEnv
    DEF Arrive, Abstract!Ask, absState, absMatched
<1>2. ASSUME NEW r \in Requests, CacheHit(r) \/ Complete(r)
      PROVE  Abstract!Grant(r) \/ UNCHANGED Abstract!vars
  <2>1. CASE pc'[r] = "granted"
    <3>1. pc[r] # "granted"
      BY <1>2 DEF CacheHit, LookingUp, Complete
    <3> QED
      BY <2>1, <3>1, GrantRefines
  <2>2. CASE pc'[r] # "granted"
    <3>1. /\ pc' = [pc EXCEPT ![r] = "lookup"] /\ pc[r] \in Working
          /\ \A s \in Requests \ {r} : idx'[s] = idx[s]
          /\ UNCHANGED <<envVars, query, began>>
      BY <1>2, <2>2 DEF CacheHit, LookingUp, Complete, Take, IInv, TypeOK, Working
    <3>2. "lookup" \in Working
      BY DEF Working
    <3> QED
      BY <3>1, <3>2, StillPending DEF IInv
  <2> QED
    BY <2>1, <2>2
<1>3. ASSUME NEW r \in Requests, CacheMiss(r) \/ ValkeyExec(r) \/ LookupRetry(r)
      PROVE  UNCHANGED Abstract!vars
  <2>1. /\ \E w \in Working : pc' = [pc EXCEPT ![r] = w]
        /\ pc[r] \in Working
        /\ UNCHANGED <<envVars, query, idx, began>>
    BY <1>3 DEF CacheMiss, LookingUp, ValkeyExec, LookupRetry, Working
  <2> QED
    BY <2>1, StillPending DEF IInv
<1>4. ASSUME NEW r \in Requests, LookupFail(r) PROVE Abstract!Fail(r)
  <2>1. absState' = [absState EXCEPT ![r] = "failed"] /\ absState[r] = "pending"
    BY <1>4 DEF LookupFail, ErrorOutcome, absState, IInv, TypeOK, Working
  <2>2. absMatched' = absMatched
    BY <1>4 DEF LookupFail, ErrorOutcome, absMatched, IInv, TypeOK
  <2> QED
    BY <1>4, <2>1, <2>2, SameEnv DEF LookupFail, Abstract!Fail, absState, absMatched
<1>5. ASSUME NEW r \in Requests, Exhaust(r) PROVE Abstract!Deny(r)
  BY <1>5, DenyRefines
<1>6. CASE Restart
  <2>1. absState' = [r \in Requests |-> "idle"] /\ absMatched' = [r \in Requests |-> 0]
    BY <1>6 DEF Restart, absState, absMatched, Working
  <2> QED
    BY <1>6, <2>1, SameEnv
    DEF Restart, Abstract!Next, Abstract!Restart, absState, absMatched
<1>7. CASE Elapse \/ ChangeKeys
  BY <1>7, SameEnv
  DEF Elapse, ChangeKeys, reqVars, Abstract!Next, Abstract!Env
<1>8. CASE UNCHANGED vars
  BY <1>8, SameEnv DEF vars, reqVars, Abstract!vars
<1> QED
  BY <1>1, <1>2, <1>3, <1>4, <1>5, <1>6, <1>7, <1>8
  DEF Next, Serve, Valkey, Abstract!Next

(***************************************************************************)
(* AuthorizeDomain with its cache, its concurrent lookups and its retries  *)
(* keeps the promise of Entitlement.                                       *)
(***************************************************************************)
THEOREM StoreImplementsEntitlement == Spec => Implements
<1>1. Init => Abstract!Init
  BY InitRefines
<1>2. IInv /\ [Next]_vars => [Abstract!Next]_(Abstract!vars)
  BY StepRefines
<1> QED
  BY <1>1, <1>2, StoreInvariant, PTL DEF Spec, Implements, Abstract!Spec
=============================================================================
