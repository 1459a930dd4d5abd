---------------------------- MODULE AdminProofs ----------------------------
(***************************************************************************)
(* The listing of the admin API is complete and sound for any keys, any    *)
(* table and any number of pages, retries, resizes and changes.            *)
(*                                                                         *)
(* AdminInv is inductive: a walk keeps every lasting key on the list or    *)
(* ahead of the cursor, adds only keys that were there, and passes a slot  *)
(* once unless the table is resized.  One lemma for each kind of step.     *)
(***************************************************************************)
EXTENDS Admin, TLAPS

USE DEF Walking, MayBeListed

LEMMA BoundsAreNat ==
  /\ MaxRequests \in Nat /\ MaxRetries \in Nat /\ MaxResizes \in Nat /\ MaxChanges \in Nat
BY AdminAssumption

LEMMA InitInv == Init => AdminInv
BY BoundsAreNat DEF Init, AdminInv, TypeOK, WalkKeeps, WalkAddsNothing, WalkPassesOnce,
   ListingComplete, ListingSound, NotFoundMeansNone, RepeatedOnlyByResize,
   ListAnswered, Working, NoPage, Unlisted, Path, NoStatus, Listed

LEMMA AskInv == AdminInv /\ Ask => AdminInv'
BY BoundsAreNat DEF AdminInv, Ask, TypeOK, WalkKeeps, WalkAddsNothing, WalkPassesOnce,
   ListingComplete, ListingSound, NotFoundMeansNone, RepeatedOnlyByResize,
   ListAnswered, Working, NoStatus, Listed, walkVars

\* An answer that is no list, and not the 404 of an empty list.
LEMMA ReplyInv ==
  ASSUME AdminInv, pc \in Working,
         NEW code \in {200, 400, 404, 405, 502, 503}, Reply(code),
         code = 200 => path = "health", code = 404 => path # "list"
  PROVE  AdminInv'
BY BoundsAreNat DEF AdminInv, Reply, TypeOK, WalkKeeps, WalkAddsNothing, WalkPassesOnce,
   ListingComplete, ListingSound, NotFoundMeansNone, RepeatedOnlyByResize,
   ListAnswered, Working, NoPage, Listed, history

LEMMA AnswerInv == AdminInv /\ (AnswerAtOnce \/ Pong \/ ScanFails) => AdminInv'
<1> SUFFICES ASSUME AdminInv, AnswerAtOnce \/ Pong \/ ScanFails PROVE AdminInv'
  OBVIOUS
<1>1. CASE AnswerAtOnce
  BY <1>1, ReplyInv DEF AnswerAtOnce, Working
<1>2. CASE Pong
  BY <1>2, ReplyInv DEF Pong, Working, AdminInv
<1>3. CASE ScanFails
  BY <1>3, ReplyInv DEF ScanFails, Working, ErrorStatus
<1> QED BY <1>1, <1>2, <1>3

LEMMA AsideInv == AdminInv /\ (HandlerThrows \/ SendPing) => AdminInv'
<1> SUFFICES ASSUME AdminInv, HandlerThrows \/ SendPing PROVE AdminInv'
  OBVIOUS
<1> USE BoundsAreNat DEF AdminInv, TypeOK, WalkKeeps, WalkAddsNothing, WalkPassesOnce,
   ListingComplete, ListingSound, NotFoundMeansNone, RepeatedOnlyByResize,
   ListAnswered, Working, Listed, walkVars, history
<1>1. CASE HandlerThrows
  BY <1>1 DEF HandlerThrows
<1>2. CASE SendPing
  BY <1>2 DEF SendPing
<1> QED BY <1>1, <1>2

LEMMA StutterInv == AdminInv /\ UNCHANGED vars => AdminInv'
<1> SUFFICES ASSUME AdminInv, UNCHANGED vars PROVE AdminInv'
  OBVIOUS
<1>1. /\ side' = side /\ keys' = keys /\ pc' = pc /\ path' = path /\ id' = id /\ status' = status
      /\ cursor' = cursor /\ page' = page /\ domains' = domains /\ tries' = tries
      /\ resizes' = resizes /\ throughout' = throughout /\ ever' = ever
  BY DEF vars, walkVars, history
<1>2. TypeOK' /\ WalkKeeps' /\ WalkAddsNothing' /\ WalkPassesOnce'
  BY <1>1 DEF AdminInv, TypeOK, WalkKeeps, WalkAddsNothing, WalkPassesOnce,
     Listed, Listable
<1>3. ListingComplete' /\ ListingSound' /\ NotFoundMeansNone' /\ RepeatedOnlyByResize'
  BY <1>1 DEF AdminInv, ListingComplete, ListingSound, NotFoundMeansNone,
     RepeatedOnlyByResize, ListAnswered, Listed, Listable
<1> QED BY <1>1, <1>2, <1>3 DEF AdminInv

LEMMA BeginListInv == AdminInv /\ BeginList => AdminInv'
<1> SUFFICES ASSUME AdminInv, BeginList PROVE AdminInv'
  OBVIOUS
<1>1. \A d \in Key : SlotOf[d] \in Slot
  BY AdminAssumption
<1> QED
  BY <1>1, BoundsAreNat DEF AdminInv, BeginList, ListBegun, Unlisted, TypeOK, WalkKeeps,
     WalkAddsNothing, WalkPassesOnce, ListingComplete, ListingSound,
     NotFoundMeansNone, RepeatedOnlyByResize, ListAnswered, Working, Listed, history

LEMMA ScanPageInv == AdminInv /\ ScanPage => AdminInv'
<1> SUFFICES ASSUME AdminInv, ScanPage PROVE AdminInv'
  OBVIOUS
<1>1. PICK visited \in SUBSET cursor \ {{}} :
        page' = [keys |-> {k \in keys \cap Matching[id] : SlotOf[k] \in visited}, next |-> cursor \ visited]
  BY DEF ScanPage
<1>2. /\ page'.keys = {k \in keys \cap Matching[id] : SlotOf[k] \in visited}
      /\ page'.next = cursor \ visited
  BY <1>1
<1>3. /\ pc = "scan" /\ pc' = "page" /\ side' = side /\ keys' = keys /\ path' = path /\ id' = id
      /\ status' = status /\ cursor' = cursor /\ domains' = domains /\ tries' = tries
      /\ resizes' = resizes /\ throughout' = throughout /\ ever' = ever
  BY DEF ScanPage, history
<1>5. throughout \subseteq keys /\ keys \subseteq ever /\ keys \subseteq Key
  BY <1>3 DEF AdminInv, WalkAddsNothing, TypeOK, Working
<1>6. TypeOK'
  BY <1>2, <1>3, <1>5 DEF AdminInv, TypeOK, Working
<1>7. WalkKeeps'
  BY <1>2, <1>3, <1>5 DEF AdminInv, WalkKeeps, Listed, Listable
<1>8. WalkAddsNothing'
  BY <1>2, <1>3, <1>5 DEF AdminInv, WalkAddsNothing, Listed, Working
<1>9. WalkPassesOnce'
  BY <1>2, <1>3, <1>5 DEF AdminInv, WalkPassesOnce, Listed
<1>10. RepeatedOnlyByResize'
  BY <1>3 DEF AdminInv, RepeatedOnlyByResize, ListAnswered
<1>11. ListingComplete' /\ ListingSound' /\ NotFoundMeansNone'
  BY <1>3 DEF ListingComplete, ListingSound, NotFoundMeansNone, ListAnswered
<1> QED BY <1>3, <1>6, <1>7, <1>8, <1>9, <1>10, <1>11 DEF AdminInv

LEMMA ScanRetryInv == AdminInv /\ ScanRetry => AdminInv'
<1> SUFFICES ASSUME AdminInv, ScanRetry PROVE AdminInv'
  OBVIOUS
<1>1. /\ pc = "page" /\ pc' = "scan" /\ side' = side /\ keys' = keys /\ path' = path /\ id' = id
      /\ status' = status /\ cursor' = cursor /\ domains' = domains
      /\ tries < MaxRetries /\ tries' = tries + 1 /\ page' = NoPage
      /\ resizes' = resizes /\ throughout' = throughout /\ ever' = ever
  BY DEF ScanRetry, MayRetry, history
<1>2. TypeOK'
  BY <1>1, BoundsAreNat DEF AdminInv, TypeOK, Working, NoPage
<1>3. WalkKeeps'
  BY <1>1 DEF AdminInv, WalkKeeps, Listed, Listable
<1>4. WalkAddsNothing' /\ WalkPassesOnce'
  BY <1>1 DEF AdminInv, WalkAddsNothing, WalkPassesOnce, Listed, Working
<1>5. RepeatedOnlyByResize'
  BY <1>1 DEF AdminInv, RepeatedOnlyByResize, ListAnswered
<1>6. ListingComplete' /\ ListingSound' /\ NotFoundMeansNone'
  BY <1>1 DEF ListingComplete, ListingSound, NotFoundMeansNone, ListAnswered
<1> QED BY <1>1, <1>2, <1>3, <1>4, <1>5, <1>6 DEF AdminInv

\* The last page that arrives: what is listed is all there was.
LEMMA TakePageLists ==
  ASSUME AdminInv, TakePage, NEW d \in Key
  PROVE  /\ domains' \in [Key -> Nat]
         /\ domains'[d] = domains[d] + (IF d \in Pushed(page) THEN 1 ELSE 0)
         /\ Listed(d)' <=> Listed(d) \/ d \in Pushed(page)
<1>1. domains \in [Key -> Nat]
  BY DEF AdminInv, TypeOK
<1>2. domains' = [e \in Key |-> domains[e] + (IF e \in Pushed(page) THEN 1 ELSE 0)]
  BY DEF TakePage
<1> QED BY <1>1, <1>2 DEF Listed

LEMMA TakePageInv == AdminInv /\ TakePage => AdminInv'
<1> SUFFICES ASSUME AdminInv, TakePage PROVE AdminInv'
  OBVIOUS
<1>1. /\ pc = "page" /\ side' = side /\ keys' = keys /\ path' = path /\ id' = id
      /\ tries' = 0 /\ page' = NoPage
      /\ resizes' = resizes /\ throughout' = throughout /\ ever' = ever
  BY DEF TakePage, history
<1>2. page.keys \subseteq ever /\ page.next \subseteq cursor
  BY <1>1 DEF AdminInv, WalkAddsNothing, TypeOK
<1>3. Pushed(page) \subseteq page.keys /\ page.keys \cap Listable \subseteq Pushed(page)
  BY DEF Pushed, Listable
<1>4. \A d \in Key : Listed(d)' => d \in ever /\ MayBeListed(d)'
  <2> SUFFICES ASSUME NEW d \in Key, Listed(d)' PROVE d \in ever /\ MayBeListed(d)
    BY <1>1
  <2>1. CASE Listed(d)
    BY <1>1, <2>1 DEF AdminInv, WalkAddsNothing
  <2>2. CASE d \in Pushed(page)
    <3>1. d \in ever \cap Matching[id]
      BY <1>1, <1>3, <2>2 DEF AdminInv, WalkAddsNothing
    <3>2. id \in Plain => Matching[id] = Own[id]
      BY AdminAssumption DEF AdminInv, TypeOK
    <3>3. side # "go" => d \in Own[id]
      BY <2>2 DEF Pushed
    <3>4. side \in {"node", "go"}
      BY DEF AdminInv, TypeOK
    <3> QED BY <3>1, <3>2, <3>3, <3>4
  <2> QED BY <2>1, <2>2, TakePageLists
<1>5. \A d \in throughout \cap Listable : Listed(d)' \/ SlotOf[d] \in page.next
  <2> SUFFICES ASSUME NEW d \in throughout \cap Listable, SlotOf[d] \notin page.next
               PROVE  Listed(d)'
    OBVIOUS
  <2>1. d \in Key
    BY DEF AdminInv, TypeOK
  <2>2. Listed(d) \/ d \in page.keys
    BY <1>1 DEF AdminInv, WalkKeeps, Listable
  <2> QED BY <2>1, <2>2, <1>3, TakePageLists
<1>6. resizes = 0 => \A d \in Key : Listed(d)' => SlotOf[d] \notin page.next
  BY <1>1, <1>2, <1>3, TakePageLists DEF AdminInv, WalkPassesOnce
<1>7. resizes = 0 => \A d \in Key : domains'[d] <= 1
  <2> SUFFICES ASSUME resizes = 0, NEW d \in Key PROVE domains'[d] <= 1
    OBVIOUS
  <2>1. domains[d] \in Nat /\ domains[d] <= 1
    BY <1>1 DEF AdminInv, TypeOK, RepeatedOnlyByResize
  <2>2. d \in Pushed(page) => domains[d] = 0
    BY <1>1, <1>3, <2>1 DEF AdminInv, WalkPassesOnce, Listed
  <2>3. domains'[d] = domains[d] + (IF d \in Pushed(page) THEN 1 ELSE 0)
    BY TakePageLists
  <2> QED BY <2>1, <2>2, <2>3
<1>8. TypeOK'
  <2>1. domains' \in [Key -> Nat]
    <3>1. domains \in [Key -> Nat]
      BY DEF AdminInv, TypeOK
    <3> QED BY <3>1 DEF TakePage
  <2>2. CASE page.next = {}
    BY <1>1, <2>1, <2>2, BoundsAreNat DEF AdminInv, TypeOK, TakePage, WalkOver, NoPage, Working
  <2>3. CASE page.next # {}
    BY <1>1, <1>2, <2>1, <2>3, BoundsAreNat
       DEF AdminInv, TypeOK, TakePage, WalkOver, CursorNext, NoPage, Working
  <2> QED BY <2>2, <2>3
<1>9. CASE page.next = {}
  <2>1. /\ pc' = "done" /\ status' = IF domains' = Unlisted THEN 404 ELSE 200
    BY <1>9 DEF TakePage, WalkOver
  <2>2. path \in {"list", "below"} => \A d \in throughout \cap Listable : Listed(d)'
    BY <1>1, <1>5, <1>9
  <2>3. ListingComplete'
    BY <1>1, <2>2 DEF ListingComplete, ListAnswered, Listable
  <2>4. ListingSound'
    BY <1>1, <1>4 DEF ListingSound
  <2>5. NotFoundMeansNone'
    <3> SUFFICES ASSUME pc' = "done", path' = "list", status' = 404
                 PROVE  throughout \cap Listable = {}
      BY <1>1 DEF NotFoundMeansNone, Listable
    <3>1. domains' = Unlisted
      BY <2>1
    <3>2. \A d \in Key : ~Listed(d)'
      BY <3>1 DEF Listed, Unlisted
    <3>3. throughout \subseteq Key
      BY DEF AdminInv, TypeOK
    <3> QED BY <1>1, <2>2, <3>2, <3>3
  <2>6. RepeatedOnlyByResize'
    BY <1>1, <1>7 DEF RepeatedOnlyByResize
  <2>7. WalkKeeps' /\ WalkAddsNothing' /\ WalkPassesOnce'
    BY <2>1 DEF WalkKeeps, WalkAddsNothing, WalkPassesOnce, Working
  <2> QED BY <1>8, <2>1, <2>3, <2>4, <2>5, <2>6, <2>7 DEF AdminInv
<1>10. CASE page.next # {}
  <2>1. /\ pc' = "scan" /\ cursor' = page.next
    BY <1>10 DEF TakePage, WalkOver, CursorNext
  <2>2. WalkKeeps'
    BY <1>1, <1>5, <2>1 DEF WalkKeeps, Listable
  <2>3. WalkAddsNothing'
    BY <1>1, <1>4, <2>1 DEF AdminInv, WalkAddsNothing, Working
  <2>4. WalkPassesOnce'
    BY <1>1, <1>6, <2>1 DEF WalkPassesOnce
  <2>5. RepeatedOnlyByResize'
    BY <1>1, <1>7 DEF RepeatedOnlyByResize
  <2>6. ListingComplete' /\ ListingSound' /\ NotFoundMeansNone'
    BY <2>1 DEF ListingComplete, ListingSound, NotFoundMeansNone, ListAnswered
  <2>7. path' \in {"list", "below"}
    BY <1>1 DEF AdminInv
  <2> QED BY <1>8, <2>1, <2>2, <2>3, <2>4, <2>5, <2>6, <2>7 DEF AdminInv
<1> QED BY <1>9, <1>10

LEMMA ResizeInv == AdminInv /\ Resize => AdminInv'
<1> SUFFICES ASSUME AdminInv, Resize PROVE AdminInv'
  OBVIOUS
<1>1. /\ pc = "scan" /\ pc' = "scan" /\ side' = side /\ keys' = keys /\ path' = path /\ id' = id
      /\ status' = status /\ page' = page /\ domains' = domains /\ tries' = tries
      /\ resizes < MaxResizes /\ resizes' = resizes + 1
      /\ cursor \subseteq cursor' /\ cursor' \subseteq Slot
      /\ throughout' = throughout /\ ever' = ever
  BY DEF Resize, history, AdminInv, TypeOK
<1>2. TypeOK'
  BY <1>1, BoundsAreNat DEF AdminInv, TypeOK, Working
<1>3. WalkKeeps'
  BY <1>1 DEF AdminInv, WalkKeeps, Listed, Listable
<1>4. resizes' # 0
  BY <1>1 DEF AdminInv, TypeOK
<1>5. WalkAddsNothing' /\ WalkPassesOnce'
  BY <1>1, <1>4 DEF AdminInv, WalkAddsNothing, WalkPassesOnce, Listed, Working
<1>6. RepeatedOnlyByResize'
  BY <1>4 DEF RepeatedOnlyByResize
<1>7. ListingComplete' /\ ListingSound' /\ NotFoundMeansNone'
  BY <1>1 DEF ListingComplete, ListingSound, NotFoundMeansNone, ListAnswered
<1> QED BY <1>1, <1>2, <1>3, <1>5, <1>6, <1>7 DEF AdminInv

LEMMA ChangeKeyInv == ASSUME AdminInv, NEW d \in Key, ChangeKey(d) PROVE AdminInv'
<1>1. /\ side' = side /\ pc' = pc /\ path' = path /\ id' = id /\ status' = status
      /\ cursor' = cursor /\ page' = page /\ domains' = domains /\ tries' = tries
      /\ resizes' = resizes
      /\ keys' = IF d \in keys THEN keys \ {d} ELSE keys \cup {d}
  BY DEF ChangeKey, walkVars
<1>2. IF pc \in Working THEN throughout' = throughout \ {d} /\ ever' = ever \cup {d}
      ELSE throughout' = throughout /\ ever' = ever
  BY DEF ChangeKey
<1>3. throughout' \subseteq throughout /\ ever \subseteq ever'
  BY <1>2
<1>4. TypeOK'
  BY <1>1, <1>2 DEF AdminInv, TypeOK
<1>5. WalkKeeps'
  BY <1>1, <1>3 DEF AdminInv, WalkKeeps, Listed, Listable
<1>6. WalkAddsNothing'
  BY <1>1, <1>2, <1>3 DEF AdminInv, WalkAddsNothing, Listed, Working
<1>7. WalkPassesOnce'
  BY <1>1 DEF AdminInv, WalkPassesOnce, Listed
<1>8. RepeatedOnlyByResize'
  BY <1>1 DEF AdminInv, RepeatedOnlyByResize, ListAnswered
<1>9. ListingComplete' /\ ListingSound' /\ NotFoundMeansNone'
  BY <1>1, <1>3 DEF AdminInv, ListingComplete, ListingSound, NotFoundMeansNone,
     ListAnswered, Listed, Listable
<1> QED BY <1>1, <1>4, <1>5, <1>6, <1>7, <1>8, <1>9 DEF AdminInv

LEMMA StepInv == AdminInv /\ [Next]_vars => AdminInv'
<1> SUFFICES ASSUME AdminInv, [Next]_vars PROVE AdminInv'
  OBVIOUS
<1>1. CASE Ask
  BY <1>1, AskInv
<1>2. CASE AnswerAtOnce \/ Pong \/ ScanFails
  BY <1>2, AnswerInv
<1>3. CASE HandlerThrows \/ SendPing
  BY <1>3, AsideInv
<1>4. CASE BeginList
  BY <1>4, BeginListInv
<1>5. CASE ScanPage
  BY <1>5, ScanPageInv
<1>6. CASE ScanRetry
  BY <1>6, ScanRetryInv
<1>7. CASE TakePage
  BY <1>7, TakePageInv
<1>8. CASE Resize
  BY <1>8, ResizeInv
<1>9. CASE \E d \in Key : ChangeKey(d)
  BY <1>9, ChangeKeyInv
<1>10. CASE UNCHANGED vars
  BY <1>10, StutterInv
<1> QED
  BY <1>1, <1>2, <1>3, <1>4, <1>5, <1>6, <1>7, <1>8, <1>9, <1>10 DEF Next, Handler, Valkey

(***************************************************************************)
(* The invariant of the walk, for any table, keys and bounds.              *)
(***************************************************************************)
THEOREM AdminInvariant == Spec => []AdminInv
<1>1. Init => AdminInv
  BY InitInv
<1>2. AdminInv /\ [Next]_vars => AdminInv'
  BY StepInv
<1> QED BY <1>1, <1>2, PTL DEF Spec

(***************************************************************************)
(* GET /sessions/id lists every domain whose key matches and was there all *)
(* the time: listUserDomains and ListUserDomains, whatever SCAN puts into  *)
(* its pages.                                                              *)
(***************************************************************************)
THEOREM ListingIsComplete == Spec => []ListingComplete
<1>1. AdminInv => ListingComplete
  BY DEF AdminInv
<1> QED BY <1>1, AdminInvariant, PTL

(***************************************************************************)
(* And none whose key was never there, or is another id's, but in Go for   *)
(* an id that is a glob: whatever the keys, the patterns and the table.    *)
(***************************************************************************)
THEOREM ListingIsSound == Spec => []ListingSound
<1>1. AdminInv => ListingSound
  BY DEF AdminInv
<1> QED BY <1>1, AdminInvariant, PTL

(***************************************************************************)
(* session_not_found is said of a user only if none of the keys lasted.    *)
(***************************************************************************)
THEOREM NotFoundIsTrue == Spec => []NotFoundMeansNone
<1>1. AdminInv => NotFoundMeansNone
  BY DEF AdminInv
<1> QED BY <1>1, AdminInvariant, PTL

(***************************************************************************)
(* Retries of a page alone never repeat a domain on the list.              *)
(***************************************************************************)
THEOREM OnlyResizeRepeats == Spec => []RepeatedOnlyByResize
<1>1. AdminInv => RepeatedOnlyByResize
  BY DEF AdminInv
<1> QED BY <1>1, AdminInvariant, PTL
=============================================================================
