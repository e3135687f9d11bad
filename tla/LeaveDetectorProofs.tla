------------------------- MODULE LeaveDetectorProofs -------------------------
(* Proofs about LeaveDetector for every delay of lockcomplete and every    *)
(* set of faults.  The argument for LockIsNoLeave: as long as nothing      *)
(* disturbed it, a departure that is judged for a lock either has the flag *)
(* down already or its lockcomplete still under way, and then its half     *)
(* second is not over.                                                     *)
EXTENDS LeaveDetector, TLAPS

LEMMA DelayIsOne == JUDGE_DELAY = 1
BY DEF JUDGE_DELAY

Events == [what : {"background", "lock"}, why : Reasons,
           at : 0 .. MaxNow, by : 0 .. MaxNow + LockDelay, no : 0 .. MaxActs]
Judgements == [due : 1 .. MaxNow + 1, why : Reasons, no : 0 .. MaxActs]

(* An event is not delivered before it happens, and a background event at  *)
(* once.                                                                   *)
InTime ==
  \A e \in inbox : e.at <= now /\ (e.what = "background" => e.by = e.at /\ now <= e.at)

(* The lockcomplete of a departure is under way.                           *)
LockComes(no, at) == \E e \in inbox : e.what = "lock" /\ e.no = no /\ e.at = at

(* What holds while no departure was disturbed and no lock was untimely.   *)
Undisturbed ==
  /\ \A e \in inbox : e.what = "lock" => now <= e.at
  /\ \A b \in inbox : b.what = "background" /\ b.why = "lock" => LockComes(b.no, b.at)
  /\ \A j \in judging : j.why = "lock" => ~mark \/ LockComes(j.no, j.due - 1)
  /\ delegate = "over" => judging = {}
  /\ \A j \in running : j.why # "lock"
  /\ cause # "lock"

DetectorInv ==
  /\ TypeOK /\ InTime
  /\ delegate = "none" => judging = {}
  /\ disturbed \/ untimely \/ Undisturbed

-----------------------------------------------------------------------------
(* The type invariant.                                                     *)

(* The initial state has the types.                                        *)
LEMMA TypeInit == Init => TypeOK
<1> SUFFICES ASSUME Init PROVE TypeOK
  OBVIOUS
<1>1. now \in 0 .. MaxNow /\ acts \in 0 .. MaxActs
  BY DelayAssumption DEF Init
<1>2. {mark, recorded, notified, disturbed, excused, untimely} \subseteq BOOLEAN
  BY DEF Init
<1> QED
  BY <1>1, <1>2 DEF Init, TypeOK

(* Every step keeps the types.                                             *)
LEMMA TypeNext == TypeOK /\ InTime /\ [Next]_vars => TypeOK'
<1> SUFFICES ASSUME TypeOK, InTime, [Next]_vars PROVE TypeOK'
  OBVIOUS
<1> USE DelayAssumption
<1>1. CASE GoHome
  <2>1. Event("background", "home", now) \in Events
    BY <1>1 DEF GoHome, UserAct, Event, Events, Reasons, TypeOK
  <2> QED
    BY <1>1, <2>1 DEF GoHome, UserAct, SystemVars, TypeOK, Events
<1>2. CASE Lock
  <2>1. Event("lock", "lock", now + LockDelay) \in Events
    BY <1>2 DEF Lock, UserAct, Event, Events, Reasons, TypeOK
  <2>2. Event("background", "lock", now) \in Events
    BY <1>2 DEF Lock, UserAct, Event, Events, Reasons, TypeOK
  <2>3. inbox' \subseteq Events
    BY <1>2, <2>1, <2>2 DEF Lock, TypeOK, Events
  <2> QED
    BY <1>2, <2>3 DEF Lock, UserAct, SystemVars, TypeOK, Events
<1>3. CASE ComeBack
  BY <1>3 DEF ComeBack, UserAct, SystemVars, TypeOK
<1>4. CASE Tick
  <2>1. now' \in 0 .. MaxNow
    BY <1>4 DEF Tick, TypeOK
  <2>2. untimely' \in BOOLEAN
    BY <1>4 DEF Tick, TypeOK
  <2> QED
    BY <1>4, <2>1, <2>2 DEF Tick, TypeOK
<1>5. CASE StatsAppear
  BY <1>5 DEF StatsAppear, TypeOK
<1>6. CASE ResultsAppear
  <2>1. disturbed' \in BOOLEAN
    BY <1>6 DEF ResultsAppear, TypeOK
  <2> QED
    BY <1>6, <2>1 DEF ResultsAppear, TypeOK
<1>7. CASE AppBackgrounded
  <2>1. PICK e \in inbox :
          /\ inbox' = inbox \ {e}
          /\ IF delegate = "stats"
               THEN /\ mark' = MarkAfterLeave
                    /\ judging' = judging \cup {Judgement(e)}
                    /\ tasks' = tasks \cup {e.no}
                    /\ disturbed' = (disturbed \/ judging # {})
               ELSE UNCHANGED <<mark, judging, tasks, disturbed>>
          /\ UNCHANGED <<now, acts, phone, delegate, running, recorded, notified, cause,
                         excused, untimely>>
    BY <1>7 DEF AppBackgrounded
  <2>2. Judgement(e) \in Judgements /\ e.no \in 0 .. MaxActs
    BY <2>1, DelayIsOne DEF TypeOK, Judgement, Judgements
  <2>3. disturbed' \in BOOLEAN /\ mark' \in BOOLEAN
    BY <2>1 DEF TypeOK, MarkAfterLeave
  <2>4. judging' \cup running' \subseteq Judgements /\ tasks' \subseteq 0 .. MaxActs
    BY <2>1, <2>2 DEF TypeOK, Judgements
  <2> QED
    BY <2>1, <2>3, <2>4 DEF TypeOK, Judgements
<1>8. CASE DeviceLocked
  <2>1. PICK e \in inbox :
          /\ inbox' = inbox \ {e}
          /\ mark' = IF delegate = "stats" THEN FALSE ELSE mark
          /\ excused' = (excused \/ (delegate = "stats" /\ judging # {}))
          /\ untimely' = (untimely \/ Outrun(e))
    BY <1>8 DEF DeviceLocked
  <2>2. mark' \in BOOLEAN /\ excused' \in BOOLEAN /\ untimely' \in BOOLEAN
    BY <2>1 DEF TypeOK, Outrun
  <2> QED
    BY <1>8, <2>1, <2>2 DEF DeviceLocked, TypeOK
<1>9. CASE JudgeBackground
  BY <1>9 DEF JudgeBackground, TasksAfterDrop, TypeOK
<1>10. ASSUME NEW ok \in BOOLEAN, TransactionDone(ok) PROVE TypeOK'
  <2>1. recorded' \in BOOLEAN /\ notified' \in BOOLEAN
    BY <1>10 DEF TransactionDone, TypeOK
  <2>2. cause' \in {"none"} \cup Reasons
    BY <1>10 DEF TransactionDone, TypeOK
  <2> QED
    BY <1>10, <2>1, <2>2 DEF TransactionDone, TypeOK
<1>11. CASE Expire
  BY <1>11 DEF Expire, TypeOK
<1>12. CASE UNCHANGED vars
  BY <1>12 DEF vars, TypeOK
<1> QED
  BY <1>1, <1>2, <1>3, <1>4, <1>5, <1>6, <1>7, <1>8, <1>9, <1>10, <1>11, <1>12 DEF Next

-----------------------------------------------------------------------------
(* The steps of the detector.                                              *)

(* Every step keeps events in time.                                        *)
LEMMA InTimeNext == TypeOK /\ InTime /\ [Next]_vars => InTime'
<1> SUFFICES ASSUME TypeOK, InTime, [Next]_vars PROVE InTime'
  OBVIOUS
<1> USE DelayAssumption DEF TypeOK, InTime
<1>1. CASE GoHome
  BY <1>1 DEF GoHome, UserAct, Event, SystemVars
<1>2. CASE Lock
  BY <1>2 DEF Lock, UserAct, Event, SystemVars
<1>3. CASE ComeBack \/ StatsAppear \/ ResultsAppear
  BY <1>3 DEF ComeBack, StatsAppear, ResultsAppear, UserAct, SystemVars
<1>4. CASE Tick
  <2>1. \A e \in inbox : e.at \in Int /\ e.by \in Int
    OBVIOUS
  <2>2. now \in Int /\ now' = now + 1 /\ inbox' = inbox /\ \A e \in inbox : now < e.by
    BY <1>4 DEF Tick
  <2> QED
    BY <2>1, <2>2
<1>5. CASE AppBackgrounded \/ DeviceLocked
  BY <1>5 DEF AppBackgrounded, DeviceLocked
<1>6. CASE JudgeBackground
  BY <1>6 DEF JudgeBackground
<1>7. CASE \E ok \in BOOLEAN : TransactionDone(ok)
  BY <1>7 DEF TransactionDone
<1>8. CASE Expire
  BY <1>8 DEF Expire
<1>9. CASE UNCHANGED vars
  BY <1>9 DEF vars
<1> QED
  BY <1>1, <1>2, <1>3, <1>4, <1>5, <1>6, <1>7, <1>8, <1>9 DEF Next

(* The stats screen is the delegate before anything is judged.             *)
LEMMA DelegateNext ==
  TypeOK /\ (delegate = "none" => judging = {}) /\ [Next]_vars
    => (delegate = "none" => judging = {})'
BY DEF TypeOK, Next, GoHome, Lock, ComeBack, Tick, StatsAppear, ResultsAppear, AppBackgrounded,
       DeviceLocked, JudgeBackground, TransactionDone, Expire, UserAct, SystemVars, vars

(* A step after which a departure counts as undisturbed keeps what holds   *)
(* of undisturbed ones.                                                    *)
LEMMA UndisturbedNext ==
  ASSUME DetectorInv, [Next]_vars, ~disturbed', ~untimely'
  PROVE  Undisturbed'
<1> USE DelayAssumption
<1>a. TypeOK /\ InTime /\ (delegate = "none" => judging = {})
  BY DEF DetectorInv
<1>1. ~disturbed /\ ~untimely
  <2>1. CASE GoHome \/ Lock \/ ComeBack \/ UNCHANGED vars
    BY <2>1 DEF GoHome, Lock, ComeBack, SystemVars, vars
  <2>2. CASE Tick
    BY <2>2, Zenon DEF Tick
  <2>3. CASE StatsAppear \/ ResultsAppear
    <3>1. CASE StatsAppear
      BY <3>1 DEF StatsAppear
    <3>2. CASE ResultsAppear
      BY <3>2, Zenon DEF ResultsAppear
    <3> QED
      BY <2>3, <3>1, <3>2
  <2>4. CASE AppBackgrounded
    <3>1. ~untimely
      BY <2>4 DEF AppBackgrounded
    <3>2. disturbed' = (disturbed \/ judging # {}) \/ disturbed' = disturbed
      BY <2>4, Zenon DEF AppBackgrounded
    <3>3. CASE disturbed' = (disturbed \/ judging # {})
      BY <3>1, <3>3, Zenon
    <3>4. CASE disturbed' = disturbed
      BY <3>1, <3>4
    <3> QED
      BY <3>2, <3>3, <3>4
  <2>5. CASE DeviceLocked
    <3>1. disturbed' = disturbed
      BY <2>5 DEF DeviceLocked
    <3>2. \E e \in inbox : untimely' = (untimely \/ Outrun(e))
      BY <2>5, Zenon DEF DeviceLocked
    <3> QED
      BY <3>1, <3>2, Zenon
  <2>6. CASE JudgeBackground \/ (\E ok \in BOOLEAN : TransactionDone(ok)) \/ Expire
    BY <2>6 DEF JudgeBackground, TransactionDone, Expire
  <2> QED
    BY <2>1, <2>2, <2>3, <2>4, <2>5, <2>6 DEF Next
<1>b. Undisturbed
  BY <1>1 DEF DetectorInv
<1>2. CASE GoHome
  BY <1>a, <1>b, <1>2 DEF TypeOK, GoHome, UserAct, Event, SystemVars, Undisturbed, LockComes
<1>3. CASE Lock
  <2>1. inbox \subseteq inbox' /\ now' = now
    BY <1>3 DEF Lock, SystemVars
  <2>2. \A e \in inbox' \ inbox :
          \/ e.what = "lock" /\ e.at = now
          \/ e.what = "background" /\ LockComes(e.no, e.at)'
    <3> DEFINE lock == Event("lock", "lock", now + LockDelay)
    <3>1. lock \in inbox' /\ lock.what = "lock" /\ lock.no = acts /\ lock.at = now
      BY <1>3 DEF Lock, Event
    <3>2. \A e \in inbox' : e.no = acts /\ e.at = now => LockComes(e.no, e.at)'
      BY <3>1 DEF LockComes
    <3>3. \A e \in inbox' \ inbox :
            e = lock \/ e = Event("background", "lock", now)
      BY <1>3 DEF Lock
    <3> QED
      BY <3>1, <3>2, <3>3 DEF Event
  <2>3. \A no, at : LockComes(no, at) => LockComes(no, at)'
    BY <2>1 DEF LockComes
  <2>4. now \in Int
    BY <1>a DEF TypeOK
  <2> QED
    BY <1>3, <1>b, <2>1, <2>2, <2>3, <2>4 DEF Lock, SystemVars, Undisturbed
<1>4. CASE ComeBack
  BY <1>b, <1>4 DEF ComeBack, UserAct, SystemVars, Undisturbed, LockComes
<1>5. CASE Tick
  <2>1. now' = now + 1 /\ now \in Int /\ inbox' = inbox
    BY <1>a, <1>5 DEF Tick, TypeOK
  <2>2. \A e \in inbox : e.what = "lock" => ~(now' >= e.at + 1)
    BY <1>5, DelayIsOne DEF Tick
  <2>3. \A e \in inbox : e.at \in Int
    BY <1>a DEF TypeOK
  <2>4. \A e \in inbox : e.what = "lock" => now' <= e.at
    BY <2>1, <2>2, <2>3
  <2> QED
    BY <1>5, <1>b, <2>1, <2>4 DEF Tick, Undisturbed, LockComes
<1>6. CASE StatsAppear
  BY <1>a, <1>b, <1>6 DEF StatsAppear, Undisturbed, LockComes
<1>7. CASE ResultsAppear
  BY <1>b, <1>7 DEF ResultsAppear, Undisturbed, LockComes
<1>8. CASE AppBackgrounded
  <2>1. PICK e \in inbox :
          /\ e.what = "background" /\ inbox' = inbox \ {e}
          /\ IF delegate = "stats"
               THEN /\ mark' = MarkAfterLeave
                    /\ judging' = judging \cup {Judgement(e)}
                    /\ tasks' = tasks \cup {e.no}
                    /\ disturbed' = (disturbed \/ judging # {})
               ELSE UNCHANGED <<mark, judging, tasks, disturbed>>
          /\ UNCHANGED <<now, acts, phone, delegate, running, recorded, notified, cause,
                         excused, untimely>>
    BY <1>8 DEF AppBackgrounded
  <2>2. \A no, at : LockComes(no, at) => LockComes(no, at)'
    BY <2>1 DEF LockComes
  <2>3. CASE delegate = "stats"
    <3>1. judging = {} /\ judging' = {Judgement(e)}
      BY <1>1, <2>1, <2>3
    <3>2. Judgement(e).due = now + 1 /\ Judgement(e).why = e.why /\ Judgement(e).no = e.no
      BY DelayIsOne DEF Judgement
    <3>3. e.at \in Int /\ now \in Int /\ e.at = now
      BY <1>a, <2>1 DEF InTime, TypeOK
    <3>4. e.why = "lock" => LockComes(e.no, e.at)
      BY <1>b, <2>1 DEF Undisturbed
    <3>5. \A j \in judging' : j.why = "lock" => LockComes(j.no, j.due - 1)'
      BY <2>2, <3>1, <3>2, <3>3, <3>4
    <3> QED
      BY <1>b, <2>1, <2>2, <2>3, <3>5 DEF Undisturbed
  <2>4. CASE delegate # "stats"
    BY <1>b, <2>1, <2>2, <2>4 DEF Undisturbed
  <2> QED
    BY <2>3, <2>4
<1>9. CASE DeviceLocked
  <2>1. PICK e \in inbox :
          /\ e.what = "lock" /\ inbox' = inbox \ {e}
          /\ mark' = IF delegate = "stats" THEN FALSE ELSE mark
          /\ untimely' = (untimely \/ Outrun(e))
          /\ UNCHANGED <<now, acts, phone, delegate, judging, running, tasks, recorded,
                         notified, cause, disturbed>>
    BY <1>9 DEF DeviceLocked
  <2>2. \A b \in inbox : b.what = "background" => b.no # e.no
    BY <2>1 DEF Outrun
  <2>3. \A no, at : no # e.no /\ LockComes(no, at) => LockComes(no, at)'
    BY <2>1 DEF LockComes
  <2>4. judging # {} => delegate = "stats"
    BY <1>a, <1>b DEF TypeOK, Undisturbed
  <2>5. \A j \in judging' : ~mark'
    BY <2>1, <2>4
  <2> QED
    BY <1>b, <2>1, <2>2, <2>3, <2>5 DEF Undisturbed
<1>10. CASE JudgeBackground
  <2>1. PICK j \in judging :
          /\ now >= j.due /\ judging' = judging \ {j}
          /\ running' = IF mark THEN running \cup {j} ELSE running
          /\ UNCHANGED <<now, inbox, delegate, mark, cause>>
    BY <1>10 DEF JudgeBackground
  <2>2. j.due \in Int /\ now \in Int
    BY <1>a DEF TypeOK
  <2>3. ~LockComes(j.no, j.due - 1)
    BY <1>b, <2>1, <2>2 DEF LockComes, Undisturbed
  <2>4. mark => j.why # "lock"
    BY <1>b, <2>3 DEF Undisturbed
  <2> QED
    BY <1>b, <2>1, <2>4 DEF Undisturbed, LockComes
<1>11. CASE \E ok \in BOOLEAN : TransactionDone(ok)
  BY <1>b, <1>11 DEF TransactionDone, Undisturbed, LockComes
<1>12. CASE Expire
  BY <1>b, <1>12 DEF Expire, Undisturbed
<1>13. CASE UNCHANGED vars
  BY <1>b, <1>13 DEF vars, Undisturbed, LockComes
<1> QED
  BY <1>2, <1>3, <1>4, <1>5, <1>6, <1>7, <1>8, <1>9, <1>10, <1>11, <1>12, <1>13 DEF Next

-----------------------------------------------------------------------------
(* The initial state satisfies the invariant.                              *)
LEMMA DetectorInit == Init => DetectorInv
BY TypeInit DEF Init, DetectorInv, InTime, Undisturbed

(* Every step preserves it.                                                *)
LEMMA DetectorNext == DetectorInv /\ [Next]_vars => DetectorInv'
<1> SUFFICES ASSUME DetectorInv, [Next]_vars PROVE DetectorInv'
  OBVIOUS
<1>1. TypeOK' /\ InTime' /\ (delegate = "none" => judging = {})'
  BY TypeNext, InTimeNext, DelegateNext DEF DetectorInv
<1>2. disturbed' \/ untimely' \/ Undisturbed'
  BY UndisturbedNext
<1> QED
  BY <1>1, <1>2 DEF DetectorInv

(* Every variable of the detector has its type in every state.             *)
THEOREM DetectorTypeOK == Spec => []TypeOK
<1>1. DetectorInv => TypeOK
  BY DEF DetectorInv
<1> QED
  BY <1>1, DetectorInit, DetectorNext, PTL DEF Spec

(* The flag and the half second of appBackgrounded suffice: a player who   *)
(* only locks the phone is not recorded, whatever else the user and the    *)
(* network do, unless the departure was disturbed or its lock untimely.    *)
THEOREM LocksAreNoLeaves == Spec => []LockIsNoLeave
<1>1. DetectorInv => LockIsNoLeave
  BY DEF DetectorInv, Undisturbed, LockIsNoLeave
<1> QED
  BY <1>1, DetectorInit, DetectorNext, PTL DEF Spec
=============================================================================
