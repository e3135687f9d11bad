---------------------------- MODULE LeaveDetector ----------------------------
(* How one phone tells that its player left the app from its player        *)
(* locking the phone: AppDelegate forwards two system events to the stats  *)
(* screen, didEnterBackground and the Darwin notification lockcomplete,    *)
(* and the stats screen waits half a second after the first one for the    *)
(* second before it records the leave.  UnplugGame takes any order of the  *)
(* two calls; this module has the events, their delays, the background     *)
(* tasks and the outcome of the transaction.  Time is in half seconds.     *)
(* iOS and Firebase are external: background is delivered at once and      *)
(* lockcomplete after it, within LockDelay, as the wait supposes.          *)
EXTENDS Integers

CONSTANTS
  LockDelay,  \* how long lockcomplete may take, in half seconds, rounded down
  MaxNow,     \* bound: the time the history stops at
  MaxActs,    \* bound: how many things the user does
  Faults      \* a subset of {"error", "offline", "reorder"}: a transaction that
              \* fails or never ends, lockcomplete before its background event

ASSUME DelayAssumption == LockDelay \in Nat /\ MaxNow \in Nat /\ MaxActs \in Nat

JUDGE_DELAY == 1

VARIABLES
  now,
  acts,      \* how many things the user has done, for MaxActs
  phone,     \* "active" with Unplug in front, "away", "locked", or "dead"
  inbox,     \* system events under way: what, why, and the latest delivery
  delegate,  \* the AppDelegate's delegate: "none", "stats" in a game, then "over"
  mark,      \* _markBackgrounded
  judging,   \* dispatch_after blocks to run
  running,   \* transactions under way
  tasks,     \* background tasks begun and not ended, by the act that began them
  recorded,  \* the server's time of this player is not @0
  notified,  \* "You lost!" was shown
  cause,     \* history: why the player was recorded
  disturbed, \* history: while a departure was judged, another one came or
              \* the results screen took the delegate away
  excused,   \* history: lockcomplete came while a departure was judged
  untimely   \* history: a lockcomplete came before its background event, or was
             \* under way for half a second

vars == <<now, acts, phone, inbox, delegate, mark, judging, running, tasks, recorded,
          notified, cause, disturbed, excused, untimely>>

Init ==
  /\ now = 0 /\ acts = 0 /\ phone = "active" /\ inbox = {}
  /\ delegate = "none" /\ mark = FALSE
  /\ judging = {} /\ running = {} /\ tasks = {}
  /\ recorded = FALSE /\ notified = FALSE
  /\ cause = "none" /\ disturbed = FALSE /\ excused = FALSE
  /\ untimely = FALSE

Event(what, why, by) ==
  [what |-> what, why |-> why, at |-> now, by |-> by, no |-> acts]

-----------------------------------------------------------------------------
(* The user and iOS.                                                       *)

UserAct == now < MaxNow /\ acts < MaxActs /\ acts' = acts + 1
SystemVars == <<now, delegate, mark, judging, running, tasks, recorded, notified,
                cause, disturbed, excused, untimely>>

GoHome ==
  /\ phone = "active" /\ UserAct
  /\ phone' = "away"
  /\ inbox' = inbox \cup {Event("background", "home", now)}
  /\ UNCHANGED SystemVars

(* Locking the phone with Unplug in front also sends it to the background. *)
Lock ==
  /\ phone \in {"active", "away"} /\ UserAct
  /\ phone' = "locked"
  /\ inbox' = inbox \cup {Event("lock", "lock", now + LockDelay)}
                    \cup IF phone = "active" THEN {Event("background", "lock", now)} ELSE {}
  /\ UNCHANGED SystemVars

(* willEnterForeground only logs: _markBackgrounded keeps its value.       *)
ComeBack ==
  /\ phone \in {"away", "locked"} /\ UserAct
  /\ \A e \in inbox : e.what # "background"
  /\ phone' = "active"
  /\ UNCHANGED <<inbox, SystemVars>>

(* Time passes no event's latest delivery.                                 *)
Tick ==
  /\ now < MaxNow /\ \A e \in inbox : now < e.by
  /\ now' = now + 1
  /\ untimely' = (untimely \/ \E e \in inbox : e.what = "lock" /\ now' >= e.at + JUDGE_DELAY)
  /\ UNCHANGED <<acts, phone, inbox, delegate, mark, judging, running, tasks, recorded,
                 notified, cause, disturbed, excused>>

-----------------------------------------------------------------------------
(* The stats screen becomes the delegate, the results screen resigns it.   *)

StatsAppear ==
  /\ delegate = "none" /\ phone = "active"
  /\ delegate' = "stats"
  /\ UNCHANGED <<now, acts, phone, inbox, mark, judging, running, tasks, recorded,
                 notified, cause, disturbed, excused, untimely>>

ResultsAppear ==
  /\ delegate = "stats" /\ phone # "dead"
  /\ delegate' = "over"
  /\ disturbed' = (disturbed \/ judging # {})
  /\ UNCHANGED <<now, acts, phone, inbox, mark, judging, running, tasks, recorded,
                 notified, cause, excused, untimely>>

(* Mutants of Judgement: the block runs at once; the delay in nanoseconds. *)
JudgementAtOnce(e) == [due |-> now, why |-> e.why, no |-> e.no]
JudgementTooLate(e) == [due |-> now + 500000000, why |-> e.why, no |-> e.no]
Judgement(e) == [due |-> now + JUDGE_DELAY, why |-> e.why, no |-> e.no]

(* Mutant of MarkAfterLeave: the flag is not set at a departure.           *)
MarkKept == mark
MarkAfterLeave == TRUE

(* applicationDidEnterBackground, then appBackgrounded of the delegate.    *)
AppBackgrounded ==
  \E e \in inbox :
    /\ e.what = "background" /\ phone # "dead"
    /\ inbox' = inbox \ {e}
    /\ IF delegate = "stats"
         THEN /\ mark' = MarkAfterLeave
              /\ judging' = judging \cup {Judgement(e)}
              /\ tasks' = tasks \cup {e.no}
              /\ disturbed' = (disturbed \/ judging # {})
         ELSE UNCHANGED <<mark, judging, tasks, disturbed>>
    /\ UNCHANGED <<now, acts, phone, delegate, running, recorded, notified, cause, excused,
                 untimely>>

(* The background event of the same act is still under way.                *)
Outrun(e) == \E b \in inbox : b.what = "background" /\ b.no = e.no

(* displayStatusChanged, then deviceLocked of the delegate.                *)
DeviceLocked ==
  \E e \in inbox :
    /\ e.what = "lock" /\ phone # "dead"
    /\ "reorder" \in Faults \/ ~Outrun(e)
    /\ inbox' = inbox \ {e}
    /\ mark' = IF delegate = "stats" THEN FALSE ELSE mark
    /\ excused' = (excused \/ (delegate = "stats" /\ judging # {}))
    /\ untimely' = (untimely \/ Outrun(e))
    /\ UNCHANGED <<now, acts, phone, delegate, judging, running, tasks, recorded,
                   notified, cause, disturbed>>

-----------------------------------------------------------------------------
(* The judgement.                                                          *)

(* Mutant of TasksAfterDrop: the else branch forgets endBackgroundTask.    *)
TasksKept(j) == tasks
TasksAfterDrop(j) == tasks \ {j.no}

(* A judged departure starts a transaction iff the flag still stands;      *)
(* otherwise its background task ends.                                     *)
JudgeBackground ==
  \E j \in judging :
    /\ now >= j.due /\ phone # "dead"
    /\ judging' = judging \ {j}
    /\ IF mark THEN running' = running \cup {j} /\ tasks' = tasks
               ELSE running' = running /\ tasks' = TasksAfterDrop(j)
    /\ UNCHANGED <<now, acts, phone, inbox, delegate, mark, recorded, notified, cause,
                   disturbed, excused, untimely>>

(* The completion block notifies and ends the task, committed or not.      *)
TransactionDone(ok) ==
  \E j \in running :
    /\ phone # "dead" /\ (ok \/ "error" \in Faults)
    /\ running' = running \ {j}
    /\ tasks' = tasks \ {j.no}
    /\ recorded' = (recorded \/ ok)
    /\ cause' = IF ok /\ ~recorded THEN j.why ELSE cause
    /\ notified' = TRUE
    /\ UNCHANGED <<now, acts, phone, inbox, delegate, mark, judging, disturbed, excused, untimely>>

(* With no network the transaction's task outlives the time iOS grants, the*)
(* expiration handler is empty, and iOS ends the app.                      *)
Expire ==
  /\ "offline" \in Faults /\ running # {} /\ phone \in {"away", "locked"}
  /\ phone' = "dead"
  /\ inbox' = {} /\ judging' = {} /\ running' = {} /\ tasks' = {}
  /\ UNCHANGED <<now, acts, delegate, mark, recorded, notified, cause, disturbed, excused, untimely>>

-----------------------------------------------------------------------------
Next ==
  \/ GoHome \/ Lock \/ ComeBack \/ Tick \/ StatsAppear \/ ResultsAppear
  \/ AppBackgrounded \/ DeviceLocked \/ JudgeBackground
  \/ \E ok \in BOOLEAN : TransactionDone(ok)
  \/ Expire

Spec == Init /\ [][Next]_vars

(* iOS delivers its events, the background task lets the block run, and    *)
(* transactions end; nothing is promised of the user.                      *)
FairSpec ==
  /\ Spec
  /\ WF_vars(Tick) /\ WF_vars(AppBackgrounded) /\ WF_vars(DeviceLocked)
  /\ WF_vars(JudgeBackground) /\ WF_vars(TransactionDone(TRUE))

-----------------------------------------------------------------------------
Reasons == {"home", "lock"}

(* Every variable has its type.                                            *)
TypeOK ==
  /\ now \in 0 .. MaxNow /\ acts \in 0 .. MaxActs
  /\ phone \in {"active", "away", "locked", "dead"}
  /\ inbox \subseteq [what : {"background", "lock"}, why : Reasons,
                      at : 0 .. MaxNow, by : 0 .. MaxNow + LockDelay, no : 0 .. MaxActs]
  /\ delegate \in {"none", "stats", "over"}
  /\ tasks \subseteq 0 .. MaxActs
  /\ judging \cup running \subseteq [due : 1 .. MaxNow + 1, why : Reasons, no : 0 .. MaxActs]
  /\ cause \in {"none"} \cup Reasons
  /\ {mark, recorded, notified, disturbed, excused, untimely} \subseteq BOOLEAN

(* A player who only locks the phone is not recorded, if lockcomplete comes*)
(* after the background event and within the wait of appBackgrounded       *)
(* (RoomStatsViewController.m:109), unless a second departure set the one  *)
(* flag again while the first was still being judged, or the results       *)
(* screen resigned as delegate (ResultsViewController.m:22) before the     *)
(* lock was reported.                                                      *)
LockIsNoLeave == cause = "lock" => disturbed \/ untimely

(* A player who goes to the home screen during the game ends up recorded,  *)
(* unless a lock was reported during the half second, the app died, or     *)
(* transactions may fail and one did.                                      *)
HomeIsCharged ==
  (\E j \in judging : j.why = "home")
    ~> \/ recorded \/ excused \/ phone = "dead"
       \/ "error" \in Faults /\ notified

(* Every background task that a departure begins is ended                  *)
(* (RoomStatsViewController.m:106, 130, 134).                              *)
TasksEnd == \A n \in 0 .. MaxActs : (n \in tasks) ~> (n \notin tasks)
=============================================================================
