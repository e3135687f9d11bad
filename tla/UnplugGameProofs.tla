-------------------------- MODULE UnplugGameProofs --------------------------
(* Proofs about UnplugGame for every value of its constants.  The type     *)
(* invariant is inductive.  NoFalseAccusation is not: a verdict is read from*)
(* a record, the record from a queued mark, the mark from a judgement.  The*)
(* invariant LeaveEvidence follows the player's departure along that chain.*)
(* RoomSurvives and FirstLeaveStands speak of single steps, but the server *)
(* applies a create by replacing the whole room, so they hold only because *)
(* no create is ever queued for a room that exists or that another write   *)
(* is about: RoomsBornOnce.  RidStable is about the room that a phone's    *)
(* screen shows, which stays currentRID because no completion block is     *)
(* left that could move it: Settled.                                       *)
EXTENDS UnplugGame, DataLemmas, SequenceTheorems, TLAPS

(* A phone's clock reads a time that the database may hold.                *)
LEMMA ClockIsTime ==
  ASSUME TypeOK, NEW d \in Devices
  PROVE  Clock(d) \in Stamps /\ Clock(d) \in TimeValues
<1>1. now + Skew[d] \in Epoch + Skew[d] .. MaxNow + Skew[d]
  BY TimeAssumption DEF TypeOK
<1> QED
  BY <1>1 DEF Clock, Stamps, TimeValues

(* A group of variables that a step leaves alone keeps its type.           *)
LEMMA UntouchedGroups ==
  ASSUME TypeOK
  PROVE  /\ UNCHANGED serverVars => ServerOK'
         /\ UNCHANGED netVars => NetOK'
         /\ UNCHANGED navVars => NavOK' /\ RoomOnScreen'
         /\ UNCHANGED statsVars => StatsOK'
         /\ UNCHANGED leaveVars => LeaveOK'
         /\ UNCHANGED historyVars => HistoryOK'
         /\ UNCHANGED now => (now \in Epoch .. MaxNow)'
         /\ UNCHANGED taps => (taps \in [Devices -> Nat])'
BY DEF TypeOK, ServerOK, NetOK, NavOK, StatsOK, LeaveOK, HistoryOK, RoomOnScreen,
       serverVars, netVars, navVars, statsVars, leaveVars, historyVars

(* A tap keeps the users' counters natural numbers.                        *)
LEMMA TapTyped ==
  ASSUME TypeOK, NEW d \in Devices, Tap(d)
  PROVE  (taps \in [Devices -> Nat])'
BY DEF Tap, TypeOK

(* Queueing a well-typed write keeps the queues well typed.                *)
LEMMA SendTyped ==
  ASSUME NetOK, NEW d \in Devices, NEW w \in Writes, Send(d, w), UNCHANGED acks
  PROVE  NetOK'
<1>1. Append(outbox[d], w) \in Seq(Writes)
  BY DEF NetOK
<1> QED
  BY <1>1 DEF NetOK, Send

(* What the server or a completion block takes off a queue is typed.       *)
LEMMA HeadTyped ==
  ASSUME NetOK, NEW d \in Devices
  PROVE  /\ outbox[d] # <<>> => Head(outbox[d]) \in Writes /\ Tail(outbox[d]) \in Seq(Writes)
         /\ acks[d] # <<>> => Head(acks[d]) \in Acks /\ Tail(acks[d]) \in Seq(Acks)
BY DEF NetOK

(* Every queued write is well typed.                                       *)
LEMMA PendingTyped ==
  ASSUME NetOK, NEW d \in Devices
  PROVE  \A i \in DOMAIN outbox[d] : outbox[d][i] \in Writes
<1>1. outbox[d] \in Seq(Writes)
  BY DEF NetOK
<1> QED
  BY <1>1

(* Taking a write off its queue, acknowledged or not, keeps both queues    *)
(* well typed.                                                             *)
LEMMA AppliedTyped ==
  ASSUME NetOK, NEW d \in Devices, outbox[d] # <<>>, Applied(d),
         \/ UNCHANGED acks
         \/ /\ Head(outbox[d]).op \in {"create", "join"}
            /\ \E ok \in BOOLEAN : Acknowledged(d, ok)
  PROVE  NetOK'
<1>1. (outbox \in [Devices -> Seq(Writes)])'
  BY HeadTyped DEF Applied, NetOK
<1>2. CASE UNCHANGED acks
  BY <1>1, <1>2 DEF NetOK
<1>3. ASSUME Head(outbox[d]).op \in {"create", "join"},
             NEW ok \in BOOLEAN, Acknowledged(d, ok)
      PROVE  NetOK'
  <2>1. Ack(Head(outbox[d]), ok) \in Acks
    BY <1>3, HeadTyped DEF Ack, Acks, Writes
  <2>2. Append(acks[d], Ack(Head(outbox[d]), ok)) \in Seq(Acks)
    BY <2>1 DEF NetOK
  <2> QED
    BY <1>1, <1>3, <2>2 DEF Acknowledged, NetOK
<1> QED
  BY <1>2, <1>3

(* The initial state is well typed.                                        *)
LEMMA TypeInit == Init => TypeOK
BY TimeAssumption
   DEF Init, TypeOK, ServerOK, NetOK, NavOK, StatsOK, LeaveOK, HistoryOK, RoomOnScreen,
       Records, NoRecord, NoInfo, NoVerdict, TimeValues, LimitValues, BetValues,
       RoomOrNone, ScreenNames

(* Steps that only change the screen on top.                               *)
LEMMA TypeNavigate ==
  ASSUME TypeOK, NEW d \in Devices,
         OpenSetup(d) \/ BackTUI(d) \/ ScanQRCode(d) \/ Dismiss(d) \/ Relaunch(d)
  PROVE  TypeOK'
<1>1. NavOK' /\ RoomOnScreen'
  BY DEF OpenSetup, BackTUI, ScanQRCode, Dismiss, Relaunch, TypeOK, NavOK, RoomOnScreen,
         ScreenNames
<1>2. (taps \in [Devices -> Nat])'
  BY TapTyped, UntouchedGroups DEF OpenSetup, BackTUI, ScanQRCode, Dismiss, Relaunch
<1>3. UNCHANGED <<now, serverVars, netVars, statsVars, leaveVars, historyVars>>
  BY DEF OpenSetup, BackTUI, ScanQRCode, Dismiss, Relaunch
<1> QED
  BY <1>1, <1>2, <1>3, UntouchedGroups DEF TypeOK

(* Steps of a user that queue a write.                                     *)
LEMMA TypeSend ==
  ASSUME TypeOK, NEW d \in Devices,
         \/ \E r \in Rooms, limit \in Limits, b \in Bets : CreateRoom(d, r, limit, b)
         \/ \E r \in RoomIds : JoinScanned(d, r)
         \/ StartRoom(d)
  PROVE  TypeOK'
<1>1. ASSUME NEW r \in Rooms, NEW limit \in Limits, NEW b \in Bets,
             CreateRoom(d, r, limit, b)
      PROVE  TypeOK'
  <2>1. Write("create", r, 0, limit, b, setupNo[d]) \in Writes
    BY DEF Write, Writes, TimeValues, LimitValues, BetValues, RoomIds, TypeOK, NavOK
  <2>2. NetOK'
    BY <1>1, <2>1, SendTyped DEF CreateRoom, TypeOK
  <2>3. HistoryOK'
    BY <1>1 DEF CreateRoom, UnderWay, TypeOK, HistoryOK
  <2> QED
    BY <1>1, <2>2, <2>3, TapTyped, UntouchedGroups DEF CreateRoom, TypeOK
<1>2. ASSUME NEW r \in RoomIds, JoinScanned(d, r)
      PROVE  TypeOK'
  <2>1. Write("join", r, 0, 0, 0, 0) \in Writes
    BY DEF Write, Writes, TimeValues, LimitValues, BetValues
  <2>2. NetOK'
    BY <1>2, <2>1, SendTyped DEF JoinScanned, TypeOK
  <2>3. HistoryOK'
    BY <1>2 DEF JoinScanned, UnderWay, TypeOK, HistoryOK
  <2>4. NavOK' /\ RoomOnScreen'
    BY <1>2 DEF JoinScanned, TypeOK, NavOK, RoomOnScreen, ScreenNames
  <2> QED
    BY <1>2, <2>2, <2>3, <2>4, TapTyped, UntouchedGroups DEF JoinScanned, TypeOK
<1>3. CASE StartRoom(d)
  <2>1. rid[d] \in RoomIds /\ Clock(d) \in Stamps /\ Clock(d) \in TimeValues
    BY <1>3, ClockIsTime DEF StartRoom, TypeOK, RoomOnScreen
  <2>2. Write("start", rid[d], Clock(d), 0, 0, 0) \in Writes
    BY <2>1 DEF Write, Writes, LimitValues, BetValues
  <2>3. NetOK'
    BY <1>3, <2>2, SendTyped DEF StartRoom, TypeOK
  <2>4. HistoryOK'
    BY <1>3, <2>1 DEF StartRoom, TypeOK, HistoryOK
  <2> QED
    BY <1>3, <2>3, <2>4, TapTyped, UntouchedGroups DEF StartRoom, TypeOK
<1> QED
  BY <1>1, <1>2, <1>3

(* The server applies or refuses a write.                                  *)
LEMMA TypeServer ==
  ASSUME TypeOK, NEW d \in Devices, ServerActs(d) \/ RejectWrite(d)
  PROVE  TypeOK'
<1> DEFINE w == Head(outbox[d])
<1>1. outbox[d] # <<>> /\ w \in Writes
  BY HeadTyped DEF ServerActs, CommitCreate, CommitJoin, CommitStart, CommitMark,
                   NextWrite, RejectWrite, TypeOK
<1>2. NetOK'
  BY <1>1, AppliedTyped DEF ServerActs, CommitCreate, CommitJoin, CommitStart, CommitMark,
                   NextWrite, RejectWrite, TypeOK
<1>3. CASE CommitCreate(d)
  <2>1. (rooms \in [RoomIds -> Records])'
    BY <1>1, <1>3 DEF CommitCreate, TypeOK, ServerOK, Records, Writes, TimeValues
  <2>2. (users \in [RoomIds -> [Devices -> TimeValues]])'
    BY <1>1, <1>3 DEF CommitCreate, OnlyMember, TypeOK, ServerOK, Writes, TimeValues
  <2> QED
    BY <1>2, <1>3, <2>1, <2>2, UntouchedGroups DEF CommitCreate, ServerOK, TypeOK
<1>4. CASE CommitJoin(d)
  <2>1. ServerOK'
    BY <1>1, <1>4 DEF CommitJoin, AlsoMember, TypeOK, ServerOK, Writes, TimeValues
  <2> QED
    BY <1>2, <1>4, <2>1, UntouchedGroups DEF CommitJoin, TypeOK
<1>5. CASE CommitStart(d)
  <2>1. ServerOK'
    BY <1>1, <1>5 DEF CommitStart, TypeOK, ServerOK, Writes, Records
  <2> QED
    BY <1>2, <1>5, <2>1, UntouchedGroups DEF CommitStart, TypeOK
<1>6. CASE CommitMark(d)
  <2>1. TimeAfterMark(users[w.room][d], w.at) \in TimeValues
    BY <1>1 DEF TimeAfterMark, TypeOK, ServerOK, Writes
  <2>2. ServerOK'
    BY <1>1, <1>6, <2>1 DEF CommitMark, TypeOK, ServerOK, Writes
  <2> QED
    BY <1>2, <1>6, <2>2, UntouchedGroups DEF CommitMark, TypeOK
<1>7. CASE RejectWrite(d)
  BY <1>2, <1>7, UntouchedGroups DEF RejectWrite, TypeOK
<1> QED
  BY <1>3, <1>4, <1>5, <1>6, <1>7 DEF ServerActs

(* The toResults segue keeps what it writes well typed.                    *)
LEMMA ShowResultsTyped ==
  ASSUME StatsOK, NEW d \in Devices, NEW p \in {Nobody} \cup Devices,
         NEW r \in RoomOrNone, ShowResults(d, p, r)
  PROVE  /\ (obs \in [Devices -> SUBSET RoomIds])'
         /\ (verdict \in [Devices -> [loser : {Null, Nobody} \cup Devices, bet : BetValues,
                                      room : RoomOrNone]])'
<1> DEFINE v == [loser |-> p, bet |-> bet[d], room |-> r]
<1>1. v \in [loser : {Null, Nobody} \cup Devices, bet : BetValues, room : RoomOrNone]
  BY DEF StatsOK
<1>2. CASE screen[d] = "stats"
  <2>1. verdict' = [verdict EXCEPT ![d] = v]
    BY <1>2 DEF ShowResults
  <2>2. obs' = [obs EXCEPT ![d] = @ \ {rid[d]}]
    BY <1>2 DEF ShowResults
  <2> HIDE DEF v
  <2> QED
    BY <1>1, <2>1, <2>2 DEF StatsOK
<1>3. CASE screen[d] # "stats"
  BY <1>3 DEF ShowResults, StatsOK
<1> QED
  BY <1>2, <1>3

(* Completion blocks, observers, timers and judgements.                    *)
LEMMA TypePhone ==
  ASSUME TypeOK, NEW d \in Devices, PhoneActs(d)
  PROVE  TypeOK'
<1>1. CASE CompletionRuns(d)
  <2> DEFINE a == Head(acks[d])
  <2>1. acks[d] # <<>> /\ a \in Acks /\ a.room \in RoomIds /\ Tail(acks[d]) \in Seq(Acks)
    BY <1>1, HeadTyped DEF CompletionRuns, TypeOK, Acks
  <2>2. NetOK'
    BY <1>1, <2>1 DEF CompletionRuns, TypeOK, NetOK
  <2>3. (rid \in [Devices -> RoomOrNone])' /\ (setupNo \in [Devices -> Nat])'
    BY <1>1, <2>1 DEF CompletionRuns, TypeOK, NavOK, RoomOrNone
  <2>4. CASE /\ a.ok /\ OnTop(d, a)
             /\ \E b \in Bets \cup {Null} : OpenLobby(d, a, b)
    <3>1. screen[d] \in {"setup", "menu"}
      BY <2>4 DEF OnTop
    <3>2. NavOK' /\ StatsOK'
      BY <1>1, <2>1, <2>3, <2>4, <3>1
         DEF CompletionRuns, OpenLobby, TypeOK, NavOK, StatsOK, ScreenNames, RoomOrNone, BetValues
    <3>3. RoomOnScreen'
      BY <1>1, <2>1, <2>4 DEF CompletionRuns, OpenLobby, TypeOK, NavOK, RoomOnScreen
    <3> QED
      BY <1>1, <2>2, <3>2, <3>3, UntouchedGroups DEF CompletionRuns, TypeOK
  <2>5. CASE UNCHANGED <<screen, parent, lobbyRid, bet>>
    <3>1. NavOK' /\ StatsOK'
      BY <1>1, <2>3, <2>5 DEF CompletionRuns, TypeOK, NavOK, StatsOK
    <3>2. RoomOnScreen'
      BY <1>1, <2>1, <2>5 DEF CompletionRuns, TypeOK, NavOK, RoomOnScreen
    <3> QED
      BY <1>1, <2>2, <3>1, <3>2, UntouchedGroups DEF CompletionRuns, TypeOK
  <2> QED
    BY <1>1, <2>4, <2>5 DEF CompletionRuns
<1>2. CASE LobbyObserves(d)
  <2>1. rid[d] \in RoomIds
    BY <1>2 DEF LobbyObserves, TypeOK, RoomOnScreen
  <2>2. NavOK' /\ RoomOnScreen'
    BY <1>2 DEF LobbyObserves, TypeOK, NavOK, RoomOnScreen, ScreenNames
  <2>3. StatsOK'
    BY <1>2, <2>1 DEF LobbyObserves, SwapObservers, TypeOK, StatsOK, RoomOrNone
  <2> QED
    BY <1>2, <2>2, <2>3, UntouchedGroups DEF LobbyObserves, TypeOK
<1>3. CASE InfoArrives(d)
  <2> DEFINE r == infoReq[d]
  <2>1. r \in RoomIds
    BY <1>3 DEF InfoArrives, TypeOK, StatsOK, RoomOrNone
  <2>2. /\ rooms[r].timeStart \in TimeValues
        /\ rooms[r].timeLimit \in LimitValues
        /\ rooms[r].betAmount \in BetValues
    BY <2>1 DEF TypeOK, ServerOK, Records
  <2>3. \A i \in DOMAIN outbox[d] : outbox[d][i].at \in TimeValues
    BY PendingTyped DEF TypeOK, Writes
  <2>4. StartRead(d, r) \subseteq TimeValues
    <3> DEFINE mine == {i \in DOMAIN outbox[d] :
                          outbox[d][i].op = "start" /\ outbox[d][i].room = r}
    <3>1. CASE mine = {}
      BY <2>2, <3>1 DEF StartRead
    <3>2. CASE mine # {}
      <4> DEFINE last == {k \in mine : \A j \in mine : j <= k}
      <4>1. StartRead(d, r) = {outbox[d][i].at : i \in last}
        BY <3>2 DEF StartRead
      <4>2. \A i \in last : outbox[d][i].at \in TimeValues
        BY <2>3
      <4> HIDE DEF last
      <4> QED
        BY <4>1, <4>2
    <3> QED
      BY <3>1, <3>2
  <2>5. StatsOK'
    BY <1>3, <2>1, <2>2, <2>4 DEF InfoArrives, BetRead, TypeOK, StatsOK, RoomOrNone
  <2> QED
    BY <1>3, <2>5, UntouchedGroups DEF InfoArrives, TypeOK
<1>4. CASE UpdateTimer(d)
  <2>1. NavOK' /\ RoomOnScreen'
    BY <1>4 DEF UpdateTimer, ShowResults, TypeOK, NavOK, RoomOnScreen, ScreenNames
  <2>2. StatsOK'
    <3>1. info[d].room \in RoomOrNone
      BY DEF TypeOK, StatsOK
    <3> QED
      BY <1>4, <3>1, ShowResultsTyped DEF UpdateTimer, TypeOK, StatsOK
  <2> QED
    BY <1>4, <2>1, <2>2, UntouchedGroups DEF UpdateTimer, TypeOK
<1>5. CASE StatsObserves(d)
  <2>1. PICK r \in obs[d], p \in Devices :
          /\ screen[d] = "stats" /\ ShowResults(d, p, r)
          /\ UNCHANGED <<now, taps, serverVars, netVars, parent, setupNo, rid, lobbyRid,
                         infoReq, info, timerOn, bet, leaveVars, historyVars>>
    BY <1>5 DEF StatsObserves
  <2>2. r \in RoomIds
    BY DEF TypeOK, StatsOK
  <2>3. NavOK' /\ RoomOnScreen'
    BY <2>1 DEF ShowResults, TypeOK, NavOK, RoomOnScreen, ScreenNames
  <2>4. StatsOK'
    BY <2>1, <2>2, ShowResultsTyped DEF TypeOK, StatsOK, RoomOrNone
  <2> QED
    BY <2>1, <2>3, <2>4, UntouchedGroups DEF TypeOK
<1>6. CASE JudgeBackground(d)
  <2>1. PICK j \in judging[d] :
          /\ judging' = [judging EXCEPT ![d] = @ \ {j}]
          /\ IF mark[d] THEN Send(d, MarkFor(d, j)) ELSE outbox' = outbox
          /\ UNCHANGED <<now, taps, serverVars, acks, navVars, statsVars, mark, historyVars>>
    BY <1>6 DEF JudgeBackground
  <2>2. MarkFor(d, j) \in Writes
    BY ClockIsTime DEF MarkFor, Write, Writes, LimitValues, BetValues, TypeOK, LeaveOK
  <2>3. NetOK'
    BY <2>1, <2>2, SendTyped DEF TypeOK, NetOK
  <2>4. LeaveOK'
    BY <2>1 DEF TypeOK, LeaveOK
  <2> QED
    BY <2>1, <2>3, <2>4, UntouchedGroups DEF TypeOK
<1> QED
  BY <1>1, <1>2, <1>3, <1>4, <1>5, <1>6 DEF PhoneActs

(* The calls of the AppDelegate to the stats screen.                       *)
LEMMA TypeLeaving ==
  ASSUME TypeOK, NEW d \in Devices, AppBackgrounded(d) \/ DeviceLocked(d)
  PROVE  TypeOK'
<1>1. (taps \in [Devices -> Nat])'
  BY TapTyped DEF AppBackgrounded, DeviceLocked
<1>2. CASE AppBackgrounded(d)
  <2>1. rid[d] \in RoomIds /\ now + JUDGE_DELAY \in Nat
    BY <1>2, TimeAssumption DEF AppBackgrounded, TypeOK, RoomOnScreen, JUDGE_DELAY
  <2>2. LeaveOK' /\ HistoryOK'
    BY <1>2, <2>1 DEF AppBackgrounded, TypeOK, LeaveOK, HistoryOK
  <2> QED
    BY <1>1, <1>2, <2>2, UntouchedGroups DEF AppBackgrounded, TypeOK
<1>3. CASE DeviceLocked(d)
  <2>1. LeaveOK'
    BY <1>3 DEF DeviceLocked, TypeOK, LeaveOK
  <2> QED
    BY <1>1, <1>3, <2>1, UntouchedGroups DEF DeviceLocked, TypeOK
<1> QED
  BY <1>2, <1>3

(* A process that ends resets its phone to typed values.                   *)
LEMMA TypeProcessEnds ==
  ASSUME TypeOK, NEW d \in Devices, Kill(d) \/ CancelScan(d)
  PROVE  TypeOK'
<1>1. ProcessEnds(d) /\ (taps \in [Devices -> Nat])'
  BY TapTyped, UntouchedGroups DEF Kill, CancelScan
<1>2. NetOK'
  BY <1>1 DEF ProcessEnds, TypeOK, NetOK
<1>3. NavOK' /\ RoomOnScreen'
  BY <1>1 DEF ProcessEnds, TypeOK, NavOK, RoomOnScreen, ScreenNames, RoomOrNone
<1>4. StatsOK'
  BY <1>1 DEF ProcessEnds, TypeOK, StatsOK, NoInfo, NoVerdict, RoomOrNone, TimeValues,
              LimitValues, BetValues
<1>5. LeaveOK' /\ HistoryOK'
  BY <1>1 DEF ProcessEnds, TypeOK, LeaveOK, HistoryOK, RoomOnScreen
<1> QED
  BY <1>1, <1>2, <1>3, <1>4, <1>5, UntouchedGroups DEF ProcessEnds, TypeOK

(* Every step preserves the type invariant, which is inductive as it stands.*)
LEMMA TypeNext == TypeOK /\ [Next]_vars => TypeOK'
<1> SUFFICES ASSUME TypeOK, [Next]_vars PROVE TypeOK'
  OBVIOUS
<1>1. CASE Tick
  <2>1. (now \in Epoch .. MaxNow)'
    BY <1>1, TimeAssumption DEF Tick, TypeOK
  <2> QED
    BY <1>1, <2>1, UntouchedGroups DEF Tick, TypeOK
<1>2. CASE UNCHANGED vars
  BY <1>2, UntouchedGroups DEF vars, TypeOK
<1>3. ASSUME NEW d \in Devices, UserActs(d)
      PROVE  TypeOK'
  BY <1>3, TypeNavigate, TypeSend, TypeLeaving, TypeProcessEnds DEF UserActs
<1>4. ASSUME NEW d \in Devices,
             ServerActs(d) \/ PhoneActs(d) \/ RejectWrite(d) \/ Kill(d)
      PROVE  TypeOK'
  BY <1>4, TypeServer, TypePhone, TypeProcessEnds
<1> QED
  BY <1>1, <1>2, <1>3, <1>4 DEF Next

(* Every variable keeps its type, and no screen of a game ever runs with a *)
(* nil currentRID, whatever the players, the network and the process       *)
(* deaths do.                                                              *)
THEOREM TypeCorrect == Spec => []TypeOK
BY TypeInit, TypeNext, PTL DEF Spec

-----------------------------------------------------------------------------
(* NoFalseAccusation.  Evidence of a leave exists in four places on its way*)
(* to a results screen, and in each of them the player has left.           *)

JudgedDeparted == \A d \in Devices : \A j \in judging[d] : j.room \in departed[d]
MarkDeparted == \A d \in Devices : \A i \in DOMAIN outbox[d] :
                  outbox[d][i].op = "mark" => outbox[d][i].room \in departed[d]
RecordDeparted == \A r \in RoomIds, d \in Devices :
                    users[r][d] \notin {Null, 0} => r \in departed[d]

LeaveEvidence ==
  TypeOK /\ JudgedDeparted /\ MarkDeparted /\ RecordDeparted /\ NoFalseAccusation

(* The values that stand for no loser are no players.                      *)
LEMMA NotAPlayer == Null \notin Devices /\ Nobody \notin Devices
BY DevicesAssumption DEF Null, Nobody

(* Initially nobody is judged, marked, recorded or named.                  *)
LEMMA EvidenceInit == Init => LeaveEvidence
<1> SUFFICES ASSUME Init PROVE LeaveEvidence
  OBVIOUS
<1>1. TypeOK
  BY TypeInit
<1> QED
  BY <1>1, NotAPlayer
     DEF Init, LeaveEvidence, JudgedDeparted, MarkDeparted, RecordDeparted,
         NoFalseAccusation, NoVerdict

(* A step that leaves alone what the evidence is about.                    *)
LEMMA EvidenceUntouched ==
  ASSUME LeaveEvidence, UNCHANGED <<users, outbox, judging, verdict, departed>>
  PROVE  (JudgedDeparted /\ MarkDeparted /\ RecordDeparted /\ NoFalseAccusation)'
BY DEF LeaveEvidence, JudgedDeparted, MarkDeparted, RecordDeparted, NoFalseAccusation

(* Appending a write that is no unjustified mark keeps the queue justified.*)
LEMMA MarkSent ==
  ASSUME TypeOK, MarkDeparted, NEW d \in Devices, NEW w \in Writes, Send(d, w),
         w.op = "mark" => w.room \in departed[d], UNCHANGED departed
  PROVE  MarkDeparted'
<1> SUFFICES ASSUME NEW e \in Devices, NEW i \in DOMAIN outbox'[e],
                    outbox'[e][i].op = "mark"
             PROVE  outbox'[e][i].room \in departed[e]
  BY DEF MarkDeparted
<1>1. outbox[d] \in Seq(Writes) /\ outbox \in [Devices -> Seq(Writes)]
  BY DEF TypeOK, NetOK
<1>2. CASE e # d
  BY <1>1, <1>2 DEF MarkDeparted, Send
<1>3. CASE e = d
  <2>1. outbox'[d] = Append(outbox[d], w)
    BY <1>1 DEF Send
  <2>2. CASE i = Len(outbox[d]) + 1
    BY <1>1, <1>3, <2>1, <2>2
  <2>3. CASE i \in DOMAIN outbox[d]
    BY <1>1, <1>3, <2>1, <2>3 DEF MarkDeparted
  <2> QED
    BY <1>1, <1>3, <2>1, <2>2, <2>3
<1> QED
  BY <1>2, <1>3

(* So does taking the head off the queue.                                  *)
LEMMA MarkApplied ==
  ASSUME TypeOK, MarkDeparted, NEW d \in Devices, outbox[d] # <<>>, Applied(d),
         UNCHANGED departed
  PROVE  MarkDeparted'
<1> SUFFICES ASSUME NEW e \in Devices, NEW i \in DOMAIN outbox'[e],
                    outbox'[e][i].op = "mark"
             PROVE  outbox'[e][i].room \in departed[e]
  BY DEF MarkDeparted
<1>1. outbox[d] \in Seq(Writes) /\ outbox \in [Devices -> Seq(Writes)]
  BY DEF TypeOK, NetOK
<1>2. CASE e # d
  BY <1>1, <1>2 DEF MarkDeparted, Applied
<1>3. CASE e = d
  <2>1. outbox'[d] = Tail(outbox[d])
    BY <1>1 DEF Applied
  <2>2. i + 1 \in DOMAIN outbox[d] /\ outbox'[d][i] = outbox[d][i + 1]
    BY <1>1, <1>3, <2>1
  <2> QED
    BY <1>3, <2>2 DEF MarkDeparted
<1> QED
  BY <1>2, <1>3

(* The server moves a mark from a queue to the record it is for.           *)
LEMMA EvidenceServer ==
  ASSUME LeaveEvidence, NEW d \in Devices, ServerActs(d) \/ RejectWrite(d)
  PROVE  (JudgedDeparted /\ MarkDeparted /\ RecordDeparted /\ NoFalseAccusation)'
<1> DEFINE w == Head(outbox[d])
<1>1. outbox[d] # <<>> /\ w \in Writes /\ Applied(d)
  BY HeadTyped DEF LeaveEvidence, TypeOK, ServerActs, CommitCreate, CommitJoin, CommitStart,
                   CommitMark, NextWrite, RejectWrite
<1>2. UNCHANGED <<judging, departed, verdict>>
  BY DEF ServerActs, CommitCreate, CommitJoin, CommitStart, CommitMark, RejectWrite,
         leaveVars, historyVars, statsVars
<1>3. MarkDeparted'
  BY <1>1, <1>2, MarkApplied DEF LeaveEvidence
<1>4. JudgedDeparted' /\ NoFalseAccusation'
  BY <1>2 DEF LeaveEvidence, JudgedDeparted, NoFalseAccusation
<1>5. users \in [RoomIds -> [Devices -> TimeValues]] /\ w.room \in RoomIds
  BY <1>1 DEF LeaveEvidence, TypeOK, ServerOK, Writes
<1>6. CASE CommitMark(d)
  <2>1. w.room \in departed[d]
    <3>1. outbox[d] \in Seq(Writes)
      BY DEF LeaveEvidence, TypeOK, NetOK
    <3>2. 1 \in DOMAIN outbox[d] /\ w = outbox[d][1] /\ w.op = "mark"
      BY <1>1, <1>6, <3>1 DEF CommitMark, NextWrite
    <3> QED
      BY <3>2 DEF LeaveEvidence, MarkDeparted
  <2>2. \A r \in RoomIds, p \in Devices :
          (r = w.room /\ p = d) \/ users'[r][p] = users[r][p]
    BY <1>5, <1>6 DEF CommitMark
  <2>3. RecordDeparted'
    BY <1>2, <2>1, <2>2 DEF LeaveEvidence, RecordDeparted
  <2> QED
    BY <1>3, <1>4, <2>3
<1>7. CASE CommitCreate(d) \/ CommitJoin(d) \/ CommitStart(d) \/ RejectWrite(d)
  <2>1. \A r \in RoomIds, p \in Devices :
          users'[r][p] \in {Null, 0} \/ users'[r][p] = users[r][p]
    <3>1. CASE CommitCreate(d)
      BY <1>5, <3>1 DEF CommitCreate, OnlyMember
    <3>2. CASE CommitJoin(d)
      BY <1>5, <3>2 DEF CommitJoin, AlsoMember
    <3>3. CASE CommitStart(d)
      <4>1. users' = users
        BY <3>3, Zenon DEF CommitStart
      <4> QED
        BY <4>1
    <3>4. CASE RejectWrite(d)
      BY <3>4 DEF RejectWrite, serverVars
    <3> QED
      BY <1>7, <3>1, <3>2, <3>3, <3>4
  <2>2. RecordDeparted'
    BY <1>2, <2>1 DEF LeaveEvidence, RecordDeparted
  <2> QED
    BY <1>3, <1>4, <2>2
<1> QED
  BY <1>6, <1>7 DEF ServerActs

(* What a stats screen sees of a player's time is a leave.                 *)
LEMMA SeenLossDeparted ==
  ASSUME LeaveEvidence, NEW d \in Devices, NEW r \in RoomIds, NEW p \in Devices,
         SeesLoss(d, r, p)
  PROVE  r \in departed[p]
<1>1. CASE p = d /\ OwnTimeWrites(d, r) # {}
  <2>1. PICK i \in OwnTimeWrites(d, r) : outbox[d][i].op = "mark"
    BY <1>1 DEF SeesLoss
  <2>2. i \in DOMAIN outbox[d] /\ outbox[d][i].room = r
    BY DEF OwnTimeWrites
  <2> QED
    BY <1>1, <2>1, <2>2 DEF LeaveEvidence, MarkDeparted
<1>2. CASE ~(p = d /\ OwnTimeWrites(d, r) # {})
  BY <1>2 DEF SeesLoss, LeaveEvidence, RecordDeparted
<1> QED
  BY <1>1, <1>2

(* A phone judges a departure or names a recorded player.                  *)
LEMMA EvidencePhone ==
  ASSUME LeaveEvidence, NEW d \in Devices, PhoneActs(d)
  PROVE  (JudgedDeparted /\ MarkDeparted /\ RecordDeparted /\ NoFalseAccusation)'
<1>1. CASE CompletionRuns(d) \/ LobbyObserves(d) \/ InfoArrives(d)
  BY <1>1, EvidenceUntouched
     DEF CompletionRuns, LobbyObserves, InfoArrives, serverVars, leaveVars, historyVars,
         netVars
<1>2. CASE UpdateTimer(d)
  <2>1. UNCHANGED <<users, outbox, judging, departed>>
    BY <1>2 DEF UpdateTimer, serverVars, netVars, leaveVars, historyVars
  <2>2. \A e \in Devices : verdict'[e] = verdict[e] \/ verdict'[e].loser = Nobody
    BY <1>2 DEF UpdateTimer, ShowResults, LeaveEvidence, TypeOK, StatsOK
  <2> QED
    BY <2>1, <2>2, NotAPlayer
       DEF LeaveEvidence, JudgedDeparted, MarkDeparted, RecordDeparted, NoFalseAccusation
<1>3. CASE StatsObserves(d)
  <2>1. PICK r \in obs[d], p \in Devices : LastLoser(d, r, p) /\ ShowResults(d, p, r)
    BY <1>3 DEF StatsObserves
  <2>2. UNCHANGED <<users, outbox, judging, departed>>
    BY <1>3 DEF StatsObserves, serverVars, netVars, leaveVars, historyVars
  <2>3. r \in RoomIds
    BY DEF LeaveEvidence, TypeOK, StatsOK
  <2>4. r \in departed[p]
    BY <2>1, <2>3, SeenLossDeparted DEF LastLoser
  <2>5. \A e \in Devices : \/ verdict'[e] = verdict[e]
                           \/ verdict'[e].loser = p /\ verdict'[e].room = r
    BY <2>1 DEF ShowResults, LeaveEvidence, TypeOK, StatsOK
  <2> QED
    BY <2>2, <2>4, <2>5
       DEF LeaveEvidence, JudgedDeparted, MarkDeparted, RecordDeparted, NoFalseAccusation
<1>4. CASE JudgeBackground(d)
  <2>1. PICK j \in judging[d] :
          /\ judging' = [judging EXCEPT ![d] = @ \ {j}]
          /\ IF mark[d] THEN Send(d, MarkFor(d, j)) ELSE outbox' = outbox
    BY <1>4 DEF JudgeBackground
  <2>2. UNCHANGED <<users, verdict, departed>>
    BY <1>4 DEF JudgeBackground, serverVars, statsVars, historyVars
  <2>3. j.room \in departed[d]
    BY DEF LeaveEvidence, JudgedDeparted
  <2>4. MarkFor(d, j) \in Writes /\ MarkFor(d, j).room = j.room
    BY ClockIsTime
       DEF MarkFor, Write, Writes, LimitValues, BetValues, LeaveEvidence, TypeOK, LeaveOK
  <2>5. MarkDeparted'
    BY <2>1, <2>2, <2>3, <2>4, MarkSent DEF LeaveEvidence, MarkDeparted
  <2>6. JudgedDeparted'
    BY <2>1, <2>2 DEF LeaveEvidence, JudgedDeparted, TypeOK, LeaveOK
  <2> QED
    BY <2>2, <2>5, <2>6 DEF LeaveEvidence, RecordDeparted, NoFalseAccusation
<1> QED
  BY <1>1, <1>2, <1>3, <1>4 DEF PhoneActs

(* What a user does: only a departure adds to what is judged, and it is    *)
(* entered in departed with it.                                            *)
LEMMA EvidenceUser ==
  ASSUME LeaveEvidence, NEW d \in Devices, UserActs(d) \/ Kill(d)
  PROVE  (JudgedDeparted /\ MarkDeparted /\ RecordDeparted /\ NoFalseAccusation)'
<1>1. CASE \/ OpenSetup(d) \/ BackTUI(d) \/ ScanQRCode(d) \/ Dismiss(d) \/ Relaunch(d)
           \/ DeviceLocked(d)
  BY <1>1, EvidenceUntouched
     DEF OpenSetup, BackTUI, ScanQRCode, Dismiss, Relaunch, DeviceLocked, serverVars,
         netVars, statsVars, leaveVars, historyVars
<1>2. ASSUME NEW w \in Writes, Send(d, w), w.op # "mark",
             UNCHANGED <<users, judging, verdict, departed>>
      PROVE  (JudgedDeparted /\ MarkDeparted /\ RecordDeparted /\ NoFalseAccusation)'
  <2>1. MarkDeparted'
    BY <1>2, MarkSent DEF LeaveEvidence
  <2> QED
    BY <1>2, <2>1 DEF LeaveEvidence, JudgedDeparted, RecordDeparted, NoFalseAccusation
<1>3. ASSUME NEW r \in Rooms, NEW limit \in Limits, NEW b \in Bets,
             CreateRoom(d, r, limit, b)
      PROVE  (JudgedDeparted /\ MarkDeparted /\ RecordDeparted /\ NoFalseAccusation)'
  <2>1. Write("create", r, 0, limit, b, setupNo[d]) \in Writes
    BY DEF Write, Writes, TimeValues, LimitValues, BetValues, RoomIds, LeaveEvidence,
           TypeOK, NavOK
  <2> QED
    BY <1>2, <1>3, <2>1 DEF CreateRoom, Write, serverVars, statsVars, leaveVars
<1>4. ASSUME NEW r \in RoomIds, JoinScanned(d, r)
      PROVE  (JudgedDeparted /\ MarkDeparted /\ RecordDeparted /\ NoFalseAccusation)'
  <2>1. Write("join", r, 0, 0, 0, 0) \in Writes
    BY DEF Write, Writes, TimeValues, LimitValues, BetValues
  <2> QED
    BY <1>2, <1>4, <2>1 DEF JoinScanned, Write, serverVars, statsVars, leaveVars
<1>5. CASE StartRoom(d)
  <2>1. rid[d] \in RoomIds /\ Clock(d) \in TimeValues
    BY <1>5, ClockIsTime DEF StartRoom, LeaveEvidence, TypeOK, RoomOnScreen
  <2>2. Write("start", rid[d], Clock(d), 0, 0, 0) \in Writes
    BY <2>1 DEF Write, Writes, LimitValues, BetValues
  <2> QED
    BY <1>2, <1>5, <2>2 DEF StartRoom, Write, serverVars, statsVars, leaveVars
<1>6. CASE AppBackgrounded(d)
  <2>1. UNCHANGED <<users, outbox, verdict>>
    BY <1>6 DEF AppBackgrounded, serverVars, netVars, statsVars
  <2>2. /\ departed' = [departed EXCEPT ![d] = @ \cup {rid[d]}]
        /\ judging' = [judging EXCEPT ![d] = @ \cup {[room |-> rid[d], due |-> now + JUDGE_DELAY]}]
    BY <1>6 DEF AppBackgrounded
  <2>3. \A e \in Devices : departed[e] \subseteq departed'[e]
    BY <2>2 DEF LeaveEvidence, TypeOK, HistoryOK
  <2>4. JudgedDeparted'
    BY <2>2, <2>3 DEF LeaveEvidence, JudgedDeparted, TypeOK, LeaveOK, HistoryOK
  <2> QED
    BY <2>1, <2>3, <2>4 DEF LeaveEvidence, MarkDeparted, RecordDeparted, NoFalseAccusation
<1>7. CASE CancelScan(d) \/ Kill(d)
  <2>1. ProcessEnds(d)
    BY <1>7 DEF CancelScan, Kill
  <2>2. UNCHANGED <<users, departed>>
    BY <2>1 DEF ProcessEnds, serverVars
  <2>3. MarkDeparted' /\ JudgedDeparted'
    BY <2>1, <2>2 DEF ProcessEnds, LeaveEvidence, TypeOK, NetOK, LeaveOK, MarkDeparted,
                      JudgedDeparted
  <2>4. NoFalseAccusation'
    BY <2>1, <2>2, NotAPlayer
       DEF ProcessEnds, LeaveEvidence, TypeOK, StatsOK, NoFalseAccusation, NoVerdict
  <2> QED
    BY <2>2, <2>3, <2>4 DEF LeaveEvidence, RecordDeparted
<1> QED
  BY <1>1, <1>3, <1>4, <1>5, <1>6, <1>7 DEF UserActs

(* Every step preserves the evidence.                                      *)
LEMMA EvidenceNext == LeaveEvidence /\ [Next]_vars => LeaveEvidence'
<1> SUFFICES ASSUME LeaveEvidence, [Next]_vars PROVE LeaveEvidence'
  OBVIOUS
<1>1. TypeOK'
  BY TypeNext DEF LeaveEvidence
<1>2. CASE Tick \/ UNCHANGED vars
  BY <1>1, <1>2, EvidenceUntouched
     DEF Tick, vars, serverVars, netVars, statsVars, leaveVars, historyVars, LeaveEvidence
<1>3. ASSUME NEW d \in Devices,
             UserActs(d) \/ ServerActs(d) \/ PhoneActs(d) \/ RejectWrite(d) \/ Kill(d)
      PROVE  LeaveEvidence'
  BY <1>1, <1>3, EvidenceUser, EvidenceServer, EvidencePhone DEF LeaveEvidence
<1> QED
  BY <1>2, <1>3 DEF Next

(* A results screen never names a player who did not leave the app during  *)
(* the game it was watching, for any number of players, rooms and presses, *)
(* with overlapping joins, refused writes and dying processes.             *)
THEOREM NobodyAccusedFalsely == Spec => []NoFalseAccusation
<1>1. LeaveEvidence => NoFalseAccusation
  BY DEF LeaveEvidence
<1> QED
  BY <1>1, EvidenceInit, EvidenceNext, PTL DEF Spec


-----------------------------------------------------------------------------
(* RoomSurvives and FirstLeaveStands.  Every create that is queued is for  *)
(* a room that nothing else in any queue or phone knows.                   *)

(* A created room has its record; a stray code never has to.               *)
Known(r) == r \in Rooms => rooms[r] # NoRecord

(* A write is ready to be applied: a create to a room not born yet, any    *)
(* other to a room that is, a start or a mark with a time of some clock.   *)
Fit(w) ==
  /\ w.op = "create" => w.room \in Rooms /\ rooms[w.room] = NoRecord
  /\ w.op # "create" => Known(w.room)
  /\ w.op \in {"start", "mark"} => w.at \in Stamps

WritesFit == \A d \in Devices : \A i \in DOMAIN outbox[d] : Fit(outbox[d][i])

SoleCreate ==
  \A d, e \in Devices : \A i \in DOMAIN outbox[d], k \in DOMAIN outbox[e] :
    outbox[d][i].op = "create" /\ outbox[e][k].room = outbox[d][i].room => d = e /\ i = k

AcksKnown == \A d \in Devices : \A i \in DOMAIN acks[d] :
               acks[d][i].ok => Known(acks[d][i].room)

PhonesKnown == \A d \in Devices : /\ Known(rid[d]) /\ Known(lobbyRid[d])
                                  /\ \A j \in judging[d] : Known(j.room)

MembersKnown == \A r \in RoomIds, p \in Devices : users[r][p] # Null => Known(r)

RoomsBornOnce ==
  TypeOK /\ WritesFit /\ SoleCreate /\ AcksKnown /\ PhonesKnown /\ MembersKnown

(* No clock reads as a missing value or as the @0 of a game not started.   *)
LEMMA StampsPositive == \A t \in Stamps : t \in Nat \ {0} /\ t # Null
<1> SUFFICES ASSUME NEW d \in Devices, NEW t \in Epoch + Skew[d] .. MaxNow + Skew[d]
             PROVE  t \in Nat \ {0} /\ t # Null
  BY DEF Stamps
<1>1. Epoch \in Nat \ {0} /\ MaxNow \in Nat /\ Skew[d] \in Nat
  BY TimeAssumption
<1> QED
  BY <1>1 DEF Null

(* Where the writes of a queue come from after one was appended.           *)
LEMMA QueueSent ==
  ASSUME NetOK, NEW d \in Devices, NEW w \in Writes, Send(d, w),
         NEW e \in Devices, NEW i \in DOMAIN outbox'[e]
  PROVE  \/ i \in DOMAIN outbox[e] /\ outbox'[e][i] = outbox[e][i]
         \/ e = d /\ i = Len(outbox[d]) + 1 /\ outbox'[e][i] = w
<1>1. outbox[d] \in Seq(Writes) /\ outbox \in [Devices -> Seq(Writes)]
  BY DEF NetOK
<1>2. CASE e # d
  BY <1>1, <1>2 DEF Send
<1>3. CASE e = d
  <2>1. outbox'[d] = Append(outbox[d], w)
    BY <1>1 DEF Send
  <2> QED
    BY <1>1, <1>3, <2>1
<1> QED
  BY <1>2, <1>3

(* Where e's i-th write was before the head was taken off d's queue.       *)
Behind(d, e, i) == IF e = d THEN i + 1 ELSE i

(* What is left after that was in the queues before, and was no head.      *)
LEMMA QueueApplied ==
  ASSUME NetOK, NEW d \in Devices, outbox[d] # <<>>, Applied(d),
         NEW e \in Devices, NEW i \in DOMAIN outbox'[e]
  PROVE  /\ Behind(d, e, i) \in DOMAIN outbox[e]
         /\ outbox'[e][i] = outbox[e][Behind(d, e, i)]
         /\ i \in Nat /\ (e = d => Behind(d, e, i) # 1)
<1>1. outbox[d] \in Seq(Writes) /\ outbox[e] \in Seq(Writes)
      /\ outbox \in [Devices -> Seq(Writes)]
  BY DEF NetOK
<1>2. CASE e # d
  BY <1>1, <1>2 DEF Applied, Behind
<1>3. CASE e = d
  <2>1. outbox'[d] = Tail(outbox[d])
    BY <1>1 DEF Applied
  <2> QED
    BY <1>1, <1>3, <2>1 DEF Behind
<1> QED
  BY <1>2, <1>3

(* The head of a queue is its first write, and fit.                        *)
LEMMA HeadFit ==
  ASSUME RoomsBornOnce, NEW d \in Devices, outbox[d] # <<>>
  PROVE  /\ 1 \in DOMAIN outbox[d] /\ outbox[d][1] = Head(outbox[d])
         /\ Head(outbox[d]) \in Writes /\ Fit(Head(outbox[d]))
<1>1. outbox[d] \in Seq(Writes)
  BY DEF RoomsBornOnce, TypeOK, NetOK
<1>2. 1 \in DOMAIN outbox[d] /\ outbox[d][1] = Head(outbox[d])
  BY <1>1
<1> QED
  BY <1>1, <1>2 DEF RoomsBornOnce, WritesFit

(* Queueing a fit write, for a fresh key if it is a create.                *)
LEMMA SentFits ==
  ASSUME RoomsBornOnce, NEW d \in Devices, NEW w \in Writes, Send(d, w), Fit(w),
         w.op = "create" => FreshKey(w.room), UNCHANGED rooms
  PROVE  WritesFit' /\ SoleCreate'
<1>1. NetOK
  BY DEF RoomsBornOnce, TypeOK
<1>2. WritesFit'
  <2> SUFFICES ASSUME NEW e \in Devices, NEW i \in DOMAIN outbox'[e]
               PROVE  Fit(outbox[e][i])'
    BY DEF WritesFit
  <2>1. Fit(outbox'[e][i])
    BY <1>1, QueueSent DEF RoomsBornOnce, WritesFit
  <2> QED
    BY <2>1 DEF Fit, Known
<1>3. SoleCreate'
  <2> SUFFICES ASSUME NEW e \in Devices, NEW f \in Devices,
                      NEW i \in DOMAIN outbox'[e], NEW k \in DOMAIN outbox'[f],
                      outbox'[e][i].op = "create",
                      outbox'[f][k].room = outbox'[e][i].room
               PROVE  e = f /\ i = k
    BY DEF SoleCreate
  <2>1. \/ i \in DOMAIN outbox[e] /\ outbox'[e][i] = outbox[e][i]
        \/ e = d /\ i = Len(outbox[d]) + 1 /\ outbox'[e][i] = w
    BY <1>1, QueueSent
  <2>2. \/ k \in DOMAIN outbox[f] /\ outbox'[f][k] = outbox[f][k]
        \/ f = d /\ k = Len(outbox[d]) + 1 /\ outbox'[f][k] = w
    BY <1>1, QueueSent
  <2>3. \A g \in Devices : \A n \in DOMAIN outbox[g] :
          outbox[g][n].op = "create" \/ w.op = "create" => outbox[g][n].room # w.room
    BY DEF RoomsBornOnce, WritesFit, Fit, Known, FreshKey
  <2> QED
    BY <2>1, <2>2, <2>3 DEF RoomsBornOnce, SoleCreate
<1> QED
  BY <1>2, <1>3

(* Taking the head off leaves every create the only write of its room.    *)
LEMMA AppliedSole ==
  ASSUME RoomsBornOnce, NEW d \in Devices, outbox[d] # <<>>, Applied(d)
  PROVE  SoleCreate'
<1>1. NetOK
  BY DEF RoomsBornOnce, TypeOK
<1> SUFFICES ASSUME NEW e \in Devices, NEW f \in Devices,
                    NEW i \in DOMAIN outbox'[e], NEW k \in DOMAIN outbox'[f],
                    outbox'[e][i].op = "create",
                    outbox'[f][k].room = outbox'[e][i].room
             PROVE  e = f /\ i = k
  BY DEF SoleCreate
<1>2. e = f /\ Behind(d, e, i) = Behind(d, f, k)
  BY <1>1, QueueApplied DEF RoomsBornOnce, SoleCreate
<1>3. i \in Nat /\ k \in Nat
  BY <1>1, QueueApplied
<1> QED
  BY <1>2, <1>3 DEF Behind

(* A room that has a record keeps one, and a create of any room but the one*)
(* the server writes to stays fit.                                         *)
LEMMA ServerKeepsFit ==
  ASSUME RoomsBornOnce, NEW d \in Devices, ServerActs(d) \/ RejectWrite(d)
  PROVE  /\ outbox[d] # <<>> /\ Applied(d)
         /\ UNCHANGED <<rid, lobbyRid, judging>>
         /\ \A r : Known(r) => Known(r)'
         /\ \A w \in Writes :
              Fit(w) /\ (w.op = "create" => w.room # Head(outbox[d]).room) => Fit(w)'
         /\ ServerActs(d) => \A r : r = Head(outbox[d]).room => Known(r)'
<1> DEFINE h == Head(outbox[d])
<1>1. outbox[d] # <<>> /\ Applied(d) /\ UNCHANGED <<rid, lobbyRid, judging>>
  BY DEF ServerActs, CommitCreate, CommitJoin, CommitStart, CommitMark, NextWrite,
         RejectWrite, navVars, leaveVars
<1>2. h \in Writes /\ h.room \in RoomIds /\ Fit(h) /\ rooms \in [RoomIds -> Records]
  BY <1>1, HeadFit DEF RoomsBornOnce, TypeOK, ServerOK, Writes
<1>3. Rooms \subseteq RoomIds
  BY DEF RoomIds
<1>4. \A r \in RoomIds : r # h.room => rooms'[r] = rooms[r]
  BY <1>2 DEF ServerActs, CommitCreate, CommitJoin, CommitStart, CommitMark, RejectWrite,
              serverVars
<1>5. CASE CommitCreate(d)
  <2>1. rooms'[h.room].timeStart = 0
    BY <1>2, <1>5 DEF CommitCreate
  <2>2. rooms'[h.room] # NoRecord
    BY <2>1 DEF NoRecord, Null
  <2>3. \A r : Known(r) => Known(r)'
    BY <1>3, <1>4, <2>2 DEF Known
  <2>4. \A r : r = h.room => Known(r)'
    BY <2>2 DEF Known
  <2>5. \A w \in Writes : Fit(w) /\ (w.op = "create" => w.room # h.room) => Fit(w)'
    BY <1>3, <1>4, <2>3 DEF Fit
  <2> QED
    BY <1>1, <2>3, <2>4, <2>5
<1>6. CASE CommitStart(d)
  <2>1. h.op = "start" /\ h.at # Null /\ Known(h.room)
    BY <1>2, <1>6, StampsPositive DEF CommitStart, NextWrite, Fit
  <2>2. rooms'[h.room].timeStart # Null
    BY <1>2, <1>6, <2>1 DEF CommitStart, Records
  <2>3. rooms'[h.room] # NoRecord
    BY <2>2 DEF NoRecord
  <2>4. \A r : Known(r) => Known(r)'
    BY <1>3, <1>4, <2>3 DEF Known
  <2> QED
    BY <1>1, <1>2, <1>3, <1>4, <2>1, <2>4 DEF Fit
<1>7. CASE CommitJoin(d) \/ CommitMark(d)
  <2>1. rooms' = rooms /\ h.op # "create"
    BY <1>7 DEF CommitJoin, CommitMark, NextWrite
  <2>2. \A r : Known(r) => Known(r)'
    BY <2>1 DEF Known
  <2> QED
    BY <1>1, <1>2, <2>1, <2>2 DEF Fit
<1>8. CASE RejectWrite(d) /\ ~ServerActs(d)
  <2>1. rooms' = rooms
    BY <1>8 DEF RejectWrite, serverVars
  <2>2. \A r : Known(r) => Known(r)'
    BY <2>1 DEF Known
  <2> QED
    BY <1>1, <1>8, <2>1, <2>2 DEF Fit
<1> QED
  BY <1>5, <1>6, <1>7, <1>8 DEF ServerActs

(* The server's step makes known what it acknowledges and whom it admits.  *)
LEMMA BornServer ==
  ASSUME RoomsBornOnce, NEW d \in Devices, ServerActs(d) \/ RejectWrite(d)
  PROVE  (WritesFit /\ SoleCreate /\ AcksKnown /\ PhonesKnown /\ MembersKnown)'
<1> DEFINE h == Head(outbox[d])
<1>1. /\ outbox[d] # <<>> /\ Applied(d) /\ NetOK
      /\ UNCHANGED <<rid, lobbyRid, judging>>
      /\ \A r : Known(r) => Known(r)'
      /\ \A w \in Writes : Fit(w) /\ (w.op = "create" => w.room # h.room) => Fit(w)'
  BY ServerKeepsFit DEF RoomsBornOnce, TypeOK
<1>2. 1 \in DOMAIN outbox[d] /\ outbox[d][1] = h /\ h \in Writes /\ h.room \in RoomIds /\ Fit(h)
  BY <1>1, HeadFit DEF Writes
<1>3. ServerActs(d) => \A r : r = h.room => Known(r)'
  BY ServerKeepsFit
<1>4. SoleCreate'
  BY <1>1, AppliedSole
<1>5. WritesFit'
  <2> SUFFICES ASSUME NEW e \in Devices, NEW i \in DOMAIN outbox'[e]
               PROVE  Fit(outbox[e][i])'
    BY DEF WritesFit
  <2> DEFINE k == Behind(d, e, i)
  <2>1. k \in DOMAIN outbox[e] /\ outbox'[e][i] = outbox[e][k] /\ (e = d => k # 1)
    BY <1>1, QueueApplied
  <2>2. outbox[e][k] \in Writes /\ Fit(outbox[e][k])
    BY <1>1, <2>1, PendingTyped DEF RoomsBornOnce, WritesFit
  <2>3. outbox[e][k].op = "create" => h.room # outbox[e][k].room
    BY <1>2, <2>1 DEF RoomsBornOnce, SoleCreate
  <2>4. \A w \in Writes : w = outbox'[e][i] => Fit(w)'
    BY <1>1, <2>1, <2>2, <2>3
  <2> QED
    BY <2>1, <2>2, <2>4 DEF Fit, Known
<1>6. AcksKnown'
  <2> SUFFICES ASSUME NEW e \in Devices, NEW i \in DOMAIN acks'[e], acks'[e][i].ok
               PROVE  Known(acks[e][i].room)'
    BY DEF AcksKnown
  <2>1. acks[e] \in Seq(Acks) /\ acks \in [Devices -> Seq(Acks)]
    BY <1>1 DEF NetOK
  <2>2. \/ acks' = acks
        \/ \E ok \in BOOLEAN : Acknowledged(d, ok) /\ (ok => ServerActs(d))
    BY DEF ServerActs, CommitCreate, CommitJoin, CommitStart, CommitMark, RejectWrite
  <2>3. CASE i \in DOMAIN acks[e] /\ acks'[e][i] = acks[e][i]
    <3>1. Known(acks[e][i].room)
      BY <2>3 DEF RoomsBornOnce, AcksKnown
    <3>2. \A r : r = acks'[e][i].room => Known(r)'
      BY <1>1, <2>3, <3>1
    <3> QED
      BY <3>2 DEF Known
  <2>4. CASE ~(i \in DOMAIN acks[e] /\ acks'[e][i] = acks[e][i])
    <3>1. PICK ok \in BOOLEAN : Acknowledged(d, ok) /\ (ok => ServerActs(d))
      BY <2>2, <2>4
    <3>2. e = d /\ acks'[e][i] = Ack(h, ok)
      BY <2>1, <2>4, <3>1 DEF Acknowledged
    <3>3. acks'[e][i].room = h.room /\ ok
      BY <3>2 DEF Ack
    <3>4. \A r : r = acks'[e][i].room => Known(r)'
      BY <1>3, <3>1, <3>3
    <3> QED
      BY <3>4 DEF Known
  <2> QED
    BY <2>3, <2>4
<1>7. PhonesKnown'
  <2>1. \A r : (\E e \in Devices : \/ r = rid'[e] \/ r = lobbyRid'[e]
                                   \/ \E j \in judging'[e] : r = j.room) => Known(r)'
    BY <1>1 DEF RoomsBornOnce, PhonesKnown
  <2> QED
    BY <2>1 DEF PhonesKnown, Known
<1>8. MembersKnown'
  <2> SUFFICES ASSUME NEW r \in RoomIds, NEW p \in Devices, users'[r][p] # Null
               PROVE  Known(r)'
    BY DEF MembersKnown
  <2>1. CASE users[r][p] # Null
    BY <1>1, <2>1 DEF RoomsBornOnce, MembersKnown
  <2>2. CASE users[r][p] = Null
    <3>1. users \in [RoomIds -> [Devices -> TimeValues]]
      BY DEF RoomsBornOnce, TypeOK, ServerOK
    <3>2. r = h.room /\ ServerActs(d)
      BY <1>2, <2>2, <3>1
         DEF ServerActs, CommitCreate, CommitJoin, CommitStart, CommitMark, RejectWrite,
             OnlyMember, AlsoMember, serverVars
    <3> QED
      BY <1>3, <3>2
  <2> QED
    BY <2>1, <2>2
<1> QED
  BY <1>4, <1>5, <1>6, <1>7, <1>8

(* A step that leaves the rooms, the queues and what phones remember alone.*)
LEMMA BornUntouched ==
  ASSUME RoomsBornOnce, UNCHANGED <<rooms, users, outbox, acks, rid, lobbyRid, judging>>
  PROVE  (WritesFit /\ SoleCreate /\ AcksKnown /\ PhonesKnown /\ MembersKnown)'
BY DEF RoomsBornOnce, WritesFit, SoleCreate, AcksKnown, PhonesKnown, MembersKnown, Fit, Known

(* A step that queues one fit write.                                       *)
LEMMA BornSent ==
  ASSUME RoomsBornOnce, NEW d \in Devices, NEW w \in Writes, Send(d, w), Fit(w),
         w.op = "create" => FreshKey(w.room),
         UNCHANGED <<rooms, users, acks, rid, lobbyRid>>,
         \A e \in Devices : judging'[e] \subseteq judging[e]
  PROVE  (WritesFit /\ SoleCreate /\ AcksKnown /\ PhonesKnown /\ MembersKnown)'
<1>1. WritesFit' /\ SoleCreate'
  BY SentFits
<1>2. (AcksKnown /\ PhonesKnown /\ MembersKnown)'
  BY DEF RoomsBornOnce, AcksKnown, PhonesKnown, MembersKnown, Known
<1> QED
  BY <1>1, <1>2

(* What a user does: creates are for fresh keys, joins for rooms on some   *)
(* screen or stray codes, presses of Start for a known room.               *)
LEMMA BornUser ==
  ASSUME RoomsBornOnce, NEW d \in Devices, UserActs(d) \/ Kill(d)
  PROVE  (WritesFit /\ SoleCreate /\ AcksKnown /\ PhonesKnown /\ MembersKnown)'
<1>1. CASE \/ OpenSetup(d) \/ BackTUI(d) \/ ScanQRCode(d) \/ Dismiss(d) \/ Relaunch(d)
           \/ DeviceLocked(d)
  BY <1>1, BornUntouched
     DEF OpenSetup, BackTUI, ScanQRCode, Dismiss, Relaunch, DeviceLocked, serverVars, netVars,
         navVars, leaveVars
<1>2. ASSUME NEW r \in Rooms, NEW limit \in Limits, NEW b \in Bets,
             CreateRoom(d, r, limit, b)
      PROVE  (WritesFit /\ SoleCreate /\ AcksKnown /\ PhonesKnown /\ MembersKnown)'
  <2> DEFINE w == Write("create", r, 0, limit, b, setupNo[d])
  <2>1. w \in Writes
    BY DEF Write, Writes, TimeValues, LimitValues, BetValues, RoomIds, RoomsBornOnce,
           TypeOK, NavOK
  <2>2. Fit(w) /\ FreshKey(w.room)
    BY <1>2 DEF CreateRoom, FreshKey, Write, Fit
  <2>3. Send(d, w) /\ UNCHANGED <<rooms, users, acks, rid, lobbyRid, judging>>
    BY <1>2 DEF CreateRoom, serverVars, navVars, leaveVars
  <2> QED
    BY <2>1, <2>2, <2>3, BornSent
<1>3. ASSUME NEW r \in RoomIds, JoinScanned(d, r)
      PROVE  (WritesFit /\ SoleCreate /\ AcksKnown /\ PhonesKnown /\ MembersKnown)'
  <2> DEFINE w == Write("join", r, 0, 0, 0, 0)
  <2>1. w \in Writes
    BY DEF Write, Writes, TimeValues, LimitValues, BetValues
  <2>2. Known(r)
    BY <1>3, RoomsAssumption
       DEF JoinScanned, Scannable, RoomsBornOnce, PhonesKnown, Known
  <2>3. Fit(w) /\ w.op # "create"
    BY <2>2 DEF Fit, Write
  <2>4. Send(d, w) /\ UNCHANGED <<rooms, users, acks, rid, lobbyRid, judging>>
    BY <1>3 DEF JoinScanned, serverVars, leaveVars
  <2> QED
    BY <2>1, <2>3, <2>4, BornSent
<1>4. CASE StartRoom(d)
  <2> DEFINE w == Write("start", rid[d], Clock(d), 0, 0, 0)
  <2>1. rid[d] \in RoomIds /\ Clock(d) \in Stamps /\ Clock(d) \in TimeValues
    BY <1>4, ClockIsTime DEF StartRoom, RoomsBornOnce, TypeOK, RoomOnScreen
  <2>2. w \in Writes
    BY <2>1 DEF Write, Writes, LimitValues, BetValues
  <2>3. Fit(w) /\ w.op # "create"
    BY <2>1 DEF Fit, Write, RoomsBornOnce, PhonesKnown
  <2>4. Send(d, w) /\ UNCHANGED <<rooms, users, acks, rid, lobbyRid, judging>>
    BY <1>4 DEF StartRoom, serverVars, navVars, leaveVars
  <2> QED
    BY <2>2, <2>3, <2>4, BornSent
<1>5. CASE AppBackgrounded(d)
  <2>1. UNCHANGED <<rooms, users, outbox, acks, rid, lobbyRid>>
    BY <1>5 DEF AppBackgrounded, serverVars, netVars, navVars
  <2>2. \A e \in Devices : \A j \in judging'[e] : j \in judging[e] \/ j.room = rid[e]
    BY <1>5 DEF AppBackgrounded, RoomsBornOnce, TypeOK, LeaveOK
  <2> QED
    BY <2>1, <2>2
       DEF RoomsBornOnce, WritesFit, SoleCreate, AcksKnown, PhonesKnown, MembersKnown,
           Fit, Known
<1>6. CASE CancelScan(d) \/ Kill(d)
  <2>1. ProcessEnds(d)
    BY <1>6 DEF CancelScan, Kill
  <2>2. UNCHANGED <<rooms, users>>
    BY <2>1 DEF ProcessEnds, serverVars
  <2>3. \A e \in Devices :
          \/ e = d /\ outbox'[e] = <<>> /\ acks'[e] = <<>> /\ rid'[e] = NoRoom
             /\ lobbyRid'[e] = NoRoom /\ judging'[e] = {}
          \/ e # d /\ outbox'[e] = outbox[e] /\ acks'[e] = acks[e] /\ rid'[e] = rid[e]
             /\ lobbyRid'[e] = lobbyRid[e] /\ judging'[e] = judging[e]
    BY <2>1 DEF ProcessEnds, RoomsBornOnce, TypeOK, NetOK, NavOK, LeaveOK
  <2>4. Known(NoRoom)
    BY RoomsAssumption DEF Known, RoomIds
  <2>5. WritesFit' /\ SoleCreate' /\ AcksKnown'
    BY <2>2, <2>3 DEF RoomsBornOnce, WritesFit, SoleCreate, AcksKnown, Fit, Known
  <2>6. PhonesKnown' /\ MembersKnown'
    BY <2>2, <2>3, <2>4 DEF RoomsBornOnce, PhonesKnown, MembersKnown, Known
  <2> QED
    BY <2>5, <2>6
<1> QED
  BY <1>1, <1>2, <1>3, <1>4, <1>5, <1>6 DEF UserActs

(* A completion block remembers the room that was acknowledged, and a      *)
(* judgement queues a mark for a room that was known.                      *)
LEMMA BornPhone ==
  ASSUME RoomsBornOnce, NEW d \in Devices, PhoneActs(d)
  PROVE  (WritesFit /\ SoleCreate /\ AcksKnown /\ PhonesKnown /\ MembersKnown)'
<1>1. CASE CompletionRuns(d)
  <2> DEFINE a == Head(acks[d])
  <2>1. acks[d] \in Seq(Acks) /\ acks \in [Devices -> Seq(Acks)] /\ acks[d] # <<>>
    BY <1>1 DEF CompletionRuns, RoomsBornOnce, TypeOK, NetOK
  <2>2. a.ok => Known(a.room)
    <3>1. 1 \in DOMAIN acks[d] /\ a = acks[d][1]
      BY <2>1
    <3> QED
      BY <3>1 DEF RoomsBornOnce, AcksKnown
  <2>3. UNCHANGED <<rooms, users, outbox, judging>>
    BY <1>1 DEF CompletionRuns, serverVars, leaveVars
  <2>4. AcksKnown'
    <3>1. \A e \in Devices : \A i \in DOMAIN acks'[e] :
            \E k \in DOMAIN acks[e] : acks'[e][i] = acks[e][k]
      <4> SUFFICES ASSUME NEW e \in Devices, NEW i \in DOMAIN acks'[e]
                   PROVE  \E k \in DOMAIN acks[e] : acks'[e][i] = acks[e][k]
        OBVIOUS
      <4>1. CASE e = d
        <5>1. acks'[d] = Tail(acks[d])
          BY <1>1, <2>1 DEF CompletionRuns
        <5>2. i + 1 \in DOMAIN acks[d] /\ acks'[d][i] = acks[d][i + 1]
          BY <2>1, <4>1, <5>1
        <5> QED
          BY <4>1, <5>2
      <4>2. CASE e # d
        BY <1>1, <2>1, <4>2 DEF CompletionRuns
      <4> QED
        BY <4>1, <4>2
    <3> QED
      BY <2>3, <3>1 DEF RoomsBornOnce, AcksKnown, Known
  <2>5. \A e \in Devices : \/ rid'[e] = rid[e]
                           \/ rid'[e] = a.room /\ a.ok
    BY <1>1 DEF CompletionRuns, RoomsBornOnce, TypeOK, NavOK
  <2>6. \A e \in Devices : \/ lobbyRid'[e] = lobbyRid[e]
                           \/ lobbyRid'[e] = a.room /\ a.ok
    BY <1>1 DEF CompletionRuns, OpenLobby, RoomsBornOnce, TypeOK, NavOK
  <2>7. PhonesKnown'
    BY <2>2, <2>3, <2>5, <2>6 DEF RoomsBornOnce, PhonesKnown, Known
  <2>8. WritesFit' /\ SoleCreate' /\ MembersKnown'
    BY <2>3 DEF RoomsBornOnce, WritesFit, SoleCreate, MembersKnown, Fit, Known
  <2> QED
    BY <2>4, <2>7, <2>8
<1>2. CASE LobbyObserves(d) \/ InfoArrives(d) \/ UpdateTimer(d) \/ StatsObserves(d)
  BY <1>2, BornUntouched
     DEF LobbyObserves, InfoArrives, UpdateTimer, StatsObserves, serverVars, netVars,
         navVars, leaveVars
<1>3. CASE JudgeBackground(d)
  <2>1. PICK j \in judging[d] :
          /\ judging' = [judging EXCEPT ![d] = @ \ {j}]
          /\ IF mark[d] THEN Send(d, MarkFor(d, j)) ELSE outbox' = outbox
          /\ UNCHANGED <<now, taps, serverVars, acks, navVars, statsVars, mark, historyVars>>
    BY <1>3 DEF JudgeBackground
  <2>2. UNCHANGED <<rooms, users, acks, rid, lobbyRid>>
    BY <2>1 DEF serverVars, navVars
  <2>3. \A e \in Devices : judging'[e] \subseteq judging[e]
    BY <2>1 DEF RoomsBornOnce, TypeOK, LeaveOK
  <2>4. CASE mark[d]
    <3>1. Clock(d) \in Stamps /\ Known(j.room)
      BY ClockIsTime DEF RoomsBornOnce, PhonesKnown
    <3>2. MarkFor(d, j) \in Writes
      BY ClockIsTime DEF MarkFor, Write, Writes, LimitValues, BetValues, RoomsBornOnce,
                         TypeOK, LeaveOK
    <3>3. Fit(MarkFor(d, j)) /\ MarkFor(d, j).op # "create"
      BY <3>1 DEF Fit, MarkFor, Write
    <3> QED
      BY <2>1, <2>2, <2>3, <2>4, <3>2, <3>3, BornSent
  <2>5. CASE ~mark[d]
    BY <2>1, <2>2, <2>3, <2>5
       DEF RoomsBornOnce, WritesFit, SoleCreate, AcksKnown, PhonesKnown, MembersKnown,
           Fit, Known
  <2> QED
    BY <2>4, <2>5
<1> QED
  BY <1>1, <1>2, <1>3 DEF PhoneActs

(* Initially no room is born and nobody refers to one.                     *)
LEMMA BornInit == Init => RoomsBornOnce
<1> SUFFICES ASSUME Init PROVE RoomsBornOnce
  OBVIOUS
<1>1. TypeOK
  BY TypeInit
<1> QED
  BY <1>1, RoomsAssumption
     DEF Init, RoomsBornOnce, WritesFit, SoleCreate, AcksKnown, PhonesKnown, MembersKnown,
         Known, RoomIds

(* Every step preserves the invariant.                                     *)
LEMMA BornNext == RoomsBornOnce /\ [Next]_vars => RoomsBornOnce'
<1> SUFFICES ASSUME RoomsBornOnce, [Next]_vars PROVE RoomsBornOnce'
  OBVIOUS
<1>1. TypeOK'
  BY TypeNext DEF RoomsBornOnce
<1>2. CASE Tick \/ UNCHANGED vars
  BY <1>1, <1>2, BornUntouched
     DEF Tick, vars, serverVars, netVars, navVars, leaveVars, RoomsBornOnce
<1>3. ASSUME NEW d \in Devices,
             UserActs(d) \/ ServerActs(d) \/ PhoneActs(d) \/ RejectWrite(d) \/ Kill(d)
      PROVE  RoomsBornOnce'
  BY <1>1, <1>3, BornUser, BornServer, BornPhone DEF RoomsBornOnce
<1> QED
  BY <1>2, <1>3 DEF Next

-----------------------------------------------------------------------------
(* The two action properties.                                              *)

(* Only the server's step writes to rooms and users.                       *)
LEMMA OnlyServerWrites ==
  ASSUME [Next]_vars, ~UNCHANGED <<rooms, users>>
  PROVE  \E d \in Devices : ServerActs(d)
<1>1. CASE Tick \/ UNCHANGED vars
  BY <1>1 DEF Tick, vars, serverVars
<1>2. ASSUME NEW d \in Devices, UserActs(d) \/ Kill(d)
      PROVE  FALSE
  BY <1>2 DEF UserActs, OpenSetup, BackTUI, ScanQRCode, CancelScan, CreateRoom, JoinScanned,
              Dismiss, StartRoom, AppBackgrounded, DeviceLocked, Relaunch, Kill,
              ProcessEnds, serverVars
<1>3. ASSUME NEW d \in Devices, PhoneActs(d) \/ RejectWrite(d)
      PROVE  FALSE
  BY <1>3 DEF PhoneActs, CompletionRuns, LobbyObserves, InfoArrives, UpdateTimer,
              StatsObserves, JudgeBackground, RejectWrite, serverVars
<1> QED
  BY <1>1, <1>2, <1>3 DEF Next

(* What one server step does to the record and the members of a room that  *)
(* exists.                                                                 *)
LEMMA ServerOnRoom ==
  ASSUME RoomsBornOnce, NEW d \in Devices, ServerActs(d), NEW r \in RoomIds
  PROVE  /\ rooms[r] # NoRecord => /\ rooms'[r].timeLimit = rooms[r].timeLimit
                                   /\ rooms'[r].betAmount = rooms[r].betAmount
         /\ \A p \in Devices : users[r][p] # Null =>
              \/ users'[r][p] = users[r][p]
              \/ users[r][p] = 0 /\ users'[r][p] # Null
              \/ /\ users'[r][p] = 0 /\ p = d
                 /\ NextWrite(d, "join") /\ Head(outbox[d]).room = r
<1> DEFINE h == Head(outbox[d])
<1>1. outbox[d] # <<>> /\ h \in Writes /\ h.room \in RoomIds /\ Fit(h)
  BY HeadFit DEF ServerActs, CommitCreate, CommitJoin, CommitStart, CommitMark, NextWrite,
                 Writes
<1>2. rooms \in [RoomIds -> Records] /\ users \in [RoomIds -> [Devices -> TimeValues]]
  BY DEF RoomsBornOnce, TypeOK, ServerOK
<1>3. CASE CommitCreate(d)
  <2>1. h.room \in Rooms /\ rooms[h.room] = NoRecord /\ ~Known(h.room)
    BY <1>1, <1>3 DEF CommitCreate, NextWrite, Fit, Known
  <2>2. \A p \in Devices : users[h.room][p] = Null
    BY <1>1, <2>1 DEF RoomsBornOnce, MembersKnown
  <2>3. r # h.room => rooms'[r] = rooms[r] /\ users'[r] = users[r]
    BY <1>2, <1>3 DEF CommitCreate, OnlyMember
  <2> QED
    BY <2>1, <2>2, <2>3
<1>4. CASE CommitJoin(d)
  BY <1>1, <1>2, <1>4 DEF CommitJoin, AlsoMember
<1>5. CASE CommitStart(d)
  <2>1. users' = users
    BY <1>5, Zenon DEF CommitStart
  <2>2. /\ rooms'[r].timeLimit = rooms[r].timeLimit
        /\ rooms'[r].betAmount = rooms[r].betAmount
    BY <1>1, <1>2, <1>5 DEF CommitStart, Records
  <2> QED
    BY <2>1, <2>2
<1>6. CASE CommitMark(d)
  <2>1. rooms' = rooms /\ h.at # Null
    BY <1>1, <1>6, StampsPositive DEF CommitMark, NextWrite, Fit
  <2>2. \A p \in Devices : \/ users'[r][p] = users[r][p]
                           \/ users'[r][p] = TimeAfterMark(users[r][p], h.at)
    BY <1>1, <1>2, <1>6 DEF CommitMark
  <2> QED
    BY <2>1, <2>2 DEF TimeAfterMark
<1> QED
  BY <1>3, <1>4, <1>5, <1>6 DEF ServerActs

(* Once a room exists no write of any phone takes a player out of it or    *)
(* changes its limit and bet, whatever creates, joins, crashes and refusals*)
(* surround it.                                                            *)
THEOREM RoomsSurvive == Spec => RoomSurvives
<1> DEFINE Kept == \A r \in RoomIds :
             /\ rooms[r] # NoRecord => /\ rooms'[r].timeLimit = rooms[r].timeLimit
                                       /\ rooms'[r].betAmount = rooms[r].betAmount
             /\ \A d \in Devices : users[r][d] # Null => users'[r][d] # Null
<1>1. RoomsBornOnce /\ [Next]_vars => Kept
  <2> SUFFICES ASSUME RoomsBornOnce, [Next]_vars PROVE Kept
    OBVIOUS
  <2>1. CASE UNCHANGED <<rooms, users>>
    BY <2>1
  <2>2. CASE ~UNCHANGED <<rooms, users>>
    <3>1. PICK d \in Devices : ServerActs(d)
      BY <2>2, OnlyServerWrites
    <3> QED
      BY <3>1, ServerOnRoom DEF Null
  <2> QED
    BY <2>1, <2>2
<1>2. Spec => []RoomsBornOnce
  BY BornInit, BornNext, PTL DEF Spec
<1> QED
  BY <1>1, <1>2, PTL DEF Spec, RoomSurvives

(* A recorded leave is only ever erased by the server applying a join of   *)
(* the same player to the same room, and never replaced by a later time.   *)
THEOREM FirstLeavesStand == Spec => FirstLeaveStands
<1> DEFINE Stands == \A r \in RoomIds, d \in Devices :
             users[r][d] \notin {Null, 0} /\ users'[r][d] # users[r][d]
               => /\ users'[r][d] = 0
                  /\ NextWrite(d, "join") /\ Head(outbox[d]).room = r
<1>1. RoomsBornOnce /\ [Next]_vars => Stands
  <2> SUFFICES ASSUME RoomsBornOnce, [Next]_vars,
                      NEW r \in RoomIds, NEW p \in Devices,
                      users[r][p] \notin {Null, 0}, users'[r][p] # users[r][p]
               PROVE  /\ users'[r][p] = 0
                      /\ NextWrite(p, "join") /\ Head(outbox[p]).room = r
    OBVIOUS
  <2>1. PICK d \in Devices : ServerActs(d)
    BY OnlyServerWrites
  <2> QED
    BY <2>1, ServerOnRoom
<1>2. Spec => []RoomsBornOnce
  BY BornInit, BornNext, PTL DEF Spec
<1> QED
  BY <1>1, <1>2, PTL DEF Spec, FirstLeaveStands

-----------------------------------------------------------------------------
(* RidStable: a phone without overlapping creates and joins has at most    *)
(* one under way, and none once a lobby is open.                           *)

Asks(w) == w.op \in {"create", "join"}

(* At most one create or join is queued or awaits its completion block.    *)
AtMostOne(d) ==
  /\ acks[d] # <<>> => Len(acks[d]) = 1 /\ \A i \in DOMAIN outbox[d] : ~Asks(outbox[d][i])
  /\ \A i, k \in DOMAIN outbox[d] : Asks(outbox[d][i]) /\ Asks(outbox[d][k]) => i = k

InGame(d) == screen[d] \in {"lobby", "stats", "results"}

Settled(d) ==
  ~overlapped[d] => /\ AtMostOne(d)
                    /\ InGame(d) => ~UnderWay(d) /\ rid[d] = lobbyRid[d]

RidInv == TypeOK /\ \A d \in Devices : Settled(d)

(* A step that changes nothing Settled(e) is about.                        *)
Untouched(e) ==
  /\ outbox'[e] = outbox[e] /\ acks'[e] = acks[e] /\ overlapped'[e] = overlapped[e]
  /\ screen'[e] = screen[e] /\ rid'[e] = rid[e] /\ lobbyRid'[e] = lobbyRid[e]

(* It leaves e settled.                                                    *)
LEMMA SettledUntouched ==
  ASSUME NEW e \in Devices, Settled(e), Untouched(e)
  PROVE  Settled(e)'
BY DEF Settled, AtMostOne, InGame, UnderWay, Untouched

(* A phone's own state after it queued a create or a join: it overlaps if  *)
(* one was under way, else this is the only one.                           *)
LEMMA AskSettled ==
  ASSUME TypeOK, NEW d \in Devices, NEW w \in Writes, Send(d, w), UNCHANGED acks,
         overlapped' = [overlapped EXCEPT ![d] = UnderWay(d)], ~InGame(d)'
  PROVE  Settled(d)'
<1> SUFFICES ASSUME ~overlapped'[d] PROVE AtMostOne(d)'
  BY DEF Settled
<1>1. ~UnderWay(d)
  BY DEF TypeOK, HistoryOK
<1>2. acks'[d] = <<>> /\ \A i \in DOMAIN outbox[d] : ~Asks(outbox[d][i])
  BY <1>1 DEF UnderWay, Asks
<1>3. \A i \in DOMAIN outbox'[d] : \/ i \in DOMAIN outbox[d] /\ outbox'[d][i] = outbox[d][i]
                                  \/ i = Len(outbox[d]) + 1
  BY QueueSent DEF TypeOK
<1> QED
  BY <1>2, <1>3 DEF AtMostOne

(* Queueing a press of Start or a mark settles nothing anew.               *)
LEMMA PlainSendSettled ==
  ASSUME TypeOK, NEW d \in Devices, NEW w \in Writes, Send(d, w), ~Asks(w), Settled(d),
         UNCHANGED <<acks, overlapped, screen, rid, lobbyRid>>
  PROVE  Settled(d)'
<1>1. \A i \in DOMAIN outbox'[d] : Asks(outbox'[d][i]) =>
         i \in DOMAIN outbox[d] /\ outbox'[d][i] = outbox[d][i]
  <2> SUFFICES ASSUME NEW i \in DOMAIN outbox'[d], Asks(outbox'[d][i])
               PROVE  i \in DOMAIN outbox[d] /\ outbox'[d][i] = outbox[d][i]
    OBVIOUS
  <2> QED
    BY QueueSent DEF TypeOK
<1> QED
  BY <1>1 DEF Settled, AtMostOne, InGame, UnderWay, Asks

(* What one phone does leaves the others settled.                          *)
LEMMA OthersUntouched ==
  ASSUME TypeOK, NEW d \in Devices, NEW e \in Devices, e # d,
         UserActs(d) \/ ServerActs(d) \/ PhoneActs(d) \/ RejectWrite(d) \/ Kill(d)
  PROVE  Untouched(e)
<1> USE DEF Untouched, TypeOK, NetOK, NavOK, HistoryOK
<1>1. CASE UserActs(d) \/ Kill(d)
  BY <1>1 DEF UserActs, OpenSetup, BackTUI, ScanQRCode, CancelScan, CreateRoom, JoinScanned,
              Dismiss, StartRoom, AppBackgrounded, DeviceLocked, Relaunch, Kill,
              ProcessEnds, Send, netVars, navVars, historyVars
<1>2. CASE ServerActs(d) \/ RejectWrite(d)
  BY <1>2 DEF ServerActs, CommitCreate, CommitJoin, CommitStart, CommitMark, RejectWrite,
              Applied, Acknowledged, navVars, historyVars
<1>3. CASE PhoneActs(d)
  <2>1. CASE CompletionRuns(d)
    BY <2>1 DEF CompletionRuns, OpenLobby, historyVars
  <2>2. CASE LobbyObserves(d) \/ InfoArrives(d) \/ UpdateTimer(d) \/ StatsObserves(d)
    BY <2>2 DEF LobbyObserves, InfoArrives, UpdateTimer, StatsObserves, ShowResults,
                netVars, navVars, historyVars
  <2>3. CASE JudgeBackground(d)
    BY <2>3 DEF JudgeBackground, Send, navVars, historyVars
  <2> QED
    BY <1>3, <2>1, <2>2, <2>3 DEF PhoneActs
<1> QED
  BY <1>1, <1>2, <1>3

(* A user's step settles the phone it happens on.                          *)
LEMMA UserSettled ==
  ASSUME TypeOK, NEW d \in Devices, Settled(d), UserActs(d) \/ Kill(d)
  PROVE  Settled(d)'
<1>1. CASE OpenSetup(d) \/ BackTUI(d) \/ ScanQRCode(d) \/ Dismiss(d) \/ Relaunch(d)
  <2>1. UNCHANGED <<outbox, acks, overlapped>> /\ ~InGame(d)'
    BY <1>1 DEF OpenSetup, BackTUI, ScanQRCode, Dismiss, Relaunch, netVars, historyVars,
                InGame, TypeOK, NavOK
  <2> QED
    BY <2>1 DEF Settled, AtMostOne
<1>2. ASSUME NEW r \in Rooms, NEW limit \in Limits, NEW b \in Bets,
             CreateRoom(d, r, limit, b)
      PROVE  Settled(d)'
  <2> DEFINE w == Write("create", r, 0, limit, b, setupNo[d])
  <2>1. w \in Writes
    BY DEF Write, Writes, TimeValues, LimitValues, BetValues, RoomIds, TypeOK, NavOK
  <2>2. ~InGame(d)'
    BY <1>2 DEF CreateRoom, navVars, InGame
  <2> QED
    BY <1>2, <2>1, <2>2, AskSettled DEF CreateRoom
<1>3. ASSUME NEW r \in RoomIds, JoinScanned(d, r)
      PROVE  Settled(d)'
  <2> DEFINE w == Write("join", r, 0, 0, 0, 0)
  <2>1. w \in Writes
    BY DEF Write, Writes, TimeValues, LimitValues, BetValues
  <2>2. ~InGame(d)'
    BY <1>3 DEF JoinScanned, InGame, TypeOK, NavOK
  <2> QED
    BY <1>3, <2>1, <2>2, AskSettled DEF JoinScanned
<1>4. CASE StartRoom(d)
  <2> DEFINE w == Write("start", rid[d], Clock(d), 0, 0, 0)
  <2>1. rid[d] \in RoomIds /\ Clock(d) \in TimeValues
    BY <1>4, ClockIsTime DEF StartRoom, TypeOK, RoomOnScreen
  <2>2. w \in Writes /\ ~Asks(w)
    BY <2>1 DEF Write, Writes, LimitValues, BetValues, Asks
  <2> QED
    BY <1>4, <2>2, PlainSendSettled DEF StartRoom, navVars
<1>5. CASE AppBackgrounded(d) \/ DeviceLocked(d)
  BY <1>5, SettledUntouched
     DEF AppBackgrounded, DeviceLocked, netVars, navVars, historyVars, Untouched
<1>6. CASE CancelScan(d) \/ Kill(d)
  <2>1. outbox'[d] = <<>> /\ acks'[d] = <<>> /\ screen'[d] = "closed"
    BY <1>6 DEF CancelScan, Kill, ProcessEnds, TypeOK, NetOK, NavOK
  <2> QED
    BY <2>1 DEF Settled, AtMostOne, InGame
<1> QED
  BY <1>1, <1>2, <1>3, <1>4, <1>5, <1>6 DEF UserActs

(* The server turns a queued create or join into a completion block.       *)
LEMMA ServerSettled ==
  ASSUME TypeOK, NEW d \in Devices, Settled(d), ServerActs(d) \/ RejectWrite(d)
  PROVE  Settled(d)'
<1> DEFINE h == Head(outbox[d])
<1>1. /\ outbox[d] # <<>> /\ Applied(d)
      /\ UNCHANGED <<overlapped, screen, rid, lobbyRid>>
      /\ \/ Asks(h) /\ \E ok \in BOOLEAN : Acknowledged(d, ok)
         \/ ~Asks(h) /\ UNCHANGED acks
  BY DEF ServerActs, CommitCreate, CommitJoin, CommitStart, CommitMark, RejectWrite,
         NextWrite, Asks, navVars, historyVars
<1>2. outbox[d] \in Seq(Writes) /\ acks[d] \in Seq(Acks)
  BY DEF TypeOK, NetOK
<1>3. 1 \in DOMAIN outbox[d] /\ outbox[d][1] = h
  BY <1>1, <1>2
<1>4. \A i \in DOMAIN outbox'[d] : /\ i + 1 \in DOMAIN outbox[d] /\ i \in Nat
                                  /\ i + 1 # 1
                                  /\ outbox'[d][i] = outbox[d][i + 1]
  BY <1>1, QueueApplied DEF TypeOK, Behind
<1> SUFFICES ASSUME ~overlapped[d]
             PROVE  AtMostOne(d)' /\ (InGame(d)' => ~UnderWay(d)' /\ rid[d] = lobbyRid[d])
  BY <1>1 DEF Settled
<1>5. AtMostOne(d) /\ (InGame(d) => ~UnderWay(d) /\ rid[d] = lobbyRid[d])
  BY DEF Settled
<1>6. InGame(d)' <=> InGame(d)
  BY <1>1 DEF InGame
<1>7. CASE Asks(h) /\ \E ok \in BOOLEAN : Acknowledged(d, ok)
  <2>1. acks[d] = <<>>
    BY <1>3, <1>5, <1>7 DEF AtMostOne
  <2>2. Len(acks'[d]) = 1
    BY <1>7, <2>1 DEF Acknowledged, TypeOK, NetOK
  <2>3. \A i \in DOMAIN outbox'[d] : ~Asks(outbox'[d][i])
    BY <1>3, <1>4, <1>5, <1>7 DEF AtMostOne
  <2>4. ~InGame(d)
    BY <1>3, <1>5, <1>7 DEF UnderWay, Asks
  <2> QED
    BY <1>6, <2>2, <2>3, <2>4 DEF AtMostOne
<1>8. CASE ~Asks(h) /\ UNCHANGED acks
  <2>1. AtMostOne(d)'
    <3>1. acks[d] # <<>> => \A i \in DOMAIN outbox'[d] : ~Asks(outbox'[d][i])
      BY <1>4, <1>5 DEF AtMostOne
    <3>2. \A i, k \in DOMAIN outbox'[d] : Asks(outbox'[d][i]) /\ Asks(outbox'[d][k])
                                            => i + 1 = k + 1 /\ i \in Nat /\ k \in Nat
      BY <1>4, <1>5 DEF AtMostOne
    <3> QED
      BY <1>5, <1>8, <3>1, <3>2 DEF AtMostOne
  <2>2. UnderWay(d)' => UnderWay(d)
    BY <1>4, <1>8 DEF UnderWay
  <2> QED
    BY <1>5, <1>6, <2>1, <2>2
<1> QED
  BY <1>1, <1>7, <1>8

(* A completion block that opens a lobby sets currentRID to its room and is*)
(* the last one; the game's screens follow one another on the same room.   *)
LEMMA PhoneSettled ==
  ASSUME TypeOK, NEW d \in Devices, Settled(d), PhoneActs(d)
  PROVE  Settled(d)'
<1>1. CASE CompletionRuns(d)
  <2> DEFINE a == Head(acks[d])
  <2>1. acks[d] # <<>> /\ acks'[d] = Tail(acks[d]) /\ UNCHANGED <<outbox, overlapped>>
    BY <1>1 DEF CompletionRuns, TypeOK, NetOK, historyVars
  <2> SUFFICES ASSUME ~overlapped[d]
               PROVE  AtMostOne(d)' /\ (InGame(d)' => ~UnderWay(d)' /\ rid'[d] = lobbyRid'[d])
    BY <2>1 DEF Settled
  <2>2. AtMostOne(d) /\ UnderWay(d) /\ ~InGame(d)
    BY <2>1 DEF Settled, UnderWay
  <2>3. acks'[d] = <<>>
    <3>1. acks[d] \in Seq(Acks) /\ Len(acks[d]) = 1
      BY <2>1, <2>2 DEF AtMostOne, TypeOK, NetOK
    <3>2. Tail(acks[d]) \in Seq(Acks) /\ Len(Tail(acks[d])) = 0
      BY <2>1, <3>1
    <3> QED
      BY <2>1, <3>2, EmptySeq
  <2>4. AtMostOne(d)' /\ ~UnderWay(d)'
    BY <2>1, <2>2, <2>3 DEF AtMostOne, UnderWay, Asks
  <2>5. InGame(d)' => rid'[d] = a.room /\ lobbyRid'[d] = a.room
    BY <1>1, <2>2 DEF CompletionRuns, OpenLobby, InGame, TypeOK, NavOK
  <2> QED
    BY <2>4, <2>5
<1>2. CASE LobbyObserves(d) \/ InfoArrives(d) \/ UpdateTimer(d) \/ StatsObserves(d)
  <2>1. UNCHANGED <<outbox, acks, overlapped, rid, lobbyRid>>
    BY <1>2 DEF LobbyObserves, InfoArrives, UpdateTimer, StatsObserves, netVars, navVars,
                historyVars
  <2>2. InGame(d)' => InGame(d)
    BY <1>2 DEF LobbyObserves, InfoArrives, UpdateTimer, StatsObserves, ShowResults, InGame,
                navVars, TypeOK, NavOK
  <2> QED
    BY <2>1, <2>2 DEF Settled, AtMostOne, UnderWay
<1>3. CASE JudgeBackground(d)
  <2>1. PICK j \in judging[d] :
          /\ IF mark[d] THEN Send(d, MarkFor(d, j)) ELSE outbox' = outbox
          /\ UNCHANGED <<now, taps, serverVars, acks, navVars, statsVars, mark, historyVars>>
    BY <1>3 DEF JudgeBackground
  <2>2. UNCHANGED <<acks, overlapped, screen, rid, lobbyRid>>
    BY <2>1 DEF navVars, historyVars
  <2>3. MarkFor(d, j) \in Writes /\ ~Asks(MarkFor(d, j))
    BY ClockIsTime DEF MarkFor, Write, Writes, LimitValues, BetValues, TypeOK, LeaveOK, Asks
  <2> QED
    BY <2>1, <2>2, <2>3, PlainSendSettled, SettledUntouched DEF Untouched
<1> QED
  BY <1>1, <1>2, <1>3 DEF PhoneActs

(* The invariant holds at first.                                           *)
LEMMA RidInit == Init => RidInv
BY TypeInit DEF Init, RidInv, Settled, AtMostOne, InGame

(* Every step preserves it.                                                *)
LEMMA RidNext == RidInv /\ [Next]_vars => RidInv'
<1> SUFFICES ASSUME RidInv, [Next]_vars PROVE RidInv'
  OBVIOUS
<1>1. TypeOK /\ TypeOK'
  BY TypeNext DEF RidInv
<1>2. CASE Tick \/ UNCHANGED vars
  <2>1. \A e \in Devices : Untouched(e)
    BY <1>2 DEF Tick, vars, netVars, navVars, historyVars, Untouched
  <2> QED
    BY <1>1, <2>1, SettledUntouched DEF RidInv
<1>3. ASSUME NEW d \in Devices,
             UserActs(d) \/ ServerActs(d) \/ PhoneActs(d) \/ RejectWrite(d) \/ Kill(d)
      PROVE  RidInv'
  <2>1. \A e \in Devices : e # d => Settled(e)'
    BY <1>1, <1>3, OthersUntouched, SettledUntouched DEF RidInv
  <2>2. Settled(d)'
    BY <1>1, <1>3, UserSettled, ServerSettled, PhoneSettled DEF RidInv
  <2>3. \A e \in Devices : Settled(e)'
    BY <2>1, <2>2
  <2> QED
    BY <1>1, <2>3 DEF RidInv
<1> QED
  BY <1>2, <1>3 DEF Next

(* While creates and joins of a phone do not overlap, the lobby it shows   *)
(* and the games it plays are of the room that currentRID names.           *)
THEOREM RidIsStable == Spec => []RidStable
<1>1. RidInv => RidStable
  BY DEF RidInv, Settled, InGame, RidStable
<1> QED
  BY <1>1, RidInit, RidNext, PTL DEF Spec

-----------------------------------------------------------------------------
(* The proofs of DeadlineHonoured and OwedIsStaked for every value of      *)
(* UnplugGame's constants.  A countdown ends by what getInfoForRID read    *)
(* once, so the invariant relates what a stats screen read to the database *)
(* as it is now: the limit and the bet are still those of the room, and the*)
(* start is of somebody's press of Start, since the lobby had seen one and *)
(* no write takes it back.  The same invariant shows that UnplugGame       *)
(* implements Verdict, and what phones that name a leaver know of the      *)
(* others shows NamesRarelyDiffer.                                         *)

(* d plays or has played; until then nothing was read nor decided.         *)
Over(d) == screen[d] \in {"stats", "results"}

Unread(d) ==
  /\ ~Over(d) => info[d] = NoInfo /\ infoReq[d] = NoRoom /\ ~timerOn[d]
  /\ screen[d] # "results" => verdict[d] = NoVerdict

(* What was read of a room is still what the room says.                    *)
RoomsRead(d) ==
  /\ Known(infoReq[d]) /\ Known(info[d].room)
  /\ verdict[d].loser = Nobody => Known(verdict[d].room)
  /\ timerOn[d] => info[d].room # NoRoom
  /\ info[d].room # NoRoom =>
       /\ info[d].limit = rooms[info[d].room].timeLimit
       /\ screen[d] = "stats" => bet[d] = rooms[info[d].room].betAmount

(* It was read of the room on screen.                                      *)
OwnRoom(d) ==
  ~overlapped[d] /\ Over(d) =>
    infoReq[d] \in {NoRoom, lobbyRid[d]} /\ info[d].room \in {NoRoom, lobbyRid[d]}

(* The room on screen was started, and the countdown runs from a press.    *)
Started(d) ==
  ~overlapped[d] /\ "reject" \notin Faults /\ Over(d) =>
    /\ SeesStart(d, lobbyRid[d])
    /\ info[d].room # NoRoom => info[d].start \in pressed[info[d].room]

(* Whatever starts a room was pressed.                                     *)
PressedStarts ==
  /\ \A r \in RoomIds :
       rooms[r].timeStart \notin {Null, 0} => rooms[r].timeStart \in pressed[r]
  /\ \A d \in Devices : \A i \in DOMAIN outbox[d] :
       outbox[d][i].op = "start" => outbox[d][i].at \in pressed[outbox[d][i].room]

OnTime(d) ==
  /\ verdict[d].loser = Nobody /\ verdict[d].room \in Rooms
  /\ ~overlapped[d] /\ "reject" \notin Faults
  => \E t \in pressed[verdict[d].room] :
       Clock(d) + SECOND > t + rooms[verdict[d].room].timeLimit

Played(d) == Unread(d) /\ RoomsRead(d) /\ OwnRoom(d) /\ Started(d) /\ OnTime(d)

VerdictInv ==
  /\ RoomsBornOnce /\ RidInv /\ PressedStarts
  /\ \A d \in Devices : Played(d)

-----------------------------------------------------------------------------
(* What every step does to the rooms, the presses and the clocks.          *)

(* The room of no room is no room that may be missing.                     *)
LEMMA NoRoomKnown == NoRoom \notin RoomIds /\ NoRoom \notin Rooms
BY RoomsAssumption DEF RoomIds

(* A room that exists keeps its limit, its bet and its start.              *)
RoomKept(r) ==
  /\ rooms'[r].timeLimit = rooms[r].timeLimit /\ rooms'[r].betAmount = rooms[r].betAmount
  /\ rooms[r].timeStart \notin {Null, 0} => rooms'[r].timeStart \notin {Null, 0}

(* Every step keeps known rooms known and as they are.                     *)
LEMMA RoomsKept ==
  ASSUME RoomsBornOnce, [Next]_vars
  PROVE  /\ \A r : Known(r) => Known(r)'
         /\ \A r \in RoomIds : Known(r) => RoomKept(r)
<1>1. CASE UNCHANGED <<rooms, users>>
  BY <1>1 DEF Known, RoomKept
<1>2. CASE ~UNCHANGED <<rooms, users>>
  <2>1. PICK d \in Devices : ServerActs(d)
    BY <1>2, OnlyServerWrites
  <2> DEFINE h == Head(outbox[d])
  <2>2. \A r : Known(r) => Known(r)'
    BY <2>1, ServerKeepsFit
  <2>3. outbox[d] # <<>> /\ h \in Writes /\ h.room \in RoomIds /\ Fit(h)
    BY <2>1, HeadFit DEF ServerActs, CommitCreate, CommitJoin, CommitStart, CommitMark,
                         NextWrite, Writes
  <2>4. rooms \in [RoomIds -> Records]
    BY DEF RoomsBornOnce, TypeOK, ServerOK
  <2>5. ASSUME NEW r \in RoomIds, Known(r)
        PROVE  RoomKept(r)
    <3>1. CASE CommitCreate(d)
      <4>1. r # h.room
        BY <2>3, <2>5, <3>1 DEF CommitCreate, NextWrite, Fit, Known
      <4> QED
        BY <2>4, <3>1, <4>1 DEF CommitCreate, RoomKept
    <3>2. CASE CommitStart(d)
      <4>1. h.at \notin {Null, 0}
        BY <2>3, <3>2, StampsPositive DEF CommitStart, NextWrite, Fit
      <4> QED
        BY <2>3, <2>4, <3>2, <4>1 DEF CommitStart, RoomKept, Records
    <3>3. CASE CommitJoin(d) \/ CommitMark(d)
      BY <3>3 DEF CommitJoin, CommitMark, RoomKept
    <3> QED
      BY <2>1, <3>1, <3>2, <3>3 DEF ServerActs
  <2> QED
    BY <2>2, <2>5
<1> QED
  BY <1>1, <1>2

(* Presses accumulate and clocks go forward.                               *)
LEMMA HistoryGrows ==
  ASSUME TypeOK, [Next]_vars
  PROVE  /\ \A r \in RoomIds : pressed[r] \subseteq pressed'[r]
         /\ \A d \in Devices : Clock(d) \in Int /\ Clock(d)' \in Int /\ Clock(d) <= Clock(d)'
<1>1. \A r \in RoomIds : pressed[r] \subseteq pressed'[r]
  <2>1. CASE Tick \/ UNCHANGED vars
    BY <2>1 DEF Tick, vars, historyVars
  <2>2. ASSUME NEW d \in Devices, UserActs(d) \/ Kill(d)
        PROVE  \A r \in RoomIds : pressed[r] \subseteq pressed'[r]
    <3>1. CASE StartRoom(d)
      BY <3>1 DEF StartRoom, TypeOK, HistoryOK
    <3>2. CASE ~StartRoom(d)
      BY <2>2, <3>2 DEF UserActs, OpenSetup, BackTUI, ScanQRCode, CancelScan, CreateRoom,
            JoinScanned, Dismiss, AppBackgrounded, DeviceLocked, Relaunch, Kill,
            ProcessEnds, historyVars
    <3> QED
      BY <3>1, <3>2
  <2>3. ASSUME NEW d \in Devices, ServerActs(d) \/ PhoneActs(d) \/ RejectWrite(d)
        PROVE  \A r \in RoomIds : pressed[r] \subseteq pressed'[r]
    BY <2>3 DEF ServerActs, CommitCreate, CommitJoin, CommitStart, CommitMark, RejectWrite,
          PhoneActs, CompletionRuns, LobbyObserves, InfoArrives, UpdateTimer, StatsObserves,
          JudgeBackground, historyVars
  <2> QED
    BY <2>1, <2>2, <2>3 DEF Next
<1>2. now' \in {now, now + 1}
  <2>1. CASE Tick \/ UNCHANGED vars
    BY <2>1 DEF Tick, vars
  <2>2. ASSUME NEW d \in Devices, UserActs(d) \/ Kill(d)
        PROVE  now' = now
    BY <2>2 DEF UserActs, OpenSetup, BackTUI, ScanQRCode, CancelScan, CreateRoom,
          JoinScanned, Dismiss, StartRoom, AppBackgrounded, DeviceLocked, Relaunch, Kill,
          ProcessEnds
  <2>3. ASSUME NEW d \in Devices, ServerActs(d) \/ PhoneActs(d) \/ RejectWrite(d)
        PROVE  now' = now
    BY <2>3 DEF ServerActs, CommitCreate, CommitJoin, CommitStart, CommitMark, RejectWrite,
          PhoneActs, CompletionRuns, LobbyObserves, InfoArrives, UpdateTimer, StatsObserves,
          JudgeBackground
  <2> QED
    BY <2>1, <2>2, <2>3 DEF Next
<1>3. now \in Int /\ \A d \in Devices : Skew[d] \in Int
  BY TimeAssumption DEF TypeOK
<1> QED
  BY <1>1, <1>2, <1>3 DEF Clock

-----------------------------------------------------------------------------
(* What every step does to the queues.                                     *)

(* Steps that leave the queues alone.                                      *)
LEMMA QueuesIdle ==
  ASSUME NEW d \in Devices, UserActs(d) \/ PhoneActs(d) \/ Kill(d)
  PROVE  \/ UNCHANGED outbox
         \/ ProcessEnds(d)
         \/ StartRoom(d)
         \/ \E r \in Rooms, limit \in Limits, b \in Bets : CreateRoom(d, r, limit, b)
         \/ \E r \in RoomIds : JoinScanned(d, r)
         \/ \E j \in judging[d] : Send(d, MarkFor(d, j))
BY DEF UserActs, OpenSetup, BackTUI, ScanQRCode, CancelScan, Dismiss, AppBackgrounded,
       DeviceLocked, Relaunch, Kill, PhoneActs, CompletionRuns, LobbyObserves, InfoArrives,
       UpdateTimer, StatsObserves, JudgeBackground, netVars

(* What a phone queues: a press of Start, or a write that starts nothing.  *)
LEMMA QueuesSend ==
  ASSUME TypeOK, NEW d \in Devices, UserActs(d) \/ PhoneActs(d) \/ Kill(d)
  PROVE  \/ UNCHANGED outbox
         \/ ProcessEnds(d)
         \/ \E w \in Writes : /\ Send(d, w)
                              /\ \/ w.op # "start"
                                 \/ StartRoom(d) /\ w.room = rid[d] /\ w.at = Clock(d)
<1>1. CASE StartRoom(d)
  <2> DEFINE w == Write("start", rid[d], Clock(d), 0, 0, 0)
  <2>1. rid[d] \in RoomIds /\ Clock(d) \in TimeValues
    BY <1>1, ClockIsTime DEF StartRoom, TypeOK, RoomOnScreen
  <2>2. w \in Writes /\ w.room = rid[d] /\ w.at = Clock(d)
    BY <2>1 DEF Write, Writes, LimitValues, BetValues
  <2> QED
    BY <1>1, <2>2 DEF StartRoom
<1>2. ASSUME NEW r \in Rooms, NEW limit \in Limits, NEW b \in Bets,
             CreateRoom(d, r, limit, b)
      PROVE  \E w \in Writes : Send(d, w) /\ w.op # "start"
  <2> DEFINE w == Write("create", r, 0, limit, b, setupNo[d])
  <2>1. w \in Writes /\ w.op # "start"
    BY DEF Write, Writes, TimeValues, LimitValues, BetValues, RoomIds, TypeOK, NavOK
  <2> QED
    BY <1>2, <2>1 DEF CreateRoom
<1>3. ASSUME NEW r \in RoomIds, JoinScanned(d, r)
      PROVE  \E w \in Writes : Send(d, w) /\ w.op # "start"
  <2> DEFINE w == Write("join", r, 0, 0, 0, 0)
  <2>1. w \in Writes /\ w.op # "start"
    BY DEF Write, Writes, TimeValues, LimitValues, BetValues
  <2> QED
    BY <1>3, <2>1 DEF JoinScanned
<1>4. ASSUME NEW j \in judging[d], Send(d, MarkFor(d, j))
      PROVE  \E w \in Writes : Send(d, w) /\ w.op # "start"
  <2>1. MarkFor(d, j) \in Writes /\ MarkFor(d, j).op # "start"
    BY ClockIsTime DEF MarkFor, Write, Writes, LimitValues, BetValues, TypeOK, LeaveOK
  <2> QED
    BY <1>4, <2>1
<1> QED
  BY <1>1, <1>2, <1>3, <1>4, QueuesIdle

(* A start comes to be pending by being pressed.                           *)
LEMMA StartsPending ==
  ASSUME TypeOK, PressedStarts, [Next]_vars,
         NEW e \in Devices, NEW i \in DOMAIN outbox'[e], outbox'[e][i].op = "start"
  PROVE  outbox'[e][i].at \in pressed'[outbox'[e][i].room]
<1>1. NetOK /\ \A r \in RoomIds : pressed[r] \subseteq pressed'[r]
  BY HistoryGrows DEF TypeOK
<1>2. CASE \E k \in DOMAIN outbox[e] : outbox'[e][i] = outbox[e][k]
  <2>1. PICK k \in DOMAIN outbox[e] : outbox'[e][i] = outbox[e][k]
    BY <1>2
  <2>2. outbox[e][k].room \in RoomIds
    BY <1>1, PendingTyped DEF Writes
  <2> QED
    BY <1>1, <2>1, <2>2 DEF PressedStarts
<1>3. CASE Tick \/ UNCHANGED vars
  BY <1>2, <1>3 DEF Tick, vars, netVars
<1>4. ASSUME NEW d \in Devices, ServerActs(d) \/ RejectWrite(d)
      PROVE  \E k \in DOMAIN outbox[e] : outbox'[e][i] = outbox[e][k]
  <2>1. outbox[d] # <<>> /\ Applied(d)
    BY <1>4 DEF ServerActs, CommitCreate, CommitJoin, CommitStart, CommitMark, NextWrite,
                RejectWrite
  <2> QED
    BY <1>1, <2>1, QueueApplied
<1>5. ASSUME NEW d \in Devices, UserActs(d) \/ PhoneActs(d) \/ Kill(d)
      PROVE  outbox'[e][i].at \in pressed'[outbox'[e][i].room]
  <2>1. CASE UNCHANGED outbox
    BY <1>2, <2>1
  <2>2. CASE ProcessEnds(d)
    BY <1>1, <1>2, <2>2 DEF ProcessEnds, NetOK
  <2>3. ASSUME NEW w \in Writes, Send(d, w),
               \/ w.op # "start"
               \/ StartRoom(d) /\ w.room = rid[d] /\ w.at = Clock(d)
        PROVE  outbox'[e][i].at \in pressed'[outbox'[e][i].room]
    <3>1. \/ i \in DOMAIN outbox[e] /\ outbox'[e][i] = outbox[e][i]
          \/ e = d /\ outbox'[e][i] = w
      BY <1>1, <2>3, QueueSent
    <3>2. StartRoom(d) => Clock(d) \in pressed'[rid[d]]
      BY DEF StartRoom, TypeOK, RoomOnScreen, HistoryOK
    <3> QED
      BY <1>2, <2>3, <3>1, <3>2
  <2> QED
    BY <1>5, <2>1, <2>2, <2>3, QueuesSend
<1> QED
  BY <1>2, <1>3, <1>4, <1>5 DEF Next

(* So does the start that the server holds.                                *)
LEMMA PressedNext ==
  ASSUME RoomsBornOnce, PressedStarts, [Next]_vars
  PROVE  PressedStarts'
<1>1. TypeOK /\ \A r \in RoomIds : pressed[r] \subseteq pressed'[r]
  BY HistoryGrows DEF RoomsBornOnce
<1>2. ASSUME NEW r \in RoomIds, rooms'[r].timeStart \notin {Null, 0}
      PROVE  rooms'[r].timeStart \in pressed'[r]
  <2>1. CASE rooms'[r].timeStart = rooms[r].timeStart
    BY <1>1, <1>2, <2>1 DEF PressedStarts
  <2>2. CASE rooms'[r].timeStart # rooms[r].timeStart
    <3>1. PICK d \in Devices : ServerActs(d)
      BY <2>2, OnlyServerWrites
    <3> DEFINE h == Head(outbox[d])
    <3>2. 1 \in DOMAIN outbox[d] /\ outbox[d][1] = h /\ h.room \in RoomIds
      BY <3>1, HeadFit DEF ServerActs, CommitCreate, CommitJoin, CommitStart, CommitMark,
                           NextWrite, Writes
    <3>3. CommitStart(d) /\ r = h.room /\ rooms'[r].timeStart = h.at
      <4>1. rooms \in [RoomIds -> Records]
        BY <1>1 DEF TypeOK, ServerOK
      <4>2. ~CommitCreate(d)
        <5>1. CASE r # h.room
          BY <2>2, <4>1, <5>1 DEF CommitCreate
        <5>2. CASE r = h.room /\ CommitCreate(d)
          <6>1. rooms'[r].timeStart = 0
            BY <3>2, <4>1, <5>2 DEF CommitCreate
          <6> QED
            BY <1>2, <6>1
        <5> QED
          BY <5>1, <5>2
      <4>3. ~CommitJoin(d) /\ ~CommitMark(d)
        BY <2>2 DEF CommitJoin, CommitMark
      <4>4. CommitStart(d)
        BY <3>1, <4>2, <4>3 DEF ServerActs
      <4> QED
        BY <2>2, <3>2, <4>1, <4>4 DEF CommitStart, Records
    <3>4. h.at \in pressed[h.room]
      BY <3>2, <3>3 DEF PressedStarts, CommitStart, NextWrite
    <3> QED
      BY <1>1, <3>3, <3>4
  <2> QED
    BY <2>1, <2>2
<1> QED
  BY <1>1, <1>2, StartsPending DEF PressedStarts

(* Without refusals a start that a phone has seen stays in its view.       *)
LEMMA StartStaysSeen ==
  ASSUME RoomsBornOnce, [Next]_vars, "reject" \notin Faults,
         NEW e \in Devices, NEW r \in RoomIds, Known(r), SeesStart(e, r),
         screen'[e] # "closed"
  PROVE  SeesStart(e, r)'
<1>1. TypeOK /\ NetOK
  BY DEF RoomsBornOnce, TypeOK
<1>2. CASE rooms[r].timeStart \notin {Null, 0}
  BY <1>2, RoomsKept DEF RoomKept, SeesStart
<1>3. ASSUME NEW i \in DOMAIN outbox[e], outbox[e][i].op = "start", outbox[e][i].room = r
      PROVE  SeesStart(e, r)'
  <2>1. ASSUME NEW k \in DOMAIN outbox'[e], outbox'[e][k] = outbox[e][i]
        PROVE  SeesStart(e, r)'
    BY <1>3, <2>1 DEF SeesStart
  <2>2. CASE UNCHANGED outbox
    BY <2>1, <2>2
  <2>3. CASE Tick \/ UNCHANGED vars
    BY <2>2, <2>3 DEF Tick, vars, netVars
  <2>4. ASSUME NEW d \in Devices, UserActs(d) \/ PhoneActs(d) \/ Kill(d)
        PROVE  SeesStart(e, r)'
    <3>1. CASE ProcessEnds(d)
      <4>1. e # d
        BY <1>1, <3>1 DEF ProcessEnds, TypeOK, NavOK
      <4>2. outbox'[e] = outbox[e]
        BY <1>1, <3>1, <4>1 DEF ProcessEnds, NetOK
      <4> QED
        BY <2>1, <4>2
    <3>2. ASSUME NEW w \in Writes, Send(d, w)
          PROVE  SeesStart(e, r)'
      <4>1. outbox[e] \in Seq(Writes) /\ i \in DOMAIN outbox'[e] /\ outbox'[e][i] = outbox[e][i]
        BY <1>1, <3>2 DEF Send, NetOK
      <4> QED
        BY <2>1, <4>1
    <3> QED
      BY <1>1, <2>2, <2>4, <3>1, <3>2, QueuesSend
  <2>5. ASSUME NEW d \in Devices, ServerActs(d)
        PROVE  SeesStart(e, r)'
    <3>1. outbox[d] # <<>> /\ Applied(d) /\ outbox[d] \in Seq(Writes)
          /\ outbox \in [Devices -> Seq(Writes)]
      BY <1>1, <2>5 DEF ServerActs, CommitCreate, CommitJoin, CommitStart, CommitMark,
                        NextWrite, NetOK
    <3>2. CASE e # d
      BY <2>1, <3>1, <3>2 DEF Applied
    <3>3. CASE e = d /\ i # 1
      <4>1. outbox'[d] = Tail(outbox[d])
        BY <3>1 DEF Applied
      <4>2. i - 1 \in DOMAIN outbox'[e] /\ outbox'[e][i - 1] = outbox[e][i]
        BY <3>1, <3>3, <4>1
      <4> QED
        BY <2>1, <4>2
    <3>4. CASE e = d /\ i = 1
      <4>1. Head(outbox[d]) = outbox[d][1]
        BY <3>1
      <4>2. CommitStart(d) /\ Head(outbox[d]).room = r /\ Fit(Head(outbox[d]))
        BY <1>3, <2>5, <3>1, <3>4, <4>1, HeadFit
           DEF ServerActs, CommitCreate, CommitJoin, CommitMark, NextWrite
      <4>3. Head(outbox[d]).at \notin {Null, 0}
        BY <1>3, <3>4, <4>1, <4>2, StampsPositive DEF Fit
      <4>4. rooms'[r].timeStart = Head(outbox[d]).at
        BY <1>1, <4>2 DEF CommitStart, TypeOK, ServerOK, Records
      <4> QED
        BY <4>3, <4>4 DEF SeesStart
    <3> QED
      BY <3>2, <3>3, <3>4
  <2> QED
    BY <2>3, <2>4, <2>5 DEF Next, RejectWrite
<1> QED
  BY <1>2, <1>3 DEF SeesStart

-----------------------------------------------------------------------------
(* What a step does to what a phone read and shows.                        *)

SameScreens(e) ==
  /\ screen'[e] = screen[e] /\ lobbyRid'[e] = lobbyRid[e] /\ overlapped'[e] = overlapped[e]
  /\ info'[e] = info[e] /\ infoReq'[e] = infoReq[e] /\ (timerOn'[e] => timerOn[e])
  /\ verdict'[e] = verdict[e] /\ bet'[e] = bet[e]

(* The rooms a phone read of are rooms or no room.                         *)
LEMMA ReadTyped ==
  ASSUME TypeOK, NEW e \in Devices
  PROVE  /\ info[e] \in [room : RoomOrNone, start : TimeValues, limit : LimitValues]
         /\ infoReq[e] \in RoomIds \/ infoReq[e] = NoRoom
         /\ info[e].room \in RoomIds \/ info[e].room = NoRoom
         /\ rooms \in [RoomIds -> Records] /\ Rooms \subseteq RoomIds
         /\ Over(e) => lobbyRid[e] \in RoomIds
BY DEF TypeOK, StatsOK, ServerOK, RoomOrNone, RoomIds, Over, RoomOnScreen

(* Limits are integers, missing or not.                                    *)
LEMMA LimitTyped ==
  ASSUME TypeOK, NEW r \in RoomIds
  PROVE  /\ rooms[r].timeLimit \in Int /\ rooms[r].timeLimit <= DoubleValue(rooms[r].timeLimit)
         /\ DoubleValue(rooms[r].timeLimit) \in Int
<1>1. rooms[r].timeLimit \in LimitValues
  BY DEF TypeOK, ServerOK, Records
<1>2. \A x \in LimitValues : x \in Nat \/ x = -1
  BY SetupAssumption DEF LimitValues, Null
<1> QED
  BY <1>1, <1>2 DEF DoubleValue, Null

(* A phone whose screens a step leaves alone.                              *)
LEMMA PlayedKept ==
  ASSUME VerdictInv, [Next]_vars, NEW e \in Devices, SameScreens(e)
  PROVE  Played(e)'
<1>1. TypeOK /\ RoomsBornOnce /\ Played(e) /\ Settled(e)
  BY DEF VerdictInv, RoomsBornOnce, RidInv
<1>2. /\ \A r : Known(r) => Known(r)'
      /\ \A r \in RoomIds : Known(r) => RoomKept(r)
  BY <1>1, RoomsKept
<1>3. /\ \A r \in RoomIds : pressed[r] \subseteq pressed'[r]
      /\ Clock(e) \in Int /\ Clock(e)' \in Int /\ Clock(e) <= Clock(e)'
  BY <1>1, HistoryGrows
<1>4. Unread(e)' /\ OwnRoom(e)'
  BY <1>1 DEF Played, Unread, OwnRoom, Over, SameScreens
<1>5. RoomsRead(e)'
  <2>1. Known(infoReq[e])' /\ Known(info[e].room)' /\
        (verdict'[e].loser = Nobody => Known(verdict[e].room)')
    BY <1>1, <1>2 DEF Played, RoomsRead, SameScreens, Known
  <2>2. info[e].room # NoRoom => RoomKept(info[e].room)
    BY <1>1, <1>2, ReadTyped DEF Played, RoomsRead
  <2> QED
    BY <1>1, <2>1, <2>2 DEF Played, RoomsRead, SameScreens, RoomKept
<1>6. Started(e)'
  <2> SUFFICES ASSUME ~overlapped[e], "reject" \notin Faults, Over(e)
               PROVE  /\ SeesStart(e, lobbyRid[e])'
                      /\ info'[e].room # NoRoom => info'[e].start \in pressed'[info'[e].room]
    BY DEF Started, Over, SameScreens
  <2>1. SeesStart(e, lobbyRid[e]) /\ lobbyRid[e] \in RoomIds /\ Known(lobbyRid[e])
    BY <1>1, ReadTyped DEF Played, Started, RoomsBornOnce, PhonesKnown
  <2>2. screen'[e] # "closed"
    BY DEF SameScreens, Over
  <2>3. \A r \in RoomIds : r = lobbyRid[e] => SeesStart(e, r)'
    BY <1>1, <2>1, <2>2, StartStaysSeen
  <2>4. SeesStart(e, lobbyRid[e])'
    BY <2>1, <2>3 DEF SameScreens, SeesStart
  <2>5. info[e].room # NoRoom => info[e].room \in RoomIds /\ info[e].start \in pressed[info[e].room]
    BY <1>1, ReadTyped DEF Played, Started
  <2> QED
    BY <1>3, <2>4, <2>5 DEF SameScreens
<1>7. OnTime(e)'
  <2> SUFFICES ASSUME verdict[e].loser = Nobody, verdict[e].room \in Rooms,
                      ~overlapped[e], "reject" \notin Faults
               PROVE  \E t \in pressed'[verdict[e].room] :
                        Clock(e)' + SECOND > t + rooms'[verdict[e].room].timeLimit
    BY DEF OnTime, SameScreens
  <2> DEFINE r == verdict[e].room
  <2>1. r \in RoomIds /\ Known(r)
    BY <1>1 DEF Played, RoomsRead, RoomIds
  <2>2. PICK t \in pressed[r] : Clock(e) + SECOND > t + rooms[r].timeLimit
    BY <1>1 DEF Played, OnTime
  <2>3. t \in pressed'[r] /\ t \in Int
    BY <1>1, <1>3, <2>1, StampsPositive DEF TypeOK, HistoryOK
  <2>4. rooms'[r].timeLimit = rooms[r].timeLimit
    BY <1>2, <2>1 DEF RoomKept
  <2>5. rooms[r].timeLimit \in Int
    BY <1>1, <2>1, LimitTyped
  <2>6. Clock(e)' + SECOND > t + rooms[r].timeLimit
    BY <1>3, <2>2, <2>3, <2>5 DEF SECOND
  <2> QED
    BY <2>3, <2>4, <2>6
<1> QED
  BY <1>4, <1>5, <1>6, <1>7 DEF Played

(* A phone that does not play yet, or not any more.                        *)
LEMMA PlayedFresh ==
  ASSUME NEW e \in Devices, ~Over(e)',
         info'[e] = NoInfo, infoReq'[e] = NoRoom, ~timerOn'[e],
         verdict'[e] = NoVerdict
  PROVE  Played(e)'
<1>1. Known(NoRoom)'
  BY NoRoomKnown DEF Known
<1>2. info'[e].room = NoRoom /\ verdict'[e].loser = Null /\ Null # Nobody
  BY DEF NoInfo, NoVerdict, Null, Nobody
<1>3. Unread(e)' /\ OwnRoom(e)' /\ Started(e)'
  BY DEF Unread, OwnRoom, Started
<1>4. RoomsRead(e)' /\ OnTime(e)'
  BY <1>1, <1>2 DEF RoomsRead, OnTime, Known
<1> QED
  BY <1>3, <1>4 DEF Played

(* What one phone does leaves the screens of the others alone.             *)
LEMMA OthersScreens ==
  ASSUME TypeOK, NEW d \in Devices, NEW e \in Devices, e # d,
         UserActs(d) \/ ServerActs(d) \/ PhoneActs(d) \/ RejectWrite(d) \/ Kill(d)
  PROVE  SameScreens(e)
<1> USE DEF TypeOK, NavOK, StatsOK, HistoryOK
<1>1. screen'[e] = screen[e] /\ lobbyRid'[e] = lobbyRid[e] /\ overlapped'[e] = overlapped[e]
  BY OthersUntouched DEF Untouched
<1>2. CASE UserActs(d) \/ Kill(d)
  BY <1>1, <1>2 DEF UserActs, OpenSetup, BackTUI, ScanQRCode, CancelScan, CreateRoom,
              JoinScanned, Dismiss, StartRoom, AppBackgrounded, DeviceLocked, Relaunch,
              Kill, ProcessEnds, statsVars, SameScreens
<1>3. CASE ServerActs(d) \/ RejectWrite(d)
  BY <1>1, <1>3 DEF ServerActs, CommitCreate, CommitJoin, CommitStart, CommitMark,
              RejectWrite, statsVars, SameScreens
<1>4. CASE PhoneActs(d)
  <2>1. CASE CompletionRuns(d)
    BY <1>1, <2>1 DEF CompletionRuns, OpenLobby, SameScreens
  <2>2. CASE LobbyObserves(d) \/ InfoArrives(d) \/ JudgeBackground(d)
    BY <1>1, <2>2 DEF LobbyObserves, InfoArrives, JudgeBackground, statsVars, SameScreens
  <2>3. CASE UpdateTimer(d) \/ StatsObserves(d)
    BY <1>1, <2>3 DEF UpdateTimer, StatsObserves, ShowResults, SameScreens
  <2> QED
    BY <1>4, <2>1, <2>2, <2>3 DEF PhoneActs
<1> QED
  BY <1>2, <1>3, <1>4

(* The user's steps and the end of the process.                            *)
LEMMA PlayedUser ==
  ASSUME VerdictInv, [Next]_vars, NEW d \in Devices, UserActs(d) \/ Kill(d)
  PROVE  Played(d)'
<1>1. TypeOK /\ Played(d)
  BY DEF VerdictInv, RidInv
<1>2. CASE OpenSetup(d) \/ BackTUI(d) \/ ScanQRCode(d) \/ Dismiss(d) \/ Relaunch(d)
  <2>1. ~Over(d) /\ screen[d] # "results"
    BY <1>2 DEF OpenSetup, BackTUI, ScanQRCode, Dismiss, Relaunch, Over
  <2>2. ~Over(d)' /\ UNCHANGED <<info, infoReq, timerOn, verdict>>
    BY <1>1, <1>2 DEF OpenSetup, BackTUI, ScanQRCode, Dismiss, Relaunch, Over, statsVars,
                      TypeOK, NavOK
  <2> QED
    BY <1>1, <2>1, <2>2, PlayedFresh DEF Played, Unread
<1>3. ASSUME \/ \E r \in Rooms, limit \in Limits, b \in Bets : CreateRoom(d, r, limit, b)
             \/ \E r \in RoomIds : JoinScanned(d, r)
      PROVE  Played(d)'
  <2>1. ~Over(d) /\ screen[d] # "results"
    BY <1>3 DEF CreateRoom, JoinScanned, Over
  <2>2. ~Over(d)' /\ UNCHANGED <<info, infoReq, timerOn, verdict>>
    BY <1>1, <1>3 DEF CreateRoom, JoinScanned, Over, statsVars, navVars, TypeOK, NavOK
  <2> QED
    BY <1>1, <2>1, <2>2, PlayedFresh DEF Played, Unread
<1>4. CASE StartRoom(d) \/ AppBackgrounded(d) \/ DeviceLocked(d)
  <2>1. SameScreens(d)
    BY <1>4 DEF StartRoom, AppBackgrounded, DeviceLocked, SameScreens, navVars, statsVars,
                historyVars
  <2> QED
    BY <2>1, PlayedKept
<1>5. CASE CancelScan(d) \/ Kill(d)
  <2>1. ~Over(d)' /\ info'[d] = NoInfo /\ infoReq'[d] = NoRoom /\ ~timerOn'[d]
        /\ verdict'[d] = NoVerdict
    BY <1>1, <1>5 DEF CancelScan, Kill, ProcessEnds, Over, TypeOK, NavOK, StatsOK
  <2> QED
    BY <2>1, PlayedFresh
<1> QED
  BY <1>2, <1>3, <1>4, <1>5 DEF UserActs

(* The lobby opens the stats screen on a start it saw.                     *)
LEMMA PlayedLobby ==
  ASSUME VerdictInv, [Next]_vars, NEW d \in Devices, LobbyObserves(d)
  PROVE  Played(d)'
<1>1. TypeOK /\ Played(d) /\ Settled(d) /\ RoomsBornOnce
  BY DEF VerdictInv, RidInv
<1>2. info[d] = NoInfo /\ ~timerOn[d] /\ verdict[d] = NoVerdict
  BY <1>1 DEF LobbyObserves, Played, Unread, Over
<1>3. /\ info'[d] = NoInfo /\ ~timerOn'[d] /\ verdict'[d] = NoVerdict
      /\ screen'[d] = "stats" /\ infoReq'[d] = rid[d] /\ lobbyRid'[d] = lobbyRid[d]
      /\ overlapped'[d] = overlapped[d]
      /\ UNCHANGED <<rooms, outbox>>
  BY <1>1, <1>2 DEF LobbyObserves, TypeOK, NavOK, StatsOK, serverVars, netVars, historyVars
<1>4. info'[d].room = NoRoom /\ verdict'[d].loser = Null /\ Null # Nobody
  BY <1>3 DEF NoInfo, NoVerdict, Null, Nobody
<1>5. Unread(d)' /\ OnTime(d)'
  BY <1>3, <1>4 DEF Unread, Over, OnTime
<1>6. RoomsRead(d)'
  BY <1>1, <1>3, <1>4, NoRoomKnown DEF RoomsRead, Known, RoomsBornOnce, PhonesKnown
<1>7. OwnRoom(d)'
  BY <1>1, <1>3, <1>4 DEF OwnRoom, Settled, InGame, LobbyObserves
<1>8. Started(d)'
  BY <1>3, <1>4 DEF Started, LobbyObserves, SeesStart
<1> QED
  BY <1>5, <1>6, <1>7, <1>8 DEF Played

(* The answer of getInfoForRID.                                            *)
LEMMA PlayedInfo ==
  ASSUME VerdictInv, [Next]_vars, NEW d \in Devices, InfoArrives(d)
  PROVE  Played(d)'
<1> DEFINE r == infoReq[d]
<1>1. TypeOK /\ Played(d) /\ RoomsBornOnce /\ PressedStarts
  BY DEF VerdictInv, RidInv
<1>2. r \in RoomIds /\ r # NoRoom /\ Over(d)
  BY <1>1, ReadTyped DEF InfoArrives, Played, Unread
<1>3. PICK t \in StartRead(d, r) : info' = [info EXCEPT ![d] =
                  [room |-> r, start |-> t, limit |-> rooms[r].timeLimit]]
  BY DEF InfoArrives
<1>4. /\ info'[d].room = r /\ info'[d].start = t /\ info'[d].limit = rooms[r].timeLimit
      /\ infoReq'[d] = NoRoom /\ bet'[d] = rooms[r].betAmount
      /\ timerOn'[d] = TRUE
  BY <1>1, <1>3 DEF InfoArrives, BetRead, TypeOK, StatsOK
<1>5. UNCHANGED <<now, rooms, outbox, screen, lobbyRid, overlapped, verdict, pressed>>
  BY DEF InfoArrives, serverVars, netVars, navVars, historyVars
<1>6. Unread(d)' /\ OwnRoom(d)' /\ OnTime(d)'
  BY <1>1, <1>2, <1>4, <1>5 DEF Played, Unread, OwnRoom, OnTime, Over, Clock
<1>7. RoomsRead(d)'
  BY <1>1, <1>2, <1>4, <1>5, NoRoomKnown DEF Played, RoomsRead, Known
<1>8. Started(d)'
  <2> SUFFICES ASSUME ~overlapped[d], "reject" \notin Faults
               PROVE  /\ SeesStart(d, lobbyRid[d])'
                      /\ t \in pressed[r]
    BY <1>4, <1>5 DEF Started
  <2>1. SeesStart(d, lobbyRid[d]) /\ r = lobbyRid[d]
    BY <1>1, <1>2 DEF Played, Started, OwnRoom
  <2>2. SeesStart(d, lobbyRid[d])'
    BY <1>5, <2>1 DEF SeesStart
  <2>3. t \in pressed[r]
    <3> DEFINE mine == {i \in DOMAIN outbox[d] :
                          outbox[d][i].op = "start" /\ outbox[d][i].room = r}
    <3>1. CASE mine = {}
      <4>1. rooms[r].timeStart \notin {Null, 0}
        BY <2>1, <3>1 DEF SeesStart
      <4>2. t = rooms[r].timeStart
        BY <3>1 DEF StartRead
      <4> QED
        BY <1>1, <1>2, <4>1, <4>2 DEF PressedStarts
    <3>2. CASE mine # {}
      <4> DEFINE last == {k \in mine : \A j \in mine : j <= k}
      <4>1. StartRead(d, r) = {outbox[d][i].at : i \in last}
        BY <3>2 DEF StartRead
      <4> HIDE DEF last
      <4>2. PICK i \in last : t = outbox[d][i].at
        BY <4>1
      <4>3. i \in mine
        BY DEF last
      <4> QED
        BY <1>1, <4>2, <4>3 DEF PressedStarts
    <3> QED
      BY <3>1, <3>2
  <2> QED
    BY <2>2, <2>3
<1> QED
  BY <1>6, <1>7, <1>8 DEF Played

(* The two ways to the results screen, each with what it shows.            *)
LEMMA ResultsOpen ==
  ASSUME TypeOK, NEW d \in Devices, UpdateTimer(d) \/ StatsObserves(d), screen[d] = "stats"
  PROVE  /\ screen'[d] = "results" /\ verdict'[d].bet = bet[d]
         /\ \/ verdict'[d].loser \in Devices
            \/ verdict'[d].loser = Nobody /\ verdict'[d].room = info[d].room
               /\ timerOn[d] /\ Expired(d)
         /\ timerOn'[d] => timerOn[d]
         /\ UNCHANGED <<now, rooms, outbox, lobbyRid, overlapped, info, infoReq, pressed>>
<1>1. UNCHANGED <<now, rooms, outbox, lobbyRid, overlapped, info, infoReq, pressed>>
  BY DEF UpdateTimer, StatsObserves, serverVars, netVars, historyVars
<1>2. timerOn'[d] => timerOn[d]
  BY DEF UpdateTimer, StatsObserves, TypeOK, StatsOK
<1>3. ASSUME NEW p, NEW r, ShowResults(d, p, r)
      PROVE  /\ screen'[d] = "results" /\ verdict'[d].bet = bet[d]
             /\ verdict'[d].loser = p /\ verdict'[d].room = r
  <2> DEFINE v == [loser |-> p, bet |-> bet[d], room |-> r]
  <2>1. verdict' = [verdict EXCEPT ![d] = v] /\ screen' = [screen EXCEPT ![d] = "results"]
    BY <1>3 DEF ShowResults
  <2>2. v.loser = p /\ v.bet = bet[d] /\ v.room = r
    OBVIOUS
  <2> HIDE DEF v
  <2> QED
    BY <2>1, <2>2 DEF TypeOK, StatsOK, NavOK
<1>4. CASE UpdateTimer(d)
  BY <1>1, <1>2, <1>3, <1>4 DEF UpdateTimer
<1>5. CASE StatsObserves(d)
  BY <1>1, <1>2, <1>3, <1>5 DEF StatsObserves
<1> QED
  BY <1>4, <1>5

(* A countdown that ends was read from a press and from the room's limit.  *)
LEMMA PlayedResults ==
  ASSUME VerdictInv, [Next]_vars, NEW d \in Devices, UpdateTimer(d) \/ StatsObserves(d)
  PROVE  Played(d)'
<1>1. TypeOK /\ Played(d)
  BY DEF VerdictInv, RidInv
<1>2. CASE screen[d] # "stats"
  <2>1. SameScreens(d)
    BY <1>1, <1>2 DEF UpdateTimer, StatsObserves, ShowResults, SameScreens, TypeOK, StatsOK,
                      historyVars
  <2> QED
    BY <2>1, PlayedKept
<1>3. CASE screen[d] = "stats"
  <2> DEFINE r == info[d].room
  <2>1. /\ screen'[d] = "results"
        /\ \/ verdict'[d].loser \in Devices
           \/ verdict'[d].loser = Nobody /\ verdict'[d].room = r
              /\ timerOn[d] /\ Expired(d)
        /\ timerOn'[d] => timerOn[d]
        /\ UNCHANGED <<now, rooms, outbox, lobbyRid, overlapped, info, infoReq, pressed>>
    BY <1>1, <1>3, ResultsOpen
  <2>2. Unread(d)' /\ OwnRoom(d)'
    BY <1>1, <1>3, <2>1 DEF Played, Unread, OwnRoom, Over
  <2>3. RoomsRead(d)'
    BY <1>1, <2>1, NotAPlayer DEF Played, RoomsRead, Known
  <2>4. Started(d)'
    BY <1>1, <1>3, <2>1 DEF Played, Started, Over, SeesStart
  <2>5. OnTime(d)'
    <3> SUFFICES ASSUME verdict'[d].loser = Nobody, ~overlapped[d], "reject" \notin Faults
                 PROVE  \E t \in pressed[r] : Clock(d) + SECOND > t + rooms[r].timeLimit
      BY <2>1, NotAPlayer DEF OnTime, Clock
    <3> DEFINE t == info[d].start
    <3>1. timerOn[d] /\ Expired(d) /\ r \in RoomIds
      BY <1>1, <2>1, NotAPlayer, ReadTyped DEF Played, RoomsRead
    <3>2. t \in pressed[r] /\ info[d].limit = rooms[r].timeLimit
      BY <1>1, <1>3, <3>1, NoRoomKnown DEF Played, Started, RoomsRead, Over
    <3>3. t \in Nat /\ DoubleValue(t) = t
      BY <1>1, <3>1, <3>2, StampsPositive DEF TypeOK, HistoryOK, DoubleValue
    <3>4. DoubleValue(rooms[r].timeLimit) \in Int /\ rooms[r].timeLimit \in Int
          /\ rooms[r].timeLimit <= DoubleValue(rooms[r].timeLimit)
      BY <1>1, <3>1, LimitTyped
    <3>5. t + DoubleValue(rooms[r].timeLimit) - Clock(d) < SECOND
      BY <3>1, <3>2, <3>3 DEF Expired
    <3>6. Clock(d) \in Int
      BY <1>1, HistoryGrows
    <3>7. Clock(d) + SECOND > t + rooms[r].timeLimit
      BY <3>3, <3>4, <3>5, <3>6 DEF SECOND
    <3> QED
      BY <3>2, <3>7
  <2> QED
    BY <2>2, <2>3, <2>4, <2>5 DEF Played
<1> QED
  BY <1>2, <1>3

-----------------------------------------------------------------------------
(* The invariant and the theorems.                                         *)

(* It holds at first.                                                      *)
LEMMA VerdictInit == Init => VerdictInv
<1> SUFFICES ASSUME Init PROVE VerdictInv
  OBVIOUS
<1>1. RoomsBornOnce /\ RidInv /\ PressedStarts
  BY BornInit, RidInit DEF Init, PressedStarts, NoRecord
<1>2. ASSUME NEW d \in Devices
      PROVE  Played(d)
  <2>1. ~Over(d) /\ info[d] = NoInfo /\ infoReq[d] = NoRoom /\ ~timerOn[d]
        /\ verdict[d] = NoVerdict
    BY DEF Init, Over
  <2>2. info[d].room = NoRoom /\ verdict[d].loser # Nobody
    BY <2>1 DEF NoInfo, NoVerdict, Null, Nobody
  <2> QED
    BY <2>1, <2>2, NoRoomKnown
       DEF Played, Unread, RoomsRead, OwnRoom, Started, OnTime, Known
<1> QED
  BY <1>1, <1>2 DEF VerdictInv

(* Every step preserves it.                                                *)
LEMMA VerdictNext == VerdictInv /\ [Next]_vars => VerdictInv'
<1> SUFFICES ASSUME VerdictInv, [Next]_vars PROVE VerdictInv'
  OBVIOUS
<1>1. RoomsBornOnce' /\ RidInv' /\ PressedStarts' /\ TypeOK
  BY BornNext, RidNext, PressedNext DEF VerdictInv, RidInv
<1>2. CASE Tick \/ UNCHANGED vars
  <2>1. \A e \in Devices : SameScreens(e)
    BY <1>2 DEF Tick, vars, navVars, statsVars, historyVars, SameScreens
  <2> QED
    BY <1>1, <2>1, PlayedKept DEF VerdictInv
<1>3. ASSUME NEW d \in Devices,
             UserActs(d) \/ ServerActs(d) \/ PhoneActs(d) \/ RejectWrite(d) \/ Kill(d)
      PROVE  VerdictInv'
  <2>1. ASSUME NEW e \in Devices, e # d
        PROVE  Played(e)'
    BY <1>1, <1>3, <2>1, OthersScreens, PlayedKept
  <2>2. Played(d)'
    <3>1. CASE UserActs(d) \/ Kill(d)
      BY <3>1, PlayedUser
    <3>2. CASE ServerActs(d) \/ RejectWrite(d) \/ JudgeBackground(d)
      <4>1. SameScreens(d)
        BY <3>2 DEF ServerActs, CommitCreate, CommitJoin, CommitStart, CommitMark,
              RejectWrite, JudgeBackground, navVars, statsVars, historyVars, SameScreens
      <4> QED
        BY <4>1, PlayedKept
    <3>3. CASE CompletionRuns(d)
      <4>1. UNCHANGED <<overlapped, info, infoReq, timerOn, verdict>>
        BY <3>3 DEF CompletionRuns, historyVars
      <4>2. CASE Over(d)
        <5>1. ~OnTop(d, Head(acks[d]))
          BY <4>2 DEF Over, OnTop
        <5>2. SameScreens(d)
          BY <3>3, <4>1, <5>1 DEF CompletionRuns, SameScreens
        <5> QED
          BY <5>2, PlayedKept
      <4>3. CASE ~Over(d)
        <5>1. ~Over(d)'
          BY <1>1, <3>3, <4>3 DEF CompletionRuns, OpenLobby, Over, TypeOK, NavOK
        <5>2. screen[d] # "results"
          BY <4>3 DEF Over
        <5> QED
          BY <4>1, <4>3, <5>1, <5>2, PlayedFresh DEF VerdictInv, Played, Unread
      <4> QED
        BY <4>2, <4>3
    <3>4. CASE LobbyObserves(d) \/ InfoArrives(d) \/ UpdateTimer(d) \/ StatsObserves(d)
      BY <3>4, PlayedLobby, PlayedInfo, PlayedResults
    <3> QED
      BY <1>3, <3>1, <3>2, <3>3, <3>4 DEF PhoneActs
  <2>3. \A e \in Devices : Played(e)'
    BY <2>1, <2>2
  <2> QED
    BY <1>1, <2>3 DEF VerdictInv
<1> QED
  BY <1>2, <1>3 DEF Next

(* Nobody is congratulated before the last second of the limit that follows*)
(* some press of Start, whatever the clocks, unless creates and joins      *)
(* overlapped or the server may refuse writes.                             *)
THEOREM DeadlinesHonoured == Spec => []DeadlineHonoured
<1>1. VerdictInv => DeadlineHonoured
  BY DEF VerdictInv, Played, OnTime, DeadlineHonoured
<1> QED
  BY <1>1, VerdictInit, VerdictNext, PTL DEF Spec

(* Only the two ways to the results screen leave the stats screen for it.  *)
LEMMA ResultsOnly ==
  ASSUME TypeOK, [Next]_vars, NEW d \in Devices,
         screen[d] = "stats", screen'[d] = "results"
  PROVE  UpdateTimer(d) \/ StatsObserves(d)
<1>1. CASE Tick \/ UNCHANGED vars
  BY <1>1 DEF Tick, vars, navVars
<1>2. ASSUME NEW e \in Devices,
             UserActs(e) \/ ServerActs(e) \/ PhoneActs(e) \/ RejectWrite(e) \/ Kill(e)
      PROVE  UpdateTimer(d) \/ StatsObserves(d)
  <2>1. e = d
    BY <1>2, OthersScreens DEF SameScreens
  <2>2. ~UserActs(d) /\ ~Kill(d)
    BY DEF UserActs, OpenSetup, BackTUI, ScanQRCode, CancelScan, CreateRoom, JoinScanned,
           Dismiss, StartRoom, AppBackgrounded, DeviceLocked, Relaunch, Kill, ProcessEnds,
           navVars, TypeOK, NavOK
  <2>3. ~ServerActs(d) /\ ~RejectWrite(d)
    BY DEF ServerActs, CommitCreate, CommitJoin, CommitStart, CommitMark, RejectWrite, navVars
  <2>4. ~CompletionRuns(d) /\ ~LobbyObserves(d) /\ ~InfoArrives(d) /\ ~JudgeBackground(d)
    BY DEF CompletionRuns, OnTop, LobbyObserves, InfoArrives, JudgeBackground, navVars
  <2> QED
    BY <1>2, <2>1, <2>2, <2>3, <2>4 DEF PhoneActs
<1> QED
  BY <1>1, <1>2 DEF Next

(* A results screen opened after getInfoForRID answered shows the bet of   *)
(* the room on screen, unless creates and joins overlapped.                *)
THEOREM OwedAsStaked == Spec => OwedIsStaked
<1> DEFINE Staked == \A d \in Devices :
             /\ screen[d] = "stats" /\ screen'[d] = "results"
             /\ info[d].room # NoRoom /\ ~overlapped[d]
             => verdict'[d].bet = rooms[lobbyRid[d]].betAmount
<1>1. VerdictInv /\ [Next]_vars => Staked
  <2> SUFFICES ASSUME VerdictInv, [Next]_vars, NEW d \in Devices,
                      screen[d] = "stats", screen'[d] = "results",
                      info[d].room # NoRoom, ~overlapped[d]
               PROVE  verdict'[d].bet = rooms[lobbyRid[d]].betAmount
    OBVIOUS
  <2>1. TypeOK /\ Played(d)
    BY DEF VerdictInv, RidInv
  <2>2. verdict'[d].bet = bet[d]
    BY <2>1, ResultsOnly, ResultsOpen
  <2>3. bet[d] = rooms[info[d].room].betAmount /\ info[d].room = lobbyRid[d]
    BY <2>1 DEF Played, RoomsRead, OwnRoom, Over
  <2> QED
    BY <2>2, <2>3
<1>2. Spec => []VerdictInv
  BY VerdictInit, VerdictNext, PTL DEF Spec
<1> QED
  BY <1>1, <1>2, PTL DEF Spec, OwedIsStaked

-----------------------------------------------------------------------------
(* UnplugGame implements Verdict.  Each step of the phones and of the      *)
(* server is a step of the rules or changes nothing they speak of.  A      *)
(* departure and a countdown that ends need that the room on screen was    *)
(* started, which PlayedRoom adds to the invariants above.                 *)

(* The room of a phone that plays was started by somebody's press.         *)
PlayedRoom(d) == Over(d) /\ ~overlapped[d] => pressed[lobbyRid[d]] # {}

PromiseInv ==
  /\ VerdictInv /\ LeaveEvidence
  /\ \A d \in Devices : PlayedRoom(d)

(* The room of a phone that no step moves stays started.                   *)
LEMMA RoomStaysPlayed ==
  ASSUME TypeOK, [Next]_vars, NEW e \in Devices, PlayedRoom(e),
         lobbyRid'[e] = lobbyRid[e], overlapped'[e] = overlapped[e],
         Over(e)' => Over(e)
  PROVE  PlayedRoom(e)'
<1>1. Over(e) => lobbyRid[e] \in RoomIds
  BY ReadTyped
<1>2. \A r \in RoomIds : pressed[r] \subseteq pressed'[r]
  BY HistoryGrows
<1> QED
  BY <1>1, <1>2 DEF PlayedRoom

(* A phone's own step leaves its room started, or finds a start.           *)
LEMMA OwnRoomPlayed ==
  ASSUME PromiseInv, [Next]_vars, NEW d \in Devices,
         UserActs(d) \/ ServerActs(d) \/ PhoneActs(d) \/ RejectWrite(d) \/ Kill(d)
  PROVE  PlayedRoom(d)'
<1>1. TypeOK /\ PressedStarts /\ PlayedRoom(d)
  BY DEF PromiseInv, VerdictInv, RidInv
<1>2. CASE ~Over(d)'
  BY <1>2 DEF PlayedRoom
<1>3. CASE LobbyObserves(d)
  <2> DEFINE r == lobbyRid[d]
  <2>1. r \in RoomIds /\ SeesStart(d, r) /\ lobbyRid'[d] = r /\ pressed' = pressed
    BY <1>1, <1>3 DEF LobbyObserves, TypeOK, RoomOnScreen, historyVars
  <2>2. pressed[r] # {}
    BY <1>1, <2>1 DEF SeesStart, PressedStarts
  <2> QED
    BY <2>1, <2>2 DEF PlayedRoom
<1>4. CASE UserActs(d) \/ Kill(d)
  <2>1. CASE StartRoom(d) \/ AppBackgrounded(d) \/ DeviceLocked(d)
    <3>1. SameScreens(d)
      BY <2>1 DEF StartRoom, AppBackgrounded, DeviceLocked, SameScreens, navVars, statsVars,
                  historyVars
    <3> QED
      BY <1>1, <3>1, RoomStaysPlayed DEF SameScreens, Over
  <2>2. CASE ~(StartRoom(d) \/ AppBackgrounded(d) \/ DeviceLocked(d))
    <3>1. ~Over(d)'
      BY <1>1, <1>4, <2>2
         DEF UserActs, OpenSetup, BackTUI, ScanQRCode, CancelScan, CreateRoom, JoinScanned,
             Dismiss, Relaunch, Kill, ProcessEnds, navVars, Over, TypeOK, NavOK
    <3> QED
      BY <1>2, <3>1
  <2> QED
    BY <2>1, <2>2
<1>5. CASE ServerActs(d) \/ RejectWrite(d) \/ JudgeBackground(d) \/ InfoArrives(d)
  <2>1. /\ screen'[d] = screen[d] /\ lobbyRid'[d] = lobbyRid[d]
        /\ overlapped'[d] = overlapped[d]
    BY <1>5 DEF ServerActs, CommitCreate, CommitJoin, CommitStart, CommitMark, RejectWrite,
                JudgeBackground, InfoArrives, navVars, historyVars
  <2> QED
    BY <1>1, <2>1, RoomStaysPlayed DEF Over
<1>6. CASE UpdateTimer(d) \/ StatsObserves(d)
  <2>1. lobbyRid'[d] = lobbyRid[d] /\ overlapped'[d] = overlapped[d]
    BY <1>6 DEF UpdateTimer, StatsObserves, historyVars
  <2>2. Over(d)' => Over(d)
    BY <1>6 DEF UpdateTimer, StatsObserves, ShowResults, Over
  <2> QED
    BY <1>1, <2>1, <2>2, RoomStaysPlayed
<1>7. CASE CompletionRuns(d)
  <2>1. CASE Over(d)
    <3>1. ~OnTop(d, Head(acks[d]))
      BY <2>1 DEF Over, OnTop
    <3>2. lobbyRid'[d] = lobbyRid[d] /\ overlapped'[d] = overlapped[d]
      BY <1>7, <3>1 DEF CompletionRuns, historyVars
    <3> QED
      BY <1>1, <2>1, <3>2, RoomStaysPlayed
  <2>2. CASE ~Over(d)
    <3>1. ~Over(d)'
      BY <1>1, <1>7, <2>2 DEF CompletionRuns, OpenLobby, Over, TypeOK, NavOK
    <3> QED
      BY <1>2, <3>1
  <2> QED
    BY <2>1, <2>2
<1> QED
  BY <1>3, <1>4, <1>5, <1>6, <1>7 DEF PhoneActs

(* The invariant holds at first.                                           *)
LEMMA PromiseInit == Init => PromiseInv
<1>1. Init => \A d \in Devices : PlayedRoom(d)
  BY DEF Init, PlayedRoom, Over
<1> QED
  BY <1>1, VerdictInit, EvidenceInit DEF PromiseInv

(* Every step preserves it.                                                *)
LEMMA PromiseNext == PromiseInv /\ [Next]_vars => PromiseInv'
<1> SUFFICES ASSUME PromiseInv, [Next]_vars PROVE PromiseInv'
  OBVIOUS
<1>1. VerdictInv' /\ LeaveEvidence' /\ TypeOK
  BY VerdictNext, EvidenceNext DEF PromiseInv, LeaveEvidence
<1>2. CASE Tick \/ UNCHANGED vars
  <2>1. UNCHANGED <<screen, lobbyRid, overlapped>>
    BY <1>2 DEF Tick, vars, navVars, historyVars
  <2>2. \A e \in Devices : PlayedRoom(e)'
    BY <1>1, <2>1, RoomStaysPlayed DEF PromiseInv, Over
  <2> QED
    BY <1>1, <2>2 DEF PromiseInv
<1>3. ASSUME NEW d \in Devices,
             UserActs(d) \/ ServerActs(d) \/ PhoneActs(d) \/ RejectWrite(d) \/ Kill(d)
      PROVE  PromiseInv'
  <2>1. ASSUME NEW e \in Devices, e # d
        PROVE  PlayedRoom(e)'
    <3>1. SameScreens(e)
      BY <1>1, <1>3, <2>1, OthersScreens
    <3> QED
      BY <1>1, <3>1, RoomStaysPlayed DEF PromiseInv, SameScreens, Over
  <2>2. PlayedRoom(d)'
    BY <1>3, OwnRoomPlayed
  <2> QED
    BY <1>1, <2>1, <2>2 DEF PromiseInv
<1> QED
  BY <1>2, <1>3 DEF Next

-----------------------------------------------------------------------------
(* The steps of the rules.                                                 *)

(* What the rules speak of.                                                *)
Told(v) == [d \in Devices |-> [loser |-> v[d].loser, room |-> v[d].room]]

(* A phone that has not reached its results screen told nothing.           *)
LEMMA NothingTold ==
  ASSUME PromiseInv, NEW d \in Devices, screen[d] # "results"
  PROVE  Told(verdict)[d] = Promise!Nothing
<1>1. verdict[d] = NoVerdict
  BY DEF PromiseInv, VerdictInv, Played, Unread
<1> QED
  BY <1>1 DEF Told, NoVerdict, Promise!Nothing

(* A step that adds nothing to the history and opens no results screen.    *)
LEMMA Stutters ==
  ASSUME UNCHANGED <<pressed, departed, overlapped, verdict>>
  PROVE  UNCHANGED Promise!promised
BY DEF Promise!promised

(* A press of Start starts a room.                                         *)
LEMMA StartMapped ==
  ASSUME PromiseInv, NEW d \in Devices, StartRoom(d)
  PROVE  Promise!Next
<1>1. TypeOK
  BY DEF PromiseInv, VerdictInv, RidInv
<1> PICK r \in RoomIds : r = rid[d]
  BY <1>1 DEF StartRoom, TypeOK, RoomOnScreen
<1>2. pressed' = [pressed EXCEPT ![r] = @ \cup {Clock(d)}]
      /\ UNCHANGED <<departed, overlapped, verdict>>
  BY DEF StartRoom, statsVars
<1>3. {s \in RoomIds : pressed'[s] # {}} = {s \in RoomIds : pressed[s] # {}} \cup {r}
  BY <1>1, <1>2 DEF TypeOK, HistoryOK
<1>4. Promise!Start(r)
  BY <1>2, <1>3 DEF Promise!Start
<1> QED
  BY <1>4 DEF Promise!Next

(* A create or a join asks for a room.                                     *)
LEMMA AskMapped ==
  ASSUME PromiseInv, NEW d \in Devices,
         \/ \E r \in Rooms, limit \in Limits, b \in Bets : CreateRoom(d, r, limit, b)
         \/ \E r \in RoomIds : JoinScanned(d, r)
  PROVE  Promise!Next
<1>1. TypeOK
  BY DEF PromiseInv, VerdictInv, RidInv
<1>2. /\ screen[d] # "results"
      /\ overlapped' = [overlapped EXCEPT ![d] = UnderWay(d)]
      /\ UNCHANGED <<pressed, departed, verdict>>
  BY DEF CreateRoom, JoinScanned, statsVars
<1>3. Told(verdict)[d] = Promise!Nothing
  BY <1>2, NothingTold
<1> DEFINE mixed == {e \in Devices : overlapped[e]}
           later == {e \in Devices : overlapped'[e]}
<1>4. later \in {mixed \cup {d}, mixed \ {d}}
  <2>1. \A e \in Devices \ {d} : overlapped'[e] = overlapped[e]
    BY <1>1, <1>2 DEF TypeOK, HistoryOK
  <2>2. CASE overlapped'[d]
    <3>1. later = mixed \cup {d}
      BY <2>1, <2>2, Zenon
    <3> QED
      BY <3>1
  <2>3. CASE ~overlapped'[d]
    <3>1. later = mixed \ {d}
      BY <2>1, <2>3, Zenon
    <3> QED
      BY <3>1
  <2> QED
    BY <2>2, <2>3
<1>5. Promise!Ask(d)
  BY <1>2, <1>3, <1>4 DEF Promise!Ask, Told
<1> QED
  BY <1>5 DEF Promise!Next

(* A departure leaves the room on screen.                                  *)
LEMMA LeaveMapped ==
  ASSUME PromiseInv, NEW d \in Devices, AppBackgrounded(d)
  PROVE  Promise!Next
<1> DEFINE r == rid[d]
<1>1. TypeOK /\ Settled(d) /\ PlayedRoom(d)
  BY DEF PromiseInv, VerdictInv, RidInv
<1>2. /\ screen[d] = "stats" /\ r \in RoomIds
      /\ departed' = [departed EXCEPT ![d] = @ \cup {r}]
      /\ UNCHANGED <<pressed, overlapped, verdict>>
  BY <1>1 DEF AppBackgrounded, TypeOK, RoomOnScreen, statsVars
<1>3. Told(verdict)[d] = Promise!Nothing
  BY <1>2, NothingTold
<1>4. Promise!Plays(d, r)
  <2>1. CASE overlapped[d]
    BY <2>1 DEF Promise!Plays
  <2>2. CASE ~overlapped[d]
    BY <1>1, <1>2, <2>2 DEF Settled, InGame, PlayedRoom, Over, Promise!Plays
  <2> QED
    BY <2>1, <2>2
<1>5. Promise!Leave(d, r)
  BY <1>2, <1>3, <1>4 DEF Promise!Leave, Told
<1> QED
  BY <1>2, <1>5 DEF Promise!Next

(* What a results screen that opens tells.                                 *)
LEMMA ResultsTell ==
  ASSUME TypeOK, NEW d \in Devices, NEW p, NEW r, ShowResults(d, p, r), screen[d] = "stats"
  PROVE  Told(verdict') = [Told(verdict) EXCEPT ![d] = [loser |-> p, room |-> r]]
<1> DEFINE v == [loser |-> p, bet |-> bet[d], room |-> r]
<1>1. verdict' = [verdict EXCEPT ![d] = v]
  BY DEF ShowResults
<1>2. v.loser = p /\ v.room = r
  OBVIOUS
<1> HIDE DEF v
<1>3. verdict'[d] = v /\ \A e \in Devices \ {d} : verdict'[e] = verdict[e]
  BY <1>1 DEF TypeOK, StatsOK
<1> QED
  BY <1>2, <1>3 DEF Told

(* A countdown that ends calls the end of a room that was started, an      *)
(* observer names who left.                                                *)
LEMMA ResultsMapped ==
  ASSUME PromiseInv, NEW d \in Devices, UpdateTimer(d) \/ StatsObserves(d)
  PROVE  Promise!Next \/ UNCHANGED Promise!promised
<1>1. TypeOK /\ Played(d) /\ PlayedRoom(d) /\ LeaveEvidence
  BY DEF PromiseInv, VerdictInv, RidInv
<1>2. UNCHANGED <<pressed, departed, overlapped>>
  BY DEF UpdateTimer, StatsObserves, historyVars
<1>3. CASE screen[d] # "stats"
  <2>1. UNCHANGED verdict
    BY <1>3 DEF UpdateTimer, StatsObserves, ShowResults
  <2> QED
    BY <1>2, <2>1, Stutters
<1>4. CASE screen[d] = "stats" /\ UpdateTimer(d)
  <2>1. info[d].room \in RoomIds
    BY <1>1, <1>4, ReadTyped DEF UpdateTimer, Played, RoomsRead
  <2> PICK r \in RoomIds : r = info[d].room
    BY <2>1
  <2>2. Told(verdict)[d] = Promise!Nothing
    BY <1>4, NothingTold
  <2>3. Told(verdict') = [Told(verdict) EXCEPT ![d] = [loser |-> Nobody, room |-> r]]
    BY <1>1, <1>4, ResultsTell DEF UpdateTimer
  <2>4. Promise!Plays(d, r)
    <3>1. CASE overlapped[d]
      BY <3>1 DEF Promise!Plays
    <3>2. CASE ~overlapped[d]
      <4>1. r = lobbyRid[d]
        BY <1>1, <1>4, <3>2, NoRoomKnown DEF Played, OwnRoom, Over
      <4> QED
        BY <1>1, <1>4, <3>2, <4>1 DEF PlayedRoom, Over, Promise!Plays
    <3> QED
      BY <3>1, <3>2
  <2>5. Promise!CallTime(d, r)
    BY <1>2, <2>2, <2>3, <2>4 DEF Promise!CallTime, Told
  <2> QED
    BY <2>5 DEF Promise!Next
<1>5. CASE screen[d] = "stats" /\ StatsObserves(d)
  <2>1. PICK r \in obs[d], p \in Devices : LastLoser(d, r, p) /\ ShowResults(d, p, r)
    BY <1>5 DEF StatsObserves
  <2>2. r \in RoomIds
    BY <1>1, <2>1 DEF TypeOK, StatsOK
  <2>3. Told(verdict)[d] = Promise!Nothing
    BY <1>5, NothingTold
  <2>4. Told(verdict') = [Told(verdict) EXCEPT ![d] = [loser |-> p, room |-> r]]
    BY <1>1, <1>5, <2>1, ResultsTell
  <2>5. r \in departed[p]
    BY <1>1, <2>1, <2>2, SeenLossDeparted DEF LastLoser
  <2>6. Promise!Name(d, p, r)
    BY <1>2, <2>3, <2>4, <2>5 DEF Promise!Name, Told
  <2> QED
    BY <2>2, <2>6 DEF Promise!Next
<1> QED
  BY <1>3, <1>4, <1>5

(* A process that ends forgets.                                            *)
LEMMA ForgetMapped ==
  ASSUME PromiseInv, NEW d \in Devices, ProcessEnds(d)
  PROVE  Promise!Next
<1>1. TypeOK
  BY DEF PromiseInv, VerdictInv, RidInv
<1>2. /\ verdict' = [verdict EXCEPT ![d] = NoVerdict]
      /\ overlapped' = [overlapped EXCEPT ![d] = FALSE]
      /\ UNCHANGED <<pressed, departed>>
  BY DEF ProcessEnds
<1>3. Told(verdict') = [Told(verdict) EXCEPT ![d] = Promise!Nothing]
  <2>1. verdict'[d] = NoVerdict /\ \A e \in Devices \ {d} : verdict'[e] = verdict[e]
    BY <1>1, <1>2 DEF TypeOK, StatsOK
  <2>2. [loser |-> NoVerdict.loser, room |-> NoVerdict.room] = Promise!Nothing
    BY DEF NoVerdict, Promise!Nothing
  <2> QED
    BY <2>1, <2>2 DEF Told
<1>4. {e \in Devices : overlapped'[e]} = {e \in Devices : overlapped[e]} \ {d}
  <2>1. ~overlapped'[d] /\ \A e \in Devices \ {d} : overlapped'[e] = overlapped[e]
    BY <1>1, <1>2 DEF TypeOK, HistoryOK
  <2> QED
    BY <2>1, Zenon
<1>5. Promise!Forget(d)
  BY <1>2, <1>3, <1>4 DEF Promise!Forget, Told
<1> QED
  BY <1>5 DEF Promise!Next

(* Every step is a step of the rules, or changes nothing they speak of.    *)
LEMMA StepMapped == PromiseInv /\ [Next]_vars => [Promise!Next]_(Promise!promised)
<1> SUFFICES ASSUME PromiseInv, [Next]_vars
             PROVE  Promise!Next \/ UNCHANGED Promise!promised
  OBVIOUS
<1>1. CASE Tick \/ UNCHANGED vars
  BY <1>1, Stutters DEF Tick, vars, statsVars, historyVars
<1>2. ASSUME NEW d \in Devices, UserActs(d) \/ Kill(d)
      PROVE  Promise!Next \/ UNCHANGED Promise!promised
  <2>1. CASE OpenSetup(d) \/ BackTUI(d) \/ ScanQRCode(d) \/ Dismiss(d) \/ DeviceLocked(d)
             \/ Relaunch(d)
    BY <2>1, Stutters DEF OpenSetup, BackTUI, ScanQRCode, Dismiss, DeviceLocked, Relaunch,
                          statsVars, historyVars
  <2>2. CASE CancelScan(d) \/ Kill(d)
    BY <2>2, ForgetMapped DEF CancelScan, Kill
  <2> QED
    BY <1>2, <2>1, <2>2, StartMapped, AskMapped, LeaveMapped DEF UserActs
<1>3. ASSUME NEW d \in Devices, ServerActs(d) \/ RejectWrite(d)
      PROVE  UNCHANGED Promise!promised
  BY <1>3, Stutters DEF ServerActs, CommitCreate, CommitJoin, CommitStart, CommitMark,
                        RejectWrite, statsVars, historyVars
<1>4. ASSUME NEW d \in Devices, PhoneActs(d)
      PROVE  Promise!Next \/ UNCHANGED Promise!promised
  <2>1. CASE CompletionRuns(d) \/ LobbyObserves(d) \/ InfoArrives(d) \/ JudgeBackground(d)
    BY <2>1, Stutters DEF CompletionRuns, LobbyObserves, InfoArrives, JudgeBackground,
                          statsVars, historyVars
  <2> QED
    BY <1>4, <2>1, ResultsMapped DEF PhoneActs
<1> QED
  BY <1>1, <1>2, <1>3, <1>4 DEF Next

(* The game keeps the rules: whoever is named left that room, whoever is   *)
(* congratulated played a room that was started, and each player is told   *)
(* once (RoomStatsViewController.m:50, 84), whatever the phones, the       *)
(* network and the users do.                                               *)
THEOREM RulesKept == Spec => PromiseKept
<1>1. Init => Promise!Init
  BY DEF Init, Promise!Init, Promise!Nothing, NoVerdict
<1> QED
  BY <1>1, PromiseInit, PromiseNext, StepMapped, PTL DEF Spec, PromiseKept, Promise!Spec

-----------------------------------------------------------------------------
(* NamesRarelyDiffer.  While processes live, a player who has left never   *)
(* joins again, so a recorded leave stays and whoever looks later sees all *)
(* that an earlier phone saw, its own mark apart.                          *)

HasLeft(p, r) == users[r][p] \notin {Null, 0}

(* Who has left stays on the screens of the game, with no join queued that *)
(* would erase the leave, or that comes after the mark of it.              *)
NoWayBack(d) ==
  /\ departed[d] # {} => Over(d)
  /\ \A i, k \in DOMAIN outbox[d] :
       outbox[d][i].op = "mark" /\ i < k => outbox[d][k].op # "join"
  /\ \A r \in RoomIds : HasLeft(d, r) => \A i \in DOMAIN outbox[d] : outbox[d][i].op # "join"

NamedHasLeft(d) ==
  verdict[d].loser \in Devices \ {d} => HasLeft(verdict[d].loser, verdict[d].room)

NameInv ==
  /\ RoomsBornOnce /\ LeaveEvidence
  /\ \A d \in Devices : NoWayBack(d) /\ NamedHasLeft(d)

(* Only the scanner queues joins.                                          *)
LEMMA JoinsFromScanner ==
  ASSUME TypeOK, NEW d \in Devices, UserActs(d) \/ PhoneActs(d) \/ Kill(d)
  PROVE  \/ UNCHANGED outbox
         \/ ProcessEnds(d)
         \/ \E w \in Writes : Send(d, w) /\ (w.op = "join" => screen[d] = "scanner")
<1>1. CASE StartRoom(d)
  <2> DEFINE w == Write("start", rid[d], Clock(d), 0, 0, 0)
  <2>1. rid[d] \in RoomIds /\ Clock(d) \in TimeValues
    BY <1>1, ClockIsTime DEF StartRoom, TypeOK, RoomOnScreen
  <2>2. w \in Writes /\ w.op # "join"
    BY <2>1 DEF Write, Writes, LimitValues, BetValues
  <2> QED
    BY <1>1, <2>2 DEF StartRoom
<1>2. ASSUME NEW r \in Rooms, NEW limit \in Limits, NEW b \in Bets,
             CreateRoom(d, r, limit, b)
      PROVE  \E w \in Writes : Send(d, w) /\ w.op # "join"
  <2> DEFINE w == Write("create", r, 0, limit, b, setupNo[d])
  <2>1. w \in Writes /\ w.op # "join"
    BY DEF Write, Writes, TimeValues, LimitValues, BetValues, RoomIds, TypeOK, NavOK
  <2> QED
    BY <1>2, <2>1 DEF CreateRoom
<1>3. ASSUME NEW r \in RoomIds, JoinScanned(d, r)
      PROVE  \E w \in Writes : Send(d, w) /\ screen[d] = "scanner"
  <2> DEFINE w == Write("join", r, 0, 0, 0, 0)
  <2>1. w \in Writes
    BY DEF Write, Writes, TimeValues, LimitValues, BetValues
  <2> QED
    BY <1>3, <2>1 DEF JoinScanned
<1>4. ASSUME NEW j \in judging[d], Send(d, MarkFor(d, j))
      PROVE  \E w \in Writes : Send(d, w) /\ w.op # "join"
  <2>1. MarkFor(d, j) \in Writes /\ MarkFor(d, j).op # "join"
    BY ClockIsTime DEF MarkFor, Write, Writes, LimitValues, BetValues, TypeOK, LeaveOK
  <2> QED
    BY <1>4, <2>1
<1> QED
  BY <1>1, <1>2, <1>3, <1>4, QueuesIdle

(* No screen leads out of the game, and one leaves only from there.        *)
LEMMA GameHasNoExit ==
  ASSUME TypeOK, NEW d \in Devices, "kill" \notin Faults, [Next]_vars,
         departed[d] # {} => Over(d)
  PROVE  /\ Over(d) => Over(d)'
         /\ departed'[d] # {} => Over(d)'
<1>1. CASE Tick \/ UNCHANGED vars
  BY <1>1 DEF Tick, vars, navVars, historyVars, Over
<1>2. ASSUME NEW e \in Devices, e # d,
             UserActs(e) \/ ServerActs(e) \/ PhoneActs(e) \/ RejectWrite(e) \/ Kill(e)
      PROVE  screen'[d] = screen[d] /\ departed'[d] = departed[d]
  <2>1. screen'[d] = screen[d]
    BY <1>2, OthersScreens DEF SameScreens
  <2>2. departed'[d] = departed[d]
    BY <1>2 DEF UserActs, OpenSetup, BackTUI, ScanQRCode, CancelScan, CreateRoom, JoinScanned,
                Dismiss, StartRoom, AppBackgrounded, DeviceLocked, Relaunch, Kill, ProcessEnds,
                ServerActs, CommitCreate, CommitJoin, CommitStart, CommitMark, RejectWrite,
                PhoneActs, CompletionRuns, LobbyObserves, InfoArrives, UpdateTimer,
                StatsObserves, JudgeBackground, historyVars, TypeOK, HistoryOK
  <2> QED
    BY <2>1, <2>2
<1>3. CASE UserActs(d) \/ Kill(d)
  BY <1>3 DEF UserActs, OpenSetup, BackTUI, ScanQRCode, CancelScan, CreateRoom, JoinScanned,
              Dismiss, StartRoom, AppBackgrounded, DeviceLocked, Relaunch, Kill, ProcessEnds,
              navVars, historyVars, Over, TypeOK, NavOK, HistoryOK
<1>4. CASE ServerActs(d) \/ RejectWrite(d)
  BY <1>4 DEF ServerActs, CommitCreate, CommitJoin, CommitStart, CommitMark, RejectWrite,
              navVars, historyVars, Over
<1>5. CASE PhoneActs(d)
  BY <1>5 DEF PhoneActs, CompletionRuns, OnTop, LobbyObserves, InfoArrives, UpdateTimer,
              StatsObserves, JudgeBackground, ShowResults, navVars, historyVars, Over, TypeOK,
              NavOK
<1> QED
  BY <1>1, <1>2, <1>3, <1>4, <1>5 DEF Next, Over

(* So a recorded leave is there for good.                                  *)
LEMMA LeavesStay ==
  ASSUME RoomsBornOnce, [Next]_vars, NEW p \in Devices, NoWayBack(p), NEW r \in RoomIds,
         HasLeft(p, r)
  PROVE  HasLeft(p, r)'
<1>1. CASE UNCHANGED <<rooms, users>>
  BY <1>1 DEF HasLeft
<1>2. CASE ~UNCHANGED <<rooms, users>>
  <2>1. PICK d \in Devices : ServerActs(d)
    BY <1>2, OnlyServerWrites
  <2>2. ~(p = d /\ NextWrite(d, "join"))
    BY HeadFit DEF NoWayBack, NextWrite
  <2> QED
    BY <2>1, <2>2, ServerOnRoom DEF HasLeft
<1> QED
  BY <1>1, <1>2

(* The queue of a phone and the leaves that the server has of its player   *)
(* stay apart from joins.                                                  *)
LEMMA NoWayBackNext ==
  ASSUME NameInv, "kill" \notin Faults, [Next]_vars, NEW p \in Devices
  PROVE  NoWayBack(p)'
<1>1. TypeOK /\ TypeOK' /\ RoomsBornOnce /\ NetOK /\ LeaveEvidence' /\ NoWayBack(p)
  BY TypeNext, EvidenceNext DEF NameInv, RoomsBornOnce, TypeOK
<1>2. departed'[p] # {} => Over(p)'
  BY <1>1, GameHasNoExit DEF NoWayBack
<1>3. \A r \in RoomIds : HasLeft(p, r)' =>
        HasLeft(p, r) \/ (CommitMark(p) /\ Head(outbox[p]).op = "mark")
  <2> SUFFICES ASSUME NEW r \in RoomIds, HasLeft(p, r)', ~HasLeft(p, r)
               PROVE  CommitMark(p) /\ Head(outbox[p]).op = "mark"
    OBVIOUS
  <2>1. PICK d \in Devices : ServerActs(d)
    BY OnlyServerWrites DEF HasLeft
  <2>2. users \in [RoomIds -> [Devices -> TimeValues]]
    BY <1>1 DEF TypeOK, ServerOK
  <2>3. Head(outbox[d]).room \in RoomIds
    BY <1>1, <2>1, HeadFit DEF ServerActs, CommitCreate, CommitJoin, CommitStart, CommitMark,
                               NextWrite, Writes
  <2>4. ~CommitCreate(d)
    <3>1. CASE r = Head(outbox[d]).room
      <4>1. CommitCreate(d) => users'[r] = [e \in Devices |-> IF e = d THEN 0 ELSE Null]
        BY <2>2, <2>3, <3>1 DEF CommitCreate, OnlyMember
      <4> QED
        BY <4>1 DEF HasLeft
    <3>2. CASE r # Head(outbox[d]).room
      BY <2>2, <2>3, <3>2 DEF CommitCreate, OnlyMember, HasLeft
    <3> QED
      BY <3>1, <3>2
  <2>5. ~CommitJoin(d)
    <3>1. CASE r = Head(outbox[d]).room
      <4>1. CommitJoin(d) => users'[r] = [users[r] EXCEPT ![d] = 0]
        BY <2>2, <2>3, <3>1 DEF CommitJoin, AlsoMember
      <4> QED
        BY <2>2, <4>1 DEF HasLeft
    <3>2. CASE r # Head(outbox[d]).room
      BY <2>2, <2>3, <3>2 DEF CommitJoin, AlsoMember, HasLeft
    <3> QED
      BY <3>1, <3>2
  <2>6. CommitMark(d)
    BY <2>1, <2>4, <2>5 DEF ServerActs, CommitStart, HasLeft
  <2>7. d = p
    BY <2>2, <2>3, <2>6 DEF CommitMark, HasLeft
  <2> QED
    BY <2>6, <2>7 DEF CommitMark, NextWrite
<1>4. CASE outbox'[p] = outbox[p]
  <2>1. ~CommitMark(p)
    <3>1. CommitMark(p) => outbox[p] \in Seq(Writes) /\ outbox[p] # <<>>
                           /\ outbox'[p] = Tail(outbox[p])
      BY <1>1 DEF CommitMark, NextWrite, Applied, NetOK
    <3>2. CommitMark(p) => Len(Tail(outbox[p])) # Len(outbox[p])
      BY <3>1
    <3> QED
      BY <1>4, <3>1, <3>2
  <2> QED
    BY <1>1, <1>2, <1>3, <1>4, <2>1 DEF NoWayBack
<1>5. CASE outbox'[p] = <<>>
  BY <1>2, <1>5 DEF NoWayBack
<1>6. CASE outbox[p] # <<>> /\ Applied(p)
  <2>1. outbox[p] \in Seq(Writes)
    BY <1>1 DEF NetOK
  <2>2. \A i \in DOMAIN outbox'[p] :
          i \in Nat /\ i + 1 \in DOMAIN outbox[p] /\ outbox'[p][i] = outbox[p][i + 1]
    BY <1>1, <1>6, QueueApplied DEF Behind
  <2>3. Head(outbox[p]) = outbox[p][1] /\ 1 \in DOMAIN outbox[p]
    BY <1>6, <2>1
  <2>4. Head(outbox[p]).op = "mark" => \A i \in DOMAIN outbox'[p] : outbox'[p][i].op # "join"
    <3> SUFFICES ASSUME Head(outbox[p]).op = "mark", NEW i \in DOMAIN outbox'[p]
                 PROVE  outbox'[p][i].op # "join"
      OBVIOUS
    <3>1. i + 1 \in DOMAIN outbox[p] /\ 1 < i + 1
      <4>1. i \in Nat /\ i # 0
        <5>1. outbox'[p] \in Seq(Writes)
          BY <1>1 DEF TypeOK, NetOK
        <5> QED
          BY <5>1
      <4> QED
        BY <2>2, <4>1
    <3> QED
      BY <1>1, <2>2, <2>3, <3>1 DEF NoWayBack
  <2>5. \A i, k \in DOMAIN outbox'[p] :
          outbox'[p][i].op = "mark" /\ i < k => outbox'[p][k].op # "join"
    <3> SUFFICES ASSUME NEW i \in DOMAIN outbox'[p], NEW k \in DOMAIN outbox'[p],
                        outbox'[p][i].op = "mark", i < k
                 PROVE  outbox'[p][k].op # "join"
      OBVIOUS
    <3>1. i + 1 < k + 1
      BY <2>2
    <3> QED
      BY <1>1, <2>2, <3>1 DEF NoWayBack
  <2> QED
    BY <1>1, <1>2, <1>3, <2>2, <2>4, <2>5 DEF NoWayBack
<1>7. ASSUME NEW w \in Writes, Send(p, w), w.op = "join" => screen[p] = "scanner"
      PROVE  NoWayBack(p)'
  <2>1. outbox[p] \in Seq(Writes)
    BY <1>1 DEF NetOK
  <2>2. ASSUME NEW i \in DOMAIN outbox'[p]
        PROVE  \/ i \in DOMAIN outbox[p] /\ outbox'[p][i] = outbox[p][i]
               \/ i = Len(outbox[p]) + 1 /\ outbox'[p][i] = w
    BY <1>1, <1>7, QueueSent
  <2>3. w.op = "join" => departed[p] = {}
    BY <1>1, <1>7 DEF NoWayBack, Over
  <2>4. w.op = "join" => /\ \A i \in DOMAIN outbox[p] : outbox[p][i].op # "mark"
                         /\ \A r \in RoomIds : ~HasLeft(p, r)
    BY <2>3 DEF NameInv, LeaveEvidence, MarkDeparted, RecordDeparted, HasLeft
  <2>5. ~CommitMark(p)
    <3>1. CommitMark(p) => outbox'[p] = Tail(outbox[p]) /\ outbox[p] # <<>>
      BY <1>1 DEF CommitMark, NextWrite, Applied, NetOK
    <3>2. outbox'[p] = Append(outbox[p], w)
      BY <1>1, <1>7 DEF Send, NetOK
    <3>3. outbox[p] # <<>> => Len(Tail(outbox[p])) # Len(Append(outbox[p], w))
      BY <2>1
    <3> QED
      BY <3>1, <3>2, <3>3
  <2>6. \A i, k \in DOMAIN outbox'[p] :
          outbox'[p][i].op = "mark" /\ i < k => outbox'[p][k].op # "join"
    <3> SUFFICES ASSUME NEW i \in DOMAIN outbox'[p], NEW k \in DOMAIN outbox'[p],
                        outbox'[p][i].op = "mark", i < k, outbox'[p][k].op = "join"
                 PROVE  FALSE
      OBVIOUS
    <3>1. i \in DOMAIN outbox[p] \/ w.op = "mark"
      BY <2>2
    <3>2. CASE k \in DOMAIN outbox[p]
      BY <1>1, <2>1, <2>2, <3>2 DEF NoWayBack
    <3>3. CASE k = Len(outbox[p]) + 1
      BY <2>1, <2>2, <2>4, <3>3
    <3> QED
      BY <2>2, <3>2, <3>3
  <2> QED
    BY <1>1, <1>2, <1>3, <2>2, <2>4, <2>5, <2>6 DEF NoWayBack
<1>8. \/ outbox'[p] = outbox[p] \/ outbox'[p] = <<>> \/ (outbox[p] # <<>> /\ Applied(p))
      \/ \E w \in Writes : Send(p, w) /\ (w.op = "join" => screen[p] = "scanner")
  <2>1. CASE Tick \/ UNCHANGED vars
    BY <2>1 DEF Tick, vars, netVars
  <2>2. ASSUME NEW d \in Devices, ServerActs(d) \/ RejectWrite(d)
        PROVE  outbox'[p] = outbox[p] \/ (outbox[p] # <<>> /\ Applied(p))
    <3>1. outbox[d] # <<>> /\ Applied(d)
      BY <2>2 DEF ServerActs, CommitCreate, CommitJoin, CommitStart, CommitMark, NextWrite,
                  RejectWrite
    <3> QED
      BY <1>1, <3>1 DEF Applied, NetOK
  <2>3. ASSUME NEW d \in Devices, UserActs(d) \/ PhoneActs(d) \/ Kill(d), d = p
        PROVE  \/ outbox'[p] = outbox[p] \/ outbox'[p] = <<>>
               \/ \E w \in Writes : Send(p, w) /\ (w.op = "join" => screen[p] = "scanner")
    BY <1>1, <2>3, JoinsFromScanner DEF ProcessEnds, NetOK
  <2>4. ASSUME NEW d \in Devices, UserActs(d) \/ PhoneActs(d) \/ Kill(d), d # p
        PROVE  outbox'[p] = outbox[p]
    BY <1>1, <2>4, OthersUntouched DEF Untouched
  <2> QED
    BY <2>1, <2>2, <2>3, <2>4 DEF Next
<1> QED
  BY <1>4, <1>5, <1>6, <1>7, <1>8

(* A phone that observes its game's players names one, and no other step   *)
(* makes a verdict that names a player.                                    *)
LEMMA WhoNames ==
  ASSUME TypeOK, [Next]_vars, NEW d \in Devices
  PROVE  verdict'[d] = verdict[d] \/ verdict'[d].loser \notin Devices \/ StatsObserves(d)
<1>1. CASE Tick \/ UNCHANGED vars
  BY <1>1 DEF Tick, vars, statsVars
<1>2. ASSUME NEW e \in Devices, e # d,
             UserActs(e) \/ ServerActs(e) \/ PhoneActs(e) \/ RejectWrite(e) \/ Kill(e)
      PROVE  verdict'[d] = verdict[d]
  BY <1>2, OthersScreens DEF SameScreens
<1>3. CASE UserActs(d) \/ Kill(d)
  <2>1. CASE ProcessEnds(d)
    BY <2>1, NotAPlayer DEF ProcessEnds, NoVerdict, TypeOK, StatsOK
  <2>2. CASE ~ProcessEnds(d)
    <3>1. UNCHANGED verdict
      BY <1>3, <2>2 DEF UserActs, OpenSetup, BackTUI, ScanQRCode, CancelScan, CreateRoom,
                  JoinScanned, Dismiss, StartRoom, AppBackgrounded, DeviceLocked, Relaunch,
                  Kill, statsVars
    <3> QED
      BY <3>1
  <2> QED
    BY <2>1, <2>2
<1>4. CASE ServerActs(d) \/ RejectWrite(d)
  BY <1>4 DEF ServerActs, CommitCreate, CommitJoin, CommitStart, CommitMark, RejectWrite,
              statsVars
<1>5. CASE CompletionRuns(d) \/ LobbyObserves(d) \/ InfoArrives(d) \/ JudgeBackground(d)
  BY <1>5 DEF CompletionRuns, LobbyObserves, InfoArrives, JudgeBackground, statsVars
<1>6. CASE UpdateTimer(d)
  BY <1>6, NotAPlayer DEF UpdateTimer, ShowResults, TypeOK, StatsOK
<1> QED
  BY <1>1, <1>2, <1>3, <1>4, <1>5, <1>6 DEF Next, PhoneActs

(* A phone that names another player saw the leave on the server.          *)
LEMMA NamedNext ==
  ASSUME NameInv, "kill" \notin Faults, [Next]_vars, NEW d \in Devices
  PROVE  NamedHasLeft(d)'
<1>1. TypeOK /\ RoomsBornOnce
  BY DEF NameInv, RoomsBornOnce
<1>2. CASE verdict'[d] = verdict[d]
  <2> SUFFICES ASSUME NEW q \in Devices \ {d}, q = verdict[d].loser
               PROVE  HasLeft(q, verdict[d].room)'
    BY <1>2 DEF NamedHasLeft, HasLeft
  <2> PICK r \in RoomIds : r = verdict[d].room /\ HasLeft(q, r)
    BY DEF NameInv, LeaveEvidence, NoFalseAccusation, TypeOK, HistoryOK, NamedHasLeft
  <2>1. NoWayBack(q)
    BY DEF NameInv
  <2>2. HasLeft(q, r)'
    BY <1>1, <2>1, LeavesStay
  <2> QED
    BY <1>2, <2>2 DEF HasLeft
<1>3. ASSUME StatsObserves(d)
      PROVE  NamedHasLeft(d)'
  <2>1. PICK r \in obs[d], p \in Devices : LastLoser(d, r, p) /\ ShowResults(d, p, r)
    BY <1>3 DEF StatsObserves
  <2>2. verdict'[d].loser = p /\ verdict'[d].room = r /\ users' = users
    BY <1>1, <1>3, <2>1 DEF StatsObserves, ShowResults, TypeOK, StatsOK, serverVars
  <2>3. p # d => HasLeft(p, r)
    BY <2>1 DEF LastLoser, SeesLoss, HasLeft
  <2> QED
    BY <2>2, <2>3 DEF NamedHasLeft, HasLeft
<1>4. verdict'[d] = verdict[d] \/ verdict'[d].loser \notin Devices \/ StatsObserves(d)
  BY <1>1, WhoNames
<1> QED
  BY <1>2, <1>3, <1>4 DEF NamedHasLeft

(* The invariant holds at first, when nobody has left and nothing is named.*)
LEMMA NameInit == Init => NameInv
<1> SUFFICES ASSUME Init PROVE NameInv
  OBVIOUS
<1>1. RoomsBornOnce /\ LeaveEvidence
  BY BornInit, EvidenceInit
<1>2. ASSUME NEW d \in Devices
      PROVE  NoWayBack(d) /\ NamedHasLeft(d)
  <2>1. outbox[d] = <<>> /\ departed[d] = {} /\ verdict[d].loser = Null
    BY DEF Init, NoVerdict
  <2> QED
    BY <2>1, NotAPlayer DEF NoWayBack, NamedHasLeft
<1> QED
  BY <1>1, <1>2 DEF NameInv

(* Every step preserves it while processes live.                           *)
LEMMA NameNext == NameInv /\ "kill" \notin Faults /\ [Next]_vars => NameInv'
BY BornNext, EvidenceNext, NoWayBackNext, NamedNext DEF NameInv

(* Whoever has left is seen by every phone, its own too.                   *)
LEMMA LeaveIsSeen ==
  ASSUME NameInv, NEW d \in Devices, NEW r \in RoomIds, NEW q \in Devices, HasLeft(q, r)
  PROVE  SeesLoss(d, r, q)
<1> DEFINE own == OwnTimeWrites(d, r)
<1>1. CASE q = d /\ own # {}
  <2>1. \A i \in own : outbox[d][i].op = "mark"
    BY <1>1 DEF NameInv, NoWayBack, OwnTimeWrites
  <2>2. own \subseteq Nat /\ Len(outbox[d]) \in Nat /\ \A i \in own : i <= Len(outbox[d])
    <3>1. outbox[d] \in Seq(Writes)
      BY DEF NameInv, RoomsBornOnce, TypeOK, NetOK
    <3> QED
      BY <3>1 DEF OwnTimeWrites
  <2>3. \E i \in own : \A j \in own : j <= i
    <3> HIDE DEF own
    <3> QED
      BY <1>1, <2>2, GreatestOf
  <2> QED
    BY <1>1, <2>1, <2>3 DEF SeesLoss
<1>2. CASE ~(q = d /\ own # {})
  BY <1>2 DEF SeesLoss, HasLeft
<1> QED
  BY <1>1, <1>2

(* The phones of a room name the same player (the last child with a time,  *)
(* RoomStatsViewController.m:76-80) but for a phone that named its own     *)
(* player before the server had the mark, whoever leaves and whatever is   *)
(* delayed or refused, while no process dies.                              *)
THEOREM NamesAgree == Spec => NamesRarelyDiffer
<1> DEFINE Agree ==
      \A d, e \in Devices :
        /\ verdict[d].loser = Null /\ verdict'[d].loser \in Devices
        /\ verdict[e].room = verdict'[d].room /\ verdict'[d].loser < verdict[e].loser
        /\ "kill" \notin Faults
        => verdict[e].loser = e /\ users[verdict[e].room][e] \in {Null, 0}
<1>1. ASSUME NameInv, "kill" \notin Faults, [Next]_vars
      PROVE  Agree
  <2> SUFFICES ASSUME NEW d \in Devices, NEW e \in Devices,
                      verdict[d].loser = Null, verdict'[d].loser \in Devices,
                      verdict[e].room = verdict'[d].room,
                      verdict'[d].loser < verdict[e].loser
               PROVE  verdict[e].loser = e /\ users[verdict[e].room][e] \in {Null, 0}
    OBVIOUS
  <2> DEFINE q == verdict[e].loser
  <2>1. TypeOK
    BY <1>1 DEF NameInv, RoomsBornOnce
  <2>2. StatsObserves(d)
    BY <1>1, <2>1, WhoNames, NotAPlayer
  <2>3. PICK r \in obs[d], p \in Devices : LastLoser(d, r, p) /\ ShowResults(d, p, r)
    BY <2>2 DEF StatsObserves
  <2>4. verdict'[d].loser = p /\ verdict'[d].room = r /\ r \in RoomIds
    BY <2>1, <2>2, <2>3 DEF StatsObserves, ShowResults, TypeOK, StatsOK
  <2>5. q \in Devices /\ p \in Nat /\ q \in Nat
    <3>1. q \in {Null, Nobody} \cup Devices
      BY <2>1 DEF TypeOK, StatsOK
    <3>2. p \in Nat \ {0} /\ p < q
      BY <2>4, DevicesAssumption
    <3>3. q # Null /\ q # Nobody
      BY <3>2 DEF Null, Nobody
    <3> QED
      BY <3>1, <3>2, <3>3, DevicesAssumption
  <2>6. ~HasLeft(q, r)
    <3>1. ~(q <= p)
      BY <2>4, <2>5
    <3> QED
      BY <1>1, <2>3, <2>4, <2>5, <3>1, LeaveIsSeen DEF LastLoser
  <2>7. q = e
    BY <1>1, <2>4, <2>5, <2>6 DEF NameInv, NamedHasLeft
  <2> QED
    BY <2>4, <2>6, <2>7 DEF HasLeft
<1>2. CASE "kill" \in Faults
  <2>1. [][Agree]_vars
    <3>1. Agree
      BY <1>2
    <3> QED
      BY <3>1, PTL
  <2> QED
    BY <2>1 DEF NamesRarelyDiffer
<1>3. CASE "kill" \notin Faults
  <2>1. NameInv /\ [Next]_vars => Agree
    BY <1>1, <1>3
  <2>2. NameInv /\ [Next]_vars => NameInv'
    BY <1>3, NameNext
  <2> HIDE DEF Agree
  <2>3. Spec => [][Agree]_vars
    BY <2>1, <2>2, NameInit, PTL DEF Spec
  <2> USE DEF Agree
  <2> QED
    BY <2>3 DEF NamesRarelyDiffer
<1> QED
  BY <1>2, <1>3
=============================================================================
