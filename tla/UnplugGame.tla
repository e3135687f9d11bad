----------------------------- MODULE UnplugGame -----------------------------
(***************************************************************************)
(* One game of Unplug as the phones and the Firebase realtime database     *)
(* play it: a player creates a room or joins one by its QR code, someone   *)
(* presses Start, every phone moves from the lobby to the stats screen,    *)
(* and the first phone that leaves the app loses the bet.  The module      *)
(* composes FirebaseHelper with the room setup, lobby, stats and results   *)
(* view controllers of every phone.                                        *)
(*                                                                         *)
(* External code is modelled from the way src/ uses it:                    *)
(*  - Firebase keeps a FIFO of a process's unacknowledged writes, shows    *)
(*    them to that process's own observers at once, applies them on the    *)
(*    server in order and then runs the completion blocks in order; the    *)
(*    queue is in memory only.  An observer's block may run any time after *)
(*    a change and then sees the server's current value.                   *)
(*  - UIKit performs a segue only if its source is the screen on top.      *)
(* Time is counted in half seconds, the 0.5 s of appBackgrounded.          *)
(***************************************************************************)
EXTENDS Integers, Sequences

CONSTANTS
  Devices,    \* the phones, each one player: uids are compared as Firebase keys
  Rooms,      \* keys that childByAutoId may generate
  Strays,     \* strings in QR codes that no phone generated as a room key
  Limits,     \* countdown durations on the setup screen, in half seconds
  Bets,       \* amounts the bet field parses to
  Skew,       \* how far each phone's clock is ahead
  Epoch,      \* the time the history starts at
  MaxNow,     \* bound: the time it stops at
  Budget,     \* bound: how many things the user of each phone does
  Faults      \* what may go wrong: a subset of {"kill", "reject"}

Null == -1      \* a missing value in the database, nil on a phone
Nobody == 0     \* no loser
NoRoom == "none"
SECOND == 2
JUDGE_DELAY == 1

RoomIds == Rooms \cup Strays

ASSUME DevicesAssumption == Devices \subseteq Nat \ {0}
ASSUME RoomsAssumption == Rooms \cap Strays = {} /\ NoRoom \notin RoomIds
ASSUME SetupAssumption == Limits \subseteq Nat \ {0} /\ Bets \subseteq Nat
ASSUME TimeAssumption == /\ Epoch \in Nat \ {0}
                         /\ MaxNow \in Nat /\ Epoch <= MaxNow
                         /\ Skew \in [Devices -> Nat]
ASSUME BudgetAssumption == Budget \in [Devices -> Nat]

VARIABLES
  now,       \* true time
  taps,      \* what the user of each phone has done so far, for Budget
  rooms,     \* server: rooms/RID, its timeStart, timeLimit and betAmount
  users,     \* server: rooms/RID/users/UID/time, Null while UID is no member
  outbox,    \* per phone: writes the server has not applied yet
  acks,      \* per phone: completion blocks of create and join yet to run
  screen,    \* per phone: the view controller on top
  parent,    \* per phone: the screen that presented the lobby
  setupNo,   \* per phone: which setup screen was opened last
  rid,       \* FirebaseHelper.currentRID
  lobbyRid,  \* the room the lobby on screen shows and observes
  obs,       \* rooms whose users the stats screen observes
  infoReq,   \* the room of a getInfoForRID: not answered yet
  info,      \* the answer: startTime and timeLimit of the stats screen
  timerOn,   \* the stats screen's NSTimer is scheduled
  bet,       \* betAmount of the lobby, then of the stats screen
  mark,      \* _markBackgrounded
  judging,   \* dispatch_after blocks of appBackgrounded yet to run
  verdict,   \* what the results screen shows
  pressed,   \* history: the timeStart of every press of Start, per room
  overlapped,\* history: a create or join was issued with another one under way
  departed,  \* history: rooms a player left the app from, on the stats screen
  killed     \* history: rooms whose stats screen died with its process

serverVars == <<rooms, users>>
netVars == <<outbox, acks>>
navVars == <<screen, parent, setupNo, rid, lobbyRid>>
statsVars == <<obs, infoReq, info, timerOn, bet, verdict>>
leaveVars == <<mark, judging>>
historyVars == <<pressed, overlapped, departed, killed>>
vars == <<now, taps, serverVars, netVars, navVars, statsVars, leaveVars, historyVars>>

NoInfo == [room |-> NoRoom, start |-> Null, limit |-> Null]
NoVerdict == [loser |-> Null, bet |-> Null, room |-> NoRoom]
NoRecord == [timeStart |-> Null, timeLimit |-> Null, betAmount |-> Null]

Init ==
  /\ now = Epoch
  /\ taps = [d \in Devices |-> 0]
  /\ rooms = [r \in RoomIds |-> NoRecord]
  /\ users = [r \in RoomIds |-> [d \in Devices |-> Null]]
  /\ outbox = [d \in Devices |-> <<>>]
  /\ acks = [d \in Devices |-> <<>>]
  /\ screen = [d \in Devices |-> "menu"]
  /\ parent = [d \in Devices |-> "menu"]
  /\ setupNo = [d \in Devices |-> 0]
  /\ rid = [d \in Devices |-> NoRoom]
  /\ lobbyRid = [d \in Devices |-> NoRoom]
  /\ obs = [d \in Devices |-> {}]
  /\ infoReq = [d \in Devices |-> NoRoom]
  /\ info = [d \in Devices |-> NoInfo]
  /\ timerOn = [d \in Devices |-> FALSE]
  /\ bet = [d \in Devices |-> Null]
  /\ mark = [d \in Devices |-> FALSE]
  /\ judging = [d \in Devices |-> {}]
  /\ verdict = [d \in Devices |-> NoVerdict]
  /\ pressed = [r \in RoomIds |-> {}]
  /\ overlapped = [d \in Devices |-> FALSE]
  /\ departed = [d \in Devices |-> {}]
  /\ killed = [d \in Devices |-> {}]

-----------------------------------------------------------------------------
(* What the phones read and write.  An operator commented "Mutant" is the  *)
(* plausible bug some property must catch; nothing uses it.                *)

(* Mutant of Clock: timestamps in milliseconds.                            *)
ClockInMilliseconds(d) == (now + Skew[d]) * 500

Clock(d) == now + Skew[d]                    \* [[NSDate date] timeIntervalSince1970]
DoubleValue(x) == IF x = Null THEN 0 ELSE x  \* of an NSNumber or nil

Write(op, r, at, limit, b, no) ==
  [op |-> op, room |-> r, at |-> at, limit |-> limit, bet |-> b, setup |-> no]

Send(d, w) == outbox' = [outbox EXCEPT ![d] = Append(@, w)]

(* A create or a join of d whose completion block has not run.             *)
UnderWay(d) == \/ acks[d] # <<>>
               \/ \E i \in DOMAIN outbox[d] : outbox[d][i].op \in {"create", "join"}

(* Mutants of SeesStart: any timeStart starts the game, @0 too; the lobby  *)
(* notices only what its own phone writes.                                 *)
SeesAnyTimeStart(d, r) == rooms[r].timeStart # Null
SeesOwnPressOnly(d, r) ==
  \E i \in DOMAIN outbox[d] : outbox[d][i].op = "start" /\ outbox[d][i].room = r

(* timeStart of room r in d's view: its own pending presses come first.    *)
SeesStart(d, r) ==
  \/ rooms[r].timeStart \notin {Null, 0}
  \/ \E i \in DOMAIN outbox[d] : outbox[d][i].op = "start" /\ outbox[d][i].room = r

OwnTimeWrites(d, r) ==
  {i \in DOMAIN outbox[d] : outbox[d][i].op \in {"join", "mark"} /\ outbox[d][i].room = r}

(* d's view of room r has a nonzero time for player p.  The last pending   *)
(* write of its own time decides: a join zeroes it, a mark leaves it       *)
(* nonzero whatever it was.                                                *)
SeesLoss(d, r, p) ==
  LET own == OwnTimeWrites(d, r) IN
  IF p = d /\ own # {}
    THEN \E i \in own : (\A j \in own : j <= i) /\ outbox[d][i].op = "mark"
    ELSE users[r][p] \notin {Null, 0}

-----------------------------------------------------------------------------
(* MenuViewController, RoomSetupViewController, the QR scanner.            *)

Tap(d) == taps[d] < Budget[d] /\ taps' = [taps EXCEPT ![d] = @ + 1]

OpenSetup(d) ==
  /\ screen[d] = "menu" /\ Tap(d)
  /\ screen' = [screen EXCEPT ![d] = "setup"]
  /\ setupNo' = [setupNo EXCEPT ![d] = @ + 1]
  /\ UNCHANGED <<now, serverVars, netVars, parent, rid, lobbyRid, statsVars,
                 leaveVars, historyVars>>

BackTUI(d) ==
  /\ screen[d] = "setup" /\ Tap(d)
  /\ screen' = [screen EXCEPT ![d] = "menu"]
  /\ UNCHANGED <<now, serverVars, netVars, parent, setupNo, rid, lobbyRid,
                 statsVars, leaveVars, historyVars>>

(* childByAutoId returns a key nobody has or is about to have.             *)
FreshKey(r) ==
  /\ rooms[r] = NoRecord
  /\ \A d \in Devices :
       /\ \A i \in DOMAIN outbox[d] : outbox[d][i].room # r
       /\ \A i \in DOMAIN acks[d] : acks[d][i].room # r

(* startRoomTUI of the setup screen: a bet that does not parse returns     *)
(* early.  The button stays enabled while the create is under way.         *)
CreateRoom(d, r, limit, b) ==
  /\ screen[d] = "setup" /\ Tap(d) /\ FreshKey(r)
  /\ Send(d, Write("create", r, 0, limit, b, setupNo[d]))
  /\ overlapped' = [overlapped EXCEPT ![d] = UnderWay(d)]
  /\ UNCHANGED <<now, serverVars, acks, navVars, statsVars, leaveVars, pressed,
                 departed, killed>>

ScanQRCode(d) ==
  /\ screen[d] = "menu" /\ Tap(d)
  /\ screen' = [screen EXCEPT ![d] = "scanner"]
  /\ UNCHANGED <<now, serverVars, netVars, parent, setupNo, rid, lobbyRid,
                 statsVars, leaveVars, historyVars>>

(* A lobby shows the code of its room; any other code is a stray.          *)
Scannable(r) == r \in Strays \/ \E d \in Devices : screen[d] = "lobby" /\ lobbyRid[d] = r

(* The scanner's completion block: dismiss, then joinRoomWithRID.          *)
JoinScanned(d, r) ==
  /\ screen[d] = "scanner" /\ Tap(d) /\ Scannable(r)
  /\ screen' = [screen EXCEPT ![d] = "menu"]
  /\ Send(d, Write("join", r, 0, 0, 0, 0))
  /\ overlapped' = [overlapped EXCEPT ![d] = UnderWay(d)]
  /\ UNCHANGED <<now, serverVars, acks, parent, setupNo, rid, lobbyRid, statsVars,
                 leaveVars, pressed, departed, killed>>

-----------------------------------------------------------------------------
(* The server applies the head of a phone's queue.                         *)

NextWrite(d, op) == outbox[d] # <<>> /\ Head(outbox[d]).op = op

Ack(w, ok) == [op |-> w.op, room |-> w.room, ok |-> ok, setup |-> w.setup]
Applied(d) == outbox' = [outbox EXCEPT ![d] = Tail(@)]
Acknowledged(d, ok) == acks' = [acks EXCEPT ![d] = Append(@, Ack(Head(outbox[d]), ok))]

OnlyMember(d, r) == [users EXCEPT ![r] = [p \in Devices |-> IF p = d THEN 0 ELSE Null]]
AlsoMember(d, r) == [users EXCEPT ![r][d] = 0]

(* setValue replaces the room's record and its users.                      *)
CommitCreate(d) ==
  LET w == Head(outbox[d]) IN
  /\ NextWrite(d, "create")
  /\ rooms' = [rooms EXCEPT ![w.room] =
                 [timeStart |-> 0, timeLimit |-> w.limit, betAmount |-> w.bet]]
  /\ users' = OnlyMember(d, w.room)
  /\ Applied(d) /\ Acknowledged(d, TRUE)
  /\ UNCHANGED <<now, taps, navVars, statsVars, leaveVars, historyVars>>

(* updateChildValues of users: only the child UID is replaced.             *)
CommitJoin(d) ==
  LET w == Head(outbox[d]) IN
  /\ NextWrite(d, "join")
  /\ users' = AlsoMember(d, w.room)
  /\ Applied(d) /\ Acknowledged(d, TRUE)
  /\ UNCHANGED <<now, taps, rooms, navVars, statsVars, leaveVars, historyVars>>

CommitStart(d) ==
  LET w == Head(outbox[d]) IN
  /\ NextWrite(d, "start")
  /\ rooms' = [rooms EXCEPT ![w.room].timeStart = w.at]
  /\ Applied(d)
  /\ UNCHANGED <<now, taps, users, acks, navVars, statsVars, leaveVars, historyVars>>

(* Mutant of TimeAfterMark: a plain setValue instead of the transaction.   *)
Overwritten(old, at) == at

(* The transaction of appBackgrounded: a time equal to @0 becomes the time *)
(* the block read from the clock, any other value is written back.         *)
TimeAfterMark(old, at) == IF old = 0 THEN at ELSE old

CommitMark(d) ==
  LET w == Head(outbox[d]) IN
  /\ NextWrite(d, "mark")
  /\ users' = [users EXCEPT ![w.room][d] = TimeAfterMark(@, w.at)]
  /\ Applied(d)
  /\ UNCHANGED <<now, taps, rooms, acks, navVars, statsVars, leaveVars, historyVars>>

(* The server refuses a write: startRoom and the mark take no notice.      *)
RejectWrite(d) ==
  /\ "reject" \in Faults /\ outbox[d] # <<>>
  /\ Applied(d)
  /\ IF Head(outbox[d]).op \in {"create", "join"}
       THEN Acknowledged(d, FALSE) ELSE acks' = acks
  /\ UNCHANGED <<now, taps, serverVars, navVars, statsVars, leaveVars, historyVars>>

-----------------------------------------------------------------------------
(* The completion blocks of create and join.                               *)

(* The segue's source is on top: the setup screen that asked, or the menu. *)
OnTop(d, a) == \/ a.op = "create" /\ screen[d] = "setup" /\ setupNo[d] = a.setup
               \/ a.op = "join" /\ screen[d] = "menu"

(* Mutant of OpenLobby: completion(YES) runs before setCurrentRID.         *)
OpenLobbyOfOldRid(d, a, b) ==
  /\ screen' = [screen EXCEPT ![d] = "lobby"]
  /\ parent' = [parent EXCEPT ![d] = screen[d]]
  /\ lobbyRid' = [lobbyRid EXCEPT ![d] = rid[d]]
  /\ bet' = [bet EXCEPT ![d] = b]

OpenLobby(d, a, b) ==
  /\ screen' = [screen EXCEPT ![d] = "lobby"]
  /\ parent' = [parent EXCEPT ![d] = screen[d]]
  /\ lobbyRid' = [lobbyRid EXCEPT ![d] = a.room]
  /\ bet' = [bet EXCEPT ![d] = b]

(* setCurrentRID, then the segue; createLobby parses the bet field again,  *)
(* which may have been edited, and joinLobby sets no bet.                  *)
CompletionRuns(d) ==
  LET a == Head(acks[d]) IN
  /\ acks[d] # <<>>
  /\ acks' = [acks EXCEPT ![d] = Tail(@)]
  /\ rid' = IF a.ok THEN [rid EXCEPT ![d] = a.room] ELSE rid
  /\ IF a.ok /\ OnTop(d, a)
       THEN \E b \in IF a.op = "create" THEN Bets \cup {Null} ELSE {Null} :
              OpenLobby(d, a, b)
       ELSE UNCHANGED <<screen, parent, lobbyRid, bet>>
  /\ UNCHANGED <<now, taps, serverVars, outbox, setupNo, obs, infoReq, info, timerOn,
                 verdict, leaveVars, historyVars>>

-----------------------------------------------------------------------------
(* QRCodeGeneratorViewController, the lobby.                               *)

(* dismiss: the player stays a member of the room.                         *)
Dismiss(d) ==
  /\ screen[d] = "lobby" /\ Tap(d)
  /\ screen' = [screen EXCEPT ![d] = parent[d]]
  /\ UNCHANGED <<now, serverVars, netVars, parent, setupNo, rid, lobbyRid,
                 statsVars, leaveVars, historyVars>>

(* startRoom writes to currentRID, whatever room the lobby shows.          *)
StartRoom(d) ==
  /\ screen[d] = "lobby" /\ Tap(d)
  /\ Send(d, Write("start", rid[d], Clock(d), 0, 0, 0))
  /\ pressed' = [pressed EXCEPT ![rid[d]] = @ \cup {Clock(d)}]
  /\ UNCHANGED <<now, serverVars, acks, navVars, statsVars, leaveVars, overlapped,
                 departed, killed>>

(* Mutant of SwapObservers: the destination appears first.                 *)
AppearThenTearDown(observed, r) == (observed \cup {r}) \ {r}

(* viewWillDisappear of the source runs before viewWillAppear of the       *)
(* destination: the lobby removes every observer of currentRID's users,    *)
(* then the stats screen adds its own.                                     *)
SwapObservers(observed, r) == (observed \ {r}) \cup {r}

(* The lobby's observer of its room sees a nonzero timeStart.              *)
LobbyObserves(d) ==
  /\ screen[d] = "lobby" /\ SeesStart(d, lobbyRid[d])
  /\ screen' = [screen EXCEPT ![d] = "stats"]
  /\ infoReq' = [infoReq EXCEPT ![d] = rid[d]]
  /\ obs' = [obs EXCEPT ![d] = SwapObservers(@, rid[d])]
  /\ UNCHANGED <<now, taps, serverVars, netVars, parent, setupNo, rid, lobbyRid, info,
                 timerOn, bet, verdict, leaveVars, historyVars>>

-----------------------------------------------------------------------------
(* RoomStatsViewController and ResultsViewController.                      *)

(* The timeStart that getInfoForRID reads is d's own view: its last pending*)
(* press of Start, else the server's value.                                *)
StartRead(d, r) ==
  LET mine == {i \in DOMAIN outbox[d] : outbox[d][i].op = "start" /\ outbox[d][i].room = r}
  IN IF mine = {} THEN {rooms[r].timeStart}
     ELSE {outbox[d][i].at : i \in {k \in mine : \A j \in mine : j <= k}}

(* Mutant of BetRead: the stats screen keeps the bet of the lobby.         *)
BetOfLobby(d, r) == bet[d]

BetRead(d, r) == rooms[r].betAmount

InfoArrives(d) ==
  LET r == infoReq[d] IN
  /\ r # NoRoom
  /\ \E t \in StartRead(d, r) :
       info' = [info EXCEPT ![d] =
                  [room |-> r, start |-> t, limit |-> rooms[r].timeLimit]]
  /\ bet' = [bet EXCEPT ![d] = BetRead(d, r)]
  /\ timerOn' = [timerOn EXCEPT ![d] = TRUE]
  /\ infoReq' = [infoReq EXCEPT ![d] = NoRoom]
  /\ UNCHANGED <<now, taps, serverVars, netVars, navVars, obs, verdict, leaveVars, historyVars>>

(* Mutant of ShowResults: the segue is performed from whatever is on top.  *)
ShowResultsAnyway(d, loser, r) ==
  /\ screen' = [screen EXCEPT ![d] = "results"]
  /\ verdict' = [verdict EXCEPT ![d] = [loser |-> loser, bet |-> bet[d], room |-> r]]
  /\ obs' = [obs EXCEPT ![d] = @ \ {rid[d]}]

(* The toResults segue: nothing if the stats screen is not on top.  The    *)
(* stats screen removes the observers of currentRID's users.               *)
ShowResults(d, loser, r) ==
  IF screen[d] = "stats"
    THEN /\ screen' = [screen EXCEPT ![d] = "results"]
         /\ verdict' = [verdict EXCEPT ![d] = [loser |-> loser, bet |-> bet[d], room |-> r]]
         /\ obs' = [obs EXCEPT ![d] = @ \ {rid[d]}]
    ELSE UNCHANGED <<screen, verdict, obs>>

Expired(d) ==
  DoubleValue(info[d].start) + DoubleValue(info[d].limit) - Clock(d) < SECOND

(* updateTimer once the time left is below one second.  The repetitions    *)
(* before that only redraw the label.                                      *)
UpdateTimer(d) ==
  /\ timerOn[d] /\ Expired(d)
  /\ timerOn' = [timerOn EXCEPT ![d] = FALSE]
  /\ ShowResults(d, Nobody, info[d].room)
  /\ UNCHANGED <<now, taps, serverVars, netVars, parent, setupNo, rid, lobbyRid, infoReq,
                 info, bet, leaveVars, historyVars>>

(* Mutant of LastLoser: the first child with a nonzero time is named.      *)
FirstLoser(d, r, p) ==
  SeesLoss(d, r, p) /\ \A q \in Devices : SeesLoss(d, r, q) => p <= q

(* The stats observer names the last child with a nonzero time.            *)
LastLoser(d, r, p) ==
  SeesLoss(d, r, p) /\ \A q \in Devices : SeesLoss(d, r, q) => q <= p

StatsObserves(d) ==
  \E r \in obs[d], p \in Devices :
    /\ screen[d] = "stats"
    /\ LastLoser(d, r, p)
    /\ ShowResults(d, p, r)
    /\ UNCHANGED <<now, taps, serverVars, netVars, parent, setupNo, rid, lobbyRid, infoReq,
                   info, timerOn, bet, leaveVars, historyVars>>

-----------------------------------------------------------------------------
(* The AppDelegate's calls to its delegate, the stats screen.              *)

(* appBackgrounded: the path of the mark is captured now, the decision is  *)
(* taken by the block half a second later.  Two departures within the same *)
(* half second are one element of judging: the second mark changes nothing.*)
AppBackgrounded(d) ==
  /\ screen[d] = "stats" /\ Tap(d) /\ now < MaxNow
  /\ mark' = [mark EXCEPT ![d] = TRUE]
  /\ judging' = [judging EXCEPT ![d] = @ \cup {[room |-> rid[d], due |-> now + JUDGE_DELAY]}]
  /\ departed' = [departed EXCEPT ![d] = @ \cup {rid[d]}]
  /\ UNCHANGED <<now, serverVars, netVars, navVars, statsVars, pressed, overlapped, killed>>

DeviceLocked(d) ==
  /\ screen[d] = "stats" /\ Tap(d)
  /\ mark' = [mark EXCEPT ![d] = FALSE]
  /\ UNCHANGED <<now, serverVars, netVars, navVars, statsVars, judging, historyVars>>

(* Mutant of MarkFor: the path is built when the block runs.               *)
MarkOfCurrentRid(d, j) == Write("mark", rid[d], Clock(d), 0, 0, 0)

MarkFor(d, j) == Write("mark", j.room, Clock(d), 0, 0, 0)

(* The dispatch_after block.                                               *)
JudgeBackground(d) ==
  \E j \in judging[d] :
    /\ now >= j.due
    /\ judging' = [judging EXCEPT ![d] = @ \ {j}]
    /\ IF mark[d] THEN Send(d, MarkFor(d, j))
                  ELSE outbox' = outbox
    /\ UNCHANGED <<now, taps, serverVars, acks, navVars, statsVars, mark, historyVars>>

-----------------------------------------------------------------------------
(* The process ends: the queue and all state die with it.  appTerminated   *)
(* only stores a time that nothing reads.                                  *)

ProcessEnds(d) ==
  /\ screen' = [screen EXCEPT ![d] = "closed"]
  /\ outbox' = [outbox EXCEPT ![d] = <<>>]
  /\ acks' = [acks EXCEPT ![d] = <<>>]
  /\ parent' = [parent EXCEPT ![d] = "menu"]
  /\ rid' = [rid EXCEPT ![d] = NoRoom]
  /\ lobbyRid' = [lobbyRid EXCEPT ![d] = NoRoom]
  /\ obs' = [obs EXCEPT ![d] = {}]
  /\ infoReq' = [infoReq EXCEPT ![d] = NoRoom]
  /\ info' = [info EXCEPT ![d] = NoInfo]
  /\ timerOn' = [timerOn EXCEPT ![d] = FALSE]
  /\ bet' = [bet EXCEPT ![d] = Null]
  /\ verdict' = [verdict EXCEPT ![d] = NoVerdict]
  /\ mark' = [mark EXCEPT ![d] = FALSE]
  /\ judging' = [judging EXCEPT ![d] = {}]
  /\ overlapped' = [overlapped EXCEPT ![d] = FALSE]
  /\ killed' = IF screen[d] = "stats"
                 THEN [killed EXCEPT ![d] = @ \cup {lobbyRid[d]}] ELSE killed
  /\ UNCHANGED <<now, serverVars, setupNo, pressed, departed>>

Kill(d) == "kill" \in Faults /\ screen[d] # "closed" /\ ProcessEnds(d) /\ taps' = taps

(* Cancel hands nil to the completion block, and joinRoomWithRID:nil makes *)
(* child: raise an exception nobody catches.                               *)
CancelScan(d) == screen[d] = "scanner" /\ Tap(d) /\ ProcessEnds(d)

(* didFinishLaunchingWithOptions of a signed-in player.                    *)
Relaunch(d) ==
  /\ screen[d] = "closed"
  /\ screen' = [screen EXCEPT ![d] = "menu"]
  /\ UNCHANGED <<now, taps, serverVars, netVars, parent, setupNo, rid, lobbyRid,
                 statsVars, leaveVars, historyVars>>

Tick ==
  /\ now < MaxNow
  /\ now' = now + 1
  /\ UNCHANGED <<taps, serverVars, netVars, navVars, statsVars, leaveVars, historyVars>>

-----------------------------------------------------------------------------
UserActs(d) ==
  \/ OpenSetup(d) \/ BackTUI(d) \/ ScanQRCode(d) \/ CancelScan(d)
  \/ \E r \in Rooms, limit \in Limits, b \in Bets : CreateRoom(d, r, limit, b)
  \/ \E r \in RoomIds : JoinScanned(d, r)
  \/ Dismiss(d) \/ StartRoom(d) \/ AppBackgrounded(d) \/ DeviceLocked(d)
  \/ Relaunch(d)

ServerActs(d) ==
  CommitCreate(d) \/ CommitJoin(d) \/ CommitStart(d) \/ CommitMark(d)

PhoneActs(d) ==
  \/ CompletionRuns(d) \/ LobbyObserves(d) \/ InfoArrives(d)
  \/ UpdateTimer(d) \/ StatsObserves(d) \/ JudgeBackground(d)

Next ==
  \/ Tick
  \/ \E d \in Devices : UserActs(d) \/ ServerActs(d) \/ PhoneActs(d)
                        \/ RejectWrite(d) \/ Kill(d)

Spec == Init /\ [][Next]_vars

(* The network and the phones' main queues make progress; users owe        *)
(* nothing.                                                                *)
Fairness ==
  /\ WF_vars(Tick)
  /\ \A d \in Devices :
       /\ WF_vars(ServerActs(d))
       /\ WF_vars(CompletionRuns(d))
       /\ WF_vars(LobbyObserves(d))
       /\ WF_vars(InfoArrives(d))
       /\ WF_vars(UpdateTimer(d))
       /\ WF_vars(StatsObserves(d))
       /\ WF_vars(JudgeBackground(d))

FairSpec == Spec /\ Fairness

-----------------------------------------------------------------------------
(* Properties.                                                             *)

ScreenNames == {"closed", "menu", "setup", "scanner", "lobby", "stats", "results"}
Stamps == UNION {Epoch + Skew[d] .. MaxNow + Skew[d] : d \in Devices}
TimeValues == {Null, 0} \cup Stamps
LimitValues == {Null, 0} \cup Limits
BetValues == {Null, 0} \cup Bets
RoomOrNone == RoomIds \cup {NoRoom}
Records == [timeStart : TimeValues, timeLimit : LimitValues, betAmount : BetValues]
Writes == [op : {"create", "join", "start", "mark"}, room : RoomIds, at : TimeValues,
           limit : LimitValues, bet : BetValues, setup : Nat]
Acks == [op : {"create", "join"}, room : RoomIds, ok : BOOLEAN, setup : Nat]

ServerOK ==
  /\ rooms \in [RoomIds -> Records]
  /\ users \in [RoomIds -> [Devices -> TimeValues]]
NetOK ==
  /\ outbox \in [Devices -> Seq(Writes)]
  /\ acks \in [Devices -> Seq(Acks)]
NavOK ==
  /\ screen \in [Devices -> ScreenNames]
  /\ parent \in [Devices -> {"menu", "setup"}]
  /\ setupNo \in [Devices -> Nat]
  /\ rid \in [Devices -> RoomOrNone]
  /\ lobbyRid \in [Devices -> RoomOrNone]
StatsOK ==
  /\ obs \in [Devices -> SUBSET RoomIds]
  /\ infoReq \in [Devices -> RoomOrNone]
  /\ info \in [Devices -> [room : RoomOrNone, start : TimeValues, limit : LimitValues]]
  /\ timerOn \in [Devices -> BOOLEAN]
  /\ bet \in [Devices -> BetValues]
  /\ verdict \in [Devices -> [loser : {Null, Nobody} \cup Devices, bet : BetValues,
                              room : RoomOrNone]]
LeaveOK ==
  /\ mark \in [Devices -> BOOLEAN]
  /\ judging \in [Devices -> SUBSET [room : RoomIds, due : Nat]]
HistoryOK ==
  /\ pressed \in [RoomIds -> SUBSET Stamps]
  /\ overlapped \in [Devices -> BOOLEAN]
  /\ departed \in [Devices -> SUBSET RoomIds]
  /\ killed \in [Devices -> SUBSET RoomIds]

(* A screen that plays a room has one: the nil currentRID never reaches    *)
(* the paths that the lobby and the stats screen build.                    *)
RoomOnScreen ==
  \A d \in Devices : screen[d] \in {"lobby", "stats", "results"} =>
                        rid[d] \in RoomIds /\ lobbyRid[d] \in RoomIds

(* Every variable has its type, and RoomOnScreen: FirebaseHelper's         *)
(* currentRID is set before any screen uses it (FirebaseHelper.m:162, 179).*)
TypeOK ==
  /\ now \in Epoch .. MaxNow /\ taps \in [Devices -> Nat]
  /\ ServerOK /\ NetOK /\ NavOK /\ StatsOK /\ LeaveOK /\ HistoryOK
  /\ RoomOnScreen

(* Whoever a results screen names did leave the app while playing the room *)
(* the screen was watching (appBackgrounded captures the room's path before*)
(* its 0.5 s wait, RoomStatsViewController.m:103), whatever joins, creates *)
(* and late completion blocks moved currentRID meanwhile.                  *)
NoFalseAccusation ==
  \A d \in Devices : verdict[d].loser \in Devices =>
                       verdict[d].room \in departed[verdict[d].loser]

(* Unless creates and joins overlapped, the room the lobby shows, and its  *)
(* QR code with it, stays the room that Start, the stats screen and the    *)
(* mark go to: currentRID (FirebaseHelper.m:162, 179) follows the screen.  *)
RidStable ==
  \A d \in Devices :
    screen[d] \in {"lobby", "stats", "results"} /\ ~overlapped[d] => rid[d] = lobbyRid[d]

(* A results screen that congratulates the players of a created room does  *)
(* so in the last second of the limit counted from a press of Start, or    *)
(* later (RoomStatsViewController.m:46-52), if no write was refused and no *)
(* create or join overlapped.                                              *)
DeadlineHonoured ==
  \A d \in Devices :
    /\ verdict[d].loser = Nobody /\ verdict[d].room \in Rooms
    /\ ~overlapped[d] /\ "reject" \notin Faults
    => \E t \in pressed[verdict[d].room] :
         Clock(d) + SECOND > t + rooms[verdict[d].room].timeLimit

(* Once a room exists no phone's create, join, start or mark removes a     *)
(* player from it or changes its limit and its bet: they are child updates *)
(* (FirebaseHelper.m:177, 191), not replacements.                          *)
RoomSurvives ==
  [][\A r \in RoomIds :
       /\ rooms[r] # NoRecord => /\ rooms'[r].timeLimit = rooms[r].timeLimit
                                 /\ rooms'[r].betAmount = rooms[r].betAmount
       /\ \A d \in Devices : users[r][d] # Null => users'[r][d] # Null]_vars

(* A recorded time of leaving is never moved to another time by a later    *)
(* departure (RoomStatsViewController.m:115); only the same player joining *)
(* again erases it.                                                        *)
FirstLeaveStands ==
  [][\A r \in RoomIds, d \in Devices :
       users[r][d] \notin {Null, 0} /\ users'[r][d] # users[r][d]
         => /\ users'[r][d] = 0
            /\ NextWrite(d, "join") /\ Head(outbox[d]).room = r]_vars

(* A results screen shown after the answer of getInfoForRID shows the bet  *)
(* that the room was created with, whatever the lobby handed to the stats  *)
(* screen.                                                                 *)
OwedIsStaked ==
  [][\A d \in Devices :
       /\ screen[d] = "stats" /\ screen'[d] = "results"
       /\ info[d].room # NoRoom /\ ~overlapped[d]
       => verdict'[d].bet = rooms[lobbyRid[d]].betAmount]_vars

(* A phone waiting in the lobby of a room whose timeStart the server holds *)
(* leaves the lobby.                                                       *)
StartReachesLobby ==
  \A d \in Devices, r \in RoomIds :
    (screen[d] = "lobby" /\ lobbyRid[d] = r /\ rooms[r].timeStart \notin {Null, 0})
      ~> screen[d] # "lobby"

PendingMark(p, r) ==
  \E i \in DOMAIN outbox[p] : outbox[p][i].op = "mark" /\ outbox[p][i].room = r

(* When a player's mark is on its way while another player still watches   *)
(* the room's stats screen, the watcher is shown a loser (before the limit *)
(* is up: the run sets it beyond its horizon), if no process of theirs     *)
(* dies and the server does not refuse the mark.                           *)
LeaverIsNamed ==
  \A d, p \in Devices, r \in RoomIds :
    (screen[d] = "stats" /\ lobbyRid[d] = r /\ PendingMark(p, r))
      ~> \/ verdict[d].loser \in Devices
         \/ screen[d] = "closed" \/ screen[p] = "closed"
         \/ ~PendingMark(p, r) /\ users[r][p] \in {Null, 0}

(* Two phones name different players of a room, the later phone the one    *)
(* that comes first among the children (the loop of                        *)
(* RoomStatsViewController.m:76-80 keeps the last), only if the earlier    *)
(* phone named its own player, whose mark the server does not have yet.    *)
(* Processes that die excepted: their players may join again.              *)
NamesRarelyDiffer ==
  [][\A d, e \in Devices :
       /\ verdict[d].loser = Null /\ verdict'[d].loser \in Devices
       /\ verdict[e].room = verdict'[d].room /\ verdict'[d].loser < verdict[e].loser
       /\ "kill" \notin Faults
       => verdict[e].loser = e /\ users[verdict[e].room][e] \in {Null, 0}]_vars

(* The rules of the game as the players know them.                         *)
Promise == INSTANCE Verdict WITH
  Players <- Devices, Rooms <- RoomIds, Untold <- Null,
  started <- {r \in RoomIds : pressed[r] # {}},
  left <- departed,
  mixed <- {d \in Devices : overlapped[d]},
  told <- [d \in Devices |-> [loser |-> verdict[d].loser, room |-> verdict[d].room]]

(* Whatever the phones and the network do, a player is told once how the   *)
(* game ended (RoomStatsViewController.m:50, 84), and no observer, timer or*)
(* late answer tells anything the rules do not allow.                      *)
PromiseKept == Promise!Spec

(* ResultsViewController.m:28 says "Congrats, no one used their phone!":   *)
(* at the moment it does, no other player's leave is recorded or under way.*)
CongratsIsTrue ==
  [][\A d, p \in Devices : \A r \in RoomIds :
       /\ d # p /\ verdict[d].loser = Null /\ verdict'[d].loser = Nobody /\ verdict'[d].room = r
       => users[r][p] \in {Null, 0} /\ ~PendingMark(p, r)]_vars

(* RoomStatsViewController.m:35 says "If you leave, you'll owe everyone":  *)
(* a player whose app dies on the stats screen is recorded in the end.     *)
LeavingCosts ==
  \A d \in Devices, r \in RoomIds :
    (r \in killed[d]) ~> (users[r][d] \notin {Null, 0})
=============================================================================
