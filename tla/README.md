# Unplug in TLA+

Unplug is an iOS game for a table of friends: one phone creates a room and
shows its QR code, the others scan it, somebody presses Start, and the first
player who leaves the app before the time is up owes everyone the bet. There is
no server code: the phones share a Firebase realtime database, and every rule
of the game is a read, a write or a transaction of some view controller. This
directory specifies that protocol in TLA+, and the leveldb that the app links
through Firebase, checks both with TLC on small instances, and proves their
safety properties and what they refine with TLAPS for every instance.

Source paths below are relative to `src/Unplug/Unplug/`, those of leveldb to
`src/Unplug/Pods/leveldb-library/`.

## 1. The system

| Component | State | Operations | Module |
|---|---|---|---|
| `Firebase/FirebaseHelper.m`, rooms | `currentRID`; on the server `rooms/RID` with `timeLimit`, `betAmount`, `timeStart` and `users/UID/{name,time}` | `createAndJoinRoom`, `joinRoomWithRID`, `startRoom`, `getInfoForRID` | `UnplugGame` |
| `RoomSetupViewController`, `MenuViewController` | the screen on top, the bet field, the spinner | open, back, create, scan, logout | `UnplugGame`, `Session` |
| `QR Generator/QRCodeGeneratorViewController` (the lobby) | the room shown, its observer | `setUpListener`, `tearDownListener`, `dismiss`, `startRoomTUI` | `UnplugGame` |
| `RoomStatsViewController` (the stats screen) | start, limit, bet, timer, `_markBackgrounded`, blocks to run, background tasks | `setUpLabel`, `updateTimer`, `setUpListener`, `appBackgrounded`, `deviceLocked` | `UnplugGame`, `LeaveDetector` |
| `ResultsViewController` | loser and bet shown | show a verdict, resign as delegate | `UnplugGame`, `LeaveDetector` |
| `AppDelegate` | its delegate | forward the system's events, launch | `LeaveDetector`, `Session`, `UnplugGame` |
| `FirebaseHelper`, login; `ViewController`; `Models/User` | `currentUser`, the token, FIRAuth's account, the login button | `login`, `createUser`, `getAndSetCurrentUser`, `logout` | `Session` |
| `QR/QRCodeReader*` | the capture session, the completion block | scan, cancel | `QRScanner`; one scan with its join in `UnplugGame` |
| leveldb, writes: `db/db_impl.cc`, `db/log_*.cc`, `db/memtable.cc`, `VersionSet::LogAndApply` | queue of writers, log, memtables, background thread, manifest, files | `Write`, `MakeRoomForWrite`, `CompactMemTable`, merges, `LogAndApply`, `DeleteObsoleteFiles`, `DB::Open` | `LevelDBStore` with `LevelDBLog`; promise in `LevelDBPromise` |
| leveldb, reads: `db/version_set.cc`, `db/db_iter.cc` | levels of tables, snapshots, manual compaction, a cursor | `Get`, iterators, `PickCompaction`, `DoCompactionWork`, `CompactRange`, snapshots | `LevelDBTree` with `LevelDBIter` |

How they interact. A phone has one thread that matters, its main queue, and
each handler on it is atomic. Between handlers anything may happen: Firebase
completion blocks, observers, the one-second timer, a `dispatch_after` block
half a second after the app went to the background, Darwin notifications, the
answers of Facebook. Each of these callbacks reads shared state when it runs
(`currentRID`, `currentUser`, `_markBackgrounded`, the delegate, the screen on
top), not when it was set up. Phones meet only in the database.

leveldb stands below the game and apart from it: the Firebase SDK keeps the
writes that a process has not got acknowledged in it when persistence is turned
on. The app does not turn it on, so that a killed process does lose its queue
(section 2, `UnplugGame`); the library is part of the repository and of the
program nevertheless. Its threads share state under one mutex, which they
release around every call on a file.

What is hard here, and hard to reach with a test:

* two creates or joins under way at once, each of which sets `currentRID`;
* the lobby and the stats screen observing and un-observing the same paths
  in the order UIKit calls `viewWillDisappear` and `viewWillAppear`;
* a countdown that ends on one phone, whose clock differs, while another
  phone's leave is still queued;
* deciding after the fact whether the app was left or the phone was locked;
* processes that die with writes queued, writes the server refuses, players
  who join again;
* callbacks of a login that arrive after a logout;
* leveldb: writers that ride in the group of another, files created and deleted
  while the mutex is free, calls on files that fail halfway, the end of the
  process or of the machine at any step, merges that are overtaken by writes,
  flushes and snapshots.

`PROJECT.json` lists every hazard with its line and the property that covers it.

What makes the parts correct, in one line each. Game: whoever is named left,
the time is called only when it is up, a recorded leave stays, the amount shown
is the one staked, Start and a leave reach everybody. Leave detector: leaving
is charged, locking is not, tasks end. Session: one plays as the account that
is signed in, profiles carry their owner's name, a login makes a player. Store:
what was acknowledged survives (with the exception of `ldb_lost`), what survives
is whole, calls return. Tree: whatever was
moved or dropped, a reader sees the last write.

## 2. The modules

### UnplugGame

The composition of all phones, the database and the screens of a game.

* `rooms` and `users` are the server. A record field that is missing is `Null`;
  a code that is no room's key is a *stray*, and joining it creates users
  without a record, as `updateChildValues` does.
* `outbox[d]` is Firebase's queue of writes of the process of phone `d`, in
  order, and `acks[d]` the completion blocks it has yet to run. `CommitCreate`,
  `CommitJoin`, `CommitStart` and `CommitMark` are the server applying the head
  of a queue; `RejectWrite` is a refusal. A phone's own pending writes are
  visible to its own observers (`SeesStart`, `SeesLoss`, `StartRead`).
* `screen`, `parent`, `setupNo`, `lobbyRid` and `rid` are where the phone is:
  a completion block performs its segue only from the very controller that
  issued the request, and only if that is on top (`OnTop`, `CompletionRuns`).
* `obs`, `infoReq`, `info`, `timerOn`, `bet` and `verdict` are the stats and
  results screens: `LobbyObserves` enters them, `InfoArrives` is the answer of
  `getInfoForRID`, `UpdateTimer` and `StatsObserves` are the two ways to a
  verdict.
* `mark` and `judging` are `appBackgrounded` with its block; in this module
  `AppBackgrounded` and `DeviceLocked` come in any order, since the module that
  follows takes care of when iOS calls them.
* `Kill` and `CancelScan` end a process (cancelling a scan passes nil to
  `joinRoomWithRID:`, whose `child:` raises an exception); `Relaunch` starts it.
* `pressed`, `overlapped`, `departed` and `killed` are history: they are read
  by properties only.

`Verdict` is the abstract specification: rooms are started, players leave rooms
they play, each player is told once how the game ended; whoever is named left
that very room, and a room whose end is called was started. It has no phones,
queues, clocks or screens. `Promise` in `UnplugGame` is the refinement mapping
(rooms with a press, `departed`, `overlapped`, the verdicts) and `PromiseKept`
says that the game implements it.

Time counts half seconds, the wait of `appBackgrounded`; `SECOND` is 2.
Players are compared as the keys of the database are, since the stats screen
names the last child with a nonzero time.

### LeaveDetector

One phone, the system's events and their delays: pressing home delivers
`didEnterBackground`, locking delivers it and, within `LockDelay`,
`lockcomplete`; `AppBackgrounded`, `DeviceLocked`, `JudgeBackground` and
`TransactionDone` are the handlers of `AppDelegate.m` and
`RoomStatsViewController.m:102-142`. The background tasks, the outcome of the
transaction, the delegate that the results screen resigns and the empty
expiration handler are here. `UnplugGame`'s actions of the same names abstract
from the reason of a departure and from the tasks.

### Session

The login as the chain of callbacks it is, one action per answer
(`FacebookAnswers`, `SignInAnswers`, `ProfileRead`, `GraphAnswers`), with
`LogoutTUI`, `Launch`, `LaunchRead` and the death of the process between any
two of them. `LogoutTUI` shows the login screen whether `signOut` succeeded or
not, as `MenuViewController.m:41-48` does; after a failure the old account stays
signed in behind it. `EnterRoom` records who was signed in and as whom the room was
entered. A profile is written to the server at once; a write lost with its
process leaves the state that `GraphFails` leaves.

### QRScanner

The scanner that the menu presents, with the frames of its capture session
queued on the main queue. `view` is the screen and its transitions, `asked` the
completion blocks that run when the dismissal ends. What UIKit does with a
dismissal asked for during a transition is left open: refused, or its block run
with the others. `ReaderAlive` is the weak reference through which the code
reader calls the screen; `CancelAction` passes nil and `Dismissed` ends the app
on it, as `CancelScan` of `UnplugGame` does. Scans that issue several joins are
in `UnplugGame` as joins that overlap.

### LevelDBStore, LevelDBLog, LevelDBPromise

The writing half of leveldb, with its threads. What runs under `mutex_` is one
action, and so is each call on a file made without it: `WriteLog`, `SyncLog`,
`InsertInto` are the steps of the leader of a group; `BuildTable`,
`MergeTables`, `FlushDone`, `InstallMerge` those of the background thread.
`writers`, `asleep` and `bgWaiters` are the queue and the two condition
variables, with exactly the wake-ups of the code. A file is what was handed to
`write(2)` and how much of it was synced; `Kill` keeps the first, `PowerLoss`
some first part that contains the second. `LevelDBLog` cuts records into the
fragments of the log format and reads back what a crash left, torn records and
block ends included. A batch has keys of its own, since which entry of a key
counts is the subject of `LevelDBTree`.

`LevelDBPromise` states what leveldb keeps of `WriteOptions.sync` of
`include/leveldb/options.h`: acknowledged writes survive the process, synced
ones the machine, and nothing comes back in part. It makes one exception that
`options.h` does not make. When an append to the log fails, the writes after it
go behind a torn record (`torn`); they are acknowledged (`acked`), but they are
not among those that a crash must leave (`kept`) until a flush has settled them
in a table. `LevelDBStore` implements it (`Promise`, `PromiseKept`); what
`options.h` says without the exception is `NoWriteLost`, which the run
`ldb_lost` refutes.

Assumed: a file that was created has its directory entry on disk; the options
`reuse_logs` and `paranoid_checks` are off, as they are by default; the C
library drops what it could not flush, so that an append after a failed one
follows a torn record; a manifest with such a torn record in its middle is
refused when the database is opened. The delay of one millisecond at
`kL0_SlowdownWritesTrigger` changes no state and is left out, tables are
flushed to level 0 (`LevelDBTree` has the choice of the level), and ending the
process normally is a `Kill` with nothing under way.

### LevelDBTree, LevelDBIter

The reading half, one step per change of a version. An entry is its sequence
number, a table a set of entries, `levels` the version. `CompactMemTable`
chooses the level, `PickCompaction`, `TrivialMove`, `CompactRange` and
`StartManual` choose inputs (`OtherInputs` is `SetupOtherInputs`, growth of the
inputs included), `MergedTables` merges as `DoCompactionWork` does, dropping or
writing one entry and cutting the output with each `Add`, and `InstallMerge` comes later, with writes, snapshots and flushes in
between. `Get` searches memtables and levels in order and stops at the first
hit. `LevelDBIter` is the cursor of `DBIter` with its two directions, as
operators on a view; `Iterator` gives it the entries of the database at a
sequence number.

Abstracted: sizes are counted in entries; `compact_pointer_` takes turns among
the tables of a level, the model takes any; a table is charged for a seek when
another one overlaps it below, which is more often than the code does.
`broken` is history and records the two ways in which the levels go wrong
(section 3, `ldb_split` and `ldb_overlap`). One manual compaction runs at a
time.

### The proofs

`UnplugGameProofs`, `QRScannerProofs`, `LeaveDetectorProofs`, `SessionProofs`,
`LevelDBStoreProofs` and `LevelDBTreeProofs` hold the theorems about the module
of that name. `LevelDBLogProofs` has the lemmas about what the writer and the
reader of a log compute. `DataLemmas` is about no module: minima, maxima and
bounds of sets of numbers, induction over a set of numbers, iterated functions,
one-to-one maps. Section 5 says what is proved.

### Operators commented "Mutant"

Each is a plausible bug of the operator that follows it, or that it names: put in its place, it
makes TLC report the property it is meant for. Nothing in the specifications
uses them.

## 3. The runs

| Run | What it asks | Instance |
|---|---|---|
| `game_race` | `TypeOK`, `DeadlineHonoured`, `NoFalseAccusation`, `RidStable`, `OwedIsStaked`, `NamesRarelyDiffer`, `RoomSurvives`, `FirstLeaveStands`, `PromiseKept` | two phones, clocks half a second apart, one room and one stray code, a limit of 1.5 s that ends inside the history; phone 2 has the taps to join twice and still play and leave |
| `game_live` | `StartReachesLobby`, `LeaverIsNamed`, `FirstLeaveStands` | fair; processes die anywhere and come back, writes are refused; the limit beyond the horizon; phone 2 has the taps to leave, come back and join again |
| `game_congrats` | `CongratsIsTrue`, violated | as `game_race` without the stray code |
| `game_costs` | `LeavingCosts`, violated | fair, processes may die |
| `leave_judge` | `TypeOK`, `LockIsNoLeave`, `HomeIsCharged`, `TasksEnd` | fair; four user acts; lock reports in time, late or before the background event; failing and endless transactions |
| `session_switch` | `TypeOK`, `PlaysAsSelf`, `ProfileIsOwn`, `LoginMakesPlayer` | two accounts, four logins, requests and logouts that fail, restarts; the read of a profile and the request to Graph are answered |
| `scan_repeat` | `TypeOK`, `LateFrameIsDropped`, `ScanEnds` | three scans, two codes, three queued frames; fair |
| `ldb_store` | `TypeOK`, `TablesPresent`, `NewestIsLast`, `BatchesWhole`, `PromiseKept`, `CompactedIsInTables`, `CallsReturn` | two threads, two batches (one of two entries), one forced flush, blocks of four units; one call on a file fails, of any of five kinds; one end of the process or of the machine; fair |
| `ldb_lost` | `NoWriteLost`, violated | one thread, one failing append, one end of the process |
| `ldb_tree` | `TypeOK`, `GetIsNewest`, `ScanIsNewest`, `LevelsDisjoint` | three keys, one of them deletable, four writes, one snapshot, three levels, tables of two entries, manual compactions without end |
| `ldb_split` | `NeverHop`, violated | as `ldb_tree` |
| `ldb_overlap` | `NeverOverlap`, violated | five writes, no deletions, no snapshots |

Bounds. `Budget` bounds what each user does (taps, leaving the app, locking),
so it bounds every queue and counter; it is set per phone to the taps that one
game takes plus the spare ones the run is about. `MaxNow` bounds the clock: it
leaves one judgement (half a second) after a departure and, in `game_race`, the
end of the countdown. Two phones suffice for every property: each relates one
phone to at most one other and one room. A second creation of a room is left to
the stray code, which gives a second room identity at a tenth of the states.
Phones are ordered (the last loser is named), so no symmetry is used. In
`ldb_store` two writers are the least that make a group and a writer that waits
behind it, two batches the least of which one may survive without the other,
and one fault already meets every step of every thread; blocks of four units
with headers of two make records that span blocks and blocks that end in a
trailer. In `ldb_tree` three keys are the least with a key between two others,
which gaps between tables, cursors that turn round and splits need; four
entries in tables of at most two fill three levels, against kNumLevels of
seven.

Deadlock detection is off where budgets, time or writes end; `session_switch`
leaves it on, and the session never stops. That no thread of leveldb waits for
ever is `CallsReturn`.

Fairness, in `FairSpec` only. Of the network: each phone's queue is drained
(`ServerActs`), as Firebase promises to retry until acknowledged while the
process lives; a profile that was asked for is read, and Graph answers with a
name or an error. Of a phone: its main queue runs what is scheduled, a pending
timer fires, an observer reports a value that persists. A phone put in the
background keeps its process for the judgement thanks to
`beginBackgroundTaskWithName:`; after that the model assumes that a suspended
phone comes back or is killed. Users and faults have no fairness at all. Of the
scanner: UIKit ends its transitions and the camera reports a code that stays
before it. Of leveldb: a thread that can run does, and calls on files end; of
the writers in the queue only the first can run, so one condition covers them
all, and each client that waits for a flush has one of its own.

The five violations are disagreements between what the app, a comment or the
documentation says and what the code does; `PROJECT.json` quotes the lines.

* `CongratsIsTrue`: phone 2 leaves, the block marks it, and before the server
  has the mark phone 1's countdown ends: phone 1 reads "Congrats, no one used
  their phone!".
* `LeavingCosts`: "If you leave, you'll owe everyone" holds for the home button,
  not for ending the app: `appTerminated` stores a time that nothing reads.
* `NoWriteLost`: an append to the log fails, and its writer is told. The next
  write goes behind the torn record and is acknowledged. The process ends, and
  the database is opened again without that write, against `options.h`: only a
  failed sync, not a failed append, stops leveldb from taking further writes.
* `NeverHop`: a snapshot keeps two entries of a key, a merge cuts its output
  between them, and the next merge takes the table of the newer one only. From
  then on `Get` finds the older one first, against the comment in
  `Version::Get`.
* `NeverOverlap`: the memtable flushed in the middle of a manual compaction goes
  below level 0 into a gap of the inputs, and an output of the merge is
  installed over it, against the assertion in `MaybeAddFile`.

## 4. What the properties leave out on purpose

Some properties have preconditions, each for behaviour the code really has.

* `RidStable`, `DeadlineHonoured` and `OwedIsStaked` except phones with two
  creates or joins under way: `currentRID` is then the last one's to finish.
  `NoFalseAccusation` has no such exception.
* `DeadlineHonoured` excepts stray codes, whose limit is nil and whose game
  ends at once, and refused writes: a phone shows its own press of Start until
  the refusal comes.
* `LeaverIsNamed` is about two living processes and a mark that the server does
  not refuse; `game_costs` shows what happens when the process dies.
* `NamesRarelyDiffer` lets two phones name different players in the one case
  that the code has: a phone names its own player before the server knows. It
  excepts processes that are killed: their players may join again, which erases
  the leave that another phone has already named.
* `FirstLeaveStands` allows the same player to erase a leave by joining again.
* `LockIsNoLeave` excepts a lock whose departure was disturbed: by a second
  departure, which sets the one flag again, or by the results screen, after
  which the lock is not forwarded; and a lock reported late or before its
  background event. `HomeIsCharged` excepts a transaction that failed: the
  player is told "You lost!" and nobody else is.
* `PlaysAsSelf` and `ProfileIsOwn` except a logout that overtook an answer: the
  Graph answer then creates the profile of the next account, with the name of
  the first.
* `PromiseKept` of `LevelDBStore` excepts writes that were acknowledged behind a
  failed append of the same log and are not in a table yet: a crash loses them
  with the torn record before them (`ldb_lost`).
* `CompactedIsInTables` is about calls of `TEST_CompactMemTable` that led the
  queue: in the group of another writer the request is lost, against
  "Force current memtable contents to be compacted" (`db/db_impl.h:50`).
* `DeadlineHonoured` accepts the end of any press of Start: when two presses
  race, two phones may count down to different ends.
* `LoginMakesPlayer` begins where Firebase has accepted the account. A sign-in
  that Firebase refuses leaves the login button disabled until a restart
  (`FirebaseHelper.m:72-75`); no text of the repository promises otherwise.
* No property forbids the login screen of a player whose logout failed.
* No property is about the Cancel button of the scanner, which is modelled: it
  ends the app, although `QR/QRCodeReaderViewController.h:43` speaks of "a cancel
  button to be go back".
* `GetIsNewest` and `ScanIsNewest` hold until the levels went wrong in one of
  the two ways of `ldb_split` and `ldb_overlap`, `LevelsDisjoint` until the
  second.

## 5. What is proved

For every value of the constants that their assumptions allow. `UnplugGame`:
phones are positive numbers, rooms and stray codes are disjoint, limits
positive, bets natural, the history starts after time 0. `LogAssumption`: a
header is not empty and fits a block with room to spare. `StoreAssumption`: a
batch has entries, level 0 triggers a merge before it stops writers. `TreeAssumption`: keys are
positive numbers, there is a level below 0, tables are not empty. All safety
properties and both refinements that the runs check and find true are theorems.

* `TypeCorrect` (`UnplugGameProofs`): `Spec => []TypeOK`. `TypeOK` is inductive.
  Apart from types it says `RoomOnScreen`: no lobby, stats or results screen
  runs with a nil room, so that the paths they build exist.
* `NobodyAccusedFalsely` (`UnplugGameProofs`): `Spec => []NoFalseAccusation`. A
  results screen reads a record of the database, so the claim is not inductive.
  `LeaveEvidence` strengthens it along the way a departure takes: a departure
  being judged (`JudgedDeparted`), a mark queued (`MarkDeparted`) and a nonzero
  time (`RecordDeparted`) each belong to a room its player left on the stats
  screen. The decisive step is that the judging block writes to the room
  captured when it was set up, whatever `currentRID` has become.
* `RoomsSurvive` and `FirstLeavesStand` (`UnplugGameProofs`): the action
  properties `RoomSurvives` and `FirstLeaveStands`. Applying a create replaces
  the whole room, so both rest on `RoomsBornOnce`: a queued create is for a room
  without a record or members, and is the only write about it in any queue
  (`SoleCreate`); whatever else is queued, acknowledged, remembered by a phone
  or joined is a room that has its record, or a stray code.
* `RidIsStable` (`UnplugGameProofs`): `Spec => []RidStable`. `Settled` adds
  that a phone without overlaps has at most one create or join queued or
  awaiting its completion block, and none once a lobby is open: nothing is left
  that could move `currentRID`.
* `DeadlinesHonoured` and `OwedAsStaked` (`UnplugGameProofs`):
  `DeadlineHonoured` and `OwedIsStaked`. `VerdictInv` joins the invariants above
  and relates what a stats screen read once to the database as it is now: the
  limit and the bet still are the room's (`RoomsRead`), the room is the one on
  screen (`OwnRoom`), the lobby's sight of a start persists in the phone's view
  and the start read was pressed (`Started`, `PressedStarts`). The last step is
  arithmetic on the countdown.
* `RulesKept` (`UnplugGameProofs`): `Spec => PromiseKept`, the refinement.
  `PromiseInv` joins `VerdictInv` and `LeaveEvidence` and adds that the room of
  a phone that plays was started (`PlayedRoom`). Each action is mapped by a
  lemma: a press to `Start`, a create or join to `Ask`, a departure to `Leave`,
  the end of the countdown to `CallTime`, an observer to `Name`, the end of a
  process to `Forget`; every other step stutters.
* `NamesAgree` (`UnplugGameProofs`): `NamesRarelyDiffer`. `NameInv` adds
  to `LeaveEvidence` that a player who has left has no join queued behind the
  mark and cannot reach the scanner again (`NoWayBack`), so that a leave once
  read by another phone is still in the database (`NamedHasLeft`), where a phone
  that looks later sees it.
* `ScannerTypeOK` and `LateFramesDropped` (`QRScannerProofs`): `Spec => []LateFrameIsDropped`, for
  every set of codes and every bound. A join is recorded when the dismissal
  ends, so `ScannerInv` adds that the blocks that wait for it exist only while
  the scanner leaves and are of that scanner (`AskedOfScan`).
* `DetectorTypeOK` and `LocksAreNoLeaves` (`LeaveDetectorProofs`):
  `LockIsNoLeave` for every delay of `lockcomplete` and every set of faults.
  `Undisturbed` says what holds as long as no departure was disturbed and no
  lock untimely: a departure that is judged for a lock has the flag down
  already, or its `lockcomplete` is still under way and its half second is not
  over. The judgement therefore never finds the flag up.
* `SessionTypeOK`, `PlayersAreThemselves`, `ProfilesAreOwn` (`SessionProofs`):
  `PlaysAsSelf` and `ProfileIsOwn` for any accounts. As long as no logout
  overtook an answer, only the account that is signed in has a request under
  way and the menu is on the screen (`OwnAnswers`), and `currentUser` is that
  account (`MenuIsOwn`).

* `TypeCorrect`, `TablesStay`, `NewestStaysLast`, `CompactionKept`
  (`LevelDBStoreProofs`): `TypeOK`, `TablesPresent`, `NewestIsLast`,
  `CompactedIsInTables`. One `IInv` carries all four, since each needs the
  others.
  - Types are work here: what recovery reads is the value of three recursions
    over a file that a crash cut anywhere. `EmitTyped` and `RecordsTyped`
    (`LevelDBLogProofs`, as the lemmas on reading that follow) show
    that their equations have solutions, with a measure that falls at every
    step (a fragment of no data is possible, at the end of a block, but never
    twice in a row), and that the solutions are of the right type; `FoldTyped`
    and `ReadTyped` follow the reader over the fragments.
  - `VersionsSound` says of every version that a crash may leave the manifest to
    describe, and of the one in memory, that its tables exist, have numbers
    below its next one and hold nothing newer than its last sequence number; the
    manifest has more than one candidate only while a call on it has failed.
    `FlushSound`, `MergeSound` and `EditSound` say the same of the files that
    flushes and merges are about to add, which no version has yet and which
    `DeleteObsoleteFiles` spares as pending. `LogInUse` adds that the log being
    written is never one that recovery would skip.
  - `MemorySound` bounds what is in memory or about to be: the entries of a
    group are numbered from the last sequence number on, before and after the
    log has them.
  - `Queued` and `RequestsSound` are about the queue: who asked for a new
    memtable and led the queue finds nothing older than its call in `mem`.
* `BatchesStayWhole` (`LevelDBStoreProofs`): `BatchesWhole`. The entries of one
  write are a *block*: consecutive sequence numbers, one batch.
  - `WholeInv` says that for some set of blocks `W`, no two of which share a
    sequence number or a batch (`Apart`), the memtables, the tables and the group
    under way are unions of blocks (`Stored`), and every record in every log
    holds whole blocks (`Logged`). `Numbered`, `Waiting` and `Distinct` keep the
    blocks of the next group apart from them: it starts behind the last sequence
    number, and a batch that waits is in none of the blocks.
  - `W` grows with each group handed to the log, also when the append fails and
    nobody knows what is in the file. A reopened database may number its entries
    from where a lost group did; `W` then becomes the blocks in the tables of the
    version, since the old logs are gone and the one in use is empty
    (`LogsBelow`).
  - A log that a crash cut, or that has a torn record in its middle, is
    `Genuine`: its every intact fragment continues the one before it, or starts
    a record (`Chain`). `GenuineRecord` shows that what `AddRecord` appends keeps
    it so, from wherever the offset stood; `GenuineCut` that a cut does;
    `ReadSound` that the reader, which skips what is torn and resumes at a block,
    then collects whole records only, since a fragment is accepted behind the
    very fragment it was written behind, or not at all.
* `RecordRead` (`LevelDBLogProofs`): the other half of what the log promises, that
  nothing is lost. If a log can be read up to its end (`Ready`: the fragments so
  far parse, and the reader resumes at the end of the file, where the offset of
  the writer stands in its block), then what `AddRecord` appends is among the
  records read, for any sizes, and the log is `Ready` again at `OffsetAfter`.
* `PromisesKept` (`LevelDBStoreProofs`): `Spec => PromiseKept`, the store
  implements `LevelDBPromise`. `PromiseInv` says where what was promised can be
  found, with the same predicate for what survives a process (`kept`, with what
  the logs hold, `Whole`) and what survives the machine (`safe`, with what is
  synced of them, `Certain`).
  - `Durable`: in an open database a promised batch is among its entries, and in
    a memtable only if the log of that memtable has it; in one that is not open,
    every version that the manifest may name has the batch, or a log from that
    version's number on.
  - A crash leads from the first case to the second. `Covered` is what makes it
    hold: a version that recovery may find has the entries of the one in use,
    and those of the old memtable unless it still has the log of it replayed.
    It holds for an edit that was cut off or failed (`LatestCovers`) since
    `WorkDone` knows what the edit adds: a flush the old memtable and the number
    of the log in use, a merge nothing that it did not take.
  - Logs only go on (`LogsGoOn`), what is read of them only grows (`LogsRise`,
    from `ReadLonger`), and a log is deleted only below the number of a version
    that is written. A crash cuts behind what is held, or what is synced
    (`KillLogs`, `PowerLossLogs`).
  - A group is kept when the reader would return it: `LogReady` keeps
    the log in use `Ready` until an append to it fails, and `RecordRead` does the
    rest. `SyncDone` adds that a group with a writer who asks for a sync is
    synced to the end of the log. `Fresh` and `Separate` keep its batches apart
    from those of the old memtable, which a sync of this log does not cover.
  - `Opened` follows recovery: what must be kept is in the version, in the
    tables made so far, or in a log that is left.
  - `StepPromised` maps `InsertInto` to `Commit`, `FlushDone` to `Settle`,
    `WriteLogFails` to `Tear`, a switch of memtables to `Renew`, `CommitOpen` to
    `Open`, `Kill` and `OpenFails` to `Kill`, `PowerLoss` to `PowerLoss`, and
    every other step to a stutter: only the end of a write
    changes what a reader sees (`ContentsNext`).
* `TypeCorrect`, `TablesApart` (`LevelDBTreeProofs`): `TypeOK` and
  `LevelsDisjoint`. That the outputs of a merge are apart follows from the order
  in which it adds entries (`InOrderIs`, `AddSound`, `FoldIs`). That they are
  apart from the other tables of their level when they are installed, after
  memtables were flushed to that very level meanwhile, is the hard part:
  `InputsGapless` says that the inputs leave no gap in which a range fits
  without meeting a table. A memtable is flushed below level 0 only if it meets
  no table on its way down, so it lies on one side of all inputs, and of their
  outputs (`OutputsClear`). Inputs chosen by `SetupOtherInputs` are gapless since
  each step takes all that meets the range of the last (`SearchGapless`); those
  of a manual compaction are not, which is `ldb_overlap`. The growing search of
  level 0 (`GetOverlappingInputs` restarts it) is shown to end in
  `SearchRounds`.
* `ReadsAreNewest` (`LevelDBTreeProofs`): `GetIsNewest`. `Reading` is inductive
  on top of `IInv`.
  - `MemoryNewest` and `FlushedInOrder` order the entries of the memtables, the
    tables, and the tables of level 0 by age, always.
  - While nothing has gone wrong (`broken = {}`), `NeverHop` says that the newer
    entry of a key lies above the older one, and `Kept` that for every reader, at
    a snapshot or now, the last write of each key is stored, or is a deletion and
    nothing older of its key is left for it to hide.
  - `MergeReads` is about a merge under way, of which no version knows: what it
    leaves in its two levels is newer than what it takes of the same key
    (`RestNewer`), and its outputs have what a reader needs, or the deletion they
    drop has no entry of its key deeper (`KeptBy`).
  - `MergedEntries` shows that a merge makes exactly the entries that no newer
    one hides from all snapshots and that are no useless deletions;
    `SearchCloses` that the search of level 0 leaves no table out that meets its
    range; `FlushReads` that a memtable flushed during a merge never goes below
    a level with one of its keys, so that a deletion already dropped uncovers
    nothing; `Installs` puts the three together at the end of a merge.
  - `GetFinds` is about the read: it stops at the first entry it meets, in the
    order of the search, and `NeverHop` makes that the newest one stored.
* `ScansAreNewest` (`LevelDBTreeProofs`): `ScanIsNewest`, from the same
  invariant. The argument has two halves that meet in one set, `Live`: the rows
  of a view that are in view, are no deletions and have no newer row of their
  key in view.
  - `LiveAreLast` says, from `Kept`, that these are the last writes that have
    values. `PlacesExist` numbers them in the order of their keys.
  - The rest is about `LevelDBIter` alone, for any rows in the order of internal
    keys. `OnwardFinds` shows that `FindNextUserEntry` ends at the first live row
    above the key it skips, if it is `Ready`: nothing in view that it has passed
    has a key still ahead, save keys that it skips. `BackwardFinds` shows that
    `FindPrevUserEntry` saves the last live row up to where it starts, and stops
    before all rows of its key in view, which is what lets the next call, in
    either direction, go on. `FirstIs`, `LastIs`, `SeekIs`, `MoveNextIs` and
    `MovePrevIs` follow for the calls of the iterator.

The prover cannot instantiate the library's induction theorems, which take an
operator. `SetInduction` states induction for a *set* of numbers, `LeastOf` and
`GreatestOf` that such sets have a least and a greatest element,
`IterationExists` that a recursively defined sequence exists; the recursive
functions and folds of the model are unfolded with them, one by one.

Only model-checked. All liveness (`StartReachesLobby`, `LeaverIsNamed`,
`TasksEnd`, `LoginMakesPlayer`, `ScanEnds`, `CallsReturn`), which is beyond the prover.

## 6. Not modelled

Drawing, layout and text (`QRCameraSwitchButton`, `QRCodeReaderView`, the table
of players, the countdown's format), `handleLogin:` (its button is commented
out), the camera switch, the torch and the orientation of the scanner (no
button calls the first two). The network may delay for ever only in runs
without fairness. Two phones signed in with one account are not distinguished
from one phone. Observers of lobbies that were dismissed stay registered in the
code; their segues do nothing since their controller is off screen, so the
model drops them.

Of leveldb: the format of tables (blocks, filters, compression), the table and
block caches, the skip list's memory order (one writer, readers without locks),
the repairer, the C binding, `dumpfile`, the in-memory environment, and the
file locks of `DB::Open`. nanopb encodes and decodes one message at a time
without state between calls. Firebase, Facebook and GTMSessionFetcher are
binaries or headers here: what the app relies on is modelled where it is used
and marked external.

## 7. Where to go on

1. The table format with its two-level iterator and the pinned blocks of the
   cache, under `LevelDBIter`.
2. The optimistic transaction of Firebase (run locally, compare, retry), which
   `CommitMark` takes as one step.
3. An append that fails: what was acknowledged before it is kept
   (`PromisesKept`) and what comes behind it may be lost (`ldb_lost`), but how
   much of it the reader still returns, which depends on where the next block
   starts, is not stated.
