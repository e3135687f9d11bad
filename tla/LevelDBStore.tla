---------------------------- MODULE LevelDBStore ----------------------------
(***************************************************************************)
(* The writes of leveldb (db_impl.cc): the queue of writers and its group  *)
(* commit, the log, the memtables, the background thread that turns them   *)
(* into tables and merges tables, the manifest, the deletion of obsolete   *)
(* files, and recovery after the process or the machine died.              *)
(*                                                                         *)
(* A write is a batch with keys of its own: which entries of a key a       *)
(* reader sees is the subject of LevelDBTree.  An entry is a pair of a     *)
(* sequence number and its batch.  What runs under mutex_ is one action,   *)
(* and so is each call on a file made without it.  A file keeps what was   *)
(* handed to write(2) when the process dies, and what was synced when the  *)
(* machine does, of the rest some first part.                              *)
(***************************************************************************)
EXTENDS Integers, Sequences, FiniteSets, SequencesExt, FiniteSetsExt, LevelDBLog

CONSTANTS
  Clients,      \* threads that write
  MaxBatch,     \* bound on the batches written
  MaxForced,    \* bound on the calls of TEST_CompactMemTable
  Size,         \* per batch: its entries
  WriteBuffer,  \* write_buffer_size, in entries
  L0Trigger,    \* kL0_CompactionTrigger
  L0Stop,       \* kL0_StopWritesTrigger
  Faults,       \* which of "append", "sync", "create", "table", "manifest",
                \* "kill" and "power" may happen
  MaxErrors,    \* bound on the calls on files that fail
  MaxCrashes    \* bound on the ends of the process or of the machine

Batches == 1..MaxBatch

ASSUME StoreAssumption ==
  /\ MaxBatch \in Nat /\ MaxForced \in Nat
  /\ MaxErrors \in Nat /\ MaxCrashes \in Nat
  /\ Size \in [Batches -> Nat \ {0}]
  /\ WriteBuffer \in Nat
  /\ L0Trigger \in Nat \ {0} /\ L0Stop \in Nat /\ L0Trigger <= L0Stop

VARIABLES
  (* the process *)
  up,          \* "closed", "replay", "commit" or "open"
  call,        \* per client: the call of Write or TEST_CompactMemTable
  writers,     \* writers_
  asleep,      \* clients that wait on their own condition variable
  bgWaiters,   \* clients that wait on bg_cv_
  leader,      \* what the writer at the front does without the mutex
  mem, imm, hasImm,
  lastSequence, logfileNumber, blockOffset, nextFile,
  pendingOutputs,
  version,     \* log_number_, and the tables of current()
  bgError,
  bg,          \* the background thread
  opening,     \* DB::Open: the logs left to replay, the tables made
  (* the disk *)
  logs,        \* per log number: units, how many are synced, a failed append
  tables,      \* per table number: its entries
  manifests,   \* what the manifest says, and what it may say after an error
  (* history *)
  issued,      \* the batches handed to Write, and the other calls
  acked, kept, \* as in LevelDBPromise: the writes that were acknowledged,
  safe,        \* those that a crash must leave, those that outlive the machine
  faults       \* the faults so far

callVars == <<call, writers, asleep, bgWaiters, leader>>
memVars == <<mem, imm, hasImm, lastSequence, logfileNumber, blockOffset, nextFile>>
bgVars == <<pendingOutputs, version, bgError, bg>>
openVars == <<up, opening>>
diskVars == <<logs, tables, manifests>>
promiseVars == <<acked, kept, safe>>
vars == <<callVars, memVars, bgVars, openVars, diskVars, promiseVars, issued, faults>>

NoCall == [op |-> "none", batch |-> 0, sync |-> FALSE, force |-> FALSE,
           written |-> FALSE, since |-> 0]
NoLeader == [step |-> "idle", n |-> 0, entries |-> <<>>]
NoEdit == [log |-> 0, l0 |-> {}, deep |-> {}, dropped |-> {}, seq |-> 0, next |-> 0]
NoWork == [step |-> "idle", file |-> 0, into |-> 0, from |-> {}, edit |-> NoEdit]
NewManifest == [log |-> 0, l0 |-> {}, deep |-> {}, seq |-> 0, next |-> 2]

Init ==
  /\ up = "closed"
  /\ opening = [left |-> {}, made |-> {}]
  /\ call = [c \in Clients |-> NoCall]
  /\ writers = <<>> /\ asleep = {} /\ bgWaiters = {} /\ leader = NoLeader
  /\ mem = {} /\ imm = {} /\ hasImm = FALSE
  /\ lastSequence = 0 /\ logfileNumber = 0 /\ blockOffset = 0 /\ nextFile = 0
  /\ pendingOutputs = {} /\ version = NewManifest
  /\ bgError = FALSE /\ bg = NoWork
  /\ logs = << >> /\ tables = << >> /\ manifests = <<NewManifest>>
  /\ issued = [batches |-> 0, forced |-> 0] /\ acked = {} /\ kept = {} /\ safe = {}
  /\ faults = [errors |-> 0, crashes |-> 0]

Fails(operation) ==
  /\ operation \in Faults /\ faults.errors < MaxErrors
  /\ faults' = [faults EXCEPT !.errors = @ + 1]

Crashes(kind) ==
  /\ kind \in Faults /\ faults.crashes < MaxCrashes
  /\ faults' = [faults EXCEPT !.crashes = @ + 1]

BatchesOf(entries) == {e.batch : e \in entries}
LiveTables(v) == v.l0 \cup v.deep
Entries(v) == UNION {tables[n] : n \in LiveTables(v)}
Visible == {e \in mem \cup imm \cup Entries(version) : e.seq <= lastSequence}

-----------------------------------------------------------------------------
(* Writers.                                                                *)

Enqueue(c, op, batch, sync) ==
  /\ up = "open" /\ call[c].op = "none"
  /\ call' = [call EXCEPT ![c] =
       [NoCall EXCEPT !.op = op, !.batch = batch, !.sync = sync,
                      !.force = (batch = 0),
                      !.since = IF batch = 0 THEN lastSequence ELSE 0]]
  /\ writers' = Append(writers, c)
  /\ asleep' = IF writers = <<>> THEN asleep ELSE asleep \cup {c}
  /\ UNCHANGED <<bgWaiters, leader, memVars, bgVars, openVars, diskVars, promiseVars, faults>>

Write(c) ==
  /\ issued.batches < MaxBatch
  /\ issued' = [issued EXCEPT !.batches = @ + 1]
  /\ \E sync \in BOOLEAN : Enqueue(c, "write", issued'.batches, sync)

(* TEST_CompactMemTable, which CompactRange calls, writes no batch.        *)
CompactMemTableNow(c) ==
  /\ issued.forced < MaxForced
  /\ issued' = [issued EXCEPT !.forced = @ + 1]
  /\ Enqueue(c, "compact", 0, FALSE)

Leads(c) ==
  /\ up = "open" /\ writers # <<>> /\ c = Head(writers)
  /\ c \notin asleep \cup bgWaiters /\ leader.step = "idle"

(* Mutant: the last writer of the group stays in the queue.               *)
QueueFromLast(n) == SubSeq(writers, n, Len(writers))

(* Who is left in the queue.                                               *)
RestOfQueue(n) == SubSeq(writers, n + 1, Len(writers))

(* The first n writers are done: Write returns, to TEST_CompactMemTable if *)
(* there is no batch.  The next writer is woken.                           *)
Finish(n, ok) ==
  LET group == {writers[i] : i \in 1..n} IN
  /\ writers' = RestOfQueue(n)
  /\ call' = [c \in Clients |->
       IF c \notin group THEN call[c]
       ELSE IF call[c].batch # 0 \/ ~ok THEN NoCall
       ELSE [call[c] EXCEPT !.written = TRUE]]
  /\ asleep' = asleep \ (group \cup (IF n < Len(writers) THEN {writers[n + 1]} ELSE {}))
  /\ leader' = NoLeader

(* Mutant: only a full memtable is work for the background thread.         *)
PendingMemTable(immThere, v) == immThere

(* NeedsCompaction, or a memtable to flush.                                *)
Pending(immThere, v) == immThere \/ Cardinality(v.l0) >= L0Trigger

(* MaybeScheduleCompaction.                                                *)
Scheduled(work, immThere, v, err) ==
  IF work.step = "idle" /\ ~err /\ Pending(immThere, v)
    THEN [NoWork EXCEPT !.step = "scheduled"] ELSE work

(* Mutant: a sync write may join any group.                                *)
AnyGroup == 1..Len(writers)

(* How many writers BuildBatchGroup may take: no sync write joins a group  *)
(* that is not synced, and large batches end a group early.                *)
GroupLengths ==
  {n \in 1..Len(writers) :
     \A i \in 2..n : call[writers[i]].sync => call[writers[1]].sync}

(* The entries of the batches of the first n writers.                      *)
BatchGroup(n) ==
  LET sized(i) == [k \in 1..(IF call[writers[i]].batch = 0 THEN 0 ELSE Size[call[writers[i]].batch])
                     |-> call[writers[i]].batch]
      batches == FlattenSeq([i \in 1..n |-> sized(i)])
  IN [i \in DOMAIN batches |-> [seq |-> lastSequence + i, batch |-> batches[i]]]

(* MakeRoomForWrite, one action per branch of its loop.                    *)
HasRoom(c) == ~call[c].force /\ Cardinality(mem) <= WriteBuffer
MustWait == hasImm \/ Cardinality(version.l0) >= L0Stop

RoomError(c) ==
  /\ Leads(c) /\ bgError
  /\ Finish(1, FALSE)
  /\ UNCHANGED <<bgWaiters, memVars, bgVars, openVars, diskVars, promiseVars, issued, faults>>

RoomThere(c) ==
  /\ Leads(c) /\ ~bgError /\ HasRoom(c)
  /\ IF call[c].batch = 0 THEN Finish(1, TRUE)
     ELSE /\ \E n \in GroupLengths :
               leader' = [step |-> "log", n |-> n, entries |-> BatchGroup(n)]
          /\ UNCHANGED <<call, writers, asleep>>
  /\ UNCHANGED <<bgWaiters, memVars, bgVars, openVars, diskVars, promiseVars, issued, faults>>

RoomWaits(c) ==
  /\ Leads(c) /\ ~bgError /\ ~HasRoom(c) /\ MustWait
  /\ bgWaiters' = bgWaiters \cup {c}
  /\ UNCHANGED <<call, writers, asleep, leader, memVars, bgVars, openVars, diskVars,
                 promiseVars, issued, faults>>

RoomNoFile(c) ==
  /\ Leads(c) /\ ~bgError /\ ~HasRoom(c) /\ ~MustWait
  /\ Fails("create")
  /\ Finish(1, FALSE)
  /\ UNCHANGED <<bgWaiters, memVars, bgVars, openVars, diskVars, promiseVars, issued>>

NewLog == [units |-> <<>>, synced |-> 0, bad |-> FALSE]
With(f, n, v) == [i \in DOMAIN f \cup {n} |-> IF i = n THEN v ELSE f[i]]

SwitchMemTable(c) ==
  /\ Leads(c) /\ ~bgError /\ ~HasRoom(c) /\ ~MustWait
  /\ logs' = With(logs, nextFile, NewLog)
  /\ logfileNumber' = nextFile /\ nextFile' = nextFile + 1 /\ blockOffset' = 0
  /\ imm' = mem /\ hasImm' = TRUE /\ mem' = {}
  /\ call' = [call EXCEPT ![c].force = FALSE]
  /\ bg' = Scheduled(bg, TRUE, version, bgError)
  /\ UNCHANGED <<writers, asleep, bgWaiters, leader, lastSequence, pendingOutputs, version,
                 bgError, openVars, tables, manifests, promiseVars, issued, faults>>

(* The log: a whole record, or what fits before the call fails.  The       *)
(* offset moves on in either case, and so does the sequence.               *)
Writing(c, step) == up = "open" /\ leader.step = step /\ c = Head(writers)

(* Mutant: one sequence number per batch.                                  *)
SequencePerBatch == lastSequence + leader.n

SequenceAfterGroup == lastSequence + Len(leader.entries)

Appended(file, units) == [file EXCEPT !.units = @ \o units]

WriteLog(c) ==
  LET units == FlattenSeq(AddRecord(blockOffset, leader.entries)) IN
  /\ Writing(c, "log")
  /\ logs' = [logs EXCEPT ![logfileNumber] = Appended(@, units)]
  /\ blockOffset' = OffsetAfter(blockOffset, Len(units))
  /\ leader' = [leader EXCEPT !.step = IF call[c].sync THEN "sync" ELSE "insert"]
  /\ UNCHANGED <<call, writers, asleep, bgWaiters, mem, imm, hasImm, lastSequence,
                 logfileNumber, nextFile, bgVars, openVars, tables, manifests,
                 promiseVars, issued, faults>>

WriteLogFails(c) ==
  LET fragments == AddRecord(blockOffset, leader.entries) IN
  /\ Writing(c, "log") /\ Fails("append")
  /\ \E i \in DOMAIN fragments, k \in 0..Len(FlattenSeq(fragments)) :
       LET before == FlattenSeq(SubSeq(fragments, 1, i - 1)) IN
       /\ k < Len(fragments[i])
       /\ logs' = [logs EXCEPT ![logfileNumber] =
            [Appended(@, before \o SubSeq(fragments[i], 1, k)) EXCEPT !.bad = TRUE]]
       /\ blockOffset' = OffsetAfter(blockOffset, Len(before) + Len(fragments[i]))
  /\ lastSequence' = SequenceAfterGroup
  /\ Finish(leader.n, FALSE)
  /\ UNCHANGED <<bgWaiters, mem, imm, hasImm, logfileNumber, nextFile, bgVars, openVars,
                 tables, manifests, promiseVars, issued>>

SyncLog(c) ==
  /\ Writing(c, "sync")
  /\ logs' = [logs EXCEPT ![logfileNumber].synced = Len(logs[logfileNumber].units)]
  /\ leader' = [leader EXCEPT !.step = "insert"]
  /\ UNCHANGED <<call, writers, asleep, bgWaiters, memVars, bgVars, openVars, tables,
                 manifests, promiseVars, issued, faults>>

SyncLogFails(c) ==
  /\ Writing(c, "sync") /\ Fails("sync")
  /\ bgError' = TRUE
  /\ bgWaiters' = IF bgError THEN bgWaiters ELSE {}
  /\ lastSequence' = SequenceAfterGroup
  /\ Finish(leader.n, FALSE)
  /\ UNCHANGED <<mem, imm, hasImm, logfileNumber, blockOffset, nextFile, pendingOutputs, version,
                 bg, openVars, diskVars, promiseVars, issued>>

(* InsertInto, and the end of Write.  The group is acknowledged, and kept  *)
(* unless an earlier append to this log failed; a sync makes safe what     *)
(* this log holds, and those who asked for one count on it.                *)
InsertInto(c) ==
  LET group == ToSet(leader.entries)
      asked == {call[writers[i]].batch : i \in {j \in 1..leader.n : call[writers[j]].sync}}
  IN
  /\ Writing(c, "insert")
  /\ mem' = mem \cup group
  /\ lastSequence' = SequenceAfterGroup
  /\ acked' = acked \cup BatchesOf(group)
  /\ kept' = IF logs[logfileNumber].bad THEN kept ELSE kept \cup BatchesOf(group)
  /\ safe' = safe \cup (kept' \cap (asked \cup IF call[c].sync THEN BatchesOf(mem') ELSE {}))
  /\ Finish(leader.n, TRUE)
  /\ UNCHANGED <<bgWaiters, imm, hasImm, logfileNumber, blockOffset, nextFile, bgVars, openVars,
                 diskVars, issued, faults>>

(* Mutant: TEST_CompactMemTable returns after Write.                       *)
NeverFlush == FALSE

(* TEST_CompactMemTable waits for imm_ to be gone.                         *)
MustFlush == hasImm /\ ~bgError

WaitFlushed(c) ==
  /\ up = "open" /\ call[c].written /\ c \notin bgWaiters /\ MustFlush
  /\ bgWaiters' = bgWaiters \cup {c}
  /\ UNCHANGED <<call, writers, asleep, leader, memVars, bgVars, openVars, diskVars,
                 promiseVars, issued, faults>>

Flushed(c) ==
  /\ up = "open" /\ call[c].written /\ c \notin bgWaiters /\ ~MustFlush
  /\ call' = [call EXCEPT ![c] = NoCall]
  /\ UNCHANGED <<writers, asleep, bgWaiters, leader, memVars, bgVars, openVars, diskVars,
                 promiseVars, issued, faults>>

-----------------------------------------------------------------------------
(* The background thread.                                                  *)

(* BackgroundCall gives up the thread, asks for it again if there is work, *)
(* and wakes who waits; within a merge, DoCompactionWork goes on.          *)
EndWork(immThere, v, err) ==
  /\ bg' = Scheduled(NoWork, immThere, v, err)
  /\ bgWaiters' = {}

EndFlush(immThere, v, err) ==
  IF bg.into = 0 THEN EndWork(immThere, v, err)
  ELSE /\ bg' = [bg EXCEPT !.step = "merge", !.file = 0, !.edit = NoEdit]
       /\ bgWaiters' = {}

NothingToDo ==
  /\ bg.step = "scheduled" /\ (bgError \/ ~Pending(hasImm, version))
  /\ EndWork(hasImm, version, bgError)
  /\ UNCHANGED <<call, writers, asleep, leader, memVars, pendingOutputs, version, bgError,
                 openVars, diskVars, promiseVars, issued, faults>>

(* CompactMemTable, at the start of BackgroundCompaction or in the loop of *)
(* DoCompactionWork: a new table, unless the memtable is empty.            *)
StartFlush ==
  /\ bg.step = "merge" \/ (bg.step = "scheduled" /\ ~bgError)
  /\ hasImm
  /\ bg' = [bg EXCEPT !.step = "build", !.file = nextFile]
  /\ nextFile' = nextFile + 1
  /\ pendingOutputs' = pendingOutputs \cup {nextFile}
  /\ tables' = IF imm = {} THEN tables ELSE With(tables, nextFile, {})
  /\ UNCHANGED <<callVars, mem, imm, hasImm, lastSequence, logfileNumber, blockOffset, version,
                 bgError, openVars, logs, manifests, promiseVars, issued, faults>>

(* LogAndApply completes an edit under the mutex before it is written.     *)
Edit(log, l0, deep, dropped) ==
  [log |-> log, l0 |-> l0, deep |-> deep, dropped |-> dropped,
   seq |-> lastSequence, next |-> nextFile]

(* The table is there and synced.  It goes to level 0, where it counts     *)
(* against L0Stop, though the code may find it a place further down.       *)
BuildTable ==
  /\ bg.step = "build"
  /\ tables' = IF imm = {} THEN tables ELSE [tables EXCEPT ![bg.file] = imm]
  /\ pendingOutputs' = pendingOutputs \ {bg.file}
  /\ LET new == IF imm = {} THEN {} ELSE {bg.file}
     IN bg' = [bg EXCEPT !.step = "apply", !.edit = Edit(logfileNumber, new, {}, {})]
  /\ UNCHANGED <<callVars, memVars, version, bgError, openVars, logs, manifests, promiseVars,
                 issued, faults>>

Without(f, S) == [i \in DOMAIN f \ S |-> f[i]]

BuildTableFails ==
  /\ bg.step = "build" /\ imm # {} /\ Fails("table")
  /\ tables' = Without(tables, {bg.file})
  /\ pendingOutputs' = pendingOutputs \ {bg.file}
  /\ bgError' = TRUE
  /\ EndFlush(hasImm, version, TRUE)
  /\ UNCHANGED <<call, writers, asleep, leader, memVars, version, openVars, logs, manifests,
                 promiseVars, issued>>

Edited(m, e) ==
  [log |-> e.log, l0 |-> (m.l0 \ e.dropped) \cup e.l0, deep |-> (m.deep \ e.dropped) \cup e.deep,
   seq |-> e.seq, next |-> e.next]

(* An edit that is written comes after those that failed: either they can  *)
(* all be read back, or Recover refuses the manifest for good.             *)
Latest(e) == Edited(Last(manifests), e)

(* Mutant: tables under construction are not spared.                       *)
ObsoleteButCurrent(v, pending) ==
  [tables |-> DOMAIN tables \ LiveTables(v), logs |-> {n \in DOMAIN logs : n < v.log}]

Obsolete(v, pending) ==
  [tables |-> DOMAIN tables \ (LiveTables(v) \cup pending),
   logs |-> {n \in DOMAIN logs : n < v.log}]

(* DeleteObsoleteFiles.                                                    *)
DeleteObsoleteFiles(v, pending) ==
  IF bgError THEN UNCHANGED <<tables, logs>>
  ELSE /\ tables' = Without(tables, Obsolete(v, pending).tables)
       /\ logs' = Without(logs, Obsolete(v, pending).logs)

FlushDone ==
  /\ bg.step = "apply"
  /\ version' = Edited(version, bg.edit)
  /\ manifests' = <<Latest(bg.edit)>>
  /\ imm' = {} /\ hasImm' = FALSE
  /\ DeleteObsoleteFiles(version', pendingOutputs)
  /\ LET settled == IF bgError THEN {} ELSE acked \cap BatchesOf(imm) IN
       kept' = kept \cup settled /\ safe' = safe \cup settled
  /\ EndFlush(FALSE, version', bgError)
  /\ UNCHANGED <<call, writers, asleep, leader, mem, lastSequence, logfileNumber, blockOffset,
                 nextFile, pendingOutputs, bgError, openVars, acked, issued, faults>>

ManifestFails(e) ==
  /\ Fails("manifest")
  /\ manifests' = Append(manifests, Latest(e))
  /\ bgError' = TRUE

FlushFails ==
  /\ bg.step = "apply" /\ ManifestFails(bg.edit)
  /\ EndFlush(hasImm, version, TRUE)
  /\ UNCHANGED <<call, writers, asleep, leader, memVars, pendingOutputs, version, openVars,
                 logs, tables, promiseVars, issued>>

(* A merge of the tables of level 0 with those below.  Its output is       *)
(* synced before it counts.                                                *)
StartMerge ==
  /\ bg.step = "scheduled" /\ ~bgError /\ ~hasImm /\ Pending(hasImm, version)
  /\ bg' = [bg EXCEPT !.step = "merge", !.into = nextFile, !.from = LiveTables(version)]
  /\ nextFile' = nextFile + 1
  /\ pendingOutputs' = pendingOutputs \cup {nextFile}
  /\ tables' = With(tables, nextFile, {})
  /\ UNCHANGED <<callVars, mem, imm, hasImm, lastSequence, logfileNumber, blockOffset, version,
                 bgError, openVars, logs, manifests, promiseVars, issued, faults>>

MergeTables ==
  /\ bg.step = "merge"
  /\ tables' = [tables EXCEPT ![bg.into] = UNION {tables[n] : n \in bg.from}]
  /\ bg' = [bg EXCEPT !.step = "install",
                      !.edit = Edit(version.log, {}, {bg.into}, bg.from)]
  /\ UNCHANGED <<callVars, memVars, pendingOutputs, version, bgError, openVars, logs, manifests,
                 promiseVars, issued, faults>>

MergeFails ==
  /\ bg.step = "merge" /\ Fails("table")
  /\ bgError' = TRUE
  /\ pendingOutputs' = pendingOutputs \ {bg.into}
  /\ EndWork(hasImm, version, TRUE)
  /\ UNCHANGED <<call, writers, asleep, leader, memVars, version, openVars, diskVars,
                 promiseVars, issued>>

InstallMerge ==
  /\ bg.step = "install"
  /\ version' = Edited(version, bg.edit)
  /\ manifests' = <<Latest(bg.edit)>>
  /\ pendingOutputs' = pendingOutputs \ {bg.into}
  /\ DeleteObsoleteFiles(version', pendingOutputs')
  /\ EndWork(hasImm, version', bgError)
  /\ UNCHANGED <<call, writers, asleep, leader, memVars, bgError, openVars, promiseVars, issued,
                 faults>>

InstallMergeFails ==
  /\ bg.step = "install" /\ ManifestFails(bg.edit)
  /\ pendingOutputs' = pendingOutputs \ {bg.into}
  /\ EndWork(hasImm, version, TRUE)
  /\ UNCHANGED <<call, writers, asleep, leader, memVars, version, openVars, logs, tables,
                 promiseVars, issued>>

-----------------------------------------------------------------------------
(* The end of the process, and DB::Open.                                   *)

(* What the process held in memory is gone.                                *)
Down ==
  /\ up' = "closed" /\ opening' = [left |-> {}, made |-> {}]
  /\ call' = [c \in Clients |-> NoCall]
  /\ writers' = <<>> /\ asleep' = {} /\ bgWaiters' = {} /\ leader' = NoLeader
  /\ mem' = {} /\ imm' = {} /\ hasImm' = FALSE
  /\ lastSequence' = 0 /\ logfileNumber' = 0 /\ blockOffset' = 0 /\ nextFile' = 0
  /\ pendingOutputs' = {} /\ version' = NewManifest
  /\ bgError' = FALSE /\ bg' = NoWork

(* An edit under way may be in the manifest or not.                        *)
ManifestsLeft ==
  IF bg.step \in {"apply", "install"} THEN Append(manifests, Latest(bg.edit)) ELSE manifests

(* The log as the machine holds it, with the record under way.             *)
Held(n) ==
  logs[n].units \o (IF leader.step = "log" /\ n = logfileNumber
                      THEN FlattenSeq(AddRecord(blockOffset, leader.entries)) ELSE <<>>)

(* Every log ends somewhere between two lengths.                           *)
CutLogs(least) ==
  LET longest == Max({0} \cup {Len(Held(n)) : n \in DOMAIN logs}) IN
  {[n \in DOMAIN logs |-> [logs[n] EXCEPT !.units = SubSeq(Held(n), 1, cut[n])]] :
     cut \in {f \in [DOMAIN logs -> 0..longest] :
                \A n \in DOMAIN logs : f[n] \in least[n]..Len(Held(n))}}

Written == [n \in DOMAIN logs |-> Len(logs[n].units)]
Synced == [n \in DOMAIN logs |-> logs[n].synced]

Kill ==
  /\ up # "closed" /\ Crashes("kill")
  /\ logs' \in CutLogs(Written)
  /\ manifests' = ManifestsLeft
  /\ Down
  /\ UNCHANGED <<tables, promiseVars, issued>>

PowerLoss ==
  /\ Crashes("power")
  /\ logs' \in CutLogs(Synced)
  /\ manifests' = ManifestsLeft
  /\ acked' = safe /\ kept' = safe
  /\ Down
  /\ UNCHANGED <<tables, safe, issued>>

(* VersionSet::Recover; a manifest that names missing tables is refused.   *)
Recover ==
  /\ up = "closed"
  /\ \E m \in ToSet(manifests) :
       /\ LiveTables(m) \subseteq DOMAIN tables
       /\ manifests' = <<m>> /\ version' = m
       /\ lastSequence' = m.seq
       /\ nextFile' = Max({m.next, m.log}) + 1
       /\ opening' = [left |-> {n \in DOMAIN logs : n >= m.log}, made |-> {}]
  /\ up' = "replay"
  /\ UNCHANGED <<callVars, mem, imm, hasImm, logfileNumber, blockOffset, pendingOutputs,
                 bgError, bg, logs, tables, promiseVars, issued, faults>>

(* Mutant: every fragment counts.                                          *)
ReplayedFragments(n) ==
  UNION {ToSet(fragment.data) : fragment \in ToSet(PhysicalRecords(logs[n].units))}

(* RecoverLogFile, the oldest log first: what it holds becomes a table of  *)
(* level 0, and its number counts as used.                                 *)
Replayed(n) == UNION {ToSet(record) : record \in ToSet(ReadRecords(logs[n].units))}

MarkFileNumberUsed(number, next) == IF next <= number THEN number + 1 ELSE next

ReplayLog ==
  /\ up = "replay" /\ opening.left # {}
  /\ LET n == Min(opening.left)
         found == Replayed(n)
     IN /\ lastSequence' = Max({lastSequence} \cup {e.seq : e \in found})
        /\ nextFile' = MarkFileNumberUsed(n, IF found = {} THEN nextFile ELSE nextFile + 1)
        /\ tables' = IF found = {} THEN tables ELSE With(tables, nextFile, found)
        /\ opening' = [left |-> opening.left \ {n},
                       made |-> opening.made \cup (IF found = {} THEN {} ELSE {nextFile})]
  /\ UNCHANGED <<callVars, mem, imm, hasImm, logfileNumber, blockOffset, bgVars, up, logs,
                 manifests, promiseVars, issued, faults>>

CreateLog ==
  /\ up = "replay" /\ opening.left = {}
  /\ logs' = With(logs, nextFile, NewLog)
  /\ logfileNumber' = nextFile /\ nextFile' = nextFile + 1
  /\ up' = "commit"
  /\ UNCHANGED <<callVars, mem, imm, hasImm, lastSequence, blockOffset, bgVars, opening, tables,
                 manifests, promiseVars, issued, faults>>

(* The new version goes to a new manifest, which CURRENT names at last.    *)
CommitOpen ==
  LET edit == Edit(logfileNumber, opening.made, {}, {}) IN
  /\ up = "commit"
  /\ version' = Edited(version, edit)
  /\ manifests' = <<version'>>
  /\ DeleteObsoleteFiles(version', {})
  /\ bg' = Scheduled(bg, FALSE, version', bgError)
  /\ up' = "open" /\ opening' = [left |-> {}, made |-> {}]
  /\ acked' = BatchesOf(Entries(version) \cup UNION {tables[n] : n \in opening.made})
  /\ kept' = acked' /\ safe' = acked'
  /\ UNCHANGED <<callVars, memVars, pendingOutputs, bgError, issued, faults>>

(* Open fails, with the files it has made left behind.                     *)
OpenFails ==
  /\ \/ up = "replay" /\ opening.left # {} /\ Fails("table")
     \/ up = "replay" /\ opening.left = {} /\ Fails("create")
     \/ up = "commit" /\ Fails("manifest")
  /\ Down
  /\ UNCHANGED <<diskVars, promiseVars, issued>>

-----------------------------------------------------------------------------
Room(c) == RoomError(c) \/ RoomThere(c) \/ RoomWaits(c) \/ RoomNoFile(c) \/ SwitchMemTable(c)

LogCalls(c) == WriteLog(c) \/ WriteLogFails(c) \/ SyncLog(c) \/ SyncLogFails(c) \/ InsertInto(c)

Background ==
  \/ NothingToDo
  \/ StartFlush \/ BuildTable \/ BuildTableFails \/ FlushDone \/ FlushFails
  \/ StartMerge \/ MergeTables \/ MergeFails \/ InstallMerge \/ InstallMergeFails

OpenSteps == Recover \/ ReplayLog \/ CreateLog \/ CommitOpen \/ OpenFails

Next ==
  \/ \E c \in Clients : Write(c) \/ CompactMemTableNow(c)
  \/ \E c \in Clients : Room(c) \/ LogCalls(c) \/ WaitFlushed(c) \/ Flushed(c)
  \/ Background
  \/ OpenSteps
  \/ Kill \/ PowerLoss

Spec == Init /\ [][Next]_vars

(* Threads that can run do, and the calls they make end.  Of the clients   *)
(* in the queue only the first one can run.                                *)
FairSpec ==
  /\ Spec
  /\ WF_vars(\E c \in Clients : Room(c) \/ LogCalls(c))
  /\ \A c \in Clients : WF_vars(WaitFlushed(c) \/ Flushed(c))
  /\ WF_vars(Background)

-----------------------------------------------------------------------------
(* Properties.                                                             *)

TypeOK ==
  /\ up \in {"closed", "replay", "commit", "open"}
  /\ ToSet(writers) \subseteq Clients /\ asleep \subseteq ToSet(writers)
  /\ bgWaiters \subseteq Clients
  /\ leader.step \in {"idle", "log", "sync", "insert"} /\ leader.n <= Len(writers)
  /\ \A c \in ToSet(writers) : call[c].op # "none" /\ ~call[c].written
  /\ hasImm \in BOOLEAN /\ (hasImm \/ imm = {})
  /\ lastSequence \in Nat /\ nextFile \in Nat
  /\ up = "open" => logfileNumber \in DOMAIN logs
  /\ blockOffset \in 0..BlockSize
  /\ bg.step \in {"idle", "scheduled", "build", "apply", "merge", "install"}
  /\ acked \subseteq Batches /\ kept \subseteq acked /\ safe \subseteq kept
  /\ faults.errors \in 0..MaxErrors /\ faults.crashes \in 0..MaxCrashes

(* No file that recovery needs is ever deleted: each version the manifest  *)
(* may turn out to name has its tables (DeleteObsoleteFiles against a      *)
(* flush within a merge, pending_outputs_ and the numbers of new files).   *)
TablesPresent == \A m \in ToSet(ManifestsLeft) : LiveTables(m) \subseteq DOMAIN tables

(* A new write gets a sequence number above everything in the database,    *)
(* failed writes and recovered logs included, so nothing older hides it.   *)
NewestIsLast ==
  up = "open" =>
    \A e \in mem \cup imm \cup Entries(version) : e.seq <= lastSequence

(* A batch is in the database whole or not at all, and no two entries      *)
(* share a sequence number, however its record was cut or grouped.         *)
BatchesWhole ==
  up = "open" =>
    /\ \A b \in Batches : Cardinality({e \in Visible : e.batch = b}) \in {0, Size[b]}
    /\ \A e, f \in Visible : e.seq = f.seq => e = f

(* What crashes leave of the writes with and without sync: LevelDBPromise, *)
(* which leaves out, against options.h, what Write acknowledges behind a   *)
(* failed append to the same log, until a flush puts it into a table.      *)
Promise ==
  INSTANCE LevelDBPromise WITH
    open <- up = "open",
    torn <- up = "open" /\ logs[logfileNumber].bad,
    data <- IF up = "open" THEN BatchesOf(Visible) ELSE {}
PromiseKept == Promise!Spec

(* Every acknowledged write is there when the database is opened again,    *)
(* unless the machine died (options.h of sync: if just the process crashes *)
(* no writes will be lost).  An append that failed earlier breaks it.      *)
NoWriteLost == [][up = "commit" /\ up' = "open" => acked \subseteq acked']_vars

(* When TEST_CompactMemTable returns without an error, what was in the     *)
(* database at the call is in tables, if the call led the queue itself: in *)
(* another writer's group its request to switch memtables gets lost.       *)
CompactedIsInTables ==
  [][\A c \in Clients :
       /\ call[c].written /\ ~call[c].force /\ ~(hasImm /\ bgError)
       /\ up' = "open" /\ ~call'[c].written
       => \A e \in mem \cup imm : e.seq > call[c].since]_vars

(* Every call returns: no writer is forgotten in the queue or on bg_cv_.   *)
CallsReturn == \A c \in Clients : call[c].op # "none" ~> call[c].op = "none"
=============================================================================
