------------------------- MODULE LevelDBStoreProofs -------------------------
(***************************************************************************)
(* Safety of the store for any clients, batches, sizes, limits and bounds: *)
(* its types, TablesPresent, NewestIsLast and CompactedIsInTables follow   *)
(* from one inductive invariant, IInv; BatchesWhole from IInv and a second *)
(* one, WholeInv, which says of which blocks of entries the memtables, the *)
(* tables and the logs consist; PromiseKept from these and a third,        *)
(* PromiseInv, which says where each promised batch is: in the logs that   *)
(* recovery would replay or in every version that it may find. First come  *)
(* facts about what the recursions of the model return, then the parts of  *)
(* IInv, then a lemma for each part and group of actions, then the         *)
(* theorems; WholeInv and PromiseInv follow in the same order.             *)
(***************************************************************************)
EXTENDS LevelDBStore, LevelDBLogProofs, FunctionTheorems

-----------------------------------------------------------------------------
(* The inductive invariant.                                                *)

Entry == [seq : Nat, batch : Batches]
Units == Entry \cup Headers(Entry)
LogFile == [units : Seq(Units), synced : Nat, bad : BOOLEAN]
Manifest == [log : Nat, l0 : SUBSET Nat, deep : SUBSET Nat, seq : Nat, next : Nat]
EditType == [log : Nat, l0 : SUBSET Nat, deep : SUBSET Nat, dropped : SUBSET Nat,
             seq : Nat, next : Nat]
Work == [step : {"idle", "scheduled", "build", "apply", "merge", "install"},
         file : Nat, into : Nat, from : SUBSET Nat, edit : EditType]
Call == [op : {"none", "write", "compact"}, batch : Nat, sync : BOOLEAN, force : BOOLEAN,
         written : BOOLEAN, since : Nat]

(* The queue: nobody twice, and everybody in it with a call under way.     *)
Queued ==
  /\ \A i, j \in 1..Len(writers) : writers[i] = writers[j] => i = j
  /\ \A i \in 1..Len(writers) : call[writers[i]].op # "none" /\ ~call[writers[i]].written
  /\ asleep \subseteq ToSet(writers)

CallsTyped ==
  /\ issued \in [batches : 0..MaxBatch, forced : Nat]
  /\ call \in [Clients -> Call] /\ \A c \in Clients : call[c].batch <= MaxBatch
  /\ writers \in Seq(Clients) /\ bgWaiters \subseteq Clients
  /\ leader \in [step : {"idle", "log", "sync", "insert"}, n : Nat, entries : Seq(Entry)]
  /\ leader.n <= Len(writers)

MemoryTyped ==
  /\ mem \subseteq Entry /\ imm \subseteq Entry /\ hasImm \in BOOLEAN
  /\ lastSequence \in Nat /\ logfileNumber \in Nat /\ nextFile \in Nat
  /\ blockOffset \in 0..BlockSize
  /\ bgError \in BOOLEAN
  /\ up \in {"closed", "replay", "commit", "open"}
  /\ opening \in [left : SUBSET Nat, made : SUBSET Nat]
  /\ version \in Manifest
  /\ bg \in Work

DiskTyped ==
  /\ DOMAIN logs \subseteq Nat /\ logs \in [DOMAIN logs -> LogFile]
  /\ DOMAIN tables \subseteq Nat /\ tables \in [DOMAIN tables -> SUBSET Entry]
  /\ manifests \in Seq(Manifest) /\ manifests # <<>>
  /\ opening.left \subseteq DOMAIN logs

(* A process that is not there, or recovers, has nothing in memory.        *)
Idle ==
  /\ up # "open" =>
       /\ call = [c \in Clients |-> NoCall] /\ writers = <<>> /\ leader = NoLeader
       /\ mem = {} /\ imm = {} /\ ~hasImm /\ ~bgError /\ bg = NoWork
  /\ up # "replay" => opening.left = {}
  /\ up \in {"closed", "open"} => opening.made = {}

(* The log in use is there, and never one that recovery does without.      *)
LogInUse ==
  /\ up # "closed" => version.log < nextFile
  /\ up \in {"commit", "open"} =>
       /\ logfileNumber \in DOMAIN logs /\ logfileNumber < nextFile
       /\ version.log <= logfileNumber /\ bg.edit.log <= logfileNumber

(* The versions recovery may find, and the one in use.                     *)
Known == ToSet(manifests) \cup {version}

(* A version's tables are there, have numbers below its next one, and hold *)
(* nothing newer than its last sequence number.                            *)
TablesOf(k, next, seq) ==
  k \in DOMAIN tables /\ k < next /\ \A e \in tables[k] : e.seq <= seq
Sound(m) == \A k \in LiveTables(m) : TablesOf(k, m.next, m.seq)

VersionsSound ==
  /\ \A m \in Known : Sound(m)
  /\ up # "closed" =>
       0 < nextFile /\ \A m \in Known : m.next <= nextFile /\ m.seq <= lastSequence
  /\ up \in {"replay", "commit"} \/ (up = "open" /\ ~bgError) => manifests = <<version>>
  /\ \A k \in opening.made : TablesOf(k, nextFile, lastSequence)

MemorySound ==
  /\ hasImm \/ imm = {}
  /\ \A e \in mem \cup imm : e.seq <= lastSequence
  /\ \A i \in 1..Len(leader.entries) :
       leader.entries[i].seq <= lastSequence + Len(leader.entries)

(* A flush builds a table no version has.                                  *)
FlushSound ==
  bg.step \in {"build", "apply"} =>
    /\ hasImm /\ bg.file # bg.into /\ bg.file < nextFile
    /\ \A m \in Known : bg.file \notin LiveTables(m)
    /\ bg.step = "build" /\ imm # {} => bg.file \in DOMAIN tables

(* A merge too, from tables of the version; deletions spare it.            *)
MergeSound ==
  /\ bg.step \in {"idle", "scheduled"} => bg = [NoWork EXCEPT !.step = bg.step]
  /\ bg.step \in {"merge", "install"} => bg.into # 0
  /\ bg.into # 0 =>
       /\ bg.into \in DOMAIN tables /\ bg.into \in pendingOutputs /\ bg.into < nextFile
       /\ \A m \in Known : bg.into \notin LiveTables(m)
       /\ bg.from \subseteq LiveTables(version)

(* What an edit adds to any version is there, and its numbers are later.   *)
EditSound ==
  /\ bg.step = "apply" =>
       bg.edit.l0 \subseteq {bg.file} /\ bg.edit.deep = {} /\ bg.edit.dropped = {}
  /\ bg.step = "install" =>
       bg.edit.l0 = {} /\ bg.edit.deep = {bg.into} /\ bg.edit.dropped = bg.from
  /\ bg.step \in {"apply", "install"} =>
       /\ \A k \in bg.edit.l0 \cup bg.edit.deep : TablesOf(k, bg.edit.next, bg.edit.seq)
       /\ \A m \in Known : m.next <= bg.edit.next /\ m.seq <= bg.edit.seq
       /\ bg.edit.next <= nextFile /\ bg.edit.seq <= lastSequence

History ==
  /\ acked \subseteq Batches /\ kept \subseteq acked /\ safe \subseteq kept
  /\ faults \in [errors : 0..MaxErrors, crashes : 0..MaxCrashes]

(* Who asked for a new memtable finds nothing in it that was there before. *)
RequestsSound ==
  /\ \A c \in Clients : call[c].since <= lastSequence
  /\ \A e \in mem : 0 < e.seq
  /\ \A i \in 1..Len(leader.entries) : lastSequence < leader.entries[i].seq
  /\ \A c \in Clients : call[c].force \/ \A e \in mem : call[c].since < e.seq
  /\ \A c \in Clients : call[c].written => call[c].op # "none"

IInv ==
  /\ Queued /\ CallsTyped /\ MemoryTyped /\ DiskTyped /\ Idle /\ LogInUse
  /\ VersionsSound /\ MemorySound /\ FlushSound /\ MergeSound /\ EditSound /\ History
  /\ RequestsSound

-----------------------------------------------------------------------------
(* What the operators of the actions return.                               *)

LEMMA UnitsData == \A e \in Entry : "type" \notin DOMAIN e
BY DEF Entry

(* A group of entries is written as units of the log.                      *)
LEMMA RecordUnits ==
  ASSUME NEW offset \in 0..BlockSize, NEW entries \in Seq(Entry)
  PROVE  /\ AddRecord(offset, entries) \in Seq(Seq(Units))
         /\ FlattenSeq(AddRecord(offset, entries)) \in Seq(Units)
<1>1. AddRecord(offset, entries) \in Seq(Seq(Units))
  BY EmitTyped DEF Units
<1> QED
  BY <1>1, FlattenTyped

(* The offset in a block stays in it.                                      *)
LEMMA OffsetInBlock ==
  ASSUME NEW offset \in 0..BlockSize, NEW n \in Nat
  PROVE  OffsetAfter(offset, n) \in 0..BlockSize
<1>1. BlockSize \in Nat \ {0}
  BY LogAssumption
<1>2. CASE n = 0
  BY <1>2 DEF OffsetAfter
<1>3. CASE n # 0
  <2>1. offset + n - 1 \in Nat
    BY <1>3
  <2>2. (offset + n - 1) % BlockSize \in 0..(BlockSize - 1)
    BY <1>1, <2>1
  <2> QED
    BY <1>1, <1>3, <2>2 DEF OffsetAfter
<1> QED
  BY <1>2, <1>3

(* The entries of a group are numbered from the last sequence number on.   *)
LEMMA GroupTyped ==
  ASSUME CallsTyped, MemoryTyped, NEW n \in 1..Len(writers)
  PROVE  /\ BatchGroup(n) \in Seq(Entry)
         /\ \A i \in 1..Len(BatchGroup(n)) :
              /\ lastSequence < BatchGroup(n)[i].seq
              /\ BatchGroup(n)[i].seq <= lastSequence + Len(BatchGroup(n))
<1> DEFINE batch(i) == call[writers[i]].batch
           sized(i) == [k \in 1..(IF batch(i) = 0 THEN 0 ELSE Size[batch(i)]) |-> batch(i)]
           batches == FlattenSeq([i \in 1..n |-> sized(i)])
<1>1. \A i \in 1..n : sized(i) \in Seq(Batches)
  <2> SUFFICES ASSUME NEW i \in 1..n PROVE sized(i) \in Seq(Batches)
    OBVIOUS
  <2>1. writers[i] \in Clients
    BY DEF CallsTyped
  <2>2. batch(i) \in 0..MaxBatch
    BY <2>1, StoreAssumption DEF CallsTyped, Call
  <2>3. CASE batch(i) = 0
    BY <2>3
  <2>4. CASE batch(i) # 0
    <3>1. batch(i) \in Batches /\ Size[batch(i)] \in Nat
      BY <2>2, <2>4, StoreAssumption DEF Batches
    <3> HIDE DEF batch
    <3> QED
      BY <2>4, <3>1
  <2> QED
    BY <2>3, <2>4
<1>2. batches \in Seq(Batches)
  <2> HIDE DEF sized
  <2>1. n \in Nat
    BY DEF CallsTyped
  <2>2. [i \in 1..n |-> sized(i)] \in Seq(Seq(Batches))
    BY <1>1, <2>1
  <2> QED
    BY <2>2, FlattenTyped
<1>3. BatchGroup(n) = [i \in DOMAIN batches |-> [seq |-> lastSequence + i, batch |-> batches[i]]]
  BY DEF BatchGroup
<1> HIDE DEF batches
<1>4. lastSequence \in Nat
  BY DEF MemoryTyped
<1>5. DOMAIN batches = 1..Len(batches) /\ Len(batches) \in Nat
  BY <1>2
<1>6. \A i \in 1..Len(batches) : batches[i] \in Batches
  BY <1>2
<1>7. BatchGroup(n) \in Seq(Entry) /\ Len(BatchGroup(n)) = Len(batches)
  BY <1>3, <1>4, <1>5, <1>6 DEF Entry
<1> QED
  BY <1>3, <1>4, <1>5, <1>7

(* Who leaves the queue is not in it any more.                             *)
LEMMA FinishTyped ==
  ASSUME CallsTyped, Queued, NEW n \in 0..Len(writers), NEW ok \in BOOLEAN, Finish(n, ok)
  PROVE  /\ call' \in [Clients -> Call] /\ \A c \in Clients : call'[c].batch <= MaxBatch
         /\ writers' \in Seq(Clients) /\ leader' = NoLeader
         /\ Queued'
<1> DEFINE group == {writers[i] : i \in 1..n}
<1>1. /\ writers \in Seq(Clients) /\ Len(writers) \in Nat /\ n \in Nat
      /\ call \in [Clients -> Call] /\ \A c \in Clients : call[c].batch <= MaxBatch
  BY DEF CallsTyped
<1>2. /\ writers' = SubSeq(writers, n + 1, Len(writers))
      /\ call' = [c \in Clients |->
           IF c \notin group THEN call[c]
           ELSE IF call[c].batch # 0 \/ ~ok THEN NoCall
           ELSE [call[c] EXCEPT !.written = TRUE]]
      /\ asleep' \subseteq asleep \ group /\ leader' = NoLeader
  BY DEF Finish, RestOfQueue
<1>3. /\ writers' \in Seq(Clients) /\ Len(writers') = Len(writers) - n
      /\ \A i \in 1..Len(writers') : writers'[i] = writers[n + i] /\ n + i \in 1..Len(writers)
  BY <1>1, <1>2
<1>4. NoCall \in Call /\ NoCall.batch = 0
  BY DEF NoCall, Call
<1>5. call' \in [Clients -> Call] /\ \A c \in Clients : call'[c].batch <= MaxBatch
  <2> SUFFICES ASSUME NEW c \in Clients
               PROVE  call'[c] \in Call /\ call'[c].batch <= MaxBatch
    BY <1>2
  <2>1. call[c] \in Call /\ call[c].batch <= MaxBatch
    BY <1>1
  <2>2. [call[c] EXCEPT !.written = TRUE] \in Call
        /\ [call[c] EXCEPT !.written = TRUE].batch = call[c].batch
    BY <2>1 DEF Call
  <2>3. 0 <= MaxBatch
    BY StoreAssumption
  <2> HIDE DEF group
  <2> QED
    BY <1>2, <1>4, <2>1, <2>2, <2>3
<1>6. \A i \in 1..Len(writers') : writers'[i] \notin group
  <2> SUFFICES ASSUME NEW i \in 1..Len(writers'), NEW j \in 1..n, writers[n + i] = writers[j]
               PROVE  FALSE
    BY <1>3
  <2>1. n + i \in 1..Len(writers) /\ j \in 1..Len(writers)
    BY <1>1, <1>3
  <2>2. n + i = j
    BY <2>1 DEF Queued
  <2> QED
    BY <1>1, <1>3, <2>2
<1>7. \A i \in 1..Len(writers') : call'[writers'[i]] = call[writers[n + i]]
  BY <1>1, <1>2, <1>3, <1>6
<1>8. asleep' \subseteq ToSet(writers')
  <2> SUFFICES ASSUME NEW c \in asleep'
               PROVE  c \in ToSet(writers')
    OBVIOUS
  <2>1. PICK j \in 1..Len(writers) : c = writers[j]
    <3>1. c \in ToSet(writers)
      BY <1>2 DEF Queued
    <3>2. DOMAIN writers = 1..Len(writers)
      BY <1>1
    <3> QED
      BY <3>1, <3>2 DEF ToSet
  <2>2. j \notin 1..n
    BY <1>2, <2>1
  <2>3. j - n \in 1..Len(writers') /\ n + (j - n) = j
    BY <1>1, <1>3, <2>2
  <2>4. c = writers'[j - n] /\ DOMAIN writers' = 1..Len(writers')
    BY <1>3, <2>1, <2>3
  <2> QED
    BY <2>3, <2>4 DEF ToSet
<1>9. \A i, j \in 1..Len(writers') : writers'[i] = writers'[j] => i = j
  <2> SUFFICES ASSUME NEW i \in 1..Len(writers'), NEW j \in 1..Len(writers'),
                      writers'[i] = writers'[j]
               PROVE  i = j
    OBVIOUS
  <2>1. n + i = n + j
    BY <1>3 DEF Queued
  <2> QED
    BY <1>1, <1>3, <2>1
<1>10. \A i \in 1..Len(writers') : call'[writers'[i]].op # "none" /\ ~call'[writers'[i]].written
  BY <1>3, <1>7 DEF Queued
<1> QED
  BY <1>2, <1>3, <1>5, <1>8, <1>9, <1>10 DEF Queued

(* Who writes is at the front.                                             *)
LEMMA FrontTyped ==
  ASSUME CallsTyped, Idle, NEW c
  PROVE  /\ Leads(c) => c \in Clients /\ 1 \in 1..Len(writers) /\ up = "open"
         /\ \A step \in {"log", "sync", "insert"} : Writing(c, step) => up = "open"
BY DEF CallsTyped, Idle, Leads, Writing

CallsInv == CallsTyped /\ Queued
TypedInv == MemoryTyped /\ DiskTyped

-----------------------------------------------------------------------------
(* The calls.                                                              *)

(* Who enters the queue touches nothing else.                              *)
LEMMA EnqueueFrame ==
  ASSUME NEW c, Write(c) \/ CompactMemTableNow(c)
  PROVE  /\ up = "open"
         /\ UNCHANGED <<bgWaiters, leader, memVars, bgVars, openVars, diskVars, promiseVars, faults>>
<1>1. ASSUME NEW op, NEW batch, NEW sync, Enqueue(c, op, batch, sync)
      PROVE  /\ up = "open"
             /\ UNCHANGED <<bgWaiters, leader, memVars, bgVars, openVars, diskVars, promiseVars,
                            faults>>
  BY <1>1, Zenon DEF Enqueue
<1>2. CASE Write(c)
  <2>1. \E sync \in BOOLEAN : Enqueue(c, "write", issued'.batches, sync)
    BY <1>2, Zenon DEF Write
  <2> QED
    BY <1>1, <2>1, Zenon
<1>3. CASE CompactMemTableNow(c)
  <2>1. Enqueue(c, "compact", 0, FALSE)
    BY <1>3, Zenon DEF CompactMemTableNow
  <2> QED
    BY <1>1, <2>1, Zenon
<1> QED
  BY <1>2, <1>3

(* A writer with a place in the queue.                                     *)
LEMMA EnqueueCalls ==
  ASSUME CallsInv, MemoryTyped, NEW c \in Clients, Write(c) \/ CompactMemTableNow(c)
  PROVE  CallsInv'
<1>1. PICK op \in {"write", "compact"}, batch \in 0..MaxBatch, sync \in BOOLEAN :
        Enqueue(c, op, batch, sync)
  <2>1. CASE Write(c)
    <3>1. issued'.batches \in 0..MaxBatch
      BY <2>1, StoreAssumption DEF Write, CallsInv, CallsTyped
    <3> QED
      BY <2>1, <3>1 DEF Write
  <2>2. CASE CompactMemTableNow(c)
    <3>1. 0 \in 0..MaxBatch
      BY StoreAssumption
    <3>2. Enqueue(c, "compact", 0, FALSE)
      BY <2>2, Zenon DEF CompactMemTableNow
    <3> QED
      BY <3>1, <3>2, Zenon
  <2> QED
    BY <2>1, <2>2
<1>2. issued' \in [batches : 0..MaxBatch, forced : Nat]
  <2>1. issued \in [batches : 0..MaxBatch, forced : Nat] /\ MaxBatch \in Nat
    BY StoreAssumption DEF CallsInv, CallsTyped
  <2>2. CASE Write(c)
    <3>1. issued.batches + 1 \in 0..MaxBatch
      BY <2>1, <2>2 DEF Write
    <3> QED
      BY <2>1, <2>2, <3>1 DEF Write
  <2>3. CASE CompactMemTableNow(c)
    BY <2>1, <2>3 DEF CompactMemTableNow
  <2> QED
    BY <2>2, <2>3
<1> DEFINE new == [NoCall EXCEPT !.op = op, !.batch = batch, !.sync = sync,
                                 !.force = (batch = 0),
                                 !.since = IF batch = 0 THEN lastSequence ELSE 0]
<1>3. /\ call[c].op = "none" /\ call' = [call EXCEPT ![c] = new]
      /\ writers' = Append(writers, c) /\ asleep' \subseteq asleep \cup {c}
      /\ UNCHANGED <<bgWaiters, leader>>
  BY <1>1 DEF Enqueue
<1>4. new \in Call /\ new.batch = batch /\ new.op = op /\ ~new.written
  <2>1. (IF batch = 0 THEN lastSequence ELSE 0) \in Nat /\ batch \in Nat /\ (batch = 0) \in BOOLEAN
    BY StoreAssumption DEF MemoryTyped
  <2> DEFINE since == IF batch = 0 THEN lastSequence ELSE 0
             force == (batch = 0)
  <2>2. since \in Nat /\ force \in BOOLEAN
    BY <2>1
  <2> HIDE DEF since, force
  <2> DEFINE made == [NoCall EXCEPT !.op = op, !.batch = batch, !.sync = sync, !.force = force,
                                    !.since = since]
  <2>3. made \in Call /\ made.batch = batch /\ made.op = op /\ made.written = FALSE
    BY <2>1, <2>2 DEF NoCall, Call
  <2> QED
    BY <2>3 DEF since, force
<1> HIDE DEF new
<1>5. /\ writers \in Seq(Clients) /\ call \in [Clients -> Call]
      /\ leader.n \in Nat /\ leader.n <= Len(writers)
  BY DEF CallsInv, CallsTyped
<1>6. /\ writers' \in Seq(Clients) /\ Len(writers') = Len(writers) + 1
      /\ \A i \in 1..Len(writers) : writers'[i] = writers[i]
      /\ writers'[Len(writers) + 1] = c
  BY <1>3, <1>5
<1>7. \A i \in 1..Len(writers) : writers[i] # c
  BY <1>3 DEF CallsInv, Queued
<1>8. \A i \in 1..Len(writers') : i # Len(writers) + 1 => i \in 1..Len(writers)
  BY <1>5, <1>6
<1>9. CallsTyped'
  BY <1>2, <1>3, <1>4, <1>5, <1>6 DEF CallsInv, CallsTyped
<1>10. \A i, j \in 1..Len(writers') : writers'[i] = writers'[j] => i = j
  BY <1>6, <1>7, <1>8 DEF CallsInv, Queued
<1>11. \A i \in 1..Len(writers') : call'[writers'[i]].op # "none" /\ ~call'[writers'[i]].written
  <2> SUFFICES ASSUME NEW i \in 1..Len(writers')
               PROVE  call'[writers'[i]].op # "none" /\ ~call'[writers'[i]].written
    OBVIOUS
  <2>1. CASE i = Len(writers) + 1
    BY <1>3, <1>4, <1>5, <1>6, <2>1
  <2>2. CASE i \in 1..Len(writers)
    BY <1>3, <1>5, <1>6, <1>7, <2>2 DEF CallsInv, Queued
  <2> QED
    BY <1>8, <2>1, <2>2
<1>12. asleep' \subseteq ToSet(writers')
  <2>1. DOMAIN writers' = 1..Len(writers') /\ DOMAIN writers = 1..Len(writers)
        /\ Len(writers) \in Nat
    BY <1>5, <1>6
  <2>2. c \in ToSet(writers')
    BY <1>6, <2>1 DEF ToSet
  <2>3. ToSet(writers) \subseteq ToSet(writers')
    BY <1>6, <2>1 DEF ToSet
  <2> QED
    BY <1>3, <2>2, <2>3 DEF CallsInv, Queued
<1> QED
  BY <1>9, <1>10, <1>11, <1>12 DEF CallsInv, Queued

(* A call that ends, with those that came along.                           *)
LEMMA FinishCalls ==
  ASSUME CallsInv, NEW n \in 0..Len(writers), NEW ok \in BOOLEAN, Finish(n, ok),
         bgWaiters' \subseteq bgWaiters, issued' = issued
  PROVE  CallsInv'
<1>1. /\ call' \in [Clients -> Call] /\ \A c \in Clients : call'[c].batch <= MaxBatch
      /\ writers' \in Seq(Clients) /\ leader' = NoLeader /\ Queued'
  BY FinishTyped DEF CallsInv
<1>2. NoLeader \in [step : {"idle", "log", "sync", "insert"}, n : Nat, entries : Seq(Entry)]
      /\ NoLeader.n = 0
  BY DEF NoLeader
<1>3. 0 <= Len(writers')
  BY <1>1
<1> QED
  BY <1>1, <1>2, <1>3 DEF CallsInv, CallsTyped

(* What a writer at the front does.                                        *)
LEMMA WriterCalls ==
  ASSUME CallsInv, MemoryTyped, Idle, NEW c \in Clients, Room(c) \/ LogCalls(c)
  PROVE  CallsInv'
<1>1. Leads(c) => 1 \in 0..Len(writers) /\ c = writers[1] /\ 1 \in 1..Len(writers)
  <2>1. Leads(c) => c = Head(writers) /\ writers # <<>> /\ writers \in Seq(Clients)
    BY DEF Leads, CallsInv, CallsTyped
  <2> QED
    BY <2>1
<1>2. leader.n \in 0..Len(writers)
  BY DEF CallsInv, CallsTyped
<1>3. CASE RoomError(c) \/ RoomNoFile(c)
  <2>1. Finish(1, FALSE) /\ Leads(c) /\ UNCHANGED <<bgWaiters, issued>>
    BY <1>3 DEF RoomError, RoomNoFile
  <2> QED
    BY <1>1, <2>1, FinishCalls
<1>4. CASE RoomThere(c)
  <2>1. Leads(c) /\ UNCHANGED <<bgWaiters, issued>>
    BY <1>4 DEF RoomThere
  <2>2. CASE call[c].batch = 0
    <3>1. Finish(1, TRUE)
      BY <1>4, <2>2 DEF RoomThere
    <3> QED
      BY <1>1, <2>1, <3>1, FinishCalls
  <2>3. CASE call[c].batch # 0
    <3>1. PICK n \in GroupLengths : leader' = [step |-> "log", n |-> n, entries |-> BatchGroup(n)]
      BY <1>4, <2>3 DEF RoomThere
    <3>2. UNCHANGED <<call, writers, asleep>>
      BY <1>4, <2>3 DEF RoomThere
    <3>3. n \in 1..Len(writers) /\ n \in Nat /\ n <= Len(writers)
      BY DEF GroupLengths, CallsInv, CallsTyped
    <3>4. BatchGroup(n) \in Seq(Entry)
      BY <3>3, GroupTyped DEF CallsInv
    <3> QED
      BY <2>1, <3>1, <3>2, <3>3, <3>4 DEF CallsInv, CallsTyped, Queued
  <2> QED
    BY <2>2, <2>3
<1>5. CASE RoomWaits(c)
  BY <1>5 DEF RoomWaits, CallsInv, CallsTyped, Queued
<1>6. CASE SwitchMemTable(c)
  <2>1. call' = [call EXCEPT ![c].force = FALSE]
        /\ UNCHANGED <<bgWaiters, issued, writers, asleep, leader>>
    BY <1>6 DEF SwitchMemTable
  <2>2. /\ \A d \in Clients : call'[d] \in Call /\ call'[d].batch = call[d].batch
                               /\ call'[d].op = call[d].op /\ call'[d].written = call[d].written
        /\ call' \in [Clients -> Call]
    <3> DEFINE unforced == [call[c] EXCEPT !.force = FALSE]
    <3>1. call \in [Clients -> Call] /\ call[c] \in Call
      BY DEF CallsInv, CallsTyped
    <3>2. unforced \in Call /\ unforced.batch = call[c].batch
          /\ unforced.op = call[c].op /\ unforced.written = call[c].written
      BY <3>1 DEF Call
    <3>3. call' = [call EXCEPT ![c] = unforced]
      BY <2>1
    <3> HIDE DEF unforced
    <3> QED
      BY <3>1, <3>2, <3>3
  <2>3. \A i \in 1..Len(writers) : writers[i] \in Clients
    BY DEF CallsInv, CallsTyped
  <2> QED
    BY <2>1, <2>2, <2>3 DEF CallsInv, CallsTyped, Queued
<1>7. CASE WriteLog(c) \/ SyncLog(c)
  <2>1. PICK step \in {"sync", "insert"} : leader' = [leader EXCEPT !.step = step]
    BY <1>7 DEF WriteLog, SyncLog
  <2>2. UNCHANGED <<call, writers, asleep, bgWaiters, issued>>
    BY <1>7 DEF WriteLog, SyncLog
  <2> QED
    BY <2>1, <2>2 DEF CallsInv, CallsTyped, Queued
<1>8. CASE WriteLogFails(c) \/ SyncLogFails(c)
  <2>1. Finish(leader.n, FALSE) /\ bgWaiters' \subseteq bgWaiters /\ issued' = issued
    BY <1>8 DEF WriteLogFails, SyncLogFails
  <2> QED
    BY <1>2, <2>1, FinishCalls
<1>9. CASE InsertInto(c)
  <2>1. Finish(leader.n, TRUE) /\ UNCHANGED <<bgWaiters, issued>>
    BY <1>9 DEF InsertInto
  <2> QED
    BY <1>2, <2>1, FinishCalls
<1> QED
  BY <1>3, <1>4, <1>5, <1>6, <1>7, <1>8, <1>9 DEF Room, LogCalls

(* TEST_CompactMemTable, whose call is no more in the queue.               *)
LEMMA FlushedCalls ==
  ASSUME CallsInv, NEW c \in Clients, WaitFlushed(c) \/ Flushed(c)
  PROVE  CallsInv'
<1>1. CASE WaitFlushed(c)
  BY <1>1 DEF WaitFlushed, CallsInv, CallsTyped, Queued
<1>2. CASE Flushed(c)
  <2>1. call[c].written /\ call' = [call EXCEPT ![c] = NoCall]
        /\ UNCHANGED <<issued, writers, asleep, bgWaiters, leader>>
    BY <1>2 DEF Flushed
  <2>2. NoCall \in Call /\ NoCall.batch = 0 /\ 0 <= MaxBatch
    BY StoreAssumption DEF NoCall, Call
  <2>3. \A i \in 1..Len(writers) : writers[i] # c
    BY <2>1 DEF CallsInv, Queued
  <2>4. \A i \in 1..Len(writers) : writers[i] \in Clients
    BY DEF CallsInv, CallsTyped
  <2>5. CallsTyped'
    BY <2>1, <2>2 DEF CallsInv, CallsTyped
  <2>6. \A i \in 1..Len(writers) : call'[writers[i]] = call[writers[i]]
    BY <2>1, <2>3, <2>4 DEF CallsInv, CallsTyped
  <2> QED
    BY <2>1, <2>5, <2>6 DEF CallsInv, Queued
<1> QED
  BY <1>1, <1>2

(* A new process has no calls.                                             *)
LEMMA DownCalls ==
  ASSUME CallsInv, Down, issued' = issued
  PROVE  CallsInv'
<1>1. NoCall \in Call /\ NoCall.batch = 0 /\ 0 <= MaxBatch
  BY StoreAssumption DEF NoCall, Call
<1>2. NoLeader \in [step : {"idle", "log", "sync", "insert"}, n : Nat, entries : Seq(Entry)]
      /\ NoLeader.n = 0
  BY DEF NoLeader
<1>3. /\ call' = [c \in Clients |-> NoCall] /\ writers' = <<>> /\ asleep' = {}
      /\ bgWaiters' = {} /\ leader' = NoLeader
  BY DEF Down
<1>4. CallsTyped'
  BY <1>1, <1>2, <1>3 DEF CallsInv, CallsTyped
<1> QED
  BY <1>3, <1>4 DEF CallsInv, Queued

(* Every step keeps the types of the calls.                                *)
LEMMA CallsNext ==
  ASSUME CallsInv, MemoryTyped, Idle, [Next]_vars
  PROVE  CallsInv'
<1>1. ASSUME NEW c \in Clients, Write(c) \/ CompactMemTableNow(c)
      PROVE  CallsInv'
  BY <1>1, EnqueueCalls
<1>2. ASSUME NEW c \in Clients, Room(c) \/ LogCalls(c)
      PROVE  CallsInv'
  BY <1>2, WriterCalls
<1>3. ASSUME NEW c \in Clients, WaitFlushed(c) \/ Flushed(c)
      PROVE  CallsInv'
  BY <1>3, FlushedCalls
<1>4. CASE Background
  <2>1. UNCHANGED <<call, writers, asleep, leader, issued>> /\ bgWaiters' \subseteq bgWaiters
    BY <1>4 DEF Background, NothingToDo, StartFlush, BuildTable, BuildTableFails, FlushDone,
      FlushFails, StartMerge, MergeTables, MergeFails, InstallMerge, InstallMergeFails, EndFlush,
      EndWork, callVars
  <2> QED
    BY <2>1 DEF CallsInv, CallsTyped, Queued
<1>5. CASE Recover \/ ReplayLog \/ CreateLog \/ CommitOpen \/ UNCHANGED vars
  <2>1. UNCHANGED <<callVars, issued>>
    BY <1>5 DEF Recover, ReplayLog, CreateLog, CommitOpen, vars
  <2> QED
    BY <2>1 DEF CallsInv, CallsTyped, Queued, callVars
<1>6. CASE OpenFails \/ Kill \/ PowerLoss
  <2>1. Down /\ issued' = issued
    BY <1>6 DEF OpenFails, Kill, PowerLoss
  <2> QED
    BY <2>1, DownCalls
<1> QED
  BY <1>1, <1>2, <1>3, <1>4, <1>5, <1>6 DEF Next, OpenSteps

-----------------------------------------------------------------------------
(* What is in memory and on the disk.                                      *)

(* What a log replays to, and the sequence number after it.                *)
LEMMA ReplayedTyped ==
  ASSUME MemoryTyped, DiskTyped, NEW n \in DOMAIN logs
  PROVE  /\ Replayed(n) \subseteq Entry
         /\ Max({lastSequence} \cup {e.seq : e \in Replayed(n)}) \in Nat
         /\ lastSequence <= Max({lastSequence} \cup {e.seq : e \in Replayed(n)})
         /\ \A e \in Replayed(n) : e.seq <= Max({lastSequence} \cup {f.seq : f \in Replayed(n)})
<1> DEFINE records == ReadRecords(logs[n].units)
           bounds(i, b) == \A j \in 1..Len(records[i]) : records[i][j].seq <= b
           bound(i) == CHOOSE b \in Nat : bounds(i, b)
           limits == [i \in 1..Len(records) |-> bound(i)]
           T == {lastSequence} \cup {e.seq : e \in Replayed(n)}
<1>1. records \in Seq(Seq(Entry))
  <2>1. logs[n] \in LogFile
    BY DEF DiskTyped
  <2>2. logs[n].units \in Seq(Entry \cup Headers(Entry))
    BY <2>1 DEF LogFile, Units
  <2> QED
    BY <2>2, ReadTyped, UnitsData
<1>2. Replayed(n) = UNION {ToSet(record) : record \in ToSet(records)}
  BY DEF Replayed
<1>3. lastSequence \in Nat
  BY DEF MemoryTyped
<1> HIDE DEF records
<1>4. \A i \in 1..Len(records) : records[i] \in Seq(Entry)
  BY <1>1
<1>5. \A e \in Replayed(n) : \E i \in 1..Len(records) : \E j \in 1..Len(records[i]) : e = records[i][j]
  <2> SUFFICES ASSUME NEW e \in Replayed(n)
               PROVE  \E i \in 1..Len(records) : \E j \in 1..Len(records[i]) : e = records[i][j]
    OBVIOUS
  <2>1. PICK record \in ToSet(records) : e \in ToSet(record)
    BY <1>2
  <2>2. PICK i \in 1..Len(records) : record = records[i]
    BY <1>1, <2>1 DEF ToSet
  <2> QED
    BY <1>4, <2>1, <2>2 DEF ToSet
<1>6. Replayed(n) \subseteq Entry
  <2> SUFFICES ASSUME NEW e \in Replayed(n) PROVE e \in Entry
    OBVIOUS
  <2>1. PICK i \in 1..Len(records) : \E j \in 1..Len(records[i]) : e = records[i][j]
    BY <1>5
  <2>2. records[i] \in Seq(Entry)
    BY <1>4
  <2> QED
    BY <2>1, <2>2
<1>7. \A i \in 1..Len(records) : bound(i) \in Nat /\ bounds(i, bound(i))
  <2> SUFFICES ASSUME NEW i \in 1..Len(records)
               PROVE  \E b \in Nat : bounds(i, b)
    OBVIOUS
  <2> DEFINE r == records[i]
             seqs == [j \in 1..Len(r) |-> r[j].seq]
  <2>1. r \in Seq(Entry)
    BY <1>4
  <2> HIDE DEF r
  <2>2. Len(r) \in Nat /\ \A j \in 1..Len(r) : seqs[j] \in Nat
    <3>1. Len(r) \in Nat /\ \A j \in 1..Len(r) : r[j] \in Entry
      BY <2>1
    <3> QED
      BY <3>1 DEF Entry
  <2>3. \E b \in Nat : \A j \in 1..Len(r) : seqs[j] <= b
    <3> HIDE DEF seqs
    <3> QED
      BY <2>2, BoundOf
  <2> QED
    BY <2>3 DEF r
<1> HIDE DEF bound
<1>8. PICK top \in Nat : \A i \in 1..Len(records) : limits[i] <= top
  <2>1. Len(records) \in Nat /\ \A i \in 1..Len(records) : limits[i] \in Nat
    BY <1>1, <1>7
  <2> HIDE DEF limits
  <2> QED
    BY <2>1, BoundOf
<1>9. PICK b \in Nat : top <= b /\ lastSequence <= b
  BY <1>3
<1>10. T \subseteq Nat /\ T # {} /\ \A x \in T : x <= b
  <2>1. \A e \in Replayed(n) : e.seq \in Nat
    BY <1>6 DEF Entry
  <2>2. ASSUME NEW e \in Replayed(n)
        PROVE  e.seq <= b
    <3>1. PICK i \in 1..Len(records) : \E j \in 1..Len(records[i]) : e = records[i][j]
      BY <1>5
    <3>2. e.seq <= bound(i) /\ bound(i) <= top /\ bound(i) \in Nat
      BY <1>7, <1>8, <3>1
    <3> HIDE DEF bounds
    <3> QED
      BY <1>9, <2>1, <3>2
  <2> QED
    BY <1>3, <1>9, <2>1, <2>2
<1>11. Max(T) \in T /\ \A x \in T : x <= Max(T)
  <2> HIDE DEF T
  <2> QED
    BY <1>10, MaxOf
<1>12. Max(T) \in Nat /\ lastSequence <= Max(T) /\ \A e \in Replayed(n) : e.seq <= Max(T)
  BY <1>10, <1>11
<1> QED
  BY <1>6, <1>12

(* A file more, and files less.                                            *)
LEMMA LogAdded ==
  ASSUME DiskTyped, NEW n \in Nat
  PROVE  /\ DOMAIN With(logs, n, NewLog) = DOMAIN logs \cup {n}
         /\ DOMAIN With(logs, n, NewLog) \subseteq Nat
         /\ With(logs, n, NewLog) \in [DOMAIN With(logs, n, NewLog) -> LogFile]
<1>1. NewLog \in LogFile
  BY DEF NewLog, LogFile
<1> QED
  BY <1>1 DEF With, DiskTyped

(* A table more, or one written again.                                     *)
LEMMA TableAdded ==
  ASSUME DiskTyped, NEW n \in Nat, NEW v, v \subseteq Entry
  PROVE  /\ DOMAIN With(tables, n, v) = DOMAIN tables \cup {n}
         /\ DOMAIN With(tables, n, v) \subseteq Nat
         /\ With(tables, n, v) \in [DOMAIN With(tables, n, v) -> SUBSET Entry]
         /\ With(tables, n, v)[n] = v
         /\ \A i \in DOMAIN tables : i # n => With(tables, n, v)[i] = tables[i]
BY DEF With, DiskTyped

(* Removing logs keeps the types of the others.                            *)
LEMMA LogsRemoved ==
  ASSUME DiskTyped, NEW T
  PROVE  /\ DOMAIN Without(logs, T) = DOMAIN logs \ T
         /\ DOMAIN Without(logs, T) \subseteq Nat
         /\ Without(logs, T) \in [DOMAIN Without(logs, T) -> LogFile]
BY DEF Without, DiskTyped

(* Removing tables keeps the types of the others.                          *)
LEMMA TablesRemoved ==
  ASSUME DiskTyped, NEW T
  PROVE  /\ DOMAIN Without(tables, T) = DOMAIN tables \ T
         /\ DOMAIN Without(tables, T) \subseteq Nat
         /\ Without(tables, T) \in [DOMAIN Without(tables, T) -> SUBSET Entry]
         /\ \A i \in DOMAIN tables \ T : Without(tables, T)[i] = tables[i]
BY DEF Without, DiskTyped

(* Manifests after an edit.                                                *)
LEMMA EditedTyped ==
  ASSUME NEW m \in Manifest, NEW e \in EditType
  PROVE  Edited(m, e) \in Manifest
BY DEF Edited, Manifest, EditType

(* The manifest that is read at opening has its type.                      *)
LEMMA LatestTyped ==
  ASSUME DiskTyped, NEW e \in EditType
  PROVE  /\ Last(manifests) \in Manifest /\ Last(manifests) \in ToSet(manifests)
         /\ Latest(e) \in Manifest
<1>1. manifests \in Seq(Manifest) /\ manifests # <<>>
  BY DEF DiskTyped
<1>2. Last(manifests) = manifests[Len(manifests)] /\ Len(manifests) \in 1..Len(manifests)
  BY <1>1 DEF Last
<1>3. Last(manifests) \in Manifest /\ Last(manifests) \in ToSet(manifests)
  BY <1>1, <1>2 DEF ToSet
<1> QED
  BY <1>3, EditedTyped DEF Latest

(* The manifests after one more edit.                                      *)
LEMMA AppendedManifest ==
  ASSUME DiskTyped, NEW m \in Manifest
  PROVE  /\ Append(manifests, m) \in Seq(Manifest) /\ Append(manifests, m) # <<>>
         /\ ToSet(Append(manifests, m)) = ToSet(manifests) \cup {m}
<1>1. manifests \in Seq(Manifest)
  BY DEF DiskTyped
<1>2. Append(manifests, m) \in Seq(Manifest) /\ Len(Append(manifests, m)) = Len(manifests) + 1
      /\ \A i \in 1..Len(manifests) : Append(manifests, m)[i] = manifests[i]
      /\ Append(manifests, m)[Len(manifests) + 1] = m /\ Len(manifests) \in Nat
  BY <1>1
<1> DEFINE more == Append(manifests, m)
<1> HIDE DEF more
<1>3. DOMAIN more = 1..(Len(manifests) + 1) /\ DOMAIN manifests = 1..Len(manifests)
      /\ more # <<>>
  BY <1>1, <1>2 DEF more
<1>4. ToSet(more) = ToSet(manifests) \cup {m}
  <2>1. \A i \in DOMAIN more : i = Len(manifests) + 1 \/ i \in DOMAIN manifests
    BY <1>2, <1>3
  <2>2. DOMAIN manifests \subseteq DOMAIN more /\ Len(manifests) + 1 \in DOMAIN more
    BY <1>2, <1>3
  <2>3. (\A i \in DOMAIN manifests : more[i] = manifests[i]) /\ more[Len(manifests) + 1] = m
    BY <1>2, <1>3 DEF more
  <2> QED
    BY <2>1, <2>2, <2>3 DEF ToSet
<1> QED
  BY <1>2, <1>3, <1>4 DEF more

(* What a crash leaves of the manifests has its type.                      *)
LEMMA ManifestsLeftTyped ==
  ASSUME DiskTyped, MemoryTyped
  PROVE  /\ ManifestsLeft \in Seq(Manifest) /\ ManifestsLeft # <<>>
         /\ \A m \in ToSet(ManifestsLeft) :
              m \in ToSet(manifests) \/ (bg.step \in {"apply", "install"} /\ m = Latest(bg.edit))
<1>1. bg.edit \in EditType
  BY DEF MemoryTyped, Work
<1>2. Latest(bg.edit) \in Manifest
  BY <1>1, LatestTyped
<1>3. CASE bg.step \in {"apply", "install"}
  BY <1>2, <1>3, AppendedManifest DEF ManifestsLeft
<1>4. CASE bg.step \notin {"apply", "install"}
  BY <1>4 DEF ManifestsLeft, DiskTyped
<1> QED
  BY <1>3, <1>4

(* The logs that a crash may leave.                                        *)
LEMMA CutTyped ==
  ASSUME CallsTyped, MemoryTyped, DiskTyped, NEW least,
         \A n \in DOMAIN logs : least[n] \in Nat, NEW left \in CutLogs(least)
  PROVE  DOMAIN left = DOMAIN logs /\ left \in [DOMAIN logs -> LogFile]
<1>1. ASSUME NEW n \in DOMAIN logs
      PROVE  Held(n) \in Seq(Units)
  <2>1. logs[n].units \in Seq(Units)
    BY DEF DiskTyped, LogFile
  <2>2. FlattenSeq(AddRecord(blockOffset, leader.entries)) \in Seq(Units)
    BY RecordUnits DEF CallsTyped, MemoryTyped
  <2> QED
    BY <2>1, <2>2 DEF Held
<1>2. PICK cut : /\ \A n \in DOMAIN logs : cut[n] \in least[n]..Len(Held(n))
                 /\ left = [n \in DOMAIN logs |->
                      [logs[n] EXCEPT !.units = SubSeq(Held(n), 1, cut[n])]]
  BY DEF CutLogs
<1>3. ASSUME NEW n \in DOMAIN logs
      PROVE  [logs[n] EXCEPT !.units = SubSeq(Held(n), 1, cut[n])] \in LogFile
  <2> DEFINE held == Held(n)
  <2>1. held \in Seq(Units) /\ cut[n] \in least[n]..Len(held) /\ least[n] \in Nat
    BY <1>1, <1>2
  <2> HIDE DEF held
  <2>2. SubSeq(held, 1, cut[n]) \in Seq(Units)
    <3>1. Len(held) \in Nat
      BY <2>1
    <3>2. cut[n] \in 0..Len(held)
      BY <2>1, <3>1
    <3> QED
      BY <2>1, <3>2
  <2>3. logs[n] \in LogFile
    BY DEF DiskTyped
  <2> QED
    BY <2>2, <2>3 DEF LogFile, held
<1> QED
  BY <1>2, <1>3

(* The work of nobody has its type.                                        *)
LEMMA NoWorkTyped == NoWork \in Work /\ NoEdit \in EditType
BY DEF NoWork, NoEdit, Work, EditType

(* Work that is scheduled has its type.                                    *)
LEMMA ScheduledTyped ==
  ASSUME NEW work \in Work, NEW immThere, NEW v, NEW err
  PROVE  Scheduled(work, immThere, v, err) \in Work
<1>1. [NoWork EXCEPT !.step = "scheduled"] \in Work
  BY NoWorkTyped DEF Work
<1> QED
  BY <1>1 DEF Scheduled

(* The first manifest has its type.                                        *)
LEMMA NewManifestTyped == NewManifest \in Manifest
BY DEF NewManifest, Manifest

(* What writers do to memory and disk.                                     *)
LEMMA WriterTyped ==
  ASSUME CallsTyped, TypedInv, Idle, LogInUse, NEW c \in Clients, Room(c) \/ LogCalls(c)
  PROVE  TypedInv'
<1> USE DEF TypedInv
<1>1. CASE RoomError(c) \/ RoomThere(c) \/ RoomWaits(c) \/ RoomNoFile(c)
  <2>1. UNCHANGED <<memVars, bgVars, openVars, diskVars>>
    BY <1>1 DEF RoomError, RoomThere, RoomWaits, RoomNoFile
  <2> QED
    BY <2>1 DEF memVars, bgVars, openVars, diskVars, MemoryTyped, DiskTyped
<1>2. CASE SwitchMemTable(c)
  <2>1. /\ logs' = With(logs, nextFile, NewLog)
        /\ logfileNumber' = nextFile /\ nextFile' = nextFile + 1 /\ blockOffset' = 0
        /\ imm' = mem /\ hasImm' = TRUE /\ mem' = {}
        /\ bg' = Scheduled(bg, TRUE, version, bgError)
        /\ UNCHANGED <<lastSequence, version, bgError, up, opening, tables, manifests>>
    BY <1>2 DEF SwitchMemTable, openVars
  <2>3. DOMAIN logs' = DOMAIN logs \cup {nextFile} /\ DOMAIN logs' \subseteq Nat
        /\ logs' \in [DOMAIN logs' -> LogFile]
    <3> DEFINE more == With(logs, nextFile, NewLog)
    <3>1. nextFile \in Nat
      BY DEF MemoryTyped
    <3>2. /\ DOMAIN more = DOMAIN logs \cup {nextFile} /\ DOMAIN more \subseteq Nat
          /\ more \in [DOMAIN more -> LogFile]
      BY <3>1, LogAdded
    <3> HIDE DEF more
    <3>3. logs' = more
      BY <2>1 DEF more
    <3> QED
      BY <3>2, <3>3
  <2>4. bg' \in Work
    BY <2>1, ScheduledTyped DEF MemoryTyped
  <2>5. 0 \in 0..BlockSize
    BY LogAssumption
  <2>6. MemoryTyped'
    <3>1. hasImm' \in BOOLEAN /\ nextFile' \in Nat /\ logfileNumber' \in Nat
          /\ imm' \subseteq Entry /\ mem' \subseteq Entry
      BY <2>1 DEF MemoryTyped
    <3> QED
      BY <2>1, <2>4, <2>5, <3>1 DEF MemoryTyped
  <2>7. DiskTyped'
    BY <2>1, <2>3 DEF DiskTyped
  <2> QED
    BY <2>6, <2>7
<1>3. leader.entries \in Seq(Entry) /\ Len(leader.entries) \in Nat
  BY DEF CallsTyped
<1>4. lastSequence + Len(leader.entries) \in Nat
  BY <1>3 DEF MemoryTyped
<1>5. ASSUME NEW file \in LogFile, NEW units \in Seq(Units)
      PROVE  Appended(file, units) \in LogFile /\ [Appended(file, units) EXCEPT !.bad = TRUE] \in LogFile
  <2>1. file.units \o units \in Seq(Units)
    BY DEF LogFile
  <2> QED
    BY <2>1 DEF Appended, LogFile
<1>6. LogCalls(c) => logfileNumber \in DOMAIN logs /\ logs[logfileNumber] \in LogFile
  <2>1. LogCalls(c) => up = "open"
    BY DEF LogCalls, WriteLog, WriteLogFails, SyncLog, SyncLogFails, InsertInto, Writing
  <2> QED
    BY <2>1 DEF LogInUse, DiskTyped
<1> DEFINE fragments == AddRecord(blockOffset, leader.entries)
<1>7. fragments \in Seq(Seq(Units)) /\ FlattenSeq(fragments) \in Seq(Units)
  BY <1>3, RecordUnits DEF MemoryTyped
<1> HIDE DEF fragments
<1>8. CASE WriteLog(c)
  <2>1. /\ logs' = [logs EXCEPT ![logfileNumber] = Appended(@, FlattenSeq(fragments))]
        /\ blockOffset' = OffsetAfter(blockOffset, Len(FlattenSeq(fragments)))
        /\ UNCHANGED <<mem, imm, hasImm, lastSequence, logfileNumber, nextFile, version, bgError, bg,
                       up, opening, tables, manifests>>
    BY <1>8 DEF WriteLog, bgVars, openVars, fragments
  <2>2. blockOffset' \in 0..BlockSize
    BY <1>7, <2>1, OffsetInBlock DEF MemoryTyped
  <2>3. MemoryTyped'
    BY <2>1, <2>2 DEF MemoryTyped
  <2>4. DiskTyped'
    BY <1>5, <1>6, <1>7, <1>8, <2>1 DEF DiskTyped, LogCalls
  <2> QED
    BY <2>3, <2>4
<1>9. CASE WriteLogFails(c)
  <2>1. PICK i \in DOMAIN fragments, k \in 0..Len(FlattenSeq(fragments)) :
          LET before == FlattenSeq(SubSeq(fragments, 1, i - 1)) IN
          /\ k < Len(fragments[i])
          /\ logs' = [logs EXCEPT ![logfileNumber] =
               [Appended(@, before \o SubSeq(fragments[i], 1, k)) EXCEPT !.bad = TRUE]]
          /\ blockOffset' = OffsetAfter(blockOffset, Len(before) + Len(fragments[i]))
    BY <1>9 DEF WriteLogFails, fragments
  <2>2. /\ lastSequence' = lastSequence + Len(leader.entries)
        /\ UNCHANGED <<mem, imm, hasImm, logfileNumber, nextFile, version, bgError, bg,
                       up, opening, tables, manifests>>
    BY <1>9 DEF WriteLogFails, SequenceAfterGroup, bgVars, openVars
  <2> DEFINE before == FlattenSeq(SubSeq(fragments, 1, i - 1))
             part == SubSeq(fragments[i], 1, k)
  <2>3. fragments[i] \in Seq(Units) /\ i \in 1..Len(fragments) /\ Len(fragments) \in Nat
    BY <1>7
  <2>4. before \in Seq(Units)
    <3>1. SubSeq(fragments, 1, i - 1) \in Seq(Seq(Units))
      BY <1>7, <2>3
    <3> QED
      BY <3>1, FlattenTyped
  <2>5. part \in Seq(Units)
    <3>1. k \in Nat /\ k < Len(fragments[i])
      BY <1>7, <2>1
    <3> QED
      BY <2>3, <3>1
  <2>6. before \o part \in Seq(Units) /\ Len(before) + Len(fragments[i]) \in Nat
    BY <2>3, <2>4, <2>5
  <2> HIDE DEF before, part
  <2>7. blockOffset' \in 0..BlockSize
    BY <2>1, <2>6, OffsetInBlock DEF before, MemoryTyped
  <2>8. MemoryTyped'
    BY <1>4, <2>2, <2>7 DEF MemoryTyped
  <2>9. logs' = [logs EXCEPT ![logfileNumber] =
               [Appended(logs[logfileNumber], before \o part) EXCEPT !.bad = TRUE]]
    BY <2>1 DEF before, part
  <2>10. [Appended(logs[logfileNumber], before \o part) EXCEPT !.bad = TRUE] \in LogFile
    BY <1>5, <1>6, <1>9, <2>6 DEF LogCalls
  <2>11. DiskTyped'
    BY <1>6, <1>9, <2>2, <2>9, <2>10 DEF DiskTyped, LogCalls
  <2> QED
    BY <2>8, <2>11
<1>10. CASE SyncLog(c)
  <2>1. /\ logs' = [logs EXCEPT ![logfileNumber].synced = Len(logs[logfileNumber].units)]
        /\ UNCHANGED <<memVars, version, bgError, bg, up, opening, tables, manifests>>
    BY <1>10 DEF SyncLog, bgVars, openVars
  <2>2. [logs[logfileNumber] EXCEPT !.synced = Len(logs[logfileNumber].units)] \in LogFile
    BY <1>6, <1>10 DEF LogCalls, LogFile
  <2>3. logs' = [logs EXCEPT ![logfileNumber] =
                  [logs[logfileNumber] EXCEPT !.synced = Len(logs[logfileNumber].units)]]
    BY <2>1
  <2>4. DiskTyped'
    BY <1>6, <1>10, <2>1, <2>2, <2>3 DEF DiskTyped, LogCalls
  <2>5. MemoryTyped'
    BY <2>1 DEF MemoryTyped, memVars
  <2> QED
    BY <2>4, <2>5
<1>11. CASE SyncLogFails(c)
  <2>1. /\ lastSequence' = lastSequence + Len(leader.entries) /\ bgError' = TRUE
        /\ UNCHANGED <<mem, imm, hasImm, logfileNumber, blockOffset, nextFile, version, bg,
                       up, opening, diskVars>>
    BY <1>11 DEF SyncLogFails, SequenceAfterGroup, openVars
  <2> QED
    BY <1>4, <2>1 DEF MemoryTyped, DiskTyped, diskVars
<1>12. CASE InsertInto(c)
  <2>1. /\ lastSequence' = lastSequence + Len(leader.entries)
        /\ mem' = mem \cup ToSet(leader.entries)
        /\ UNCHANGED <<imm, hasImm, logfileNumber, blockOffset, nextFile, version, bg, bgError,
                       up, opening, diskVars>>
    BY <1>12 DEF InsertInto, SequenceAfterGroup, openVars, bgVars
  <2>2. ToSet(leader.entries) \subseteq Entry
    BY <1>3 DEF ToSet
  <2> QED
    BY <1>4, <2>1, <2>2 DEF MemoryTyped, DiskTyped, diskVars
<1> QED
  BY <1>1, <1>2, <1>8, <1>9, <1>10, <1>11, <1>12 DEF Room, LogCalls

(* Obsolete files go, and no others.                                       *)
LEMMA DeleteTyped ==
  ASSUME TypedInv, NEW v, NEW pending, DeleteObsoleteFiles(v, pending)
  PROVE  /\ DOMAIN logs' \subseteq Nat /\ logs' \in [DOMAIN logs' -> LogFile]
         /\ DOMAIN tables' \subseteq Nat /\ tables' \in [DOMAIN tables' -> SUBSET Entry]
         /\ DOMAIN logs' \subseteq DOMAIN logs
         /\ \A n \in DOMAIN logs : ~(n < v.log) => n \in DOMAIN logs'
         /\ DOMAIN tables' \subseteq DOMAIN tables
         /\ \A n \in DOMAIN tables :
              n \in LiveTables(v) \cup pending \/ bgError => n \in DOMAIN tables'
         /\ \A n \in DOMAIN tables' : tables'[n] = tables[n]
<1>1. CASE bgError
  BY <1>1 DEF DeleteObsoleteFiles, TypedInv, DiskTyped
<1>2. CASE ~bgError
  <2> DEFINE fewer == Without(tables, DOMAIN tables \ (LiveTables(v) \cup pending))
             shorter == Without(logs, {n \in DOMAIN logs : n < v.log})
  <2>1. tables' = fewer /\ logs' = shorter
    BY <1>2 DEF DeleteObsoleteFiles, Obsolete
  <2>2. /\ DOMAIN fewer = DOMAIN tables \cap (LiveTables(v) \cup pending)
        /\ DOMAIN fewer \subseteq Nat /\ fewer \in [DOMAIN fewer -> SUBSET Entry]
        /\ \A i \in DOMAIN fewer : fewer[i] = tables[i]
    BY DEF Without, TypedInv, DiskTyped
  <2>3. /\ DOMAIN shorter = {n \in DOMAIN logs : ~(n < v.log)}
        /\ DOMAIN shorter \subseteq Nat /\ shorter \in [DOMAIN shorter -> LogFile]
    BY DEF Without, TypedInv, DiskTyped
  <2> HIDE DEF fewer, shorter
  <2> QED
    BY <1>2, <2>1, <2>2, <2>3
<1> QED
  BY <1>1, <1>2

(* An edit of natural numbers has its type.                                *)
LEMMA EditIs ==
  ASSUME TypedInv, NEW log \in Nat, NEW l0, l0 \subseteq Nat, NEW deep, deep \subseteq Nat,
         NEW dropped, dropped \subseteq Nat
  PROVE  Edit(log, l0, deep, dropped) \in EditType
BY DEF Edit, EditType, TypedInv, MemoryTyped

(* The work of the background thread after a flush, or any.                *)
LEMMA EndTyped ==
  ASSUME TypedInv, NEW immThere, NEW v, NEW err
  PROVE  /\ EndWork(immThere, v, err) => bg' \in Work
         /\ EndFlush(immThere, v, err) => bg' \in Work
<1>1. Scheduled(NoWork, immThere, v, err) \in Work
  BY ScheduledTyped, NoWorkTyped
<1>2. [bg EXCEPT !.step = "merge", !.file = 0, !.edit = NoEdit] \in Work
  <2>1. bg \in Work
    BY DEF TypedInv, MemoryTyped
  <2> QED
    BY <2>1, NoWorkTyped DEF Work
<1> QED
  BY <1>1, <1>2 DEF EndWork, EndFlush

(* The background thread works for an open database.                       *)
LEMMA BackgroundOpen ==
  ASSUME Idle, Background
  PROVE  up = "open"
<1>1. bg.step # "idle"
  BY DEF Background, NothingToDo, StartFlush, BuildTable, BuildTableFails, FlushDone,
    FlushFails, StartMerge, MergeTables, MergeFails, InstallMerge, InstallMergeFails
<1> QED
  BY <1>1 DEF Idle, NoWork

(* What the background thread does to memory and disk.                     *)
LEMMA BackgroundTyped ==
  ASSUME TypedInv, Idle, VersionsSound, MergeSound, Background
  PROVE  TypedInv'
<1> USE DEF TypedInv
<1>0. opening.left = {}
  BY BackgroundOpen DEF Idle
<1>1. bg \in Work /\ bg.edit \in EditType /\ nextFile \in Nat /\ nextFile + 1 \in Nat
  BY DEF MemoryTyped, Work
<1>2. Edited(version, bg.edit) \in Manifest
  BY <1>1, EditedTyped DEF MemoryTyped
<1>3. Latest(bg.edit) \in Manifest
  BY <1>1, LatestTyped
<1>4. /\ <<Latest(bg.edit)>> \in Seq(Manifest) /\ <<Latest(bg.edit)>> # <<>>
      /\ Append(manifests, Latest(bg.edit)) \in Seq(Manifest)
      /\ Append(manifests, Latest(bg.edit)) # <<>>
  BY <1>3, AppendedManifest
<1>5. CASE NothingToDo
  <2>1. EndWork(hasImm, version, bgError)
        /\ UNCHANGED <<memVars, version, bgError, openVars, diskVars>>
    BY <1>5 DEF NothingToDo
  <2>2. bg' \in Work
    BY <2>1, EndTyped
  <2> QED
    BY <2>1, <2>2 DEF memVars, openVars, diskVars, MemoryTyped, DiskTyped
<1>6. CASE StartFlush
  <2>1. /\ bg' = [bg EXCEPT !.step = "build", !.file = nextFile]
        /\ nextFile' = nextFile + 1
        /\ tables' = IF imm = {} THEN tables ELSE With(tables, nextFile, {})
        /\ UNCHANGED <<mem, imm, hasImm, lastSequence, logfileNumber, blockOffset, version,
                       bgError, openVars, logs, manifests>>
    BY <1>6 DEF StartFlush
  <2>2. bg' \in Work
    BY <1>1, <2>1 DEF Work
  <2>3. DOMAIN tables' \subseteq Nat /\ tables' \in [DOMAIN tables' -> SUBSET Entry]
    BY <1>1, <2>1, TableAdded DEF DiskTyped
  <2> QED
    BY <1>1, <2>1, <2>2, <2>3 DEF openVars, MemoryTyped, DiskTyped
<1>7. CASE BuildTable
  <2> DEFINE new == IF imm = {} THEN {} ELSE {bg.file}
  <2>1. /\ tables' = IF imm = {} THEN tables ELSE [tables EXCEPT ![bg.file] = imm]
        /\ bg' = [bg EXCEPT !.step = "apply", !.edit = Edit(logfileNumber, new, {}, {})]
        /\ UNCHANGED <<memVars, version, bgError, openVars, logs, manifests>>
    BY <1>7 DEF BuildTable
  <2>2. new \subseteq Nat
    BY <1>1 DEF Work
  <2> HIDE DEF new
  <2>3. Edit(logfileNumber, new, {}, {}) \in EditType
    BY <2>2, EditIs DEF MemoryTyped
  <2>4. bg' \in Work
    BY <1>1, <2>1, <2>3 DEF Work
  <2>5. DOMAIN tables' \subseteq Nat /\ tables' \in [DOMAIN tables' -> SUBSET Entry]
    BY <2>1 DEF DiskTyped, MemoryTyped
  <2> QED
    BY <2>1, <2>4, <2>5 DEF memVars, openVars, MemoryTyped, DiskTyped
<1>8. CASE BuildTableFails
  <2>1. /\ tables' = Without(tables, {bg.file}) /\ bgError' = TRUE
        /\ EndFlush(hasImm, version, TRUE)
        /\ UNCHANGED <<memVars, version, openVars, logs, manifests>>
    BY <1>8 DEF BuildTableFails
  <2>2. bg' \in Work
    BY <2>1, EndTyped
  <2>3. DOMAIN tables' \subseteq Nat /\ tables' \in [DOMAIN tables' -> SUBSET Entry]
    BY <2>1, TablesRemoved
  <2> QED
    BY <2>1, <2>2, <2>3 DEF memVars, openVars, MemoryTyped, DiskTyped
<1>9. CASE FlushDone
  <2>1. /\ version' = Edited(version, bg.edit) /\ manifests' = <<Latest(bg.edit)>>
        /\ imm' = {} /\ hasImm' = FALSE
        /\ DeleteObsoleteFiles(version', pendingOutputs)
        /\ EndFlush(FALSE, version', bgError)
        /\ UNCHANGED <<mem, lastSequence, logfileNumber, blockOffset, nextFile, bgError, openVars>>
    BY <1>9 DEF FlushDone
  <2>2. bg' \in Work
    BY <2>1, EndTyped
  <2>3. /\ DOMAIN logs' \subseteq Nat /\ logs' \in [DOMAIN logs' -> LogFile]
        /\ DOMAIN tables' \subseteq Nat /\ tables' \in [DOMAIN tables' -> SUBSET Entry]
    BY <2>1, DeleteTyped
  <2> QED
    BY <1>0, <1>2, <1>4, <2>1, <2>2, <2>3 DEF openVars, MemoryTyped, DiskTyped
<1>10. CASE FlushFails \/ InstallMergeFails
  <2>1. /\ manifests' = Append(manifests, Latest(bg.edit)) /\ bgError' = TRUE
        /\ EndFlush(hasImm, version, TRUE) \/ EndWork(hasImm, version, TRUE)
        /\ UNCHANGED <<memVars, version, openVars, logs, tables>>
    BY <1>10 DEF FlushFails, InstallMergeFails, ManifestFails
  <2>2. bg' \in Work
    BY <2>1, EndTyped
  <2> QED
    BY <1>4, <2>1, <2>2 DEF memVars, openVars, MemoryTyped, DiskTyped
<1>11. CASE StartMerge
  <2>1. /\ bg' = [bg EXCEPT !.step = "merge", !.into = nextFile, !.from = LiveTables(version)]
        /\ nextFile' = nextFile + 1
        /\ tables' = With(tables, nextFile, {})
        /\ UNCHANGED <<mem, imm, hasImm, lastSequence, logfileNumber, blockOffset, version,
                       bgError, openVars, logs, manifests>>
    BY <1>11 DEF StartMerge
  <2>2. LiveTables(version) \subseteq Nat
    BY DEF LiveTables, MemoryTyped, Manifest
  <2>3. bg' \in Work
    BY <1>1, <2>1, <2>2 DEF Work
  <2>4. DOMAIN tables' \subseteq Nat /\ tables' \in [DOMAIN tables' -> SUBSET Entry]
    BY <1>1, <2>1, TableAdded
  <2> QED
    BY <1>1, <2>1, <2>3, <2>4 DEF openVars, MemoryTyped, DiskTyped
<1>12. CASE MergeTables
  <2>1. /\ tables' = [tables EXCEPT ![bg.into] = UNION {tables[n] : n \in bg.from}]
        /\ bg' = [bg EXCEPT !.step = "install",
                            !.edit = Edit(version.log, {}, {bg.into}, bg.from)]
        /\ UNCHANGED <<memVars, version, bgError, openVars, logs, manifests>>
    BY <1>12 DEF MergeTables
  <2>2. Edit(version.log, {}, {bg.into}, bg.from) \in EditType
    <3>1. version.log \in Nat /\ {bg.into} \subseteq Nat /\ bg.from \subseteq Nat
      BY <1>1 DEF MemoryTyped, Manifest, Work
    <3> QED
      BY <3>1, EditIs
  <2>3. bg' \in Work
    BY <1>1, <2>1, <2>2 DEF Work
  <2>4. bg.from \subseteq DOMAIN tables
    BY <1>12 DEF MergeTables, MergeSound, VersionsSound, Known, Sound, TablesOf
  <2>5. UNION {tables[n] : n \in bg.from} \subseteq Entry
    BY <2>4 DEF DiskTyped
  <2>6. DOMAIN tables' \subseteq Nat /\ tables' \in [DOMAIN tables' -> SUBSET Entry]
    BY <2>1, <2>5 DEF DiskTyped
  <2> QED
    BY <2>1, <2>3, <2>6 DEF memVars, openVars, MemoryTyped, DiskTyped
<1>13. CASE MergeFails
  <2>1. bgError' = TRUE /\ EndWork(hasImm, version, TRUE)
        /\ UNCHANGED <<memVars, version, openVars, diskVars>>
    BY <1>13 DEF MergeFails
  <2>2. bg' \in Work
    BY <2>1, EndTyped
  <2> QED
    BY <2>1, <2>2 DEF memVars, openVars, diskVars, MemoryTyped, DiskTyped
<1>14. CASE InstallMerge
  <2>1. /\ version' = Edited(version, bg.edit) /\ manifests' = <<Latest(bg.edit)>>
        /\ DeleteObsoleteFiles(version', pendingOutputs')
        /\ EndWork(hasImm, version', bgError)
        /\ UNCHANGED <<memVars, bgError, openVars>>
    BY <1>14 DEF InstallMerge
  <2>2. bg' \in Work
    BY <2>1, EndTyped
  <2>3. /\ DOMAIN logs' \subseteq Nat /\ logs' \in [DOMAIN logs' -> LogFile]
        /\ DOMAIN tables' \subseteq Nat /\ tables' \in [DOMAIN tables' -> SUBSET Entry]
    BY <2>1, DeleteTyped
  <2> QED
    BY <1>0, <1>2, <1>4, <2>1, <2>2, <2>3 DEF memVars, openVars, MemoryTyped, DiskTyped
<1> QED
  BY <1>5, <1>6, <1>7, <1>8, <1>9, <1>10, <1>11, <1>12, <1>13, <1>14 DEF Background

(* Numbers that the manifest names are used.                               *)
LEMMA NextFile ==
  ASSUME NEW m \in Manifest
  PROVE  /\ Max({m.next, m.log}) \in Nat
         /\ m.next <= Max({m.next, m.log}) /\ m.log <= Max({m.next, m.log})
<1>1. m.next \in Nat /\ m.log \in Nat
  BY DEF Manifest
<1>2. PICK b \in Nat : m.next <= b /\ m.log <= b
  BY <1>1
<1> DEFINE T == {m.next, m.log}
<1>3. T \subseteq Nat /\ T # {} /\ \A x \in T : x <= b
  BY <1>1, <1>2
<1>4. Max(T) \in T /\ \A x \in T : x <= Max(T)
  <2> HIDE DEF T
  <2> QED
    BY <1>3, MaxOf
<1> QED
  BY <1>3, <1>4

(* What DB::Open does to memory and disk.                                  *)
LEMMA OpenTyped ==
  ASSUME TypedInv, Idle, Recover \/ ReplayLog \/ CreateLog \/ CommitOpen
  PROVE  TypedInv'
<1> USE DEF TypedInv
<1>1. nextFile \in Nat /\ nextFile + 1 \in Nat
  BY DEF MemoryTyped
<1>2. CASE Recover
  <2>1. PICK m \in ToSet(manifests) :
          /\ manifests' = <<m>> /\ version' = m /\ lastSequence' = m.seq
          /\ nextFile' = Max({m.next, m.log}) + 1
          /\ opening' = [left |-> {n \in DOMAIN logs : n >= m.log}, made |-> {}]
    BY <1>2 DEF Recover
  <2>2. up' = "replay"
        /\ UNCHANGED <<mem, imm, hasImm, logfileNumber, blockOffset, bgError, bg, logs, tables>>
    BY <1>2 DEF Recover
  <2>3. m \in Manifest
    BY DEF DiskTyped, ToSet
  <2>4. nextFile' \in Nat /\ lastSequence' \in Nat
    BY <2>1, <2>3, NextFile DEF Manifest
  <2>5. /\ opening' \in [left : SUBSET Nat, made : SUBSET Nat]
        /\ opening'.left \subseteq DOMAIN logs
    <3> DEFINE left == {n \in DOMAIN logs : n >= m.log}
    <3>1. left \subseteq Nat /\ left \subseteq DOMAIN logs
      BY DEF DiskTyped
    <3> HIDE DEF left
    <3>2. opening' = [left |-> left, made |-> {}]
      BY <2>1 DEF left
    <3> QED
      BY <3>1, <3>2
  <2>6. MemoryTyped'
    BY <2>1, <2>2, <2>3, <2>4, <2>5 DEF MemoryTyped
  <2>7. DiskTyped'
    BY <2>1, <2>2, <2>3, <2>5 DEF DiskTyped
  <2> QED
    BY <2>6, <2>7
<1>3. CASE ReplayLog
  <2> DEFINE n == Min(opening.left)
             found == Replayed(n)
             last == Max({lastSequence} \cup {e.seq : e \in found})
             next == IF found = {} THEN nextFile ELSE nextFile + 1
             new == IF found = {} THEN {} ELSE {nextFile}
  <2>1. /\ opening.left # {} /\ lastSequence' = last
        /\ nextFile' = MarkFileNumberUsed(n, next)
        /\ tables' = IF found = {} THEN tables ELSE With(tables, nextFile, found)
        /\ opening' = [left |-> opening.left \ {n}, made |-> opening.made \cup new]
        /\ UNCHANGED <<mem, imm, hasImm, logfileNumber, blockOffset, version, bgError, bg, up,
                       logs, manifests>>
    BY <1>3 DEF ReplayLog, bgVars
  <2>2. n \in opening.left /\ n \in Nat
    <3>1. opening.left \subseteq Nat
      BY DEF MemoryTyped
    <3> QED
      BY <2>1, <3>1, MinOf
  <2>3. n \in DOMAIN logs
    BY <2>2 DEF DiskTyped
  <2> HIDE DEF n
  <2>4. found \subseteq Entry /\ last \in Nat
    BY <2>3, ReplayedTyped
  <2> HIDE DEF found, last
  <2>5. nextFile' \in Nat
    BY <1>1, <2>1, <2>2 DEF MarkFileNumberUsed
  <2>6. DOMAIN tables' \subseteq Nat /\ tables' \in [DOMAIN tables' -> SUBSET Entry]
    BY <1>1, <2>1, <2>4, TableAdded DEF DiskTyped
  <2>7. new \subseteq Nat
    BY <1>1
  <2> HIDE DEF new
  <2>8. opening' \in [left : SUBSET Nat, made : SUBSET Nat] /\ opening'.left \subseteq opening.left
    BY <2>1, <2>7 DEF MemoryTyped
  <2>9. MemoryTyped'
    BY <2>1, <2>4, <2>5, <2>8 DEF MemoryTyped
  <2>10. DiskTyped'
    BY <2>1, <2>6, <2>8 DEF DiskTyped
  <2> QED
    BY <2>9, <2>10
<1>4. CASE CreateLog
  <2>1. /\ logs' = With(logs, nextFile, NewLog)
        /\ logfileNumber' = nextFile /\ nextFile' = nextFile + 1 /\ up' = "commit"
        /\ UNCHANGED <<mem, imm, hasImm, lastSequence, blockOffset, version, bgError, bg, opening,
                       tables, manifests>>
    BY <1>4 DEF CreateLog, bgVars
  <2> DEFINE more == With(logs, nextFile, NewLog)
  <2>2. /\ DOMAIN more = DOMAIN logs \cup {nextFile} /\ DOMAIN more \subseteq Nat
        /\ more \in [DOMAIN more -> LogFile]
    BY <1>1, LogAdded
  <2> HIDE DEF more
  <2>3. logs' = more
    BY <2>1 DEF more
  <2>4. MemoryTyped'
    BY <1>1, <2>1 DEF MemoryTyped
  <2>5. DiskTyped'
    BY <2>1, <2>2, <2>3 DEF DiskTyped
  <2> QED
    BY <2>4, <2>5
<1>5. CASE CommitOpen
  <2> DEFINE edit == Edit(logfileNumber, opening.made, {}, {})
  <2>1. /\ version' = Edited(version, edit) /\ manifests' = <<version'>>
        /\ DeleteObsoleteFiles(version', {})
        /\ bg' = Scheduled(bg, FALSE, version', bgError)
        /\ up' = "open" /\ opening' = [left |-> {}, made |-> {}]
        /\ UNCHANGED <<memVars, bgError>>
    BY <1>5 DEF CommitOpen
  <2>2. edit \in EditType
    <3>1. logfileNumber \in Nat /\ opening.made \subseteq Nat
      BY DEF MemoryTyped
    <3> QED
      BY <3>1, EditIs
  <2> HIDE DEF edit
  <2>3. version' \in Manifest
    BY <2>1, <2>2, EditedTyped DEF MemoryTyped
  <2>4. bg' \in Work
    BY <2>1, ScheduledTyped DEF MemoryTyped
  <2>5. /\ DOMAIN logs' \subseteq Nat /\ logs' \in [DOMAIN logs' -> LogFile]
        /\ DOMAIN tables' \subseteq Nat /\ tables' \in [DOMAIN tables' -> SUBSET Entry]
    BY <2>1, DeleteTyped
  <2>6. MemoryTyped'
    BY <2>1, <2>3, <2>4 DEF MemoryTyped, memVars
  <2>7. DiskTyped'
    BY <2>1, <2>3, <2>5 DEF DiskTyped
  <2> QED
    BY <2>6, <2>7
<1> QED
  BY <1>2, <1>3, <1>4, <1>5

(* What is left when the process or the machine dies.                      *)
LEMMA DownTyped ==
  ASSUME CallsTyped, TypedInv, OpenFails \/ Kill \/ PowerLoss
  PROVE  TypedInv'
<1> USE DEF TypedInv
<1>1. Down
  BY DEF OpenFails, Kill, PowerLoss
<1>2. MemoryTyped'
  <2>1. 0 \in 0..BlockSize
    BY LogAssumption
  <2> QED
    BY <1>1, <2>1, NoWorkTyped, NewManifestTyped DEF Down, MemoryTyped
<1>3. CASE OpenFails
  BY <1>1, <1>2, <1>3 DEF OpenFails, Down, diskVars, DiskTyped
<1>4. CASE Kill \/ PowerLoss
  <2>1. \A n \in DOMAIN logs : logs[n] \in LogFile
    BY DEF DiskTyped
  <2>2. \A n \in DOMAIN logs : Written[n] \in Nat /\ Synced[n] \in Nat
    BY <2>1 DEF Written, Synced, LogFile
  <2>3. logs' \in CutLogs(Written) \/ logs' \in CutLogs(Synced)
    BY <1>4 DEF Kill, PowerLoss
  <2>4. DOMAIN logs' = DOMAIN logs /\ logs' \in [DOMAIN logs -> LogFile]
    BY <2>2, <2>3, CutTyped
  <2>5. manifests' = ManifestsLeft /\ tables' = tables
    BY <1>4 DEF Kill, PowerLoss
  <2>6. opening' = [left |-> {}, made |-> {}]
    BY <1>1 DEF Down
  <2> QED
    BY <1>2, <2>4, <2>5, <2>6, ManifestsLeftTyped DEF DiskTyped
<1> QED
  BY <1>3, <1>4

(* Every step keeps the types.                                             *)
LEMMA TypedNext ==
  ASSUME CallsTyped, TypedInv, Idle, LogInUse, VersionsSound, MergeSound, [Next]_vars
  PROVE  TypedInv'
<1>1. ASSUME NEW c \in Clients,
             Write(c) \/ CompactMemTableNow(c) \/ WaitFlushed(c) \/ Flushed(c)
      PROVE  TypedInv'
  <2>1. UNCHANGED <<memVars, bgVars, openVars, diskVars>>
    BY <1>1, EnqueueFrame DEF WaitFlushed, Flushed
  <2> QED
    BY <2>1 DEF memVars, bgVars, openVars, diskVars, TypedInv, MemoryTyped, DiskTyped
<1>2. ASSUME NEW c \in Clients, Room(c) \/ LogCalls(c)
      PROVE  TypedInv'
  BY <1>2, WriterTyped
<1>3. CASE Background
  BY <1>3, BackgroundTyped
<1>4. CASE Recover \/ ReplayLog \/ CreateLog \/ CommitOpen
  BY <1>4, OpenTyped
<1>5. CASE OpenFails \/ Kill \/ PowerLoss
  BY <1>5, DownTyped
<1>6. CASE UNCHANGED vars
  BY <1>6 DEF vars, memVars, bgVars, openVars, diskVars, TypedInv, MemoryTyped, DiskTyped
<1> QED
  BY <1>1, <1>2, <1>3, <1>4, <1>5, <1>6 DEF Next, OpenSteps

(* A process that is not there stays idle.                                 *)
LEMMA IdleNext ==
  ASSUME Idle, CallsTyped, [Next]_vars
  PROVE  Idle'
<1>1. ASSUME NEW c \in Clients,
             Write(c) \/ CompactMemTableNow(c) \/ Room(c) \/ LogCalls(c) \/ WaitFlushed(c) \/ Flushed(c)
      PROVE  up = "open" /\ UNCHANGED openVars
  <2>1. CASE Write(c) \/ CompactMemTableNow(c)
    BY <2>1, EnqueueFrame
  <2>2. CASE Room(c)
    BY <2>2 DEF Room, RoomError, RoomThere, RoomWaits, RoomNoFile, SwitchMemTable, Leads
  <2>3. CASE LogCalls(c)
    BY <2>3 DEF LogCalls, WriteLog, WriteLogFails, SyncLog, SyncLogFails, InsertInto, Writing
  <2>4. CASE WaitFlushed(c) \/ Flushed(c)
    BY <2>4 DEF WaitFlushed, Flushed
  <2> QED
    BY <1>1, <2>1, <2>2, <2>3, <2>4
<1>2. ASSUME Background
      PROVE  up = "open" /\ UNCHANGED openVars
  <2>1. UNCHANGED openVars
    BY <1>2 DEF Background, NothingToDo, StartFlush, BuildTable, BuildTableFails, FlushDone,
      FlushFails, StartMerge, MergeTables, MergeFails, InstallMerge, InstallMergeFails
  <2> QED
    BY <1>2, <2>1, BackgroundOpen
<1>3. ASSUME up = "open", UNCHANGED openVars
      PROVE  Idle'
  BY <1>3 DEF Idle, openVars
<1>4. CASE Recover
  BY <1>4 DEF Recover, Idle, callVars
<1>5. CASE ReplayLog
  BY <1>5 DEF ReplayLog, Idle, callVars, bgVars
<1>6. CASE CreateLog
  BY <1>6 DEF CreateLog, Idle, callVars, bgVars
<1>7. CASE CommitOpen
  BY <1>7 DEF CommitOpen, Idle
<1>8. CASE OpenFails \/ Kill \/ PowerLoss
  <2>1. Down
    BY <1>8 DEF OpenFails, Kill, PowerLoss
  <2> QED
    BY <2>1 DEF Down, Idle
<1>9. CASE UNCHANGED vars
  BY <1>9 DEF vars, callVars, memVars, bgVars, openVars, Idle
<1> QED
  BY <1>1, <1>2, <1>3, <1>4, <1>5, <1>6, <1>7, <1>8, <1>9 DEF Next, OpenSteps

(* What EndWork and EndFlush make of the work.                             *)
Resting(work) == work \in {NoWork, [NoWork EXCEPT !.step = "scheduled"]}

(* Work ends idle, scheduled again, or with the merge behind a flush.      *)
LEMMA EndIs ==
  ASSUME NEW immThere, NEW v, NEW err
  PROVE  /\ Resting(Scheduled(NoWork, immThere, v, err))
         /\ EndWork(immThere, v, err) => Resting(bg')
         /\ EndFlush(immThere, v, err) =>
              \/ bg.into = 0 /\ Resting(bg')
              \/ bg.into # 0 /\ bg' = [bg EXCEPT !.step = "merge", !.file = 0, !.edit = NoEdit]
         /\ \A work : Scheduled(work, immThere, v, err) = work
                      \/ (work.step = "idle" /\ Resting(Scheduled(work, immThere, v, err)))
BY DEF Resting, Scheduled, EndWork, EndFlush

(* Work at rest edits nothing.                                             *)
LEMMA RestingEdit ==
  ASSUME NEW work, Resting(work)
  PROVE  work.edit.log = 0 /\ work.into = 0 /\ work.step \in {"idle", "scheduled"}
BY DEF Resting, NoWork, NoEdit

(* Work that ended edits nothing.                                          *)
LEMMA EndEdit ==
  ASSUME TypedInv, NEW immThere, NEW v, NEW err,
         EndWork(immThere, v, err) \/ EndFlush(immThere, v, err)
  PROVE  bg'.edit.log = 0
<1>1. CASE Resting(bg')
  BY <1>1, RestingEdit
<1>2. CASE bg' = [bg EXCEPT !.step = "merge", !.file = 0, !.edit = NoEdit]
  <2>1. bg \in Work
    BY DEF TypedInv, MemoryTyped
  <2>2. bg'.edit = NoEdit
    BY <1>2, <2>1 DEF Work
  <2> QED
    BY <2>2 DEF NoEdit
<1> QED
  BY <1>1, <1>2, EndIs

(* The log in use is there after every step.                               *)
LEMMA LogInUseNext ==
  ASSUME TypedInv, CallsTyped, Idle, LogInUse, [Next]_vars, TypedInv'
  PROVE  LogInUse'
<1> USE DEF TypedInv
<1>1. /\ nextFile \in Nat /\ logfileNumber \in Nat /\ version.log \in Nat /\ bg.edit.log \in Nat
  BY DEF MemoryTyped, Manifest, Work, EditType
<1>2. ASSUME UNCHANGED <<up, version, nextFile, logfileNumber>>, DOMAIN logs' = DOMAIN logs,
             bg' = bg \/ bg'.edit.log = 0
      PROVE  LogInUse'
  BY <1>1, <1>2 DEF LogInUse
<1>3. ASSUME NEW c \in Clients, Write(c) \/ CompactMemTableNow(c) \/ WaitFlushed(c) \/ Flushed(c)
      PROVE  LogInUse'
  <2>1. UNCHANGED <<memVars, bgVars, openVars, diskVars>>
    BY <1>3, EnqueueFrame DEF WaitFlushed, Flushed
  <2> QED
    BY <1>2, <2>1 DEF memVars, bgVars, openVars, diskVars
<1>4. ASSUME NEW c \in Clients, RoomError(c) \/ RoomThere(c) \/ RoomWaits(c) \/ RoomNoFile(c)
      PROVE  LogInUse'
  <2>1. UNCHANGED <<memVars, bgVars, openVars, diskVars>>
    BY <1>4 DEF RoomError, RoomThere, RoomWaits, RoomNoFile
  <2> QED
    BY <1>2, <2>1 DEF memVars, bgVars, openVars, diskVars
<1>5. ASSUME NEW c \in Clients, SwitchMemTable(c)
      PROVE  LogInUse'
  <2>1. /\ logs' = With(logs, nextFile, NewLog) /\ logfileNumber' = nextFile
        /\ nextFile' = nextFile + 1 /\ bg' = Scheduled(bg, TRUE, version, bgError)
        /\ up = "open" /\ UNCHANGED <<version, up>>
    BY <1>5 DEF SwitchMemTable, Leads, openVars
  <2>2. logfileNumber' \in DOMAIN logs'
    BY <2>1 DEF With
  <2>3. bg' = bg \/ bg'.edit.log = 0
    BY <2>1, EndIs, RestingEdit
  <2>4. version.log < nextFile /\ bg.edit.log <= logfileNumber /\ logfileNumber < nextFile
    BY <2>1 DEF LogInUse
  <2>5. bg'.edit.log <= logfileNumber' /\ version'.log <= logfileNumber'
        /\ version'.log < nextFile' /\ logfileNumber' < nextFile'
    <3>1. logfileNumber' = nextFile /\ nextFile' = nextFile + 1 /\ version' = version
      BY <2>1
    <3>2. bg'.edit.log = bg.edit.log \/ bg'.edit.log = 0
      BY <2>3
    <3> QED
      BY <1>1, <2>4, <3>1, <3>2
  <2> QED
    BY <2>2, <2>5 DEF LogInUse
<1>6. ASSUME NEW c \in Clients, LogCalls(c)
      PROVE  LogInUse'
  <2>1. UNCHANGED <<up, version, nextFile, logfileNumber, bg>>
    BY <1>6 DEF LogCalls, WriteLog, WriteLogFails, SyncLog, SyncLogFails, InsertInto, memVars, bgVars,
      openVars
  <2>2. DOMAIN logs' = DOMAIN logs
    <3>1. \/ \E file : logs' = [logs EXCEPT ![logfileNumber] = file]
          \/ logs' = logs
      <4>1. CASE WriteLog(c) \/ SyncLog(c)
        BY <4>1 DEF WriteLog, SyncLog
      <4>2. CASE WriteLogFails(c)
        BY <4>2 DEF WriteLogFails
      <4>3. CASE SyncLogFails(c) \/ InsertInto(c)
        BY <4>3 DEF SyncLogFails, InsertInto, diskVars
      <4> QED
        BY <1>6, <4>1, <4>2, <4>3 DEF LogCalls
    <3> QED
      BY <3>1
  <2> QED
    BY <1>2, <2>1, <2>2
<1>7. ASSUME NothingToDo \/ StartFlush \/ BuildTableFails \/ FlushFails \/ StartMerge \/ MergeFails
             \/ InstallMergeFails
      PROVE  LogInUse'
  <2>1. bg'.edit = bg.edit \/ bg'.edit.log = 0
    <3>1. CASE NothingToDo \/ MergeFails \/ InstallMergeFails
      BY <3>1, EndIs, RestingEdit DEF NothingToDo, MergeFails, InstallMergeFails
    <3>2. CASE BuildTableFails \/ FlushFails
      <4>1. EndFlush(hasImm, version, TRUE)
        BY <3>2 DEF BuildTableFails, FlushFails
      <4> QED
        BY <4>1, EndEdit
    <3>3. CASE StartFlush \/ StartMerge
      <4>1. bg \in Work
        BY DEF MemoryTyped
      <4> QED
        BY <3>3, <4>1 DEF StartFlush, StartMerge, Work
    <3> QED
      BY <1>7, <3>1, <3>2, <3>3
  <2>2. UNCHANGED <<up, version, logfileNumber, logs>> /\ nextFile' \in {nextFile, nextFile + 1}
    BY <1>7 DEF NothingToDo, StartFlush, BuildTableFails, FlushFails, StartMerge, MergeFails,
      InstallMergeFails, memVars, openVars, diskVars
  <2> QED
    BY <1>1, <2>1, <2>2 DEF LogInUse
<1>8. ASSUME BuildTable \/ MergeTables
      PROVE  LogInUse'
  <2>1. bg'.edit.log \in {logfileNumber, version.log}
    <3>1. bg \in Work
      BY DEF MemoryTyped
    <3>2. CASE BuildTable
      <4> DEFINE edit == Edit(logfileNumber, IF imm = {} THEN {} ELSE {bg.file}, {}, {})
      <4>1. bg' = [bg EXCEPT !.step = "apply", !.edit = edit]
        BY <3>2 DEF BuildTable
      <4>2. edit.log = logfileNumber
        BY DEF Edit
      <4> HIDE DEF edit
      <4> QED
        BY <3>1, <4>1, <4>2 DEF Work
    <3>3. CASE MergeTables
      <4> DEFINE edit == Edit(version.log, {}, {bg.into}, bg.from)
      <4>1. bg' = [bg EXCEPT !.step = "install", !.edit = edit]
        BY <3>3 DEF MergeTables
      <4>2. edit.log = version.log
        BY DEF Edit
      <4> HIDE DEF edit
      <4> QED
        BY <3>1, <4>1, <4>2 DEF Work
    <3> QED
      BY <1>8, <3>2, <3>3
  <2>2. UNCHANGED <<up, version, logfileNumber, nextFile, logs>>
    BY <1>8 DEF BuildTable, MergeTables, memVars, openVars
  <2> QED
    BY <1>1, <2>1, <2>2 DEF LogInUse
<1>9. ASSUME FlushDone \/ InstallMerge
      PROVE  LogInUse'
  <2>1. /\ version' = Edited(version, bg.edit)
        /\ \E pending : DeleteObsoleteFiles(version', pending)
        /\ EndFlush(FALSE, version', bgError) \/ EndWork(hasImm, version', bgError)
        /\ UNCHANGED <<up, logfileNumber, nextFile>>
    BY <1>9 DEF FlushDone, InstallMerge, openVars, memVars
  <2>2. version'.log = bg.edit.log
    BY <2>1 DEF Edited
  <2>3. bg'.edit.log = 0
    BY <2>1, EndEdit
  <2>4. up = "open"
    BY <1>9, BackgroundOpen DEF Background
  <2>5. logfileNumber \in DOMAIN logs'
    <3>1. logfileNumber \in DOMAIN logs /\ ~(logfileNumber < version'.log)
      BY <1>1, <2>2, <2>4 DEF LogInUse
    <3> QED
      BY <2>1, <3>1, DeleteTyped
  <2> QED
    BY <1>1, <2>1, <2>2, <2>3, <2>4, <2>5 DEF LogInUse
<1>10. ASSUME Recover
       PROVE  LogInUse'
  <2>1. PICK m \in ToSet(manifests) : version' = m /\ nextFile' = Max({m.next, m.log}) + 1
    BY <1>10 DEF Recover
  <2>2. m \in Manifest
    BY DEF DiskTyped, ToSet
  <2>3. up' = "replay"
    BY <1>10 DEF Recover
  <2>4. m.log < nextFile'
    <3>1. m.log \in Nat /\ Max({m.next, m.log}) \in Nat /\ m.log <= Max({m.next, m.log})
      BY <2>2, NextFile DEF Manifest
    <3> QED
      BY <2>1, <3>1
  <2> QED
    BY <2>1, <2>3, <2>4 DEF LogInUse
<1>11. ASSUME ReplayLog
       PROVE  LogInUse'
  <2>1. nextFile' \in Nat /\ nextFile <= nextFile'
    <3>1. PICK n \in opening.left, next \in {nextFile, nextFile + 1} :
            nextFile' = MarkFileNumberUsed(n, next)
      <4>1. opening.left # {} /\ opening.left \subseteq Nat
        BY <1>11 DEF ReplayLog, MemoryTyped
      <4>2. Min(opening.left) \in opening.left
        BY <4>1, MinOf
      <4> QED
        BY <1>11, <4>2 DEF ReplayLog
    <3>2. n \in Nat
      BY DEF MemoryTyped
    <3> QED
      BY <1>1, <3>1, <3>2 DEF MarkFileNumberUsed
  <2>2. up = "replay" /\ UNCHANGED <<up, version>>
    BY <1>11 DEF ReplayLog, bgVars
  <2> QED
    BY <1>1, <2>1, <2>2 DEF LogInUse
<1>12. ASSUME CreateLog
       PROVE  LogInUse'
  <2>1. /\ logs' = With(logs, nextFile, NewLog) /\ logfileNumber' = nextFile
        /\ nextFile' = nextFile + 1 /\ up = "replay" /\ up' = "commit"
        /\ UNCHANGED <<version, bg>>
    BY <1>12 DEF CreateLog, bgVars
  <2>2. logfileNumber' \in DOMAIN logs'
    BY <2>1 DEF With
  <2>3. bg.edit.log = 0
    BY <2>1 DEF Idle, NoWork, NoEdit
  <2> QED
    BY <1>1, <2>1, <2>2, <2>3 DEF LogInUse
<1>13. ASSUME CommitOpen
       PROVE  LogInUse'
  <2>1. /\ version'.log = logfileNumber /\ DeleteObsoleteFiles(version', {})
        /\ up = "commit" /\ up' = "open" /\ UNCHANGED memVars
        /\ bg' = Scheduled(bg, FALSE, version', bgError)
    BY <1>13 DEF CommitOpen, Edited, Edit
  <2>2. bg'.edit.log = 0
    <3>1. bg = NoWork
      BY <2>1 DEF Idle
    <3> QED
      BY <2>1, <3>1, EndIs, RestingEdit
  <2>3. logfileNumber \in DOMAIN logs'
    <3>1. logfileNumber \in DOMAIN logs /\ ~(logfileNumber < version'.log)
      BY <1>1, <2>1 DEF LogInUse
    <3> QED
      BY <2>1, <3>1, DeleteTyped
  <2>4. logfileNumber < nextFile
    BY <2>1 DEF LogInUse
  <2>5. logfileNumber' = logfileNumber /\ nextFile' = nextFile
    BY <2>1 DEF memVars
  <2>6. version'.log <= logfileNumber' /\ bg'.edit.log <= logfileNumber' /\ version'.log < nextFile'
    <3>1. version'.log = logfileNumber
      BY <2>1
    <3> QED
      BY <1>1, <2>2, <2>4, <2>5, <3>1
  <2> QED
    BY <2>1, <2>3, <2>4, <2>5, <2>6 DEF LogInUse
<1>14. ASSUME OpenFails \/ Kill \/ PowerLoss
       PROVE  LogInUse'
  <2>1. Down
    BY <1>14 DEF OpenFails, Kill, PowerLoss
  <2> QED
    BY <2>1 DEF Down, LogInUse
<1>15. ASSUME UNCHANGED vars
       PROVE  LogInUse'
  BY <1>2, <1>15 DEF vars, memVars, bgVars, openVars, diskVars
<1> QED
  BY <1>3, <1>4, <1>5, <1>6, <1>7, <1>8, <1>9, <1>10, <1>11, <1>12, <1>13, <1>14, <1>15
  DEF Next, OpenSteps, Background, Room

-----------------------------------------------------------------------------
(* Sequence numbers in memory.                                             *)

LEMMA MemorySoundNext ==
  ASSUME TypedInv, CallsTyped, Idle, MemorySound, [Next]_vars
  PROVE  MemorySound'
<1>1. /\ lastSequence \in Nat /\ mem \subseteq Entry /\ imm \subseteq Entry
      /\ \A e \in mem \cup imm : e.seq \in Nat
      /\ leader.entries \in Seq(Entry) /\ Len(leader.entries) \in Nat
      /\ NoLeader.entries = <<>>
  BY DEF TypedInv, MemoryTyped, CallsTyped, Entry, NoLeader
<1>2. ASSUME UNCHANGED <<hasImm, lastSequence>>, mem' \cup imm' \subseteq mem \cup imm,
             imm' \in {imm, {}}, leader'.entries \in {leader.entries, <<>>}
      PROVE  MemorySound'
  <2>1. hasImm' \/ imm' = {}
    BY <1>2 DEF MemorySound
  <2>2. \A e \in mem' \cup imm' : e.seq <= lastSequence'
    BY <1>2 DEF MemorySound
  <2>3. CASE leader'.entries = leader.entries
    BY <1>2, <2>1, <2>2, <2>3 DEF MemorySound
  <2>4. CASE leader'.entries = <<>>
    BY <1>2, <2>1, <2>2, <2>4 DEF MemorySound
  <2> QED
    BY <1>2, <2>3, <2>4
<1>3. ASSUME lastSequence' = SequenceAfterGroup, mem' \subseteq mem \cup ToSet(leader.entries),
             UNCHANGED <<imm, hasImm>>, leader' = NoLeader
      PROVE  MemorySound'
  <2>1. \A e \in ToSet(leader.entries) : e.seq <= lastSequence'
    BY <1>1, <1>3 DEF MemorySound, ToSet, SequenceAfterGroup
  <2>2. lastSequence' \in Nat /\ lastSequence <= lastSequence'
    BY <1>1, <1>3 DEF SequenceAfterGroup
  <2>3. \A e \in mem \cup imm : e.seq <= lastSequence'
    BY <1>1, <2>2 DEF MemorySound
  <2> QED
    BY <1>1, <1>3, <2>1, <2>3 DEF MemorySound
<1>4. ASSUME NEW c \in Clients, Write(c) \/ CompactMemTableNow(c) \/ WaitFlushed(c) \/ Flushed(c)
      PROVE  MemorySound'
  <2>1. UNCHANGED <<leader, memVars>>
    BY <1>4, EnqueueFrame DEF WaitFlushed, Flushed
  <2> QED
    BY <1>2, <2>1 DEF memVars
<1>5. ASSUME NEW c \in Clients, RoomError(c) \/ RoomWaits(c) \/ RoomNoFile(c)
      PROVE  MemorySound'
  <2>1. leader' \in {leader, NoLeader} /\ UNCHANGED memVars
    BY <1>5 DEF RoomError, RoomWaits, RoomNoFile, Finish
  <2> QED
    BY <1>1, <1>2, <2>1 DEF memVars
<1>6. ASSUME NEW c \in Clients, RoomThere(c)
      PROVE  MemorySound'
  <2>1. UNCHANGED memVars
    BY <1>6 DEF RoomThere
  <2>2. CASE call[c].batch = 0
    <3>1. leader' = NoLeader
      BY <1>6, <2>2 DEF RoomThere, Finish
    <3> QED
      BY <1>1, <1>2, <2>1, <3>1 DEF memVars
  <2>3. CASE call[c].batch # 0
    <3>1. PICK n \in 1..Len(writers) : leader' = [step |-> "log", n |-> n, entries |-> BatchGroup(n)]
      BY <1>6, <2>3 DEF RoomThere, GroupLengths
    <3>2. \A i \in 1..Len(BatchGroup(n)) : BatchGroup(n)[i].seq <= lastSequence + Len(BatchGroup(n))
      BY GroupTyped DEF TypedInv
    <3>3. leader'.entries = BatchGroup(n)
      BY <3>1
    <3> QED
      BY <2>1, <3>2, <3>3 DEF MemorySound, memVars
  <2> QED
    BY <2>2, <2>3
<1>7. ASSUME NEW c \in Clients, SwitchMemTable(c)
      PROVE  MemorySound'
  <2>1. imm' = mem /\ hasImm' /\ mem' = {} /\ UNCHANGED <<lastSequence, leader>>
    BY <1>7 DEF SwitchMemTable
  <2> QED
    BY <2>1 DEF MemorySound
<1>8. ASSUME NEW c \in Clients, WriteLog(c) \/ SyncLog(c)
      PROVE  MemorySound'
  <2>1. leader'.entries = leader.entries /\ UNCHANGED <<mem, imm, hasImm, lastSequence>>
    BY <1>8 DEF WriteLog, SyncLog, memVars, CallsTyped
  <2> QED
    BY <1>2, <2>1
<1>9. ASSUME NEW c \in Clients, WriteLogFails(c) \/ SyncLogFails(c) \/ InsertInto(c)
      PROVE  MemorySound'
  <2>1. lastSequence' = SequenceAfterGroup /\ mem' \subseteq mem \cup ToSet(leader.entries)
        /\ UNCHANGED <<imm, hasImm>> /\ leader' = NoLeader
    BY <1>9 DEF WriteLogFails, SyncLogFails, InsertInto, Finish
  <2> QED
    BY <1>3, <2>1
<1>10. ASSUME Background
       PROVE  MemorySound'
  <2>1. CASE FlushDone
    <3>1. imm' = {} /\ UNCHANGED <<mem, lastSequence, leader>>
      BY <2>1 DEF FlushDone
    <3> QED
      BY <3>1 DEF MemorySound
  <2>2. CASE ~FlushDone
    <3>1. UNCHANGED <<mem, imm, hasImm, lastSequence, leader>>
      BY <1>10, <2>2 DEF Background, NothingToDo, StartFlush, BuildTable, BuildTableFails, FlushFails,
        StartMerge, MergeTables, MergeFails, InstallMerge, InstallMergeFails, memVars, callVars
    <3> QED
      BY <1>2, <3>1
  <2> QED
    BY <2>1, <2>2
<1>11. ASSUME Recover \/ ReplayLog \/ CreateLog \/ CommitOpen
       PROVE  MemorySound'
  <2>1. UNCHANGED <<mem, imm, hasImm, leader>>
    BY <1>11 DEF Recover, ReplayLog, CreateLog, CommitOpen, callVars, memVars
  <2>2. mem = {} /\ imm = {} /\ leader = NoLeader
    BY <1>11 DEF Recover, ReplayLog, CreateLog, CommitOpen, Idle
  <2> QED
    BY <1>1, <2>1, <2>2 DEF MemorySound
<1>12. ASSUME OpenFails \/ Kill \/ PowerLoss
       PROVE  MemorySound'
  <2>1. Down
    BY <1>12 DEF OpenFails, Kill, PowerLoss
  <2>2. mem' = {} /\ imm' = {} /\ leader' = NoLeader
    BY <2>1 DEF Down
  <2> QED
    BY <1>1, <2>2 DEF MemorySound
<1>13. ASSUME UNCHANGED vars
       PROVE  MemorySound'
  BY <1>2, <1>13 DEF vars, memVars, callVars
<1> QED
  BY <1>4, <1>5, <1>6, <1>7, <1>8, <1>9, <1>10, <1>11, <1>12, <1>13
  DEF Next, OpenSteps, Room, LogCalls

-----------------------------------------------------------------------------
(* Tables and the versions that name them.                                 *)

FilesInv == VersionsSound /\ FlushSound /\ MergeSound /\ EditSound

(* The known versions have their type.                                     *)
LEMMA KnownTyped ==
  ASSUME TypedInv
  PROVE  /\ \A m \in Known : m \in Manifest /\ LiveTables(m) \subseteq Nat
         /\ version \in Known /\ Last(manifests) \in Known
         /\ \A k \in DOMAIN tables : \A e \in tables[k] : e.seq \in Nat
<1>1. manifests \in Seq(Manifest) /\ version \in Manifest
  BY DEF TypedInv, DiskTyped, MemoryTyped
<1>2. \A m \in Known : m \in Manifest
  BY <1>1 DEF Known, ToSet
<1>3. \A m \in Known : LiveTables(m) \subseteq Nat
  BY <1>2 DEF LiveTables, Manifest
<1>4. Last(manifests) \in Known
  <2>1. Len(manifests) \in DOMAIN manifests
    BY <1>1 DEF TypedInv, DiskTyped
  <2> QED
    BY <2>1 DEF Last, Known, ToSet
<1>5. \A k \in DOMAIN tables : \A e \in tables[k] : e.seq \in Nat
  BY DEF TypedInv, DiskTyped, Entry
<1> QED
  BY <1>2, <1>3, <1>4, <1>5 DEF Known

(* Work at rest leaves nothing half done.                                  *)
LEMMA RestingSound ==
  ASSUME Resting(bg')
  PROVE  FlushSound' /\ MergeSound' /\ EditSound'
<1>1. bg' \in {NoWork, [NoWork EXCEPT !.step = "scheduled"]}
  BY DEF Resting
<1>2. bg'.step \in {"idle", "scheduled"} /\ bg'.into = 0 /\ bg' = [NoWork EXCEPT !.step = bg'.step]
  BY <1>1 DEF NoWork
<1> QED
  BY <1>2 DEF FlushSound, MergeSound, EditSound

(* Versions stay sound while their tables stay.                            *)
LEMMA VersionsKept ==
  ASSUME TypedInv, TypedInv', VersionsSound, UNCHANGED <<manifests, version, up>>,
         up = "open", opening' = opening, opening.made = {},
         nextFile <= nextFile', lastSequence <= lastSequence', bgError => bgError',
         \A m \in Known : \A k \in LiveTables(m) : k \in DOMAIN tables' /\ tables'[k] = tables[k]
  PROVE  VersionsSound'
<1>1. Known' = Known
  BY DEF Known
<1>2. \A m \in Known : Sound(m)'
  BY DEF VersionsSound, Sound, TablesOf
<1>3. \A m \in Known : m.next \in Nat /\ m.seq \in Nat
  BY KnownTyped DEF Manifest
<1>4. nextFile \in Nat /\ nextFile' \in Nat /\ lastSequence \in Nat /\ lastSequence' \in Nat
  BY DEF TypedInv, MemoryTyped
<1>5. 0 < nextFile' /\ \A m \in Known : m.next <= nextFile' /\ m.seq <= lastSequence'
  BY <1>3, <1>4 DEF VersionsSound
<1> QED
  BY <1>1, <1>2, <1>5 DEF VersionsSound

(* Steps that leave the files alone.                                       *)
LEMMA FilesQuiet ==
  ASSUME TypedInv, TypedInv', Idle, FilesInv,
         UNCHANGED <<tables, manifests, version, pendingOutputs, openVars>>, up = "open",
         nextFile <= nextFile', lastSequence <= lastSequence', bgError => bgError',
         bg' = bg \/ Resting(bg'), hasImm => UNCHANGED <<imm, hasImm>>
  PROVE  FilesInv'
<1>1. \A m \in Known : \A k \in LiveTables(m) : k \in DOMAIN tables' /\ tables'[k] = tables[k]
  BY DEF FilesInv, VersionsSound, Sound, TablesOf
<1>2. VersionsSound'
  BY <1>1, VersionsKept DEF FilesInv, Idle, openVars
<1>3. CASE Resting(bg')
  BY <1>2, <1>3, RestingSound DEF FilesInv
<1>4. CASE bg' = bg
  <2>1. /\ nextFile \in Nat /\ nextFile' \in Nat /\ lastSequence \in Nat /\ lastSequence' \in Nat
        /\ bg.into \in Nat /\ bg.file \in Nat /\ bg.edit.next \in Nat /\ bg.edit.seq \in Nat
    BY DEF TypedInv, MemoryTyped, Work, EditType
  <2>2. Known' = Known
    BY DEF Known
  <2>3. FlushSound'
    BY <1>4, <2>1, <2>2 DEF FilesInv, FlushSound
  <2>4. MergeSound'
    BY <1>4, <2>1, <2>2 DEF FilesInv, MergeSound
  <2>5. EditSound'
    BY <1>4, <2>1, <2>2 DEF FilesInv, EditSound, TablesOf
  <2> QED
    BY <1>2, <2>3, <2>4, <2>5 DEF FilesInv
<1> QED
  BY <1>3, <1>4

(* Calls leave the files alone, but for the log.                           *)
LEMMA CallsFiles ==
  ASSUME TypedInv, TypedInv', Idle, CallsTyped, FilesInv, NEW c \in Clients,
         \/ Write(c) \/ CompactMemTableNow(c) \/ WaitFlushed(c) \/ Flushed(c)
         \/ Room(c) \/ LogCalls(c)
  PROVE  FilesInv'
<1>1. nextFile \in Nat /\ lastSequence \in Nat /\ Len(leader.entries) \in Nat
  BY DEF TypedInv, MemoryTyped, CallsTyped
<1>2. CASE \/ Write(c) \/ CompactMemTableNow(c) \/ WaitFlushed(c) \/ Flushed(c)
           \/ RoomError(c) \/ RoomThere(c) \/ RoomWaits(c) \/ RoomNoFile(c)
  <2>1. up = "open" /\ UNCHANGED <<memVars, bgVars, openVars, diskVars>>
    BY <1>2, EnqueueFrame DEF WaitFlushed, Flushed, RoomError, RoomThere, RoomWaits, RoomNoFile,
      Leads
  <2> QED
    BY <1>1, <2>1, FilesQuiet DEF memVars, bgVars, openVars, diskVars
<1>3. CASE SwitchMemTable(c)
  <2>1. /\ up = "open" /\ nextFile' = nextFile + 1 /\ ~hasImm
        /\ bg' = Scheduled(bg, TRUE, version, bgError)
        /\ UNCHANGED <<lastSequence, bgError, tables, manifests, version, pendingOutputs, openVars>>
    BY <1>3 DEF SwitchMemTable, Leads, MustWait
  <2>2. bg' = bg \/ Resting(bg')
    BY <2>1, EndIs
  <2>3. nextFile <= nextFile' /\ lastSequence <= lastSequence'
    BY <1>1, <2>1
  <2> QED
    BY <2>1, <2>2, <2>3, FilesQuiet
<1>4. CASE LogCalls(c)
  <2>1. /\ up = "open" /\ lastSequence' \in {lastSequence, SequenceAfterGroup}
        /\ bgError => bgError'
        /\ UNCHANGED <<nextFile, imm, hasImm, bg, tables, manifests, version, pendingOutputs,
                       openVars>>
    <3>1. CASE WriteLog(c)
      BY <3>1 DEF WriteLog, Writing, bgVars
    <3>5. CASE WriteLogFails(c)
      BY <3>5 DEF WriteLogFails, Writing, bgVars
    <3>2. CASE SyncLog(c)
      BY <3>2 DEF SyncLog, Writing, memVars, bgVars
    <3>3. CASE SyncLogFails(c)
      BY <3>3 DEF SyncLogFails, Writing, diskVars
    <3>4. CASE InsertInto(c)
      BY <3>4 DEF InsertInto, Writing, bgVars, diskVars
    <3> QED
      BY <1>4, <3>1, <3>2, <3>3, <3>4, <3>5 DEF LogCalls
  <2>2. nextFile <= nextFile' /\ lastSequence <= lastSequence'
    BY <1>1, <2>1 DEF SequenceAfterGroup
  <2> QED
    BY <2>1, <2>2, FilesQuiet
<1> QED
  BY <1>2, <1>3, <1>4 DEF Room

(* A flush begins: its table is one that no version has.                   *)
LEMMA StartFlushFiles ==
  ASSUME TypedInv, TypedInv', Idle, FilesInv, StartFlush
  PROVE  FilesInv'
<1>1. /\ bg.step \in {"merge", "scheduled"} /\ hasImm
      /\ bg' = [bg EXCEPT !.step = "build", !.file = nextFile]
      /\ nextFile' = nextFile + 1 /\ pendingOutputs' = pendingOutputs \cup {nextFile}
      /\ tables' = IF imm = {} THEN tables ELSE With(tables, nextFile, {})
      /\ UNCHANGED <<imm, hasImm, lastSequence, version, bgError, up, opening, manifests>>
  BY DEF StartFlush, openVars
<1>2. up = "open" /\ opening.made = {}
  BY BackgroundOpen DEF Background, Idle
<1>3. nextFile \in Nat /\ lastSequence \in Nat /\ bg \in Work /\ bg.into \in Nat /\ nextFile # 0
  BY <1>2 DEF TypedInv, MemoryTyped, Work, FilesInv, VersionsSound
<1>4. /\ bg'.step = "build" /\ bg'.file = nextFile /\ bg'.into = bg.into /\ bg'.from = bg.from
  BY <1>1, <1>3 DEF Work
<1>5. \A m \in Known : \A k \in LiveTables(m) : k \in DOMAIN tables /\ k < nextFile /\ k \in Nat
  <2>1. \A m \in Known : m.next \in Nat /\ m.next <= nextFile /\ LiveTables(m) \subseteq Nat
    BY <1>2, KnownTyped DEF FilesInv, VersionsSound, Manifest
  <2>2. \A m \in Known : \A k \in LiveTables(m) : k \in DOMAIN tables /\ k < m.next
    BY DEF FilesInv, VersionsSound, Sound, TablesOf
  <2> QED
    BY <1>3, <2>1, <2>2
<1>6. /\ \A k \in DOMAIN tables : k # nextFile => k \in DOMAIN tables' /\ tables'[k] = tables[k]
      /\ imm # {} => nextFile \in DOMAIN tables'
      /\ DOMAIN tables \subseteq DOMAIN tables'
  BY <1>1 DEF With
<1>7. VersionsSound'
  BY <1>1, <1>2, <1>3, <1>5, <1>6, VersionsKept DEF FilesInv
<1>8. Known' = Known
  BY <1>1 DEF Known
<1>9. FlushSound'
  <2>1. nextFile # bg.into
    <3>1. CASE bg.into = 0
      BY <1>3, <3>1
    <3>2. CASE bg.into # 0
      BY <1>3, <3>2 DEF FilesInv, MergeSound
    <3> QED
      BY <3>1, <3>2
  <2>2. \A m \in Known : nextFile \notin LiveTables(m)
    BY <1>3, <1>5
  <2> QED
    BY <1>1, <1>3, <1>4, <1>6, <1>8, <2>1, <2>2 DEF FlushSound
<1>10. MergeSound'
  BY <1>1, <1>3, <1>4, <1>6, <1>8 DEF FilesInv, MergeSound
<1>11. EditSound'
  BY <1>4 DEF EditSound
<1> QED
  BY <1>7, <1>9, <1>10, <1>11 DEF FilesInv

(* The table is complete, and its edit not yet applied.                    *)
LEMMA BuildTableFiles ==
  ASSUME TypedInv, TypedInv', Idle, MemorySound, FilesInv, BuildTable
  PROVE  FilesInv'
<1> DEFINE new == IF imm = {} THEN {} ELSE {bg.file}
           edit == Edit(logfileNumber, new, {}, {})
<1>1. /\ bg.step = "build"
      /\ tables' = IF imm = {} THEN tables ELSE [tables EXCEPT ![bg.file] = imm]
      /\ pendingOutputs' = pendingOutputs \ {bg.file}
      /\ bg' = [bg EXCEPT !.step = "apply", !.edit = edit]
      /\ UNCHANGED <<imm, hasImm, lastSequence, nextFile, version, bgError, up, opening, manifests>>
  BY DEF BuildTable, openVars, memVars
<1>2. up = "open" /\ opening.made = {}
  BY BackgroundOpen DEF Background, Idle
<1>3. nextFile \in Nat /\ lastSequence \in Nat /\ bg \in Work
  BY DEF TypedInv, MemoryTyped
<1>4. edit.l0 = new /\ edit.deep = {} /\ edit.dropped = {} /\ edit.next = nextFile
      /\ edit.seq = lastSequence
  BY DEF Edit
<1> HIDE DEF edit
<1>5. /\ bg'.step = "apply" /\ bg'.file = bg.file /\ bg'.into = bg.into /\ bg'.from = bg.from
      /\ bg'.edit = edit
  BY <1>1, <1>3 DEF Work
<1>6. /\ hasImm /\ bg.file # bg.into /\ bg.file < nextFile
      /\ \A m \in Known : bg.file \notin LiveTables(m)
      /\ imm # {} => bg.file \in DOMAIN tables
  BY <1>1 DEF FilesInv, FlushSound
<1>7. /\ DOMAIN tables' = DOMAIN tables
      /\ \A k \in DOMAIN tables : k # bg.file => tables'[k] = tables[k]
      /\ imm # {} => tables'[bg.file] = imm
  BY <1>1, <1>6
<1>8. VersionsSound'
  <2>1. \A m \in Known : \A k \in LiveTables(m) : k \in DOMAIN tables' /\ tables'[k] = tables[k]
    BY <1>6, <1>7 DEF FilesInv, VersionsSound, Sound, TablesOf
  <2> QED
    BY <1>1, <1>2, <1>3, <2>1, VersionsKept DEF FilesInv
<1>9. Known' = Known
  BY <1>1 DEF Known
<1>10. FlushSound'
  BY <1>1, <1>5, <1>6, <1>9 DEF FlushSound
<1>11. MergeSound'
  BY <1>1, <1>5, <1>6, <1>7, <1>9 DEF FilesInv, MergeSound
<1>12. EditSound'
  <2>1. \A k \in new : k \in DOMAIN tables' /\ k < nextFile
                      /\ \A e \in tables'[k] : e.seq <= lastSequence
    BY <1>6, <1>7 DEF MemorySound
  <2>2. \A m \in Known : m.next <= nextFile /\ m.seq <= lastSequence
    BY <1>2 DEF FilesInv, VersionsSound
  <2>3. \A k \in bg'.edit.l0 \cup bg'.edit.deep :
          k \in DOMAIN tables' /\ k < bg'.edit.next /\ \A e \in tables'[k] : e.seq <= bg'.edit.seq
    BY <1>4, <1>5, <2>1
  <2>4. new \subseteq {bg.file}
    OBVIOUS
  <2> HIDE DEF new
  <2> QED
    BY <1>1, <1>3, <1>4, <1>5, <1>9, <2>2, <2>3, <2>4 DEF EditSound, TablesOf
<1> QED
  BY <1>8, <1>10, <1>11, <1>12 DEF FilesInv

(* The flush or the merge fails before its edit.                           *)
LEMMA BuildFailsFiles ==
  ASSUME TypedInv, TypedInv', Idle, FilesInv, BuildTableFails \/ MergeFails
  PROVE  FilesInv'
<1>1. up = "open" /\ opening.made = {}
  BY BackgroundOpen DEF Background, Idle
<1>2. nextFile \in Nat /\ lastSequence \in Nat /\ bg \in Work
  BY DEF TypedInv, MemoryTyped
<1>3. bgError' /\ UNCHANGED <<imm, hasImm, lastSequence, nextFile, version, up, opening, manifests>>
  BY DEF BuildTableFails, MergeFails, openVars, memVars, diskVars
<1>4. Known' = Known
  BY <1>3 DEF Known
<1>5. CASE BuildTableFails
  <2>1. /\ bg.step = "build" /\ tables' = Without(tables, {bg.file})
        /\ pendingOutputs' = pendingOutputs \ {bg.file} /\ EndFlush(hasImm, version, TRUE)
    BY <1>5 DEF BuildTableFails
  <2>2. bg.file # bg.into /\ \A m \in Known : bg.file \notin LiveTables(m)
    BY <2>1 DEF FilesInv, FlushSound
  <2>3. \A k \in DOMAIN tables : k # bg.file => k \in DOMAIN tables' /\ tables'[k] = tables[k]
    BY <2>1 DEF Without
  <2>4. VersionsSound'
    <3>1. \A m \in Known : \A k \in LiveTables(m) : k \in DOMAIN tables' /\ tables'[k] = tables[k]
      BY <2>2, <2>3 DEF FilesInv, VersionsSound, Sound, TablesOf
    <3> QED
      BY <1>1, <1>2, <1>3, <3>1, VersionsKept DEF FilesInv
  <2>5. CASE Resting(bg')
    BY <2>4, <2>5, RestingSound DEF FilesInv
  <2>6. CASE bg.into # 0 /\ bg' = [bg EXCEPT !.step = "merge", !.file = 0, !.edit = NoEdit]
    <3>1. bg'.step = "merge" /\ bg'.into = bg.into /\ bg'.from = bg.from
      BY <1>2, <2>6 DEF Work
    <3>2. MergeSound'
      BY <1>3, <1>4, <2>1, <2>2, <2>3, <2>6, <3>1 DEF FilesInv, MergeSound
    <3>3. FlushSound' /\ EditSound'
      BY <3>1 DEF FlushSound, EditSound
    <3> QED
      BY <2>4, <3>2, <3>3 DEF FilesInv
  <2> QED
    BY <2>1, <2>5, <2>6, EndIs
<1>6. CASE MergeFails
  <2>1. tables' = tables /\ EndWork(hasImm, version, TRUE)
    BY <1>6 DEF MergeFails, diskVars
  <2>2. VersionsSound'
    <3>1. \A m \in Known : \A k \in LiveTables(m) : k \in DOMAIN tables' /\ tables'[k] = tables[k]
      BY <2>1 DEF FilesInv, VersionsSound, Sound, TablesOf
    <3> QED
      BY <1>1, <1>2, <1>3, <3>1, VersionsKept DEF FilesInv
  <2> QED
    BY <2>1, <2>2, EndIs, RestingSound DEF FilesInv
<1> QED
  BY <1>5, <1>6

(* A merge begins, from the version's tables into a new one.               *)
LEMMA StartMergeFiles ==
  ASSUME TypedInv, TypedInv', Idle, FilesInv, StartMerge
  PROVE  FilesInv'
<1>1. /\ bg.step = "scheduled"
      /\ bg' = [bg EXCEPT !.step = "merge", !.into = nextFile, !.from = LiveTables(version)]
      /\ nextFile' = nextFile + 1 /\ pendingOutputs' = pendingOutputs \cup {nextFile}
      /\ tables' = With(tables, nextFile, {})
      /\ UNCHANGED <<imm, hasImm, lastSequence, version, bgError, up, opening, manifests>>
  BY DEF StartMerge, openVars
<1>2. up = "open" /\ opening.made = {}
  BY BackgroundOpen DEF Background, Idle
<1>3. nextFile \in Nat /\ lastSequence \in Nat /\ bg \in Work /\ nextFile # 0
  BY <1>2 DEF TypedInv, MemoryTyped, FilesInv, VersionsSound
<1>4. bg'.step = "merge" /\ bg'.into = nextFile /\ bg'.from = LiveTables(version)
  BY <1>1, <1>3 DEF Work
<1>5. \A m \in Known : \A k \in LiveTables(m) : k \in DOMAIN tables /\ k < nextFile /\ k \in Nat
  <2>1. \A m \in Known : m.next \in Nat /\ m.next <= nextFile /\ LiveTables(m) \subseteq Nat
    BY <1>2, KnownTyped DEF FilesInv, VersionsSound, Manifest
  <2>2. \A m \in Known : \A k \in LiveTables(m) : k \in DOMAIN tables /\ k < m.next
    BY DEF FilesInv, VersionsSound, Sound, TablesOf
  <2> QED
    BY <1>3, <2>1, <2>2
<1>6. /\ \A k \in DOMAIN tables : k # nextFile => k \in DOMAIN tables' /\ tables'[k] = tables[k]
      /\ nextFile \in DOMAIN tables'
  BY <1>1 DEF With
<1>7. VersionsSound'
  BY <1>1, <1>2, <1>3, <1>5, <1>6, VersionsKept DEF FilesInv
<1>8. Known' = Known
  BY <1>1 DEF Known
<1>9. MergeSound'
  <2>1. \A m \in Known : nextFile \notin LiveTables(m)
    BY <1>3, <1>5
  <2> QED
    BY <1>1, <1>3, <1>4, <1>6, <1>8, <2>1 DEF MergeSound
<1>10. FlushSound' /\ EditSound'
  BY <1>4 DEF FlushSound, EditSound
<1> QED
  BY <1>7, <1>9, <1>10 DEF FilesInv

(* The merged table is complete.                                           *)
LEMMA MergeTablesFiles ==
  ASSUME TypedInv, TypedInv', Idle, FilesInv, MergeTables
  PROVE  FilesInv'
<1> DEFINE edit == Edit(version.log, {}, {bg.into}, bg.from)
           merged == UNION {tables[n] : n \in bg.from}
<1>1. /\ bg.step = "merge"
      /\ tables' = [tables EXCEPT ![bg.into] = merged]
      /\ bg' = [bg EXCEPT !.step = "install", !.edit = edit]
      /\ UNCHANGED <<imm, hasImm, lastSequence, nextFile, pendingOutputs, version, bgError, up,
                     opening, manifests>>
  BY DEF MergeTables, openVars, memVars
<1>2. up = "open" /\ opening.made = {}
  BY BackgroundOpen DEF Background, Idle
<1>3. nextFile \in Nat /\ lastSequence \in Nat /\ bg \in Work
  BY DEF TypedInv, MemoryTyped
<1>4. edit.l0 = {} /\ edit.deep = {bg.into} /\ edit.dropped = bg.from /\ edit.next = nextFile
      /\ edit.seq = lastSequence
  BY DEF Edit
<1> HIDE DEF edit
<1>5. bg'.step = "install" /\ bg'.into = bg.into /\ bg'.from = bg.from /\ bg'.edit = edit
  BY <1>1, <1>3 DEF Work
<1>6. /\ bg.into # 0 /\ bg.into \in DOMAIN tables /\ bg.into \in pendingOutputs
      /\ bg.into < nextFile
      /\ \A m \in Known : bg.into \notin LiveTables(m)
      /\ bg.from \subseteq LiveTables(version)
  BY <1>1 DEF FilesInv, MergeSound
<1>7. \A e \in merged : e.seq <= lastSequence
  <2> SUFFICES ASSUME NEW n \in bg.from, NEW e \in tables[n] PROVE e.seq <= lastSequence
    OBVIOUS
  <2>1. n \in LiveTables(version) /\ version \in Known
    BY <1>6, KnownTyped
  <2>2. n \in DOMAIN tables /\ e.seq <= version.seq /\ version.seq <= lastSequence
    BY <1>2, <2>1 DEF FilesInv, VersionsSound, Sound, TablesOf
  <2>3. e.seq \in Nat /\ version.seq \in Nat
    BY <2>1, <2>2, KnownTyped DEF Manifest
  <2> QED
    BY <1>3, <2>2, <2>3
<1> HIDE DEF merged
<1>8. /\ DOMAIN tables' = DOMAIN tables /\ tables'[bg.into] = merged
      /\ \A k \in DOMAIN tables : k # bg.into => tables'[k] = tables[k]
  BY <1>1, <1>6
<1>9. VersionsSound'
  <2>1. \A m \in Known : \A k \in LiveTables(m) : k \in DOMAIN tables' /\ tables'[k] = tables[k]
    BY <1>6, <1>8 DEF FilesInv, VersionsSound, Sound, TablesOf
  <2> QED
    BY <1>1, <1>2, <1>3, <2>1, VersionsKept DEF FilesInv
<1>10. Known' = Known
  BY <1>1 DEF Known
<1>11. MergeSound'
  BY <1>1, <1>5, <1>6, <1>8, <1>10 DEF MergeSound
<1>12. FlushSound'
  BY <1>5 DEF FlushSound
<1>13. EditSound'
  <2>1. \A m \in Known : m.next <= nextFile /\ m.seq <= lastSequence
    BY <1>2 DEF FilesInv, VersionsSound
  <2>2. \A k \in bg'.edit.l0 \cup bg'.edit.deep :
          k \in DOMAIN tables' /\ k < bg'.edit.next /\ \A e \in tables'[k] : e.seq <= bg'.edit.seq
    BY <1>4, <1>5, <1>6, <1>7, <1>8
  <2> QED
    BY <1>1, <1>3, <1>4, <1>5, <1>10, <2>1, <2>2 DEF EditSound, TablesOf
<1> QED
  BY <1>9, <1>11, <1>12, <1>13 DEF FilesInv

(* A version after an edit.                                                *)
LEMMA EditedSound ==
  ASSUME NEW m, NEW e,
         m.next \in Nat, m.seq \in Nat, e.next \in Nat, e.seq \in Nat,
         LiveTables(m) \subseteq Nat, \A k \in DOMAIN tables : \A f \in tables[k] : f.seq \in Nat,
         Sound(m), m.next <= e.next, m.seq <= e.seq,
         \A k \in e.l0 \cup e.deep : TablesOf(k, e.next, e.seq)
  PROVE  /\ Sound(Edited(m, e))
         /\ LiveTables(Edited(m, e)) = (LiveTables(m) \ e.dropped) \cup e.l0 \cup e.deep
         /\ Edited(m, e).next = e.next /\ Edited(m, e).seq = e.seq
<1> DEFINE after == Edited(m, e)
<1>1. /\ LiveTables(after) = (LiveTables(m) \ e.dropped) \cup e.l0 \cup e.deep
      /\ after.next = e.next /\ after.seq = e.seq
  BY DEF Edited, LiveTables
<1> HIDE DEF after
<1>2. \A k \in LiveTables(m) : TablesOf(k, e.next, e.seq)
  BY DEF Sound, TablesOf
<1> QED
  BY <1>1, <1>2 DEF Sound, after

(* What is known of the versions when the edit under way is applied.       *)
LEMMA ApplySound ==
  ASSUME TypedInv, Idle, FilesInv, bg.step \in {"apply", "install"}
  PROVE  /\ \A m \in Known :
              /\ Sound(Edited(m, bg.edit))
              /\ LiveTables(Edited(m, bg.edit))
                   = (LiveTables(m) \ bg.edit.dropped) \cup bg.edit.l0 \cup bg.edit.deep
              /\ Edited(m, bg.edit).next = bg.edit.next /\ Edited(m, bg.edit).seq = bg.edit.seq
         /\ bg.edit.next <= nextFile /\ bg.edit.seq <= lastSequence
         /\ up = "open" /\ opening.made = {} /\ 0 < nextFile
<1>1. bg.edit.next \in Nat /\ bg.edit.seq \in Nat
  BY DEF TypedInv, MemoryTyped, Work, EditType
<1>2. up = "open" /\ opening.made = {} /\ 0 < nextFile
  BY DEF Idle, NoWork, FilesInv, VersionsSound
<1>3. ASSUME NEW m \in Known
      PROVE  /\ Sound(Edited(m, bg.edit))
             /\ LiveTables(Edited(m, bg.edit))
                  = (LiveTables(m) \ bg.edit.dropped) \cup bg.edit.l0 \cup bg.edit.deep
             /\ Edited(m, bg.edit).next = bg.edit.next /\ Edited(m, bg.edit).seq = bg.edit.seq
  <2>1. m.next \in Nat /\ m.seq \in Nat /\ LiveTables(m) \subseteq Nat
        /\ \A k \in DOMAIN tables : \A f \in tables[k] : f.seq \in Nat
    BY KnownTyped DEF Manifest
  <2>2. Sound(m) /\ m.next <= bg.edit.next /\ m.seq <= bg.edit.seq
        /\ \A k \in bg.edit.l0 \cup bg.edit.deep : TablesOf(k, bg.edit.next, bg.edit.seq)
    BY DEF FilesInv, VersionsSound, EditSound
  <2> QED
    BY <1>1, <2>1, <2>2, EditedSound
<1> QED
  BY <1>2, <1>3 DEF FilesInv, EditSound

(* An edit that the manifest could not be given for sure.                  *)
LEMMA ApplyFailsFiles ==
  ASSUME TypedInv, TypedInv', Idle, FilesInv, FlushFails \/ InstallMergeFails
  PROVE  FilesInv'
<1>1. /\ bg.step \in {"apply", "install"} /\ manifests' = Append(manifests, Latest(bg.edit))
      /\ bgError'
      /\ UNCHANGED <<lastSequence, nextFile, version, up, opening, tables>>
  BY DEF FlushFails, InstallMergeFails, ManifestFails, openVars, memVars
<1>2. bg \in Work
  BY DEF TypedInv, MemoryTyped
<1>3. Known' = Known \cup {Latest(bg.edit)}
  <2>1. Latest(bg.edit) \in Manifest
    BY <1>2, LatestTyped DEF TypedInv, Work
  <2> QED
    BY <1>1, <2>1, AppendedManifest DEF Known, TypedInv
<1>4. /\ Sound(Latest(bg.edit))
      /\ LiveTables(Latest(bg.edit)) \subseteq
           LiveTables(Last(manifests)) \cup bg.edit.l0 \cup bg.edit.deep
      /\ Latest(bg.edit).next <= nextFile /\ Latest(bg.edit).seq <= lastSequence
      /\ up = "open" /\ opening.made = {} /\ 0 < nextFile
  BY <1>1, ApplySound, KnownTyped DEF Latest
<1>5. VersionsSound'
  <2>1. \A m \in Known' : Sound(m)'
    BY <1>1, <1>3, <1>4 DEF FilesInv, VersionsSound, Sound, TablesOf
  <2>2. \A m \in Known' : m.next <= nextFile /\ m.seq <= lastSequence
    BY <1>3, <1>4 DEF FilesInv, VersionsSound
  <2> QED
    BY <1>1, <1>4, <2>1, <2>2 DEF VersionsSound
<1>6. CASE Resting(bg')
  BY <1>5, <1>6, RestingSound DEF FilesInv
<1>7. CASE FlushFails /\ bg.into # 0 /\ bg' = [bg EXCEPT !.step = "merge", !.file = 0, !.edit = NoEdit]
  <2>1. bg'.step = "merge" /\ bg'.into = bg.into /\ bg'.from = bg.from
    BY <1>2, <1>7 DEF Work
  <2>2. bg.step = "apply" /\ pendingOutputs' = pendingOutputs
    BY <1>7 DEF FlushFails
  <2>3. bg.into \notin LiveTables(Latest(bg.edit))
    BY <1>4, <1>7, <2>2, KnownTyped DEF FilesInv, EditSound, FlushSound, MergeSound
  <2>4. MergeSound'
    BY <1>1, <1>3, <1>7, <2>1, <2>2, <2>3 DEF FilesInv, MergeSound
  <2>5. FlushSound' /\ EditSound'
    BY <2>1 DEF FlushSound, EditSound
  <2> QED
    BY <1>5, <2>4, <2>5 DEF FilesInv
<1> QED
  BY <1>6, <1>7, EndIs DEF FlushFails, InstallMergeFails

(* An edit that is applied; what no version needs is deleted.              *)
LEMMA ApplyFiles ==
  ASSUME TypedInv, TypedInv', Idle, FilesInv, FlushDone \/ InstallMerge
  PROVE  FilesInv'
<1>1. /\ bg.step \in {"apply", "install"}
      /\ version' = Edited(version, bg.edit) /\ manifests' = <<Latest(bg.edit)>>
      /\ DeleteObsoleteFiles(version', pendingOutputs')
      /\ UNCHANGED <<lastSequence, nextFile, bgError, up, opening>>
  BY DEF FlushDone, InstallMerge, openVars, memVars
<1>2. bg \in Work
  BY DEF TypedInv, MemoryTyped
<1>3. Known' = {Latest(bg.edit), version'}
  BY <1>1 DEF Known, ToSet
<1>4. /\ version \in Known /\ Last(manifests) \in Known
      /\ up = "open" /\ opening.made = {} /\ 0 < nextFile
      /\ ~bgError => Last(manifests) = version
  <2>1. ~bgError /\ up = "open" => manifests = <<version>>
    BY DEF FilesInv, VersionsSound
  <2>2. manifests = <<version>> => Last(manifests) = version
    BY DEF Last
  <2>3. version \in Known /\ Last(manifests) \in Known
    BY KnownTyped
  <2>4. up = "open" /\ opening.made = {} /\ 0 < nextFile
    BY <1>1, ApplySound
  <2> QED
    BY <2>1, <2>2, <2>3, <2>4
<1>5. \A m \in Known' :
        /\ Sound(m) /\ m.next = bg.edit.next /\ m.seq = bg.edit.seq
        /\ \E v \in Known :
             LiveTables(m) = (LiveTables(v) \ bg.edit.dropped) \cup bg.edit.l0 \cup bg.edit.deep
  BY <1>1, <1>3, <1>4, ApplySound DEF Latest
<1>6. LiveTables(version') = (LiveTables(version) \ bg.edit.dropped) \cup bg.edit.l0 \cup bg.edit.deep
  BY <1>1, <1>4, ApplySound
<1>7. /\ \A k \in DOMAIN tables :
           k \in LiveTables(version') \cup pendingOutputs' \/ bgError => k \in DOMAIN tables'
      /\ \A k \in DOMAIN tables' : tables'[k] = tables[k]
  BY <1>1, DeleteTyped
<1>8. \A m \in Known' : \A k \in LiveTables(m) : k \in DOMAIN tables' /\ tables'[k] = tables[k]
  <2>1. ~bgError => \A m \in Known' : m = version'
    BY <1>1, <1>3, <1>4 DEF Latest
  <2>2. \A m \in Known' : \A k \in LiveTables(m) : k \in DOMAIN tables
    BY <1>5 DEF Sound, TablesOf
  <2> QED
    BY <1>7, <2>1, <2>2
<1>9. VersionsSound'
  <2>1. \A m \in Known' : Sound(m)'
    BY <1>5, <1>8 DEF Sound, TablesOf
  <2>2. \A m \in Known' : m.next <= nextFile /\ m.seq <= lastSequence
    BY <1>1, <1>5, ApplySound
  <2>3. ~bgError => manifests' = <<version'>>
    BY <1>1, <1>4 DEF Latest
  <2> QED
    BY <1>1, <1>4, <2>1, <2>2, <2>3 DEF VersionsSound
<1>10. CASE Resting(bg')
  BY <1>9, <1>10, RestingSound DEF FilesInv
<1>11. CASE FlushDone /\ bg.into # 0 /\ bg' = [bg EXCEPT !.step = "merge", !.file = 0, !.edit = NoEdit]
  <2>1. bg'.step = "merge" /\ bg'.into = bg.into /\ bg'.from = bg.from
    BY <1>2, <1>11 DEF Work
  <2>2. bg.step = "apply" /\ pendingOutputs' = pendingOutputs
    BY <1>11 DEF FlushDone
  <2>3. bg.edit.l0 \subseteq {bg.file} /\ bg.edit.deep = {} /\ bg.edit.dropped = {}
        /\ bg.file # bg.into
    BY <2>2 DEF FilesInv, EditSound, FlushSound
  <2>4. /\ bg.into \in DOMAIN tables /\ bg.into \in pendingOutputs /\ bg.into < nextFile
        /\ \A m \in Known : bg.into \notin LiveTables(m)
        /\ bg.from \subseteq LiveTables(version)
    BY <1>11 DEF FilesInv, MergeSound
  <2>5. \A m \in Known' : bg.into \notin LiveTables(m)
    BY <1>5, <2>3, <2>4
  <2>6. bg.from \subseteq LiveTables(version')
    BY <1>6, <2>3, <2>4
  <2>7. bg.into \in DOMAIN tables'
    BY <1>7, <2>2, <2>4
  <2>8. MergeSound'
    BY <1>1, <1>11, <2>1, <2>2, <2>4, <2>5, <2>6, <2>7 DEF MergeSound
  <2>9. FlushSound' /\ EditSound'
    BY <2>1 DEF FlushSound, EditSound
  <2> QED
    BY <1>9, <2>8, <2>9 DEF FilesInv
<1> QED
  BY <1>10, <1>11, EndIs DEF FlushDone, InstallMerge

(* Open: the manifest's version, then the tables made from logs.           *)
LEMMA OpenFiles ==
  ASSUME TypedInv, TypedInv', Idle, FilesInv, Recover \/ ReplayLog \/ CreateLog \/ CommitOpen
  PROVE  FilesInv'
<1>1. bg = NoWork /\ ~bgError /\ Resting(bg)
  BY DEF Recover, ReplayLog, CreateLog, CommitOpen, Idle, Resting
<1>2. /\ nextFile \in Nat /\ nextFile' \in Nat /\ lastSequence \in Nat /\ lastSequence' \in Nat
      /\ logfileNumber \in Nat
  BY DEF TypedInv, MemoryTyped
<1>3. /\ \A m \in Known : m.next \in Nat /\ m.seq \in Nat /\ LiveTables(m) \subseteq Nat
      /\ version \in Known
      /\ \A k \in DOMAIN tables : \A e \in tables[k] : e.seq \in Nat
  BY KnownTyped DEF Manifest
<1>4. CASE Recover
  <2>1. PICK m \in ToSet(manifests) :
          /\ manifests' = <<m>> /\ version' = m /\ lastSequence' = m.seq
          /\ nextFile' = Max({m.next, m.log}) + 1
          /\ opening' = [left |-> {n \in DOMAIN logs : n >= m.log}, made |-> {}]
    BY <1>4 DEF Recover
  <2>2. up' = "replay" /\ UNCHANGED <<bg, tables>>
    BY <1>4 DEF Recover
  <2>3. m \in Known /\ m \in Manifest
    BY KnownTyped DEF Known
  <2>4. Known' = {m}
    BY <2>1 DEF Known, ToSet
  <2>5. m.next < nextFile'
    <3>1. Max({m.next, m.log}) \in Nat /\ m.next <= Max({m.next, m.log})
      BY <2>3, NextFile
    <3> QED
      BY <1>3, <2>1, <2>3, <3>1
  <2>6. Sound(m)'
    BY <2>2, <2>3 DEF FilesInv, VersionsSound, Sound, TablesOf
  <2>7. 0 < nextFile' /\ m.next <= nextFile' /\ m.seq <= lastSequence'
    BY <1>2, <1>3, <2>1, <2>3, <2>5
  <2>8. opening'.made = {}
    BY <2>1
  <2>9. VersionsSound'
    BY <2>1, <2>2, <2>4, <2>6, <2>7, <2>8 DEF VersionsSound
  <2> QED
    BY <1>1, <2>2, <2>9, RestingSound DEF FilesInv
<1>5. CASE ReplayLog
  <2> DEFINE n == Min(opening.left)
             found == Replayed(n)
             last == Max({lastSequence} \cup {e.seq : e \in found})
             next == IF found = {} THEN nextFile ELSE nextFile + 1
             new == IF found = {} THEN {} ELSE {nextFile}
  <2>1. /\ opening.left # {} /\ lastSequence' = last
        /\ nextFile' = MarkFileNumberUsed(n, next)
        /\ tables' = IF found = {} THEN tables ELSE With(tables, nextFile, found)
        /\ opening' = [left |-> opening.left \ {n}, made |-> opening.made \cup new]
        /\ up = "replay" /\ UNCHANGED <<version, bgError, bg, up, manifests>>
    BY <1>5 DEF ReplayLog, bgVars
  <2>2. n \in opening.left /\ n \in Nat
    <3>1. opening.left \subseteq Nat
      BY DEF TypedInv, MemoryTyped
    <3> QED
      BY <2>1, <3>1, MinOf
  <2>3. n \in DOMAIN logs
    BY <2>2 DEF TypedInv, DiskTyped
  <2> HIDE DEF n
  <2>4. found \subseteq Entry /\ last \in Nat /\ lastSequence <= last
        /\ \A e \in found : e.seq <= last
    BY <2>3, ReplayedTyped DEF TypedInv
  <2> HIDE DEF found, last
  <2>5. nextFile <= nextFile' /\ (found # {} => nextFile < nextFile')
    BY <1>2, <2>1, <2>2 DEF MarkFileNumberUsed
  <2>6. Known' = Known
    BY <2>1 DEF Known
  <2>7. /\ \A k \in DOMAIN tables : k # nextFile => k \in DOMAIN tables' /\ tables'[k] = tables[k]
        /\ found # {} => nextFile \in DOMAIN tables' /\ tables'[nextFile] = found
    BY <2>1 DEF With
  <2>8. \A m \in Known : /\ Sound(m) /\ m.next <= nextFile /\ m.seq <= lastSequence /\ 0 < nextFile
    BY <2>1 DEF FilesInv, VersionsSound
  <2>9. \A m \in Known : Sound(m)'
    <3>1. \A m \in Known : \A k \in LiveTables(m) : k \in Nat /\ k < m.next
      BY <1>3, <2>8 DEF Sound, TablesOf
    <3>2. \A m \in Known : \A k \in LiveTables(m) : k # nextFile
      BY <1>2, <1>3, <2>8, <3>1
    <3> QED
      BY <2>7, <2>8, <3>2 DEF Sound, TablesOf
  <2>10. \A m \in Known : m.next <= nextFile' /\ m.seq <= lastSequence' /\ 0 < nextFile'
    BY <1>2, <1>3, <2>1, <2>4, <2>5, <2>8
  <2>11. \A k \in opening'.made : TablesOf(k, nextFile, lastSequence)'
    <3> SUFFICES ASSUME NEW k \in opening'.made
                 PROVE  k \in DOMAIN tables' /\ k < nextFile'
                        /\ \A e \in tables'[k] : e.seq <= lastSequence'
      BY DEF TablesOf
    <3>1. CASE k \in opening.made
      <4>1. k \in DOMAIN tables /\ k < nextFile /\ \A e \in tables[k] : e.seq <= lastSequence
        BY <3>1 DEF FilesInv, VersionsSound, TablesOf
      <4>2. k \in Nat
        BY <4>1 DEF TypedInv, DiskTyped
      <4>3. k \in DOMAIN tables' /\ tables'[k] = tables[k] /\ k < nextFile'
        BY <1>2, <2>5, <2>7, <4>1, <4>2
      <4> QED
        BY <1>2, <1>3, <2>1, <2>4, <4>1, <4>3
    <3>2. CASE k = nextFile /\ found # {}
      BY <2>1, <2>4, <2>5, <2>7, <3>2
    <3> QED
      BY <2>1, <3>1, <3>2
  <2>12. VersionsSound'
    BY <1>3, <2>1, <2>6, <2>9, <2>10, <2>11 DEF FilesInv, VersionsSound
  <2> QED
    BY <1>1, <2>1, <2>12, RestingSound DEF FilesInv
<1>6. CASE CreateLog
  <2>1. /\ nextFile' = nextFile + 1 /\ up = "replay" /\ up' = "commit"
        /\ UNCHANGED <<lastSequence, version, bg, opening, tables, manifests>>
    BY <1>6 DEF CreateLog, bgVars
  <2>2. Known' = Known
    BY <2>1 DEF Known
  <2>3. \A m \in Known : Sound(m)'
    BY <2>1 DEF FilesInv, VersionsSound, Sound, TablesOf
  <2>4. 0 < nextFile' /\ \A m \in Known : m.next <= nextFile' /\ m.seq <= lastSequence'
    BY <1>2, <1>3, <2>1 DEF FilesInv, VersionsSound
  <2>5. \A k \in opening'.made : TablesOf(k, nextFile, lastSequence)'
    <3>1. \A k \in opening.made : k \in DOMAIN tables /\ k < nextFile
                                  /\ \A e \in tables[k] : e.seq <= lastSequence
      BY DEF FilesInv, VersionsSound, TablesOf
    <3>2. \A k \in DOMAIN tables : k \in Nat
      BY DEF TypedInv, DiskTyped
    <3>3. \A k \in opening.made : k < nextFile + 1
      BY <1>2, <3>1, <3>2
    <3> QED
      BY <2>1, <3>1, <3>3 DEF TablesOf
  <2>6. manifests' = <<version'>>
    BY <2>1 DEF FilesInv, VersionsSound
  <2>7. VersionsSound'
    BY <2>1, <2>2, <2>3, <2>4, <2>5, <2>6 DEF VersionsSound
  <2> QED
    BY <1>1, <2>1, <2>7, RestingSound DEF FilesInv
<1>7. CASE CommitOpen
  <2> DEFINE edit == Edit(logfileNumber, opening.made, {}, {})
  <2>1. /\ version' = Edited(version, edit) /\ manifests' = <<version'>>
        /\ DeleteObsoleteFiles(version', {})
        /\ bg' = Scheduled(bg, FALSE, version', bgError)
        /\ up = "commit" /\ up' = "open" /\ opening' = [left |-> {}, made |-> {}]
        /\ UNCHANGED <<lastSequence, nextFile, bgError>>
    BY <1>7 DEF CommitOpen, memVars
  <2>2. edit.l0 = opening.made /\ edit.deep = {} /\ edit.dropped = {} /\ edit.next = nextFile
        /\ edit.seq = lastSequence
    BY DEF Edit
  <2> HIDE DEF edit
  <2>3. Sound(version) /\ version.next <= nextFile /\ version.seq <= lastSequence /\ 0 < nextFile
    BY <1>3, <2>1 DEF FilesInv, VersionsSound
  <2>4. \A k \in edit.l0 \cup edit.deep : TablesOf(k, edit.next, edit.seq)
    BY <2>2 DEF FilesInv, VersionsSound
  <2> DEFINE new == Edited(version, edit)
  <2>5. Sound(new) /\ new.next = nextFile /\ new.seq = lastSequence
    BY <1>2, <1>3, <2>2, <2>3, <2>4, EditedSound
  <2> HIDE DEF new
  <2>6. version' = new
    BY <2>1 DEF new
  <2>7. Known' = {version'}
    BY <2>1 DEF Known, ToSet
  <2>8. /\ \A k \in DOMAIN tables : k \in LiveTables(version') => k \in DOMAIN tables'
        /\ \A k \in DOMAIN tables' : tables'[k] = tables[k]
    BY <2>1, DeleteTyped
  <2>9. /\ \A k \in LiveTables(version') :
             /\ k \in DOMAIN tables' /\ k < version'.next
             /\ \A e \in tables'[k] : e.seq <= version'.seq
        /\ 0 < nextFile' /\ version'.next <= nextFile' /\ version'.seq <= lastSequence'
    BY <1>2, <2>1, <2>3, <2>5, <2>6, <2>8 DEF Sound, TablesOf
  <2>10. VersionsSound'
    <3>1. opening'.made = {}
      BY <2>1
    <3> QED
      BY <2>1, <2>7, <2>9, <3>1 DEF VersionsSound, Sound, TablesOf
  <2>11. Resting(bg')
    BY <1>1, <2>1, EndIs
  <2> QED
    BY <2>10, <2>11, RestingSound DEF FilesInv
<1> QED
  BY <1>4, <1>5, <1>6, <1>7

(* What is left on the disk when the process or the machine dies.          *)
LEMMA DownFiles ==
  ASSUME TypedInv, TypedInv', Idle, FilesInv, OpenFails \/ Kill \/ PowerLoss
  PROVE  FilesInv'
<1>1. Down /\ tables' = tables
  BY DEF OpenFails, Kill, PowerLoss, diskVars
<1>2. up' = "closed" /\ version' = NewManifest /\ bg' = NoWork /\ opening'.made = {}
  BY <1>1 DEF Down
<1>3. \A m \in ToSet(manifests') : Sound(m)
  <2>1. CASE manifests' = manifests
    BY <2>1 DEF FilesInv, VersionsSound, Known
  <2>2. CASE manifests' = ManifestsLeft
    <3>1. bg.step \in {"apply", "install"} => Sound(Latest(bg.edit))
      BY ApplySound, KnownTyped DEF Latest
    <3> QED
      BY <2>2, <3>1, ManifestsLeftTyped DEF TypedInv, FilesInv, VersionsSound, Known
  <2> QED
    BY <2>1, <2>2 DEF OpenFails, Kill, PowerLoss, diskVars
<1>4. Sound(NewManifest)
  BY DEF Sound, NewManifest, LiveTables
<1>5. \A m \in Known' : Sound(m)'
  BY <1>1, <1>2, <1>3, <1>4 DEF Known, Sound, TablesOf
<1>6. VersionsSound'
  BY <1>2, <1>5 DEF VersionsSound
<1>7. Resting(bg')
  BY <1>2 DEF Resting
<1> QED
  BY <1>6, <1>7, RestingSound DEF FilesInv

(* Every step keeps the tables of the known versions.                      *)
LEMMA FilesNext ==
  ASSUME TypedInv, TypedInv', Idle, CallsTyped, MemorySound, FilesInv, [Next]_vars
  PROVE  FilesInv'
<1>1. ASSUME NEW c \in Clients,
             \/ Write(c) \/ CompactMemTableNow(c) \/ WaitFlushed(c) \/ Flushed(c)
             \/ Room(c) \/ LogCalls(c)
      PROVE  FilesInv'
  BY <1>1, CallsFiles
<1>2. nextFile \in Nat /\ lastSequence \in Nat
  BY DEF TypedInv, MemoryTyped
<1>3. CASE NothingToDo
  <2>1. EndWork(hasImm, version, bgError) /\ up = "open"
        /\ UNCHANGED <<memVars, pendingOutputs, version, bgError, openVars, diskVars>>
    BY <1>3, BackgroundOpen DEF NothingToDo, Background
  <2>2. Resting(bg')
    BY <2>1, EndIs
  <2> QED
    BY <1>2, <2>1, <2>2, FilesQuiet DEF memVars, diskVars
<1>4. CASE Background
  BY <1>3, <1>4, StartFlushFiles, BuildTableFiles, BuildFailsFiles, StartMergeFiles,
    MergeTablesFiles, ApplyFailsFiles, ApplyFiles DEF Background
<1>5. CASE Recover \/ ReplayLog \/ CreateLog \/ CommitOpen
  BY <1>5, OpenFiles
<1>6. CASE OpenFails \/ Kill \/ PowerLoss
  BY <1>6, DownFiles
<1>7. CASE UNCHANGED vars
  <2>1. FilesInv' <=> FilesInv
    BY <1>7 DEF vars, memVars, bgVars, openVars, diskVars, FilesInv, VersionsSound, FlushSound,
      MergeSound, EditSound, Known, Sound, TablesOf
  <2> QED
    BY <2>1
<1> QED
  BY <1>1, <1>4, <1>5, <1>6, <1>7 DEF Next, OpenSteps

-----------------------------------------------------------------------------
(* What was acknowledged, and the faults.                                  *)

LEMMA BatchesTyped ==
  ASSUME NEW entries, entries \subseteq Entry
  PROVE  BatchesOf(entries) \subseteq Batches
BY DEF BatchesOf, Entry

(* Every step keeps what is known of faults.                               *)
LEMMA FaultsNext ==
  ASSUME faults \in [errors : 0..MaxErrors, crashes : 0..MaxCrashes]
  PROVE  \A kind : Fails(kind) \/ Crashes(kind) =>
           faults' \in [errors : 0..MaxErrors, crashes : 0..MaxCrashes]
<1> SUFFICES ASSUME NEW kind, Fails(kind) \/ Crashes(kind)
             PROVE  faults' \in [errors : 0..MaxErrors, crashes : 0..MaxCrashes]
  OBVIOUS
<1>1. CASE Fails(kind)
  <2>1. faults.errors + 1 \in 0..MaxErrors /\ faults' = [faults EXCEPT !.errors = faults.errors + 1]
    BY <1>1, StoreAssumption DEF Fails
  <2> QED
    BY <2>1
<1>2. CASE Crashes(kind)
  <2>1. faults.crashes + 1 \in 0..MaxCrashes
        /\ faults' = [faults EXCEPT !.crashes = faults.crashes + 1]
    BY <1>2, StoreAssumption DEF Crashes
  <2> QED
    BY <2>1
<1> QED
  BY <1>1, <1>2

(* Every step keeps what is known of the history.                          *)
LEMMA HistoryNext ==
  ASSUME TypedInv, CallsTyped, FilesInv, History, [Next]_vars
  PROVE  History'
<1>1. /\ faults \in [errors : 0..MaxErrors, crashes : 0..MaxCrashes]
      /\ acked \subseteq Batches /\ kept \subseteq acked /\ safe \subseteq kept
  BY DEF History
<1>2. \A kind : Fails(kind) \/ Crashes(kind) =>
        faults' \in [errors : 0..MaxErrors, crashes : 0..MaxCrashes]
  BY <1>1, FaultsNext
<1>3. ASSUME UNCHANGED faults \/ \E kind : Fails(kind) \/ Crashes(kind),
             acked' \subseteq Batches, kept' \subseteq acked', safe' \subseteq kept'
      PROVE  History'
  BY <1>1, <1>2, <1>3 DEF History
<1>4. ASSUME NEW c \in Clients, Write(c) \/ CompactMemTableNow(c) \/ WaitFlushed(c) \/ Flushed(c)
      PROVE  History'
  <2>1. UNCHANGED <<promiseVars, faults>>
    BY <1>4, EnqueueFrame DEF WaitFlushed, Flushed
  <2> QED
    BY <1>1, <1>3, <2>1 DEF promiseVars
<1>5. ASSUME NEW c \in Clients, Room(c)
      PROVE  History'
  <2>1. UNCHANGED promiseVars /\ (UNCHANGED faults \/ Fails("create"))
    BY <1>5 DEF Room, RoomError, RoomThere, RoomWaits, RoomNoFile, SwitchMemTable
  <2> QED
    BY <1>1, <1>3, <2>1 DEF promiseVars
<1>6. ASSUME NEW c \in Clients, WriteLog(c) \/ WriteLogFails(c) \/ SyncLog(c) \/ SyncLogFails(c)
      PROVE  History'
  <2>1. UNCHANGED promiseVars /\ (UNCHANGED faults \/ Fails("append") \/ Fails("sync"))
    BY <1>6 DEF WriteLog, WriteLogFails, SyncLog, SyncLogFails
  <2> QED
    BY <1>1, <1>3, <2>1 DEF promiseVars
<1>7. ASSUME NEW c \in Clients, InsertInto(c)
      PROVE  History'
  <2>1. ToSet(leader.entries) \subseteq Entry
    BY DEF CallsTyped, ToSet
  <2>2. acked' = acked \cup BatchesOf(ToSet(leader.entries))
        /\ kept' \in {kept, kept \cup BatchesOf(ToSet(leader.entries))}
    BY <1>7 DEF InsertInto
  <2>3. safe' \subseteq safe \cup kept' /\ UNCHANGED faults
    BY <1>7 DEF InsertInto
  <2> QED
    BY <1>1, <1>3, <2>1, <2>2, <2>3, BatchesTyped
<1>8. ASSUME Background
      PROVE  History'
  <2>1. CASE FlushDone
    <3>1. /\ UNCHANGED <<acked, faults>>
          /\ \E settled \in SUBSET acked : kept' = kept \cup settled /\ safe' = safe \cup settled
      BY <2>1 DEF FlushDone
    <3> QED
      BY <1>1, <1>3, <3>1
  <2>2. CASE ~FlushDone
    <3>1. UNCHANGED promiseVars
      BY <1>8, <2>2 DEF Background, NothingToDo, StartFlush, BuildTable, BuildTableFails, FlushFails,
        StartMerge, MergeTables, MergeFails, InstallMerge, InstallMergeFails
    <3>2. UNCHANGED faults \/ Fails("table") \/ Fails("manifest")
      BY <1>8, <2>2 DEF Background, NothingToDo, StartFlush, BuildTable, BuildTableFails, FlushFails,
        ManifestFails, StartMerge, MergeTables, MergeFails, InstallMerge, InstallMergeFails
    <3> QED
      BY <1>1, <1>3, <3>1, <3>2 DEF promiseVars
  <2> QED
    BY <2>1, <2>2
<1>9. ASSUME Recover \/ ReplayLog \/ CreateLog
      PROVE  History'
  <2>1. UNCHANGED <<promiseVars, faults>>
    BY <1>9 DEF Recover, ReplayLog, CreateLog
  <2> QED
    BY <1>1, <1>3, <2>1 DEF promiseVars
<1>10. ASSUME CommitOpen
       PROVE  History'
  <2>1. /\ acked' = BatchesOf(Entries(version) \cup UNION {tables[n] : n \in opening.made})
        /\ kept' = acked' /\ safe' = acked' /\ UNCHANGED faults
    BY <1>10 DEF CommitOpen
  <2>2. LiveTables(version) \subseteq DOMAIN tables /\ opening.made \subseteq DOMAIN tables
    BY DEF FilesInv, VersionsSound, Known, Sound, TablesOf
  <2>3. Entries(version) \cup UNION {tables[n] : n \in opening.made} \subseteq Entry
    BY <2>2 DEF Entries, TypedInv, DiskTyped
  <2>4. acked' \subseteq Batches
    BY <2>1, <2>3, BatchesTyped
  <2>5. kept' \subseteq acked' /\ safe' \subseteq kept' /\ UNCHANGED faults
    BY <2>1
  <2> QED
    BY <1>3, <2>4, <2>5
<1>11. ASSUME OpenFails \/ Kill \/ PowerLoss
       PROVE  History'
  <2>1. CASE OpenFails
    <3>1. UNCHANGED promiseVars /\ (Fails("table") \/ Fails("create") \/ Fails("manifest"))
      BY <2>1 DEF OpenFails
    <3> QED
      BY <1>1, <1>3, <3>1 DEF promiseVars
  <2>2. CASE Kill
    <3>1. UNCHANGED promiseVars /\ Crashes("kill")
      BY <2>2 DEF Kill
    <3> QED
      BY <1>1, <1>3, <3>1 DEF promiseVars
  <2>3. CASE PowerLoss
    <3>1. acked' = safe /\ kept' = safe /\ safe' = safe /\ Crashes("power")
      BY <2>3 DEF PowerLoss
    <3> QED
      BY <1>1, <1>3, <3>1
  <2> QED
    BY <1>11, <2>1, <2>2, <2>3
<1>12. ASSUME UNCHANGED vars
       PROVE  History'
  BY <1>1, <1>3, <1>12 DEF vars, promiseVars
<1> QED
  BY <1>4, <1>5, <1>6, <1>7, <1>8, <1>9, <1>10, <1>11, <1>12 DEF Next, OpenSteps, LogCalls

-----------------------------------------------------------------------------
(* Requests for a new memtable.                                            *)

(* A step keeps a call, but for what it has come to, or ends it.           *)
Kept(c) ==
  /\ call'[c].since = call[c].since /\ call'[c].force = call[c].force
  /\ call'[c].op = call[c].op
Gone(c) == call'[c] = NoCall

(* What a client without a call has.                                       *)
LEMMA NoCallIs == ~NoCall.written /\ NoCall.since = 0 /\ NoCall.op = "none"
BY DEF NoCall

(* At the end of a group its calls are gone or wait for the flush.         *)
LEMMA FinishKept ==
  ASSUME CallsTyped, Queued, NEW n \in 0..Len(writers), NEW ok, Finish(n, ok), NEW c \in Clients
  PROVE  /\ Kept(c) \/ Gone(c)
         /\ call'[c].written => call[c].op # "none" \/ call[c].written
         /\ call[c].written => call'[c].written
<1> DEFINE group == {writers[i] : i \in 1..n}
<1>1. call \in [Clients -> Call] /\ call[c] \in Call
  BY DEF CallsTyped
<1>2. call'[c] = IF c \notin group THEN call[c]
                 ELSE IF call[c].batch # 0 \/ ~ok THEN NoCall
                 ELSE [call[c] EXCEPT !.written = TRUE]
  BY DEF Finish
<1>3. c \in group => call[c].op # "none" /\ ~call[c].written
  <2>1. Len(writers) \in Nat
    BY DEF CallsTyped
  <2> QED
    BY <2>1 DEF Queued
<1> HIDE DEF group
<1>4. CASE c \notin group
  BY <1>2, <1>4 DEF Kept
<1>5. CASE c \in group /\ (call[c].batch # 0 \/ ~ok)
  BY <1>2, <1>3, <1>5, NoCallIs DEF Gone
<1>6. CASE c \in group /\ call[c].batch = 0 /\ ok
  BY <1>1, <1>2, <1>3, <1>6 DEF Kept, Call
<1> QED
  BY <1>4, <1>5, <1>6

(* Calls that stay or end, and a memtable that keeps its entries, is       *)
(* emptied or gets those of the group.                                     *)
LEMMA RequestsKept ==
  ASSUME CallsTyped, TypedInv, RequestsSound,
         \A c \in Clients : Kept(c) \/ Gone(c),
         \A c \in Clients : call'[c].written => call[c].op # "none" \/ call[c].written,
         \/ /\ lastSequence' = lastSequence /\ mem' \subseteq mem
            /\ leader'.entries \in {leader.entries, <<>>}
         \/ /\ lastSequence' = SequenceAfterGroup /\ leader' = NoLeader
            /\ mem' \subseteq mem \cup ToSet(leader.entries)
  PROVE  RequestsSound'
<1>1. /\ lastSequence \in Nat /\ mem \subseteq Entry /\ \A e \in mem : e.seq \in Nat
      /\ leader.entries \in Seq(Entry) /\ Len(leader.entries) \in Nat
      /\ \A i \in 1..Len(leader.entries) : leader.entries[i].seq \in Nat
      /\ \A c \in Clients : call[c].since \in Nat
      /\ NoLeader.entries = <<>>
  <2>1. lastSequence \in Nat /\ mem \subseteq Entry
        /\ leader.entries \in Seq(Entry) /\ Len(leader.entries) \in Nat
    BY DEF TypedInv, MemoryTyped, CallsTyped
  <2>2. \A e \in Entry : e.seq \in Nat
    BY DEF Entry
  <2>3. \A c \in Clients : call[c].since \in Nat
    BY DEF CallsTyped, Call
  <2> QED
    BY <2>1, <2>2, <2>3 DEF NoLeader
<1>2. \A c \in Clients : call'[c].since \in {0, call[c].since}
  BY NoCallIs DEF Kept, Gone
<1>3. lastSequence' \in Nat /\ lastSequence <= lastSequence'
  BY <1>1 DEF SequenceAfterGroup
<1>4. \A c \in Clients : call'[c].since <= lastSequence'
  <2> SUFFICES ASSUME NEW c \in Clients
               PROVE  call'[c].since <= lastSequence'
    OBVIOUS
  <2>1. call[c].since <= lastSequence /\ call[c].since \in Nat
    BY <1>1 DEF RequestsSound
  <2> QED
    BY <1>1, <1>2, <1>3, <2>1
<1>5. \A e \in ToSet(leader.entries) : e.seq \in Nat /\ lastSequence < e.seq
  BY <1>1 DEF RequestsSound, ToSet
<1>6. \A e \in mem' : e.seq \in Nat /\ 0 < e.seq
  <2> SUFFICES ASSUME NEW e \in mem'
               PROVE  e.seq \in Nat /\ 0 < e.seq
    OBVIOUS
  <2>1. CASE e \in mem
    BY <1>1, <2>1 DEF RequestsSound
  <2>2. CASE e \in ToSet(leader.entries)
    BY <1>1, <1>5, <2>2
  <2> QED
    BY <2>1, <2>2
<1>7. \A i \in 1..Len(leader'.entries) : lastSequence' < leader'.entries[i].seq
  <2>1. CASE leader'.entries = <<>>
    BY <2>1
  <2>2. CASE lastSequence' = lastSequence /\ leader'.entries = leader.entries
    BY <2>2 DEF RequestsSound
  <2> QED
    BY <1>1, <2>1, <2>2
<1>8. ASSUME NEW c \in Clients, ~call'[c].force, NEW e \in mem'
      PROVE  call'[c].since < e.seq
  <2>1. CASE Gone(c)
    BY <1>6, <2>1, NoCallIs DEF Gone
  <2>2. CASE Kept(c) /\ e \in mem
    BY <1>8, <2>2 DEF Kept, RequestsSound
  <2>3. CASE Kept(c) /\ e \in ToSet(leader.entries)
    <3>1. call[c].since <= lastSequence /\ call'[c].since = call[c].since
      BY <2>3 DEF Kept, RequestsSound
    <3> QED
      BY <1>1, <1>5, <2>3, <3>1
  <2> QED
    BY <2>1, <2>2, <2>3
<1>9. \A c \in Clients : call'[c].written => call'[c].op # "none"
  <2> SUFFICES ASSUME NEW c \in Clients, call'[c].written
               PROVE  call'[c].op # "none"
    OBVIOUS
  <2>1. Kept(c)
    BY NoCallIs DEF Gone
  <2> QED
    BY <2>1 DEF Kept, RequestsSound
<1> QED
  BY <1>4, <1>6, <1>7, <1>8, <1>9 DEF RequestsSound

(* A new request counts on what is in the database.                        *)
LEMMA RequestsEnqueued ==
  ASSUME CallsTyped, TypedInv, RequestsSound,
         NEW c \in Clients, Write(c) \/ CompactMemTableNow(c)
  PROVE  /\ RequestsSound'
         /\ call[c].op = "none" /\ \A d \in Clients \ {c} : call'[d] = call[d]
<1>1. UNCHANGED <<leader, mem, lastSequence>>
  BY EnqueueFrame DEF memVars
<1>2. PICK new :
        /\ call' = [call EXCEPT ![c] = new] /\ call[c].op = "none"
        /\ ~new.written /\ (new.since = 0 \/ (new.force /\ new.since = lastSequence))
  <2>1. ASSUME NEW op, NEW batch, NEW sync, Enqueue(c, op, batch, sync)
        PROVE  \E new :
                 /\ call' = [call EXCEPT ![c] = new] /\ call[c].op = "none"
                 /\ ~new.written /\ (new.since = 0 \/ (new.force /\ new.since = lastSequence))
    <3> DEFINE new == [NoCall EXCEPT !.op = op, !.batch = batch, !.sync = sync,
                                     !.force = (batch = 0),
                                     !.since = IF batch = 0 THEN lastSequence ELSE 0]
    <3>1. call' = [call EXCEPT ![c] = new] /\ call[c].op = "none"
      BY <2>1, Zenon DEF Enqueue
    <3>2. new.force = (batch = 0) /\ new.since = (IF batch = 0 THEN lastSequence ELSE 0)
          /\ new.written = FALSE
      BY Zenon DEF NoCall
    <3> HIDE DEF new
    <3>3. ~new.written /\ (new.since = 0 \/ (new.force /\ new.since = lastSequence))
      <4>1. CASE batch = 0
        <5>1. new.force /\ new.since = lastSequence /\ ~new.written
          BY <3>2, <4>1, Zenon
        <5> QED
          BY <5>1, Zenon
      <4>2. CASE batch # 0
        <5>1. new.since = 0 /\ ~new.written
          BY <3>2, <4>2, Zenon
        <5> QED
          BY <5>1, Zenon
      <4> QED
        BY <4>1, <4>2, Zenon
    <3> QED
      BY <3>1, <3>3
  <2>2. CASE Write(c)
    <3>1. \E sync \in BOOLEAN : Enqueue(c, "write", issued'.batches, sync)
      BY <2>2, Zenon DEF Write
    <3> QED
      BY <2>1, <3>1
  <2>3. CASE CompactMemTableNow(c)
    <3>1. Enqueue(c, "compact", 0, FALSE)
      BY <2>3, Zenon DEF CompactMemTableNow
    <3> QED
      BY <2>1, <3>1
  <2> QED
    BY <2>2, <2>3
<1>3. /\ call \in [Clients -> Call] /\ lastSequence \in Nat
      /\ \A e \in mem : e.seq \in Nat
  BY DEF CallsTyped, TypedInv, MemoryTyped, Entry
<1>4. call'[c] = new /\ \A d \in Clients \ {c} : call'[d] = call[d]
  BY <1>2, <1>3
<1>5. \A d \in Clients : call'[d].since <= lastSequence'
  <2>1. new.since <= lastSequence
    BY <1>2, <1>3
  <2> QED
    BY <1>1, <1>4, <2>1 DEF RequestsSound
<1>6. \A d \in Clients : call'[d].force \/ \A e \in mem' : call'[d].since < e.seq
  <2>1. new.force \/ \A e \in mem : new.since < e.seq
    BY <1>2, <1>3 DEF RequestsSound
  <2> QED
    BY <1>1, <1>4, <2>1 DEF RequestsSound
<1>7. \A d \in Clients : call'[d].written => call'[d].op # "none"
  BY <1>2, <1>4 DEF RequestsSound
<1>8. (\A e \in mem' : 0 < e.seq) /\ \A i \in 1..Len(leader'.entries) : lastSequence' < leader'.entries[i].seq
  BY <1>1 DEF RequestsSound
<1> QED
  BY <1>2, <1>4, <1>5, <1>6, <1>7, <1>8 DEF RequestsSound

(* What the steps of a writer make of the calls.                           *)
LEMMA WriterKept ==
  ASSUME CallsTyped, Queued, Idle, RequestsSound, NEW d \in Clients,
         RoomError(d) \/ RoomThere(d) \/ RoomWaits(d) \/ RoomNoFile(d) \/ LogCalls(d) \/ WaitFlushed(d),
         NEW c \in Clients
  PROVE  /\ Kept(c) \/ Gone(c)
         /\ call'[c].written => call[c].op # "none" \/ call[c].written
         /\ call[c].written => call'[c].written
<1>1. call' = call \/ \E n \in 0..Len(writers), ok \in BOOLEAN : Finish(n, ok)
  <2>1. 0 \in 0..Len(writers) /\ leader.n \in 0..Len(writers)
    BY DEF CallsTyped
  <2>2. Leads(d) => 1 \in 0..Len(writers)
    <3>1. writers # <<>> => 1 \in 0..Len(writers)
      BY DEF CallsTyped
    <3> QED
      BY <3>1 DEF Leads
  <2>3. CASE RoomError(d) \/ RoomNoFile(d)
    <3>1. Leads(d) /\ Finish(1, FALSE)
      BY <2>3 DEF RoomError, RoomNoFile
    <3> QED
      BY <2>2, <3>1
  <2>4. CASE RoomThere(d)
    <3>1. Leads(d) /\ (Finish(1, TRUE) \/ call' = call)
      BY <2>4 DEF RoomThere
    <3> QED
      BY <2>2, <3>1
  <2>5. CASE WriteLogFails(d) \/ SyncLogFails(d)
    <3>1. Finish(leader.n, FALSE)
      BY <2>5 DEF WriteLogFails, SyncLogFails
    <3> QED
      BY <2>1, <3>1
  <2>6. CASE InsertInto(d)
    <3>1. Finish(leader.n, TRUE)
      BY <2>6 DEF InsertInto
    <3> QED
      BY <2>1, <3>1
  <2>7. CASE RoomWaits(d) \/ WriteLog(d) \/ SyncLog(d) \/ WaitFlushed(d)
    BY <2>7 DEF RoomWaits, WriteLog, SyncLog, WaitFlushed
  <2> QED
    BY <2>3, <2>4, <2>5, <2>6, <2>7 DEF LogCalls
<1>2. CASE call' = call
  BY <1>2 DEF Kept
<1>3. ASSUME NEW n \in 0..Len(writers), NEW ok \in BOOLEAN, Finish(n, ok)
      PROVE  /\ Kept(c) \/ Gone(c)
             /\ call'[c].written => call[c].op # "none" \/ call[c].written
             /\ call[c].written => call'[c].written
  BY <1>3, FinishKept
<1> QED
  BY <1>1, <1>2, <1>3

(* Every step keeps what is known of the requests.                         *)
LEMMA RequestsNext ==
  ASSUME CallsTyped, Queued, TypedInv, Idle, RequestsSound, [Next]_vars, TypedInv'
  PROVE  RequestsSound'
<1>1. NoLeader.entries = <<>>
  BY DEF NoLeader
<1>2. ASSUME NEW c \in Clients, Write(c) \/ CompactMemTableNow(c)
      PROVE  RequestsSound'
  BY <1>2, RequestsEnqueued
<1>3. ASSUME NEW c \in Clients,
             RoomError(c) \/ RoomThere(c) \/ RoomWaits(c) \/ RoomNoFile(c) \/ LogCalls(c) \/ WaitFlushed(c)
      PROVE  RequestsSound'
  <2>1. \A d \in Clients :
          /\ Kept(d) \/ Gone(d)
          /\ call'[d].written => call[d].op # "none" \/ call[d].written
    BY <1>3, WriterKept
  <2>2. CASE \E n \in GroupLengths : leader' = [step |-> "log", n |-> n, entries |-> BatchGroup(n)]
             /\ RoomThere(c) /\ UNCHANGED call
    <3>1. PICK n \in GroupLengths : leader' = [step |-> "log", n |-> n, entries |-> BatchGroup(n)]
      BY <2>2
    <3>2. n \in 1..Len(writers)
      BY DEF GroupLengths
    <3>3. \A i \in 1..Len(BatchGroup(n)) : lastSequence < BatchGroup(n)[i].seq
      BY <3>2, GroupTyped DEF TypedInv
    <3>4. leader'.entries = BatchGroup(n) /\ UNCHANGED <<mem, lastSequence, call>>
      BY <2>2, <3>1 DEF RoomThere, memVars
    <3> QED
      BY <3>3, <3>4 DEF RequestsSound
  <2>3. CASE /\ lastSequence' = lastSequence /\ mem' \subseteq mem
             /\ leader'.entries \in {leader.entries, <<>>}
    BY <2>1, <2>3, RequestsKept
  <2>4. CASE /\ lastSequence' = SequenceAfterGroup /\ leader' = NoLeader
             /\ mem' \subseteq mem \cup ToSet(leader.entries)
    BY <2>1, <2>4, RequestsKept
  <2>5. CASE RoomError(c) \/ RoomNoFile(c) \/ RoomWaits(c) \/ WaitFlushed(c)
    <3>1. leader' \in {leader, NoLeader} /\ UNCHANGED memVars
      BY <2>5 DEF RoomError, RoomWaits, RoomNoFile, Finish, WaitFlushed
    <3> QED
      BY <1>1, <2>3, <3>1 DEF memVars
  <2>6. CASE RoomThere(c)
    <3>1. UNCHANGED memVars
      BY <2>6 DEF RoomThere
    <3>2. CASE call[c].batch = 0
      <4>1. leader' = NoLeader
        BY <2>6, <3>2 DEF RoomThere, Finish
      <4> QED
        BY <1>1, <2>3, <3>1, <4>1 DEF memVars
    <3>3. CASE call[c].batch # 0
      BY <2>2, <2>6, <3>3 DEF RoomThere
    <3> QED
      BY <3>2, <3>3
  <2>7. CASE WriteLog(c) \/ SyncLog(c)
    <3>1. leader'.entries = leader.entries /\ UNCHANGED <<mem, lastSequence>>
      BY <2>7 DEF WriteLog, SyncLog, memVars, CallsTyped
    <3> QED
      BY <2>3, <3>1
  <2>8. CASE WriteLogFails(c) \/ SyncLogFails(c) \/ InsertInto(c)
    <3>1. lastSequence' = SequenceAfterGroup /\ mem' \subseteq mem \cup ToSet(leader.entries)
          /\ leader' = NoLeader
      BY <2>8 DEF WriteLogFails, SyncLogFails, InsertInto, Finish
    <3> QED
      BY <2>4, <3>1
  <2> QED
    BY <1>3, <2>5, <2>6, <2>7, <2>8 DEF LogCalls
<1>4. ASSUME NEW c \in Clients, SwitchMemTable(c)
      PROVE  RequestsSound'
  <2>1. mem' = {} /\ UNCHANGED <<lastSequence, leader>>
        /\ call' = [call EXCEPT ![c].force = FALSE]
    BY <1>4 DEF SwitchMemTable
  <2>2. \A d \in Clients : /\ call'[d].since = call[d].since /\ call'[d].op = call[d].op
                           /\ call'[d].written = call[d].written
    BY <2>1 DEF CallsTyped, Call
  <2> QED
    BY <2>1, <2>2 DEF RequestsSound
<1>5. ASSUME NEW c \in Clients, Flushed(c)
      PROVE  RequestsSound'
  <2>1. call' = [call EXCEPT ![c] = NoCall] /\ UNCHANGED <<leader, mem, lastSequence>>
    BY <1>5 DEF Flushed, memVars
  <2>2. \A d \in Clients : Gone(d) \/ call'[d] = call[d]
    BY <2>1 DEF Gone, CallsTyped
  <2>3. \A d \in Clients : /\ Kept(d) \/ Gone(d)
                           /\ call'[d].written => call[d].op # "none" \/ call[d].written
    BY <2>2, NoCallIs DEF Kept, Gone
  <2> QED
    BY <2>1, <2>3, RequestsKept
<1>6. ASSUME Background \/ UNCHANGED vars
      PROVE  RequestsSound'
  <2>1. UNCHANGED <<call, mem, lastSequence, leader>>
    BY <1>6 DEF Background, NothingToDo, StartFlush, BuildTable, BuildTableFails, FlushDone, FlushFails,
      StartMerge, MergeTables, MergeFails, InstallMerge, InstallMergeFails, memVars, callVars, vars
  <2> QED
    BY <2>1 DEF RequestsSound
<1>7. ASSUME call' = [c \in Clients |-> NoCall], mem' = {}, leader' = NoLeader
      PROVE  RequestsSound'
  <2>1. lastSequence' \in Nat
    BY DEF TypedInv, MemoryTyped
  <2> QED
    BY <1>1, <1>7, <2>1, NoCallIs DEF RequestsSound
<1>8. ASSUME Recover \/ ReplayLog \/ CreateLog \/ CommitOpen
      PROVE  RequestsSound'
  <2>1. UNCHANGED <<call, mem, leader>>
    BY <1>8 DEF Recover, ReplayLog, CreateLog, CommitOpen, callVars, memVars
  <2>2. call = [c \in Clients |-> NoCall] /\ mem = {} /\ leader = NoLeader
    BY <1>8 DEF Recover, ReplayLog, CreateLog, CommitOpen, Idle
  <2> QED
    BY <1>7, <2>1, <2>2
<1>9. ASSUME OpenFails \/ Kill \/ PowerLoss
      PROVE  RequestsSound'
  <2>1. Down
    BY <1>9 DEF OpenFails, Kill, PowerLoss
  <2> QED
    BY <1>7, <2>1 DEF Down
<1> QED
  BY <1>2, <1>3, <1>4, <1>5, <1>6, <1>8, <1>9 DEF Next, OpenSteps, Room

-----------------------------------------------------------------------------
(* The inductive invariant holds, and what follows from it.                *)

LEMMA InvInit == Init => IInv
<1> SUFFICES ASSUME Init PROVE IInv
  OBVIOUS
<1>1. NoCall \in Call /\ NoCall.batch = 0 /\ NoLeader.n = 0 /\ NoLeader.entries = <<>>
      /\ NoLeader \in [step : {"idle", "log", "sync", "insert"}, n : Nat, entries : Seq(Entry)]
  BY DEF NoCall, Call, NoLeader
<1>2. CallsTyped /\ Queued
  BY <1>1, StoreAssumption DEF Init, CallsTyped, Queued
<1>3. MemoryTyped
  <2>1. 0 \in 0..BlockSize
    BY LogAssumption
  <2> QED
    BY <2>1, NoWorkTyped, NewManifestTyped DEF Init, MemoryTyped
<1>4. DiskTyped
  BY NewManifestTyped DEF Init, DiskTyped
<1>5. Idle /\ LogInUse
  BY DEF Init, Idle, LogInUse
<1>6. Sound(NewManifest) /\ Known = {NewManifest}
  BY DEF Init, Known, ToSet, Sound, NewManifest, LiveTables
<1>7. VersionsSound
  BY <1>6 DEF Init, VersionsSound
<1>8. MemorySound
  BY <1>1 DEF Init, MemorySound
<1>9. FlushSound /\ MergeSound /\ EditSound
  BY DEF Init, NoWork, FlushSound, MergeSound, EditSound
<1>10. History
  BY StoreAssumption DEF Init, History
<1>11. RequestsSound
  BY <1>1, NoCallIs DEF Init, RequestsSound
<1> QED
  BY <1>2, <1>3, <1>4, <1>5, <1>7, <1>8, <1>9, <1>10, <1>11 DEF IInv

(* The invariant is inductive.                                             *)
LEMMA InvNext == IInv /\ [Next]_vars => IInv'
<1> SUFFICES ASSUME IInv, [Next]_vars PROVE IInv'
  OBVIOUS
<1>1. CallsInv /\ TypedInv /\ FilesInv /\ CallsTyped /\ MemoryTyped /\ Idle /\ LogInUse
      /\ VersionsSound /\ MergeSound /\ MemorySound /\ History /\ Queued /\ RequestsSound
  BY DEF IInv, CallsInv, TypedInv, FilesInv
<1>2. CallsInv'
  BY <1>1, CallsNext
<1>3. TypedInv'
  BY <1>1, TypedNext
<1>4. Idle'
  BY <1>1, IdleNext
<1>5. LogInUse'
  BY <1>1, <1>3, LogInUseNext
<1>6. MemorySound'
  BY <1>1, MemorySoundNext
<1>7. FilesInv'
  BY <1>1, <1>3, FilesNext
<1>8. History'
  BY <1>1, HistoryNext
<1>9. RequestsSound'
  BY <1>1, <1>3, RequestsNext
<1> QED
  BY <1>2, <1>3, <1>4, <1>5, <1>6, <1>7, <1>8, <1>9 DEF IInv, CallsInv, TypedInv, FilesInv

(* The inductive invariant holds in every state.                          *)
THEOREM Invariance == Spec => []IInv
BY InvInit, InvNext, PTL DEF Spec

(* The store keeps its types: nobody is in the queue without a call, the   *)
(* log in use is there, what is safe is kept and what is kept acknowledged.*)
THEOREM TypeCorrect == Spec => []TypeOK
<1>1. IInv => TypeOK
  <2> SUFFICES ASSUME IInv PROVE TypeOK
    OBVIOUS
  <2>1. writers \in Seq(Clients) /\ ToSet(writers) \subseteq Clients
        /\ ToSet(writers) = {writers[i] : i \in 1..Len(writers)}
    BY DEF IInv, CallsTyped, ToSet
  <2>2. \A c \in ToSet(writers) : call[c].op # "none" /\ ~call[c].written
    BY <2>1 DEF IInv, Queued
  <2>3. /\ up \in {"closed", "replay", "commit", "open"}
        /\ asleep \subseteq ToSet(writers) /\ bgWaiters \subseteq Clients
        /\ leader.step \in {"idle", "log", "sync", "insert"} /\ leader.n <= Len(writers)
        /\ hasImm \in BOOLEAN /\ (hasImm \/ imm = {})
        /\ lastSequence \in Nat /\ nextFile \in Nat
    BY DEF IInv, MemoryTyped, CallsTyped, Queued, MemorySound
  <2>4. /\ up = "open" => logfileNumber \in DOMAIN logs
        /\ blockOffset \in 0..BlockSize
        /\ bg.step \in {"idle", "scheduled", "build", "apply", "merge", "install"}
        /\ acked \subseteq Batches /\ kept \subseteq acked /\ safe \subseteq kept
        /\ faults.errors \in 0..MaxErrors /\ faults.crashes \in 0..MaxCrashes
    BY DEF IInv, MemoryTyped, Work, LogInUse, History
  <2> QED
    BY <2>1, <2>2, <2>3, <2>4 DEF TypeOK
<1> QED
  BY <1>1, Invariance, PTL

(* No file that recovery needs is deleted: whatever version the manifest   *)
(* turns out to name after a crash, its tables are there, for any number   *)
(* of clients, batches, crashes and failed calls on files.                 *)
THEOREM TablesStay == Spec => []TablesPresent
<1>1. IInv => TablesPresent
  <2> SUFFICES ASSUME IInv, NEW m \in ToSet(ManifestsLeft)
               PROVE  LiveTables(m) \subseteq DOMAIN tables
    BY DEF TablesPresent
  <2>1. TypedInv /\ FilesInv /\ Idle
    BY DEF IInv, TypedInv, FilesInv
  <2>2. Sound(m)
    <3>1. CASE m \in ToSet(manifests)
      BY <2>1, <3>1 DEF FilesInv, VersionsSound, Known
    <3>2. CASE bg.step \in {"apply", "install"} /\ m = Latest(bg.edit)
      BY <2>1, <3>2, ApplySound, KnownTyped DEF Latest
    <3> QED
      BY <2>1, <3>1, <3>2, ManifestsLeftTyped DEF TypedInv
  <2> QED
    BY <2>2 DEF Sound, TablesOf
<1> QED
  BY <1>1, Invariance, PTL

(* Nothing has a number above the last one.                                *)
LEMMA NewestHolds == IInv => NewestIsLast
<1> SUFFICES ASSUME IInv, up = "open", NEW e \in mem \cup imm \cup Entries(version)
             PROVE  e.seq <= lastSequence
  BY DEF NewestIsLast
<1>1. CASE e \in mem \cup imm
  BY <1>1 DEF IInv, MemorySound
<1>2. CASE e \in Entries(version)
  <2>1. PICK k \in LiveTables(version) : e \in tables[k]
    BY <1>2 DEF Entries
  <2>2. version \in Known /\ TypedInv
    BY DEF Known, IInv, TypedInv
  <2>3. k \in DOMAIN tables /\ e.seq <= version.seq /\ version.seq <= lastSequence
    BY <2>1, <2>2 DEF IInv, VersionsSound, Sound, TablesOf
  <2>4. e.seq \in Nat /\ version.seq \in Nat /\ lastSequence \in Nat
    BY <2>1, <2>2, <2>3, KnownTyped DEF Manifest, TypedInv, MemoryTyped
  <2> QED
    BY <2>3, <2>4
<1> QED
  BY <1>1, <1>2

(* A new write gets a sequence number above everything in an open          *)
(* database, so nothing older hides it, whatever failed or was recovered.  *)
THEOREM NewestStaysLast == Spec => []NewestIsLast
BY NewestHolds, Invariance, PTL

(* When TEST_CompactMemTable returns without an error, what was in the     *)
(* database at the call is in tables, if the call led the queue itself.    *)
THEOREM CompactionKept == Spec => CompactedIsInTables
<1> DEFINE Returns(c) ==
             /\ call[c].written /\ ~call[c].force /\ ~(hasImm /\ bgError)
             /\ up' = "open" /\ ~call'[c].written
<1>1. ASSUME IInv, [Next]_vars, NEW c \in Clients, Returns(c), NEW e \in mem \cup imm
      PROVE  call[c].since < e.seq
  <2>1. CallsTyped /\ Queued /\ TypedInv /\ Idle /\ RequestsSound /\ MemorySound
    BY <1>1 DEF IInv, TypedInv
  <2>2. call[c].op # "none" /\ call[c].written /\ ~call[c].force
    BY <1>1, <2>1 DEF RequestsSound
  <2>3. ~call'[c].written
    BY <1>1
  <2>4. Flushed(c)
    <3>1. ASSUME NEW d \in Clients, Write(d) \/ CompactMemTableNow(d)
          PROVE  FALSE
      BY <2>1, <2>2, <2>3, <3>1, RequestsEnqueued
    <3>2. ASSUME NEW d \in Clients,
                 RoomError(d) \/ RoomThere(d) \/ RoomWaits(d) \/ RoomNoFile(d) \/ LogCalls(d)
                 \/ WaitFlushed(d)
          PROVE  FALSE
      BY <2>1, <2>2, <2>3, <3>2, WriterKept
    <3>3. ASSUME NEW d \in Clients, SwitchMemTable(d)
          PROVE  FALSE
      <4>1. call' = [call EXCEPT ![d].force = FALSE]
        BY <3>3 DEF SwitchMemTable
      <4>2. call'[c].written = call[c].written
        BY <2>1, <4>1 DEF CallsTyped, Call
      <4> QED
        BY <2>2, <2>3, <4>2
    <3>4. ASSUME NEW d \in Clients, Flushed(d), c # d
          PROVE  FALSE
      <4>1. call' = [call EXCEPT ![d] = NoCall]
        BY <3>4 DEF Flushed
      <4> QED
        BY <2>1, <2>2, <2>3, <3>4, <4>1 DEF CallsTyped
    <3>5. ASSUME Background \/ Recover \/ ReplayLog \/ CreateLog \/ CommitOpen \/ UNCHANGED vars
          PROVE  FALSE
      <4>1. call' = call
        BY <3>5 DEF Background, NothingToDo, StartFlush, BuildTable, BuildTableFails, FlushDone,
          FlushFails, StartMerge, MergeTables, MergeFails, InstallMerge, InstallMergeFails,
          Recover, ReplayLog, CreateLog, CommitOpen, callVars, vars
      <4> QED
        BY <2>2, <2>3, <4>1
    <3>6. ASSUME OpenFails \/ Kill \/ PowerLoss
          PROVE  FALSE
      <4>1. up' = "closed"
        BY <3>6 DEF OpenFails, Kill, PowerLoss, Down
      <4> QED
        BY <1>1, <4>1
    <3> QED
      BY <1>1, <3>1, <3>2, <3>3, <3>4, <3>5, <3>6 DEF Next, OpenSteps, Room
  <2>5. imm = {}
    <3>1. ~hasImm
      BY <1>1, <2>4 DEF Flushed, MustFlush
    <3> QED
      BY <2>1, <3>1 DEF MemorySound
  <2> QED
    BY <1>1, <2>1, <2>2, <2>5 DEF RequestsSound
<1>2. ASSUME IInv, [Next]_vars
      PROVE  [\A c \in Clients : Returns(c) => \A e \in mem \cup imm : e.seq > call[c].since]_vars
  <2> SUFFICES ASSUME NEW c \in Clients, Returns(c), NEW e \in mem \cup imm
               PROVE  e.seq > call[c].since
    OBVIOUS
  <2>1. e.seq \in Nat /\ call[c].since \in Nat
    BY <1>2 DEF IInv, MemoryTyped, CallsTyped, Entry, Call
  <2> QED
    BY <1>1, <1>2, <2>1
<1>3. IInv /\ [Next]_vars
      => [\A c \in Clients :
            /\ call[c].written /\ ~call[c].force /\ ~(hasImm /\ bgError)
            /\ up' = "open" /\ ~call'[c].written
            => \A e \in mem \cup imm : e.seq > call[c].since]_vars
  BY <1>2
<1> QED
  BY <1>3, Invariance, PTL DEF Spec, CompactedIsInTables

-----------------------------------------------------------------------------
(* Batches stay whole.  The entries of a batch are a block: its size of    *)
(* entries, numbered one after the other.  W are the blocks handed to the  *)
(* log since the database was opened, and those found in it then.          *)

Block(k, b) == {[seq |-> k + i, batch |-> b] : i \in 1..Size[b]}
Blocks == {Block(k, b) : k \in Nat, b \in Batches}
Apart(W) == \A v, w \in W : \A d \in v, e \in w : d.seq = e.seq \/ d.batch = e.batch => v = w

(* A set of entries that consists of blocks of W, and records of those.    *)
WholeIn(W, S) == \A e \in S : \E w \in W : e \in w /\ w \subseteq S
RecordsIn(W) == {g \in Seq(Entry) : WholeIn(W, ToSet(g))}

(* The writers whose batches are in a group under way.                     *)
Grouped == IF leader.step = "idle" THEN {} ELSE {writers[i] : i \in 1..leader.n}

Stored(W) ==
  /\ WholeIn(W, mem) /\ WholeIn(W, imm) /\ WholeIn(W, ToSet(leader.entries))
  /\ \A n \in DOMAIN tables : WholeIn(W, tables[n])
Logged(W) == \A n \in DOMAIN logs : Genuine(logs[n].units, RecordsIn(W))

(* The next group gets other sequence numbers and other batches.           *)
Numbered(W) ==
  /\ \A w \in W : \A e \in w : e.batch <= issued.batches
  /\ up = "open" => \A w \in W : \A e \in w : e.seq <= lastSequence + Len(leader.entries)
Waiting(W) ==
  \A c \in Clients \ Grouped : \A w \in W : \A e \in w : e.batch # call[c].batch
Distinct ==
  /\ \A c \in Clients : call[c].batch <= issued.batches
  /\ \A c, d \in Clients : call[c].batch = call[d].batch /\ call[c].batch # 0 => c = d
Unled == leader.step = "idle" => leader = NoLeader

(* No log is above the one in use, and none has a number to come.          *)
LogsBelow ==
  /\ up = "replay" => \A n \in DOMAIN logs \ opening.left : n < nextFile
  /\ up \in {"commit", "open"} => \A n \in DOMAIN logs : n <= logfileNumber
  /\ up = "commit" => logs[logfileNumber].units = <<>> /\ ~logs[logfileNumber].bad

WholeFor(W) ==
  /\ W \subseteq Blocks /\ Apart(W)
  /\ Stored(W) /\ Logged(W) /\ Numbered(W) /\ Waiting(W)
WholeInv == Distinct /\ Unled /\ LogsBelow /\ \E W : WholeFor(W)

(* Of whole sets.                                                          *)
LEMMA WholeEmpty == \A W : WholeIn(W, {}) /\ WholeIn(W, ToSet(<<>>))
BY DEF WholeIn, ToSet

(* Sets of whole blocks together are whole.                                *)
LEMMA WholeUnion ==
  ASSUME NEW W, NEW T, \A S \in T : WholeIn(W, S)
  PROVE  WholeIn(W, UNION T)
<1> SUFFICES ASSUME NEW S \in T, NEW e \in S
             PROVE  \E w \in W : e \in w /\ w \subseteq UNION T
  BY DEF WholeIn
<1>1. PICK w \in W : e \in w /\ w \subseteq S
  BY DEF WholeIn
<1> QED
  BY <1>1

(* Two sets of whole blocks together are whole.                            *)
LEMMA WholeCup ==
  ASSUME NEW W, NEW S, NEW T, WholeIn(W, S), WholeIn(W, T)
  PROVE  WholeIn(W, S \cup T)
BY DEF WholeIn

(* What is whole stays whole with more blocks.                             *)
LEMMA WholeMore ==
  ASSUME NEW W, NEW V, W \subseteq V
  PROVE  /\ \A S : WholeIn(W, S) => WholeIn(V, S)
         /\ RecordsIn(W) \subseteq RecordsIn(V)
BY DEF WholeIn, RecordsIn

(* Of blocks.                                                              *)
LEMMA BlockIs ==
  ASSUME NEW w \in Blocks
  PROVE  \E k \in Nat, b \in Batches :
           /\ w = Block(k, b) /\ \A e \in w : e.batch = b /\ e.batch \in Nat /\ e.batch # 0
           /\ \A e \in w : e.seq \in Nat
           /\ \A d, e \in w : d.seq = e.seq => d = e
           /\ IsFiniteSet(w) /\ Cardinality(w) = Size[b]
<1>1. PICK k \in Nat, b \in Batches : w = Block(k, b)
  BY DEF Blocks
<1>2. Size[b] \in Nat /\ b \in Nat /\ b # 0
  BY StoreAssumption DEF Batches
<1> DEFINE f == [i \in 1..Size[b] |-> [seq |-> k + i, batch |-> b]]
<1>3. /\ \A e \in w : e.batch = b /\ e.seq \in Nat
      /\ \A d, e \in w : d.seq = e.seq => d = e
  BY <1>1, <1>2 DEF Block
<1>4. f \in Bijection(1..Size[b], w)
  <2>1. f \in [1..Size[b] -> w]
    BY <1>1 DEF Block
  <2>2. \A i, j \in 1..Size[b] : f[i] = f[j] => i = j
    BY <1>2
  <2>3. \A e \in w : \E i \in 1..Size[b] : f[i] = e
    BY <1>1 DEF Block
  <2> HIDE DEF f
  <2>4. f \in Injection(1..Size[b], w)
    BY <2>1, <2>2, Fun_IsInj
  <2>5. f \in Surjection(1..Size[b], w)
    BY <2>1, <2>3, Fun_IsSurj
  <2> QED
    BY <2>4, <2>5 DEF Bijection
<1>5. IsFiniteSet(w) /\ Cardinality(w) = Size[b]
  <2>1. ExistsBijection(1..Size[b], w)
    BY <1>4 DEF ExistsBijection
  <2>2. IsFiniteSet(1..Size[b]) /\ Cardinality(1..Size[b]) = Size[b]
    <3> DEFINE n == Size[b]
    <3>1. n \in Int /\ ~ (1 > n) /\ n - 1 + 1 = n /\ 1 \in Int
      BY <1>2, StoreAssumption
    <3> HIDE DEF n
    <3>2. IsFiniteSet(1..n) /\ Cardinality(1..n) = IF 1 > n THEN 0 ELSE n - 1 + 1
      BY <3>1, FS_Interval, Zenon
    <3> QED
      BY <3>1, <3>2 DEF n
  <2> QED
    BY <2>1, <2>2, FS_Bijection
<1> QED
  BY <1>1, <1>2, <1>3, <1>5

-----------------------------------------------------------------------------
(* The entries of a sequence of batches, numbered from the last sequence   *)
(* number on.                                                              *)
Sequenced(batches) ==
  {[seq |-> lastSequence + i, batch |-> batches[i]] : i \in 1..Len(batches)}

(* The entries of one batch more come behind the others.                   *)
LEMMA SequencedMore ==
  ASSUME MemoryTyped, NEW q \in Seq(Batches), NEW b \in Batches, NEW r \in Seq(Batches),
         Len(r) = Size[b], \A j \in 1..Len(r) : r[j] = b
  PROVE  Sequenced(q \o r) = Sequenced(q) \cup Block(lastSequence + Len(q), b)
<1> DEFINE t == q \o r
           n == Len(q)
           m == Len(r)
<1>1. lastSequence \in Nat /\ n \in Nat /\ m \in Nat
  BY DEF MemoryTyped
<1>2. /\ Len(t) = n + m
      /\ \A i \in 1..n : t[i] = q[i]
      /\ \A j \in 1..m : t[n + j] = r[j]
  OBVIOUS
<1>3. m = Size[b] /\ \A j \in 1..m : r[j] = b
  OBVIOUS
<1> HIDE DEF t, n, m
<1>4. \A j \in 1..m : n + j \in 1..(n + m)
  BY <1>1
<1>5. \A i \in 1..(n + m) : i \in 1..n \/ \E j \in 1..m : i = n + j
  <2> SUFFICES ASSUME NEW i \in 1..(n + m), i \notin 1..n
               PROVE  \E j \in 1..m : i = n + j
    OBVIOUS
  <2>1. i - n \in 1..m /\ i = n + (i - n)
    BY <1>1
  <2> QED
    BY <2>1
<1>6. \A i \in 1..n : i \in 1..(n + m)
  BY <1>1
<1>7. \A j \in 1..m : lastSequence + (n + j) = (lastSequence + n) + j
  BY <1>1
<1>8. Sequenced(t) \subseteq Sequenced(q) \cup Block(lastSequence + n, b)
  <2> SUFFICES ASSUME NEW i \in 1..(n + m)
               PROVE  [seq |-> lastSequence + i, batch |-> t[i]]
                      \in Sequenced(q) \cup Block(lastSequence + n, b)
    BY <1>2 DEF Sequenced
  <2>1. CASE i \in 1..n
    BY <1>2, <2>1 DEF Sequenced, n
  <2>2. ASSUME NEW j \in 1..m, i = n + j
        PROVE  [seq |-> lastSequence + i, batch |-> t[i]] \in Block(lastSequence + n, b)
    BY <1>2, <1>3, <1>7, <2>2 DEF Block
  <2> QED
    BY <1>5, <2>1, <2>2
<1>9. Sequenced(q) \subseteq Sequenced(t)
  BY <1>2, <1>6 DEF Sequenced, n
<1>10. Block(lastSequence + n, b) \subseteq Sequenced(t)
  <2> SUFFICES ASSUME NEW j \in 1..m
               PROVE  [seq |-> (lastSequence + n) + j, batch |-> b] \in Sequenced(t)
    BY <1>3 DEF Block
  <2>1. n + j \in 1..Len(t) /\ t[n + j] = b /\ lastSequence + (n + j) = (lastSequence + n) + j
    BY <1>2, <1>3, <1>4, <1>7
  <2> QED
    BY <2>1 DEF Sequenced
<1> QED
  BY <1>8, <1>9, <1>10 DEF t, n

(* A group of writers makes blocks of the next sequence numbers.           *)
LEMMA GroupWhole ==
  ASSUME CallsTyped, MemoryTyped, Queued, Distinct, NEW n \in 1..Len(writers)
  PROVE  \E V \in SUBSET Blocks :
           /\ Apart(V) /\ WholeIn(V, ToSet(BatchGroup(n)))
           /\ \A v \in V : \A e \in v :
                /\ lastSequence < e.seq /\ e.seq <= lastSequence + Len(BatchGroup(n))
                /\ \E i \in 1..n : e.batch = call[writers[i]].batch
<1> DEFINE batch(i) == call[writers[i]].batch
           sized(i) == [k \in 1..(IF batch(i) = 0 THEN 0 ELSE Size[batch(i)]) |-> batch(i)]
           s == [i \in 1..n |-> sized(i)]
           upto(m) == FlattenSeq(SubSeq(s, 1, m))
<1>1. \A i \in 1..n : sized(i) \in Seq(Batches) /\ batch(i) \in 0..MaxBatch
  <2> SUFFICES ASSUME NEW i \in 1..n PROVE sized(i) \in Seq(Batches) /\ batch(i) \in 0..MaxBatch
    OBVIOUS
  <2>1. writers[i] \in Clients
    BY DEF CallsTyped
  <2>2. batch(i) \in 0..MaxBatch
    BY <2>1, StoreAssumption DEF CallsTyped, Call
  <2>3. CASE batch(i) = 0
    BY <2>2, <2>3
  <2>4. CASE batch(i) # 0
    <3>1. batch(i) \in Batches /\ Size[batch(i)] \in Nat
      BY <2>2, <2>4, StoreAssumption DEF Batches
    <3> HIDE DEF batch
    <3> QED
      BY <2>2, <2>4, <3>1
  <2> QED
    BY <2>3, <2>4
<1>2. n \in Nat /\ Len(s) = n /\ s \in Seq(Seq(Batches)) /\ \A i \in 1..n : s[i] = sized(i)
  <2>1. n \in Nat
    BY DEF CallsTyped
  <2> HIDE DEF sized
  <2> QED
    BY <1>1, <2>1
<1>3. \A i \in 1..n : batch(i) # 0 =>
        batch(i) \in Batches /\ Len(s[i]) = Size[batch(i)] /\ \A j \in 1..Len(s[i]) : s[i][j] = batch(i)
  <2> SUFFICES ASSUME NEW i \in 1..n, batch(i) # 0
               PROVE  batch(i) \in Batches /\ Len(sized(i)) = Size[batch(i)]
                      /\ \A j \in 1..Len(sized(i)) : sized(i)[j] = batch(i)
    BY <1>2
  <2>0. batch(i) \in 0..MaxBatch
    BY <1>1
  <2> HIDE DEF batch
  <2>1. batch(i) \in Batches /\ Size[batch(i)] \in Nat
    BY <2>0, StoreAssumption DEF Batches
  <2> QED
    BY <2>1 DEF sized
<1>4. \A i \in 1..n : batch(i) = 0 => s[i] = <<>>
  BY <1>2
<1>5. \A i, j \in 1..n : batch(i) = batch(j) /\ batch(i) # 0 => i = j
  <2> SUFFICES ASSUME NEW i \in 1..n, NEW j \in 1..n, batch(i) = batch(j), batch(i) # 0
               PROVE  i = j
    OBVIOUS
  <2>1. i \in 1..Len(writers) /\ j \in 1..Len(writers) /\ writers[i] \in Clients /\ writers[j] \in Clients
    BY DEF CallsTyped
  <2>2. writers[i] = writers[j]
    BY <2>1 DEF Distinct
  <2> QED
    BY <2>1, <2>2 DEF Queued
<1>6. /\ SubSeq(s, 1, 0) = <<>> /\ SubSeq(s, 1, n) = s
      /\ \A m \in 0..n : SubSeq(s, 1, m) \in Seq(Seq(Batches))
      /\ \A m \in 0..(n - 1) : SubSeq(s, 1, m + 1) = Append(SubSeq(s, 1, m), s[m + 1])
                              /\ s[m + 1] \in Seq(Batches)
  <2> HIDE DEF s, batch
  <2>1. SubSeq(s, 1, 0) = <<>> /\ \A m \in 0..n : SubSeq(s, 1, m) \in Seq(Seq(Batches))
    BY <1>2
  <2>2. SubSeq(s, 1, n) = s
    BY <1>2, SubSeqFull
  <2>3. ASSUME NEW m \in 0..(n - 1)
        PROVE  SubSeq(s, 1, m + 1) = Append(SubSeq(s, 1, m), s[m + 1]) /\ s[m + 1] \in Seq(Batches)
    <3>1. m + 1 \in 1..n
      BY <1>2
    <3> QED
      BY <1>2, <3>1
  <2> QED
    BY <2>1, <2>2, <2>3
<1>7. BatchGroup(n) = [i \in DOMAIN upto(n) |->
                         [seq |-> lastSequence + i, batch |-> upto(n)[i]]]
  BY <1>6 DEF BatchGroup
<1> HIDE DEF sized, batch, s
<1>8. upto(0) = <<>> /\ \A m \in 0..n : upto(m) \in Seq(Batches)
  BY <1>6, FlattenEmpty, FlattenTyped
<1>9. \A m \in 0..(n - 1) : upto(m + 1) = upto(m) \o s[m + 1]
  <2> SUFFICES ASSUME NEW m \in 0..(n - 1) PROVE upto(m + 1) = upto(m) \o s[m + 1]
    OBVIOUS
  <2>1. SubSeq(s, 1, m) \in Seq(Seq(Batches))
    BY <1>2, <1>6
  <2> QED
    BY <1>6, <2>1, FlattenSnoc
<1> HIDE DEF upto
<1> DEFINE P(m) == m <= n => \E V \in SUBSET Blocks :
             /\ Apart(V) /\ UNION V = Sequenced(upto(m))
             /\ \A v \in V : \A e \in v : \E i \in 1..m : e.batch = batch(i) /\ batch(i) # 0
           T == {m \in Nat : P(m)}
<1>10. P(0)
  <2>1. Sequenced(upto(0)) = {}
    BY <1>8 DEF Sequenced
  <2>2. Apart({}) /\ UNION {} = {} /\ {} \in SUBSET Blocks
    BY DEF Apart
  <2> QED
    BY <2>1, <2>2
<1>11. ASSUME NEW m \in Nat, P(m)
       PROVE  P(m + 1)
  <2> SUFFICES ASSUME m + 1 <= n
               PROVE  \E V \in SUBSET Blocks :
                        /\ Apart(V) /\ UNION V = Sequenced(upto(m + 1))
                        /\ \A v \in V : \A e \in v :
                             \E i \in 1..(m + 1) : e.batch = batch(i) /\ batch(i) # 0
    OBVIOUS
  <2>1. m <= n /\ m \in 0..(n - 1) /\ m \in 0..n /\ m + 1 \in 1..n /\ m + 1 \notin 1..m
        /\ 1..m \subseteq 1..(m + 1) /\ 1..m \subseteq 1..n /\ m + 1 \in 1..(m + 1)
    BY <1>2
  <2>2. PICK V \in SUBSET Blocks :
          /\ Apart(V) /\ UNION V = Sequenced(upto(m))
          /\ \A v \in V : \A e \in v : \E i \in 1..m : e.batch = batch(i) /\ batch(i) # 0
    BY <1>11, <2>1
  <2>3. upto(m) \in Seq(Batches) /\ upto(m + 1) = upto(m) \o s[m + 1] /\ s[m + 1] \in Seq(Batches)
    BY <1>6, <1>8, <1>9, <2>1
  <2>4. CASE batch(m + 1) = 0
    <3>1. upto(m + 1) = upto(m)
      BY <1>4, <2>1, <2>3, <2>4, ConcatEmptySeq
    <3> QED
      BY <2>1, <2>2, <3>1
  <2>5. CASE batch(m + 1) # 0
    <3> DEFINE b == batch(m + 1)
               k == lastSequence + Len(upto(m))
               w == Block(k, b)
               U == V \cup {w}
    <3>1. b \in Batches /\ b # 0 /\ lastSequence \in Nat /\ Len(upto(m)) \in Nat /\ k \in Nat
      BY <1>3, <2>1, <2>3, <2>5, LenProperties DEF MemoryTyped
    <3>2. w \in Blocks
      BY <3>1 DEF Blocks
    <3>3. Sequenced(upto(m + 1)) = Sequenced(upto(m)) \cup w
      <4>1. s[m + 1] \in Seq(Batches) /\ Len(s[m + 1]) = Size[b]
            /\ \A j \in 1..Len(s[m + 1]) : s[m + 1][j] = b
        BY <1>3, <2>1, <2>3, <2>5
      <4> HIDE DEF b
      <4>2. Sequenced(upto(m) \o s[m + 1]) = Sequenced(upto(m)) \cup Block(lastSequence + Len(upto(m)), b)
        BY <2>3, <3>1, <4>1, SequencedMore
      <4> QED
        BY <2>3, <4>2
    <3>4. Size[b] \in Nat /\ \A e \in w : e.batch = b /\ e.seq > k
      <4>1. Size[b] \in Nat
        BY <3>1, StoreAssumption
      <4> HIDE DEF k, b
      <4> QED
        BY <3>1, <4>1 DEF Block
    <3>5. \A v \in V : \A e \in v : e.seq <= k /\ e.batch # b
      <4> SUFFICES ASSUME NEW v \in V, NEW e \in v PROVE e.seq <= k /\ e.batch # b
        OBVIOUS
      <4>1. e \in Sequenced(upto(m))
        BY <2>2
      <4>2. e.seq <= k
        BY <3>1, <4>1 DEF Sequenced
      <4>3. PICK i \in 1..m : e.batch = batch(i) /\ batch(i) # 0
        BY <2>2
      <4>4. i # m + 1 /\ i \in 1..n /\ m + 1 \in 1..n
        BY <2>1
      <4> QED
        BY <1>5, <4>2, <4>3, <4>4
    <3>6. \A v \in V : \A d \in v, e \in w : d.seq # e.seq /\ d.batch # e.batch
      <4> SUFFICES ASSUME NEW v \in V, NEW d \in v, NEW e \in w PROVE d.seq # e.seq /\ d.batch # e.batch
        OBVIOUS
      <4>1. d.seq <= k /\ d.batch # b /\ e.batch = b /\ e.seq > k
        BY <3>4, <3>5
      <4>2. d.seq \in Nat /\ e.seq \in Nat
        <5>1. d \in Sequenced(upto(m))
          BY <2>2
        <5> QED
          BY <3>1, <3>4, <5>1 DEF Sequenced, Block
      <4> HIDE DEF k, b
      <4> QED
        BY <3>1, <4>1, <4>2
    <3> HIDE DEF w, b, k
    <3>7. Apart(U)
      BY <2>2, <3>6 DEF Apart
    <3>8. UNION U = Sequenced(upto(m + 1)) /\ U \in SUBSET Blocks
      BY <2>2, <3>2, <3>3
    <3>9. \A v \in U : \A e \in v : \E i \in 1..(m + 1) : e.batch = batch(i) /\ batch(i) # 0
      BY <2>1, <2>2, <2>5, <3>4 DEF b
    <3> HIDE DEF U
    <3> QED
      BY <3>7, <3>8, <3>9
  <2> QED
    BY <2>4, <2>5
<1>12. P(n)
  <2>1. n \in T
    <3>1. 0 \in T /\ \A m \in Nat : m \in T => m + 1 \in T
      <4> HIDE DEF P
      <4> QED
        BY <1>10, <1>11
    <3> HIDE DEF T
    <3> QED
      BY <1>2, <3>1, SetInduction
  <2> QED
    BY <2>1
<1>13. PICK V \in SUBSET Blocks :
          /\ Apart(V) /\ UNION V = Sequenced(upto(n))
          /\ \A v \in V : \A e \in v : \E i \in 1..n : e.batch = batch(i) /\ batch(i) # 0
  BY <1>2, <1>12
<1>14. upto(n) \in Seq(Batches) /\ DOMAIN upto(n) = 1..Len(upto(n)) /\ Len(upto(n)) \in Nat
  BY <1>2, <1>8
<1>15. Len(BatchGroup(n)) = Len(upto(n)) /\ ToSet(BatchGroup(n)) = Sequenced(upto(n))
  <2>1. DOMAIN BatchGroup(n) = 1..Len(upto(n))
    BY <1>7, <1>14
  <2>2. ToSet(BatchGroup(n)) = Sequenced(upto(n))
    BY <1>7, <1>14 DEF ToSet, Sequenced
  <2>3. Len(BatchGroup(n)) \in Nat /\ DOMAIN BatchGroup(n) = 1..Len(BatchGroup(n))
    BY GroupTyped, LenProperties
  <2> QED
    BY <1>14, <2>1, <2>2, <2>3
<1>16. WholeIn(V, ToSet(BatchGroup(n)))
  BY <1>13, <1>15 DEF WholeIn
<1>17. \A v \in V : \A e \in v :
          lastSequence < e.seq /\ e.seq <= lastSequence + Len(BatchGroup(n))
  <2> SUFFICES ASSUME NEW v \in V, NEW e \in v
               PROVE  lastSequence < e.seq /\ e.seq <= lastSequence + Len(upto(n))
    BY <1>15
  <2>1. e \in Sequenced(upto(n)) /\ lastSequence \in Nat
    BY <1>13 DEF MemoryTyped
  <2> QED
    BY <1>14, <2>1 DEF Sequenced
<1>18. \A v \in V : \A e \in v : \E i \in 1..n : e.batch = call[writers[i]].batch
  BY <1>13 DEF batch
<1> QED
  BY <1>13, <1>16, <1>17, <1>18

-----------------------------------------------------------------------------
(* A call's batch stays until the call or its batch is done.               *)
BatchKept(c) ==
  /\ call'[c].batch = call[c].batch \/ call'[c].batch = 0
  /\ c \in Grouped => c \in Grouped' \/ call'[c].batch = 0

(* A client without a call has no batch, nobody leads.                     *)
LEMMA NoCallBatch == NoCall.batch = 0 /\ NoLeader.step = "idle" /\ NoLeader.entries = <<>>
BY DEF NoCall, NoLeader

(* A call that finished gives its batch up.                                *)
LEMMA FinishBatch ==
  ASSUME CallsTyped, NEW n \in 0..Len(writers), NEW ok \in BOOLEAN, Finish(n, ok)
  PROVE  /\ \A c \in Clients : call'[c].batch = call[c].batch \/ call'[c].batch = 0
         /\ \A i \in 1..n : call'[writers[i]].batch = 0
         /\ leader' = NoLeader
<1>1. /\ writers \in Seq(Clients) /\ Len(writers) \in Nat /\ n \in Nat
      /\ call \in [Clients -> Call]
  BY DEF CallsTyped
<1> DEFINE group == {writers[i] : i \in 1..n}
<1>2. /\ call' = [c \in Clients |->
           IF c \notin group THEN call[c]
           ELSE IF call[c].batch # 0 \/ ~ok THEN NoCall
           ELSE [call[c] EXCEPT !.written = TRUE]]
      /\ leader' = NoLeader
  BY DEF Finish
<1>3. group \subseteq Clients /\ \A i \in 1..n : writers[i] \in group
  BY <1>1
<1> HIDE DEF group
<1>4. ASSUME NEW c \in Clients
      PROVE  /\ call'[c].batch = call[c].batch \/ call'[c].batch = 0
             /\ c \in group => call'[c].batch = 0
  <2>1. call[c] \in Call
    BY <1>1
  <2>2. [call[c] EXCEPT !.written = TRUE].batch = call[c].batch
    BY <2>1 DEF Call
  <2> QED
    BY <1>2, <2>2, NoCallBatch
<1> QED
  BY <1>2, <1>3, <1>4

(* What a step that is not the start of a call does to calls and leader.   *)
LEMMA BatchesKept ==
  ASSUME CallsTyped, Idle, Unled, [Next]_vars, \A c \in Clients : ~Write(c) /\ ~CompactMemTableNow(c)
  PROVE  issued' = issued /\ Unled' /\ \A c \in Clients : BatchKept(c)
<1>1. ASSUME call' = call, leader' = leader, writers' = writers, issued' = issued
      PROVE  issued' = issued /\ Unled' /\ \A c \in Clients : BatchKept(c)
  BY <1>1 DEF BatchKept, Grouped, Unled
<1>2. ASSUME NEW n \in 0..Len(writers), NEW ok \in BOOLEAN, Finish(n, ok), issued' = issued,
             leader.step = "idle" \/ n = leader.n
      PROVE  issued' = issued /\ Unled' /\ \A c \in Clients : BatchKept(c)
  <2>1. /\ \A c \in Clients : call'[c].batch = call[c].batch \/ call'[c].batch = 0
        /\ \A i \in 1..n : call'[writers[i]].batch = 0
        /\ leader' = NoLeader
    BY <1>2, FinishBatch
  <2>2. \A c \in Grouped : call'[c].batch = 0
    BY <1>2, <2>1 DEF Grouped
  <2> QED
    BY <1>2, <2>1, <2>2 DEF BatchKept, Unled
<1>3. leader.n \in 0..Len(writers) /\ (\A c : Leads(c) => 1 \in 0..Len(writers))
  <2>1. leader.n \in Nat /\ leader.n <= Len(writers) /\ Len(writers) \in Nat
    BY DEF CallsTyped
  <2>2. \A c : Leads(c) => 1 \in 1..Len(writers)
    BY FrontTyped
  <2> QED
    BY <2>1, <2>2
<1>4. ASSUME NEW c \in Clients, RoomError(c) \/ RoomNoFile(c) \/ (RoomThere(c) /\ call[c].batch = 0)
      PROVE  issued' = issued /\ Unled' /\ \A d \in Clients : BatchKept(d)
  <2>1. (Finish(1, FALSE) \/ Finish(1, TRUE)) /\ issued' = issued /\ Leads(c)
    BY <1>4 DEF RoomError, RoomNoFile, RoomThere
  <2> QED
    BY <1>2, <1>3, <2>1 DEF Leads
<1>5. ASSUME NEW c \in Clients, RoomThere(c), call[c].batch # 0
      PROVE  issued' = issued /\ Unled' /\ \A d \in Clients : BatchKept(d)
  <2>1. /\ Leads(c) /\ issued' = issued /\ call' = call /\ leader'.step = "log"
    BY <1>5 DEF RoomThere
  <2>2. Grouped = {}
    BY <2>1 DEF Leads, Grouped
  <2> QED
    BY <2>1, <2>2 DEF BatchKept, Unled
<1>6. ASSUME NEW c \in Clients, SwitchMemTable(c)
      PROVE  issued' = issued /\ Unled' /\ \A d \in Clients : BatchKept(d)
  <2>1. /\ issued' = issued /\ leader' = leader /\ Leads(c) /\ call' = [call EXCEPT ![c].force = FALSE]
    BY <1>6 DEF SwitchMemTable
  <2>2. \A d \in Clients : call'[d].batch = call[d].batch
    BY <2>1 DEF CallsTyped, Call
  <2>3. Grouped = {}
    BY <2>1 DEF Leads, Grouped
  <2> QED
    BY <2>1, <2>2, <2>3 DEF BatchKept, Unled
<1>7. ASSUME NEW c \in Clients, WriteLog(c) \/ SyncLog(c)
      PROVE  issued' = issued /\ Unled' /\ \A d \in Clients : BatchKept(d)
  <2>1. /\ issued' = issued /\ call' = call /\ writers' = writers
        /\ \E step \in {"sync", "insert"} : leader' = [leader EXCEPT !.step = step]
    BY <1>7 DEF WriteLog, SyncLog
  <2>2. leader' .step # "idle" /\ leader'.n = leader.n
    BY <2>1 DEF CallsTyped
  <2> QED
    BY <2>1, <2>2 DEF BatchKept, Unled, Grouped
<1>8. ASSUME NEW c \in Clients, WriteLogFails(c) \/ SyncLogFails(c) \/ InsertInto(c)
      PROVE  issued' = issued /\ Unled' /\ \A d \in Clients : BatchKept(d)
  <2>1. (Finish(leader.n, FALSE) \/ Finish(leader.n, TRUE)) /\ issued' = issued
    BY <1>8 DEF WriteLogFails, SyncLogFails, InsertInto
  <2> QED
    BY <1>2, <1>3, <2>1
<1>9. ASSUME NEW c \in Clients, RoomWaits(c) \/ WaitFlushed(c)
      PROVE  issued' = issued /\ Unled' /\ \A d \in Clients : BatchKept(d)
  BY <1>1, <1>9 DEF RoomWaits, WaitFlushed
<1>10. ASSUME NEW c \in Clients, Flushed(c)
       PROVE  issued' = issued /\ Unled' /\ \A d \in Clients : BatchKept(d)
  <2>1. call' = [call EXCEPT ![c] = NoCall] /\ leader' = leader /\ writers' = writers /\ issued' = issued
    BY <1>10 DEF Flushed
  <2>2. \A d \in Clients : call'[d].batch = call[d].batch \/ call'[d].batch = 0
    BY <2>1, NoCallBatch DEF CallsTyped
  <2> QED
    BY <2>1, <2>2 DEF BatchKept, Unled, Grouped
<1>11. ASSUME Background \/ Recover \/ ReplayLog \/ CreateLog \/ CommitOpen
       PROVE  issued' = issued /\ Unled' /\ \A d \in Clients : BatchKept(d)
  <2>1. call' = call /\ leader' = leader /\ writers' = writers /\ issued' = issued
    BY <1>11 DEF Background, NothingToDo, StartFlush, BuildTable, BuildTableFails, FlushDone,
      FlushFails, StartMerge, MergeTables, MergeFails, InstallMerge, InstallMergeFails,
      Recover, ReplayLog, CreateLog, CommitOpen, callVars
  <2> QED
    BY <1>1, <2>1
<1>12. ASSUME OpenFails \/ Kill \/ PowerLoss
       PROVE  issued' = issued /\ Unled' /\ \A d \in Clients : BatchKept(d)
  <2>1. call' = [d \in Clients |-> NoCall] /\ leader' = NoLeader /\ issued' = issued
    BY <1>12 DEF OpenFails, Kill, PowerLoss, Down
  <2>2. \A d \in Clients : call'[d].batch = 0
    BY <2>1, NoCallBatch
  <2> QED
    BY <2>1, <2>2 DEF BatchKept, Unled
<1>13. ASSUME UNCHANGED vars
       PROVE  issued' = issued /\ Unled' /\ \A d \in Clients : BatchKept(d)
  BY <1>1, <1>13 DEF vars, callVars
<1> QED
  BY <1>4, <1>5, <1>6, <1>7, <1>8, <1>9, <1>10, <1>11, <1>12, <1>13
  DEF Next, OpenSteps, Room, LogCalls

(* The start of a call: a new batch, or none.                              *)
LEMMA BatchIssued ==
  ASSUME CallsTyped, NEW c \in Clients, Write(c) \/ CompactMemTableNow(c)
  PROVE  \E batch \in {0, issued.batches + 1} :
           /\ batch <= issued'.batches /\ issued.batches <= issued'.batches
           /\ \A d \in Clients : call'[d].batch = IF d = c THEN batch ELSE call[d].batch
           /\ leader' = leader /\ Len(writers) <= Len(writers')
           /\ \A i \in 1..Len(writers) : writers'[i] = writers[i]
<1>1. issued.batches \in Nat /\ issued \in [batches : 0..MaxBatch, forced : Nat]
  BY StoreAssumption DEF CallsTyped
<1>2. ASSUME NEW op, NEW batch, NEW sync, Enqueue(c, op, batch, sync)
      PROVE  /\ \A d \in Clients : call'[d].batch = IF d = c THEN batch ELSE call[d].batch
             /\ leader' = leader /\ Len(writers) <= Len(writers')
             /\ \A i \in 1..Len(writers) : writers'[i] = writers[i]
  <2>1. /\ writers' = Append(writers, c) /\ leader' = leader
        /\ \E new : new.batch = batch /\ call' = [call EXCEPT ![c] = new]
    <3> DEFINE new == [NoCall EXCEPT !.op = op, !.batch = batch, !.sync = sync,
                         !.force = (batch = 0), !.since = IF batch = 0 THEN lastSequence ELSE 0]
    <3>1. writers' = Append(writers, c) /\ leader' = leader /\ call' = [call EXCEPT ![c] = new]
      BY <1>2, Zenon DEF Enqueue
    <3>2. new.batch = batch
      BY DEF NoCall
    <3> HIDE DEF new
    <3> QED
      BY <3>1, <3>2
  <2>2. \A d \in Clients : call'[d].batch = IF d = c THEN batch ELSE call[d].batch
    BY <2>1 DEF CallsTyped
  <2>3. writers \in Seq(Clients)
    BY DEF CallsTyped
  <2>4. Len(writers') = Len(writers) + 1 /\ Len(writers) \in Nat
        /\ \A i \in 1..Len(writers) : writers'[i] = writers[i]
    BY <2>1, <2>3
  <2> QED
    BY <2>1, <2>2, <2>4
<1>3. CASE Write(c)
  <2>1. issued' = [issued EXCEPT !.batches = @ + 1]
        /\ \E sync \in BOOLEAN : Enqueue(c, "write", issued'.batches, sync)
    BY <1>3, Zenon DEF Write
  <2>2. issued'.batches = issued.batches + 1
    BY <1>1, <2>1
  <2>3. PICK sync \in BOOLEAN : Enqueue(c, "write", issued'.batches, sync)
    BY <2>1
  <2> DEFINE batch == issued.batches + 1
  <2>4. /\ \A d \in Clients : call'[d].batch = IF d = c THEN batch ELSE call[d].batch
        /\ leader' = leader /\ Len(writers) <= Len(writers')
        /\ \A i \in 1..Len(writers) : writers'[i] = writers[i]
    BY <1>2, <2>2, <2>3
  <2>5. batch <= issued'.batches /\ issued.batches <= issued'.batches
    BY <1>1, <2>2
  <2> QED
    BY <2>4, <2>5
<1>4. CASE CompactMemTableNow(c)
  <2>1. issued' = [issued EXCEPT !.forced = @ + 1] /\ Enqueue(c, "compact", 0, FALSE)
    BY <1>4, Zenon DEF CompactMemTableNow
  <2>2. issued'.batches = issued.batches
    BY <1>1, <2>1
  <2>3. 0 <= issued'.batches /\ issued.batches <= issued'.batches
    BY <1>1, <2>2
  <2>4. /\ \A d \in Clients : call'[d].batch = IF d = c THEN 0 ELSE call[d].batch
        /\ leader' = leader /\ Len(writers) <= Len(writers')
        /\ \A i \in 1..Len(writers) : writers'[i] = writers[i]
    BY <1>2, <2>1
  <2> QED
    BY <2>3, <2>4
<1> QED
  BY <1>3, <1>4

(* No two calls write the same batch.                                      *)
LEMMA DistinctNext ==
  ASSUME CallsTyped, Idle, Unled, Distinct, [Next]_vars
  PROVE  Distinct'
<1>1. /\ issued.batches \in Nat /\ \A c \in Clients : call[c].batch \in Nat
  BY StoreAssumption DEF CallsTyped, Call
<1>2. CASE \A c \in Clients : ~Write(c) /\ ~CompactMemTableNow(c)
  <2>1. issued' = issued /\ \A c \in Clients : call'[c].batch = call[c].batch \/ call'[c].batch = 0
    BY <1>2, BatchesKept DEF BatchKept
  <2> QED
    BY <1>1, <2>1 DEF Distinct
<1>3. ASSUME NEW c \in Clients, Write(c) \/ CompactMemTableNow(c)
      PROVE  Distinct'
  <2>1. PICK batch \in {0, issued.batches + 1} :
           /\ batch <= issued'.batches /\ issued.batches <= issued'.batches
           /\ \A d \in Clients : call'[d].batch = IF d = c THEN batch ELSE call[d].batch
    BY <1>3, BatchIssued
  <2>2. issued'.batches \in Nat
    <3>1. issued' = [issued EXCEPT !.batches = @ + 1] \/ issued' = [issued EXCEPT !.forced = @ + 1]
      BY <1>3, Zenon DEF Write, CompactMemTableNow
    <3> QED
      BY <1>1, <3>1 DEF CallsTyped
  <2>3. \A d \in Clients : call[d].batch <= issued.batches
    BY DEF Distinct
  <2>4. \A d \in Clients : call'[d].batch <= issued'.batches
    BY <1>1, <2>1, <2>2, <2>3
  <2>5. \A d \in Clients : d # c /\ call[d].batch = batch => batch = 0
    BY <1>1, <2>1, <2>3
  <2>6. \A d, e \in Clients : call'[d].batch = call'[e].batch /\ call'[d].batch # 0 => d = e
    <3> SUFFICES ASSUME NEW d \in Clients, NEW e \in Clients,
                        call'[d].batch = call'[e].batch, call'[d].batch # 0
                 PROVE  d = e
      OBVIOUS
    <3>1. CASE d # c /\ e # c
      BY <2>1, <3>1 DEF Distinct
    <3>2. CASE d = c /\ e # c
      BY <2>1, <2>5, <3>2
    <3>3. CASE d # c /\ e = c
      BY <2>1, <2>5, <3>3
    <3> QED
      BY <3>1, <3>2, <3>3
  <2> QED
    BY <2>4, <2>6 DEF Distinct
<1> QED
  BY <1>2, <1>3

(* Every step keeps a leader only while a group is under way.              *)
LEMMA UnledNext ==
  ASSUME CallsTyped, Idle, Unled, [Next]_vars
  PROVE  Unled'
<1>1. CASE \A c \in Clients : ~Write(c) /\ ~CompactMemTableNow(c)
  BY <1>1, BatchesKept
<1>2. ASSUME NEW c \in Clients, Write(c) \/ CompactMemTableNow(c)
      PROVE  Unled'
  BY <1>2, EnqueueFrame DEF Unled
<1> QED
  BY <1>1, <1>2

(* New logs have the highest numbers.                                      *)
LEMMA LogsBelowNext ==
  ASSUME CallsTyped, TypedInv, Idle, LogInUse, LogsBelow, [Next]_vars
  PROVE  LogsBelow'
<1> USE DEF TypedInv
<1>1. /\ nextFile \in Nat /\ logfileNumber \in Nat /\ DOMAIN logs \subseteq Nat
      /\ opening.left \subseteq DOMAIN logs
  BY DEF MemoryTyped, DiskTyped
<1>2. ASSUME up = "open", up' = up, logfileNumber' = logfileNumber, DOMAIN logs' \subseteq DOMAIN logs
      PROVE  LogsBelow'
  BY <1>2 DEF LogsBelow
<1>3. ASSUME NEW c \in Clients, Write(c) \/ CompactMemTableNow(c) \/ WaitFlushed(c) \/ Flushed(c)
      PROVE  LogsBelow'
  <2>1. up = "open" /\ UNCHANGED <<memVars, openVars, diskVars>>
    BY <1>3, EnqueueFrame DEF WaitFlushed, Flushed
  <2> QED
    BY <1>2, <2>1 DEF memVars, openVars, diskVars
<1>4. ASSUME NEW c \in Clients, RoomError(c) \/ RoomThere(c) \/ RoomWaits(c) \/ RoomNoFile(c)
                                \/ SyncLogFails(c) \/ InsertInto(c)
      PROVE  LogsBelow'
  <2>1. up = "open" /\ up' = up /\ UNCHANGED <<logfileNumber, logs>>
    BY <1>4 DEF RoomError, RoomThere, RoomWaits, RoomNoFile, SyncLogFails, InsertInto, Leads, Writing,
      memVars, openVars, diskVars
  <2> QED
    BY <1>2, <2>1
<1>5. ASSUME NEW c \in Clients, WriteLog(c) \/ WriteLogFails(c) \/ SyncLog(c)
      PROVE  LogsBelow'
  <2>1. up = "open" /\ UNCHANGED <<openVars, logfileNumber>>
        /\ \E file : logs' = [logs EXCEPT ![logfileNumber] = file]
    <3>1. CASE WriteLog(c)
      BY <3>1 DEF WriteLog, Writing
    <3>2. CASE WriteLogFails(c)
      BY <3>2 DEF WriteLogFails, Writing
    <3>3. CASE SyncLog(c)
      <4>1. logs' = [logs EXCEPT ![logfileNumber] =
                  [logs[logfileNumber] EXCEPT !.synced = Len(logs[logfileNumber].units)]]
        BY <3>3 DEF SyncLog
      <4> QED
        BY <3>3, <4>1 DEF SyncLog, Writing, memVars
    <3> QED
      BY <1>5, <3>1, <3>2, <3>3
  <2> QED
    BY <1>2, <2>1 DEF openVars
<1>6. ASSUME NEW c \in Clients, SwitchMemTable(c)
      PROVE  LogsBelow'
  <2>1. logs' = With(logs, nextFile, NewLog) /\ logfileNumber' = nextFile /\ up = "open" /\ up' = up
    BY <1>6 DEF SwitchMemTable, Leads, openVars
  <2>2. DOMAIN logs' = DOMAIN logs \cup {nextFile}
    BY <2>1 DEF With
  <2>3. \A n \in DOMAIN logs : n <= nextFile
    BY <1>1, <2>1 DEF LogsBelow, LogInUse
  <2> QED
    BY <1>1, <2>1, <2>2, <2>3 DEF LogsBelow
<1>7. ASSUME Background
      PROVE  LogsBelow'
  <2>1. up = "open" /\ up' = up /\ logfileNumber' = logfileNumber
    <3>1. UNCHANGED <<up, logfileNumber>>
      BY <1>7 DEF Background, NothingToDo, StartFlush, BuildTable, BuildTableFails, FlushDone,
        FlushFails, StartMerge, MergeTables, MergeFails, InstallMerge, InstallMergeFails,
        memVars, openVars
    <3> QED
      BY <1>7, <3>1, BackgroundOpen
  <2>2. DOMAIN logs' \subseteq DOMAIN logs
    <3>1. CASE FlushDone \/ InstallMerge
      <4>1. \E v, pending : DeleteObsoleteFiles(v, pending)
        BY <3>1 DEF FlushDone, InstallMerge
      <4> QED
        BY <4>1, DeleteTyped
    <3>2. CASE ~(FlushDone \/ InstallMerge)
      BY <1>7, <3>2 DEF Background, NothingToDo, StartFlush, BuildTable, BuildTableFails,
        FlushFails, StartMerge, MergeTables, MergeFails, InstallMergeFails, diskVars
    <3> QED
      BY <3>1, <3>2
  <2> QED
    BY <1>2, <2>1, <2>2
<1>8. ASSUME Recover
      PROVE  LogsBelow'
  <2>1. PICK m \in ToSet(manifests) :
          /\ nextFile' = Max({m.next, m.log}) + 1
          /\ opening' = [left |-> {n \in DOMAIN logs : n >= m.log}, made |-> {}]
    BY <1>8 DEF Recover
  <2>2. up' = "replay" /\ logs' = logs
    BY <1>8 DEF Recover
  <2>3. m \in Manifest
    BY DEF DiskTyped, ToSet
  <2>4. m.log \in Nat /\ m.log < nextFile' /\ nextFile' \in Nat
    BY <2>1, <2>3, NextFile DEF Manifest
  <2>5. ASSUME NEW n \in DOMAIN logs', n \notin opening'.left
        PROVE  n < nextFile'
    <3>1. n \in Nat /\ ~(n >= m.log)
      BY <1>1, <2>1, <2>2, <2>5
    <3> QED
      BY <2>4, <3>1
  <2> QED
    BY <2>2, <2>5 DEF LogsBelow
<1>9. ASSUME ReplayLog
      PROVE  LogsBelow'
  <2> DEFINE n == Min(opening.left)
             next == IF Replayed(n) = {} THEN nextFile ELSE nextFile + 1
  <2>1. /\ opening.left # {} /\ up = "replay"
        /\ nextFile' = MarkFileNumberUsed(n, next)
        /\ opening'.left = opening.left \ {n} /\ up' = up /\ logs' = logs
    BY <1>9 DEF ReplayLog
  <2>2. n \in opening.left /\ n \in Nat
    <3>1. opening.left \subseteq Nat
      BY DEF MemoryTyped
    <3> QED
      BY <2>1, <3>1, MinOf
  <2>3. next \in Nat /\ nextFile <= next
    BY <1>1
  <2> HIDE DEF n, next
  <2>4. n < nextFile' /\ nextFile <= nextFile' /\ nextFile' \in Nat
    BY <1>1, <2>1, <2>2, <2>3 DEF MarkFileNumberUsed
  <2>5. ASSUME NEW k \in DOMAIN logs', k \notin opening'.left
        PROVE  k < nextFile'
    <3>1. k = n \/ k < nextFile
      BY <2>1, <2>5 DEF LogsBelow
    <3>2. k \in Nat
      BY <1>1, <2>1
    <3> QED
      BY <1>1, <2>4, <3>1, <3>2
  <2> QED
    BY <2>1, <2>5 DEF LogsBelow
<1>10. ASSUME CreateLog
       PROVE  LogsBelow'
  <2>1. /\ opening.left = {} /\ up = "replay" /\ logs' = With(logs, nextFile, NewLog)
        /\ logfileNumber' = nextFile /\ up' = "commit"
    BY <1>10 DEF CreateLog
  <2>2. DOMAIN logs' = DOMAIN logs \cup {nextFile} /\ logs'[nextFile] = NewLog
    BY <2>1 DEF With
  <2>3. \A n \in DOMAIN logs : n <= nextFile
    BY <1>1, <2>1 DEF LogsBelow
  <2>4. \A n \in DOMAIN logs' : n <= logfileNumber'
    BY <1>1, <2>1, <2>2, <2>3
  <2> QED
    BY <2>1, <2>2, <2>4 DEF LogsBelow, NewLog
<1>11. ASSUME CommitOpen
       PROVE  LogsBelow'
  <2>1. DeleteObsoleteFiles(version', {}) /\ up = "commit" /\ up' = "open"
        /\ logfileNumber' = logfileNumber
    BY <1>11 DEF CommitOpen, memVars
  <2>2. DOMAIN logs' \subseteq DOMAIN logs
    BY <2>1, DeleteTyped
  <2> QED
    BY <2>1, <2>2 DEF LogsBelow
<1>12. ASSUME OpenFails \/ Kill \/ PowerLoss
       PROVE  LogsBelow'
  <2>1. up' = "closed"
    BY <1>12 DEF OpenFails, Kill, PowerLoss, Down
  <2> QED
    BY <2>1 DEF LogsBelow
<1>13. ASSUME UNCHANGED vars
       PROVE  LogsBelow'
  BY <1>13 DEF vars, memVars, openVars, diskVars, LogsBelow
<1> QED
  BY <1>3, <1>4, <1>5, <1>6, <1>7, <1>8, <1>9, <1>10, <1>11, <1>12, <1>13
  DEF Next, OpenSteps, Room, LogCalls

-----------------------------------------------------------------------------
(* A group of batches is put together.                                     *)
Grouping == \E c \in Clients : RoomThere(c) /\ call[c].batch # 0

(* Memory keeps whole batches.                                             *)
LEMMA MemoryWhole ==
  ASSUME CallsTyped, Idle, NEW W, Stored(W), [Next]_vars, ~Grouping
  PROVE  WholeIn(W, mem') /\ WholeIn(W, imm') /\ WholeIn(W, ToSet(leader'.entries))
<1>1. /\ WholeIn(W, mem) /\ WholeIn(W, imm) /\ WholeIn(W, ToSet(leader.entries))
      /\ WholeIn(W, {}) /\ WholeIn(W, ToSet(<<>>)) /\ NoLeader.entries = <<>>
  BY WholeEmpty, NoCallBatch DEF Stored
<1>2. ASSUME mem' \in {mem, {}, mem \cup ToSet(leader.entries)}, imm' \in {imm, {}, mem},
             leader'.entries \in {leader.entries, <<>>}
      PROVE  WholeIn(W, mem') /\ WholeIn(W, imm') /\ WholeIn(W, ToSet(leader'.entries))
  <2>1. WholeIn(W, mem \cup ToSet(leader.entries))
    BY <1>1, WholeCup
  <2>2. WholeIn(W, mem') /\ WholeIn(W, imm')
    BY <1>1, <1>2, <2>1
  <2>3. WholeIn(W, ToSet(leader'.entries))
    BY <1>1, <1>2
  <2> QED
    BY <2>2, <2>3
<1> DEFINE Goal == /\ mem' \in {mem, {}, mem \cup ToSet(leader.entries)} /\ imm' \in {imm, {}, mem}
                   /\ leader'.entries \in {leader.entries, <<>>}
<1>3. ASSUME NEW c \in Clients, Write(c) \/ CompactMemTableNow(c) \/ WaitFlushed(c) \/ Flushed(c)
      PROVE  Goal
  <2>1. UNCHANGED <<leader, memVars>>
    BY <1>3, EnqueueFrame DEF WaitFlushed, Flushed
  <2> QED
    BY <2>1 DEF memVars
<1>4. ASSUME NEW c \in Clients, RoomError(c) \/ RoomWaits(c) \/ RoomNoFile(c) \/ RoomThere(c)
      PROVE  Goal
  <2>1. RoomThere(c) => call[c].batch = 0
    BY DEF Grouping
  <2>2. leader' \in {leader, NoLeader} /\ UNCHANGED memVars
    BY <1>4, <2>1 DEF RoomError, RoomWaits, RoomNoFile, RoomThere, Finish
  <2> QED
    BY <1>1, <2>2 DEF memVars
<1>5. ASSUME NEW c \in Clients, SwitchMemTable(c)
      PROVE  Goal
  BY <1>5 DEF SwitchMemTable
<1>6. ASSUME NEW c \in Clients, WriteLog(c) \/ SyncLog(c)
      PROVE  Goal
  <2>1. leader'.entries = leader.entries /\ UNCHANGED <<mem, imm>>
    BY <1>6 DEF WriteLog, SyncLog, memVars, CallsTyped
  <2> QED
    BY <2>1
<1>7. ASSUME NEW c \in Clients, WriteLogFails(c) \/ SyncLogFails(c) \/ InsertInto(c)
      PROVE  Goal
  <2>1. mem' \in {mem, mem \cup ToSet(leader.entries)} /\ imm' = imm /\ leader' = NoLeader
    BY <1>7 DEF WriteLogFails, SyncLogFails, InsertInto, Finish
  <2> QED
    BY <1>1, <2>1
<1>8. ASSUME Background \/ Recover \/ ReplayLog \/ CreateLog \/ CommitOpen
      PROVE  Goal
  <2>1. mem' = mem /\ imm' \in {imm, {}} /\ leader' = leader
    BY <1>8 DEF Background, NothingToDo, StartFlush, BuildTable, BuildTableFails, FlushDone,
      FlushFails, StartMerge, MergeTables, MergeFails, InstallMerge, InstallMergeFails,
      Recover, ReplayLog, CreateLog, CommitOpen, callVars, memVars
  <2> QED
    BY <2>1
<1>9. ASSUME OpenFails \/ Kill \/ PowerLoss
      PROVE  Goal
  <2>1. mem' = {} /\ imm' = {} /\ leader' = NoLeader
    BY <1>9 DEF OpenFails, Kill, PowerLoss, Down
  <2> QED
    BY <1>1, <2>1
<1>10. ASSUME UNCHANGED vars
       PROVE  Goal
  BY <1>10 DEF vars, callVars, memVars
<1>11. Goal
  <2> HIDE DEF Goal
  <2> QED
    BY <1>3, <1>4, <1>5, <1>6, <1>7, <1>8, <1>9, <1>10 DEF Next, OpenSteps, Room, LogCalls
<1> QED
  BY <1>2, <1>11

(* What a log replays to are whole batches.                                *)
LEMMA ReplayedWhole ==
  ASSUME TypedInv, NEW W, Logged(W), NEW n \in DOMAIN logs
  PROVE  WholeIn(W, Replayed(n))
<1>1. logs[n].units \in Seq(Entry \cup Headers(Entry))
  <2>1. logs[n] \in LogFile
    BY DEF TypedInv, DiskTyped
  <2> QED
    BY <2>1 DEF LogFile, Units
<1>2. ToSet(ReadRecords(logs[n].units)) \subseteq RecordsIn(W)
  BY <1>1, UnitsData, ReadGenuine DEF Logged
<1> DEFINE T == {ToSet(record) : record \in ToSet(ReadRecords(logs[n].units))}
<1>3. \A S \in T : WholeIn(W, S)
  BY <1>2 DEF RecordsIn
<1>4. Replayed(n) = UNION T
  BY DEF Replayed
<1> HIDE DEF T
<1> QED
  BY <1>3, <1>4, WholeUnion

(* Tables keep whole batches.                                              *)
LEMMA TablesWhole ==
  ASSUME CallsTyped, TypedInv, Idle, VersionsSound, FlushSound, MergeSound,
         NEW W, Stored(W), Logged(W), [Next]_vars
  PROVE  \A n \in DOMAIN tables' : WholeIn(W, tables'[n])
<1> DEFINE Goal == \A n \in DOMAIN tables' : WholeIn(W, tables'[n])
<1>1. /\ \A n \in DOMAIN tables : WholeIn(W, tables[n])
      /\ WholeIn(W, {}) /\ WholeIn(W, imm)
      /\ nextFile \in Nat /\ DOMAIN tables \subseteq Nat /\ tables \in [DOMAIN tables -> SUBSET Entry]
  BY WholeEmpty DEF Stored, TypedInv, MemoryTyped, DiskTyped
<1>2. ASSUME NEW n, NEW S, WholeIn(W, S), tables' = With(tables, n, S)
      PROVE  Goal
  BY <1>1, <1>2 DEF With
<1>3. ASSUME NEW n, NEW S, WholeIn(W, S), tables' = [tables EXCEPT ![n] = S]
      PROVE  Goal
  BY <1>1, <1>3
<1>4. ASSUME NEW c \in Clients,
             Write(c) \/ CompactMemTableNow(c) \/ WaitFlushed(c) \/ Flushed(c) \/ Room(c) \/ LogCalls(c)
      PROVE  Goal
  <2>1. tables' = tables
    BY <1>4, EnqueueFrame DEF WaitFlushed, Flushed, diskVars, Room, RoomError, RoomThere, RoomWaits,
      RoomNoFile, SwitchMemTable, LogCalls, WriteLog, WriteLogFails, SyncLog, SyncLogFails, InsertInto
  <2> QED
    BY <1>1, <2>1
<1>5. ASSUME StartFlush
      PROVE  Goal
  <2>1. tables' = tables \/ tables' = With(tables, nextFile, {})
    BY <1>5 DEF StartFlush
  <2> QED
    BY <1>1, <1>2, <2>1
<1>6. ASSUME StartMerge
      PROVE  Goal
  <2>1. tables' = With(tables, nextFile, {})
    BY <1>6 DEF StartMerge
  <2> QED
    BY <1>1, <1>2, <2>1
<1>7. ASSUME BuildTable
      PROVE  Goal
  <2>1. tables' = tables \/ tables' = [tables EXCEPT ![bg.file] = imm]
    BY <1>7 DEF BuildTable
  <2> QED
    BY <1>1, <1>3, <2>1
<1>8. ASSUME BuildTableFails
      PROVE  Goal
  <2>1. tables' = Without(tables, {bg.file})
    BY <1>8 DEF BuildTableFails
  <2> QED
    BY <1>1, <2>1 DEF Without
<1>9. ASSUME FlushDone \/ InstallMerge \/ CommitOpen
      PROVE  Goal
  <2>1. \E v, pending : DeleteObsoleteFiles(v, pending)
    BY <1>9 DEF FlushDone, InstallMerge, CommitOpen
  <2>2. DOMAIN tables' \subseteq DOMAIN tables /\ \A n \in DOMAIN tables' : tables'[n] = tables[n]
    BY <2>1, DeleteTyped
  <2> QED
    BY <1>1, <2>2
<1>10. ASSUME MergeTables
       PROVE  Goal
  <2> DEFINE T == {tables[n] : n \in bg.from}
  <2>1. tables' = [tables EXCEPT ![bg.into] = UNION T]
    BY <1>10 DEF MergeTables
  <2>2. bg.from \subseteq DOMAIN tables
    <3>1. bg.from \subseteq LiveTables(version)
      BY <1>10 DEF MergeTables, MergeSound
    <3>2. LiveTables(version) \subseteq DOMAIN tables
      BY DEF VersionsSound, Known, Sound, TablesOf
    <3> QED
      BY <3>1, <3>2
  <2>3. \A S \in T : WholeIn(W, S)
    BY <1>1, <2>2
  <2> HIDE DEF T
  <2>4. WholeIn(W, UNION T)
    BY <2>3, WholeUnion
  <2> QED
    BY <1>3, <2>1, <2>4
<1>11. ASSUME ReplayLog
       PROVE  Goal
  <2> DEFINE n == Min(opening.left)
  <2>1. opening.left # {} /\ (tables' = tables \/ tables' = With(tables, nextFile, Replayed(n)))
    BY <1>11 DEF ReplayLog
  <2>2. n \in DOMAIN logs
    <3>1. opening.left \subseteq Nat /\ opening.left \subseteq DOMAIN logs
      BY DEF TypedInv, MemoryTyped, DiskTyped
    <3> QED
      BY <2>1, <3>1, MinOf
  <2> HIDE DEF n
  <2>3. WholeIn(W, Replayed(n))
    BY <2>2, ReplayedWhole
  <2> QED
    BY <1>1, <1>2, <2>1, <2>3
<1>12. ASSUME \/ NothingToDo \/ FlushFails \/ MergeFails \/ InstallMergeFails
              \/ Recover \/ CreateLog \/ OpenFails \/ Kill \/ PowerLoss \/ UNCHANGED vars
       PROVE  Goal
  <2>1. tables' = tables
    BY <1>12 DEF NothingToDo, FlushFails, MergeFails, InstallMergeFails, Recover, CreateLog, OpenFails,
      Kill, PowerLoss, vars, diskVars
  <2> QED
    BY <1>1, <2>1
<1> HIDE DEF Goal
<1>13. Goal
  BY <1>4, <1>5, <1>6, <1>7, <1>8, <1>9, <1>10, <1>11, <1>12 DEF Next, OpenSteps, Background
<1> QED
  BY <1>13 DEF Goal

(* The record under way is of whole batches.                               *)
LEMMA RecordWhole ==
  ASSUME CallsTyped, TypedInv, NEW W, Stored(W), NEW u \in Seq(Units), Genuine(u, RecordsIn(W))
  PROVE  LET units == FlattenSeq(AddRecord(blockOffset, leader.entries)) IN
         units \in Seq(Units) /\ u \o units \in Seq(Units) /\ Genuine(u \o units, RecordsIn(W))
<1>1. leader.entries \in Seq(Entry) /\ leader.entries \in RecordsIn(W) /\ blockOffset \in 0..BlockSize
  BY DEF CallsTyped, TypedInv, MemoryTyped, Stored, RecordsIn
<1>2. u \in Seq(Entry \cup Headers(Entry))
  BY DEF Units
<1>3. Genuine(u \o FlattenSeq(AddRecord(blockOffset, leader.entries)), RecordsIn(W))
  BY <1>1, <1>2, UnitsData, GenuineRecord
<1>4. FlattenSeq(AddRecord(blockOffset, leader.entries)) \in Seq(Units)
  BY <1>1, RecordUnits
<1>5. u \o FlattenSeq(AddRecord(blockOffset, leader.entries)) \in Seq(Units)
  BY <1>4
<1> QED
  BY <1>3, <1>4, <1>5

(* Logs keep records of whole batches, wherever they are cut.              *)
LEMMA LogsWhole ==
  ASSUME CallsTyped, TypedInv, Idle, LogInUse, NEW W, Stored(W), Logged(W), [Next]_vars
  PROVE  Logged(W)'
<1>1. /\ nextFile \in Nat /\ DOMAIN logs \subseteq Nat /\ logs \in [DOMAIN logs -> LogFile]
      /\ \A n \in DOMAIN logs : logs[n].units \in Seq(Units) /\ Genuine(logs[n].units, RecordsIn(W))
      /\ Genuine(<<>>, RecordsIn(W))
  BY GenuineEmpty DEF TypedInv, MemoryTyped, DiskTyped, LogFile, Logged
<1>2. ASSUME NEW n, NEW file, Genuine(file.units, RecordsIn(W)), logs' = [logs EXCEPT ![n] = file]
      PROVE  Logged(W)'
  BY <1>1, <1>2 DEF Logged
<1>3. ASSUME DOMAIN logs' \subseteq DOMAIN logs, \A n \in DOMAIN logs' : logs'[n] = logs[n]
      PROVE  Logged(W)'
  BY <1>1, <1>3 DEF Logged
<1>4. ASSUME NEW c \in Clients,
             \/ Write(c) \/ CompactMemTableNow(c) \/ WaitFlushed(c) \/ Flushed(c)
             \/ RoomError(c) \/ RoomThere(c) \/ RoomWaits(c) \/ RoomNoFile(c)
             \/ SyncLogFails(c) \/ InsertInto(c)
      PROVE  Logged(W)'
  <2>1. logs' = logs
    BY <1>4, EnqueueFrame DEF WaitFlushed, Flushed, RoomError, RoomThere, RoomWaits, RoomNoFile,
      SyncLogFails, InsertInto, diskVars
  <2> QED
    BY <1>3, <2>1
<1>5. ASSUME (\E c \in Clients : SwitchMemTable(c)) \/ CreateLog
      PROVE  Logged(W)'
  <2>1. logs' = With(logs, nextFile, NewLog)
    BY <1>5 DEF SwitchMemTable, CreateLog
  <2>2. DOMAIN logs' = DOMAIN logs \cup {nextFile}
        /\ \A n \in DOMAIN logs' : logs'[n] = IF n = nextFile THEN NewLog ELSE logs[n]
    BY <2>1 DEF With
  <2>3. NewLog.units = <<>>
    BY DEF NewLog
  <2> QED
    BY <1>1, <2>2, <2>3 DEF Logged
<1>6. ASSUME NEW c \in Clients, WriteLog(c) \/ WriteLogFails(c) \/ SyncLog(c)
      PROVE  /\ logfileNumber \in DOMAIN logs /\ logs[logfileNumber] \in LogFile
             /\ logs[logfileNumber].units \in Seq(Units)
             /\ Genuine(logs[logfileNumber].units, RecordsIn(W))
  <2>1. up = "open"
    BY <1>6 DEF WriteLog, WriteLogFails, SyncLog, Writing
  <2> QED
    BY <1>1, <2>1 DEF LogInUse
<1>7. ASSUME NEW c \in Clients, WriteLog(c)
      PROVE  Logged(W)'
  <2> DEFINE file == logs[logfileNumber]
             units == FlattenSeq(AddRecord(blockOffset, leader.entries))
  <2>1. logs' = [logs EXCEPT ![logfileNumber] = Appended(file, units)]
    BY <1>7 DEF WriteLog
  <2>2. Genuine(file.units \o units, RecordsIn(W))
    BY <1>6, <1>7, RecordWhole
  <2>3. file \in LogFile
    BY <1>6, <1>7
  <2> HIDE DEF file, units
  <2>4. Appended(file, units).units = file.units \o units
    BY <2>3 DEF Appended, LogFile
  <2> QED
    BY <1>2, <2>1, <2>2, <2>4
<1>8. ASSUME NEW c \in Clients, WriteLogFails(c)
      PROVE  Logged(W)'
  <2> DEFINE file == logs[logfileNumber]
             fragments == AddRecord(blockOffset, leader.entries)
  <2>1. fragments \in Seq(Seq(Units))
    BY RecordUnits DEF CallsTyped, TypedInv, MemoryTyped
  <2>2. Genuine(file.units \o FlattenSeq(fragments), RecordsIn(W)) /\ file \in LogFile
        /\ file.units \in Seq(Units)
    BY <1>6, <1>8, RecordWhole
  <2>3. PICK i \in DOMAIN fragments, k \in 0..Len(FlattenSeq(fragments)) :
          /\ k < Len(fragments[i])
          /\ logs' = [logs EXCEPT ![logfileNumber] =
               [Appended(file, FlattenSeq(SubSeq(fragments, 1, i - 1)) \o SubSeq(fragments[i], 1, k))
                  EXCEPT !.bad = TRUE]]
    BY <1>8 DEF WriteLogFails
  <2> HIDE DEF file, fragments
  <2> DEFINE before == FlattenSeq(SubSeq(fragments, 1, i - 1))
             part == SubSeq(fragments[i], 1, k)
  <2>4. i \in 1..Len(fragments) /\ fragments[i] \in Seq(Units) /\ Len(fragments) \in Nat
    BY <2>1
  <2>5. Len(FlattenSeq(fragments)) \in Nat /\ Len(fragments[i]) \in Nat
    BY <2>1, <2>4, FlattenTyped, LenProperties
  <2>6. k \in 0..Len(fragments[i])
    BY <2>3, <2>5
  <2>7. PICK v \in Seq(Units) : FlattenSeq(fragments) = (before \o part) \o v
    BY <2>1, <2>4, <2>6, FailedAppend
  <2>8. before \o part \in Seq(Units)
    <3>1. SubSeq(fragments, 1, i - 1) \in Seq(Seq(Units))
      BY <2>1, <2>4
    <3>2. before \in Seq(Units)
      BY <3>1, FlattenTyped
    <3>3. part \in Seq(Units)
      BY <2>4, <2>6
    <3> HIDE DEF before, part
    <3> QED
      BY <3>2, <3>3
  <2> DEFINE some == before \o part
  <2> HIDE DEF before, part
  <2>9. some \in Seq(Units) /\ FlattenSeq(fragments) = some \o v
    BY <2>7, <2>8
  <2>10. logs' = [logs EXCEPT ![logfileNumber] = [Appended(file, some) EXCEPT !.bad = TRUE]]
    BY <2>3 DEF before, part
  <2> HIDE DEF some
  <2>11. file.units \o (some \o v) = (file.units \o some) \o v /\ file.units \o some \in Seq(Units)
    <3> DEFINE u == file.units
    <3>1. u \in Seq(Units) /\ some \in Seq(Units) /\ v \in Seq(Units)
      BY <2>2, <2>9
    <3> HIDE DEF u
    <3>2. Associate(u, some, v)
      BY <3>1, AllAssociate, Zenon
    <3>3. u \o some \in Seq(Units)
      BY <3>1
    <3> QED
      BY <3>2, <3>3 DEF u, Associate
  <2>12. Genuine((file.units \o some) \o v, RecordsIn(W))
    BY <2>2, <2>9, <2>11, Zenon
  <2>13. Genuine(file.units \o some, RecordsIn(W))
    BY <2>11, <2>12, GenuinePrefix
  <2>14. [Appended(file, some) EXCEPT !.bad = TRUE].units = file.units \o some
    BY <2>2 DEF Appended, LogFile
  <2> QED
    BY <1>2, <2>10, <2>13, <2>14
<1>9. ASSUME NEW c \in Clients, SyncLog(c)
      PROVE  Logged(W)'
  <2> DEFINE file == [logs[logfileNumber] EXCEPT !.synced = Len(logs[logfileNumber].units)]
  <2>1. logs' = [logs EXCEPT ![logfileNumber] = file]
    BY <1>9 DEF SyncLog
  <2>2. Genuine(file.units, RecordsIn(W))
    BY <1>6, <1>9 DEF LogFile
  <2> HIDE DEF file
  <2> QED
    BY <1>2, <2>1, <2>2
<1>10. ASSUME FlushDone \/ InstallMerge \/ CommitOpen
       PROVE  Logged(W)'
  <2>1. PICK v, pending : DeleteObsoleteFiles(v, pending)
    BY <1>10 DEF FlushDone, InstallMerge, CommitOpen
  <2>2. logs' = logs \/ logs' = Without(logs, Obsolete(v, pending).logs)
    BY <2>1 DEF DeleteObsoleteFiles
  <2> QED
    BY <1>3, <2>2 DEF Without
<1>11. ASSUME NEW least, \A n \in DOMAIN logs : least[n] \in Nat, logs' \in CutLogs(least)
       PROVE  Logged(W)'
  <2>1. PICK cut : /\ \A n \in DOMAIN logs : cut[n] \in least[n]..Len(Held(n))
                   /\ logs' = [n \in DOMAIN logs |->
                        [logs[n] EXCEPT !.units = SubSeq(Held(n), 1, cut[n])]]
    BY <1>11 DEF CutLogs
  <2>2. ASSUME NEW n \in DOMAIN logs
        PROVE  Genuine(logs'[n].units, RecordsIn(W))
    <3>1. Held(n) \in Seq(Units) /\ Genuine(Held(n), RecordsIn(W))
      <4> DEFINE units == FlattenSeq(AddRecord(blockOffset, leader.entries))
      <4>1. CASE leader.step = "log" /\ n = logfileNumber
        <5>1. Held(n) = logs[n].units \o units
          BY <4>1 DEF Held
        <5>2. logs[n].units \in Seq(Units) /\ Genuine(logs[n].units, RecordsIn(W))
          BY <1>1
        <5> QED
          BY <5>1, <5>2, RecordWhole
      <4>2. CASE ~(leader.step = "log" /\ n = logfileNumber)
        <5>1. Held(n) = logs[n].units
          BY <1>1, <4>2, ConcatEmptySeq DEF Held
        <5> QED
          BY <1>1, <5>1
      <4> QED
        BY <4>1, <4>2
    <3> DEFINE held == Held(n)
    <3>2. held \in Seq(Units) /\ Genuine(held, RecordsIn(W)) /\ cut[n] \in least[n]..Len(held)
          /\ least[n] \in Nat
      BY <1>11, <2>1, <3>1
    <3> HIDE DEF held
    <3>3. cut[n] \in 0..Len(held)
      BY <3>2, LenProperties
    <3>4. Genuine(SubSeq(held, 1, cut[n]), RecordsIn(W))
      BY <3>2, <3>3, GenuineCut
    <3>5. logs'[n].units = SubSeq(held, 1, cut[n])
      <4>1. logs'[n] = [logs[n] EXCEPT !.units = SubSeq(held, 1, cut[n])] /\ logs[n] \in LogFile
        BY <1>1, <2>1 DEF held
      <4> QED
        BY <4>1 DEF LogFile
    <3> QED
      BY <3>4, <3>5
  <2> QED
    BY <2>1, <2>2 DEF Logged
<1>12. ASSUME Kill \/ PowerLoss
       PROVE  Logged(W)'
  <2>1. \A n \in DOMAIN logs : Written[n] \in Nat /\ Synced[n] \in Nat
    BY <1>1 DEF Written, Synced, LogFile
  <2>2. logs' \in CutLogs(Written) \/ logs' \in CutLogs(Synced)
    BY <1>12 DEF Kill, PowerLoss
  <2> QED
    BY <1>11, <2>1, <2>2
<1>13. ASSUME \/ NothingToDo \/ StartFlush \/ BuildTable \/ BuildTableFails \/ FlushFails
              \/ StartMerge \/ MergeTables \/ MergeFails \/ InstallMergeFails
              \/ Recover \/ ReplayLog \/ OpenFails \/ UNCHANGED vars
       PROVE  Logged(W)'
  <2>1. logs' = logs
    BY <1>13 DEF NothingToDo, StartFlush, BuildTable, BuildTableFails, FlushFails, StartMerge,
      MergeTables, MergeFails, InstallMergeFails, Recover, ReplayLog, OpenFails, vars, diskVars
  <2> QED
    BY <1>3, <2>1
<1> QED
  BY <1>4, <1>5, <1>7, <1>8, <1>9, <1>10, <1>12, <1>13
  DEF Next, OpenSteps, Background, Room, LogCalls

(* Blocks are sets of entries.                                             *)
LEMMA BlocksTyped ==
  ASSUME NEW W, W \subseteq Blocks, NEW w \in W, NEW e \in w
  PROVE  e.batch \in Nat /\ e.batch # 0 /\ e.seq \in Nat
BY BlockIs

(* Sequence numbers only grow while the database is open.                  *)
LEMMA SequenceGrows ==
  ASSUME CallsTyped, TypedInv, Idle, Unled, [Next]_vars, ~Grouping, ~CommitOpen, up' = "open"
  PROVE  up = "open" /\ lastSequence + Len(leader.entries) <= lastSequence' + Len(leader'.entries)
<1>1. lastSequence \in Nat /\ Len(leader.entries) \in Nat /\ Len(NoLeader.entries) = 0
  BY DEF CallsTyped, TypedInv, MemoryTyped, NoLeader
<1> DEFINE Grown == /\ up = "open"
                    /\ \/ lastSequence' = lastSequence /\ leader'.entries = leader.entries
                       \/ lastSequence' = SequenceAfterGroup /\ leader' = NoLeader
<1>2. ASSUME NEW c \in Clients, Write(c) \/ CompactMemTableNow(c) \/ WaitFlushed(c) \/ Flushed(c)
      PROVE  Grown
  <2>1. up = "open" /\ UNCHANGED <<leader, memVars>>
    BY <1>2, EnqueueFrame DEF WaitFlushed, Flushed
  <2> QED
    BY <2>1 DEF memVars
<1>3. ASSUME NEW c \in Clients, RoomError(c) \/ RoomWaits(c) \/ RoomNoFile(c) \/ RoomThere(c)
      PROVE  Grown
  <2>1. RoomThere(c) => call[c].batch = 0
    BY DEF Grouping
  <2>2. Leads(c) /\ leader' \in {leader, NoLeader} /\ UNCHANGED memVars
    BY <1>3, <2>1 DEF RoomError, RoomWaits, RoomNoFile, RoomThere, Finish
  <2>3. leader = NoLeader /\ up = "open"
    BY <2>2 DEF Leads, Unled
  <2> QED
    BY <2>2, <2>3 DEF memVars
<1>4. ASSUME NEW c \in Clients, SwitchMemTable(c)
      PROVE  Grown
  BY <1>4 DEF SwitchMemTable, Leads
<1>5. ASSUME NEW c \in Clients, WriteLog(c) \/ SyncLog(c)
      PROVE  Grown
  BY <1>5 DEF WriteLog, SyncLog, memVars, CallsTyped, Writing
<1>6. ASSUME NEW c \in Clients, WriteLogFails(c) \/ SyncLogFails(c) \/ InsertInto(c)
      PROVE  Grown
  BY <1>6 DEF WriteLogFails, SyncLogFails, InsertInto, Finish, Writing
<1>7. ASSUME Background
      PROVE  Grown
  <2>1. lastSequence' = lastSequence /\ leader' = leader
    BY <1>7 DEF Background, NothingToDo, StartFlush, BuildTable, BuildTableFails, FlushDone,
      FlushFails, StartMerge, MergeTables, MergeFails, InstallMerge, InstallMergeFails,
      callVars, memVars
  <2> QED
    BY <1>7, <2>1, BackgroundOpen
<1>8. ~(Recover \/ ReplayLog \/ CreateLog \/ OpenFails \/ Kill \/ PowerLoss)
  BY DEF Recover, ReplayLog, CreateLog, OpenFails, Kill, PowerLoss, Down
<1>9. ASSUME UNCHANGED vars
      PROVE  Grown
  BY <1>9 DEF vars, callVars, memVars, openVars
<1>10. Grown
  <2> HIDE DEF Grown
  <2> QED
    BY <1>2, <1>3, <1>4, <1>5, <1>6, <1>7, <1>8, <1>9 DEF Next, OpenSteps, Room, LogCalls
<1> QED
  BY <1>1, <1>10 DEF SequenceAfterGroup

(* The numbers that were given out, and the batches that wait.             *)
LEMMA NumbersNext ==
  ASSUME CallsTyped, TypedInv, Idle, Unled, NEW W, W \subseteq Blocks, Numbered(W), Waiting(W),
         [Next]_vars, ~Grouping, ~CommitOpen, CallsTyped', TypedInv'
  PROVE  Numbered(W)' /\ Waiting(W)'
<1>1. \A w \in W : \A e \in w : e.batch \in Nat /\ e.batch # 0 /\ e.seq \in Nat
  BY BlocksTyped
<1>2. issued.batches \in Nat /\ lastSequence \in Nat /\ Len(leader.entries) \in Nat
      /\ writers \in Seq(Clients) /\ leader.n \in Nat /\ leader.n <= Len(writers) /\ Len(writers) \in Nat
  BY StoreAssumption DEF CallsTyped, TypedInv, MemoryTyped
<1>3. (up' = "open") => \A w \in W : \A e \in w : e.seq <= lastSequence' + Len(leader'.entries)
  <2> SUFFICES ASSUME up' = "open", NEW w \in W, NEW e \in w
               PROVE  e.seq <= lastSequence' + Len(leader'.entries)
    OBVIOUS
  <2>1. up = "open" /\ lastSequence + Len(leader.entries) <= lastSequence' + Len(leader'.entries)
    BY SequenceGrows
  <2>2. e.seq <= lastSequence + Len(leader.entries)
    BY <2>1 DEF Numbered
  <2>3. lastSequence' + Len(leader'.entries) \in Nat
    <3>1. lastSequence' \in Nat /\ leader'.entries \in Seq(Entry)
      BY DEF CallsTyped, TypedInv, MemoryTyped
    <3> QED
      BY <3>1
  <2> QED
    BY <1>1, <1>2, <2>1, <2>2, <2>3
<1>4. CASE \A c \in Clients : ~Write(c) /\ ~CompactMemTableNow(c)
  <2>1. issued' = issued /\ \A c \in Clients : BatchKept(c)
    BY <1>4, BatchesKept
  <2>2. Numbered(W)'
    BY <1>3, <2>1 DEF Numbered
  <2>3. Waiting(W)'
    <3> SUFFICES ASSUME NEW c \in Clients, c \notin Grouped', NEW w \in W, NEW e \in w
                 PROVE  e.batch # call'[c].batch
      BY DEF Waiting
    <3>1. CASE call'[c].batch = 0
      BY <1>1, <3>1
    <3>2. CASE call'[c].batch # 0
      <4>1. c \notin Grouped /\ call'[c].batch = call[c].batch
        BY <2>1, <3>2 DEF BatchKept
      <4> QED
        BY <4>1 DEF Waiting
    <3> QED
      BY <3>1, <3>2
  <2> QED
    BY <2>2, <2>3
<1>5. ASSUME NEW c \in Clients, Write(c) \/ CompactMemTableNow(c)
      PROVE  Numbered(W)' /\ Waiting(W)'
  <2>1. PICK batch \in {0, issued.batches + 1} :
           /\ batch <= issued'.batches /\ issued.batches <= issued'.batches
           /\ \A d \in Clients : call'[d].batch = IF d = c THEN batch ELSE call[d].batch
           /\ leader' = leader /\ Len(writers) <= Len(writers')
           /\ \A i \in 1..Len(writers) : writers'[i] = writers[i]
    BY <1>5, BatchIssued
  <2>2. issued'.batches \in Nat
    <3>1. issued' = [issued EXCEPT !.batches = @ + 1] \/ issued' = [issued EXCEPT !.forced = @ + 1]
      BY <1>5, Zenon DEF Write, CompactMemTableNow
    <3> QED
      BY <1>2, <3>1 DEF CallsTyped
  <2>3. \A w \in W : \A e \in w : e.batch <= issued.batches
    BY DEF Numbered
  <2>4. \A w \in W : \A e \in w : e.batch <= issued'.batches /\ e.batch # batch
    BY <1>1, <1>2, <2>1, <2>2, <2>3
  <2>5. Numbered(W)'
    BY <1>3, <2>4 DEF Numbered
  <2>6. Grouped' = Grouped
    <3>1. 1..leader.n \subseteq 1..Len(writers)
      BY <1>2
    <3> QED
      BY <2>1, <3>1 DEF Grouped
  <2>7. Waiting(W)'
    <3> SUFFICES ASSUME NEW d \in Clients, d \notin Grouped', NEW w \in W, NEW e \in w
                 PROVE  e.batch # call'[d].batch
      BY DEF Waiting
    <3>1. CASE d = c
      BY <2>1, <2>4, <3>1
    <3>2. CASE d # c
      BY <2>1, <2>6, <3>2 DEF Waiting
    <3> QED
      BY <3>1, <3>2
  <2> QED
    BY <2>5, <2>7
<1> QED
  BY <1>4, <1>5

(* A group adds the blocks of its batches.                                 *)
LEMMA GroupingWhole ==
  ASSUME CallsTyped, TypedInv, Idle, Queued, Distinct, Unled, NEW W, WholeFor(W), Grouping
  PROVE  \E V : WholeFor(V)'
<1>1. PICK c \in Clients : RoomThere(c) /\ call[c].batch # 0
  BY DEF Grouping
<1>2. PICK n \in 1..Len(writers) : leader' = [step |-> "log", n |-> n, entries |-> BatchGroup(n)]
  BY <1>1 DEF RoomThere, GroupLengths
<1>3. /\ up = "open" /\ leader = NoLeader /\ Grouped = {}
      /\ UNCHANGED <<up, call, writers, mem, imm, lastSequence, logs, tables, issued>>
  BY <1>1 DEF RoomThere, Leads, Unled, Grouped, memVars, openVars, diskVars, NoLeader
<1>4. PICK V \in SUBSET Blocks :
        /\ Apart(V) /\ WholeIn(V, ToSet(BatchGroup(n)))
        /\ \A v \in V : \A e \in v :
             /\ lastSequence < e.seq /\ e.seq <= lastSequence + Len(BatchGroup(n))
             /\ \E i \in 1..n : e.batch = call[writers[i]].batch
  BY GroupWhole DEF TypedInv
<1> DEFINE U == W \cup V
           size == Len(BatchGroup(n))
<1>5. /\ W \subseteq Blocks /\ U \subseteq Blocks /\ W \subseteq U /\ V \subseteq U
      /\ \A w \in U : \A e \in w : e.batch \in Nat /\ e.batch # 0 /\ e.seq \in Nat
  <2>1. W \subseteq Blocks
    BY DEF WholeFor
  <2> QED
    BY <2>1, BlocksTyped
<1>6. /\ lastSequence \in Nat /\ size \in Nat /\ writers \in Seq(Clients) /\ n \in 1..Len(writers)
      /\ \A i \in 1..n : writers[i] \in Clients
  <2>1. lastSequence \in Nat /\ writers \in Seq(Clients)
    BY DEF TypedInv, MemoryTyped, CallsTyped
  <2>2. size \in Nat
    BY GroupTyped, LenProperties DEF TypedInv
  <2>3. \A i \in 1..n : i \in 1..Len(writers)
    BY <2>1
  <2> QED
    BY <2>1, <2>2, <2>3
<1>7. \A w \in W : \A e \in w : e.seq <= lastSequence
  <2>1. leader.entries = <<>> /\ Len(leader.entries) = 0
    BY <1>3 DEF NoLeader
  <2> QED
    BY <1>3, <1>6, <2>1 DEF WholeFor, Numbered
<1>8. \A w \in W : \A e \in w : \A i \in 1..n : e.batch # call[writers[i]].batch
  BY <1>3, <1>6 DEF WholeFor, Waiting
<1> HIDE DEF size
<1>9. \A w \in W : \A v \in V : \A d \in w, e \in v : d.seq # e.seq /\ d.batch # e.batch
  <2> SUFFICES ASSUME NEW w \in W, NEW v \in V, NEW d \in w, NEW e \in v
               PROVE  d.seq # e.seq /\ d.batch # e.batch
    OBVIOUS
  <2>1. d.seq <= lastSequence /\ lastSequence < e.seq /\ d.seq \in Nat /\ e.seq \in Nat
    BY <1>4, <1>5, <1>7
  <2>2. PICK i \in 1..n : e.batch = call[writers[i]].batch
    BY <1>4
  <2> QED
    BY <1>6, <1>8, <2>1, <2>2
<1>10. Apart(U)
  BY <1>4, <1>9 DEF WholeFor, Apart
<1> HIDE DEF U
<1>11. Stored(U)'
  <2>1. WholeIn(U, mem) /\ WholeIn(U, imm) /\ \A k \in DOMAIN tables : WholeIn(U, tables[k])
    BY <1>5, WholeMore DEF WholeFor, Stored
  <2>2. WholeIn(U, ToSet(BatchGroup(n)))
    BY <1>4, <1>5, WholeMore
  <2>3. leader'.entries = BatchGroup(n)
    BY <1>2
  <2> QED
    BY <1>3, <2>1, <2>2, <2>3 DEF Stored
<1>12. Logged(U)'
  <2>1. RecordsIn(W) \subseteq RecordsIn(U)
    BY <1>5, WholeMore
  <2>2. \A k \in DOMAIN logs : Genuine(logs[k].units, RecordsIn(U))
    BY <2>1, GenuineMore DEF WholeFor, Logged
  <2> QED
    BY <1>3, <2>2 DEF Logged
<1>13. Numbered(U)'
  <2>1. leader'.entries = BatchGroup(n)
    BY <1>2
  <2>2. ASSUME NEW w \in U, NEW e \in w
        PROVE  e.batch <= issued.batches /\ e.seq <= lastSequence + size
    <3>1. CASE w \in W
      <4>1. e.batch <= issued.batches /\ e.seq <= lastSequence /\ e.seq \in Nat
        BY <1>5, <1>7, <3>1 DEF WholeFor, Numbered
      <4> QED
        BY <1>6, <4>1
    <3>2. CASE w \in V
      <4>1. PICK i \in 1..n : e.batch = call[writers[i]].batch
        BY <1>4, <3>2
      <4>2. e.seq <= lastSequence + size
        BY <1>4, <3>2 DEF size
      <4> QED
        BY <1>6, <4>1, <4>2 DEF Distinct
    <3> QED
      BY <3>1, <3>2 DEF U
  <2> QED
    BY <1>3, <2>1, <2>2 DEF Numbered, size
<1>14. Waiting(U)'
  <2>1. Grouped' = {writers[i] : i \in 1..n}
    BY <1>2, <1>3 DEF Grouped
  <2> SUFFICES ASSUME NEW d \in Clients, d \notin Grouped', NEW w \in U, NEW e \in w
               PROVE  e.batch # call[d].batch
    BY <1>3 DEF Waiting
  <2>2. CASE w \in W
    BY <1>3, <2>2 DEF WholeFor, Waiting
  <2>3. CASE w \in V
    <3>1. PICK i \in 1..n : e.batch = call[writers[i]].batch
      BY <1>4, <2>3
    <3>2. e.batch # 0 /\ writers[i] # d /\ writers[i] \in Clients
      BY <1>5, <1>6, <2>1
    <3> QED
      BY <3>1, <3>2 DEF Distinct
  <2> QED
    BY <2>2, <2>3 DEF U
<1>15. WholeFor(U)'
  BY <1>5, <1>10, <1>11, <1>12, <1>13, <1>14 DEF WholeFor
<1> QED
  BY <1>15

(* What is found when the database is opened is all there is.              *)
LEMMA CommitWhole ==
  ASSUME CallsTyped, TypedInv, Idle, LogInUse, LogsBelow, VersionsSound, FlushSound, MergeSound,
         TypedInv', VersionsSound', NEW W, WholeFor(W), CommitOpen
  PROVE  \E V : WholeFor(V)'
<1> DEFINE edit == Edit(logfileNumber, opening.made, {}, {})
<1>1. /\ up = "commit" /\ version' = Edited(version, edit)
      /\ DeleteObsoleteFiles(version', {})
      /\ UNCHANGED <<call, leader, mem, imm, issued, lastSequence>>
  BY DEF CommitOpen, callVars, memVars
<1>2. /\ ~bgError /\ mem = {} /\ imm = {} /\ leader = NoLeader /\ call = [c \in Clients |-> NoCall]
  BY <1>1 DEF Idle
<1>3. version'.log = logfileNumber
  BY <1>1 DEF Edited, Edit
<1>4. /\ tables' = Without(tables, DOMAIN tables \ (LiveTables(version') \cup {}))
      /\ logs' = Without(logs, {n \in DOMAIN logs : n < version'.log})
  BY <1>1, <1>2 DEF DeleteObsoleteFiles, Obsolete
<1>5. DOMAIN tables' \subseteq LiveTables(version')
  BY <1>4 DEF Without
<1>6. \A n \in DOMAIN logs' : logs'[n].units = <<>>
  <2> SUFFICES ASSUME NEW n \in DOMAIN logs' PROVE logs'[n].units = <<>>
    OBVIOUS
  <2>1. n \in DOMAIN logs /\ ~(n < logfileNumber) /\ logs'[n] = logs[n]
    BY <1>3, <1>4 DEF Without
  <2>2. n <= logfileNumber /\ n \in Nat /\ logfileNumber \in Nat
    BY <1>1, <2>1 DEF LogsBelow, TypedInv, MemoryTyped, DiskTyped
  <2>3. n = logfileNumber
    BY <2>1, <2>2
  <2> QED
    BY <1>1, <2>1, <2>3 DEF LogsBelow
<1> DEFINE S == Entries(version)'
<1>0. PICK V : V = {w \in W : w \subseteq S}
  OBVIOUS
<1>7. V \subseteq W /\ V \subseteq Blocks /\ Apart(V)
  BY <1>0 DEF WholeFor, Apart
<1>8. \A n \in DOMAIN tables' : tables'[n] \subseteq S
  BY <1>5 DEF Entries
<1>9. \A n \in DOMAIN tables' : WholeIn(W, tables'[n])
  <2>1. CommitOpen => [Next]_vars
    BY DEF Next, OpenSteps
  <2> QED
    BY <2>1, TablesWhole DEF WholeFor
<1>10. \A e \in S : e.seq <= lastSequence'
  <2> SUFFICES ASSUME NEW k \in LiveTables(version'), NEW e \in tables'[k]
               PROVE  e.seq <= lastSequence'
    BY DEF Entries
  <2>1. k \in DOMAIN tables' /\ e.seq <= version'.seq
    BY DEF VersionsSound, Known, Sound, TablesOf
  <2>2. version'.seq <= lastSequence'
    <3>1. up' = "open"
      BY DEF CommitOpen
    <3> QED
      BY <3>1 DEF VersionsSound, Known
  <2>3. version'.seq \in Nat /\ lastSequence' \in Nat /\ e.seq \in Nat
    BY <2>1 DEF TypedInv, MemoryTyped, DiskTyped, Manifest, Entry
  <2> QED
    BY <2>1, <2>2, <2>3
<1> HIDE DEF S
<1>11. \A n \in DOMAIN tables' : WholeIn(V, tables'[n])
  <2> SUFFICES ASSUME NEW n \in DOMAIN tables', NEW e \in tables'[n]
               PROVE  \E w \in V : e \in w /\ w \subseteq tables'[n]
    BY DEF WholeIn
  <2>1. PICK w \in W : e \in w /\ w \subseteq tables'[n]
    BY <1>9 DEF WholeIn
  <2>2. w \subseteq S
    BY <1>8, <2>1
  <2> QED
    BY <1>0, <2>1, <2>2
<1>12. \A w \in V : \A e \in w : e.seq <= lastSequence' /\ e.batch <= issued'.batches /\ e.batch # 0
  <2> SUFFICES ASSUME NEW w \in V, NEW e \in w
               PROVE  e.seq <= lastSequence' /\ e.batch <= issued'.batches /\ e.batch # 0
    OBVIOUS
  <2>1. w \in W /\ e \in S
    BY <1>0
  <2>2. e.batch <= issued.batches
    BY <2>1 DEF WholeFor, Numbered
  <2>3. e.batch # 0
    BY <1>7, BlocksTyped
  <2> QED
    BY <1>1, <1>10, <2>1, <2>2, <2>3
<1>13. Stored(V)'
  <2>1. mem' = {} /\ imm' = {} /\ ToSet(leader'.entries) = {}
    BY <1>1, <1>2 DEF NoLeader, ToSet
  <2> QED
    BY <1>11, <2>1, WholeEmpty DEF Stored
<1>14. Logged(V)'
  BY <1>6, GenuineEmpty DEF Logged
<1>15. Numbered(V)'
  <2>1. Len(leader'.entries) = 0 /\ lastSequence' \in Nat
    BY <1>1, <1>2 DEF NoLeader, TypedInv, MemoryTyped
  <2>2. lastSequence' + Len(leader'.entries) = lastSequence'
    <3> DEFINE size == Len(leader'.entries)
               last == lastSequence'
    <3> HIDE DEF size, last
    <3>1. size = 0 /\ last \in Nat
      BY <2>1 DEF size, last
    <3>2. last + size = last
      BY <3>1
    <3> QED
      BY <3>2 DEF size, last
  <2> QED
    BY <1>12, <2>2 DEF Numbered
<1>16. Waiting(V)'
  <2>1. \A c \in Clients : call'[c].batch = 0
    BY <1>1, <1>2, NoCallBatch
  <2> QED
    BY <1>12, <2>1 DEF Waiting
<1>17. WholeFor(V)'
  BY <1>7, <1>13, <1>14, <1>15, <1>16 DEF WholeFor
<1> QED
  BY <1>17

(* Nothing is written at first.                                            *)
LEMMA WholeInit == Init => WholeInv
<1> SUFFICES ASSUME Init PROVE WholeInv
  OBVIOUS
<1>1. /\ call = [c \in Clients |-> NoCall] /\ leader = NoLeader /\ up = "closed"
      /\ mem = {} /\ imm = {} /\ logs = << >> /\ tables = << >> /\ issued.batches = 0
  BY DEF Init
<1>2. Distinct /\ Unled /\ LogsBelow
  BY <1>1, NoCallBatch DEF Distinct, Unled, LogsBelow
<1>3. WholeFor({})
  <2>1. {} \subseteq Blocks /\ Apart({}) /\ Numbered({}) /\ Waiting({})
    BY DEF Apart, Numbered, Waiting
  <2>2. DOMAIN logs = {} /\ DOMAIN tables = {}
    BY <1>1
  <2>3. Stored({}) /\ Logged({})
    BY <1>1, <2>2, WholeEmpty, NoCallBatch DEF Stored, Logged
  <2> QED
    BY <2>1, <2>3 DEF WholeFor
<1> QED
  BY <1>2, <1>3 DEF WholeInv

(* Every step keeps the batches whole.                                     *)
LEMMA WholeNext == IInv /\ IInv' /\ WholeInv /\ [Next]_vars => WholeInv'
<1> SUFFICES ASSUME IInv, IInv', WholeInv, [Next]_vars PROVE WholeInv'
  OBVIOUS
<1>1. /\ CallsTyped /\ TypedInv /\ Idle /\ LogInUse /\ Queued
      /\ VersionsSound /\ FlushSound /\ MergeSound
      /\ CallsTyped' /\ TypedInv' /\ VersionsSound'
  BY DEF IInv, TypedInv
<1>2. Distinct /\ Unled /\ LogsBelow
  BY DEF WholeInv
<1>3. PICK W : WholeFor(W)
  BY DEF WholeInv
<1>4. \E V : WholeFor(V)'
  <2>1. CASE Grouping
    BY <1>1, <1>2, <1>3, <2>1, GroupingWhole
  <2>2. CASE CommitOpen
    BY <1>1, <1>2, <1>3, <2>2, CommitWhole
  <2>3. CASE ~Grouping /\ ~CommitOpen
    <3>1. W \subseteq Blocks /\ Apart(W) /\ Stored(W) /\ Logged(W) /\ Numbered(W) /\ Waiting(W)
      BY <1>3 DEF WholeFor
    <3>2. WholeIn(W, mem') /\ WholeIn(W, imm') /\ WholeIn(W, ToSet(leader'.entries))
      BY <1>1, <2>3, <3>1, MemoryWhole
    <3>3. \A n \in DOMAIN tables' : WholeIn(W, tables'[n])
      BY <1>1, <3>1, TablesWhole
    <3>4. Logged(W)'
      BY <1>1, <3>1, LogsWhole
    <3>5. Numbered(W)' /\ Waiting(W)'
      BY <1>1, <1>2, <2>3, <3>1, NumbersNext
    <3>6. Stored(W)'
      BY <3>2, <3>3 DEF Stored
    <3>7. WholeFor(W)'
      BY <3>1, <3>4, <3>5, <3>6 DEF WholeFor
    <3> QED
      BY <3>7
  <2> QED
    BY <2>1, <2>2, <2>3
<1>5. Distinct' /\ Unled' /\ LogsBelow'
  BY <1>1, <1>2, DistinctNext, UnledNext, LogsBelowNext
<1> QED
  BY <1>4, <1>5 DEF WholeInv

(* What holds of a whole set of blocks that are apart.                     *)
LEMMA WholeBatches ==
  ASSUME NEW W, W \subseteq Blocks, Apart(W), NEW S, WholeIn(W, S)
  PROVE  /\ \A b \in Batches : Cardinality({e \in S : e.batch = b}) \in {0, Size[b]}
         /\ \A e, f \in S : e.seq = f.seq => e = f
<1>1. \A e \in S : \E w \in W : e \in w /\ w \subseteq S
  BY DEF WholeIn
<1>2. ASSUME NEW b \in Batches
      PROVE  Cardinality({e \in S : e.batch = b}) \in {0, Size[b]}
  <2> DEFINE T == {e \in S : e.batch = b}
  <2>1. CASE T = {}
    BY <2>1, FS_EmptySet
  <2>2. ASSUME NEW e \in T
        PROVE  Cardinality(T) = Size[b]
    <3>1. PICK w \in W : e \in w /\ w \subseteq S
      BY <1>1
    <3>2. PICK k \in Nat, a \in Batches :
            /\ \A d \in w : d.batch = a /\ Cardinality(w) = Size[a]
      BY <3>1, BlockIs
    <3>3. a = b
      BY <3>1, <3>2
    <3>4. w \subseteq T
      BY <3>1, <3>2, <3>3
    <3>5. ASSUME NEW f \in T
          PROVE  f \in w
      <4>1. PICK v \in W : f \in v /\ v \subseteq S
        BY <1>1
      <4>2. e.batch = f.batch
        OBVIOUS
      <4> QED
        BY <3>1, <4>1, <4>2 DEF Apart
    <3>6. T = w
      <4> HIDE DEF T
      <4> QED
        BY <3>4, <3>5
    <3> QED
      BY <3>1, <3>2, <3>3, <3>6
  <2> QED
    BY <2>1, <2>2
<1>3. ASSUME NEW e \in S, NEW f \in S, e.seq = f.seq
      PROVE  e = f
  <2>1. PICK v \in W : e \in v
    BY <1>1
  <2>2. PICK w \in W : f \in w
    BY <1>1
  <2>3. v = w
    BY <1>3, <2>1, <2>2 DEF Apart
  <2>4. \A c, d \in v : c.seq = d.seq => c = d
    BY BlockIs
  <2> QED
    BY <1>3, <2>1, <2>2, <2>3, <2>4
<1> QED
  BY <1>2, <1>3

(* A batch is in the database whole or not at all, and no two entries      *)
(* share a sequence number, for any clients, batches, block sizes, crashes *)
(* and failed calls on files.                                              *)
THEOREM BatchesStayWhole == Spec => []BatchesWhole
<1>1. IInv /\ WholeInv => BatchesWhole
  <2> SUFFICES ASSUME IInv, WholeInv, up = "open"
               PROVE  /\ \A b \in Batches : Cardinality({e \in Visible : e.batch = b}) \in {0, Size[b]}
                      /\ \A e, f \in Visible : e.seq = f.seq => e = f
    BY DEF BatchesWhole
  <2>1. PICK W : WholeFor(W)
    BY DEF WholeInv
  <2>2. Visible = mem \cup imm \cup Entries(version)
    <3>1. NewestIsLast
      BY NewestHolds
    <3> QED
      BY <3>1 DEF NewestIsLast, Visible
  <2> DEFINE T == {tables[k] : k \in LiveTables(version)}
  <2>3. WholeIn(W, UNION T)
    <3>1. LiveTables(version) \subseteq DOMAIN tables
      BY DEF IInv, VersionsSound, Known, Sound, TablesOf
    <3>2. \A S \in T : WholeIn(W, S)
      BY <2>1, <3>1 DEF WholeFor, Stored
    <3> HIDE DEF T
    <3> QED
      BY <3>2, WholeUnion
  <2>4. Entries(version) = UNION T
    BY DEF Entries
  <2> HIDE DEF T
  <2>5. WholeIn(W, mem) /\ WholeIn(W, imm)
    BY <2>1 DEF WholeFor, Stored
  <2>6. WholeIn(W, mem \cup imm)
    BY <2>5, WholeCup
  <2>7. WholeIn(W, Visible)
    BY <2>2, <2>3, <2>4, <2>6, WholeCup
  <2>8. W \subseteq Blocks /\ Apart(W)
    BY <2>1 DEF WholeFor
  <2> QED
    BY <2>7, <2>8, WholeBatches
<1>2. Spec => []WholeInv
  BY Invariance, WholeInit, WholeNext, PTL DEF Spec
<1> QED
  BY <1>1, <1>2, Invariance, PTL

-----------------------------------------------------------------------------
(* Promises are kept.  The batches recovered from units of a log; those of *)
(* the logs as they are, and of what is synced of them.                    *)
Recovered(units) ==
  BatchesOf(UNION {ToSet(record) : record \in ToSet(ReadRecords(units))})
Whole == [n \in DOMAIN logs |-> Recovered(logs[n].units)]
Certain == [n \in DOMAIN logs |-> Recovered(SubSeq(logs[n].units, 1, logs[n].synced))]
FromLogs(R, least) == UNION {R[n] : n \in {k \in DOMAIN R : k >= least}}

Contents == mem \cup imm \cup Entries(version)

(* Where the batches A are, R being what the logs give: in an open         *)
(* database, and in the memtables only if they are in their logs; else in  *)
(* every version that recovery may find and the logs it would replay.      *)
InMemory(A, R) ==
  /\ A \subseteq BatchesOf(Contents)
  /\ A \cap BatchesOf(mem) \subseteq R[logfileNumber]
  /\ A \cap BatchesOf(imm) \subseteq FromLogs(R, version.log)
OnDisk(A, R) ==
  \A m \in ToSet(manifests) : A \subseteq BatchesOf(Entries(m)) \cup FromLogs(R, m.log)
Durable(A, R) == IF up = "open" THEN InMemory(A, R) ELSE OnDisk(A, R)

(* A version recovery may find has what the one in use has, and the old    *)
(* memtable unless its log is replayed.                                    *)
Covers(m) ==
  /\ Entries(version) \subseteq Entries(m) /\ m.log <= logfileNumber
  /\ m.log <= version.log \/ imm \subseteq Entries(m)
Covered == up = "open" => \A m \in ToSet(manifests) : Covers(m)

(* What the edit under way adds.                                           *)
WorkDone ==
  /\ bg.step = "apply" =>
       bg.edit.log = logfileNumber /\ UNION {tables[k] : k \in bg.edit.l0} = imm
  /\ bg.step = "install" =>
       bg.edit.log = version.log /\ tables[bg.into] = UNION {tables[k] : k \in bg.from}

(* What is kept is in the version and in the tables made, or in a          *)
(* log that is still to replay.                                            *)
Opened ==
  up \in {"replay", "commit"} =>
    \A b \in kept : \/ b \in BatchesOf(Entries(version) \cup UNION {tables[k] : k \in opening.made})
                     \/ \E n \in opening.left : b \in Whole[n]

(* A group that has a writer who asks for a sync is synced.                *)
SyncDone ==
  /\ leader.step # "idle" =>
       leader.n > 0 /\ \A i \in 1..leader.n : call[writers[i]].sync => call[writers[1]].sync
  /\ leader.step = "insert" /\ call[writers[1]].sync =>
       logs[logfileNumber].synced = Len(logs[logfileNumber].units)

Cuts == \A n \in DOMAIN logs : logs[n].synced <= Len(logs[n].units)

(* The log in use can be read up to its end, the record under way too,     *)
(* unless an append failed.                                                *)
LogReady ==
  /\ up # "open" => blockOffset = 0
  /\ up = "open" /\ ~logs[logfileNumber].bad =>
       /\ Ready(Entry, logs[logfileNumber].units, blockOffset)
       /\ leader.step \in {"sync", "insert"} =>
            leader.entries \in ToSet(ReadRecords(logs[logfileNumber].units))

(* Calls under way, and the new memtable, have batches of their own.       *)
Fresh == \A c \in Clients : call[c].batch \notin BatchesOf(Contents)
Separate == BatchesOf(mem) \cap BatchesOf(imm) = {}

PromiseInv ==
  /\ Durable(kept, Whole) /\ Durable(safe, Certain)
  /\ Covered /\ WorkDone /\ Opened /\ SyncDone /\ Cuts /\ LogReady /\ Fresh /\ Separate

-----------------------------------------------------------------------------
(* A file goes on: what it had is still read, and what is synced of it.    *)
Goes(f, g) ==
  /\ \E v \in Seq(Units) : g.units = f.units \o v
  /\ f.synced <= g.synced /\ g.synced <= Len(g.units)

(* What is recovered of a log is recovered of a longer one.                *)
LEMMA RecoveredLonger ==
  ASSUME NEW u \in Seq(Units), NEW v \in Seq(Units)
  PROVE  Recovered(u) \subseteq Recovered(u \o v)
<1>1. ToSet(ReadRecords(u)) \subseteq ToSet(ReadRecords(u \o v))
  BY UnitsData, ReadLonger DEF Units
<1> QED
  BY <1>1 DEF Recovered, BatchesOf

(* The first units of a sequence.                                          *)
LEMMA FirstUnits ==
  ASSUME NEW S, NEW u \in Seq(S), NEW i \in 0..Len(u)
  PROVE  /\ SubSeq(u, 1, i) \in Seq(S) /\ Len(SubSeq(u, 1, i)) = i
         /\ \A k \in 1..i : SubSeq(u, 1, i)[k] = u[k]
<1>1. Len(u) \in Nat /\ i \in Nat
  BY LenProperties
<1>2. \A k \in 1..i : u[k] \in S
  BY <1>1
<1>3. 1 \in Int /\ i \in Int /\ 1 <= i + 1
  BY <1>1
<1>4. SubSeq(u, 1, i) = [k \in 1..i |-> u[k]]
  BY <1>1, <1>3
<1> QED
  BY <1>1, <1>2, <1>4

(* What is read of the first units is read of more of them.                *)
LEMMA RecoveredPart ==
  ASSUME NEW u \in Seq(Units), NEW i \in Nat, NEW j \in Nat, i <= j, j <= Len(u)
  PROVE  Recovered(SubSeq(u, 1, i)) \subseteq Recovered(SubSeq(u, 1, j))
<1> DEFINE w == SubSeq(u, 1, j)
           v == SubSeq(u, i + 1, j)
<1>1. Len(u) \in Nat /\ i \in 0..Len(u) /\ j \in 0..Len(u)
  BY LenProperties
<1>2. SubSeq(u, 1, i) \in Seq(Units)
  BY <1>1, FirstUnits
<1>3. v \in Seq(Units)
  <2>1. i + 1 \in Int /\ j \in Int
    OBVIOUS
  <2>2. \A k \in (i + 1)..j : u[k] \in Units
    BY <1>1
  <2> QED
    BY <2>1, <2>2, SubSeqProperties
<1>4. SubSeq(u, 1, i) \o v = w
  <2>1. i \in (1 - 1)..Len(u) /\ j \in i..Len(u) /\ 1 \in 1..(Len(u) + 1)
    BY <1>1
  <2> QED
    BY <2>1, ConcatAdjacentSubSeq
<1> HIDE DEF v, w
<1>5. Recovered(SubSeq(u, 1, i)) \subseteq Recovered(SubSeq(u, 1, i) \o v)
  BY <1>2, <1>3, RecoveredLonger
<1> QED
  BY <1>4, <1>5 DEF w

(* The first units of a sequence are those of a longer one.                *)
LEMMA FirstOfLonger ==
  ASSUME NEW S, NEW u \in Seq(S), NEW v \in Seq(S), NEW i \in 0..Len(u)
  PROVE  /\ SubSeq(u \o v, 1, i) = SubSeq(u, 1, i) /\ i <= Len(u \o v) /\ u \o v \in Seq(S)
         /\ Len(u \o v) \in Nat /\ Len(u) <= Len(u \o v)
<1>1. Len(u) \in Nat /\ Len(v) \in Nat /\ i \in Nat
  BY LenProperties
<1>2. u \o v \in Seq(S) /\ Len(u \o v) = Len(u) + Len(v)
      /\ \A k \in 1..(Len(u) + Len(v)) : (u \o v)[k] = IF k <= Len(u) THEN u[k] ELSE v[k - Len(u)]
  BY ConcatProperties
<1> DEFINE w == u \o v
<1> HIDE DEF w
<1>3. w \in Seq(S) /\ Len(w) = Len(u) + Len(v) /\ \A k \in 1..Len(u) : w[k] = u[k]
  <2>1. \A k \in 1..Len(u) : k \in 1..(Len(u) + Len(v)) /\ k <= Len(u)
    BY <1>1
  <2> QED
    BY <1>2, <2>1 DEF w
<1>4. i \in 0..Len(w) /\ i <= Len(w) /\ Len(u) <= Len(w) /\ Len(w) \in Nat
  BY <1>1, <1>3
<1> DEFINE x == SubSeq(u, 1, i)
           y == SubSeq(w, 1, i)
<1>5. x \in Seq(S) /\ Len(x) = i /\ \A k \in 1..i : x[k] = u[k]
  BY FirstUnits
<1>6. y \in Seq(S) /\ Len(y) = i /\ \A k \in 1..i : y[k] = w[k]
  BY <1>3, <1>4, FirstUnits
<1> HIDE DEF x, y
<1>7. \A k \in 1..i : x[k] = y[k]
  BY <1>1, <1>3, <1>5, <1>6
<1>8. x = y
  BY <1>5, <1>6, <1>7
<1> QED
  BY <1>3, <1>4, <1>8 DEF x, y, w

(* What is read of a file, and certain of it, stays when it goes on.       *)
LEMMA GoesRead ==
  ASSUME NEW f \in LogFile, NEW g \in LogFile, Goes(f, g), f.synced <= Len(f.units)
  PROVE  /\ Recovered(f.units) \subseteq Recovered(g.units)
         /\ Recovered(SubSeq(f.units, 1, f.synced)) \subseteq Recovered(SubSeq(g.units, 1, g.synced))
<1> DEFINE u == f.units
<1>1. u \in Seq(Units) /\ f.synced \in Nat /\ g.synced \in Nat /\ g.units \in Seq(Units)
  BY DEF LogFile
<1>2. PICK v \in Seq(Units) : g.units = u \o v
  BY DEF Goes
<1>3. Recovered(u) \subseteq Recovered(u \o v)
  BY <1>1, RecoveredLonger
<1>4. f.synced \in 0..Len(u)
  BY <1>1, LenProperties
<1> HIDE DEF u
<1>5. SubSeq(u \o v, 1, f.synced) = SubSeq(u, 1, f.synced)
  BY <1>1, <1>4, FirstOfLonger
<1>6. Recovered(SubSeq(g.units, 1, f.synced)) \subseteq Recovered(SubSeq(g.units, 1, g.synced))
  BY <1>1, RecoveredPart DEF Goes
<1> QED
  BY <1>2, <1>3, <1>5, <1>6 DEF u

(* A file cut behind its first units has them.                             *)
LEMMA CutBehind ==
  ASSUME NEW S, NEW u \in Seq(S), NEW v \in Seq(S), NEW cut \in Nat,
         Len(u) <= cut, cut <= Len(u \o v)
  PROVE  \E w \in Seq(S) : SubSeq(u \o v, 1, cut) = u \o w
<1>1. Len(u) \in Nat /\ Len(u) \in 0..Len(u)
  BY LenProperties
<1>2. /\ SubSeq(u \o v, 1, Len(u)) = SubSeq(u, 1, Len(u)) /\ u \o v \in Seq(S)
      /\ Len(u \o v) \in Nat
  BY <1>1, FirstOfLonger
<1> DEFINE h == u \o v
           w == SubSeq(h, Len(u) + 1, cut)
<1> HIDE DEF h
<1>3. h \in Seq(S) /\ Len(h) \in Nat /\ cut <= Len(h) /\ SubSeq(h, 1, Len(u)) = u
  BY <1>2, SubSeqFull DEF h
<1>4. w \in Seq(S)
  <2>1. Len(u) + 1 \in Int /\ cut \in Int
    BY <1>1
  <2>2. \A k \in (Len(u) + 1)..cut : h[k] \in S
    BY <1>1, <1>3
  <2> QED
    BY <1>3, <2>1, <2>2, SubSeqProperties
<1>5. SubSeq(h, 1, Len(u)) \o w = SubSeq(h, 1, cut)
  <2>1. Len(u) \in (1 - 1)..Len(h) /\ cut \in Len(u)..Len(h) /\ 1 \in 1..(Len(h) + 1)
    BY <1>1, <1>3
  <2> QED
    BY <1>3, <2>1, ConcatAdjacentSubSeq
<1> HIDE DEF w
<1> QED
  BY <1>3, <1>4, <1>5 DEF h

(* What is certain of a file is what is certain of it when it is cut       *)
(* behind that.                                                            *)
LEMMA CutCertain ==
  ASSUME NEW u \in Seq(Units), NEW v \in Seq(Units), NEW cut \in Nat, NEW synced \in Nat,
         synced <= Len(u), synced <= cut, cut <= Len(u \o v)
  PROVE  LET h == SubSeq(u \o v, 1, cut) IN
         /\ synced <= Len(h)
         /\ Recovered(SubSeq(u, 1, synced)) \subseteq Recovered(h)
         /\ SubSeq(h, 1, synced) = SubSeq(u, 1, synced)
<1>1. Len(u) \in Nat /\ synced \in 0..Len(u)
  BY LenProperties
<1>2. /\ SubSeq(u \o v, 1, synced) = SubSeq(u, 1, synced) /\ u \o v \in Seq(Units)
      /\ Len(u \o v) \in Nat
  BY <1>1, FirstOfLonger
<1> DEFINE w == u \o v
           h == SubSeq(w, 1, cut)
           rest == SubSeq(w, cut + 1, Len(w))
<1> HIDE DEF w
<1>3. w \in Seq(Units) /\ Len(w) \in Nat /\ cut \in 0..Len(w) /\ SubSeq(w, 1, synced) = SubSeq(u, 1, synced)
  BY <1>2 DEF w
<1>4. h \in Seq(Units) /\ rest \in Seq(Units) /\ h \o rest = w
  BY <1>3, InTwo
<1>5. Len(h) = cut
  BY <1>3, FirstUnits
<1>6. Recovered(SubSeq(w, 1, synced)) \subseteq Recovered(h)
  BY <1>3, RecoveredPart
<1> HIDE DEF h, rest
<1>7. SubSeq(h \o rest, 1, synced) = SubSeq(h, 1, synced)
  <2>1. synced \in 0..Len(h)
    BY <1>5
  <2> QED
    BY <1>4, <2>1, FirstOfLonger
<1> QED
  BY <1>3, <1>4, <1>5, <1>6, <1>7 DEF h, w

(* What the machine holds of a log begins with what it has.                *)
LEMMA HeldIs ==
  ASSUME CallsTyped, TypedInv, NEW n \in DOMAIN logs
  PROVE  \E v \in Seq(Units) : Held(n) = logs[n].units \o v
<1>1. leader.entries \in Seq(Entry) /\ blockOffset \in 0..BlockSize
  BY DEF CallsTyped, TypedInv, MemoryTyped
<1>2. FlattenSeq(AddRecord(blockOffset, leader.entries)) \in Seq(Units)
  BY <1>1, RecordUnits
<1>3. <<>> \in Seq(Units)
  OBVIOUS
<1> QED
  BY <1>2, <1>3 DEF Held

(* A log cut somewhere from a length on.                                   *)
CutFrom(least, file, left) ==
  \E v \in Seq(Units), cut \in Nat :
    /\ least <= cut /\ cut <= Len(file.units \o v)
    /\ left = [file EXCEPT !.units = SubSeq(file.units \o v, 1, cut)]

(* How a crash cuts a log.                                                 *)
LEMMA CutIs ==
  ASSUME CallsTyped, TypedInv, NEW least, \A k \in DOMAIN logs : least[k] \in Nat,
         NEW left \in CutLogs(least), NEW n \in DOMAIN logs
  PROVE  CutFrom(least[n], logs[n], left[n])
<1>1. PICK cut : /\ \A k \in DOMAIN logs : cut[k] \in least[k]..Len(Held(k))
                 /\ left = [k \in DOMAIN logs |->
                      [logs[k] EXCEPT !.units = SubSeq(Held(k), 1, cut[k])]]
  BY DEF CutLogs
<1>2. PICK v \in Seq(Units) : Held(n) = logs[n].units \o v
  BY HeldIs
<1>3. logs[n].units \in Seq(Units)
  BY DEF TypedInv, DiskTyped, LogFile
<1>4. cut[n] \in Nat /\ least[n] <= cut[n] /\ cut[n] <= Len(Held(n))
  <2>1. least[n] \in Nat /\ cut[n] \in least[n]..Len(Held(n))
    BY <1>1
  <2>2. Len(logs[n].units \o v) \in Nat
    BY <1>3, FirstOfLonger, LenProperties
  <2> QED
    BY <1>2, <2>1, <2>2
<1> QED
  BY <1>1, <1>2, <1>3, <1>4 DEF CutFrom

(* A process that dies takes nothing from its logs.                        *)
LEMMA KillLogs ==
  ASSUME CallsTyped, TypedInv, Cuts, Kill
  PROVE  DOMAIN logs' = DOMAIN logs /\ \A n \in DOMAIN logs : Goes(logs[n], logs'[n])
<1>1. PICK left : left = logs' /\ left \in CutLogs(Written)
  BY DEF Kill
<1>2. \A n \in DOMAIN logs : logs[n].units \in Seq(Units) /\ logs[n].synced \in Nat /\ logs[n] \in LogFile
  BY DEF TypedInv, DiskTyped, LogFile
<1>3. \A n \in DOMAIN logs : Written[n] = Len(logs[n].units)
  BY DEF Written
<1>4. \A n \in DOMAIN logs : Written[n] \in Nat
  BY <1>2, <1>3, LenProperties
<1>5. DOMAIN left = DOMAIN logs
  BY <1>1 DEF CutLogs
<1>6. ASSUME NEW n \in DOMAIN logs
      PROVE  Goes(logs[n], left[n])
  <2>0. CutFrom(Written[n], logs[n], left[n])
    BY <1>1, <1>4, CutIs
  <2>1. PICK v \in Seq(Units), cut \in Nat :
          /\ Written[n] <= cut /\ cut <= Len(logs[n].units \o v)
          /\ left[n] = [logs[n] EXCEPT !.units = SubSeq(logs[n].units \o v, 1, cut)]
    BY <2>0 DEF CutFrom
  <2> DEFINE u == logs[n].units
             h == SubSeq(u \o v, 1, cut)
  <2>2. left[n].synced = logs[n].synced /\ left[n].units = h
    BY <1>2, <2>1 DEF LogFile
  <2>3. u \in Seq(Units) /\ Len(u) <= cut /\ cut <= Len(u \o v)
    BY <1>2, <1>3, <2>1
  <2> HIDE DEF u
  <2>4. PICK w \in Seq(Units) : h = u \o w
    BY <2>3, CutBehind
  <2>5. Len(u) \in Nat /\ Len(u) \in 0..Len(u)
    BY <2>3, LenProperties
  <2>6. Len(u) <= Len(u \o w) /\ Len(u \o w) \in Nat
    BY <2>3, <2>5, FirstOfLonger
  <2>7. logs[n].synced <= Len(u) /\ logs[n].synced \in Nat
    BY <1>2 DEF Cuts, u
  <2> HIDE DEF h
  <2>8. left[n].units = u \o w
    BY <2>2, <2>4
  <2>9. left[n].synced <= Len(u \o w) /\ logs[n].synced <= left[n].synced
    BY <2>2, <2>5, <2>6, <2>7
  <2> QED
    BY <2>8, <2>9 DEF Goes, u
<1> QED
  BY <1>1, <1>5, <1>6

(* A machine that loses power keeps of them what is synced.                *)
LEMMA PowerLossLogs ==
  ASSUME CallsTyped, TypedInv, Cuts, PowerLoss
  PROVE  /\ DOMAIN logs' = DOMAIN logs /\ Cuts'
         /\ \A n \in DOMAIN logs : Certain[n] \subseteq Whole'[n] /\ Certain'[n] = Certain[n]
<1>1. PICK left : left = logs' /\ left \in CutLogs(Synced)
  BY DEF PowerLoss
<1>2. \A n \in DOMAIN logs : logs[n].units \in Seq(Units) /\ logs[n].synced \in Nat /\ logs[n] \in LogFile
  BY DEF TypedInv, DiskTyped, LogFile
<1>3. \A n \in DOMAIN logs : Synced[n] = logs[n].synced
  BY DEF Synced
<1>4. \A n \in DOMAIN logs : Synced[n] \in Nat
  BY <1>2, <1>3
<1>5. DOMAIN left = DOMAIN logs
  BY <1>1 DEF CutLogs
<1>6. ASSUME NEW n \in DOMAIN logs
      PROVE  /\ left[n].synced <= Len(left[n].units)
             /\ Certain[n] \subseteq Recovered(left[n].units)
             /\ Recovered(SubSeq(left[n].units, 1, left[n].synced)) = Certain[n]
  <2>0. CutFrom(Synced[n], logs[n], left[n])
    BY <1>1, <1>4, CutIs
  <2>1. PICK v \in Seq(Units), cut \in Nat :
          /\ Synced[n] <= cut /\ cut <= Len(logs[n].units \o v)
          /\ left[n] = [logs[n] EXCEPT !.units = SubSeq(logs[n].units \o v, 1, cut)]
    BY <2>0 DEF CutFrom
  <2> DEFINE u == logs[n].units
             h == SubSeq(u \o v, 1, cut)
             synced == logs[n].synced
  <2>2. left[n].synced = synced /\ left[n].units = h
    BY <1>2, <2>1 DEF LogFile
  <2>3. u \in Seq(Units) /\ synced <= Len(u) /\ synced \in Nat /\ synced <= cut /\ cut <= Len(u \o v)
    BY <1>2, <1>3, <2>1 DEF Cuts
  <2>4. Certain[n] = Recovered(SubSeq(u, 1, synced))
    BY DEF Certain
  <2> HIDE DEF u, synced
  <2>5. /\ synced <= Len(h) /\ Recovered(SubSeq(u, 1, synced)) \subseteq Recovered(h)
        /\ SubSeq(h, 1, synced) = SubSeq(u, 1, synced)
    BY <2>3, CutCertain
  <2> HIDE DEF h
  <2> QED
    BY <2>2, <2>4, <2>5
<1>7. \A n \in DOMAIN logs' : /\ Whole'[n] = Recovered(logs'[n].units)
                             /\ Certain'[n] = Recovered(SubSeq(logs'[n].units, 1, logs'[n].synced))
  BY DEF Whole, Certain
<1> QED
  BY <1>1, <1>5, <1>6, <1>7 DEF Cuts

(* Steps that delete obsolete files.                                       *)
Deletes == FlushDone \/ InstallMerge \/ CommitOpen

(* Logs go on, or are new and empty.                                       *)
LogsGo ==
  /\ \A n \in DOMAIN logs' : \/ n \in DOMAIN logs /\ Goes(logs[n], logs'[n])
                             \/ n \notin DOMAIN logs /\ logs'[n] = NewLog
  /\ \A n \in DOMAIN logs : n \in DOMAIN logs' \/ (Deletes /\ n < version'.log)

(* A file with more units goes on.                                         *)
LEMMA GoesOn ==
  ASSUME NEW f \in LogFile, f.synced <= Len(f.units), NEW g, g.synced = f.synced,
         NEW v \in Seq(Units), g.units = f.units \o v
  PROVE  Goes(f, g)
<1> DEFINE u == f.units
<1>1. u \in Seq(Units) /\ f.synced \in Nat
  BY DEF LogFile
<1>2. Len(u) \in Nat /\ Len(u) \in 0..Len(u)
  BY <1>1, LenProperties
<1> HIDE DEF u
<1>3. Len(u) <= Len(u \o v) /\ Len(u \o v) \in Nat
  BY <1>1, <1>2, FirstOfLonger
<1>4. f.synced <= Len(u) /\ g.units = u \o v
  BY DEF u
<1>5. f.synced <= g.synced /\ g.synced <= Len(u \o v)
  BY <1>1, <1>2, <1>3, <1>4
<1> QED
  BY <1>4, <1>5 DEF Goes, u

(* A file that stays as it is goes on.                                     *)
LEMMA GoesSame ==
  ASSUME NEW f \in LogFile, f.synced <= Len(f.units)
  PROVE  Goes(f, f)
<1>1. <<>> \in Seq(Units)
  OBVIOUS
<1>2. f.units = f.units \o <<>>
  BY ConcatEmptySeq DEF LogFile
<1> QED
  BY <1>1, <1>2, GoesOn

(* What of a record is in the file when the append fails.                  *)
LEMMA PartWritten ==
  ASSUME NEW fragments \in Seq(Seq(Units)), NEW i \in DOMAIN fragments, NEW k \in Nat,
         k < Len(fragments[i])
  PROVE  FlattenSeq(SubSeq(fragments, 1, i - 1)) \o SubSeq(fragments[i], 1, k) \in Seq(Units)
<1>1. i \in 1..Len(fragments) /\ fragments[i] \in Seq(Units) /\ Len(fragments) \in Nat
  OBVIOUS
<1>2. Len(fragments[i]) \in Nat
  BY <1>1, LenProperties
<1>3. i - 1 \in 0..Len(fragments) /\ k \in 0..Len(fragments[i])
  BY <1>1, <1>2
<1>4. SubSeq(fragments, 1, i - 1) \in Seq(Seq(Units)) /\ SubSeq(fragments[i], 1, k) \in Seq(Units)
  BY <1>1, <1>3, FirstUnits
<1>5. FlattenSeq(SubSeq(fragments, 1, i - 1)) \in Seq(Units)
  BY <1>4, FlattenTyped
<1> QED
  BY <1>4, <1>5

(* Every step but the end of the machine leaves in the logs what is there. *)
LEMMA LogsGoOn ==
  ASSUME CallsTyped, TypedInv, Idle, LogInUse, LogsBelow, Cuts, [Next]_vars, ~PowerLoss
  PROVE  LogsGo
<1>1. /\ nextFile \in Nat /\ DOMAIN logs \subseteq Nat /\ logs \in [DOMAIN logs -> LogFile]
      /\ blockOffset \in 0..BlockSize /\ leader.entries \in Seq(Entry) /\ logfileNumber \in Nat
  BY DEF TypedInv, MemoryTyped, DiskTyped, CallsTyped
<1>2. \A n \in DOMAIN logs : logs[n] \in LogFile /\ Goes(logs[n], logs[n])
  BY <1>1, GoesSame DEF Cuts
<1>3. ASSUME logs' = logs
      PROVE  LogsGo
  BY <1>2, <1>3 DEF LogsGo
<1>4. ASSUME NEW file, Goes(logs[logfileNumber], file), logs' = [logs EXCEPT ![logfileNumber] = file]
      PROVE  LogsGo
  BY <1>1, <1>2, <1>4 DEF LogsGo
<1>5. ASSUME NEW c \in Clients,
             \/ Write(c) \/ CompactMemTableNow(c) \/ WaitFlushed(c) \/ Flushed(c)
             \/ RoomError(c) \/ RoomThere(c) \/ RoomWaits(c) \/ RoomNoFile(c)
             \/ SyncLogFails(c) \/ InsertInto(c)
      PROVE  LogsGo
  <2>1. logs' = logs
    BY <1>5, EnqueueFrame DEF WaitFlushed, Flushed, RoomError, RoomThere, RoomWaits, RoomNoFile,
      SyncLogFails, InsertInto, diskVars
  <2> QED
    BY <1>3, <2>1
<1>6. ASSUME (\E c \in Clients : SwitchMemTable(c)) \/ CreateLog
      PROVE  LogsGo
  <2>1. logs' = With(logs, nextFile, NewLog)
    BY <1>6 DEF SwitchMemTable, CreateLog
  <2>2. DOMAIN logs' = DOMAIN logs \cup {nextFile}
        /\ \A n \in DOMAIN logs' : logs'[n] = IF n = nextFile THEN NewLog ELSE logs[n]
    BY <2>1 DEF With
  <2>3. nextFile \notin DOMAIN logs
    <3>1. CASE CreateLog
      <4>1. \A n \in DOMAIN logs : n < nextFile
        BY <3>1 DEF CreateLog, LogsBelow
      <4> QED
        BY <1>1, <4>1
    <3>2. CASE \E c \in Clients : SwitchMemTable(c)
      <4>1. up = "open"
        BY <3>2 DEF SwitchMemTable, Leads
      <4>2. logfileNumber < nextFile /\ \A n \in DOMAIN logs : n <= logfileNumber
        BY <4>1 DEF LogInUse, LogsBelow
      <4> QED
        BY <1>1, <4>2
    <3> QED
      BY <1>6, <3>1, <3>2
  <2> QED
    BY <1>2, <2>2, <2>3 DEF LogsGo
<1>7. ASSUME NEW c \in Clients, WriteLog(c) \/ WriteLogFails(c) \/ SyncLog(c)
      PROVE  /\ logfileNumber \in DOMAIN logs /\ logs[logfileNumber] \in LogFile
             /\ logs[logfileNumber].units \in Seq(Units) /\ logs[logfileNumber].synced \in Nat
             /\ logs[logfileNumber].synced <= Len(logs[logfileNumber].units)
  <2>1. up = "open"
    BY <1>7 DEF WriteLog, WriteLogFails, SyncLog, Writing
  <2> QED
    BY <1>1, <2>1 DEF LogInUse, Cuts, LogFile
<1>8. ASSUME NEW c \in Clients, WriteLog(c)
      PROVE  LogsGo
  <2> DEFINE f == logs[logfileNumber]
             units == FlattenSeq(AddRecord(blockOffset, leader.entries))
  <2>1. logs' = [logs EXCEPT ![logfileNumber] = Appended(f, units)]
    BY <1>8 DEF WriteLog
  <2>2. units \in Seq(Units)
    BY <1>1, RecordUnits
  <2>3. f \in LogFile /\ f.synced <= Len(f.units)
    BY <1>7, <1>8
  <2> HIDE DEF units
  <2>4. Appended(f, units).units = f.units \o units /\ Appended(f, units).synced = f.synced
    BY <2>3 DEF Appended, LogFile
  <2>5. Goes(f, Appended(f, units))
    BY <2>2, <2>3, <2>4, GoesOn
  <2> QED
    BY <1>4, <2>1, <2>5
<1>9. ASSUME NEW c \in Clients, WriteLogFails(c)
      PROVE  LogsGo
  <2> DEFINE f == logs[logfileNumber]
             fragments == AddRecord(blockOffset, leader.entries)
  <2>1. fragments \in Seq(Seq(Units))
    BY <1>1, RecordUnits
  <2>2. PICK i \in DOMAIN fragments, k \in 0..Len(FlattenSeq(fragments)) :
          /\ k < Len(fragments[i])
          /\ logs' = [logs EXCEPT ![logfileNumber] =
               [Appended(f, FlattenSeq(SubSeq(fragments, 1, i - 1)) \o SubSeq(fragments[i], 1, k))
                  EXCEPT !.bad = TRUE]]
    BY <1>9 DEF WriteLogFails
  <2>3. f \in LogFile /\ f.synced <= Len(f.units)
    BY <1>7, <1>9
  <2> HIDE DEF fragments
  <2>4. k \in Nat
    <3>1. Len(FlattenSeq(fragments)) \in Nat
      BY <2>1, FlattenTyped, LenProperties
    <3> QED
      BY <3>1
  <2> DEFINE some == FlattenSeq(SubSeq(fragments, 1, i - 1)) \o SubSeq(fragments[i], 1, k)
             file == [Appended(f, some) EXCEPT !.bad = TRUE]
  <2>5. some \in Seq(Units)
    BY <2>1, <2>2, <2>4, PartWritten
  <2> HIDE DEF some
  <2>6. file.units = f.units \o some /\ file.synced = f.synced
    BY <2>3 DEF Appended, LogFile
  <2>7. logs' = [logs EXCEPT ![logfileNumber] = file]
    BY <2>2 DEF some
  <2> HIDE DEF file
  <2>8. Goes(f, file)
    BY <2>3, <2>5, <2>6, GoesOn
  <2> QED
    BY <1>4, <2>7, <2>8
<1>10. ASSUME NEW c \in Clients, SyncLog(c)
       PROVE  LogsGo
  <2> DEFINE f == logs[logfileNumber]
             file == [f EXCEPT !.synced = Len(f.units)]
  <2>1. logs' = [logs EXCEPT ![logfileNumber] = file]
    BY <1>10 DEF SyncLog
  <2>2. f \in LogFile /\ f.synced <= Len(f.units) /\ f.units \in Seq(Units)
    BY <1>7, <1>10
  <2>3. file.units = f.units /\ file.synced = Len(f.units)
    BY <2>2 DEF LogFile
  <2> HIDE DEF file
  <2>4. Len(f.units) <= Len(f.units)
    <3>1. Len(f.units) \in Nat
      BY <2>2, LenProperties
    <3> QED
      BY <3>1
  <2>5. f.units = f.units \o <<>> /\ <<>> \in Seq(Units)
    BY <2>2, ConcatEmptySeq
  <2>6. Goes(f, file)
    BY <2>2, <2>3, <2>4, <2>5 DEF Goes
  <2> QED
    BY <1>4, <2>1, <2>6
<1>11. ASSUME Deletes
       PROVE  LogsGo
  <2>1. PICK pending : DeleteObsoleteFiles(version', pending)
    BY <1>11 DEF Deletes, FlushDone, InstallMerge, CommitOpen
  <2>2. logs' = logs \/ logs' = Without(logs, Obsolete(version', pending).logs)
    BY <2>1 DEF DeleteObsoleteFiles
  <2>3. CASE logs' = Without(logs, Obsolete(version', pending).logs)
    <3>1. Obsolete(version', pending).logs = {n \in DOMAIN logs : n < version'.log}
      BY DEF Obsolete
    <3>2. DOMAIN logs' = DOMAIN logs \ {n \in DOMAIN logs : n < version'.log}
          /\ \A n \in DOMAIN logs' : logs'[n] = logs[n]
      BY <2>3, <3>1 DEF Without
    <3> QED
      BY <1>2, <1>11, <3>2 DEF LogsGo
  <2> QED
    BY <1>3, <2>2, <2>3
<1>12. ASSUME Kill
       PROVE  LogsGo
  BY <1>12, KillLogs DEF LogsGo
<1>13. ASSUME \/ NothingToDo \/ StartFlush \/ BuildTable \/ BuildTableFails \/ FlushFails
              \/ StartMerge \/ MergeTables \/ MergeFails \/ InstallMergeFails
              \/ Recover \/ ReplayLog \/ OpenFails \/ UNCHANGED vars
       PROVE  LogsGo
  <2>1. logs' = logs
    BY <1>13 DEF NothingToDo, StartFlush, BuildTable, BuildTableFails, FlushFails, StartMerge,
      MergeTables, MergeFails, InstallMergeFails, Recover, ReplayLog, OpenFails, vars, diskVars
  <2> QED
    BY <1>3, <2>1
<1> QED
  BY <1>5, <1>6, <1>8, <1>9, <1>10, <1>11, <1>12, <1>13
  DEF Next, OpenSteps, Background, Room, LogCalls, Deletes

(* What one assignment of batches to logs has of another, from a log on.   *)
Rises(R, S) == \A n \in DOMAIN R : (n \in DOMAIN S \/ (Deletes /\ n < version'.log))
                                   /\ (n \in DOMAIN S => R[n] \subseteq S[n])

(* So what is read of them, and what is certain of that, stays.            *)
LEMMA LogsRise ==
  ASSUME TypedInv, TypedInv', Cuts, LogsGo
  PROVE  Cuts' /\ Rises(Whole, Whole') /\ Rises(Certain, Certain')
<1>1. logs \in [DOMAIN logs -> LogFile] /\ logs' \in [DOMAIN logs' -> LogFile]
  BY DEF TypedInv, DiskTyped
<1>2. ASSUME NEW n \in DOMAIN logs'
      PROVE  logs'[n].synced <= Len(logs'[n].units)
  <2>1. CASE Goes(logs[n], logs'[n])
    BY <2>1 DEF Goes
  <2>2. CASE logs'[n] = NewLog
    <3>1. NewLog.synced = 0 /\ NewLog.units = <<>>
      BY DEF NewLog
    <3> QED
      BY <2>2, <3>1
  <2> QED
    BY <2>1, <2>2 DEF LogsGo
<1>3. ASSUME NEW n \in DOMAIN logs, n \in DOMAIN logs'
      PROVE  Whole[n] \subseteq Whole'[n] /\ Certain[n] \subseteq Certain'[n]
  <2>1. PICK f, g : f = logs[n] /\ g = logs'[n]
    OBVIOUS
  <2>2. f \in LogFile /\ g \in LogFile /\ Goes(f, g) /\ f.synced <= Len(f.units)
    BY <1>1, <1>3, <2>1 DEF LogsGo, Cuts
  <2>3. /\ Recovered(f.units) \subseteq Recovered(g.units)
        /\ Recovered(SubSeq(f.units, 1, f.synced)) \subseteq Recovered(SubSeq(g.units, 1, g.synced))
    BY <2>2, GoesRead
  <2> QED
    BY <1>3, <2>1, <2>3 DEF Whole, Certain
<1>4. DOMAIN Whole = DOMAIN logs /\ DOMAIN Certain = DOMAIN logs
      /\ DOMAIN Whole' = DOMAIN logs' /\ DOMAIN Certain' = DOMAIN logs'
  BY DEF Whole, Certain
<1> QED
  BY <1>2, <1>3, <1>4 DEF Cuts, Rises, LogsGo

(* The batches of more entries.                                            *)
LEMMA BatchesCup ==
  /\ \A A, B : BatchesOf(A \cup B) = BatchesOf(A) \cup BatchesOf(B)
  /\ \A A, B : A \subseteq B => BatchesOf(A) \subseteq BatchesOf(B)
  /\ BatchesOf({}) = {}
BY DEF BatchesOf

(* The known versions keep their entries, unless files are deleted.        *)
LEMMA EntriesSteady ==
  ASSUME CallsTyped, TypedInv, Idle, FilesInv, [Next]_vars, ~Deletes
  PROVE  \A m \in Known : Entries(m)' = Entries(m)
<1> DEFINE Goal == \A m \in Known : \A k \in LiveTables(m) :
                     k \in DOMAIN tables /\ k \in DOMAIN tables' /\ tables'[k] = tables[k]
<1>1. /\ \A m \in Known : \A k \in LiveTables(m) : k \in DOMAIN tables /\ k < m.next
      /\ nextFile \in Nat /\ DOMAIN tables \subseteq Nat
  BY DEF FilesInv, VersionsSound, Sound, TablesOf, TypedInv, MemoryTyped, DiskTyped
<1>2. ASSUME tables' = tables
      PROVE  Goal
  BY <1>1, <1>2
<1>3. ASSUME NEW k, \A m \in Known : k \notin LiveTables(m), NEW S,
             \/ tables' = With(tables, k, S) \/ tables' = [tables EXCEPT ![k] = S]
             \/ tables' = Without(tables, {k})
      PROVE  Goal
  BY <1>1, <1>3 DEF With, Without
<1>4. ASSUME up # "closed"
      PROVE  \A m \in Known : nextFile \notin LiveTables(m)
  <2>1. \A m \in Known : m.next \in Nat /\ LiveTables(m) \subseteq Nat
    BY KnownTyped DEF Manifest
  <2>2. \A m \in Known : m.next <= nextFile
    BY <1>4 DEF FilesInv, VersionsSound
  <2>3. \A m \in Known : \A k \in LiveTables(m) : k # nextFile
    BY <1>1, <2>1, <2>2
  <2> QED
    BY <2>3
<1>5. ASSUME NEW c \in Clients,
             Write(c) \/ CompactMemTableNow(c) \/ WaitFlushed(c) \/ Flushed(c) \/ Room(c) \/ LogCalls(c)
      PROVE  Goal
  <2>1. tables' = tables
    BY <1>5, EnqueueFrame DEF WaitFlushed, Flushed, diskVars, Room, RoomError, RoomThere, RoomWaits,
      RoomNoFile, SwitchMemTable, LogCalls, WriteLog, WriteLogFails, SyncLog, SyncLogFails, InsertInto
  <2> HIDE DEF Goal
  <2> QED
    BY <1>2, <2>1
<1>6. ASSUME StartFlush \/ StartMerge \/ ReplayLog
      PROVE  Goal
  <2>1. tables' = tables \/ \E S : tables' = With(tables, nextFile, S)
    BY <1>6 DEF StartFlush, StartMerge, ReplayLog
  <2>2. up # "closed"
    <3>1. CASE StartFlush \/ StartMerge
      BY <3>1, BackgroundOpen DEF Background
    <3>2. CASE ReplayLog
      BY <3>2 DEF ReplayLog
    <3> QED
      BY <1>6, <3>1, <3>2
  <2> HIDE DEF Goal
  <2> QED
    BY <1>2, <1>3, <1>4, <2>1, <2>2
<1>7. ASSUME BuildTable \/ BuildTableFails
      PROVE  Goal
  <2>1. bg.step = "build" /\ (tables' = tables \/ tables' = [tables EXCEPT ![bg.file] = imm]
                              \/ tables' = Without(tables, {bg.file}))
    BY <1>7 DEF BuildTable, BuildTableFails
  <2>2. \A m \in Known : bg.file \notin LiveTables(m)
    BY <2>1 DEF FilesInv, FlushSound
  <2> HIDE DEF Goal
  <2> QED
    BY <1>2, <1>3, <2>1, <2>2
<1>8. ASSUME MergeTables
      PROVE  Goal
  <2>1. bg.step = "merge" /\ \E S : tables' = [tables EXCEPT ![bg.into] = S]
    BY <1>8 DEF MergeTables
  <2>2. \A m \in Known : bg.into \notin LiveTables(m)
    BY <2>1 DEF FilesInv, MergeSound
  <2> HIDE DEF Goal
  <2> QED
    BY <1>3, <2>1, <2>2
<1>9. ASSUME \/ NothingToDo \/ FlushFails \/ MergeFails \/ InstallMergeFails
             \/ Recover \/ CreateLog \/ OpenFails \/ Kill \/ PowerLoss \/ UNCHANGED vars
      PROVE  Goal
  <2>1. tables' = tables
    BY <1>9 DEF NothingToDo, FlushFails, MergeFails, InstallMergeFails, Recover, CreateLog, OpenFails,
      Kill, PowerLoss, vars, diskVars
  <2> HIDE DEF Goal
  <2> QED
    BY <1>2, <2>1
<1> HIDE DEF Goal
<1>10. Goal
  BY <1>5, <1>6, <1>7, <1>8, <1>9 DEF Next, OpenSteps, Background, Deletes
<1> QED
  BY <1>10 DEF Goal, Entries

(* When files are deleted, the versions known then have theirs.            *)
LEMMA EntriesSpared ==
  ASSUME TypedInv, FilesInv', Deletes
  PROVE  \A m \in Known' : Entries(m)' = Entries(m)
<1>1. PICK pending : DeleteObsoleteFiles(version', pending)
  BY DEF Deletes, FlushDone, InstallMerge, CommitOpen
<1>2. \A n \in DOMAIN tables' : tables'[n] = tables[n]
  BY <1>1, DeleteTyped
<1>3. \A m \in Known' : \A k \in LiveTables(m) : k \in DOMAIN tables'
  BY DEF FilesInv, VersionsSound, Sound, TablesOf
<1> QED
  BY <1>2, <1>3 DEF Entries

(* What an edit makes of a version.                                        *)
LEMMA EditedIs ==
  ASSUME NEW m, NEW e
  PROVE  /\ LiveTables(Edited(m, e)) = (LiveTables(m) \ e.dropped) \cup e.l0 \cup e.deep
         /\ Edited(m, e).log = e.log
BY DEF Edited, LiveTables

(* A flush adds what the old memtable has.                                 *)
LEMMA FlushAdds ==
  ASSUME FilesInv, WorkDone, NEW m, bg.step = "apply"
  PROVE  Entries(Edited(m, bg.edit)) = Entries(m) \cup imm /\ Edited(m, bg.edit).log = logfileNumber
<1>1. bg.edit.deep = {} /\ bg.edit.dropped = {}
  BY DEF FilesInv, EditSound
<1>2. UNION {tables[k] : k \in bg.edit.l0} = imm /\ bg.edit.log = logfileNumber
  BY DEF WorkDone
<1>3. LiveTables(Edited(m, bg.edit)) = LiveTables(m) \cup bg.edit.l0
  BY <1>1, EditedIs
<1>4. Entries(Edited(m, bg.edit)) = Entries(m) \cup UNION {tables[k] : k \in bg.edit.l0}
  BY <1>3 DEF Entries
<1> QED
  BY <1>2, <1>4, EditedIs

(* A merge takes nothing from a version, and adds nothing to the one whose *)
(* tables it has merged.                                                   *)
LEMMA MergeAdds ==
  ASSUME FilesInv, WorkDone, NEW m, bg.step = "install"
  PROVE  /\ Entries(m) \subseteq Entries(Edited(m, bg.edit))
         /\ Edited(m, bg.edit).log = version.log
         /\ m = version => Entries(Edited(m, bg.edit)) = Entries(m)
<1>1. bg.edit.l0 = {} /\ bg.edit.deep = {bg.into} /\ bg.edit.dropped = bg.from
  BY DEF FilesInv, EditSound
<1>2. tables[bg.into] = UNION {tables[k] : k \in bg.from} /\ bg.edit.log = version.log
  BY DEF WorkDone
<1>3. bg.from \subseteq LiveTables(version)
  BY DEF FilesInv, MergeSound
<1>4. LiveTables(Edited(m, bg.edit)) = (LiveTables(m) \ bg.from) \cup {bg.into}
  BY <1>1, EditedIs
<1>5. \A v : \A e : e \in Entries(v) <=> \E k \in LiveTables(v) : e \in tables[k]
  BY DEF Entries
<1>6. \A e : e \in tables[bg.into] <=> \E k \in bg.from : e \in tables[k]
  BY <1>2
<1> DEFINE new == Edited(m, bg.edit)
<1>7. \A e : e \in Entries(new) <=> \/ \E k \in LiveTables(m) \ bg.from : e \in tables[k]
                                   \/ \E k \in bg.from : e \in tables[k]
  BY <1>4, <1>5, <1>6
<1>8. Entries(m) \subseteq Entries(new) /\ (m = version => Entries(new) = Entries(m))
  BY <1>3, <1>5, <1>7
<1> QED
  BY <1>2, <1>8, EditedIs

(* A version that an edit under way may leave covers the one in use.       *)
LEMMA LatestCovers ==
  ASSUME TypedInv, Idle, LogInUse, FilesInv, Covered, WorkDone, bg.step \in {"apply", "install"}
  PROVE  up = "open" /\ Covers(Latest(bg.edit))
<1>1. up = "open"
  BY DEF Idle, NoWork
<1>2. Last(manifests) \in ToSet(manifests)
  <2>1. Len(manifests) \in DOMAIN manifests
    BY DEF TypedInv, DiskTyped
  <2> QED
    BY <2>1 DEF Last, ToSet
<1>3. Entries(version) \subseteq Entries(Last(manifests))
  BY <1>1, <1>2 DEF Covered, Covers
<1>4. logfileNumber \in Nat /\ version.log \in Nat /\ version.log <= logfileNumber
  BY <1>1 DEF TypedInv, MemoryTyped, Manifest, LogInUse
<1>5. CASE bg.step = "apply"
  <2>1. /\ Entries(Latest(bg.edit)) = Entries(Last(manifests)) \cup imm
        /\ Latest(bg.edit).log = logfileNumber
    BY <1>5, FlushAdds DEF Latest
  <2> QED
    BY <1>1, <1>3, <1>4, <2>1 DEF Covers
<1>6. CASE bg.step = "install"
  <2>1. /\ Entries(Last(manifests)) \subseteq Entries(Latest(bg.edit))
        /\ Latest(bg.edit).log = version.log
    BY <1>6, MergeAdds DEF Latest
  <2> QED
    BY <1>1, <1>3, <1>4, <2>1 DEF Covers
<1> QED
  BY <1>5, <1>6

(* Steps that leave the memtables, the versions and the promises alone,    *)
(* and the database open or not.                                           *)
Still ==
  /\ UNCHANGED <<mem, imm, version, manifests, acked, kept, safe>>
  /\ up = "open" <=> up' = "open"
  /\ up = "open" => logfileNumber' = logfileNumber

ManifestErrors == FlushFails \/ InstallMergeFails
Closes == OpenFails \/ Kill \/ PowerLoss

(* The steps that are not still.                                           *)
LEMMA StepKinds ==
  ASSUME CallsTyped, Idle, [Next]_vars
  PROVE  \/ Still \/ (\E c \in Clients : SwitchMemTable(c) \/ InsertInto(c))
         \/ Deletes \/ ManifestErrors \/ Recover \/ Closes
<1>1. ASSUME NEW c \in Clients, Write(c) \/ CompactMemTableNow(c)
      PROVE  Still
  BY <1>1, EnqueueFrame DEF Still, memVars, bgVars, openVars, diskVars, promiseVars
<1>2. ASSUME NEW c \in Clients, WaitFlushed(c) \/ Flushed(c)
      PROVE  Still
  BY <1>2 DEF WaitFlushed, Flushed, Still, memVars, bgVars, openVars, diskVars, promiseVars
<1>3. ASSUME NEW c \in Clients, RoomError(c) \/ RoomThere(c) \/ RoomWaits(c) \/ RoomNoFile(c)
      PROVE  Still
  BY <1>3 DEF RoomError, RoomThere, RoomWaits, RoomNoFile, Still, memVars, bgVars, openVars, diskVars,
    promiseVars
<1>4. ASSUME NEW c \in Clients, WriteLog(c) \/ WriteLogFails(c)
      PROVE  Still
  BY <1>4 DEF WriteLog, WriteLogFails, Still, bgVars, openVars, promiseVars
<1>5. ASSUME NEW c \in Clients, SyncLog(c) \/ SyncLogFails(c)
      PROVE  Still
  BY <1>5 DEF SyncLog, SyncLogFails, Still, memVars, bgVars, openVars, diskVars, promiseVars
<1>6. ASSUME \/ NothingToDo \/ StartFlush \/ BuildTable \/ BuildTableFails
             \/ StartMerge \/ MergeTables \/ MergeFails
      PROVE  Still
  BY <1>6 DEF NothingToDo, StartFlush, BuildTable, BuildTableFails, StartMerge, MergeTables, MergeFails,
    Still, memVars, openVars, diskVars, promiseVars
<1>7. ASSUME ReplayLog \/ CreateLog
      PROVE  Still
  BY <1>7 DEF ReplayLog, CreateLog, Still, bgVars, promiseVars
<1>8. ASSUME UNCHANGED vars
      PROVE  Still
  BY <1>8 DEF vars, Still, memVars, bgVars, openVars, diskVars, promiseVars
<1> QED
  BY <1>1, <1>2, <1>3, <1>4, <1>5, <1>6, <1>7, <1>8
  DEF Next, OpenSteps, Background, Room, LogCalls, Deletes, ManifestErrors, Closes

(* What is in the manifest after an edit failed.                           *)
LEMMA ErrorLeaves ==
  ASSUME TypedInv, Idle, ManifestErrors
  PROVE  /\ UNCHANGED <<mem, imm, version, acked, kept, safe, up, logfileNumber, tables>>
         /\ bg.step \in {"apply", "install"} /\ up = "open"
         /\ \A m \in ToSet(manifests') : m \in ToSet(manifests) \/ m = Latest(bg.edit)
<1>1. /\ UNCHANGED <<mem, imm, version, acked, kept, safe, up, logfileNumber, tables>>
      /\ bg.step \in {"apply", "install"} /\ manifests' = Append(manifests, Latest(bg.edit))
  BY DEF ManifestErrors, FlushFails, InstallMergeFails, ManifestFails, memVars, promiseVars, openVars
<1>2. up = "open"
  BY <1>1 DEF Idle, NoWork
<1>3. manifests' = ManifestsLeft
  BY <1>1 DEF ManifestsLeft
<1> QED
  BY <1>1, <1>2, <1>3, ManifestsLeftTyped DEF TypedInv

(* The log in use is left alone by most steps.                             *)
LEMMA LogKept ==
  ASSUME CallsTyped, TypedInv, Idle, LogInUse, LogInUse', [Next]_vars, up = "open", up' = "open",
         \A c \in Clients : ~WriteLog(c) /\ ~WriteLogFails(c) /\ ~SyncLog(c) /\ ~SwitchMemTable(c)
  PROVE  /\ UNCHANGED <<logfileNumber, blockOffset>>
         /\ logs'[logfileNumber] = logs[logfileNumber]
<1>1. logfileNumber \in DOMAIN logs /\ logfileNumber' \in DOMAIN logs'
  BY DEF LogInUse
<1>2. ASSUME NEW c \in Clients, \/ Write(c) \/ CompactMemTableNow(c) \/ WaitFlushed(c) \/ Flushed(c)
                                \/ Room(c) \/ LogCalls(c)
      PROVE  UNCHANGED <<logfileNumber, blockOffset, logs>>
  BY <1>2, EnqueueFrame DEF WaitFlushed, Flushed, Room, RoomError, RoomThere, RoomWaits, RoomNoFile,
    LogCalls, SyncLogFails, InsertInto, memVars, diskVars
<1>3. ASSUME Background, ~Deletes
      PROVE  UNCHANGED <<logfileNumber, blockOffset, logs>>
  BY <1>3 DEF Background, NothingToDo, StartFlush, BuildTable, BuildTableFails, FlushFails, StartMerge,
    MergeTables, MergeFails, InstallMergeFails, memVars, diskVars, Deletes
<1>4. ASSUME Deletes
      PROVE  UNCHANGED <<logfileNumber, blockOffset>> /\ logs'[logfileNumber] = logs[logfileNumber]
  <2>1. UNCHANGED <<logfileNumber, blockOffset>>
        /\ \E pending : DeleteObsoleteFiles(version', pending)
    BY <1>4 DEF Deletes, FlushDone, InstallMerge, CommitOpen, memVars
  <2>2. \A n \in DOMAIN logs' : logs'[n] = logs[n]
    BY <2>1 DEF DeleteObsoleteFiles, Without
  <2> QED
    BY <1>1, <2>1, <2>2
<1>5. ASSUME UNCHANGED vars
      PROVE  UNCHANGED <<logfileNumber, blockOffset, logs>>
  BY <1>5 DEF vars, memVars, diskVars
<1>6. ~Recover /\ ~ReplayLog /\ ~CreateLog /\ ~CommitOpen /\ ~Closes
  BY DEF Recover, ReplayLog, CreateLog, CommitOpen, Closes, OpenFails, Kill, PowerLoss, Down
<1> QED
  BY <1>2, <1>3, <1>4, <1>5, <1>6 DEF Next, OpenSteps, Deletes, Closes

-----------------------------------------------------------------------------
(* What recovery may find covers the version in use, after every step.     *)
LEMMA CoveredNext ==
  ASSUME CallsTyped, TypedInv, Idle, LogInUse, LogInUse', FilesInv, FilesInv', MemorySound,
         Covered, WorkDone, [Next]_vars
  PROVE  Covered'
<1> SUFFICES ASSUME up' = "open", NEW m \in ToSet(manifests')
             PROVE  Covers(m)'
  BY DEF Covered
<1>1. CASE Still /\ ~Deletes
  <2>1. Entries(m)' = Entries(m) /\ Entries(version)' = Entries(version) /\ Covers(m)
    BY <1>1, EntriesSteady DEF Still, Known, Covered
  <2> QED
    BY <1>1, <2>1 DEF Covers, Still
<1>2. CASE (\E c \in Clients : InsertInto(c)) /\ ~Deletes
  <2>1. UNCHANGED <<imm, version, manifests, up, logfileNumber>>
    BY <1>2 DEF InsertInto, bgVars, openVars, diskVars
  <2>2. Entries(m)' = Entries(m) /\ Entries(version)' = Entries(version) /\ Covers(m)
    BY <1>2, <2>1, EntriesSteady DEF Known, Covered
  <2> QED
    BY <2>1, <2>2 DEF Covers
<1>3. CASE (\E c \in Clients : SwitchMemTable(c)) /\ ~Deletes
  <2>1. UNCHANGED <<version, manifests>> /\ ~bgError /\ up = "open"
    BY <1>3 DEF SwitchMemTable, Leads
  <2>2. m = version
    BY <2>1 DEF FilesInv, VersionsSound, ToSet
  <2>3. version.log <= version.log
    BY DEF TypedInv, MemoryTyped, Manifest
  <2> QED
    BY <2>1, <2>2, <2>3 DEF Covers, LogInUse
<1>4. CASE ManifestErrors
  <2>1. /\ UNCHANGED <<imm, version, up, logfileNumber, tables>>
        /\ bg.step \in {"apply", "install"} /\ up = "open"
        /\ m \in ToSet(manifests) \/ m = Latest(bg.edit)
    BY <1>4, ErrorLeaves
  <2>2. Covers(m)
    BY <2>1, LatestCovers DEF Covered
  <2> QED
    BY <2>1, <2>2 DEF Covers, Entries
<1>5. CASE FlushDone \/ InstallMerge
  <2>1. /\ bg.step = "apply" \/ bg.step = "install"
        /\ version' = Edited(version, bg.edit) /\ manifests' = <<Latest(bg.edit)>>
        /\ UNCHANGED <<logfileNumber, up>>
    BY <1>5 DEF FlushDone, InstallMerge, memVars, openVars
  <2>2. m = Latest(bg.edit) /\ m = Edited(Last(manifests), bg.edit)
    BY <2>1 DEF ToSet, Latest
  <2>3. m.log = version'.log
    BY <2>1, <2>2, EditedIs
  <2>4. PICK v : v = version'
    OBVIOUS
  <2>5. Entries(v) \subseteq Entries(m)
    <3>1. Entries(version) \subseteq Entries(Last(manifests))
      <4>1. Last(manifests) \in ToSet(manifests)
        <5>1. Len(manifests) \in DOMAIN manifests
          BY DEF TypedInv, DiskTyped
        <5> QED
          BY <5>1 DEF Last, ToSet
      <4> QED
        BY <2>1, <4>1 DEF Covered, Covers
    <3>2. CASE bg.step = "apply"
      <4>1. Entries(v) = Entries(version) \cup imm /\ Entries(m) = Entries(Last(manifests)) \cup imm
        BY <2>1, <2>2, <2>4, <3>2, FlushAdds
      <4> QED
        BY <3>1, <4>1
    <3>3. CASE bg.step = "install"
      <4>1. Entries(v) = Entries(version) /\ Entries(Last(manifests)) \subseteq Entries(m)
        BY <2>1, <2>2, <2>4, <3>3, MergeAdds
      <4> QED
        BY <3>1, <4>1
    <3> QED
      BY <2>1, <3>2, <3>3
  <2>6. Entries(v)' = Entries(v) /\ Entries(m)' = Entries(m)
    <3>1. v \in Known' /\ m \in Known'
      BY <2>4 DEF Known
    <3> QED
      BY <1>5, <3>1, EntriesSpared DEF Deletes
  <2>7. Entries(version)' = Entries(v)'
    BY <2>4 DEF Entries
  <2>8. m.log <= logfileNumber'
    BY <2>3 DEF LogInUse
  <2>9. m.log <= version'.log
    <3>1. version'.log \in Nat
      <4>1. bg.edit.log \in Nat
        BY DEF TypedInv, MemoryTyped, Work, EditType
      <4> QED
        BY <2>1, <4>1, EditedIs
    <3> QED
      BY <2>3, <3>1
  <2> QED
    BY <2>5, <2>6, <2>7, <2>8, <2>9 DEF Covers
<1>6. CASE CommitOpen
  <2>1. manifests' = <<version'>> /\ version'.log = logfileNumber /\ logfileNumber' = logfileNumber
    BY <1>6, EditedIs DEF CommitOpen, Edit, memVars
  <2>2. m = version' /\ logfileNumber \in Nat
    BY <2>1 DEF ToSet, TypedInv, MemoryTyped
  <2>3. Entries(version)' = Entries(m)'
    BY <2>2 DEF Entries
  <2>4. m.log <= logfileNumber' /\ m.log <= version'.log
    BY <2>1, <2>2
  <2> QED
    BY <2>3, <2>4 DEF Covers
<1>7. CASE Recover \/ Closes
  BY <1>7 DEF Recover, Closes, OpenFails, Kill, PowerLoss, Down
<1> QED
  BY <1>1, <1>2, <1>3, <1>4, <1>5, <1>6, <1>7, StepKinds DEF Deletes

(* What an edit under way adds is what it is about.                        *)
LEMMA WorkDoneNext ==
  ASSUME CallsTyped, TypedInv, Idle, FilesInv, WorkDone, [Next]_vars
  PROVE  WorkDone'
<1>1. bg \in Work
  BY DEF TypedInv, MemoryTyped
<1>2. ASSUME bg'.step \notin {"apply", "install"}
      PROVE  WorkDone'
  BY <1>2 DEF WorkDone
<1>3. ASSUME UNCHANGED <<bg, tables, version>>, ~hasImm \/ UNCHANGED <<imm, logfileNumber>>
      PROVE  WorkDone'
  BY <1>3 DEF WorkDone, FilesInv, FlushSound
<1>4. ASSUME Resting(bg')
      PROVE  WorkDone'
  BY <1>2, <1>4, RestingEdit
<1>5. ASSUME NEW c \in Clients, \/ Write(c) \/ CompactMemTableNow(c) \/ WaitFlushed(c) \/ Flushed(c)
                                \/ RoomError(c) \/ RoomThere(c) \/ RoomWaits(c) \/ RoomNoFile(c)
                                \/ LogCalls(c)
      PROVE  WorkDone'
  <2>1. UNCHANGED <<bg, tables, version, imm, logfileNumber>>
    BY <1>5, EnqueueFrame DEF WaitFlushed, Flushed, RoomError, RoomThere, RoomWaits, RoomNoFile,
      LogCalls, WriteLog, WriteLogFails, SyncLog, SyncLogFails, InsertInto, memVars, bgVars, diskVars
  <2> QED
    BY <1>3, <2>1
<1>6. ASSUME NEW c \in Clients, SwitchMemTable(c)
      PROVE  WorkDone'
  <2>1. UNCHANGED <<tables, version>> /\ ~hasImm /\ bg' = Scheduled(bg, TRUE, version, bgError)
    BY <1>6 DEF SwitchMemTable, MustWait
  <2>2. bg' = bg \/ Resting(bg')
    BY <2>1, EndIs
  <2> QED
    BY <1>3, <1>4, <2>1, <2>2
<1>7. ASSUME BuildTable
      PROVE  WorkDone'
  <2> DEFINE new == IF imm = {} THEN {} ELSE {bg.file}
             edit == Edit(logfileNumber, new, {}, {})
  <2>1. /\ bg.step = "build" /\ tables' = IF imm = {} THEN tables ELSE [tables EXCEPT ![bg.file] = imm]
        /\ bg' = [bg EXCEPT !.step = "apply", !.edit = edit] /\ UNCHANGED <<imm, logfileNumber>>
    BY <1>7 DEF BuildTable, memVars
  <2>2. edit.log = logfileNumber /\ edit.l0 = new
    BY DEF Edit
  <2> HIDE DEF edit
  <2>3. bg'.step = "apply" /\ bg'.edit = edit
    BY <1>1, <2>1 DEF Work
  <2>4. imm # {} => tables'[bg.file] = imm
    BY <2>1 DEF FilesInv, FlushSound
  <2>5. UNION {tables'[k] : k \in new} = imm
    BY <2>4
  <2> QED
    BY <2>1, <2>2, <2>3, <2>5 DEF WorkDone
<1>8. ASSUME MergeTables
      PROVE  WorkDone'
  <2> DEFINE edit == Edit(version.log, {}, {bg.into}, bg.from)
             merged == UNION {tables[k] : k \in bg.from}
  <2>1. /\ bg.step = "merge" /\ tables' = [tables EXCEPT ![bg.into] = merged]
        /\ bg' = [bg EXCEPT !.step = "install", !.edit = edit] /\ UNCHANGED version
    BY <1>8 DEF MergeTables, bgVars
  <2>2. edit.log = version.log
    BY DEF Edit
  <2> HIDE DEF edit
  <2>3. bg'.step = "install" /\ bg'.edit = edit /\ bg'.into = bg.into /\ bg'.from = bg.from
    BY <1>1, <2>1 DEF Work
  <2>4. /\ bg.into \in DOMAIN tables /\ bg.from \subseteq LiveTables(version)
        /\ bg.into \notin LiveTables(version)
    BY <2>1 DEF FilesInv, MergeSound, Known
  <2> HIDE DEF merged
  <2>5. tables'[bg.into] = merged /\ \A k \in bg.from : tables'[k] = tables[k]
    <3>1. \A k \in bg.from : k \in DOMAIN tables
      BY <2>4 DEF FilesInv, VersionsSound, Known, Sound, TablesOf
    <3> QED
      BY <2>1, <2>4, <3>1
  <2>6. tables'[bg.into] = UNION {tables'[k] : k \in bg.from}
    BY <2>5 DEF merged
  <2> QED
    BY <2>1, <2>2, <2>3, <2>6 DEF WorkDone
<1>9. ASSUME \/ NothingToDo \/ MergeFails \/ InstallMerge \/ InstallMergeFails
             \/ BuildTableFails \/ FlushDone \/ FlushFails
      PROVE  WorkDone'
  <2>1. \E immThere, v, err : EndWork(immThere, v, err) \/ EndFlush(immThere, v, err)
    BY <1>9 DEF NothingToDo, MergeFails, InstallMerge, InstallMergeFails, BuildTableFails, FlushDone,
      FlushFails
  <2>2. Resting(bg') \/ bg' = [bg EXCEPT !.step = "merge", !.file = 0, !.edit = NoEdit]
    BY <2>1, EndIs
  <2>3. bg' = [bg EXCEPT !.step = "merge", !.file = 0, !.edit = NoEdit] => bg'.step = "merge"
    BY <1>1 DEF Work
  <2> QED
    BY <1>2, <1>4, <2>2, <2>3
<1>10. ASSUME StartFlush \/ StartMerge
       PROVE  WorkDone'
  <2>1. bg'.step \in {"build", "merge"}
    BY <1>1, <1>10 DEF StartFlush, StartMerge, Work
  <2> QED
    BY <1>2, <2>1
<1>11. ASSUME OpenSteps \/ Kill \/ PowerLoss
       PROVE  WorkDone'
  <2>1. CASE Recover \/ ReplayLog \/ CreateLog \/ CommitOpen
    <3>1. bg = NoWork
      BY <2>1 DEF Recover, ReplayLog, CreateLog, CommitOpen, Idle
    <3>2. bg' = bg \/ bg' = Scheduled(bg, FALSE, version', bgError)
      <4>1. CASE Recover
        BY <4>1 DEF Recover
      <4>2. CASE ReplayLog \/ CreateLog
        BY <4>2 DEF ReplayLog, CreateLog, bgVars
      <4>3. CASE CommitOpen
        BY <4>3 DEF CommitOpen
      <4> QED
        BY <2>1, <4>1, <4>2, <4>3
    <3>3. Resting(NoWork) /\ Resting(Scheduled(NoWork, FALSE, version', bgError))
      <4>1. Resting(NoWork)
        BY DEF Resting
      <4> QED
        BY <4>1, EndIs
    <3>4. Resting(bg')
      BY <3>1, <3>2, <3>3
    <3> QED
      BY <1>4, <3>4
  <2>2. CASE OpenFails \/ Kill \/ PowerLoss
    <3>1. Resting(bg')
      BY <2>2 DEF OpenFails, Kill, PowerLoss, Down, Resting
    <3> QED
      BY <1>4, <3>1
  <2> QED
    BY <1>11, <2>1, <2>2 DEF OpenSteps
<1>12. ASSUME UNCHANGED vars
       PROVE  WorkDone'
  BY <1>3, <1>12 DEF vars, memVars, bgVars, diskVars
<1> QED
  BY <1>5, <1>6, <1>7, <1>8, <1>9, <1>10, <1>11, <1>12 DEF Next, Background, Room

(* Whether a group has to be synced, and was, after every step.            *)
LEMMA SyncDoneNext ==
  ASSUME CallsTyped, Queued, TypedInv, Idle, Idle', LogInUse, LogInUse', SyncDone, [Next]_vars
  PROVE  SyncDone'
<1>1. ASSUME leader'.step = "idle"
      PROVE  SyncDone'
  BY <1>1 DEF SyncDone
<1>2. NoLeader.step = "idle"
  BY DEF NoLeader
<1>3. ASSUME up' # "open"
      PROVE  SyncDone'
  BY <1>1, <1>2, <1>3 DEF Idle
<1>4. /\ writers \in Seq(Clients) /\ leader.n \in Nat /\ leader.n <= Len(writers) /\ Len(writers) \in Nat
      /\ call \in [Clients -> Call]
      /\ leader \in [step : {"idle", "log", "sync", "insert"}, n : Nat, entries : Seq(Entry)]
      /\ \A i \in 1..leader.n : i \in 1..Len(writers)
  BY DEF CallsTyped
<1>5. ASSUME leader' = leader, \A i \in 1..leader.n : writers'[i] = writers[i],
             \A i \in 1..leader.n : call'[writers[i]].sync = call[writers[i]].sync,
             up' = "open" => UNCHANGED logfileNumber /\ logs'[logfileNumber] = logs[logfileNumber]
      PROVE  SyncDone'
  <2>1. CASE leader.step = "idle"
    BY <1>1, <1>5, <2>1
  <2>2. CASE leader.step # "idle" /\ up' = "open"
    <3>1. leader.n > 0 /\ \A i \in 1..leader.n : call[writers[i]].sync => call[writers[1]].sync
      BY <2>2 DEF SyncDone
    <3>2. 1 \in 1..leader.n
      BY <1>4, <3>1
    <3> QED
      BY <1>5, <2>2, <3>1, <3>2 DEF SyncDone
  <2> QED
    BY <1>3, <2>1, <2>2
<1>6. ASSUME up = "open", up' = "open",
             \A c \in Clients : ~WriteLog(c) /\ ~WriteLogFails(c) /\ ~SyncLog(c) /\ ~SwitchMemTable(c)
      PROVE  UNCHANGED logfileNumber /\ logs'[logfileNumber] = logs[logfileNumber]
  BY <1>6, LogKept
<1>7. ASSUME NEW c \in Clients, WriteLogFails(c) \/ SyncLogFails(c) \/ InsertInto(c) \/ RoomError(c)
                                \/ RoomNoFile(c)
      PROVE  SyncDone'
  <2>1. leader' = NoLeader
    BY <1>7 DEF WriteLogFails, SyncLogFails, InsertInto, RoomError, RoomNoFile, Finish
  <2> QED
    BY <1>1, <1>2, <2>1
<1>8. ASSUME NEW c \in Clients, SwitchMemTable(c)
      PROVE  SyncDone'
  <2>1. leader' = leader /\ leader.step = "idle"
    BY <1>8 DEF SwitchMemTable, Leads
  <2> QED
    BY <1>1, <2>1
<1>9. ASSUME NEW c \in Clients, RoomThere(c)
      PROVE  SyncDone'
  <2>1. CASE Finish(1, TRUE)
    <3>1. leader' = NoLeader
      BY <2>1 DEF Finish
    <3> QED
      BY <1>1, <1>2, <3>1
  <2>2. CASE ~Finish(1, TRUE)
    <3>1. PICK n \in GroupLengths : leader' = [step |-> "log", n |-> n, entries |-> BatchGroup(n)]
      BY <1>9, <2>2 DEF RoomThere
    <3>2. UNCHANGED <<call, writers>>
      BY <1>9, <2>2 DEF RoomThere
    <3>3. n \in 1..Len(writers) /\ \A i \in 2..n : call[writers[i]].sync => call[writers[1]].sync
      BY DEF GroupLengths
    <3>4. n > 0 /\ \A i \in 1..n : i = 1 \/ i \in 2..n
      BY <1>4, <3>3
    <3>5. leader'.step = "log" /\ leader'.n = n
      BY <3>1
    <3> QED
      BY <3>2, <3>3, <3>4, <3>5 DEF SyncDone
  <2> QED
    BY <2>1, <2>2
<1>10. ASSUME NEW c \in Clients, WriteLog(c)
       PROVE  SyncDone'
  <2>1. /\ UNCHANGED <<call, writers>> /\ c = writers[1] /\ leader.step = "log"
        /\ leader' = [leader EXCEPT !.step = IF call[c].sync THEN "sync" ELSE "insert"]
    BY <1>10 DEF WriteLog, Writing, Head
  <2>2. leader'.n = leader.n /\ (leader'.step = "insert" => ~call[c].sync)
    BY <1>4, <2>1
  <2> QED
    BY <2>1, <2>2 DEF SyncDone
<1>11. ASSUME NEW c \in Clients, SyncLog(c)
       PROVE  SyncDone'
  <2>1. /\ UNCHANGED <<call, writers, logfileNumber>> /\ leader.step = "sync" /\ up = "open"
        /\ logs' = [logs EXCEPT ![logfileNumber].synced = Len(logs[logfileNumber].units)]
        /\ leader' = [leader EXCEPT !.step = "insert"]
    BY <1>11 DEF SyncLog, Writing, memVars
  <2>2. leader'.n = leader.n
    BY <1>4, <2>1
  <2>3. logfileNumber \in DOMAIN logs /\ logs[logfileNumber] \in LogFile
    BY <2>1 DEF LogInUse, TypedInv, DiskTyped
  <2>4. logs'[logfileNumber].synced = Len(logs[logfileNumber].units)
        /\ logs'[logfileNumber].units = logs[logfileNumber].units
    BY <2>1, <2>3 DEF LogFile
  <2> QED
    BY <2>1, <2>2, <2>4 DEF SyncDone
<1>12. ASSUME NEW c \in Clients, Write(c) \/ CompactMemTableNow(c)
       PROVE  SyncDone'
  <2>1. PICK op, batch, sync : Enqueue(c, op, batch, sync)
    BY <1>12, Zenon DEF Write, CompactMemTableNow
  <2>2. PICK new : /\ call[c].op = "none" /\ writers' = Append(writers, c) /\ call' = [call EXCEPT ![c] = new]
                   /\ leader' = leader
    BY <2>1 DEF Enqueue
  <2>3. \A i \in 1..Len(writers) : writers'[i] = writers[i]
    BY <1>4, <2>2
  <2>4. \A i \in 1..Len(writers) : writers[i] # c /\ writers[i] \in Clients
    BY <1>4, <2>2 DEF Queued
  <2>5. \A i \in 1..Len(writers) : call'[writers[i]] = call[writers[i]]
    BY <1>4, <2>2, <2>4
  <2>6. UNCHANGED <<logfileNumber, logs>>
    BY <1>12, EnqueueFrame DEF memVars, diskVars
  <2> QED
    BY <1>4, <1>5, <2>2, <2>3, <2>5, <2>6
<1>13. ASSUME NEW c \in Clients, WaitFlushed(c) \/ Flushed(c) \/ RoomWaits(c)
       PROVE  SyncDone'
  <2>1. UNCHANGED <<writers, leader, logs, logfileNumber>>
        /\ (call' = call \/ (call[c].written /\ call' = [call EXCEPT ![c] = NoCall]))
    BY <1>13 DEF WaitFlushed, Flushed, RoomWaits, memVars, diskVars
  <2>2. \A i \in 1..Len(writers) : call'[writers[i]] = call[writers[i]]
    <3>1. \A i \in 1..Len(writers) : ~call[writers[i]].written
      BY DEF Queued
    <3>2. \A i \in 1..Len(writers) : writers[i] \in Clients
      BY <1>4
    <3> QED
      BY <1>4, <2>1, <3>1, <3>2
  <2> QED
    BY <1>4, <1>5, <2>1, <2>2
<1>14. ASSUME Background
       PROVE  SyncDone'
  <2>1. UNCHANGED <<call, writers, leader>>
    BY <1>14 DEF Background, NothingToDo, StartFlush, BuildTable, BuildTableFails, FlushDone, FlushFails,
      StartMerge, MergeTables, MergeFails, InstallMerge, InstallMergeFails, callVars
  <2>2. up = "open"
    BY <1>14, BackgroundOpen
  <2>3. \/ leader'.step = "idle"
        \/ \A c \in Clients : ~WriteLog(c) /\ ~WriteLogFails(c) /\ ~SyncLog(c) /\ ~SwitchMemTable(c)
    <3>1. \A c \in Clients : ~WriteLog(c) /\ ~SyncLog(c)
      BY <1>4, <2>1 DEF WriteLog, SyncLog, Writing
    <3>2. \A c \in Clients : WriteLogFails(c) => leader' = NoLeader
      BY DEF WriteLogFails, Finish
    <3>3. \A c \in Clients : SwitchMemTable(c) => leader.step = "idle"
      BY DEF SwitchMemTable, Leads
    <3> QED
      BY <1>2, <2>1, <3>1, <3>2, <3>3
  <2> QED
    BY <1>1, <1>5, <1>6, <2>1, <2>2, <2>3
<1>15. ASSUME OpenSteps \/ Kill \/ PowerLoss
       PROVE  SyncDone'
  <2>1. CASE up' # "open"
    BY <1>3, <2>1
  <2>2. CASE up' = "open"
    <3>1. up # "open" /\ leader' = leader
      BY <1>15, <2>2 DEF OpenSteps, Recover, ReplayLog, CreateLog, CommitOpen, OpenFails, Kill, PowerLoss,
        Down, callVars
    <3> QED
      BY <1>1, <1>2, <3>1 DEF Idle
  <2> QED
    BY <2>1, <2>2
<1>16. ASSUME UNCHANGED vars
       PROVE  SyncDone'
  BY <1>5, <1>16 DEF vars, callVars, memVars, diskVars
<1> QED
  BY <1>7, <1>8, <1>9, <1>10, <1>11, <1>12, <1>13, <1>14, <1>15, <1>16
  DEF Next, Room, LogCalls

(* What is kept is on its way into the new version.                        *)
LEMMA OpenedNext ==
  ASSUME CallsTyped, TypedInv, Idle, FilesInv, Opened, Durable(kept, Whole), [Next]_vars
  PROVE  Opened'
<1> SUFFICES ASSUME up' \in {"replay", "commit"}
             PROVE  \A b \in kept' :
                      \/ b \in BatchesOf(Entries(version) \cup UNION {tables[k] : k \in opening.made})'
                      \/ \E n \in opening'.left : b \in Whole'[n]
  BY DEF Opened
<1>1. CASE Recover
  <2>1. PICK m \in ToSet(manifests) :
          /\ version' = m /\ opening' = [left |-> {n \in DOMAIN logs : n >= m.log}, made |-> {}]
    BY <1>1 DEF Recover
  <2>2. up = "closed" /\ UNCHANGED <<logs, tables, kept>>
    BY <1>1 DEF Recover, promiseVars
  <2>3. kept \subseteq BatchesOf(Entries(m)) \cup FromLogs(Whole, m.log)
    BY <2>2 DEF Durable, OnDisk
  <2>4. Whole' = Whole /\ Entries(version)' = Entries(m) /\ DOMAIN Whole = DOMAIN logs
    BY <2>1, <2>2 DEF Whole, Entries
  <2>5. \A b \in FromLogs(Whole, m.log) : \E n \in opening'.left : b \in Whole'[n]
    BY <2>1, <2>4 DEF FromLogs
  <2>6. BatchesOf(Entries(m))
          \subseteq BatchesOf(Entries(version) \cup UNION {tables[k] : k \in opening.made})'
    BY <2>4 DEF BatchesOf
  <2> QED
    BY <2>2, <2>3, <2>5, <2>6
<1>2. CASE ReplayLog
  <2> DEFINE n == Min(opening.left)
             found == Replayed(n)
             new == IF found = {} THEN {} ELSE {nextFile}
  <2>1. /\ opening.left # {} /\ up = "replay" /\ UNCHANGED <<version, logs, kept>>
        /\ tables' = IF found = {} THEN tables ELSE With(tables, nextFile, found)
        /\ opening' = [left |-> opening.left \ {n}, made |-> opening.made \cup new]
    BY <1>2 DEF ReplayLog, bgVars, promiseVars
  <2>2. n \in DOMAIN logs
    <3>1. opening.left \subseteq Nat /\ opening.left \subseteq DOMAIN logs
      BY DEF TypedInv, MemoryTyped, DiskTyped
    <3> QED
      BY <2>1, <3>1, MinOf
  <2> HIDE DEF n
  <2>3. BatchesOf(found) = Whole[n]
    BY <2>2 DEF Whole, Recovered, Replayed
  <2> HIDE DEF found
  <2>4. Entries(version)' = Entries(version)
    <3>1. ~Deletes
      <4>1. up = "replay" /\ bg.step = "idle"
        BY <2>1 DEF Idle, NoWork
      <4>2. ~FlushDone /\ ~InstallMerge /\ ~CommitOpen
        BY <4>1 DEF FlushDone, InstallMerge, CommitOpen
      <4> QED
        BY <4>2 DEF Deletes
    <3>2. version \in Known
      BY DEF Known
    <3>3. PICK v : v = version
      OBVIOUS
    <3>4. Entries(v)' = Entries(v)
      BY <3>1, <3>2, <3>3, EntriesSteady
    <3> QED
      BY <2>1, <3>3, <3>4 DEF Entries
  <2>5. \A k \in opening.made : k \in opening'.made /\ tables'[k] = tables[k]
    <3>1. \A k \in opening.made : k \in DOMAIN tables /\ k < nextFile
      BY DEF FilesInv, VersionsSound, TablesOf
    <3>2. nextFile \in Nat
      BY DEF TypedInv, MemoryTyped
    <3>3. \A k \in opening.made : k # nextFile
      BY <3>1, <3>2
    <3> QED
      BY <2>1, <3>1, <3>3 DEF With
  <2>6. found # {} => nextFile \in opening'.made /\ tables'[nextFile] = found
    BY <2>1 DEF With
  <2> DEFINE had == Entries(version) \cup UNION {tables[k] : k \in opening.made}
  <2>7. had \subseteq had' /\ found \subseteq had'
    BY <2>4, <2>5, <2>6
  <2> HIDE DEF had
  <2>8. BatchesOf(had) \subseteq BatchesOf(had') /\ Whole[n] \subseteq BatchesOf(had')
    BY <2>3, <2>7, BatchesCup
  <2>9. Whole' = Whole /\ kept' = kept
    BY <2>1 DEF Whole
  <2>10. \A b \in kept : b \in BatchesOf(had) \/ \E k \in opening.left : b \in Whole[k]
    BY <2>1 DEF Opened, had
  <2>11. \A k \in opening.left : k = n \/ k \in opening'.left
    BY <2>1
  <2>12. \A b \in kept' : b \in BatchesOf(had') \/ \E k \in opening'.left : b \in Whole'[k]
    BY <2>8, <2>9, <2>10, <2>11
  <2>13. BatchesOf(had)' = BatchesOf(had')
    BY DEF BatchesOf
  <2> QED
    BY <2>12, <2>13 DEF had
<1>3. CASE CreateLog
  <2>1. UNCHANGED <<version, tables, kept, opening>> /\ opening.left = {} /\ up = "replay"
    BY <1>3 DEF CreateLog, bgVars, promiseVars
  <2> QED
    BY <2>1 DEF Opened, BatchesOf, Entries
<1>4. CASE UNCHANGED vars
  BY <1>4 DEF vars, openVars, bgVars, diskVars, promiseVars, Opened, BatchesOf, Entries, Whole
<1>5. ~CommitOpen /\ ~OpenFails /\ ~Kill /\ ~PowerLoss
  BY DEF CommitOpen, OpenFails, Kill, PowerLoss, Down
<1>6. ASSUME NEW c \in Clients,
             \/ Write(c) \/ CompactMemTableNow(c) \/ WaitFlushed(c) \/ Flushed(c) \/ Room(c) \/ LogCalls(c)
      PROVE  FALSE
  <2>1. up = "open" /\ UNCHANGED openVars
    <3>1. CASE Write(c) \/ CompactMemTableNow(c)
      BY <3>1, EnqueueFrame
    <3>2. CASE Room(c)
      BY <3>2 DEF Room, RoomError, RoomThere, RoomWaits, RoomNoFile, SwitchMemTable, Leads
    <3>3. CASE LogCalls(c)
      BY <3>3 DEF LogCalls, WriteLog, WriteLogFails, SyncLog, SyncLogFails, InsertInto, Writing
    <3>4. CASE WaitFlushed(c) \/ Flushed(c)
      BY <3>4 DEF WaitFlushed, Flushed
    <3> QED
      BY <1>6, <3>1, <3>2, <3>3, <3>4
  <2> QED
    BY <2>1 DEF openVars
<1>7. ASSUME Background
      PROVE  FALSE
  <2>1. UNCHANGED openVars
    BY <1>7 DEF Background, NothingToDo, StartFlush, BuildTable, BuildTableFails, FlushDone,
      FlushFails, StartMerge, MergeTables, MergeFails, InstallMerge, InstallMergeFails
  <2> QED
    BY <1>7, <2>1, BackgroundOpen DEF openVars
<1> QED
  BY <1>1, <1>2, <1>3, <1>4, <1>5, <1>6, <1>7 DEF Next, OpenSteps

(* A log that is new can be read up to its end.                            *)
LEMMA ReadyEmpty == Ready(Entry, <<>>, 0)
<1>1. <<>> \in Seq(Entry \cup Headers(Entry)) /\ Len(<<>>) = 0
  OBVIOUS
<1>2. Resumes(Entry, <<>>)
  BY UnitsData, ResumesEmpty
<1> QED
  BY <1>1, <1>2 DEF Ready, Aligned

(* Who leads goes on with the same group to the log, or gives up.          *)
LEMMA LeaderKept ==
  ASSUME Idle, Idle', [Next]_vars, \A c \in Clients : ~WriteLog(c) /\ ~SyncLog(c)
  PROVE  leader' = leader \/ leader'.step \in {"idle", "log"}
<1>1. NoLeader.step = "idle"
  BY DEF NoLeader
<1>2. ASSUME NEW c \in Clients, Write(c) \/ CompactMemTableNow(c) \/ WaitFlushed(c) \/ Flushed(c)
      PROVE  leader' = leader
  BY <1>2, EnqueueFrame DEF WaitFlushed, Flushed
<1>3. ASSUME NEW c \in Clients, RoomThere(c)
      PROVE  leader' = NoLeader \/ leader'.step = "log"
  BY <1>3 DEF RoomThere, Finish
<1>4. ASSUME NEW c \in Clients, RoomError(c) \/ RoomWaits(c) \/ RoomNoFile(c) \/ SwitchMemTable(c)
      PROVE  leader' \in {leader, NoLeader}
  BY <1>4 DEF RoomError, RoomWaits, RoomNoFile, SwitchMemTable, Finish
<1>5. ASSUME NEW c \in Clients, WriteLogFails(c) \/ SyncLogFails(c) \/ InsertInto(c)
      PROVE  leader' = NoLeader
  BY <1>5 DEF WriteLogFails, SyncLogFails, InsertInto, Finish
<1>6. ASSUME Background \/ OpenSteps \/ Kill \/ PowerLoss \/ UNCHANGED vars
      PROVE  leader' \in {leader, NoLeader}
  BY <1>6 DEF Background, NothingToDo, StartFlush, BuildTable, BuildTableFails, FlushDone, FlushFails,
    StartMerge, MergeTables, MergeFails, InstallMerge, InstallMergeFails, OpenSteps, Recover, ReplayLog,
    CreateLog, CommitOpen, OpenFails, Kill, PowerLoss, Down, callVars, vars
<1> QED
  BY <1>1, <1>2, <1>3, <1>4, <1>5, <1>6 DEF Next, Room, LogCalls

(* The log in use can be read up to its end after every step.              *)
LEMMA LogReadyNext ==
  ASSUME CallsTyped, TypedInv, Idle, Idle', LogInUse, LogInUse', LogsBelow, LogReady, [Next]_vars
  PROVE  LogReady'
<1>1. /\ blockOffset \in 0..BlockSize /\ leader.entries \in Seq(Entry)
      /\ leader \in [step : {"idle", "log", "sync", "insert"}, n : Nat, entries : Seq(Entry)]
  BY DEF TypedInv, MemoryTyped, CallsTyped
<1>2. CASE up' # "open"
  <2>1. CASE Closes
    BY <1>2, <2>1 DEF Closes, OpenFails, Kill, PowerLoss, Down, LogReady
  <2>2. CASE ~Closes
    <3>1. up # "open"
      <4> SUFFICES ASSUME up = "open" PROVE FALSE
        OBVIOUS
      <4>1. ASSUME NEW c \in Clients, SwitchMemTable(c) \/ InsertInto(c) PROVE up' = up
        BY <4>1 DEF SwitchMemTable, InsertInto, openVars
      <4>2. FlushDone \/ InstallMerge => up' = up
        BY DEF FlushDone, InstallMerge, openVars
      <4>3. ManifestErrors => up' = up
        BY DEF ManifestErrors, FlushFails, InstallMergeFails, openVars
      <4>4. ~CommitOpen /\ ~Recover /\ ~Still
        BY <1>2 DEF CommitOpen, Recover, Still
      <4> QED
        BY <1>2, <2>2, <4>1, <4>2, <4>3, <4>4, StepKinds DEF Deletes
    <3>2. blockOffset' = blockOffset
      <4>1. Recover \/ ReplayLog \/ CreateLog \/ CommitOpen \/ UNCHANGED vars
        <5>1. ASSUME NEW c \in Clients, \/ Write(c) \/ CompactMemTableNow(c) \/ WaitFlushed(c)
                                        \/ Flushed(c) \/ Room(c) \/ LogCalls(c)
              PROVE  FALSE
          BY <3>1, <5>1, EnqueueFrame DEF WaitFlushed, Flushed, Room, RoomError, RoomThere, RoomWaits,
            RoomNoFile, SwitchMemTable, Leads, LogCalls, WriteLog, WriteLogFails, SyncLog, SyncLogFails,
            InsertInto, Writing
        <5> QED
          BY <2>2, <3>1, <5>1, BackgroundOpen DEF Next, OpenSteps, Closes
      <4> QED
        BY <4>1 DEF Recover, ReplayLog, CreateLog, CommitOpen, vars, memVars
    <3> QED
      BY <1>2, <3>1, <3>2 DEF LogReady
  <2> QED
    BY <2>1, <2>2
<1>3. CASE up # "open" /\ up' = "open"
  <2>1. CommitOpen
    <3>1. ASSUME NEW c \in Clients
          PROVE  ~SwitchMemTable(c) /\ ~InsertInto(c)
      BY <1>3 DEF SwitchMemTable, Leads, InsertInto, Writing
    <3>0. bg.step = "idle"
      BY <1>3 DEF Idle, NoWork
    <3>2. ~FlushDone /\ ~InstallMerge /\ ~ManifestErrors
      BY <3>0 DEF FlushDone, InstallMerge, ManifestErrors, FlushFails, InstallMergeFails
    <3>3. ~Still /\ ~Recover /\ ~Closes
      BY <1>3 DEF Still, Recover, Closes, OpenFails, Kill, PowerLoss, Down
    <3> QED
      BY <3>1, <3>2, <3>3, StepKinds DEF Deletes
  <2>2. /\ UNCHANGED <<logfileNumber, blockOffset, leader>> /\ up = "commit"
        /\ \E pending : DeleteObsoleteFiles(version', pending)
    BY <2>1 DEF CommitOpen, memVars, callVars
  <2>3. \A n \in DOMAIN logs' : logs'[n] = logs[n]
    BY <2>2 DEF DeleteObsoleteFiles, Without
  <2>4. logs'[logfileNumber] = logs[logfileNumber] /\ logs[logfileNumber].units = <<>>
    BY <1>3, <2>2, <2>3 DEF LogInUse, LogsBelow
  <2>5. blockOffset = 0 /\ leader.step = "idle"
    BY <1>3 DEF LogReady, Idle, NoLeader
  <2> QED
    BY <1>3, <2>2, <2>4, <2>5, ReadyEmpty DEF LogReady
<1>4. CASE up = "open" /\ up' = "open"
  <2>1. CASE \A c \in Clients : ~WriteLog(c) /\ ~WriteLogFails(c) /\ ~SyncLog(c) /\ ~SwitchMemTable(c)
    <3>1. UNCHANGED <<logfileNumber, blockOffset>> /\ logs'[logfileNumber] = logs[logfileNumber]
      BY <1>4, <2>1, LogKept
    <3>2. leader' = leader \/ leader'.step \in {"idle", "log"}
      BY <2>1, LeaderKept
    <3> QED
      BY <1>4, <3>1, <3>2 DEF LogReady
  <2>2. ASSUME NEW c \in Clients, WriteLog(c)
        PROVE  LogReady'
    <3> DEFINE f == logs[logfileNumber]
               units == FlattenSeq(AddRecord(blockOffset, leader.entries))
               after == OffsetAfter(blockOffset, Len(units))
    <3>1. /\ logs' = [logs EXCEPT ![logfileNumber] = Appended(f, units)]
          /\ blockOffset' = after /\ logfileNumber' = logfileNumber
          /\ leader' = [leader EXCEPT !.step = IF call[c].sync THEN "sync" ELSE "insert"]
      BY <2>2 DEF WriteLog
    <3>2. f \in LogFile /\ logfileNumber \in DOMAIN logs
      BY <1>4 DEF LogInUse, TypedInv, DiskTyped
    <3>3. ~f.bad => /\ leader.entries \in ToSet(ReadRecords(f.units \o units))
                    /\ Ready(Entry, f.units \o units, after)
      <4>1. ~f.bad => Ready(Entry, f.units, blockOffset)
        BY <1>4 DEF LogReady
      <4> QED
        BY <1>1, <4>1, UnitsData, RecordRead
    <3> HIDE DEF f, units, after
    <3>4. Appended(f, units).units = f.units \o units /\ Appended(f, units).bad = f.bad
      BY <3>2 DEF Appended, LogFile
    <3>5. logs'[logfileNumber] = Appended(f, units) /\ leader'.entries = leader.entries
      BY <1>1, <3>1, <3>2
    <3> QED
      BY <1>4, <3>1, <3>3, <3>4, <3>5 DEF LogReady
  <2>3. ASSUME NEW c \in Clients, WriteLogFails(c)
        PROVE  LogReady'
    <3>1. PICK file : logs' = [logs EXCEPT ![logfileNumber] = [file EXCEPT !.bad = TRUE]]
                      /\ file \in LogFile
      <4> DEFINE f == logs[logfileNumber]
                 fragments == AddRecord(blockOffset, leader.entries)
      <4>1. fragments \in Seq(Seq(Units))
        BY <1>1, RecordUnits
      <4>2. PICK i \in DOMAIN fragments, k \in 0..Len(FlattenSeq(fragments)) :
              /\ k < Len(fragments[i])
              /\ logs' = [logs EXCEPT ![logfileNumber] =
                   [Appended(f, FlattenSeq(SubSeq(fragments, 1, i - 1)) \o SubSeq(fragments[i], 1, k))
                      EXCEPT !.bad = TRUE]]
        BY <2>3 DEF WriteLogFails
      <4>3. f \in LogFile
        BY <1>4 DEF LogInUse, TypedInv, DiskTyped
      <4> HIDE DEF fragments, f
      <4>4. k \in Nat
        <5>1. Len(FlattenSeq(fragments)) \in Nat
          BY <4>1, FlattenTyped, LenProperties
        <5> QED
          BY <5>1
      <4> DEFINE some == FlattenSeq(SubSeq(fragments, 1, i - 1)) \o SubSeq(fragments[i], 1, k)
      <4>5. some \in Seq(Units)
        BY <4>1, <4>2, <4>4, PartWritten
      <4>6. logs' = [logs EXCEPT ![logfileNumber] = [Appended(f, some) EXCEPT !.bad = TRUE]]
        BY <4>2 DEF f
      <4> HIDE DEF some
      <4>7. Appended(f, some) \in LogFile
        <5>1. f.units \o some \in Seq(Units)
          BY <4>3, <4>5 DEF LogFile
        <5> QED
          BY <4>3, <5>1 DEF Appended, LogFile
      <4> QED
        BY <4>6, <4>7
    <3>2. logfileNumber \in DOMAIN logs /\ logfileNumber' = logfileNumber
      BY <1>4, <2>3 DEF LogInUse, WriteLogFails
    <3>3. logs'[logfileNumber].bad
      BY <3>1, <3>2 DEF LogFile
    <3> QED
      BY <1>4, <3>2, <3>3 DEF LogReady
  <2>4. ASSUME NEW c \in Clients, SyncLog(c)
        PROVE  LogReady'
    <3>1. /\ logs' = [logs EXCEPT ![logfileNumber].synced = Len(logs[logfileNumber].units)]
          /\ leader' = [leader EXCEPT !.step = "insert"] /\ leader.step = "sync"
          /\ UNCHANGED <<blockOffset, logfileNumber>>
      BY <2>4 DEF SyncLog, Writing, memVars
    <3>2. logs[logfileNumber] \in LogFile /\ logfileNumber \in DOMAIN logs
      BY <1>4 DEF LogInUse, TypedInv, DiskTyped
    <3>3. logs'[logfileNumber].units = logs[logfileNumber].units
          /\ logs'[logfileNumber].bad = logs[logfileNumber].bad /\ leader'.entries = leader.entries
      BY <1>1, <3>1, <3>2 DEF LogFile
    <3> QED
      BY <1>4, <3>1, <3>3 DEF LogReady
  <2>5. ASSUME NEW c \in Clients, SwitchMemTable(c)
        PROVE  LogReady'
    <3>1. /\ logs' = With(logs, nextFile, NewLog) /\ logfileNumber' = nextFile /\ blockOffset' = 0
          /\ leader' = leader /\ leader.step = "idle"
      BY <2>5 DEF SwitchMemTable, Leads
    <3>2. logs'[logfileNumber'].units = <<>>
      BY <3>1 DEF With, NewLog
    <3> QED
      BY <1>4, <3>1, <3>2, ReadyEmpty DEF LogReady
  <2> QED
    BY <2>1, <2>2, <2>3, <2>4, <2>5
<1> QED
  BY <1>2, <1>3, <1>4

(* What the steps that change files make of the version's entries.         *)
LEMMA EntriesNext ==
  ASSUME CallsTyped, TypedInv, Idle, FilesInv, FilesInv', WorkDone, [Next]_vars
  PROVE  /\ ~Deletes /\ version' = version => Entries(version)' = Entries(version)
         /\ FlushDone => Entries(version)' = Entries(version) \cup imm
                         /\ version'.log = logfileNumber
         /\ InstallMerge => Entries(version)' = Entries(version) /\ version'.log = version.log
         /\ CommitOpen => Entries(version)' = Entries(version) \cup UNION {tables[k] : k \in opening.made}
<1>1. ASSUME NEW v, version' = v
      PROVE  Entries(version)' = Entries(v)'
  BY <1>1 DEF Entries
<1>2. PICK v : v = version'
  OBVIOUS
<1>3. ASSUME Deletes
      PROVE  Entries(version)' = Entries(v)
  <2>1. v \in Known'
    BY <1>2 DEF Known
  <2>2. Entries(v)' = Entries(v)
    BY <1>3, <2>1, EntriesSpared
  <2> QED
    BY <1>1, <1>2, <2>2
<1>4. ASSUME ~Deletes, version' = version
      PROVE  Entries(version)' = Entries(version)
  <2>1. version \in Known /\ v = version
    BY <1>2, <1>4 DEF Known
  <2>2. Entries(v)' = Entries(v)
    BY <1>4, <2>1, EntriesSteady
  <2> QED
    BY <1>1, <1>2, <2>1, <2>2
<1>5. ASSUME FlushDone
      PROVE  Entries(version)' = Entries(version) \cup imm /\ version'.log = logfileNumber
  <2>1. v = Edited(version, bg.edit) /\ bg.step = "apply"
    BY <1>2, <1>5 DEF FlushDone
  <2>2. Entries(v) = Entries(version) \cup imm /\ v.log = logfileNumber
    BY <2>1, FlushAdds
  <2> QED
    BY <1>2, <1>3, <1>5, <2>2 DEF Deletes
<1>6. ASSUME InstallMerge
      PROVE  Entries(version)' = Entries(version) /\ version'.log = version.log
  <2>1. v = Edited(version, bg.edit) /\ bg.step = "install"
    BY <1>2, <1>6 DEF InstallMerge
  <2>2. Entries(v) = Entries(version) /\ v.log = version.log
    BY <2>1, MergeAdds
  <2> QED
    BY <1>2, <1>3, <1>6, <2>2 DEF Deletes
<1>7. ASSUME CommitOpen
      PROVE  Entries(version)' = Entries(version) \cup UNION {tables[k] : k \in opening.made}
  <2> DEFINE e == Edit(logfileNumber, opening.made, {}, {})
  <2>1. v = Edited(version, e)
    BY <1>2, <1>7 DEF CommitOpen
  <2>2. e.dropped = {} /\ e.l0 = opening.made /\ e.deep = {}
    BY DEF Edit
  <2> HIDE DEF e
  <2>3. LiveTables(v) = LiveTables(version) \cup opening.made
    BY <2>1, <2>2, EditedIs
  <2>4. \A x : x \in Entries(v) <=> \E k \in LiveTables(version) \cup opening.made : x \in tables[k]
    BY <2>3 DEF Entries
  <2>5. \A x : x \in Entries(version) \cup UNION {tables[k] : k \in opening.made}
                 <=> \E k \in LiveTables(version) \cup opening.made : x \in tables[k]
    BY DEF Entries
  <2>6. Entries(v) = Entries(version) \cup UNION {tables[k] : k \in opening.made}
    BY <2>4, <2>5
  <2> QED
    BY <1>3, <1>7, <2>6 DEF Deletes
<1> QED
  BY <1>4, <1>5, <1>6, <1>7

(* While the database is open, only the end of a write changes what is in  *)
(* it: a flush and a merge move entries.                                   *)
LEMMA ContentsNext ==
  ASSUME CallsTyped, TypedInv, Idle, FilesInv, FilesInv', MemorySound, WorkDone, [Next]_vars,
         up = "open", up' = "open"
  PROVE  \/ Contents' = Contents
         \/ \E c \in Clients : InsertInto(c) /\ Contents' = Contents \cup ToSet(leader.entries)
<1>0. ~CommitOpen /\ ~Recover /\ ~Closes
  BY DEF CommitOpen, Recover, Closes, OpenFails, Kill, PowerLoss, Down
<1>1. ASSUME FlushDone
      PROVE  Contents' = Contents
  <2>1. mem' = mem /\ imm' = {} /\ Entries(version)' = Entries(version) \cup imm
    BY <1>1, EntriesNext DEF FlushDone
  <2> QED
    BY <2>1 DEF Contents
<1>2. ASSUME InstallMerge
      PROVE  Contents' = Contents
  <2>1. mem' = mem /\ imm' = imm /\ Entries(version)' = Entries(version)
    BY <1>2, EntriesNext DEF InstallMerge, memVars
  <2> QED
    BY <2>1 DEF Contents
<1>3. ASSUME ~Deletes, version' = version, mem' = mem, imm' = imm
      PROVE  Contents' = Contents
  <2>1. Entries(version)' = Entries(version)
    BY <1>3, EntriesNext
  <2> QED
    BY <1>3, <2>1 DEF Contents
<1>4. ASSUME ~Deletes, NEW c \in Clients, SwitchMemTable(c)
      PROVE  Contents' = Contents
  <2>1. imm' = mem /\ mem' = {} /\ version' = version /\ imm = {}
    BY <1>4 DEF SwitchMemTable, MustWait, MemorySound
  <2>2. Entries(version)' = Entries(version)
    BY <1>4, <2>1, EntriesNext
  <2> QED
    BY <2>1, <2>2 DEF Contents
<1>5. ASSUME ~Deletes, NEW c \in Clients, InsertInto(c)
      PROVE  Contents' = Contents \cup ToSet(leader.entries)
  <2>1. mem' = mem \cup ToSet(leader.entries) /\ imm' = imm /\ version' = version
    BY <1>5 DEF InsertInto, bgVars
  <2>2. Entries(version)' = Entries(version)
    BY <1>5, <2>1, EntriesNext
  <2> QED
    BY <2>1, <2>2 DEF Contents
<1>6. Deletes => FlushDone \/ InstallMerge
  BY <1>0 DEF Deletes
<1>7. Still => version' = version /\ mem' = mem /\ imm' = imm
  BY DEF Still
<1>8. ManifestErrors => version' = version /\ mem' = mem /\ imm' = imm
  BY ErrorLeaves
<1> QED
  BY <1>0, <1>1, <1>2, <1>3, <1>4, <1>5, <1>6, <1>7, <1>8, StepKinds

-----------------------------------------------------------------------------
(* What is in the database consists of blocks.                             *)
InBlocks == \A W : Stored(W) => \A f \in Contents : \E w \in W : f \in w
(* It does, as the tables of a version that is sound are there.            *)
LEMMA ContentsWhole == FilesInv => InBlocks
<1> SUFFICES ASSUME FilesInv, NEW W, Stored(W), NEW f \in Contents
             PROVE  \E w \in W : f \in w
  BY DEF InBlocks
<1>1. CASE f \in mem \cup imm
  BY <1>1 DEF Stored, WholeIn
<1>2. CASE f \in Entries(version)
  <2>1. PICK k \in LiveTables(version) : f \in tables[k]
    BY <1>2 DEF Entries
  <2>2. k \in DOMAIN tables
    BY DEF FilesInv, VersionsSound, Known, Sound, TablesOf
  <2> QED
    BY <2>1, <2>2 DEF Stored, WholeIn
<1> QED
  BY <1>1, <1>2 DEF Contents

(* The entries in the database.                                            *)
EntriesOnly == Contents \subseteq Entry
(* And only entries are in it.                                             *)
LEMMA ContentsTyped == TypedInv /\ FilesInv => EntriesOnly
<1> SUFFICES ASSUME TypedInv, FilesInv
             PROVE  Contents \subseteq Entry
  BY DEF EntriesOnly
<1>1. \A k \in LiveTables(version) : k \in DOMAIN tables
  BY DEF FilesInv, VersionsSound, Known, Sound, TablesOf
<1>2. \A k \in DOMAIN tables : tables[k] \subseteq Entry
  BY DEF TypedInv, DiskTyped
<1>3. Entries(version) \subseteq Entry
  BY <1>1, <1>2 DEF Entries
<1> QED
  BY <1>3 DEF Contents, TypedInv, MemoryTyped

(* The group under way is of batches that the database does not have.      *)
LEMMA GroupFresh ==
  ASSUME IInv, WholeInv, up = "open"
  PROVE  BatchesOf(ToSet(leader.entries)) \cap BatchesOf(Contents) = {}
<1>1. ASSUME NEW e \in ToSet(leader.entries), NEW f \in Contents, e.batch = f.batch
      PROVE  FALSE
  <2>1. PICK W : WholeFor(W)
    BY DEF WholeInv
  <2>2. PICK v \in W : e \in v /\ v \subseteq ToSet(leader.entries)
    BY <2>1 DEF WholeFor, Stored, WholeIn
  <2>3. PICK w \in W : f \in w
    BY <2>1, ContentsWhole DEF WholeFor, IInv, FilesInv, InBlocks
  <2>4. v = w
    BY <1>1, <2>1, <2>2, <2>3 DEF WholeFor, Apart
  <2>5. f \in ToSet(leader.entries)
    BY <2>2, <2>3, <2>4
  <2>6. PICK i \in 1..Len(leader.entries) : f = leader.entries[i]
    <3>1. leader.entries \in Seq(Entry)
      BY DEF IInv, CallsTyped
    <3>2. DOMAIN leader.entries = 1..Len(leader.entries)
      BY <3>1
    <3> QED
      BY <2>5, <3>2 DEF ToSet
  <2>7. lastSequence < f.seq
    BY <2>6 DEF IInv, RequestsSound
  <2>8. f.seq <= lastSequence
    BY NewestHolds DEF NewestIsLast, Contents
  <2>9. f.seq \in Nat /\ lastSequence \in Nat
    BY ContentsTyped DEF EntriesOnly, Entry, IInv, FilesInv, TypedInv, MemoryTyped
  <2> QED
    BY <2>7, <2>8, <2>9
<1> QED
  BY <1>1 DEF BatchesOf

(* Calls under way have batches of their own, after every step.            *)
LEMMA FreshNext ==
  ASSUME IInv, IInv', WholeInv, WholeInv', WorkDone, Fresh, [Next]_vars
  PROVE  Fresh'
<1>0. FilesInv /\ FilesInv' /\ TypedInv /\ TypedInv'
  BY DEF IInv, FilesInv, TypedInv
<1>a. EntriesOnly'
  BY <1>0, ContentsTyped, PTL
<1>b. InBlocks'
  BY <1>0, ContentsWhole, PTL
<1> USE DEF IInv
<1>1. ASSUME NEW c \in Clients, call'[c].batch = 0
      PROVE  call'[c].batch \notin BatchesOf(Contents)'
  <2> QED
    BY <1>1, <1>a DEF EntriesOnly, Entry, BatchesOf, Batches
<1>2. ASSUME up' # "open", NEW c \in Clients
      PROVE  call'[c].batch = 0
  BY <1>2 DEF Idle, NoCall
<1>3. ASSUME NEW c \in Clients, c \notin Grouped'
      PROVE  call'[c].batch \notin BatchesOf(Contents)'
  <2>1. PICK W : WholeFor(W)'
    BY DEF WholeInv
  <2>2. ASSUME NEW f, f \in Contents'
        PROVE  \E w \in W : f \in w
    BY <1>b, <2>1, <2>2 DEF WholeFor, InBlocks
  <2>3. \A w \in W : \A e \in w : e.batch # call'[c].batch
    BY <1>3, <2>1 DEF WholeFor, Waiting
  <2> QED
    BY <2>2, <2>3 DEF BatchesOf
<1>4. ASSUME up' = "open", NEW c \in Clients, c \in Grouped'
      PROVE  call'[c].batch \notin BatchesOf(Contents)'
  <2>1. leader'.step # "idle"
    BY <1>4 DEF Grouped
  <2>2. up = "open" /\ Contents' = Contents
    <3>1. NoLeader.step = "idle"
      BY DEF NoLeader
    <3>2. up = "open"
      <4> SUFFICES ASSUME up # "open" PROVE FALSE
        OBVIOUS
      <4>1. ~CommitOpen
        BY <2>1, <3>1 DEF CommitOpen, callVars, Idle
      <4>2. bg.step = "idle"
        BY DEF Idle, NoWork
      <4>3. ~FlushDone /\ ~InstallMerge /\ ~ManifestErrors
        BY <4>2 DEF FlushDone, InstallMerge, ManifestErrors, FlushFails, InstallMergeFails
      <4>4. \A d \in Clients : ~SwitchMemTable(d) /\ ~InsertInto(d)
        BY DEF SwitchMemTable, Leads, InsertInto, Writing
      <4>5. ~Still /\ ~Recover /\ ~Closes
        BY <1>4 DEF Still, Recover, Closes, OpenFails, Kill, PowerLoss, Down
      <4> QED
        BY <4>1, <4>3, <4>4, <4>5, StepKinds DEF Deletes
    <3>3. \A d \in Clients : ~InsertInto(d)
      BY <2>1, <3>1 DEF InsertInto, Finish
    <3> QED
      BY <1>0, <1>4, <3>2, <3>3, ContentsNext
  <2>3. call'[c].batch = 0 \/ call'[c].batch = call[c].batch
    <3>1. CASE \A d \in Clients : ~Write(d) /\ ~CompactMemTableNow(d)
      BY <3>1, BatchesKept DEF BatchKept, WholeInv
    <3>2. ASSUME NEW d \in Clients, Write(d) \/ CompactMemTableNow(d)
          PROVE  call'[c].batch = call[c].batch
      <4>1. PICK batch :
              /\ \A k \in Clients : call'[k].batch = IF k = d THEN batch ELSE call[k].batch
              /\ leader' = leader /\ \A i \in 1..Len(writers) : writers'[i] = writers[i]
        BY <3>2, BatchIssued
      <4>2. leader.n \in Nat /\ leader.n <= Len(writers) /\ Len(writers) \in Nat
        BY DEF CallsTyped
      <4>3. PICK i \in 1..leader.n : c = writers'[i]
        BY <1>4, <2>1, <4>1 DEF Grouped
      <4>4. i \in 1..Len(writers)
        BY <4>2, <4>3
      <4>5. call[c].op # "none"
        BY <4>1, <4>3, <4>4 DEF Queued
      <4>6. call[d].op = "none"
        BY <3>2, RequestsEnqueued DEF TypedInv
      <4> QED
        BY <4>1, <4>5, <4>6
    <3> QED
      BY <3>1, <3>2
  <2>4. BatchesOf(Contents)' = BatchesOf(Contents)
    BY <2>2 DEF BatchesOf
  <2> QED
    BY <1>1, <2>3, <2>4 DEF Fresh
<1> QED
  BY <1>1, <1>2, <1>3, <1>4 DEF Fresh

(* The new memtable has other batches than the old one, after every step.  *)
LEMMA SeparateNext ==
  ASSUME IInv, WholeInv, Separate, [Next]_vars
  PROVE  Separate'
<1> USE DEF IInv
<1>1. BatchesOf({}) = {}
  BY DEF BatchesOf
<1>2. ASSUME mem' = {} \/ imm' = {}
      PROVE  Separate'
  BY <1>2 DEF Separate, BatchesOf
<1>3. ASSUME UNCHANGED <<mem, imm>>
      PROVE  Separate'
  BY <1>3 DEF Separate, BatchesOf
<1>4. ASSUME NEW c \in Clients, InsertInto(c)
      PROVE  Separate'
  <2>1. mem' = mem \cup ToSet(leader.entries) /\ imm' = imm /\ up = "open"
    BY <1>4 DEF InsertInto, Writing
  <2>2. BatchesOf(ToSet(leader.entries)) \cap BatchesOf(Contents) = {}
    BY <2>1, GroupFresh
  <2>3. BatchesOf(imm) \subseteq BatchesOf(Contents)
    BY DEF BatchesOf, Contents
  <2>4. /\ BatchesOf(mem)' = BatchesOf(mem) \cup BatchesOf(ToSet(leader.entries))
        /\ BatchesOf(imm)' = BatchesOf(imm)
    BY <2>1 DEF BatchesOf
  <2> QED
    BY <2>2, <2>3, <2>4 DEF Separate
<1>5. ASSUME NEW c \in Clients, SwitchMemTable(c)
      PROVE  mem' = {}
  BY <1>5 DEF SwitchMemTable
<1>6. Deletes => imm' = {} \/ UNCHANGED <<mem, imm>>
  BY DEF Deletes, FlushDone, InstallMerge, CommitOpen, memVars
<1>7. Still \/ Recover => UNCHANGED <<mem, imm>>
  BY DEF Still, Recover
<1>8. ManifestErrors => UNCHANGED <<mem, imm>>
  BY ErrorLeaves DEF TypedInv
<1>9. Closes => mem' = {}
  BY DEF Closes, OpenFails, Kill, PowerLoss, Down
<1> QED
  BY <1>2, <1>3, <1>4, <1>5, <1>6, <1>7, <1>8, <1>9, StepKinds

(* What the logs from a number on give is still given when they rise.      *)
LEMMA FromLogsRise ==
  ASSUME NEW R, NEW S, Rises(R, S), DOMAIN R \subseteq Nat, NEW least \in Nat,
         Deletes => version'.log \in Nat /\ version'.log <= least
  PROVE  FromLogs(R, least) \subseteq FromLogs(S, least)
<1>1. ASSUME NEW b, NEW n \in DOMAIN R, n >= least, b \in R[n]
      PROVE  n \in DOMAIN S /\ b \in S[n]
  <2>1. n \in Nat
    OBVIOUS
  <2>2. ~(Deletes /\ n < version'.log)
    BY <1>1, <2>1
  <2> QED
    BY <1>1, <2>2 DEF Rises
<1> QED
  BY <1>1 DEF FromLogs

(* What later logs give earlier ones and they give.                        *)
LEMMA FromLogsDown ==
  ASSUME NEW R, DOMAIN R \subseteq Nat, NEW k \in Nat, NEW l \in Nat, k <= l
  PROVE  /\ FromLogs(R, l) \subseteq FromLogs(R, k)
         /\ l \in DOMAIN R => R[l] \subseteq FromLogs(R, k)
<1>1. \A n \in DOMAIN R : n >= l => n >= k
  OBVIOUS
<1>2. FromLogs(R, l) \subseteq FromLogs(R, k)
  BY <1>1 DEF FromLogs
<1>3. l \in DOMAIN R => R[l] \subseteq FromLogs(R, k)
  BY DEF FromLogs
<1> QED
  BY <1>2, <1>3

(* The logs, and what is given of them.                                    *)
LEMMA LogsTyped ==
  ASSUME TypedInv, LogInUse
  PROVE  /\ DOMAIN Whole = DOMAIN logs /\ DOMAIN Certain = DOMAIN logs /\ DOMAIN logs \subseteq Nat
         /\ up = "open" => logfileNumber \in DOMAIN logs /\ version.log <= logfileNumber
         /\ logfileNumber \in Nat /\ version.log \in Nat
         /\ \A m \in ToSet(manifests) : m \in Manifest /\ m.log \in Nat
<1>1. DOMAIN Whole = DOMAIN logs /\ DOMAIN Certain = DOMAIN logs
  BY DEF Whole, Certain
<1>2. \A m \in ToSet(manifests) : m \in Manifest
  BY DEF TypedInv, DiskTyped, ToSet
<1> QED
  BY <1>1, <1>2 DEF TypedInv, DiskTyped, MemoryTyped, LogInUse, Manifest

(* A version that covers the one in use has, with the logs from its own    *)
(* number on, all that is promised.                                        *)
LEMMA CrashFinds ==
  ASSUME TypedInv, LogInUse, up = "open", NEW A, NEW R, DOMAIN R = DOMAIN logs, InMemory(A, R),
         NEW m, m.log \in Nat, Covers(m)
  PROVE  A \subseteq BatchesOf(Entries(m)) \cup FromLogs(R, m.log)
<1>1. DOMAIN R \subseteq Nat /\ logfileNumber \in DOMAIN R /\ logfileNumber \in Nat /\ version.log \in Nat
  BY LogsTyped
<1>2. Entries(version) \subseteq Entries(m) /\ m.log <= logfileNumber
      /\ (m.log <= version.log \/ imm \subseteq Entries(m))
  BY DEF Covers
<1>3. R[logfileNumber] \subseteq FromLogs(R, m.log)
  BY <1>1, <1>2, FromLogsDown
<1>4. m.log <= version.log => FromLogs(R, version.log) \subseteq FromLogs(R, m.log)
  BY <1>1, FromLogsDown
<1>5. A \subseteq BatchesOf(mem) \cup BatchesOf(imm) \cup BatchesOf(Entries(version))
  <2>1. A \subseteq BatchesOf(mem \cup imm \cup Entries(version))
    BY DEF InMemory, Contents
  <2>2. /\ BatchesOf(mem \cup imm \cup Entries(version))
             = BatchesOf(mem \cup imm) \cup BatchesOf(Entries(version))
        /\ BatchesOf(mem \cup imm) = BatchesOf(mem) \cup BatchesOf(imm)
    BY BatchesCup
  <2> QED
    BY <2>1, <2>2
<1>6. BatchesOf(Entries(version)) \subseteq BatchesOf(Entries(m))
      /\ (imm \subseteq Entries(m) => BatchesOf(imm) \subseteq BatchesOf(Entries(m)))
  BY <1>2, BatchesCup
<1>7. /\ A \cap BatchesOf(mem) \subseteq R[logfileNumber]
      /\ A \cap BatchesOf(imm) \subseteq FromLogs(R, version.log)
  BY DEF InMemory
<1> QED
  BY <1>2, <1>3, <1>4, <1>5, <1>6, <1>7

-----------------------------------------------------------------------------
(* The parts of what is promised, after a step.  A database that was not   *)
(* open, and is not.                                                       *)
LEMMA DurableClosed ==
  ASSUME CallsTyped, TypedInv, Idle, LogInUse, FilesInv, [Next]_vars, ~Deletes, up # "open", up' # "open",
         ToSet(manifests') \subseteq ToSet(manifests),
         NEW A, NEW R, NEW S, DOMAIN R = DOMAIN logs, Rises(R, S), Durable(A, R)
  PROVE  Durable(A, S)'
<1>1. ASSUME NEW m, m \in ToSet(manifests')
      PROVE  A \subseteq BatchesOf(Entries(m)') \cup FromLogs(S, m.log)
  <2>1. m \in ToSet(manifests) /\ m \in Known
    BY <1>1 DEF Known
  <2>2. A \subseteq BatchesOf(Entries(m)) \cup FromLogs(R, m.log)
    BY <2>1 DEF Durable, OnDisk
  <2>3. Entries(m)' = Entries(m)
    BY <2>1, EntriesSteady
  <2>4. m.log \in Nat /\ DOMAIN R \subseteq Nat
    BY <2>1, LogsTyped
  <2>5. FromLogs(R, m.log) \subseteq FromLogs(S, m.log)
    BY <2>4, FromLogsRise
  <2> QED
    BY <2>2, <2>3, <2>5
<1> QED
  BY <1>1 DEF Durable, OnDisk, BatchesOf, FromLogs

(* An open database whose memtables stay, and whose version has the same   *)
(* entries.                                                                *)
LEMMA DurableOpen ==
  ASSUME TypedInv, LogInUse, UNCHANGED <<mem, imm, logfileNumber>>, up = "open", up' = "open",
         version'.log = version.log, Entries(version)' = Entries(version),
         NEW A, NEW R, NEW S, DOMAIN R = DOMAIN logs, Rises(R, S), Durable(A, R)
  PROVE  Durable(A, S)'
<1>1. DOMAIN R \subseteq Nat /\ logfileNumber \in DOMAIN R /\ logfileNumber \in Nat /\ version.log \in Nat
      /\ version.log <= logfileNumber
  BY LogsTyped
<1>2. FromLogs(R, version.log) \subseteq FromLogs(S, version.log)
  BY <1>1, FromLogsRise
<1>3. R[logfileNumber] \subseteq S[logfileNumber]
  <2>1. ~(logfileNumber < version'.log)
    BY <1>1
  <2> QED
    BY <1>1, <2>1 DEF Rises
<1>4. /\ A \subseteq BatchesOf(Contents) /\ A \cap BatchesOf(mem) \subseteq R[logfileNumber]
      /\ A \cap BatchesOf(imm) \subseteq FromLogs(R, version.log)
  BY DEF Durable, InMemory
<1>5. Contents' = Contents
  BY DEF Contents
<1>6. BatchesOf(Contents)' = BatchesOf(Contents) /\ BatchesOf(mem)' = BatchesOf(mem)
      /\ BatchesOf(imm)' = BatchesOf(imm) /\ FromLogs(S, version.log)' = FromLogs(S, version.log)
  BY <1>5 DEF BatchesOf, FromLogs
<1> QED
  BY <1>2, <1>3, <1>4, <1>6 DEF Durable, InMemory

(* The process or the machine dies while the database is open.             *)
LEMMA DurableCrash ==
  ASSUME CallsTyped, TypedInv, Idle, LogInUse, FilesInv, Covered, WorkDone, Kill \/ PowerLoss, up = "open",
         NEW A, NEW R, NEW S, DOMAIN R = DOMAIN logs, Rises(R, S), Durable(A, R), [Next]_vars
  PROVE  Durable(A, S)'
<1>1. manifests' = ManifestsLeft /\ tables' = tables /\ up' = "closed" /\ ~Deletes
  <2>1. manifests' = ManifestsLeft /\ tables' = tables /\ up' = "closed"
    BY DEF Kill, PowerLoss, Down
  <2>2. ~FlushDone /\ ~InstallMerge /\ ~CommitOpen
    BY <2>1 DEF FlushDone, InstallMerge, CommitOpen, openVars
  <2> QED
    BY <2>1, <2>2 DEF Deletes
<1>2. ASSUME NEW m, m \in ToSet(manifests')
      PROVE  A \subseteq BatchesOf(Entries(m)') \cup FromLogs(S, m.log)
  <2>1. m \in ToSet(manifests) \/ (bg.step \in {"apply", "install"} /\ m = Latest(bg.edit))
    BY <1>1, <1>2, ManifestsLeftTyped DEF TypedInv
  <2>2. Covers(m)
    BY <2>1, LatestCovers DEF Covered
  <2>3. m.log \in Nat
    <3>1. m \in Manifest
      <4>1. ManifestsLeft \in Seq(Manifest)
        BY ManifestsLeftTyped DEF TypedInv
      <4> QED
        BY <1>1, <1>2, <4>1 DEF ToSet
    <3> QED
      BY <3>1 DEF Manifest
  <2>4. InMemory(A, R)
    BY DEF Durable
  <2>5. A \subseteq BatchesOf(Entries(m)) \cup FromLogs(R, m.log)
    BY <2>2, <2>3, <2>4, CrashFinds
  <2>6. DOMAIN R \subseteq Nat
    BY LogsTyped
  <2>7. FromLogs(R, m.log) \subseteq FromLogs(S, m.log)
    BY <1>1, <2>3, <2>6, FromLogsRise
  <2>8. Entries(m)' = Entries(m)
    BY <1>1 DEF Entries
  <2> QED
    BY <2>5, <2>7, <2>8
<1> QED
  BY <1>1, <1>2 DEF Durable, OnDisk, BatchesOf, FromLogs

(* The memtable becomes the old one, and a new log goes with the new one.  *)
LEMMA DurableSwitch ==
  ASSUME CallsTyped, TypedInv, Idle, LogInUse, FilesInv, FilesInv', MemorySound, WorkDone, [Next]_vars,
         NEW c \in Clients, SwitchMemTable(c),
         NEW A, NEW R, NEW S, DOMAIN R = DOMAIN logs, Rises(R, S), Durable(A, R)
  PROVE  Durable(A, S)'
<1>1. /\ imm' = mem /\ mem' = {} /\ version' = version /\ imm = {} /\ up = "open" /\ up' = "open"
  BY DEF SwitchMemTable, MustWait, MemorySound, Leads, openVars
<1>2. ~Deletes
  <2>1. ~FlushDone /\ ~InstallMerge /\ ~CommitOpen
    <3>1. logfileNumber' = nextFile /\ logfileNumber < nextFile /\ nextFile \in Nat /\ logfileNumber \in Nat
      BY <1>1 DEF SwitchMemTable, LogInUse, TypedInv, MemoryTyped
    <3>2. FlushDone \/ InstallMerge \/ CommitOpen => logfileNumber' = logfileNumber
      BY DEF FlushDone, InstallMerge, CommitOpen, memVars
    <3> QED
      BY <3>1, <3>2
  <2> QED
    BY <2>1 DEF Deletes
<1>3. Entries(version)' = Entries(version)
  BY <1>1, <1>2, EntriesNext
<1>4. DOMAIN R \subseteq Nat /\ logfileNumber \in DOMAIN R /\ logfileNumber \in Nat /\ version.log \in Nat
      /\ version.log <= logfileNumber
  BY <1>1, LogsTyped
<1>5. R[logfileNumber] \subseteq FromLogs(R, version.log)
  BY <1>4, FromLogsDown
<1>6. FromLogs(R, version.log) \subseteq FromLogs(S, version.log)
  BY <1>2, <1>4, FromLogsRise
<1>7. /\ A \subseteq BatchesOf(Contents) /\ A \cap BatchesOf(mem) \subseteq R[logfileNumber]
  BY <1>1 DEF Durable, InMemory
<1>8. Contents' = Contents
  BY <1>1, <1>3 DEF Contents
<1>9. BatchesOf(Contents)' = BatchesOf(Contents) /\ BatchesOf(mem)' = {}
      /\ BatchesOf(imm)' = BatchesOf(mem) /\ FromLogs(S, version.log)' = FromLogs(S, version.log)
  BY <1>1, <1>8 DEF BatchesOf, FromLogs
<1> QED
  BY <1>1, <1>5, <1>6, <1>7, <1>9 DEF Durable, InMemory

(* A flush is done: A of the old memtable need no log any more, and may    *)
(* become certain.                                                         *)
LEMMA DurableFlush ==
  ASSUME CallsTyped, TypedInv, Idle, LogInUse, FilesInv, FilesInv', WorkDone, [Next]_vars,
         FlushDone, Separate, NEW A, NEW B, NEW R, NEW S, DOMAIN R = DOMAIN logs, Rises(R, S),
         Durable(A, R), B \subseteq A \cup (BatchesOf(Contents) \cap BatchesOf(imm))
  PROVE  Durable(B, S)'
<1>1. /\ imm' = {} /\ mem' = mem /\ UNCHANGED <<up, logfileNumber>> /\ bg.step = "apply"
  BY DEF FlushDone, openVars
<1>2. up = "open"
  BY <1>1 DEF Idle, NoWork
<1>3. Entries(version)' = Entries(version) \cup imm /\ version'.log = logfileNumber
  BY EntriesNext
<1>4. DOMAIN R \subseteq Nat /\ logfileNumber \in DOMAIN R /\ logfileNumber \in Nat
  BY <1>2, LogsTyped
<1>5. R[logfileNumber] \subseteq S[logfileNumber]
  <2>1. ~(logfileNumber < version'.log)
    BY <1>3, <1>4
  <2> QED
    BY <1>4, <2>1 DEF Rises
<1>6. /\ A \subseteq BatchesOf(Contents) /\ A \cap BatchesOf(mem) \subseteq R[logfileNumber]
  BY <1>2 DEF Durable, InMemory
<1>7. B \subseteq BatchesOf(Contents) /\ B \cap BatchesOf(mem) \subseteq R[logfileNumber]
  BY <1>6 DEF Separate
<1>8. Contents' = Contents
  BY <1>1, <1>3 DEF Contents
<1>9. BatchesOf(Contents)' = BatchesOf(Contents) /\ BatchesOf(mem)' = BatchesOf(mem)
      /\ BatchesOf(imm)' = {}
  BY <1>1, <1>8 DEF BatchesOf
<1> QED
  BY <1>1, <1>2, <1>5, <1>7, <1>9 DEF Durable, InMemory

(* The database is open, with what was found.                              *)
LEMMA DurableCommit ==
  ASSUME CallsTyped, TypedInv, Idle, FilesInv, FilesInv', WorkDone, [Next]_vars, CommitOpen,
         NEW A, A = BatchesOf(Entries(version) \cup UNION {tables[k] : k \in opening.made}), NEW S
  PROVE  Durable(A, S)'
<1>1. /\ mem' = {} /\ imm' = {} /\ up' = "open"
  BY DEF CommitOpen, Idle, memVars
<1>2. Contents' = Entries(version) \cup UNION {tables[k] : k \in opening.made}
  BY <1>1, EntriesNext DEF Contents
<1>3. BatchesOf(Contents)' = A /\ BatchesOf(mem)' = {} /\ BatchesOf(imm)' = {}
  BY <1>1, <1>2 DEF BatchesOf
<1> QED
  BY <1>1, <1>3 DEF Durable, InMemory

(* Every step of those that promise nothing keeps what was promised.       *)
LEMMA DurableGo ==
  ASSUME IInv, IInv', Covered, WorkDone, [Next]_vars,
         \A c \in Clients : ~InsertInto(c), ~FlushDone, ~CommitOpen,
         NEW A, NEW R, NEW S, DOMAIN R = DOMAIN logs, Rises(R, S), Durable(A, R)
  PROVE  Durable(A, S)'
<1>0. TypedInv /\ FilesInv /\ FilesInv' /\ CallsTyped /\ Idle /\ LogInUse /\ MemorySound /\ Idle'
  BY DEF IInv, TypedInv, FilesInv
<1>1. ASSUME NEW c \in Clients, SwitchMemTable(c)
      PROVE  Durable(A, S)'
  BY <1>0, <1>1, DurableSwitch
<1>2. CASE InstallMerge
  <2>1. UNCHANGED <<mem, imm, logfileNumber, up>> /\ bg.step = "install"
    BY <1>2 DEF InstallMerge, memVars, openVars
  <2>2. up = "open"
    BY <1>0, <2>1 DEF Idle, NoWork
  <2>3. version'.log = version.log /\ Entries(version)' = Entries(version)
    BY <1>0, <1>2, EntriesNext
  <2> QED
    BY <1>0, <2>1, <2>2, <2>3, DurableOpen
<1>3. CASE ~Deletes /\ up = "open" /\ up' = "open" /\ UNCHANGED <<mem, imm, version, logfileNumber>>
  <2>1. Entries(version)' = Entries(version)
    BY <1>0, <1>3, EntriesNext
  <2> QED
    BY <1>0, <1>3, <2>1, DurableOpen
<1>4. CASE ~Deletes /\ up # "open" /\ up' # "open" /\ ToSet(manifests') \subseteq ToSet(manifests)
  BY <1>0, <1>4, DurableClosed
<1>5. CASE Kill \/ PowerLoss
  <2>1. CASE up = "open"
    BY <1>0, <1>5, <2>1, DurableCrash
  <2>2. CASE up # "open"
    <3>1. bg.step = "idle"
      BY <1>0, <2>2 DEF Idle, NoWork
    <3>2. manifests' = manifests /\ up' = "closed"
      BY <1>5, <3>1 DEF Kill, PowerLoss, Down, ManifestsLeft
    <3>3. ~Deletes
      BY <2>2, <3>1 DEF Deletes, FlushDone, InstallMerge, CommitOpen
    <3> QED
      BY <1>4, <2>2, <3>2, <3>3
  <2> QED
    BY <2>1, <2>2
<1>6. CASE Still /\ ~Deletes
  <2>1. /\ UNCHANGED <<mem, imm, version, manifests>> /\ (up = "open" <=> up' = "open")
        /\ up = "open" => logfileNumber' = logfileNumber
    BY <1>6 DEF Still
  <2> QED
    BY <1>3, <1>4, <1>6, <2>1
<1>7. CASE ManifestErrors /\ ~Deletes
  <2>1. UNCHANGED <<mem, imm, version, up, logfileNumber>> /\ up = "open"
    BY <1>0, <1>7, ErrorLeaves
  <2> QED
    BY <1>3, <1>7, <2>1
<1>8. CASE Recover
  <2>1. up # "open" /\ up' # "open" /\ \E m \in ToSet(manifests) : manifests' = <<m>>
    BY <1>8 DEF Recover
  <2>2. ToSet(manifests') \subseteq ToSet(manifests)
    BY <2>1 DEF ToSet
  <2>3. ~Deletes
    <3>1. bg.step = "idle"
      BY <1>0, <2>1 DEF Idle, NoWork
    <3> QED
      BY <1>8, <3>1 DEF Deletes, FlushDone, InstallMerge, CommitOpen, Recover
  <2> QED
    BY <1>4, <2>1, <2>2, <2>3
<1>9. CASE OpenFails
  <2>1. up # "open" /\ up' # "open" /\ manifests' = manifests
    BY <1>9 DEF OpenFails, Down, diskVars
  <2>2. ~Deletes
    <3>1. bg.step = "idle"
      BY <1>0, <2>1 DEF Idle, NoWork
    <3> QED
      BY <2>1, <3>1 DEF Deletes, FlushDone, InstallMerge, CommitOpen
  <2> QED
    BY <1>4, <2>1, <2>2
<1>10. Deletes => InstallMerge
  BY DEF Deletes
<1>11. Closes => OpenFails \/ Kill \/ PowerLoss
  BY DEF Closes
<1> QED
  BY <1>0, <1>1, <1>2, <1>5, <1>6, <1>7, <1>8, <1>9, <1>10, <1>11, StepKinds

(* A group is kept, and what a sync makes safe is in its log.              *)
LEMMA DurableInsert ==
  ASSUME IInv, IInv', WholeInv, PromiseInv, [Next]_vars, NEW c \in Clients, InsertInto(c)
  PROVE  Durable(kept, Whole)' /\ Durable(safe, Certain)'
<1> DEFINE group == ToSet(leader.entries)
           log == logs[logfileNumber]
           asked == {call[writers[i]].batch : i \in {j \in 1..leader.n : call[writers[j]].sync}}
<1>0. TypedInv /\ FilesInv /\ FilesInv' /\ CallsTyped /\ Idle /\ LogInUse
  BY DEF IInv, TypedInv, FilesInv
<1>1. /\ mem' = mem \cup group /\ UNCHANGED <<imm, logs, version, up, logfileNumber>>
      /\ up = "open" /\ leader.step = "insert" /\ c = writers[1]
      /\ leader' = NoLeader
  BY DEF InsertInto, Writing, bgVars, diskVars, openVars, Finish, Head
<1>2. /\ kept' = IF log.bad THEN kept ELSE kept \cup BatchesOf(group)
      /\ safe' = safe \cup (kept' \cap (asked \cup IF call[c].sync THEN BatchesOf(mem)' ELSE {}))
  BY DEF InsertInto, BatchesOf
<1>3. Whole' = Whole /\ Certain' = Certain
  BY <1>1 DEF Whole, Certain
<1>4. ~Deletes
  <2>1. ~FlushDone /\ ~InstallMerge /\ ~CommitOpen
    <3>1. FlushDone \/ InstallMerge \/ CommitOpen => leader' = leader
      BY DEF FlushDone, InstallMerge, CommitOpen, callVars
    <3>2. NoLeader.step = "idle"
      BY DEF NoLeader
    <3> QED
      BY <1>1, <3>1, <3>2
  <2> QED
    BY <2>1 DEF Deletes
<1>5. Entries(version)' = Entries(version)
  BY <1>0, <1>1, <1>4, EntriesNext DEF PromiseInv
<1>6. Contents' = Contents \cup group
  BY <1>1, <1>5 DEF Contents
<1>7. BatchesOf(group) \cap BatchesOf(Contents) = {}
  BY <1>1, GroupFresh
<1> HIDE DEF group, asked, log
<1>8. /\ BatchesOf(Contents)' = BatchesOf(Contents) \cup BatchesOf(group)
      /\ BatchesOf(mem)' = BatchesOf(mem) \cup BatchesOf(group) /\ BatchesOf(imm)' = BatchesOf(imm)
  BY <1>1, <1>6 DEF BatchesOf
<1>9. BatchesOf(imm) \subseteq BatchesOf(Contents)
  BY DEF BatchesOf, Contents
<1>10. /\ kept \subseteq BatchesOf(Contents)
       /\ kept \cap BatchesOf(mem) \subseteq Whole[logfileNumber]
       /\ kept \cap BatchesOf(imm) \subseteq FromLogs(Whole, version.log)
  BY <1>1 DEF PromiseInv, Durable, InMemory
<1>11. /\ safe \subseteq BatchesOf(Contents)
       /\ safe \cap BatchesOf(mem) \subseteq Certain[logfileNumber]
       /\ safe \cap BatchesOf(imm) \subseteq FromLogs(Certain, version.log)
  BY <1>1 DEF PromiseInv, Durable, InMemory
<1>12. ~log.bad => BatchesOf(group) \subseteq Whole[logfileNumber]
  <2> SUFFICES ASSUME ~log.bad PROVE BatchesOf(group) \subseteq Whole[logfileNumber]
    OBVIOUS
  <2>1. leader.entries \in ToSet(ReadRecords(log.units))
    BY <1>1 DEF PromiseInv, LogReady, log
  <2>2. group \subseteq UNION {ToSet(record) : record \in ToSet(ReadRecords(log.units))}
    BY <2>1 DEF group
  <2>3. BatchesOf(group) \subseteq Recovered(log.units)
    BY <2>2, BatchesCup DEF Recovered
  <2> QED
    BY <1>0, <1>1, <2>3 DEF Whole, log, LogInUse
<1>13. /\ kept' \subseteq BatchesOf(Contents)'
       /\ kept' \cap BatchesOf(mem)' \subseteq Whole[logfileNumber]
       /\ kept' \cap BatchesOf(imm)' \subseteq FromLogs(Whole, version.log)
  BY <1>2, <1>7, <1>8, <1>9, <1>10, <1>12
<1>14. safe \subseteq kept /\ kept \subseteq kept'
  BY <1>2 DEF IInv, History
<1>15. /\ safe' \subseteq BatchesOf(Contents)'
       /\ safe' \cap BatchesOf(mem)' \subseteq Certain[logfileNumber]
       /\ safe' \cap BatchesOf(imm)' \subseteq FromLogs(Certain, version.log)
  <2>1. CASE call[c].sync
    <3>1. Certain[logfileNumber] = Whole[logfileNumber]
      <4>1. log.synced = Len(log.units)
        BY <1>1, <2>1 DEF PromiseInv, SyncDone, log
      <4>2. logfileNumber \in DOMAIN logs /\ log \in LogFile
        BY <1>0, <1>1 DEF LogInUse, TypedInv, DiskTyped, log
      <4>3. log.units \in Seq(Units)
        BY <4>2 DEF LogFile
      <4>4. SubSeq(log.units, 1, Len(log.units)) = log.units
        BY <4>3
      <4> QED
        BY <4>1, <4>2, <4>4 DEF Certain, Whole, log
    <3>2. asked \cap BatchesOf(imm) = {}
      <4>1. ASSUME NEW i \in 1..leader.n
            PROVE  call[writers[i]].batch \notin BatchesOf(Contents)
        <5>1. i \in 1..Len(writers) /\ writers \in Seq(Clients)
          BY <1>0 DEF CallsTyped
        <5>2. writers[i] \in Clients
          BY <5>1
        <5> QED
          BY <5>2 DEF PromiseInv, Fresh
      <4> QED
        BY <1>9, <4>1 DEF asked
    <3>3. BatchesOf(mem)' \cap BatchesOf(imm) = {}
      BY <1>7, <1>8, <1>9 DEF PromiseInv, Separate
    <3> QED
      BY <1>2, <1>8, <1>11, <1>13, <1>14, <2>1, <3>1, <3>2, <3>3
  <2>2. CASE ~call[c].sync
    <3>1. asked = {}
      BY <1>1, <2>2 DEF PromiseInv, SyncDone, asked
    <3>2. safe' = safe
      BY <1>2, <2>2, <3>1
    <3> QED
      BY <1>7, <1>8, <1>11, <3>2
  <2> QED
    BY <2>1, <2>2
<1>16. FromLogs(Whole, version.log)' = FromLogs(Whole, version.log)
       /\ FromLogs(Certain, version.log)' = FromLogs(Certain, version.log)
  BY <1>1, <1>3 DEF FromLogs
<1> QED
  BY <1>1, <1>3, <1>13, <1>15, <1>16 DEF Durable, InMemory

(* What is promised, for names that do not change.                         *)
LEMMA DurableNow ==
  ASSUME NEW A, NEW R
  PROVE  /\ A = kept /\ R = Whole /\ Durable(kept, Whole) => Durable(A, R)
         /\ A = safe /\ R = Certain /\ Durable(safe, Certain) => Durable(A, R)
OBVIOUS

(* And with those names after a step: of what is kept,                     *)
LEMMA KeptThen ==
  ASSUME NEW A, NEW R, A = kept', R = Whole', Durable(A, R)'
  PROVE  Durable(kept, Whole)'
BY DEF Durable, InMemory, OnDisk, FromLogs

(* and of what is safe.                                                    *)
LEMMA SafeThen ==
  ASSUME NEW A, NEW R, A = safe', R = Certain', Durable(A, R)'
  PROVE  Durable(safe, Certain)'
BY DEF Durable, InMemory, OnDisk, FromLogs

(* What was promised is kept, after every step.                            *)
LEMMA DurableNext ==
  ASSUME IInv, IInv', WholeInv, PromiseInv, [Next]_vars
  PROVE  Durable(kept, Whole)' /\ Durable(safe, Certain)' /\ Cuts'
<1>0. /\ TypedInv /\ TypedInv' /\ FilesInv /\ FilesInv' /\ CallsTyped /\ Idle /\ LogInUse
      /\ LogsBelow /\ Cuts /\ Covered /\ WorkDone
  BY DEF IInv, TypedInv, FilesInv, WholeInv, PromiseInv
<1>1. PICK A, B, W, C, V, D : /\ A = kept /\ B = safe /\ W = Whole /\ C = Certain
                              /\ V = Whole' /\ D = Certain'
  OBVIOUS
<1>2. Durable(A, W) /\ Durable(B, C) /\ DOMAIN W = DOMAIN logs /\ DOMAIN C = DOMAIN logs
  BY <1>1, DurableNow DEF PromiseInv, Whole, Certain
<1>3. CASE PowerLoss
  <2>1. kept' = B /\ safe' = B /\ up' = "closed"
    BY <1>1, <1>3 DEF PowerLoss, Down
  <2>2. DOMAIN logs' = DOMAIN logs /\ Cuts'
        /\ \A n \in DOMAIN logs : Certain[n] \subseteq Whole'[n] /\ Certain'[n] = Certain[n]
    BY <1>0, <1>3, PowerLossLogs
  <2>3. DOMAIN V = DOMAIN logs' /\ DOMAIN D = DOMAIN logs'
    BY <1>1 DEF Whole, Certain
  <2>4. Rises(C, V) /\ Rises(C, D)
    BY <1>1, <1>2, <2>2, <2>3 DEF Rises
  <2>5. ~FlushDone /\ ~CommitOpen /\ \A c \in Clients : ~InsertInto(c)
    <3>1. up' = "closed" /\ leader' = NoLeader
      BY <1>3 DEF PowerLoss, Down
    <3>2. faults'.crashes # faults.crashes
      BY <1>3 DEF PowerLoss, Crashes, IInv, History
    <3>3. FlushDone \/ CommitOpen \/ (\E c \in Clients : InsertInto(c)) => faults' = faults
      BY DEF FlushDone, CommitOpen, InsertInto
    <3> QED
      BY <3>2, <3>3
  <2>6. Durable(B, V)' /\ Durable(B, D)'
    BY <1>0, <1>2, <2>4, <2>5, DurableGo
  <2> QED
    <3>1. Durable(kept, Whole)'
      BY <1>1, <2>1, <2>6, KeptThen
    <3>2. Durable(safe, Certain)'
      BY <1>1, <2>1, <2>6, SafeThen
    <3> QED
      BY <2>2, <3>1, <3>2
<1>4. CASE ~PowerLoss
  <2>1. LogsGo
    BY <1>0, <1>4, LogsGoOn
  <2>2. Cuts' /\ Rises(Whole, Whole') /\ Rises(Certain, Certain')
    BY <1>0, <2>1, LogsRise
  <2>3. Rises(W, V) /\ Rises(C, D)
    BY <1>1, <2>2 DEF Rises
  <2>4. ASSUME NEW c \in Clients, InsertInto(c)
        PROVE  Durable(kept, Whole)' /\ Durable(safe, Certain)'
    BY <2>4, DurableInsert
  <2>5. CASE FlushDone
    <3>1. /\ kept' \subseteq kept \cup BatchesOf(imm)
          /\ safe' \subseteq safe \cup BatchesOf(imm)
      BY <2>5 DEF FlushDone
    <3>2. PICK G, H : G = safe' /\ H = kept'
      OBVIOUS
    <3>3. BatchesOf(imm) \subseteq BatchesOf(Contents)
      BY DEF BatchesOf, Contents
    <3>4. /\ H \subseteq A \cup (BatchesOf(Contents) \cap BatchesOf(imm))
          /\ G \subseteq B \cup (BatchesOf(Contents) \cap BatchesOf(imm))
      BY <1>1, <3>1, <3>2, <3>3
    <3>5. Separate
      BY DEF PromiseInv
    <3>6. Durable(H, V)'
      BY <1>0, <1>2, <2>3, <2>5, <3>4, <3>5, DurableFlush
    <3>7. Durable(G, D)'
      BY <1>0, <1>2, <2>3, <2>5, <3>4, <3>5, DurableFlush
    <3>8. Durable(kept, Whole)'
      <4>1. H = kept' /\ V = Whole' /\ Durable(H, V)'
        BY <1>1, <3>2, <3>6
      <4> QED
        BY <4>1, KeptThen
    <3>9. Durable(safe, Certain)'
      <4>1. G = safe' /\ D = Certain' /\ Durable(G, D)'
        BY <1>1, <3>2, <3>7
      <4> QED
        BY <4>1, SafeThen
    <3> QED
      BY <2>2, <3>8, <3>9
  <2>6. CASE CommitOpen
    <3>1. kept' = BatchesOf(Entries(version) \cup UNION {tables[k] : k \in opening.made}) /\ safe' = kept'
      BY <2>6 DEF CommitOpen
    <3>2. PICK G : G = kept'
      OBVIOUS
    <3>3. Durable(G, V)' /\ Durable(G, D)'
      BY <1>0, <2>6, <3>1, <3>2, DurableCommit
    <3>8. Durable(kept, Whole)'
      <4>1. G = kept' /\ V = Whole' /\ Durable(G, V)'
        BY <1>1, <3>1, <3>2, <3>3
      <4> QED
        BY <4>1, KeptThen
    <3>9. Durable(safe, Certain)'
      <4>1. G = safe' /\ D = Certain' /\ Durable(G, D)'
        BY <1>1, <3>1, <3>2, <3>3
      <4> QED
        BY <4>1, SafeThen
    <3> QED
      BY <2>2, <3>8, <3>9
  <2>7. CASE ~FlushDone /\ ~CommitOpen /\ \A c \in Clients : ~InsertInto(c)
    <3>1. kept' = kept /\ safe' = safe
      <4>1. Still \/ ManifestErrors => UNCHANGED <<kept, safe>>
        BY <1>0, ErrorLeaves DEF Still
      <4>2. ASSUME NEW c \in Clients, SwitchMemTable(c)
            PROVE  UNCHANGED <<kept, safe>>
        BY <4>2 DEF SwitchMemTable, promiseVars
      <4>3. InstallMerge \/ Recover \/ OpenFails \/ Kill => UNCHANGED <<kept, safe>>
        BY DEF InstallMerge, Recover, OpenFails, Kill, promiseVars
      <4> QED
        BY <1>0, <1>4, <2>7, <4>1, <4>2, <4>3, StepKinds DEF Deletes, Closes
    <3>2. Durable(A, V)' /\ Durable(B, D)'
      BY <1>0, <1>2, <2>3, <2>7, DurableGo
    <3>8. Durable(kept, Whole)'
      <4>1. A = kept' /\ V = Whole' /\ Durable(A, V)'
        BY <1>1, <3>1, <3>2
      <4> QED
        BY <4>1, KeptThen
    <3>9. Durable(safe, Certain)'
      <4>1. B = safe' /\ D = Certain' /\ Durable(B, D)'
        BY <1>1, <3>1, <3>2
      <4> QED
        BY <4>1, SafeThen
    <3> QED
      BY <2>2, <3>8, <3>9
  <2> QED
    BY <2>2, <2>4, <2>5, <2>6, <2>7
<1> QED
  BY <1>3, <1>4

-----------------------------------------------------------------------------
(* Nothing is promised at first.                                           *)
LEMMA PromiseInit == Init => PromiseInv
<1> SUFFICES ASSUME Init PROVE PromiseInv
  OBVIOUS
<1>1. /\ up = "closed" /\ kept = {} /\ safe = {} /\ mem = {} /\ imm = {} /\ leader = NoLeader
      /\ bg = NoWork /\ blockOffset = 0 /\ DOMAIN logs = {} /\ version = NewManifest
  BY DEF Init
<1>2. Contents = {}
  <2>1. LiveTables(NewManifest) = {}
    BY DEF LiveTables, NewManifest
  <2> QED
    BY <1>1, <2>1 DEF Contents, Entries
<1>3. Durable(kept, Whole) /\ Durable(safe, Certain)
  BY <1>1 DEF Durable, OnDisk
<1>4. Covered /\ Opened /\ Cuts /\ LogReady
  BY <1>1 DEF Covered, Opened, Cuts, LogReady
<1>5. WorkDone /\ SyncDone
  BY <1>1 DEF WorkDone, SyncDone, NoWork, NoLeader
<1>6. Fresh /\ Separate
  BY <1>1, <1>2 DEF Fresh, Separate, BatchesOf
<1> QED
  BY <1>3, <1>4, <1>5, <1>6 DEF PromiseInv

(* Every step keeps the promises.                                          *)
LEMMA PromiseNext == IInv /\ IInv' /\ WholeInv /\ WholeInv' /\ PromiseInv /\ [Next]_vars => PromiseInv'
<1> SUFFICES ASSUME IInv, IInv', WholeInv, WholeInv', PromiseInv, [Next]_vars
             PROVE  PromiseInv'
  OBVIOUS
<1>1. /\ CallsTyped /\ Queued /\ TypedInv /\ TypedInv' /\ FilesInv /\ FilesInv' /\ Idle /\ Idle'
      /\ LogInUse /\ LogInUse' /\ MemorySound
  BY DEF IInv, TypedInv, FilesInv
<1>2. /\ Covered /\ WorkDone /\ Opened /\ SyncDone /\ LogReady /\ Fresh /\ Separate
      /\ Durable(kept, Whole) /\ LogsBelow
  BY DEF PromiseInv, WholeInv
<1>3. Durable(kept, Whole)' /\ Durable(safe, Certain)' /\ Cuts'
  BY DurableNext
<1>4. Covered' /\ WorkDone'
  BY <1>1, <1>2, CoveredNext, WorkDoneNext
<1>5. Opened' /\ SyncDone'
  BY <1>1, <1>2, OpenedNext, SyncDoneNext
<1>6. LogReady'
  BY <1>1, <1>2, LogReadyNext
<1>7. Fresh' /\ Separate'
  BY <1>2, FreshNext, SeparateNext
<1> QED
  BY <1>3, <1>4, <1>5, <1>6, <1>7 DEF PromiseInv

(* The invariant of the promises holds in every state.                     *)
LEMMA PromiseInvariance == Spec => []PromiseInv
<1>1. Spec => []WholeInv
  BY Invariance, WholeInit, WholeNext, PTL DEF Spec
<1> QED
  BY <1>1, Invariance, PromiseInit, PromiseNext, PTL DEF Spec

-----------------------------------------------------------------------------
(* A reader of an open database sees all of it.                            *)
SeesAll == up = "open" => Visible = Contents
(* It does, as no sequence number is above the last one.                   *)
LEMMA AllSeen == IInv => SeesAll
<1> SUFFICES ASSUME IInv, up = "open"
             PROVE  Visible = Contents
  BY DEF SeesAll
<1>1. NewestIsLast
  BY NewestHolds
<1> QED
  BY <1>1 DEF NewestIsLast, Visible, Contents

(* A new version does not touch the log in use.                            *)
LEMMA NewVersionLog ==
  ASSUME LogInUse', up' = "open", FlushDone \/ CommitOpen
  PROVE  logfileNumber' = logfileNumber /\ logs'[logfileNumber'] = logs[logfileNumber]
<1>1. logfileNumber' = logfileNumber /\ \E pending : DeleteObsoleteFiles(version', pending)
  BY DEF FlushDone, CommitOpen, memVars
<1>2. \A n \in DOMAIN logs' : logs'[n] = logs[n]
  BY <1>1 DEF DeleteObsoleteFiles, Without
<1>3. logfileNumber' \in DOMAIN logs'
  BY DEF LogInUse
<1> QED
  BY <1>1, <1>2, <1>3

(* Every step is a step of what is promised, or changes nothing in it.     *)
LEMMA StepPromised ==
  IInv /\ IInv' /\ WholeInv /\ PromiseInv /\ [Next]_vars => [Promise!Next]_(Promise!promised)
<1> SUFFICES ASSUME IInv, IInv', WholeInv, PromiseInv, [Next]_vars
             PROVE  Promise!Next \/ UNCHANGED Promise!promised
  OBVIOUS
<1>1. /\ CallsTyped /\ TypedInv /\ TypedInv' /\ FilesInv /\ FilesInv' /\ Idle /\ MemorySound /\ WorkDone
      /\ LogInUse /\ LogInUse' /\ LogsBelow
  BY DEF IInv, TypedInv, FilesInv, PromiseInv, WholeInv
<1> DEFINE open == up = "open"
           torn == up = "open" /\ logs[logfileNumber].bad
           data == IF up = "open" THEN BatchesOf(Visible) ELSE {}
<1>2. SeesAll /\ SeesAll'
  BY AllSeen, PTL
<1>3. /\ up = "open" => data = BatchesOf(Contents)
      /\ up' = "open" => data' = BatchesOf(Contents)'
      /\ up # "open" => data = {}
      /\ up' # "open" => data' = {}
  BY <1>2 DEF SeesAll, BatchesOf
<1>4. /\ acked \subseteq Batches /\ kept \subseteq acked /\ safe \subseteq kept
      /\ acked' \subseteq Batches /\ kept' \subseteq acked' /\ safe' \subseteq kept'
  BY DEF IInv, History
<1> HIDE DEF data
<1>5. ASSUME UNCHANGED <<acked, kept, safe>>, open' = open, torn' = torn, data' = data
      PROVE  UNCHANGED Promise!promised
  BY <1>5 DEF Promise!promised, data
<1>6. CASE PowerLoss
  <2>1. up' = "closed" /\ acked' = safe /\ kept' = safe /\ safe' = safe
    BY <1>6 DEF PowerLoss, Down
  <2>2. Promise!PowerLoss
    BY <1>3, <2>1 DEF Promise!PowerLoss, data
  <2> QED
    BY <2>2 DEF Promise!Next
<1>7. CASE Kill \/ OpenFails
  <2>1. up' = "closed" /\ UNCHANGED <<acked, kept, safe>>
    BY <1>7 DEF Kill, OpenFails, Down, promiseVars
  <2>2. Promise!Kill
    BY <1>3, <2>1 DEF Promise!Kill, data
  <2> QED
    BY <2>2 DEF Promise!Next
<1>8. CASE CommitOpen
  <2>1. /\ up = "commit" /\ up' = "open" /\ mem' = {} /\ imm' = {} /\ kept' = acked' /\ safe' = acked'
        /\ acked' = BatchesOf(Entries(version) \cup UNION {tables[k] : k \in opening.made})
    BY <1>1, <1>8 DEF CommitOpen, Idle, memVars
  <2>2. Contents' = Entries(version) \cup UNION {tables[k] : k \in opening.made}
    BY <1>1, <1>8, <2>1, EntriesNext DEF Contents
  <2>3. data' = acked'
    BY <1>3, <2>1, <2>2 DEF BatchesOf
  <2>4. kept \subseteq acked'
    <3>1. opening.left = {}
      BY <1>1, <2>1 DEF Idle
    <3> QED
      BY <2>1, <3>1 DEF PromiseInv, Opened
  <2>5. torn' = FALSE
    <3>1. logs'[logfileNumber'] = logs[logfileNumber]
      BY <1>1, <1>8, <2>1, NewVersionLog
    <3>2. logs[logfileNumber].bad = FALSE
      BY <1>1, <2>1 DEF LogsBelow, LogInUse, TypedInv, DiskTyped, LogFile
    <3> QED
      BY <3>1, <3>2
  <2>6. Promise!Open(acked')
    BY <2>1, <2>3, <2>4, <2>5 DEF Promise!Open, data
  <2> QED
    BY <1>4, <2>6 DEF Promise!Next
<1>9. ASSUME NEW c \in Clients, InsertInto(c)
      PROVE  Promise!Next
  <2> DEFINE S == BatchesOf(ToSet(leader.entries))
             asked == {call[writers[i]].batch : i \in {j \in 1..leader.n : call[writers[j]].sync}}
             T == kept' \cap (asked \cup IF call[c].sync THEN BatchesOf(mem') ELSE {})
  <2>1. /\ up = "open" /\ up' = "open" /\ UNCHANGED <<logs, logfileNumber>>
        /\ acked' = acked \cup S /\ safe' = safe \cup T
        /\ kept' = IF torn THEN kept ELSE kept \cup S
    BY <1>9 DEF InsertInto, Writing, openVars, diskVars
  <2>2. Contents' = Contents \cup ToSet(leader.entries)
    <3>1. mem' = mem \cup ToSet(leader.entries) /\ imm' = imm /\ version' = version /\ leader' = NoLeader
          /\ leader.step = "insert"
      BY <1>9 DEF InsertInto, bgVars, Finish, Writing
    <3>2. ~Deletes
      <4>1. FlushDone \/ InstallMerge \/ CommitOpen => leader' = leader
        BY DEF FlushDone, InstallMerge, CommitOpen, callVars
      <4>2. NoLeader.step = "idle"
        BY DEF NoLeader
      <4> QED
        BY <3>1, <4>1, <4>2 DEF Deletes
    <3>3. Entries(version)' = Entries(version)
      BY <1>1, <3>1, <3>2, EntriesNext
    <3> QED
      BY <3>1, <3>3 DEF Contents
  <2>3. S \cap BatchesOf(Contents) = {}
    BY <2>1, GroupFresh
  <2>4. BatchesOf(Contents)' = BatchesOf(Contents) \cup S
    BY <2>2 DEF BatchesOf
  <2>5. S \in SUBSET Batches
    <3>1. leader.entries \in Seq(Entry)
      BY <1>1 DEF CallsTyped
    <3>2. ToSet(leader.entries) \subseteq Entry
      BY <3>1 DEF ToSet
    <3> QED
      BY <3>2, BatchesTyped
  <2>6. T \in SUBSET Batches /\ T \subseteq kept'
    BY <1>4
  <2> HIDE DEF S, T
  <2>7. Promise!Commit(S, T)
    BY <1>3, <2>1, <2>3, <2>4, <2>6 DEF Promise!Commit, data
  <2> QED
    BY <2>5, <2>6, <2>7 DEF Promise!Next
<1>10. ASSUME up = "open", up' = "open", \A c \in Clients : ~InsertInto(c)
       PROVE  data' = data
  <2>1. Contents' = Contents
    BY <1>1, <1>10, ContentsNext
  <2> QED
    BY <1>3, <1>10, <2>1 DEF BatchesOf
<1>11. CASE FlushDone
  <2> DEFINE T == IF bgError THEN {} ELSE acked \cap BatchesOf(imm)
  <2>1. /\ up' = up /\ acked' = acked /\ kept' = kept \cup T /\ safe' = safe \cup T
        /\ bg.step = "apply" /\ leader' = leader
    BY <1>11 DEF FlushDone, openVars
  <2>2. up = "open"
    BY <1>1, <2>1 DEF Idle, NoWork
  <2>3. T \in SUBSET Batches /\ T \subseteq acked
    BY <1>4
  <2>4. \A c \in Clients : ~InsertInto(c)
    <3>1. \A c \in Clients : InsertInto(c) => leader.step = "insert" /\ leader' = NoLeader
      BY DEF InsertInto, Writing, Finish
    <3>2. NoLeader.step = "idle"
      BY DEF NoLeader
    <3> QED
      BY <2>1, <3>1, <3>2
  <2>5. data' = data
    BY <1>10, <2>1, <2>2, <2>4
  <2>6. torn' = torn
    BY <1>1, <1>11, <2>1, <2>2, NewVersionLog
  <2> HIDE DEF T
  <2>7. Promise!Settle(T)
    BY <2>1, <2>2, <2>3, <2>5, <2>6 DEF Promise!Settle, data
  <2> QED
    BY <2>3, <2>7 DEF Promise!Next
<1>12. CASE /\ ~PowerLoss /\ ~Kill /\ ~OpenFails /\ ~CommitOpen /\ ~FlushDone
            /\ \A c \in Clients : ~InsertInto(c)
  <2>1. UNCHANGED <<acked, kept, safe>> /\ (up = "open" <=> up' = "open")
    <3>1. Still => UNCHANGED <<acked, kept, safe>> /\ (up = "open" <=> up' = "open")
      BY DEF Still
    <3>2. ManifestErrors => UNCHANGED <<acked, kept, safe, up>>
      BY <1>1, ErrorLeaves
    <3>3. ASSUME NEW c \in Clients, SwitchMemTable(c)
          PROVE  UNCHANGED <<acked, kept, safe, up>>
      BY <3>3 DEF SwitchMemTable, promiseVars, openVars
    <3>4. InstallMerge => UNCHANGED <<acked, kept, safe, up>>
      BY DEF InstallMerge, promiseVars, openVars
    <3>5. Recover => UNCHANGED <<acked, kept, safe>> /\ up # "open" /\ up' # "open"
      BY DEF Recover, promiseVars
    <3> QED
      BY <1>1, <1>12, <3>1, <3>2, <3>3, <3>4, <3>5, StepKinds DEF Deletes, Closes
  <2>2. data' = data
    BY <1>3, <1>10, <1>12, <2>1
  <2>3. CASE up = "open" /\ torn' = TRUE
    <3>1. Promise!Tear
      BY <2>1, <2>2, <2>3 DEF Promise!Tear, data
    <3> QED
      BY <3>1 DEF Promise!Next
  <2>4. CASE up = "open" /\ torn' = FALSE
    <3>1. Promise!Renew
      BY <2>1, <2>2, <2>4 DEF Promise!Renew, data
    <3> QED
      BY <3>1 DEF Promise!Next
  <2>5. CASE up # "open"
    BY <1>5, <2>1, <2>2, <2>5
  <2>6. up = "open" => torn' \in BOOLEAN
    BY <1>1, <2>1 DEF LogInUse, TypedInv, DiskTyped, LogFile
  <2> QED
    BY <2>3, <2>4, <2>5, <2>6
<1> QED
  BY <1>6, <1>7, <1>8, <1>9, <1>11, <1>12
(* A write that is acknowledged survives the end of the process, and that  *)
(* of the machine once it is safe, as it is when it asks for a sync; what  *)
(* a crash leaves of the others is whole writes; for any clients, batches, *)
(* block sizes, crashes and failed calls on files.  Left out are, against  *)
(* options.h, the writes acknowledged after an append to the same log      *)
(* failed: they are kept only once a flush has put them into a table.      *)
THEOREM PromisesKept == Spec => PromiseKept
<1>1. Init => Promise!Init
  BY DEF Init, Promise!Init
<1>2. Spec => []WholeInv
  BY Invariance, WholeInit, WholeNext, PTL DEF Spec
<1> QED
  BY <1>1, <1>2, Invariance, PromiseInvariance, StepPromised, PTL DEF Spec, PromiseKept, Promise!Spec
=============================================================================
