---------------------------- MODULE LevelDBTree -----------------------------
(***************************************************************************)
(* What leveldb reads: the memtables and the levels of tables of a         *)
(* Version (version_set.cc), the merges that move entries down and drop    *)
(* those no reader can see, manual ones too, and snapshots (db_impl.cc).   *)
(*                                                                         *)
(* An entry is its sequence number, a table the set of its entries.  The   *)
(* tables of level 0 are numbered as they are flushed, in the order of     *)
(* their entries.  Sizes are in entries.  What BackgroundCompaction reads  *)
(* it reads when it starts, and what it makes counts when it is installed; *)
(* in between others write, take snapshots, and it flushes memtables.      *)
(***************************************************************************)
EXTENDS Integers, Sequences, FiniteSets, SequencesExt, FiniteSetsExt, LevelDBIter

CONSTANTS
  Keys,              \* user keys, ordered as numbers
  Deletable,         \* those that are deleted too
  LastLevel,         \* kNumLevels - 1
  MaxMemLevel,       \* kMaxMemCompactLevel
  L0Trigger,         \* kL0_CompactionTrigger
  LevelLimit,        \* MaxBytesForLevel of level 1; ten times more with each level
  MaxOutput,         \* MaxOutputFileSize, MaxFileSizeForLevel
  GrandparentLimit,  \* MaxGrandParentOverlapBytes
  ExpandedLimit,     \* ExpandedCompactionByteSizeLimit
  Begins, Ends,      \* where the ranges of CompactRange begin and end
  MaxWrites,         \* bound on the writes
  MaxSnapshots       \* bound on the snapshots held at a time

Levels == 0..LastLevel

ASSUME TreeAssumption ==
  /\ Keys \subseteq Nat \ {0} /\ Keys # {} /\ Deletable \cup Begins \cup Ends \subseteq Keys
  /\ LastLevel \in Nat \ {0} /\ MaxMemLevel \in Levels
  /\ L0Trigger \in Nat \ {0} /\ MaxOutput \in Nat \ {0}
  /\ LevelLimit \in Nat \ {0}
  /\ GrandparentLimit \in Nat /\ ExpandedLimit \in Nat
  /\ MaxWrites \in Nat /\ MaxSnapshots \in Nat

VARIABLES
  written,    \* the writes in order: key, and whether it is a deletion
  mem, imm,   \* the memtables; imm is empty when there is none
  levels,     \* files_ of current()
  snapshots,  \* the sequence numbers of snapshots_
  work,       \* the merge under way
  manual,     \* manual_compaction_, and the rest of CompactRange
  broken      \* history: the two ways in which the levels went wrong

vars == <<written, mem, imm, levels, snapshots, work, manual, broken>>

LastSequence == Len(written)
NoWork == [busy |-> FALSE, level |-> 0, upper |-> {}, lower |-> {}, outputs |-> {},
           manual |-> FALSE]
NoRange == [active |-> FALSE, level |-> 0, top |-> 0, begin |-> 0, from |-> 0, to |-> 0]

Init ==
  /\ written = <<>> /\ mem = {} /\ imm = {}
  /\ levels = [l \in Levels |-> {}]
  /\ snapshots = {} /\ work = NoWork /\ manual = NoRange
  /\ broken = {}

-----------------------------------------------------------------------------
(* Keys and tables.                                                        *)

Key(e) == written[e].key

(* The order of internal keys: of one user key, the newest entry is first. *)
Precedes(d, e) == Key(d) < Key(e) \/ (Key(d) = Key(e) /\ d > e)

Smallest(table) == CHOOSE d \in table : \A e \in table \ {d} : Precedes(d, e)
Largest(table) == CHOOSE d \in table : \A e \in table \ {d} : Precedes(e, d)

Entries(tables) == UNION tables
Bytes(tables) == MapThenSumSet(Cardinality, tables)

(* A set in an order: the i-th element has i - 1 before it.                *)
InOrder(S, Before(_, _)) ==
  [i \in 1..Cardinality(S) |->
     CHOOSE x \in S : Cardinality({y \in S : Before(y, x)}) = i - 1]

(* GetRange, in user keys.                                                 *)
From(tables) == Key(Smallest(Entries(tables)))
To(tables) == Key(Largest(Entries(tables)))

Overlaps(table, from, to) == Key(Largest(table)) >= from /\ Key(Smallest(table)) <= to

(* GetOverlappingInputs.  In level 0 a table that reaches beyond the range *)
(* widens it, and the search starts again.                                 *)
OverlappingInputs(level, from, to) ==
  LET Within(a, b) == {t \in levels[level] : Overlaps(t, a, b)}
      Found[n \in 0..Cardinality(levels[level])] ==
        IF n = 0 \/ level > 0 THEN Within(from, to)
        ELSE IF Found[n - 1] = {} THEN {}
        ELSE Within(Min({from, From(Found[n - 1])}), Max({to, To(Found[n - 1])}))
  IN Found[Cardinality(levels[level])]

OverlapInLevel(level, from, to) == \E t \in levels[level] : Overlaps(t, from, to)

-----------------------------------------------------------------------------
(* Writes, snapshots and the memtable.                                     *)

Write(key, deletion) ==
  /\ Len(written) < MaxWrites /\ (deletion => key \in Deletable)
  /\ written' = Append(written, [key |-> key, deletion |-> deletion])
  /\ mem' = mem \cup {LastSequence + 1}
  /\ UNCHANGED <<imm, levels, snapshots, work, manual, broken>>

GetSnapshot ==
  /\ Cardinality(snapshots) < MaxSnapshots
  /\ snapshots' = snapshots \cup {LastSequence}
  /\ UNCHANGED <<written, mem, imm, levels, work, manual, broken>>

ReleaseSnapshot ==
  /\ \E s \in snapshots : snapshots' = snapshots \ {s}
  /\ UNCHANGED <<written, mem, imm, levels, work, manual, broken>>

(* A full memtable.                                                        *)
SwitchMemTable ==
  /\ imm = {} /\ mem # {}
  /\ imm' = mem /\ mem' = {}
  /\ UNCHANGED <<written, levels, snapshots, work, manual, broken>>

(* Mutant: the overlap with the next level does not count.                 *)
PickLevelThroughNext(from, to) ==
  LET Clear(level) ==
        level + 1 > LastLevel \/ Bytes(OverlappingInputs(level + 1, from, to)) <= GrandparentLimit
  IN IF OverlapInLevel(0, from, to) THEN 0
     ELSE Max({l \in 0..MaxMemLevel : \A k \in 1..l : Clear(k)})

(* Tables go below level 0 as long as nothing is in their way.             *)
PickLevelForMemTableOutput(from, to) ==
  LET Clear(level) ==
        /\ ~OverlapInLevel(level, from, to)
        /\ level + 1 > LastLevel \/ Bytes(OverlappingInputs(level + 1, from, to)) <= GrandparentLimit
  IN IF OverlapInLevel(0, from, to) THEN 0
     ELSE Max({l \in 0..MaxMemLevel : \A k \in 1..l : Clear(k)})

(* CompactMemTable: before any other work, and in the middle of a merge.   *)
CompactMemTable ==
  /\ imm # {}
  /\ LET level == PickLevelForMemTableOutput(From({imm}), To({imm}))
     IN levels' = [levels EXCEPT ![level] = @ \cup {imm}]
  /\ imm' = {}
  /\ UNCHANGED <<written, mem, snapshots, work, manual, broken>>

-----------------------------------------------------------------------------
(* The choice of a merge.                                                  *)

(* The scores of Finalize as fractions.                                    *)
Weight(level) == IF level = 0 THEN Cardinality(levels[0]) ELSE Bytes(levels[level])
Limit(level) == IF level = 0 THEN L0Trigger ELSE LevelLimit * 10^(level - 1)
Heavy == {l \in 0..(LastLevel - 1) : Weight(l) >= Limit(l)}

Heaviest ==
  Min({l \in Heavy : \A k \in Heavy : Weight(l) * Limit(k) >= Weight(k) * Limit(l)})

(* A read that looked into a table and then into another one charges the   *)
(* first, and may ask for a merge of it.                                   *)
Charged(level) ==
  {t \in levels[level] :
     \E k \in level..LastLevel : \E u \in levels[k] \ {t} :
       (k > level \/ level = 0) /\ Overlaps(u, Key(Smallest(t)), Key(Largest(t)))}

(* PickCompaction, which takes turns among the tables of a level: any one. *)
Picked(level) ==
  {t \in levels[level] :
     IF Heavy # {} THEN level = Heaviest ELSE level < LastLevel /\ t \in Charged(level)}

(* SetupOtherInputs.                                                       *)
OtherInputs(level, upper) ==
  LET lower == OverlappingInputs(level + 1, From(upper), To(upper))
      wide == OverlappingInputs(level, From(upper \cup lower), To(upper \cup lower))
      below == OverlappingInputs(level + 1, From(wide), To(wide))
      grows == /\ lower # {} /\ Cardinality(wide) > Cardinality(upper)
               /\ Bytes(lower) + Bytes(wide) < ExpandedLimit
               /\ Cardinality(below) = Cardinality(lower)
  IN [upper |-> IF grows THEN wide ELSE upper, lower |-> lower]

Grandparents(level, inputs) ==
  LET all == inputs.upper \cup inputs.lower IN
  IF level + 2 > LastLevel THEN {} ELSE OverlappingInputs(level + 2, From(all), To(all))

IsTrivialMove(level, inputs) ==
  /\ Cardinality(inputs.upper) = 1 /\ inputs.lower = {}
  /\ Bytes(Grandparents(level, inputs)) <= GrandparentLimit

-----------------------------------------------------------------------------
(* The merge.                                                              *)

(* Mutant: snapshots do not count.                                         *)
NewestSnapshot == LastSequence

SmallestSnapshot == IF snapshots = {} THEN LastSequence ELSE Min(snapshots)

IsBaseLevelForKey(level, key) ==
  \A l \in (level + 2)..LastLevel : ~OverlapInLevel(l, key, key)

(* DoCompactionWork, for one entry: it is dropped if a newer one hides it  *)
(* from every reader, or if it is a deletion and of no use; a table is cut *)
(* when it is full or reaches over too much of the level below.            *)
Add(level, grandparents, acc, e) ==
  LET passed == {g \in grandparents : Precedes(Largest(g), e)}
      overlapped == acc.overlapped + IF acc.last = 0 THEN 0 ELSE Bytes(passed \ acc.passed)
      stop == overlapped > GrandparentLimit
      hidden == acc.last # 0 /\ Key(acc.last) = Key(e) /\ acc.last <= SmallestSnapshot
      useless == /\ written[e].deletion /\ e <= SmallestSnapshot
                 /\ IsBaseLevelForKey(level, Key(e))
      before == IF stop THEN {} ELSE acc.builder
      builder == IF hidden \/ useless THEN before ELSE before \cup {e}
      full == builder # {} /\ Cardinality(builder) >= MaxOutput
  IN [tables |-> acc.tables \cup (IF stop THEN {acc.builder} ELSE {})
                            \cup (IF full THEN {builder} ELSE {}),
      builder |-> IF full THEN {} ELSE builder,
      last |-> e, passed |-> passed, overlapped |-> IF stop THEN 0 ELSE overlapped]

Nothing == [tables |-> {}, builder |-> {}, last |-> 0, passed |-> {}, overlapped |-> 0]

(* The tables made of the inputs' entries, in their order.                 *)
MergedTables(level, inputs) ==
  LET grandparents == Grandparents(level, inputs)
      end == FoldLeft(LAMBDA acc, e : Add(level, grandparents, acc, e), Nothing,
                      InOrder(Entries(inputs.upper \cup inputs.lower), Precedes))
  IN (end.tables \cup {end.builder}) \ {{}}

(* A merge takes an entry from a table below level 0 and leaves an older   *)
(* one of the same key, which is in the next table, where it is.           *)
Splits(level, inputs) ==
  LET Left(l, taken) ==
        \E d \in Entries(taken), e \in Entries(levels[l] \ taken) : Key(d) = Key(e) /\ d > e
  IN (level > 0 /\ Left(level, inputs.upper)) \/ Left(level + 1, inputs.lower)

Broken(kind, happens) == broken \cup (IF happens THEN {kind} ELSE {})

StartMerge(level, upper, isManual) ==
  LET inputs == OtherInputs(level, upper) IN
  /\ work' = [busy |-> TRUE, level |-> level, upper |-> inputs.upper, lower |-> inputs.lower,
              outputs |-> MergedTables(level, inputs), manual |-> isManual]
  /\ broken' = Broken("split", Splits(level, inputs))

PickCompaction ==
  /\ ~work.busy /\ imm = {}
  /\ \E level \in 0..(LastLevel - 1) : \E t \in Picked(level) :
       LET upper == IF level > 0 THEN {t}
                    ELSE OverlappingInputs(0, Key(Smallest(t)), Key(Largest(t)))
       IN /\ ~IsTrivialMove(level, OtherInputs(level, upper))
          /\ StartMerge(level, upper, FALSE)
  /\ UNCHANGED <<written, mem, imm, levels, snapshots, manual>>

TrivialMove ==
  /\ ~work.busy /\ imm = {}
  /\ \E level \in 0..(LastLevel - 1) : \E t \in Picked(level) :
       /\ level = 0 => OverlappingInputs(0, Key(Smallest(t)), Key(Largest(t))) = {t}
       /\ IsTrivialMove(level, OtherInputs(level, {t}))
       /\ levels' = [levels EXCEPT ![level] = @ \ {t}, ![level + 1] = @ \cup {t}]
       /\ broken' = Broken("split", Splits(level, OtherInputs(level, {t})))
  /\ UNCHANGED <<written, mem, imm, snapshots, work, manual>>

(* CompactRange: what is in the memtable is flushed, then level by level.  *)
CompactRange(begin, end) ==
  /\ ~manual.active /\ imm = {}
  /\ imm' = mem /\ mem' = {}
  /\ manual' = [active |-> TRUE, level |-> 0, begin |-> begin, from |-> begin, to |-> end,
                top |-> Max({1} \cup {l \in 1..LastLevel : OverlapInLevel(l, begin, end)})]
  /\ UNCHANGED <<written, levels, snapshots, work, broken>>

(* VersionSet::CompactRange: below level 0, no more tables than make a     *)
(* table.                                                                  *)
ManualInputs ==
  LET found == OverlappingInputs(manual.level, manual.from, manual.to)
      upTo(t) == {u \in found : ~Precedes(Largest(t), Largest(u))}
  IN {t \in found : manual.level = 0 \/ Bytes(upTo(t) \ {t}) < MaxOutput}

StartManual ==
  /\ ~work.busy /\ imm = {} /\ manual.active /\ ManualInputs # {}
  /\ StartMerge(manual.level, ManualInputs, TRUE)
  /\ UNCHANGED <<written, mem, imm, levels, snapshots, manual>>

(* Mutant: one level too many.                                             *)
AnotherLevelToo == manual.level < manual.top

(* CompactRange goes on to the next level, short of the last with tables.  *)
AnotherLevel == manual.level + 1 < manual.top

(* Nothing is left of the range in this level.                             *)
ManualDone ==
  /\ ~work.busy /\ imm = {} /\ manual.active /\ ManualInputs = {}
  /\ manual' = IF AnotherLevel
                 THEN [manual EXCEPT !.level = @ + 1, !.from = manual.begin]
                 ELSE NoRange
  /\ UNCHANGED <<written, mem, imm, levels, snapshots, work, broken>>

(* A table flushed in the meantime lies where an output is to go.          *)
Overtaken ==
  \E t \in work.outputs, u \in levels[work.level + 1] \ work.lower :
    Overlaps(u, Key(Smallest(t)), Key(Largest(t)))

(* InstallCompactionResults.  The rest of a manual compaction begins with  *)
(* the end of its last input.                                              *)
InstallMerge ==
  /\ work.busy
  /\ levels' = [levels EXCEPT ![work.level] = @ \ work.upper,
                              ![work.level + 1] = (@ \ work.lower) \cup work.outputs]
  /\ manual' = IF work.manual
                 THEN [manual EXCEPT !.from =
                         LET last == CHOOSE t \in work.upper : \A u \in work.upper \ {t} :
                                       Precedes(Smallest(u), Smallest(t))
                         IN Key(Largest(last))]
                 ELSE manual
  /\ broken' = Broken("gap", work.manual /\ Overtaken)
  /\ work' = NoWork
  /\ UNCHANGED <<written, mem, imm, snapshots>>

-----------------------------------------------------------------------------
(* Reads.                                                                  *)

(* The newest entry of a key in a set, up to a sequence number; 0 if none. *)
Newest(entries, key, sequence) ==
  LET seen == {e \in entries : Key(e) = key /\ e <= sequence}
  IN IF seen = {} THEN 0 ELSE Max(seen)

(* FindFile: the first table that does not end before the entry that is    *)
(* looked for.                                                             *)
FindFile(level, key, sequence) ==
  LET reaches == {t \in levels[level] :
        \E e \in t : Key(e) > key \/ (Key(e) = key /\ e <= sequence)}
  IN {t \in reaches : \A u \in reaches \ {t} : Precedes(Smallest(t), Smallest(u))}

(* Mutant: level 0 from the oldest table on.                               *)
OldestFirst(tables) == InOrder(tables, LAMBDA t, u : Max(t) < Max(u))

NewestFirst(tables) == InOrder(tables, LAMBDA t, u : Max(t) > Max(u))

(* Where Get looks, in order: the memtables, level 0 from the newest table *)
(* on, and one table of each level.                                        *)
Searched(key, sequence) ==
  <<mem, imm>> \o NewestFirst({t \in levels[0] : Overlaps(t, key, key)})
    \o [l \in 1..LastLevel |-> UNION FindFile(l, key, sequence)]

(* What a reader is told of an entry: 0 if it is a deletion, or none.      *)
Value(e) == IF e = 0 THEN 0 ELSE IF written[e].deletion THEN 0 ELSE e

(* Get ends at the first entry it finds, be it a deletion.                 *)
Get(key, sequence) ==
  LET searched == Searched(key, sequence)
      hits == [i \in DOMAIN searched |-> Newest(searched[i], key, sequence)]
      found == {i \in DOMAIN hits : hits[i] # 0}
  IN IF found = {} THEN 0 ELSE Value(hits[Min(found)])

(* What an iterator goes over: the entries of the memtables and of all     *)
(* tables, merged.                                                         *)
InternalEntries ==
  LET present == InOrder(mem \cup imm \cup UNION {Entries(levels[l]) : l \in Levels}, Precedes)
      parsed(e) == [key |-> Key(e), sequence |-> e, deletion |-> written[e].deletion]
  IN [i \in DOMAIN present |-> parsed(present[i])]

Iterator(entries, s) == [list |-> entries, sequence |-> s]

-----------------------------------------------------------------------------
Background ==
  \/ CompactMemTable
  \/ PickCompaction \/ TrivialMove
  \/ StartManual \/ ManualDone
  \/ InstallMerge

Next ==
  \/ \E key \in Keys, deletion \in BOOLEAN : Write(key, deletion)
  \/ GetSnapshot \/ ReleaseSnapshot
  \/ SwitchMemTable
  \/ \E begin \in Begins, end \in Ends : begin <= end /\ CompactRange(begin, end)
  \/ Background

Spec == Init /\ [][Next]_vars

-----------------------------------------------------------------------------
(* Properties.                                                             *)

TypeOK ==
  /\ written \in Seq([key : Keys, deletion : BOOLEAN]) /\ Len(written) <= MaxWrites
  /\ mem \subseteq 1..LastSequence /\ imm \subseteq 1..LastSequence
  /\ levels \in [Levels -> SUBSET ((SUBSET (1..LastSequence)) \ {{}})]
  /\ snapshots \subseteq 0..LastSequence
  /\ work.busy => /\ work.level < LastLevel
                  /\ work.upper \subseteq levels[work.level]
                  /\ work.lower \subseteq levels[work.level + 1]
  /\ manual.active => manual.level < manual.top /\ manual.top <= LastLevel
  /\ broken \subseteq {"split", "gap"}

(* The last write of a key up to a sequence number.                        *)
LastWrite(key, sequence) == Value(Newest(1..LastSequence, key, sequence))

(* Version::Get may stop at the first entry it finds: at every snapshot    *)
(* and now, it returns the last write of the key, although merges move and *)
(* drop entries meanwhile.  It does not hold once a merge has split a key  *)
(* (NeverHop), nor once tables overlap (NeverOverlap).                     *)
GetIsNewest ==
  broken = {} =>
    \A key \in Keys, s \in snapshots \cup {LastSequence} : Get(key, s) = LastWrite(key, s)

(* What an iterator is to show: the last writes of the keys that have a    *)
(* value, in the order of the keys.                                        *)
Values(sequence) == InOrder({LastWrite(key, sequence) : key \in Keys} \ {0}, Precedes)

(* A cursor shows the i-th of them, or is not valid if there is none.      *)
Shows(view, values, c, i) ==
  IF i \in DOMAIN values THEN c.valid /\ view.list[Shown(c)].sequence = values[i] ELSE ~c.valid

(* So does an iterator, which shows the keys that have a value in order:   *)
(* from either end, from any key on, one without a value included, and     *)
(* when it turns round.  No merge drops an entry that a snapshot needs,    *)
(* nor a deletion while an older entry is further down.                    *)
ScanIsNewest ==
  broken = {} =>
    LET entries == InternalEntries IN
    \A s \in snapshots \cup {LastSequence} :
      LET view == Iterator(entries, s)
          values == Values(s)
      IN /\ Shows(view, values, SeekToFirst(view), 1)
         /\ Shows(view, values, SeekToLast(view), Len(values))
         /\ \A k \in Keys, i \in 1..(Len(values) + 1) :
              (\A j \in DOMAIN values : Key(values[j]) < k <=> j < i) => Shows(view, values, Seek(view, k), i)
         /\ \A i \in DOMAIN values :
              LET at == Seek(view, Key(values[i]))
                  back == MovePrev(view, at)
              IN /\ Shows(view, values, at, i)
                 /\ Shows(view, values, MoveNext(view, at), i + 1)
                 /\ Shows(view, values, back, i - 1)
                 /\ back.valid => /\ Shows(view, values, MovePrev(view, back), i - 2)
                                  /\ Shows(view, values, MoveNext(view, back), i)

(* Below level 0 the tables of a level do not overlap.                     *)
Disjoint ==
  \A l \in 1..LastLevel : \A t, u \in levels[l] :
    t # u => Precedes(Largest(t), Smallest(u)) \/ Precedes(Largest(u), Smallest(t))

(* MaybeAddFile asserts it, and it holds unless a manual compaction was    *)
(* overtaken by a flush: see NeverOverlap.                                 *)
LevelsDisjoint == "gap" \notin broken => Disjoint

(* The assertion of MaybeAddFile as it stands.                             *)
NeverOverlap == Disjoint

(* Version::Get says that entries never hop across levels: of one key, a   *)
(* higher level holds newer entries than a lower one.                      *)
NeverHop ==
  \A l, m \in Levels : l < m =>
    \A d \in Entries(levels[l]), e \in Entries(levels[m]) : Key(d) = Key(e) => d > e
=============================================================================
