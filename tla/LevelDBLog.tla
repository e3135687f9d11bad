----------------------------- MODULE LevelDBLog -----------------------------
(***************************************************************************)
(* The log format of leveldb (log_writer.cc, log_reader.cc): a file is cut *)
(* into blocks of BlockSize units, a record into fragments that each fit a *)
(* block, and each fragment begins with a header of HeaderSize units.  The *)
(* first unit of a header carries the type of the fragment and, standing   *)
(* for length and checksum, what the fragment holds.                       *)
(***************************************************************************)
EXTENDS Naturals, Sequences, SequencesExt

CONSTANTS
  BlockSize,   \* kBlockSize
  HeaderSize   \* kHeaderSize, less than a block

ASSUME LogAssumption == BlockSize \in Nat /\ HeaderSize \in 1..(BlockSize - 1)

Least(m, n) == IF m < n THEN m ELSE n

Header(type, data) == [type |-> type, data |-> data]
Zeros(n) == [i \in 1..n |-> Header("zero", <<>>)]

FragmentType(begin, end) ==
  CASE begin /\ end -> "full"
    [] begin /\ ~end -> "first"
    [] ~begin /\ end -> "last"
    [] OTHER -> "middle"

PhysicalRecord(type, data) ==
  <<Header(type, data)>> \o Zeros(HeaderSize - 1) \o data

(* The fragments in which a record is emitted from a block offset on.  The *)
(* rest of a block that is too small for a header is filled with zeros.    *)
AddRecord(blockOffset, record) ==
  LET States == [offset : 0..BlockSize, done : 0..Len(record), begin : BOOLEAN]
      Emit[s \in States] ==
        LET leftover == BlockSize - s.offset
            trailer == IF leftover < HeaderSize THEN leftover ELSE 0
            start == IF leftover < HeaderSize THEN 0 ELSE s.offset
            n == Least(Len(record) - s.done, BlockSize - start - HeaderSize)
            end == s.done + n = Len(record)
            fragment == Zeros(trailer) \o
              PhysicalRecord(FragmentType(s.begin, end), SubSeq(record, s.done + 1, s.done + n))
        IN <<fragment>> \o
             IF end THEN <<>>
             ELSE Emit[[offset |-> start + HeaderSize + n, done |-> s.done + n, begin |-> FALSE]]
  IN Emit[[offset |-> blockOffset, done |-> 0, begin |-> TRUE]]

(* block_offset_ after a number of units emitted from an offset on.        *)
OffsetAfter(blockOffset, units) ==
  IF units = 0 THEN blockOffset ELSE ((blockOffset + units - 1) % BlockSize) + 1

(* The physical records found in a file, block by block.  What does not    *)
(* parse costs the rest of its block; a file that ends inside a physical   *)
(* record has no more of them.                                             *)
PhysicalRecords(file) ==
  LET Parse[at \in 0..Len(file)] ==
        LET blockEnd == Least(Len(file), at - (at % BlockSize) + BlockSize)
            unit == file[at + 1]
            after == at + HeaderSize + Len(unit.data)
            intact == /\ "type" \in DOMAIN unit
                      /\ unit.type # "zero" /\ after <= blockEnd
                      /\ SubSeq(file, at + 1, after) = PhysicalRecord(unit.type, unit.data)
        IN IF at = Len(file) THEN <<>>
           ELSE IF blockEnd - at < HeaderSize THEN Parse[blockEnd]
           ELSE IF intact THEN <<unit>> \o Parse[after]
                          ELSE <<Header("bad", <<>>)>> \o Parse[blockEnd]
  IN Parse[0]

(* The logical records of a file: each from its first fragment to its last *)
(* without a gap.                                                          *)
ReadRecords(file) ==
  LET None == [whole |-> <<>>, inside |-> FALSE, scratch |-> <<>>]
      Take(acc, unit) ==
        CASE unit.type = "full" ->
               [acc EXCEPT !.whole = Append(@, unit.data), !.inside = FALSE]
          [] unit.type = "first" -> [acc EXCEPT !.inside = TRUE, !.scratch = unit.data]
          [] unit.type = "middle" /\ acc.inside -> [acc EXCEPT !.scratch = @ \o unit.data]
          [] unit.type = "last" /\ acc.inside ->
               [acc EXCEPT !.whole = Append(@, acc.scratch \o unit.data), !.inside = FALSE]
          [] unit.type = "bad" -> [acc EXCEPT !.inside = FALSE]
          [] OTHER -> acc
  IN FoldLeft(Take, None, PhysicalRecords(file)).whole
=============================================================================
