---------------------------- MODULE LevelDBIter -----------------------------
(***************************************************************************)
(* DBIter (db_iter.cc): a cursor over the entries of a database in the     *)
(* order of their internal keys that shows, of every user key, what was    *)
(* last written up to a sequence number.                                   *)
(*                                                                         *)
(* A view is what the cursor runs through: list, the records of key,       *)
(* sequence and deletion that iter_ goes over, and sequence_.              *)
(***************************************************************************)
EXTENDS Naturals, Sequences

(* iter_ is at an entry of the list, before all of them (0) or past them:  *)
(* then it is not valid.                                                   *)
End(view) == Len(view.list) + 1

(* A cursor.  Moving forward it shows the entry iter_ is at; moving back,  *)
(* the saved one, and iter_ is before the entries of that key.             *)
Cursor(valid, forward, at, saved) ==
  [valid |-> valid, forward |-> forward, at |-> at, saved |-> saved]

(* Where what it shows is in the list.                                     *)
Shown(c) == IF ~c.valid THEN 0 ELSE IF c.forward THEN c.at ELSE c.saved

(* Mutant: an entry that is too new is not passed over.                    *)
AnySequence(view, i) == TRUE

InView(view, i) == view.list[i].sequence <= view.sequence

(* From an entry on, past a key that is to be skipped (0 for none) and     *)
(* past deletions with what they hide.                                     *)
FindNextUserEntry(view, from, skipping) ==
  LET list == view.list
      Find[i \in Nat] ==
        [skip \in Nat |->
           IF i \notin DOMAIN list THEN i
           ELSE IF ~InView(view, i) THEN Find[i + 1][skip]
           ELSE IF list[i].deletion THEN Find[i + 1][list[i].key]
           ELSE IF list[i].key <= skip THEN Find[i + 1][skip]
           ELSE i]
      at == Find[from][skipping]
  IN Cursor(at # End(view), TRUE, at, 0)

(* Back from an entry, until the newest one of a key is passed that is not *)
(* deleted.                                                                *)
FindPrevUserEntry(view, from) ==
  LET list == view.list
      Find[i \in Nat] ==
        [saved \in Nat |->
           IF i \notin DOMAIN list THEN <<0, saved>>
           ELSE IF ~InView(view, i) THEN Find[i - 1][saved]
           ELSE IF saved # 0 /\ list[i].key < list[saved].key THEN <<i, saved>>
           ELSE Find[i - 1][IF list[i].deletion THEN 0 ELSE i]]
      found == Find[from][0]
  IN Cursor(found[2] # 0, found[2] = 0, found[1], found[2])

SeekToFirst(view) == FindNextUserEntry(view, 1, 0)
SeekToLast(view) == FindPrevUserEntry(view, Len(view.list))

Seek(view, target) ==
  LET From == {i \in DOMAIN view.list :
                 \/ view.list[i].key > target
                 \/ view.list[i].key = target /\ view.list[i].sequence <= view.sequence}
  IN IF From = {} THEN Cursor(FALSE, TRUE, End(view), 0)
     ELSE FindNextUserEntry(view, CHOOSE i \in From : \A j \in From : i <= j, 0)

MoveNext(view, c) ==
  IF c.forward THEN FindNextUserEntry(view, c.at, view.list[c.at].key)
  ELSE IF c.at + 1 = End(view) THEN Cursor(FALSE, TRUE, c.at + 1, 0)
  ELSE FindNextUserEntry(view, c.at + 1, view.list[c.saved].key)

MovePrev(view, c) ==
  LET Back[i \in Nat] ==
        IF i \notin DOMAIN view.list THEN 0
        ELSE IF view.list[i].key < view.list[c.at].key THEN i ELSE Back[i - 1]
      before == IF c.forward THEN Back[c.at] ELSE c.at
  IN IF c.forward /\ before = 0 THEN Cursor(FALSE, TRUE, 0, 0) ELSE FindPrevUserEntry(view, before)
=============================================================================
