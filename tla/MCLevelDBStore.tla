--------------------------- MODULE MCLevelDBStore ---------------------------
(* Small instances of LevelDBStore for TLC.                                *)
EXTENDS LevelDBStore

(* The second batch has two entries.                                       *)
MCSize == [b \in Batches |-> IF b = 2 THEN 2 ELSE 1]
=============================================================================
