--------------------------- MODULE LevelDBPromise ---------------------------
(***************************************************************************)
(* What leveldb keeps of the writes it acknowledges (WriteOptions.sync in  *)
(* options.h), without files or threads.  A write that was acknowledged    *)
(* survives the end of the process, and the end of the machine too once it *)
(* is safe, as it is when it asked for a sync.  What a crash leaves of the *)
(* other writes is whole writes.                                           *)
(*                                                                         *)
(* There is one exception that options.h does not make.  An append to the  *)
(* log that fails is an error to those who wrote in it; the writes after   *)
(* it are acknowledged, but none is kept until the log is renewed or they  *)
(* settle in a table.                                                      *)
(***************************************************************************)
CONSTANT Batches

VARIABLES
  open,   \* the database is open
  torn,   \* an append to the log in use failed
  data,   \* the writes that a reader sees
  acked,  \* the writes whose callers were told that they succeeded
  kept,   \* those that outlive the process
  safe    \* those that outlive the machine

promised == <<open, torn, data, acked, kept, safe>>

Init == ~open /\ ~torn /\ data = {} /\ acked = {} /\ kept = {} /\ safe = {}

(* Writes take effect together, and their callers learn of it at once.     *)
Commit(S, T) ==
  /\ open /\ data \cap S = {}
  /\ data' = data \cup S
  /\ acked' = acked \cup S
  /\ kept' = IF torn THEN kept ELSE kept \cup S
  /\ safe' = safe \cup T /\ T \subseteq kept'
  /\ UNCHANGED <<open, torn>>

(* What was acknowledged reaches the disk.                                 *)
Settle(T) ==
  /\ open /\ T \subseteq acked
  /\ kept' = kept \cup T /\ safe' = safe \cup T
  /\ UNCHANGED <<open, torn, data, acked>>

Tear ==
  /\ open /\ torn' = TRUE
  /\ UNCHANGED <<open, data, acked, kept, safe>>

Renew ==
  /\ open /\ torn' = FALSE
  /\ UNCHANGED <<open, data, acked, kept, safe>>

Kill ==
  /\ open' = FALSE /\ torn' = FALSE /\ data' = {}
  /\ UNCHANGED <<acked, kept, safe>>

PowerLoss ==
  /\ open' = FALSE /\ torn' = FALSE /\ data' = {}
  /\ acked' = safe /\ kept' = safe /\ safe' = safe

(* What is found counts as safe from now on, what is lost as forgotten.    *)
Open(S) ==
  /\ ~open /\ kept \subseteq S
  /\ open' = TRUE /\ torn' = FALSE /\ data' = S
  /\ acked' = S /\ kept' = S /\ safe' = S

Next ==
  \/ \E S, T \in SUBSET Batches : Commit(S, T)
  \/ \E T \in SUBSET Batches : Settle(T) \/ Open(T)
  \/ Tear \/ Renew
  \/ Kill \/ PowerLoss

Spec == Init /\ [][Next]_promised
=============================================================================
