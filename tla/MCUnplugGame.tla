---------------------------- MODULE MCUnplugGame ----------------------------
(* Small instances of UnplugGame for TLC: clocks, and what each user does. *)
EXTENDS UnplugGame

MCNoSkew == [d \in Devices |-> 0]
MCSkew == [d \in Devices |-> d - 1]

(* Player 1 opens the setup, creates, and starts or leaves; player 2 has   *)
(* the taps to scan two codes, play a room and leave it.                   *)
MCBudgetRace == [d \in Devices |-> IF d = 1 THEN 3 ELSE 6]

(* Player 2 joins, leaves, and joins again after its app died.             *)
MCBudgetCrash == [d \in Devices |-> IF d = 1 THEN 3 ELSE 5]

(* Just what each player needs to play one game and leave it.              *)
MCBudgetLive == [d \in Devices |-> IF d = 1 THEN 4 ELSE 3]
=============================================================================
