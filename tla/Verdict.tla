------------------------------- MODULE Verdict -------------------------------
(***************************************************************************)
(* What Unplug promises its players, without phones, queues or clocks:     *)
(* rooms are started, players leave the rooms they play, and each player   *)
(* is told once how the game ended.  Whoever is named left that very room, *)
(* and a room whose end is called was started.  A player who had two       *)
(* creates or joins under way at once may play a room that nobody started. *)
(* UnplugGame implements this specification.                               *)
(***************************************************************************)
CONSTANTS Players, Rooms, NoRoom, Untold, Nobody

VARIABLES
  started,  \* the rooms in which somebody pressed Start
  left,     \* per player: the rooms left while playing
  mixed,    \* the players whose rooms got mixed up
  told      \* per player: the loser and the room of the results screen

promised == <<started, left, mixed, told>>

Nothing == [loser |-> Untold, room |-> NoRoom]

Init ==
  /\ started = {}
  /\ left = [p \in Players |-> {}]
  /\ mixed = {}
  /\ told = [p \in Players |-> Nothing]

Plays(p, r) == r \in started \/ p \in mixed

Start(r) ==
  /\ started' = started \cup {r}
  /\ UNCHANGED <<left, mixed, told>>

Leave(p, r) ==
  /\ told[p] = Nothing /\ Plays(p, r)
  /\ left' = [left EXCEPT ![p] = @ \cup {r}]
  /\ UNCHANGED <<started, mixed, told>>

(* A player asks for a room, alone or with another request under way.      *)
Ask(p) ==
  /\ told[p] = Nothing
  /\ mixed' \in {mixed \cup {p}, mixed \ {p}}
  /\ UNCHANGED <<started, left, told>>

Name(p, q, r) ==
  /\ told[p] = Nothing /\ r \in left[q]
  /\ told' = [told EXCEPT ![p] = [loser |-> q, room |-> r]]
  /\ UNCHANGED <<started, left, mixed>>

CallTime(p, r) ==
  /\ told[p] = Nothing /\ Plays(p, r)
  /\ told' = [told EXCEPT ![p] = [loser |-> Nobody, room |-> r]]
  /\ UNCHANGED <<started, left, mixed>>

(* The app of p is ended: what it said and what it mixed up is gone, what  *)
(* p did is not.                                                           *)
Forget(p) ==
  /\ told' = [told EXCEPT ![p] = Nothing]
  /\ mixed' = mixed \ {p}
  /\ UNCHANGED <<started, left>>

Next ==
  \/ \E r \in Rooms : Start(r)
  \/ \E p \in Players : Ask(p) \/ Forget(p)
  \/ \E p \in Players, r \in Rooms : Leave(p, r) \/ CallTime(p, r)
  \/ \E p, q \in Players, r \in Rooms : Name(p, q, r)

Spec == Init /\ [][Next]_promised
=============================================================================
