----------------------------- MODULE MCGameRoom -----------------------------
(* Instances of GameRoom for TLC: two players, each with a connection of   *)
(* its own and one to come back on, and, in some runs, a watcher.          *)
EXTENDS GameRoom

CONSTANTS c1, c2, d1, d2, e1, w1, watcher, none

(* Whose connection each one is: c and d are the first and the second of   *)
(* the players 1 and 2, e1 is the third of player 1, w1 the watcher's.     *)
OwnerOf(c) == CASE c \in {c1, d1, e1} -> 1
                [] c \in {c2, d2} -> 2
                [] c = w1 -> watcher
MCOwner == [c \in Conns |-> OwnerOf(c)]
MCSeated == [p \in Players |-> IF p = 1 THEN c1 ELSE c2]

(* A bound: the player comes back, or somebody comes to watch, not both.   *)
OneComes == conn[d1].state = "none" \/ conn[w1].state = "none"
=============================================================================
