------------------------------ MODULE Lockstep ------------------------------
(***************************************************************************)
(* What a running game promises its peers, whatever happens to their       *)
(* links.                                                                  *)
(*                                                                         *)
(* There is one log of ticks.  It only grows, and every peer holds a       *)
(* prefix of it: a peer gets the next tick it lacks or starts over from    *)
(* nothing, and is never sent a tick twice, out of order, or after a gap.  *)
(*                                                                         *)
(* A seat departs once, by leaving or to an AI, and for good.  Each        *)
(* departure is published in the log exactly once, in the order in which   *)
(* the departures were decided, unless the game is cut short.              *)
(***************************************************************************)
EXTENDS Naturals, Sequences

CONSTANTS
  Seats,
  Peers,
  AiSeats    \* the seats that are AI players from the start

VARIABLES
  log,     \* the published ticks
  copy,    \* what each peer holds of it
  fate,    \* what has become of each seat
  owed,    \* the departures decided and not yet published, oldest first
  cut      \* the game was cut short

vars == <<log, copy, fate, owed, cut>>

Departure(kind, s) == [kind |-> kind, player |-> s]

Init ==
  /\ log = <<>>
  /\ copy = [p \in Peers |-> <<>>]
  /\ fate = [s \in Seats |-> IF s \in AiSeats THEN "ai" ELSE "human"]
  /\ owed = <<>>
  /\ cut = FALSE

Depart(s) ==
  /\ fate[s] = "human"
  /\ \/ /\ fate' = [fate EXCEPT ![s] = "closed"]
        /\ owed' = Append(owed, Departure("Leave", s))
     \/ /\ fate' = [fate EXCEPT ![s] = "ai"]
        /\ owed' = Append(owed, Departure("AiTakeover", s))
  /\ UNCHANGED <<log, copy, cut>>

(* The next tick; the oldest of the departures owed go into it.            *)
Publish(tick) ==
  /\ ~cut
  /\ log' = Append(log, tick)
  /\ tick.tick = Len(log)
  /\ owed = tick.events \o owed'
  /\ UNCHANGED <<copy, fate, cut>>

Receive(p) ==
  /\ Len(copy[p]) < Len(log)
  /\ copy' = [copy EXCEPT ![p] = Append(@, log[Len(@) + 1])]
  /\ UNCHANGED <<log, fate, owed, cut>>

StartOver(p) ==
  /\ copy' = [copy EXCEPT ![p] = <<>>]
  /\ UNCHANGED <<log, fate, owed, cut>>

(* What was frozen into the tick that failed is never published.           *)
CutShort ==
  /\ ~cut /\ cut' = TRUE
  /\ \E n \in 0 .. Len(owed) : owed' = SubSeq(owed, n + 1, Len(owed))
  /\ UNCHANGED <<log, copy, fate>>

Next ==
  \/ \E s \in Seats : Depart(s)
  \/ log' # <<>> /\ Publish(log'[Len(log')])
  \/ \E p \in Peers : Receive(p) \/ StartOver(p)
  \/ CutShort

Spec == Init /\ [][Next]_vars

=============================================================================
