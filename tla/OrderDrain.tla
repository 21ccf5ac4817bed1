------------------------------ MODULE OrderDrain ------------------------------
(***************************************************************************)
(* How the players of a room share the orders of a tick (Server::closeTick,*)
(* src/src/server/server.cpp).  CommandWindow follows one player's stream  *)
(* and sees the others only as the budget they leave; here are all of      *)
(* them.  A client's queue is one FIFO of commands and selection orders.   *)
(* Closing a tick goes round the slots, from the rotor's on: each drains   *)
(* its queue up to the first item that does not fit, where commands have a *)
(* budget per client and tick, and orders a byte budget per tick that the  *)
(* whole room shares and a member budget per client and second.            *)
(***************************************************************************)
EXTENDS Integers, Sequences, FiniteSets

CONSTANTS
  NSlots,       \* kMaxSlots
  TickBytes,    \* kTickOrderBytes, the largest order (kOrderMaxBytes) too
  CmdCap,       \* kCmdCapPerTick
  PerSecond,    \* commands and order members a client may spend in a second
  MaxQueue      \* bound: items a client has queued

ASSUME DrainAssumption ==
  /\ NSlots \in Nat \ {0}
  /\ TickBytes \in Nat \ {0} /\ CmdCap \in Nat \ {0}
  /\ PerSecond \in Nat /\ PerSecond >= TickBytes  \* kOrderMaxMembers < 65536
  /\ MaxQueue \in Nat \ {0}

VARIABLES
  drainQueue,   \* Client::cmdQueue of each slot's client
  connected,    \* the slots with slotClient >= 0
  allowance,    \* members left to each slot's client in this second
  orderRotor,   \* Room::orderRotor
  passed        \* history: ticks in a row that passed the slot's order over

drainVars == <<drainQueue, connected, allowance, orderRotor, passed>>

Slots == 0 .. NSlots - 1

\* An item is an order, of so many record bytes (a byte to a member), or an
\* ordinary command, which costs the order budgets nothing.
Command == 0
Orders == 1 .. TickBytes
Items == {Command} \cup Orders

\* Every variable holds what the code can put in it; no budget goes below zero.
DrainTypeOK ==
  /\ drainQueue \in [Slots -> Seq(Items)]
  /\ \A s \in Slots : Len(drainQueue[s]) =< MaxQueue
  /\ connected \subseteq Slots
  /\ allowance \in [Slots -> 0 .. PerSecond]
  /\ orderRotor \in Slots
  /\ passed \in [Slots -> Nat]

DrainInit ==
  /\ drainQueue = [s \in Slots |-> <<>>]
  /\ connected = Slots
  /\ allowance = [s \in Slots |-> PerSecond]
  /\ orderRotor = 0
  /\ passed = [s \in Slots |-> 0]

-----------------------------------------------------------------------------
(* Outside the tick.                                                        *)

\* A command, charged to the client's second at receipt, or a committed
\* order, charged when it is drained, joins its client's queue.
AtReceipt(item) == IF item = Command THEN 1 ELSE 0
Queue(s, item) ==
  /\ s \in connected
  /\ Len(drainQueue[s]) < MaxQueue
  /\ AtReceipt(item) =< allowance[s]
  /\ drainQueue' = [drainQueue EXCEPT ![s] = Append(@, item)]
  /\ allowance' = [allowance EXCEPT ![s] = @ - AtReceipt(item)]
  /\ UNCHANGED <<connected, orderRotor, passed>>

\* The slot's connection goes, and with it what it had queued.
Detach(s) ==
  /\ s \in connected
  /\ connected' = connected \ {s}
  /\ drainQueue' = [drainQueue EXCEPT ![s] = <<>>]
  /\ passed' = [passed EXCEPT ![s] = 0]
  /\ UNCHANGED <<allowance, orderRotor>>

\* A reconnect: a new Client, whose budgets are of its account, not new.
Reattach(s) ==
  /\ s \notin connected
  /\ connected' = connected \cup {s}
  /\ UNCHANGED <<drainQueue, allowance, orderRotor, passed>>

\* The second of a client's budget turns over.
SecondTurns(s) ==
  /\ allowance[s] < PerSecond
  /\ allowance' = [allowance EXCEPT ![s] = PerSecond]
  /\ UNCHANGED <<drainQueue, connected, orderRotor, passed>>

-----------------------------------------------------------------------------
(* Closing a tick.                                                          *)

\* The bytes of the orders, and the number of commands, among the first n items.
Bytes(s, n) ==
  LET upTo[k \in 0 .. n] == IF k = 0 THEN 0 ELSE upTo[k - 1] + drainQueue[s][k]
  IN upTo[n]
Commands(s, n) == Cardinality({k \in 1 .. n : drainQueue[s][k] = Command})

\* The first n items of the queue all fit: the room's byte budget, of which
\* used is gone, the client's second and the client's commands.
Fits(s, n, used) ==
  /\ used + Bytes(s, n) =< TickBytes
  /\ Bytes(s, n) =< allowance[s]
  /\ Commands(s, n) =< CmdCap

\* How many items slot s drains when the slots before it took used bytes.
Drains(s, used) ==
  IF s \in connected
  THEN CHOOSE n \in 0 .. Len(drainQueue[s]) :
         /\ Fits(s, n, used)
         /\ n < Len(drainQueue[s]) => ~Fits(s, n + 1, used)
  ELSE 0

\* The k-th slot of the round.
Turn(k) == (orderRotor + k) % NSlots

\* What each slot drains this tick; used[k] is what the first k slots of the
\* round have taken of the room's bytes.
Taken ==
  LET used[k \in 0 .. NSlots] ==
        IF k = 0 THEN 0
        ELSE used[k - 1] + Bytes(Turn(k - 1), Drains(Turn(k - 1), used[k - 1]))
  IN [s \in Slots |-> Drains(s, used[(s - orderRotor) % NSlots])]

RotorStays == orderRotor
NextRotor == (orderRotor + 1) % NSlots

\* History: a tick that takes nothing of slot s passes over a head order within
\* its client's own budget.  An order that its client's second holds back is
\* not passed over: it starts to count when the second has turned over.
PassesOver(s) ==
  /\ drainQueue[s] # <<>>
  /\ Head(drainQueue[s]) \in Orders
  /\ Head(drainQueue[s]) =< allowance[s]

CloseDrain ==
  LET taken == Taken IN
  /\ drainQueue' = [s \in Slots |->
       SubSeq(drainQueue[s], taken[s] + 1, Len(drainQueue[s]))]
  /\ allowance' = [s \in Slots |-> allowance[s] - Bytes(s, taken[s])]
  /\ orderRotor' = NextRotor
  /\ passed' = [s \in Slots |->
       IF taken[s] = 0 /\ PassesOver(s) THEN passed[s] + 1 ELSE 0]
  /\ UNCHANGED connected

DrainNext ==
  \/ \E s \in Slots, item \in Items : Queue(s, item)
  \/ \E s \in Slots : Detach(s) \/ Reattach(s) \/ SecondTurns(s)
  \/ CloseDrain

DrainSpec == DrainInit /\ [][DrainNext]_drainVars

-----------------------------------------------------------------------------
(* Properties.                                                              *)

\* An order at the head of its client's queue, once the client's own second
\* allows it, is taken within kMaxSlots ticks, whatever the other players send
\* (server.cpp:2611-2613).
OrderSoonTaken == \A s \in Slots : passed[s] < NSlots

=============================================================================
