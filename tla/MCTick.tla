------------------------------- MODULE MCTick -------------------------------
(***************************************************************************)
(* What the room does from tick to tick, besides the ticks themselves: the *)
(* clocks of who it waits for, whose orders it takes, and the desync       *)
(* check.  The three share no state here, so a behaviour is one of one of  *)
(* them while the others rest.                                             *)
(***************************************************************************)
EXTENDS WaitClocks, OrderDrain, HashCheck

VARIABLE behaviour
tickVars == <<vars, drainVars, hashVars, behaviour>>

MCInit ==
  /\ Init /\ DrainInit /\ HashInit
  /\ behaviour \in {"clocks", "orders", "hashes"}
  /\ behaviour # "hashes" => refRight

ClocksStep == behaviour = "clocks" /\ Next /\ UNCHANGED <<drainVars, hashVars, behaviour>>
OrdersStep == behaviour = "orders" /\ DrainNext /\ UNCHANGED <<vars, hashVars, behaviour>>
HashesStep == behaviour = "hashes" /\ HashNext /\ UNCHANGED <<vars, drainVars, behaviour>>
MCNext == ClocksStep \/ OrdersStep \/ HashesStep

\* Each one's fairness: what rests is never enabled.
MCFairness ==
  /\ WF_vars(behaviour = "clocks" /\ Loop)
  /\ WF_vars(behaviour = "clocks" /\ WorkerDone)
  /\ WF_vars(behaviour = "clocks" /\ FinishTick)
  /\ WF_hashVars(behaviour = "hashes" /\ Publish)
  /\ \A p \in Players :
       /\ WF_hashVars(behaviour = "hashes" /\ Report(p))
       /\ WF_hashVars(behaviour = "hashes" /\ DropPlayer(p))
       /\ WF_hashVars(behaviour = "hashes" /\ player[p].link = "away" /\ (RejoinPlayer(p) \/ GiveUp(p)))

MCSpec == MCInit /\ [][MCNext]_tickVars /\ MCFairness

\* Every variable of the three holds what the code can put in it.
TickTypeOK == TypeOK /\ DrainTypeOK /\ HashTypeOK

\* Once nobody pauses it or reconnects to it any more, the game goes on or is
\* torn down (GoesOn of WaitClocks, where the clocks are what moves).
ClocksGoOn == behaviour = "clocks" => GoesOn
=============================================================================
