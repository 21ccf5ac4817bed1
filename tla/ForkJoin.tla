------------------------------ MODULE ForkJoin ------------------------------
(***************************************************************************)
(* What a fork-join promises its caller: the chunks of a job are each run  *)
(* once, by one thread, and the join comes when all have run and nobody is *)
(* at one any more.                                                        *)
(***************************************************************************)
EXTENDS Naturals

CONSTANTS
  Threads,
  Chunks,    \* all the chunks there may be
  Nothing    \* what a thread is at between chunks; no chunk

VARIABLES
  open,    \* a job is under way
  todo,    \* its chunks nobody has begun
  at       \* the chunk each thread is at

vars == <<open, todo, at>>

Init == open = FALSE /\ todo = {} /\ at = [t \in Threads |-> Nothing]

Fork(chunks) == ~open /\ open' = TRUE /\ todo' = chunks /\ UNCHANGED at

Begin(t, k) ==
  /\ open /\ at[t] = Nothing /\ k \in todo
  /\ todo' = todo \ {k}
  /\ at' = [at EXCEPT ![t] = k]
  /\ UNCHANGED open

End(t) == open /\ at[t] # Nothing /\ at' = [at EXCEPT ![t] = Nothing] /\ UNCHANGED <<open, todo>>

Join ==
  /\ open /\ todo = {} /\ \A t \in Threads : at[t] = Nothing
  /\ open' = FALSE
  /\ UNCHANGED <<todo, at>>

Next ==
  \/ \E chunks \in SUBSET Chunks : Fork(chunks)
  \/ \E t \in Threads : End(t) \/ \E k \in Chunks : Begin(t, k)
  \/ Join

Spec == Init /\ [][Next]_vars

=============================================================================
