----------------------------- MODULE SimPoolProofs -----------------------------
(***************************************************************************)
(* For any finite number of workers, and any number and size of jobs: the  *)
(* lock-free opening and closing of jobs keeps a job's fields the caller's *)
(* while it writes them, no worker sleeps through a job it was woken for,  *)
(* and the pool implements ForkJoin: each chunk is begun once, and a call  *)
(* returns when all have been begun and nobody is at one.                  *)
(***************************************************************************)
EXTENDS SimPool, FiniteSetTheorems, TLAPS

AtRest == {"spin", "load", "enter", "gone"}
Dozing == {"predicate", "asleep", "woken"}        \* counted in sleeping_

\* A job's fields are in use: from their writing until the call returns, or
\* until finish() does.
JobHeld == async \/ call \in {"forChunks", "start"}
Shareable == Workers # {} /\ chunks > 0

\* Where the caller is, in which call, and whether its job is open.
CallerInv ==
  /\ pc[Caller] \in {"idle", "open", "wake", "wait", "close", "out", "gone"} \cup Draining
  /\ pc[Caller] \in {"idle", "gone"} <=> call = "none"
  /\ pc[Caller] \in {"open", "wake"} => call \in {"forChunks", "start"}
  /\ pc[Caller] \in Draining => call \in {"forChunks", "help", "finish"}
  /\ pc[Caller] \in {"wait", "close", "out"} =>
       call \in {"forChunks", "finish"} /\ next >= chunks
  /\ pc[Caller] = "gone" => ~async
  /\ call \in {"start", "help", "finish"} => async
  /\ call = "forChunks" \/ pc[Caller] \in {"open", "wake", "close", "out"} => Shareable
  /\ Open <=> JobHeld /\ Shareable /\ pc[Caller] \notin {"open", "out"}

\* A worker that takes part does so in the open job, or in one the caller has
\* closed and has not left; it was let in by an odd generation.
WorkerInv ==
  \A w \in Workers :
    /\ pc[w] \in AtRest \cup Dozing \cup Inside
    /\ pc[w] \in {"enter", "recheck"} => seen[w] % 2 = 1
    /\ pc[w] \in Draining => Open \/ pc[Caller] = "out"

ClaimedOnce == \A t \in Threads : pc[t] = "bound" => k[t] < next

\* The workers at one of these places.
WorkersAt(places) == {w \in Workers : pc[w] \in places}
Counts ==
  /\ inflight = Cardinality(WorkersAt(Inside))
  /\ sleeping = Cardinality(WorkersAt(Dozing))

IInv == TypeOK /\ CallerInv /\ WorkerInv /\ ClaimedOnce /\ Counts /\ NobodySleepsThrough

-----------------------------------------------------------------------------
(* Counting.                                                               *)

LEMMA Parity == \A n \in Nat : (n + 1) % 2 = 1 <=> n % 2 # 1
  OBVIOUS

\* The number of workers at some places, when one worker moves.
LEMMA OneMoves ==
  ASSUME TypeOK, NEW w \in Workers, NEW places, NEW label,
         pc' = [pc EXCEPT ![w] = label]
  PROVE  LET n == Cardinality(WorkersAt(places))
             m == Cardinality(WorkersAt(places)')
         IN  /\ n \in Nat /\ m \in Nat
             /\ pc[w] \in places /\ label \in places => m = n
             /\ pc[w] \notin places /\ label \notin places => m = n
             /\ pc[w] \notin places /\ label \in places => m = n + 1
             /\ pc[w] \in places /\ label \notin places => m = n - 1
  <1> DEFINE A == WorkersAt(places)
             B == WorkersAt(places)'
  <1>1. IsFiniteSet(A) /\ IsFiniteSet(B)
    <2>1. A \in SUBSET Workers /\ B \in SUBSET Workers
      BY DEF WorkersAt
    <2> QED
      BY <2>1, PoolAssumption, FS_Subset
  <1>2. Cardinality(A) \in Nat /\ Cardinality(B) \in Nat
    BY <1>1, FS_CardinalityType
  <1>3. B = IF label \in places THEN A \cup {w} ELSE A \ {w}
    BY DEF WorkersAt, TypeOK, Threads
  <1>4. w \in A <=> pc[w] \in places
    BY DEF WorkersAt
  <1>5. Cardinality(A \cup {w}) = IF w \in A THEN Cardinality(A) ELSE Cardinality(A) + 1
    BY <1>1, FS_AddElement
  <1>6. Cardinality(A \ {w}) = IF w \in A THEN Cardinality(A) - 1 ELSE Cardinality(A)
    BY <1>1, FS_RemoveElement
  <1> HIDE DEF A, B
  <1>7. /\ pc[w] \in places /\ label \in places => Cardinality(B) = Cardinality(A)
        /\ pc[w] \notin places /\ label \notin places => Cardinality(B) = Cardinality(A)
        /\ pc[w] \notin places /\ label \in places => Cardinality(B) = Cardinality(A) + 1
        /\ pc[w] \in places /\ label \notin places => Cardinality(B) = Cardinality(A) - 1
    BY <1>3, <1>4, <1>5, <1>6
  <1> QED
    BY <1>2, <1>7 DEF A, B

\* They are who is there.
LEMMA NobodyThere ==
  ASSUME TypeOK, NEW places, Cardinality(WorkersAt(places)) = 0
  PROVE  \A w \in Workers : pc[w] \notin places
  <1>1. WorkersAt(places) \in SUBSET Workers
    BY DEF WorkersAt
  <1>2. IsFiniteSet(WorkersAt(places))
    BY <1>1, PoolAssumption, FS_Subset
  <1>3. WorkersAt(places) = {}
    BY <1>2, FS_EmptySet
  <1> QED
    BY <1>3 DEF WorkersAt

LEMMA InitInvariant == Init => IInv
  <1> SUFFICES ASSUME Init PROVE IInv
    OBVIOUS
  <1>1. Caller \notin Workers /\ Caller \in Threads /\ \A w \in Workers : w \in Threads
    BY PoolAssumption DEF Threads
  <1>2. pc[Caller] = "idle" /\ \A w \in Workers : pc[w] = "spin"
    BY <1>1 DEF Init
  <1>3. TypeOK
    <2>1. pc \in [Threads -> Labels] /\ k \in [Threads -> Nat] /\ seen \in [Workers -> Nat]
      BY DEF Init, Labels
    <2>2. chunks \in 0 .. MaxChunks
      BY PoolAssumption DEF Init
    <2> QED
      BY <2>1, <2>2 DEF Init, TypeOK
  <1>4. Counts
    <2>1. WorkersAt(Inside) = {} /\ WorkersAt(Dozing) = {}
      BY <1>2 DEF WorkersAt, Inside, Draining, Dozing
    <2> QED
      BY <2>1, FS_EmptySet DEF Counts, Init
  <1>5. CallerInv
    BY <1>2 DEF Init, CallerInv, JobHeld, Open, Draining
  <1>6. WorkerInv /\ ClaimedOnce /\ NobodySleepsThrough
    BY <1>2 DEF Init, WorkerInv, ClaimedOnce, NobodySleepsThrough, AtRest, Draining, Threads, Open
  <1> QED
    BY <1>3, <1>4, <1>5, <1>6 DEF IInv

-----------------------------------------------------------------------------
(* The steps, one by one.                                                  *)

\* The caller's steps outside drain().
CallerMoves ==
  \/ \E n \in 0 .. MaxChunks : Write(n)
  \/ Help \/ Finish \/ Destroy \/ OpenJob \/ WakeWorkers \/ JoinStep

\* A worker's steps outside drain().
WorkerMoves(w) ==
  \/ SeesStop(w) \/ GoesToSleep(w) \/ Predicate(w) \/ WakesUp(w) \/ LoadGen(w)
  \/ Enter(w) \/ SpuriousWakeup(w) \/ Recheck(w) \/ Leave(w)

LEMMA Steps ==
  Next <=> \/ CallerMoves
           \/ \E t \in Threads : Drain(t)
           \/ \E w \in Workers : WorkerMoves(w)
  BY DEF Next, CallerMoves, WorkerMoves, CallerStep, WorkerStep, WorkerInside, Threads

\* The counters follow the workers, and nothing is taken from zero.
LEMMA CountsKept ==
  ASSUME IInv, [Next]_vars
  PROVE  Counts' /\ inflight' \in Nat /\ sleeping' \in Nat
  <1> USE DEF IInv
  <1>1. ASSUME inflight' = inflight, sleeping' = sleeping,
               \A w \in Workers : pc'[w] \in Inside <=> pc[w] \in Inside,
               \A w \in Workers : pc'[w] \in Dozing <=> pc[w] \in Dozing
        PROVE  Counts' /\ inflight' \in Nat /\ sleeping' \in Nat
    <2>1. {w \in Workers : pc'[w] \in Inside} = {w \in Workers : pc[w] \in Inside}
      BY <1>1
    <2>2. {w \in Workers : pc'[w] \in Dozing} = {w \in Workers : pc[w] \in Dozing}
      BY <1>1
    <2> QED
      BY <1>1, <2>1, <2>2 DEF Counts, WorkersAt, TypeOK
  <1>2. CASE CallerMoves
    <2>1. UNCHANGED <<inflight, sleeping>>
      BY <1>2 DEF CallerMoves, Write, Help, Finish, Destroy, OpenJob, WakeWorkers, JoinStep,
                  AllDone, CloseJob, Joined, fields, sleep
    <2>2. \A w \in Workers : pc'[w] = pc[w] \/ (pc[w] = "asleep" /\ pc'[w] = "woken")
      BY <1>2, PoolAssumption
         DEF CallerMoves, Write, Help, Finish, Destroy, OpenJob, WakeWorkers, JoinStep,
             AllDone, CloseJob, Joined, Goto, Woken, Stopped, TypeOK, Threads
    <2> QED
      BY <1>1, <2>1, <2>2 DEF Inside, Draining, Dozing
  <1>3. ASSUME NEW t \in Threads, Drain(t)
        PROVE  Counts' /\ inflight' \in Nat /\ sleeping' \in Nat
    <2>1. UNCHANGED <<inflight, sleeping>>
      BY <1>3 DEF Drain, Claim, Bound, RunChunk, CountChunk, fields, sleep
    <2>2. \A w \in Workers :
            \/ pc'[w] = pc[w]
            \/ pc[w] \in Draining /\ pc'[w] \in Inside
      BY <1>3, PoolAssumption
         DEF Drain, Claim, Bound, RunChunk, CountChunk, Goto, AfterDrain, TypeOK, Threads,
             Inside, Draining
    <2> QED
      BY <1>1, <2>1, <2>2 DEF Inside, Draining, Dozing
  <1>4. ASSUME NEW w \in Workers, WorkerMoves(w)
        PROVE  Counts' /\ inflight' \in Nat /\ sleeping' \in Nat
    <2>1. PICK label : pc' = [pc EXCEPT ![w] = label]
      BY <1>4 DEF WorkerMoves, SeesStop, GoesToSleep, Predicate, WakesUp, LoadGen, Enter,
                  SpuriousWakeup, Recheck, Leave, Goto
    <2>2. pc'[w] = label
      BY <2>1 DEF TypeOK, Threads
    <2>3. LET n == Cardinality(WorkersAt(Inside))
              m == Cardinality(WorkersAt(Inside)')
          IN  /\ n \in Nat /\ m \in Nat
              /\ pc[w] \in Inside /\ label \in Inside => m = n
              /\ pc[w] \notin Inside /\ label \notin Inside => m = n
              /\ pc[w] \notin Inside /\ label \in Inside => m = n + 1
              /\ pc[w] \in Inside /\ label \notin Inside => m = n - 1
      BY <2>1, OneMoves DEF WorkersAt, Inside, Draining
    <2>4. LET n == Cardinality(WorkersAt(Dozing))
              m == Cardinality(WorkersAt(Dozing)')
          IN  /\ n \in Nat /\ m \in Nat
              /\ pc[w] \in Dozing /\ label \in Dozing => m = n
              /\ pc[w] \notin Dozing /\ label \notin Dozing => m = n
              /\ pc[w] \notin Dozing /\ label \in Dozing => m = n + 1
              /\ pc[w] \in Dozing /\ label \notin Dozing => m = n - 1
      BY <2>1, OneMoves DEF WorkersAt, Dozing
    <2>5. ASSUME UNCHANGED <<inflight, sleeping>>,
                 pc[w] \in Inside <=> label \in Inside, pc[w] \in Dozing <=> label \in Dozing
          PROVE  Counts' /\ inflight' \in Nat /\ sleeping' \in Nat
      BY <2>3, <2>4, <2>5 DEF Counts
    <2>6. CASE GoesToSleep(w)
      <3>1. pc[w] = "spin" /\ label = "predicate" /\ sleeping' = sleeping + 1
            /\ inflight' = inflight
        BY <2>1, <2>2, <2>6 DEF GoesToSleep, Goto, fields, TypeOK, Threads
      <3> QED
        BY <2>3, <2>4, <3>1 DEF Counts, Inside, Draining, Dozing
    <2>7. CASE Predicate(w) /\ Awake(w)
      <3>1. pc[w] = "predicate" /\ label \in {"gone", "load"} /\ sleeping' = sleeping - 1
            /\ inflight' = inflight
        BY <2>1, <2>2, <2>7 DEF Predicate, Goto, fields, TypeOK, Threads
      <3> QED
        BY <2>3, <2>4, <3>1 DEF Counts, Inside, Draining, Dozing
    <2>8. CASE Predicate(w) /\ ~Awake(w)
      <3>1. pc[w] = "predicate" /\ label = "asleep" /\ UNCHANGED <<inflight, sleeping>>
        BY <2>1, <2>2, <2>8 DEF Predicate, Goto, fields, TypeOK, Threads
      <3> QED
        BY <2>5, <3>1 DEF Inside, Draining, Dozing
    <2>9. CASE Enter(w)
      <3>1. pc[w] = "enter" /\ label = "recheck" /\ inflight' = inflight + 1
            /\ sleeping' = sleeping
        BY <2>1, <2>2, <2>9 DEF Enter, Goto, sleep, TypeOK, Threads
      <3> QED
        BY <2>3, <2>4, <3>1 DEF Counts, Inside, Draining, Dozing
    <2>10. CASE Leave(w)
      <3>1. pc[w] = "leave" /\ label = "spin" /\ inflight' = inflight - 1
            /\ sleeping' = sleeping
        BY <2>1, <2>2, <2>10 DEF Leave, Goto, sleep, TypeOK, Threads
      <3> QED
        BY <2>3, <2>4, <3>1 DEF Counts, Inside, Draining, Dozing
    <2>11. CASE SeesStop(w) \/ WakesUp(w) \/ LoadGen(w) \/ SpuriousWakeup(w) \/ Recheck(w)
      <3>1. /\ UNCHANGED <<inflight, sleeping>>
            /\ \/ pc[w] \in {"spin", "load"} /\ label \in {"gone", "enter", "spin"}
               \/ pc[w] = "woken" /\ label = "predicate"
               \/ pc[w] = "asleep" /\ label = "woken"
               \/ pc[w] = "recheck" /\ label \in {"claim", "leave"}
        BY <2>2, <2>11 DEF SeesStop, WakesUp, LoadGen, WhereTo, SpuriousWakeup, Recheck, Goto,
                           fields, sleep, TypeOK, Threads
      <3> QED
        BY <2>5, <3>1 DEF Inside, Draining, Dozing
    <2> QED
      BY <1>4, <2>6, <2>7, <2>8, <2>9, <2>10, <2>11 DEF WorkerMoves
  <1>5. CASE UNCHANGED vars
    BY <1>1, <1>5 DEF vars, sleep
  <1> QED
    BY <1>2, <1>3, <1>4, <1>5, Steps

LEMMA TypeKept ==
  ASSUME IInv, [Next]_vars
  PROVE  TypeOK'
  <1> USE DEF IInv
  <1>1. inflight' \in Nat /\ sleeping' \in Nat
    BY CountsKept
  <1>2. pc' \in [Threads -> Labels]
    <2>1. CASE CallerMoves
      BY <2>1 DEF CallerMoves, Write, Help, Finish, Destroy, OpenJob, WakeWorkers, JoinStep,
                  AllDone, CloseJob, Joined, Goto, Woken, Stopped, TypeOK, Labels, Inside,
                  Draining, Threads
    <2>2. ASSUME NEW t \in Threads, Drain(t) PROVE pc' \in [Threads -> Labels]
      BY <2>2 DEF Drain, Claim, Bound, RunChunk, CountChunk, Goto, AfterDrain, TypeOK, Labels,
                  Inside, Draining
    <2>3. ASSUME NEW w \in Workers, WorkerMoves(w) PROVE pc' \in [Threads -> Labels]
      BY <2>3 DEF WorkerMoves, SeesStop, GoesToSleep, Predicate, WakesUp, LoadGen, WhereTo,
                  Enter, SpuriousWakeup, Recheck, Leave, Goto, TypeOK, Labels, Inside, Draining,
                  Threads
    <2> QED
      BY <2>1, <2>2, <2>3, Steps DEF TypeOK, vars
  <1> DEFINE RestOK ==
        /\ chunks \in 0 .. MaxChunks /\ next \in Nat /\ done \in Nat /\ gen \in Nat
        /\ async \in BOOLEAN /\ stop \in BOOLEAN /\ mutex \in BOOLEAN
        /\ call \in {"none", "forChunks", "start", "help", "finish"}
        /\ k \in [Threads -> Nat] /\ seen \in [Workers -> Nat]
  <1>3. RestOK'
    <2>1. CASE CallerMoves
      <3>1. ASSUME NEW n \in 0 .. MaxChunks, Write(n) PROVE RestOK'
        BY <3>1 DEF Write, sleep, TypeOK
      <3>2. CASE Help \/ Finish \/ Destroy \/ OpenJob \/ WakeWorkers
        <4>1. UNCHANGED <<chunks, next, done, async, mutex, k, seen>>
              /\ gen' \in {gen, gen + 1} /\ stop' \in {stop, TRUE}
              /\ call' \in {call, "none", "help", "finish"}
          BY <3>2 DEF Help, Finish, Destroy, OpenJob, WakeWorkers, fields, sleep
        <4>2. async' \in BOOLEAN /\ stop' \in BOOLEAN /\ mutex' \in BOOLEAN
          BY <4>1, Zenon DEF TypeOK
        <4>3. chunks' \in 0 .. MaxChunks /\ next' \in Nat /\ done' \in Nat /\ gen' \in Nat
          BY <4>1 DEF TypeOK
        <4>4. call' \in {"none", "forChunks", "start", "help", "finish"}
          BY <4>1, Zenon DEF TypeOK
        <4>5. k' \in [Threads -> Nat] /\ seen' \in [Workers -> Nat]
          BY <4>1, Zenon DEF TypeOK
        <4> QED
          BY <4>2, <4>3, <4>4, <4>5
      <3>3. CASE JoinStep
        <4>1. UNCHANGED <<chunks, next, done, stop, mutex, k, seen>>
              /\ gen' \in {gen, gen + 1} /\ async' \in {async, FALSE}
              /\ call' \in {call, "none"}
          BY <3>3 DEF JoinStep, AllDone, CloseJob, Joined, fields, sleep
        <4>2. async' \in BOOLEAN /\ stop' \in BOOLEAN /\ mutex' \in BOOLEAN
          BY <4>1, Zenon DEF TypeOK
        <4>3. chunks' \in 0 .. MaxChunks /\ next' \in Nat /\ done' \in Nat /\ gen' \in Nat
          BY <4>1 DEF TypeOK
        <4>4. call' \in {"none", "forChunks", "start", "help", "finish"}
          BY <4>1, Zenon DEF TypeOK
        <4>5. k' \in [Threads -> Nat] /\ seen' \in [Workers -> Nat]
          BY <4>1, Zenon DEF TypeOK
        <4> QED
          BY <4>2, <4>3, <4>4, <4>5
      <3> QED
        BY <2>1, <3>1, <3>2, <3>3 DEF CallerMoves
    <2>2. ASSUME NEW t \in Threads, Drain(t) PROVE RestOK'
      BY <2>2 DEF Drain, Claim, Bound, RunChunk, CountChunk, Counted, fields, sleep, TypeOK
    <2>3. ASSUME NEW w \in Workers, WorkerMoves(w) PROVE RestOK'
      BY <2>3 DEF WorkerMoves, SeesStop, GoesToSleep, Predicate, WakesUp, LoadGen,
                  Enter, SpuriousWakeup, Recheck, Leave, fields, sleep, TypeOK
    <2> QED
      BY <2>1, <2>2, <2>3, Steps DEF TypeOK, vars
  <1> QED
    BY <1>1, <1>2, <1>3 DEF TypeOK

\* No step of a worker outside drain() touches the job or the caller.
LEMMA WorkerMovesLeave ==
  ASSUME TypeOK, NEW w \in Workers, WorkerMoves(w)
  PROVE  /\ UNCHANGED <<chunks, next, gen, async, stop, call, k>>
         /\ \A t \in Threads : t # w => pc'[t] = pc[t]
         /\ pc'[Caller] = pc[Caller]
  BY PoolAssumption
     DEF WorkerMoves, SeesStop, GoesToSleep, Predicate, WakesUp, LoadGen, Enter,
         SpuriousWakeup, Recheck, Leave, Goto, fields, sleep, TypeOK, Threads

\* No step of the caller outside drain() moves a worker, but to wake it.
LEMMA CallerMovesLeave ==
  ASSUME TypeOK, CallerMoves
  PROVE  /\ UNCHANGED <<inflight, sleeping, mutex, k, seen>>
         /\ \A w \in Workers :
              pc'[w] = pc[w] \/ (pc[w] = "asleep" /\ pc'[w] = "woken")
  BY PoolAssumption
     DEF CallerMoves, Write, Help, Finish, Destroy, OpenJob, WakeWorkers, JoinStep,
         AllDone, CloseJob, Joined, Goto, Woken, Stopped, TypeOK, Threads, fields, sleep

\* A step of drain() leaves the job open, and the other threads alone.
LEMMA DrainLeaves ==
  ASSUME TypeOK, NEW t \in Threads, Drain(t)
  PROVE  /\ UNCHANGED <<chunks, inflight, sleeping, gen, async, stop, mutex, seen>>
         /\ next' \in {next, next + 1}
         /\ pc[t] \in Draining
         /\ \A u \in Threads : u # t => pc'[u] = pc[u] /\ k'[u] = k[u]
         /\ t # Caller => call' = call
         /\ t # Caller => pc'[t] \in Draining \cup {"leave"}
  BY DEF Drain, Claim, Bound, RunChunk, CountChunk, Goto, AfterDrain, fields, sleep, TypeOK,
         Draining

LEMMA CallerKept ==
  ASSUME IInv, [Next]_vars
  PROVE  CallerInv'
  <1> USE DEF IInv
  <1>1. Caller \in Threads /\ Caller \notin Workers
    BY PoolAssumption DEF Threads
  <1>2. chunks \in Nat /\ next \in Nat /\ gen \in Nat
    BY PoolAssumption DEF TypeOK
  <1>3. ASSUME NEW n \in 0 .. MaxChunks, Write(n) PROVE CallerInv'
    <2>1. ~JobHeld /\ ~Open /\ UNCHANGED gen /\ n \in Nat
      BY <1>3, PoolAssumption DEF Write, Parallel, CallerInv, JobHeld
    <2>2. CASE call' = "forChunks"
      <3>1. pc'[Caller] = "open" /\ Workers # {} /\ chunks' > 0 /\ ~async'
        BY <1>1, <1>3, <2>1, <2>2 DEF Write, Parallel, Goto, TypeOK, CallerInv
      <3> QED
        BY <2>1, <2>2, <3>1 DEF CallerInv, JobHeld, Shareable, Open, Draining
    <2>3. CASE call' = "start"
      <3>1. pc'[Caller] = "open" /\ Workers # {} /\ chunks' > 0 /\ async'
        BY <1>1, <1>3, <2>3 DEF Write, Parallel, Goto, TypeOK, CallerInv
      <3> QED
        BY <2>1, <2>3, <3>1 DEF CallerInv, JobHeld, Shareable, Open, Draining
    <2>4. CASE call' \notin {"forChunks", "start"}
      <3>1. pc'[Caller] = "idle" /\ call' = "none" /\ async' /\ (Workers = {} \/ chunks' = 0)
        BY <1>1, <1>3, <2>4 DEF Write, Parallel, CallerInv
      <3> QED
        BY <2>1, <3>1 DEF CallerInv, JobHeld, Shareable, Open, Draining
    <2> QED
      BY <2>2, <2>3, <2>4
  <1>4. CASE Help \/ Finish
    <2>1. pc'[Caller] = "claim" /\ call' \in {"help", "finish"} /\ async /\ pc[Caller] = "idle"
          /\ UNCHANGED <<async, chunks, gen, next>>
      BY <1>1, <1>4 DEF Help, Finish, Goto, TypeOK, fields
    <2> QED
      BY <2>1 DEF CallerInv, JobHeld, Shareable, Open, Draining
  <1>5. CASE Destroy
    <2>1. pc'[Caller] = "gone" /\ ~async /\ pc[Caller] = "idle"
          /\ UNCHANGED <<async, chunks, gen, next, call>>
      BY <1>1, <1>5 DEF Destroy, Stopped, Woken, TypeOK, fields
    <2> QED
      BY <2>1 DEF CallerInv, JobHeld, Shareable, Open, Draining
  <1>6. CASE OpenJob
    <2>1. pc'[Caller] = "wake" /\ pc[Caller] = "open" /\ gen' = gen + 1
          /\ UNCHANGED <<async, chunks, next, call>>
      BY <1>1, <1>6 DEF OpenJob, Goto, TypeOK, fields
    <2>2. ~Open /\ Open'
      BY <1>2, <2>1, Parity DEF CallerInv, Open
    <2> QED
      BY <2>1, <2>2 DEF CallerInv, JobHeld, Shareable, Draining
  <1>7. CASE WakeWorkers
    <2>1. pc[Caller] = "wake" /\ UNCHANGED <<async, chunks, gen, next>>
          /\ IF call = "start" THEN pc'[Caller] = "idle" /\ call' = "none"
                              ELSE pc'[Caller] = "claim" /\ call' = call
      BY <1>1, <1>7 DEF WakeWorkers, Woken, TypeOK, fields
    <2> QED
      BY <2>1 DEF CallerInv, JobHeld, Shareable, Open, Draining
  <1>8. CASE AllDone
    <2>1. pc[Caller] = "wait" /\ UNCHANGED <<chunks, gen, next>>
          /\ IF Shareable THEN pc'[Caller] = "close" /\ UNCHANGED <<call, async>>
                          ELSE pc'[Caller] = "idle" /\ call' = "none" /\ ~async'
      BY <1>1, <1>8 DEF AllDone, Goto, TypeOK, fields, Shareable
    <2> QED
      BY <2>1 DEF CallerInv, JobHeld, Shareable, Open, Draining
  <1>9. CASE CloseJob
    <2>1. pc'[Caller] = "out" /\ pc[Caller] = "close" /\ gen' = gen + 1
          /\ UNCHANGED <<async, chunks, next, call>>
      BY <1>1, <1>9 DEF CloseJob, Goto, TypeOK, fields
    <2>2. Open /\ ~Open'
      BY <1>2, <2>1, Parity DEF CallerInv, Open, JobHeld
    <2> QED
      BY <2>1, <2>2 DEF CallerInv, JobHeld, Shareable, Draining
  <1>10. CASE Joined
    <2>1. pc[Caller] = "out" /\ pc'[Caller] = "idle" /\ call' = "none" /\ ~async'
          /\ UNCHANGED <<chunks, gen, next>>
      BY <1>1, <1>10 DEF Joined, Goto, TypeOK, fields
    <2> QED
      BY <2>1 DEF CallerInv, JobHeld, Shareable, Open, Draining
  <1>11. CASE Drain(Caller)
    <2>1. UNCHANGED <<chunks, gen, async>> /\ next' \in {next, next + 1} /\ pc[Caller] \in Draining
      BY <1>1, <1>11, DrainLeaves
    <2>2. CASE pc[Caller] = "bound" /\ ~(k[Caller] < chunks)
      <3>1. next >= chunks /\ next' = next
        <4>1. k[Caller] < next /\ k[Caller] \in Nat
          BY <1>1, <2>2 DEF ClaimedOnce, TypeOK
        <4> QED
          BY <1>2, <1>11, <2>2, <4>1
             DEF Drain, Claim, Bound, RunChunk, CountChunk, fields
      <3>2. IF call = "help" THEN pc'[Caller] = "idle" /\ call' = "none"
                             ELSE pc'[Caller] = "wait" /\ call' = call
        BY <1>1, <1>11, <2>2
           DEF Drain, Claim, Bound, RunChunk, CountChunk, Goto, AfterDrain, TypeOK
      <3> QED
        BY <2>1, <2>2, <3>1, <3>2 DEF CallerInv, JobHeld, Shareable, Open, Draining
    <2>3. CASE pc[Caller] = "count" /\ call = "help"
      <3>1. pc'[Caller] = "idle" /\ call' = "none"
        BY <1>1, <1>11, <2>3
           DEF Drain, Claim, Bound, RunChunk, CountChunk, Goto, TypeOK
      <3> QED
        BY <2>1, <2>3, <3>1 DEF CallerInv, JobHeld, Shareable, Open, Draining
    <2>4. CASE ~(pc[Caller] = "bound" /\ ~(k[Caller] < chunks))
               /\ ~(pc[Caller] = "count" /\ call = "help")
      <3>1. pc'[Caller] \in Draining /\ call' = call
        BY <1>1, <1>11, <2>4
           DEF Drain, Claim, Bound, RunChunk, CountChunk, Goto, TypeOK, Draining
      <3> QED
        BY <2>1, <3>1 DEF CallerInv, JobHeld, Shareable, Open, Draining
    <2> QED
      BY <2>2, <2>3, <2>4
  <1>12. ASSUME NEW w \in Workers, Drain(w) PROVE CallerInv'
    <2>1. w \in Threads /\ w # Caller
      BY <1>1 DEF Threads
    <2>2. UNCHANGED <<chunks, gen, async, call>> /\ next' \in {next, next + 1}
          /\ pc'[Caller] = pc[Caller]
      BY <1>1, <1>12, <2>1, DrainLeaves
    <2> QED
      BY <1>2, <2>2 DEF CallerInv, JobHeld, Shareable, Open, Draining
  <1>13. ASSUME NEW w \in Workers, WorkerMoves(w) PROVE CallerInv'
    BY <1>13, WorkerMovesLeave DEF CallerInv, JobHeld, Shareable, Open
  <1>14. CASE UNCHANGED vars
    BY <1>14 DEF vars, CallerInv, JobHeld, Shareable, Open
  <1> QED
    BY <1>3, <1>4, <1>5, <1>6, <1>7, <1>8, <1>9, <1>10, <1>11, <1>12, <1>13, <1>14, Steps
       DEF CallerMoves, JoinStep, Threads

\* While the job is open, or being left, its fields and its end stand still.
LEMMA WorkersKept ==
  ASSUME IInv, [Next]_vars
  PROVE  WorkerInv' /\ ClaimedOnce'
  <1> USE DEF IInv
  <1>1. Caller \in Threads /\ Caller \notin Workers /\ \A w \in Workers : w \in Threads
    BY PoolAssumption DEF Threads
  <1>2. chunks \in Nat /\ next \in Nat /\ gen \in Nat
    BY PoolAssumption DEF TypeOK
  <1>3. \A t \in Threads : k[t] \in Nat
    BY DEF TypeOK
  <1>4. CASE CallerMoves
    <2>1. \A w \in Workers : /\ pc'[w] = pc[w] \/ (pc[w] = "asleep" /\ pc'[w] = "woken")
                            /\ seen'[w] = seen[w]
      BY <1>4, CallerMovesLeave
    <2>2. (Open \/ pc[Caller] = "out") /\ (\E w \in Workers : pc[w] \in Draining)
            => Open' \/ pc'[Caller] = "out"
      <3>1. CASE \E n \in 0 .. MaxChunks : Write(n)
        BY <3>1 DEF Write, Open
      <3>2. CASE Help \/ Finish \/ Destroy
        BY <1>1, <3>2 DEF Help, Finish, Destroy, CallerInv, Open, fields
      <3>3. CASE OpenJob \/ WakeWorkers
        BY <1>1, <1>2, <3>3, Parity DEF OpenJob, WakeWorkers, CallerInv, Open, fields
      <3>4. CASE AllDone
        BY <1>1, <3>4 DEF AllDone, CallerInv, Open, fields
      <3>5. CASE CloseJob
        BY <1>1, <3>5 DEF CloseJob, Goto, TypeOK
      <3>6. CASE Joined
        <4>1. inflight = 0
          BY <3>6 DEF Joined, NobodyInside
        <4>2. \A w \in Workers : pc[w] \notin Inside
          BY <4>1, NobodyThere DEF Counts
        <4> QED
          BY <4>2 DEF Inside
      <3> QED
        BY <1>4, <3>1, <3>2, <3>3, <3>4, <3>5, <3>6 DEF CallerMoves, JoinStep
    <2>3. WorkerInv'
      BY <2>1, <2>2 DEF WorkerInv, AtRest, Dozing, Inside, Draining
    <2>4. pc'[Caller] # "bound"
      <3>1. CASE \E n \in 0 .. MaxChunks : Write(n)
        BY <1>1, <3>1 DEF Write, Goto, TypeOK
      <3>2. CASE Help \/ Finish \/ OpenJob
        BY <1>1, <3>2 DEF Help, Finish, OpenJob, Goto, TypeOK
      <3>3. CASE Destroy
        BY <1>1, <3>3 DEF Destroy, Stopped, Woken, TypeOK
      <3>4. CASE WakeWorkers
        BY <1>1, <3>4 DEF WakeWorkers, Woken, TypeOK
      <3>5. CASE JoinStep
        BY <1>1, <3>5 DEF JoinStep, AllDone, CloseJob, Joined, Goto, TypeOK
      <3> QED
        BY <1>4, <3>1, <3>2, <3>3, <3>4, <3>5 DEF CallerMoves
    <2>5. ClaimedOnce'
      <3>1. CASE \E n \in 0 .. MaxChunks : Write(n)
        <4>1. ~Open /\ pc[Caller] = "idle"
          BY <3>1 DEF Write, Parallel, CallerInv, JobHeld
        <4>2. \A w \in Workers : pc[w] # "bound"
          BY <4>1 DEF WorkerInv, Draining
        <4> QED
          BY <2>1, <2>4, <4>2 DEF ClaimedOnce, Threads
      <3>2. CASE Help \/ Finish \/ Destroy \/ OpenJob \/ WakeWorkers \/ JoinStep
        <4>1. next' = next /\ k' = k
          BY <3>2 DEF Help, Finish, Destroy, OpenJob, WakeWorkers, JoinStep, AllDone, CloseJob,
                      Joined, fields
        <4> QED
          BY <2>1, <2>4, <4>1 DEF ClaimedOnce, Threads
      <3> QED
        BY <1>4, <3>1, <3>2 DEF CallerMoves
    <2> QED
      BY <2>3, <2>5
  <1>5. ASSUME NEW t \in Threads, Drain(t) PROVE WorkerInv' /\ ClaimedOnce'
    <2>1. /\ UNCHANGED <<gen, seen>> /\ next' \in {next, next + 1} /\ pc[t] \in Draining
          /\ \A u \in Threads : u # t => pc'[u] = pc[u] /\ k'[u] = k[u]
          /\ t # Caller => pc'[t] \in Draining \cup {"leave"}
      BY <1>5, DrainLeaves
    <2>2. pc[Caller] = "out" => pc'[Caller] = "out"
      BY <1>1, <2>1 DEF Draining
    <2>3. WorkerInv'
      <3>1. \A w \in Workers : w # t => pc'[w] = pc[w]
        BY <1>1, <2>1
      <3>2. \A w \in Workers : w = t => pc'[w] \in Draining \cup {"leave"} /\ pc[w] \in Draining
        BY <1>1, <2>1
      <3> QED
        BY <2>1, <2>2, <3>1, <3>2 DEF WorkerInv, AtRest, Dozing, Inside, Draining, Open
    <2>4. pc'[t] = "bound" => k'[t] < next'
      BY <1>2, <1>5
         DEF Drain, Claim, Bound, RunChunk, CountChunk, Goto, AfterDrain, TypeOK
    <2> QED
      BY <1>2, <1>3, <2>1, <2>3, <2>4 DEF ClaimedOnce
  <1>6. ASSUME NEW w \in Workers, WorkerMoves(w) PROVE WorkerInv' /\ ClaimedOnce'
    <2>1. UNCHANGED <<next, gen, k>> /\ pc'[Caller] = pc[Caller]
          /\ \A t \in Threads : t # w => pc'[t] = pc[t]
      BY <1>6, WorkerMovesLeave
    <2>2. pc'[w] \in (AtRest \cup Dozing \cup Inside) \ {"bound"}
      BY <1>1, <1>6
         DEF WorkerMoves, SeesStop, GoesToSleep, Predicate, WakesUp, LoadGen, WhereTo, Enter,
             SpuriousWakeup, Recheck, Leave, Goto, TypeOK, AtRest, Dozing, Inside, Draining
    <2>3. pc'[w] \in {"enter", "recheck"} => seen'[w] % 2 = 1
      BY <1>1, <1>6
         DEF WorkerMoves, SeesStop, GoesToSleep, Predicate, WakesUp, LoadGen, WhereTo, Enter,
             SpuriousWakeup, Recheck, Leave, Goto, TypeOK, WorkerInv, Open
    <2>4. pc'[w] \in Draining => Open
      BY <1>1, <1>6
         DEF WorkerMoves, SeesStop, GoesToSleep, Predicate, WakesUp, LoadGen, WhereTo, Enter,
             SpuriousWakeup, Recheck, StillOpen, Leave, Goto, TypeOK, WorkerInv, Open, Draining
    <2>5. \A v \in Workers : v # w => seen'[v] = seen[v]
      BY <1>6 DEF WorkerMoves, SeesStop, GoesToSleep, Predicate, WakesUp, LoadGen, Enter,
                  SpuriousWakeup, Recheck, Leave, TypeOK
    <2>6. WorkerInv'
      BY <1>1, <2>1, <2>2, <2>3, <2>4, <2>5 DEF WorkerInv, Open
    <2> QED
      BY <2>1, <2>2, <2>6 DEF ClaimedOnce
  <1>7. CASE UNCHANGED vars
    BY <1>7 DEF vars, WorkerInv, ClaimedOnce, Open
  <1> QED
    BY <1>4, <1>5, <1>6, <1>7, Steps

\* The caller wakes whoever is asleep when it opens a job: sleeping_ tells it
\* that somebody is.
LEMMA SleepersKept ==
  ASSUME IInv, [Next]_vars
  PROVE  NobodySleepsThrough'
  <1> USE DEF IInv
  <1>1. Caller \in Threads /\ Caller \notin Workers /\ \A w \in Workers : w \in Threads
    BY PoolAssumption DEF Threads
  <1>2. gen \in Nat
    BY DEF TypeOK
  <1>3. CASE CallerMoves
    <2>1. \A w \in Workers : /\ pc'[w] = pc[w] \/ (pc[w] = "asleep" /\ pc'[w] = "woken")
                            /\ seen'[w] = seen[w]
      BY <1>3, CallerMovesLeave
    <2>2. CASE WakeWorkers
      <3>1. \A w \in Workers : pc'[w] # "asleep"
        <4>1. CASE sleeping # 0
          BY <1>1, <2>2, <4>1 DEF WakeWorkers, Woken, TypeOK
        <4>2. CASE sleeping = 0
          <5>1. \A w \in Workers : pc[w] \notin Dozing
            BY <4>2, NobodyThere DEF Counts
          <5> QED
            BY <2>1, <5>1 DEF Dozing
        <4> QED
          BY <4>1, <4>2
      <3> QED
        BY <3>1 DEF NobodySleepsThrough
    <2>3. CASE OpenJob
      BY <1>1, <2>3 DEF OpenJob, Goto, TypeOK, NobodySleepsThrough
    <2>4. CASE CloseJob
      <3>1. Open /\ gen' = gen + 1
        BY <2>4 DEF CloseJob, CallerInv, JobHeld
      <3> QED
        BY <1>2, <3>1, Parity DEF NobodySleepsThrough, Open
    <2>5. CASE (\E n \in 0 .. MaxChunks : Write(n)) \/ Help \/ Finish \/ Destroy \/ AllDone \/ Joined
      <3>1. gen' = gen /\ pc[Caller] # "wake"
        BY <2>5 DEF Write, Help, Finish, Destroy, AllDone, Joined, fields
      <3> QED
        BY <2>1, <3>1 DEF NobodySleepsThrough, Open
    <2> QED
      BY <1>3, <2>2, <2>3, <2>4, <2>5 DEF CallerMoves, JoinStep
  <1>4. ASSUME NEW t \in Threads, Drain(t) PROVE NobodySleepsThrough'
    <2>1. /\ UNCHANGED <<gen, seen>> /\ pc[t] \in Draining
          /\ \A u \in Threads : u # t => pc'[u] = pc[u]
          /\ t # Caller => pc'[t] \in Draining \cup {"leave"}
      BY <1>4, DrainLeaves
    <2>2. pc[Caller] = "wake" => pc'[Caller] = "wake"
      BY <1>1, <2>1 DEF Draining
    <2>3. \A w \in Workers : pc'[w] = "asleep" => pc[w] = "asleep"
      BY <1>1, <2>1 DEF Draining
    <2> QED
      BY <2>1, <2>2, <2>3 DEF NobodySleepsThrough, Open
  <1>5. ASSUME NEW w \in Workers, WorkerMoves(w) PROVE NobodySleepsThrough'
    <2>1. gen' = gen /\ pc'[Caller] = pc[Caller] /\ \A t \in Threads : t # w => pc'[t] = pc[t]
      BY <1>5, WorkerMovesLeave
    <2>2. pc'[w] = "asleep" => seen'[w] = gen
      BY <1>1, <1>5
         DEF WorkerMoves, SeesStop, GoesToSleep, Predicate, Awake, WakesUp, LoadGen, WhereTo, Enter,
             SpuriousWakeup, Recheck, Leave, Goto, TypeOK
    <2>3. \A v \in Workers : v # w => seen'[v] = seen[v]
      BY <1>5 DEF WorkerMoves, SeesStop, GoesToSleep, Predicate, WakesUp, LoadGen, Enter,
                  SpuriousWakeup, Recheck, Leave, TypeOK
    <2> QED
      BY <1>1, <2>1, <2>2, <2>3 DEF NobodySleepsThrough, Open
  <1>6. CASE UNCHANGED vars
    BY <1>6 DEF vars, NobodySleepsThrough, Open
  <1> QED
    BY <1>3, <1>4, <1>5, <1>6, Steps

LEMMA Invariant == Spec => []IInv
  <1>1. ASSUME IInv, [Next]_vars PROVE IInv'
    BY <1>1, TypeKept, CallerKept, WorkersKept, CountsKept, SleepersKept DEF IInv
  <1> QED
    BY <1>1, InitInvariant, PTL DEF Spec

-----------------------------------------------------------------------------
(* What the pool keeps.                                                    *)

\* SimPool's counters never run below zero: inflight_ and sleeping_ are
\* unsigned, and each is taken from only by a worker it counts.
THEOREM TypeCorrect == Spec => []TypeOK
  BY Invariant, PTL DEF IInv

\* SimPool::open's wake-up reaches every worker asleep: one that looked before
\* gen_ was odd holds the mutex until it sleeps, and sleeping_ counts it.
THEOREM NobodySleeps == Spec => []NobodySleepsThrough
  BY Invariant, PTL DEF IInv

\* SimPool::run and open write job_, ctx_, chunks_ and next_ only while no
\* worker is between entering a job and leaving it.
THEOREM FieldsKept == Spec => FieldsAreTheCallers
  <1> DEFINE Quiet == chunks' # chunks \/ (next' = 0 /\ next # 0) =>
                        \A w \in Workers : pc[w] \notin Draining
  <1>1. ASSUME IInv, [Next]_vars PROVE Quiet
    <2> USE DEF IInv
    <2>1. CASE \E n \in 0 .. MaxChunks : Write(n)
      <3>1. ~Open /\ pc[Caller] = "idle"
        BY <1>1, <2>1 DEF Write, Parallel, CallerInv, JobHeld
      <3> QED
        BY <1>1, <3>1 DEF WorkerInv
    <2>2. CASE Help \/ Finish \/ Destroy \/ OpenJob \/ WakeWorkers \/ JoinStep
      BY <2>2 DEF Help, Finish, Destroy, OpenJob, WakeWorkers, JoinStep, AllDone, CloseJob,
                  Joined, fields
    <2>3. ASSUME NEW t \in Threads, Drain(t) PROVE Quiet
      BY <1>1, <2>3, DrainLeaves DEF TypeOK
    <2>4. ASSUME NEW w \in Workers, WorkerMoves(w) PROVE Quiet
      BY <1>1, <2>4, WorkerMovesLeave
    <2>5. CASE UNCHANGED vars
      BY <2>5 DEF vars
    <2> QED
      BY <1>1, <2>1, <2>2, <2>3, <2>4, <2>5, Steps DEF CallerMoves
  <1>2. IInv /\ [Next]_vars => [Quiet]_vars
    BY <1>1
  <1> QED
    BY <1>2, Invariant, PTL DEF Spec, FieldsAreTheCallers

-----------------------------------------------------------------------------
(* The pool is a ForkJoin.                                                 *)

\* What ForkJoin sees of the pool.
Todo == next .. chunks - 1
AtNow(t) == IF pc[t] \in {"bound", "run"} /\ k[t] < chunks THEN k[t] ELSE MaxChunks
At == [t \in Threads |-> AtNow(t)]

LEMMA SeenStart == F!Init <=> ~JobHeld /\ Todo = {} /\ At = [t \in Threads |-> MaxChunks]
  BY DEF F!Init, JobHeld, Todo, At, AtNow

LEMMA SeenNothing == JobHeld' = JobHeld /\ Todo' = Todo /\ At' = At => UNCHANGED F!vars
  BY DEF F!vars, JobHeld, Todo, At, AtNow

LEMMA SeenFork ==
  ASSUME ~JobHeld, JobHeld', Todo' \subseteq 0 .. MaxChunks - 1, At' = At
  PROVE  F!Next
  BY DEF F!Next, F!Fork, JobHeld, Todo, At, AtNow

LEMMA SeenBegin ==
  ASSUME NEW t \in Threads, NEW c \in 0 .. MaxChunks - 1,
         JobHeld, JobHeld', At[t] = MaxChunks, c \in Todo,
         Todo' = Todo \ {c}, At' = [At EXCEPT ![t] = c]
  PROVE  F!Next
  <1>1. F!Begin(t, c)
    BY DEF F!Begin, JobHeld, Todo, At, AtNow
  <1> QED
    BY <1>1 DEF F!Next

LEMMA SeenEnd ==
  ASSUME NEW t \in Threads, JobHeld, JobHeld', At[t] # MaxChunks,
         Todo' = Todo, At' = [At EXCEPT ![t] = MaxChunks]
  PROVE  F!Next
  <1>1. F!End(t)
    BY DEF F!End, JobHeld, Todo, At, AtNow
  <1> QED
    BY <1>1 DEF F!Next

LEMMA SeenJoin ==
  ASSUME JobHeld, ~JobHeld', Todo = {}, Todo' = Todo, At' = At,
         \A t \in Threads : At[t] = MaxChunks
  PROVE  F!Next
  <1>1. F!Join
    BY DEF F!Join, JobHeld, Todo, At, AtNow
  <1> QED
    BY <1>1 DEF F!Next

\* One thread's step is one change of At.
LEMMA OneAt ==
  ASSUME NEW t \in Threads, \A u \in Threads : u # t => AtNow(u)' = AtNow(u)
  PROVE  /\ AtNow(t)' = AtNow(t) => At' = At
         /\ \A c : AtNow(t)' = c => At' = [At EXCEPT ![t] = c]
  BY DEF At

LEMMA DrainSeen ==
  ASSUME IInv, NEW t \in Threads, Drain(t)
  PROVE  [F!Next]_F!vars
  <1> USE DEF IInv
  <1>1. chunks \in Nat /\ next \in Nat /\ chunks <= MaxChunks /\ MaxChunks \in Nat
        /\ k[t] \in Nat
    BY PoolAssumption DEF TypeOK
  <1>2. /\ UNCHANGED <<chunks, async, gen>> /\ pc[t] \in Draining
        /\ \A u \in Threads : u # t => pc'[u] = pc[u] /\ k'[u] = k[u]
        /\ t # Caller => call' = call
    BY DrainLeaves
  <1>3. JobHeld
    <2>1. CASE t = Caller
      BY <1>2, <2>1 DEF CallerInv, JobHeld
    <2>2. CASE t # Caller
      BY <1>2, <2>2 DEF WorkerInv, CallerInv, JobHeld, Threads
    <2> QED
      BY <2>1, <2>2
  <1>4. JobHeld'
    <2>1. call' = call \/ call = "help"
      BY DEF Drain, Claim, Bound, RunChunk, CountChunk
    <2> QED
      BY <1>2, <1>3, <2>1 DEF CallerInv, JobHeld
  <1>5. \A u \in Threads : u # t => AtNow(u)' = AtNow(u)
    BY <1>2 DEF AtNow
  <1>6. At[t] = AtNow(t)
    BY DEF At
  <1>7. CASE Claim(t) /\ next < chunks
    <2>1. pc'[t] = "bound" /\ k'[t] = next /\ next' = next + 1 /\ pc[t] = "claim"
      BY <1>7 DEF Claim, Goto, TypeOK
    <2>2. AtNow(t) = MaxChunks /\ AtNow(t)' = next
      BY <1>2, <1>7, <2>1 DEF AtNow
    <2>3. At' = [At EXCEPT ![t] = next]
      BY <1>5, <2>2, OneAt
    <2>4. Todo' = Todo \ {next} /\ next \in Todo /\ next \in 0 .. MaxChunks - 1
      BY <1>1, <1>2, <1>7, <2>1 DEF Todo
    <2> QED
      BY <1>3, <1>4, <1>6, <2>2, <2>3, <2>4, SeenBegin
  <1>8. CASE RunChunk(t) /\ k[t] < chunks
    <2>1. pc'[t] = "count" /\ pc[t] = "run" /\ next' = next
      BY <1>8 DEF RunChunk, Goto, TypeOK, fields
    <2>2. AtNow(t) # MaxChunks /\ AtNow(t)' = MaxChunks
      BY <1>1, <1>8, <2>1 DEF AtNow
    <2>3. At' = [At EXCEPT ![t] = MaxChunks]
      BY <1>5, <2>2, OneAt
    <2>4. Todo' = Todo
      BY <1>2, <2>1 DEF Todo
    <2> QED
      BY <1>3, <1>4, <1>6, <2>2, <2>3, <2>4, SeenEnd
  <1>9. CASE ~(Claim(t) /\ next < chunks) /\ ~(RunChunk(t) /\ k[t] < chunks)
    <2>1. AtNow(t)' = AtNow(t)
      <3>1. CASE Claim(t)
        <4>1. pc'[t] = "bound" /\ k'[t] = next /\ pc[t] = "claim"
          BY <3>1 DEF Claim, Goto, TypeOK
        <4> QED
          BY <1>1, <1>2, <1>9, <3>1, <4>1 DEF AtNow
      <3>2. CASE Bound(t) /\ k[t] < chunks
        <4>1. pc'[t] = "run" /\ k'[t] = k[t] /\ pc[t] = "bound"
          BY <3>2 DEF Bound, Goto, TypeOK
        <4> QED
          BY <1>2, <3>2, <4>1 DEF AtNow
      <3>3. CASE Bound(t) /\ ~(k[t] < chunks)
        <4>1. pc'[t] \in {"leave", "idle", "wait"} /\ pc[t] = "bound"
          BY <3>3 DEF Bound, Goto, AfterDrain, TypeOK
        <4> QED
          BY <1>2, <3>3, <4>1 DEF AtNow
      <3>4. CASE RunChunk(t)
        <4>1. pc'[t] = "count" /\ pc[t] = "run"
          BY <3>4 DEF RunChunk, Goto, TypeOK
        <4> QED
          BY <1>2, <1>9, <3>4, <4>1 DEF AtNow
      <3>5. CASE CountChunk(t)
        <4>1. pc'[t] \in {"idle", "claim"} /\ pc[t] = "count"
          BY <3>5 DEF CountChunk, Goto, TypeOK
        <4> QED
          BY <4>1 DEF AtNow
      <3> QED
        BY <3>1, <3>2, <3>3, <3>4, <3>5 DEF Drain
    <2>2. Todo' = Todo
      <3>1. CASE Claim(t)
        <4>1. ~(next < chunks) /\ next' = next + 1
          BY <1>9, <3>1 DEF Claim
        <4>2. Todo = {} /\ Todo' = {}
          BY <1>1, <1>2, <4>1 DEF Todo
        <4> QED
          BY <4>2
      <3>2. CASE Bound(t) \/ RunChunk(t) \/ CountChunk(t)
        BY <3>2 DEF Bound, RunChunk, CountChunk, Todo, fields
      <3> QED
        BY <3>1, <3>2 DEF Drain
    <2>3. At' = At
      BY <1>5, <2>1, OneAt
    <2>4. JobHeld' = JobHeld
      BY <1>3, <1>4, Zenon DEF JobHeld
    <2> QED
      BY <2>2, <2>3, <2>4, SeenNothing
  <1> QED
    BY <1>7, <1>8, <1>9

LEMMA CallerMovesSeen ==
  ASSUME IInv, CallerMoves
  PROVE  [F!Next]_F!vars
  <1> USE DEF IInv
  <1>1. /\ chunks \in Nat /\ next \in Nat /\ MaxChunks \in Nat
        /\ Caller \in Threads /\ Caller \notin Workers
    BY PoolAssumption DEF TypeOK, Threads
  <1>2. k' = k /\ \A w \in Workers : pc'[w] = pc[w] \/ (pc[w] = "asleep" /\ pc'[w] = "woken")
    BY CallerMovesLeave
  <1>3. pc[Caller] \notin Draining /\ pc'[Caller] \notin {"bound", "run"}
    <2>1. CASE \E n \in 0 .. MaxChunks : Write(n)
      BY <1>1, <2>1 DEF Write, Goto, TypeOK, Draining
    <2>2. CASE Help \/ Finish \/ OpenJob
      BY <1>1, <2>2 DEF Help, Finish, OpenJob, Goto, TypeOK, Draining
    <2>3. CASE Destroy
      BY <1>1, <2>3 DEF Destroy, Stopped, Woken, TypeOK, Draining
    <2>4. CASE WakeWorkers
      BY <1>1, <2>4 DEF WakeWorkers, Woken, TypeOK, Draining
    <2>5. CASE JoinStep
      BY <1>1, <2>5 DEF JoinStep, AllDone, CloseJob, Joined, Goto, TypeOK, Draining
    <2> QED
      BY <2>1, <2>2, <2>3, <2>4, <2>5 DEF CallerMoves
  <1>4. ASSUME \A w \in Workers : pc[w] \notin Draining
        PROVE  At' = At /\ \A t \in Threads : At[t] = MaxChunks
    <2>1. \A t \in Threads : pc[t] \notin {"bound", "run"} /\ pc'[t] \notin {"bound", "run"}
      BY <1>2, <1>3, <1>4 DEF Threads, Draining
    <2>2. \A t \in Threads : AtNow(t) = MaxChunks /\ AtNow(t)' = MaxChunks
      BY <2>1 DEF AtNow
    <2> QED
      BY <2>2 DEF At
  <1>5. CASE \E n \in 0 .. MaxChunks : Write(n)
    <2>1. PICK n \in 0 .. MaxChunks : Write(n)
      BY <1>5
    <2>2. ~JobHeld /\ ~Open /\ pc[Caller] = "idle"
      BY <2>1 DEF Write, Parallel, CallerInv, JobHeld
    <2>3. JobHeld'
      BY <2>1 DEF Write, JobHeld
    <2>4. At' = At
      BY <1>4, <2>2 DEF WorkerInv
    <2>5. Todo' \subseteq 0 .. MaxChunks - 1
      BY <1>1, <2>1 DEF Write, Todo
    <2> QED
      BY <2>2, <2>3, <2>4, <2>5, SeenFork
  <1>6. ASSUME Joined \/ (AllDone /\ ~Shareable)
        PROVE  [F!Next]_F!vars
    <2>1. \A w \in Workers : pc[w] \notin Draining
      <3>1. CASE Joined
        BY <3>1, NobodyThere DEF Joined, NobodyInside, Counts, Inside
      <3>2. CASE AllDone /\ ~Shareable
        BY <3>2 DEF AllDone, CallerInv, WorkerInv
      <3> QED
        BY <1>6, <3>1, <3>2
    <2>2. JobHeld /\ next >= chunks
      BY <1>6 DEF Joined, AllDone, CallerInv, JobHeld
    <2>3. ~JobHeld' /\ next' = next /\ chunks' = chunks
      BY <1>6 DEF Joined, AllDone, JobHeld, Shareable, fields
    <2>4. Todo = {} /\ Todo' = Todo
      BY <1>1, <2>2, <2>3 DEF Todo
    <2> QED
      BY <1>4, <2>1, <2>2, <2>3, <2>4, SeenJoin
  <1>7. CASE Help \/ Finish \/ Destroy \/ OpenJob \/ WakeWorkers \/ CloseJob \/ (AllDone /\ Shareable)
    <2>1. next' = next /\ chunks' = chunks
      BY <1>7 DEF Help, Finish, Destroy, OpenJob, WakeWorkers, CloseJob, AllDone, fields
    <2>2. JobHeld' = JobHeld
      BY <1>7 DEF Help, Finish, Destroy, OpenJob, WakeWorkers, CloseJob, AllDone, Shareable,
                  CallerInv, JobHeld
    <2>3. \A t \in Threads : AtNow(t)' = AtNow(t)
      <3>1. \A w \in Workers : AtNow(w)' = AtNow(w)
        BY <1>2, <2>1 DEF AtNow
      <3>2. AtNow(Caller)' = AtNow(Caller)
        BY <1>3, <2>1 DEF AtNow, Draining
      <3> QED
        BY <3>1, <3>2 DEF Threads
    <2>4. At' = At /\ Todo' = Todo
      BY <2>1, <2>3 DEF At, Todo
    <2> QED
      BY <2>2, <2>4, SeenNothing
  <1> QED
    BY <1>5, <1>6, <1>7 DEF CallerMoves, JoinStep

LEMMA WorkerMovesSeen ==
  ASSUME IInv, NEW w \in Workers, WorkerMoves(w)
  PROVE  UNCHANGED F!vars
  <1> USE DEF IInv
  <1>1. /\ UNCHANGED <<chunks, next, async, call, k>>
        /\ \A t \in Threads : t # w => pc'[t] = pc[t]
    BY WorkerMovesLeave
  <1>2. pc[w] \notin {"bound", "run"} /\ pc'[w] \notin {"bound", "run"}
    BY DEF WorkerMoves, SeesStop, GoesToSleep, Predicate, WakesUp, LoadGen, WhereTo, Enter,
           SpuriousWakeup, Recheck, Leave, Goto, TypeOK, Threads
  <1>3. \A t \in Threads : AtNow(t)' = AtNow(t)
    BY <1>1, <1>2 DEF AtNow
  <1>4. At' = At /\ Todo' = Todo /\ JobHeld' = JobHeld
    BY <1>1, <1>3 DEF At, Todo, JobHeld
  <1> QED
    BY <1>4, SeenNothing

\* SimPool is a fork-join: a chunk is claimed by one thread, and forChunks
\* and finish() return when all are claimed and no thread is at one.
THEOREM Refinement == Spec => ImplementsForkJoin
  <1>1. Init => F!Init
    <2> SUFFICES ASSUME Init PROVE F!Init
      OBVIOUS
    <2>1. ~JobHeld /\ Todo = {}
      BY DEF Init, JobHeld, Todo
    <2>2. \A t \in Threads : AtNow(t) = MaxChunks
      BY DEF Init, AtNow
    <2> QED
      BY <2>1, <2>2, SeenStart DEF At
  <1>2. ASSUME IInv, [Next]_vars PROVE [F!Next]_F!vars
    <2>1. CASE UNCHANGED vars
      <3>1. JobHeld' = JobHeld /\ Todo' = Todo /\ At' = At
        BY <2>1 DEF vars, JobHeld, Todo, At, AtNow
      <3> QED
        BY <3>1, SeenNothing
    <2> QED
      BY <1>2, <2>1, CallerMovesSeen, DrainSeen, WorkerMovesSeen, Steps
  <1> QED
    BY <1>1, <1>2, Invariant, PTL DEF Spec, ImplementsForkJoin, F!Spec

=============================================================================
