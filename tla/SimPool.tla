------------------------------- MODULE SimPool -------------------------------
(***************************************************************************)
(* The simulation's worker pool (src/src/sim/simpool.h, simpool.cpp).      *)
(*                                                                         *)
(* The caller writes a job's fields, opens the job by making gen_ odd,     *)
(* takes part, waits for the chunks, closes the job by making gen_ even    *)
(* and waits for the workers that are still inside it.  A worker registers *)
(* in inflight_ before it looks again whether the job it saw is open.      *)
(* There is no lock around the fields: this protocol is all that keeps the *)
(* caller from rewriting them under a worker.                              *)
(*                                                                         *)
(* One step is one access to a shared variable.  A range too small for the *)
(* workers runs inline, on the caller, and does not touch the pool.        *)
(***************************************************************************)
EXTENDS Integers, FiniteSets

CONSTANTS
  Workers,      \* the threads of the pool
  Caller,       \* the thread that owns the pool, slot 0
  MaxChunks,    \* bound: chunks of a job
  MaxJobs,      \* bound: jobs the caller opens
  MaxHelp       \* bound: calls of help() that find nothing to do

Threads == Workers \cup {Caller}

ASSUME PoolAssumption ==
  /\ IsFiniteSet(Workers) /\ Caller \notin Workers
  /\ MaxChunks \in Nat /\ MaxJobs \in Nat /\ MaxHelp \in Nat

VARIABLES
  chunks,       \* the job's fields: job_, ctx_ and chunks_
  next,         \* next_, the next unclaimed chunk
  done,         \* done_, the chunks finished
  inflight,     \* inflight_, workers inside the job
  gen,          \* gen_: odd, a job is open; even, none is
  async,        \* async_: a job start() opened is not finished
  stop,         \* stop_
  mutex,        \* sleepMutex_ is held
  sleeping,     \* sleeping_
  call,         \* what the caller is in the middle of
  pc,           \* where each thread is
  k,            \* the chunk each thread claimed last
  seen          \* the generation each worker saw last

fields == <<chunks, next, done, inflight, gen>>
sleep == <<mutex, sleeping>>
vars == <<chunks, next, done, inflight, gen, async, stop, mutex, sleeping, call, pc, k, seen>>

Open == gen % 2 = 1

(* Where a thread is in drain(), and where a worker is counted in inflight_. *)
Draining == {"claim", "bound", "run", "count"}
Inside == {"recheck", "leave"} \cup Draining

Init ==
  /\ chunks = 0 /\ next = 0 /\ done = 0 /\ inflight = 0 /\ gen = 0
  /\ async = FALSE /\ stop = FALSE /\ mutex = FALSE /\ sleeping = 0
  /\ call = "none"
  /\ pc = [t \in Threads |-> IF t = Caller THEN "idle" ELSE "spin"]
  /\ k = [t \in Threads |-> 0]
  /\ seen = [w \in Workers |-> 0]

Goto(t, label) == pc' = [pc EXCEPT ![t] = label]

-----------------------------------------------------------------------------
(* The caller: forChunks, start, help, finish and the destructor.          *)

(* Two chunks at least, workers to share them with, and no job open.       *)
ParallelEvenIfBusy(n) == Workers # {} /\ n >= 2

Parallel(n) == Workers # {} /\ n >= 2 /\ ~async

(* forChunks (SimPool::run) and start (SimPool::open) write the fields.  A *)
(* job with no chunks, or nobody to run them, is never opened.             *)
Write(n) ==
  /\ pc[Caller] = "idle" /\ gen < 2 * MaxJobs
  /\ chunks' = n /\ next' = 0 /\ done' = 0
  /\ \/ /\ Parallel(n)
        /\ call' = "forChunks" /\ Goto(Caller, "open")
        /\ UNCHANGED async
     \/ /\ ~async /\ Workers # {} /\ n > 0
        /\ async' = TRUE /\ call' = "start" /\ Goto(Caller, "open")
     \/ /\ ~async /\ (Workers = {} \/ n = 0)
        /\ async' = TRUE
        /\ UNCHANGED <<call, pc>>
  /\ UNCHANGED <<inflight, gen, stop, sleep, k, seen>>

OpenJob ==
  /\ pc[Caller] = "open"
  /\ gen' = gen + 1
  /\ Goto(Caller, "wake")
  /\ UNCHANGED <<chunks, next, done, inflight, async, stop, sleep, call, k, seen>>

(* notify_all, under the mutex: the sleepers ask for it back.              *)
Woken(at) == [w \in Threads |-> IF at[w] = "asleep" THEN "woken" ELSE at[w]]

WakeWorkers ==
  /\ pc[Caller] = "wake" /\ ~mutex
  /\ LET at == IF sleeping # 0 THEN Woken(pc) ELSE pc
     IN  pc' = [at EXCEPT ![Caller] = IF call = "start" THEN "idle" ELSE "claim"]
  /\ call' = IF call = "start" THEN "none" ELSE call
  /\ UNCHANGED <<fields, async, stop, sleep, k, seen>>

(* help() runs one chunk, finish() those that are left.                    *)
Help ==
  /\ pc[Caller] = "idle" /\ async /\ next < chunks + MaxHelp
  /\ call' = "help"
  /\ Goto(Caller, "claim")
  /\ UNCHANGED <<fields, async, stop, sleep, k, seen>>

Finish ==
  /\ pc[Caller] = "idle" /\ async
  /\ call' = "finish"
  /\ Goto(Caller, "claim")
  /\ UNCHANGED <<fields, async, stop, sleep, k, seen>>

(* The join: every chunk finished, then every worker out.                  *)
AllDone ==
  /\ pc[Caller] = "wait" /\ done >= chunks
  /\ IF Workers # {} /\ chunks > 0
     THEN Goto(Caller, "close") /\ UNCHANGED <<call, async>>
     ELSE Goto(Caller, "idle") /\ call' = "none" /\ async' = FALSE
  /\ UNCHANGED <<fields, stop, sleep, k, seen>>

CloseJob ==
  /\ pc[Caller] = "close"
  /\ gen' = gen + 1
  /\ Goto(Caller, "out")
  /\ UNCHANGED <<chunks, next, done, inflight, async, stop, sleep, call, k, seen>>

NobodyWaitedFor == TRUE

NobodyInside == inflight = 0

Joined ==
  /\ pc[Caller] = "out" /\ NobodyInside
  /\ call' = "none"
  /\ async' = FALSE
  /\ Goto(Caller, "idle")
  /\ UNCHANGED <<fields, stop, sleep, k, seen>>

(* ~SimPool, then the joins of its threads.                                *)
AsStopped(at) == at

Stopped(at) == Woken(at)

Destroy ==
  /\ pc[Caller] = "idle" /\ ~async /\ ~stop /\ ~mutex
  /\ stop' = TRUE
  /\ pc' = [Stopped(pc) EXCEPT ![Caller] = "gone"]
  /\ UNCHANGED <<fields, async, sleep, call, k, seen>>

-----------------------------------------------------------------------------
(* SimPool::drain, and the one chunk of help(), on any thread.             *)

Claim(t) ==
  /\ pc[t] = "claim"
  /\ k' = [k EXCEPT ![t] = next]
  /\ next' = next + 1
  /\ Goto(t, "bound")
  /\ UNCHANGED <<chunks, done, inflight, gen, async, stop, sleep, call, seen>>

(* Where drain() leads when there is nothing left to claim.                *)
AfterDrain(t) ==
  IF t # Caller THEN "leave" ELSE IF call = "help" THEN "idle" ELSE "wait"

Bound(t) ==
  /\ pc[t] = "bound"
  /\ IF k[t] < chunks
     THEN Goto(t, "run") /\ UNCHANGED <<call, k>>
     ELSE /\ Goto(t, AfterDrain(t))
          /\ call' = IF t = Caller /\ call = "help" THEN "none" ELSE call
          /\ k' = [k EXCEPT ![t] = 0]
  /\ UNCHANGED <<fields, async, stop, sleep, seen>>

RunChunk(t) ==
  /\ pc[t] = "run"
  /\ Goto(t, "count")
  /\ UNCHANGED <<fields, async, stop, sleep, call, k, seen>>

CountedByDrain(t) == IF t = Caller /\ call = "help" THEN done ELSE done + 1

Counted(t) == done + 1

CountChunk(t) ==
  /\ pc[t] = "count"
  /\ done' = Counted(t)
  /\ IF t = Caller /\ call = "help"
     THEN Goto(t, "idle") /\ call' = "none"
     ELSE Goto(t, "claim") /\ UNCHANGED call
  /\ k' = [k EXCEPT ![t] = 0]
  /\ UNCHANGED <<chunks, next, inflight, gen, async, stop, sleep, seen>>

-----------------------------------------------------------------------------
(* A worker (SimPool::work).                                               *)

(* It polls for the next job, and for the end.                             *)
SeesStop(w) ==
  /\ pc[w] = "spin" /\ gen = seen[w] /\ stop
  /\ Goto(w, "gone")
  /\ UNCHANGED <<fields, async, stop, sleep, call, k, seen>>

(* It has polled for kSpin, and takes the mutex to sleep.                  *)
GoesToSleep(w) ==
  /\ pc[w] = "spin" /\ ~mutex
  /\ mutex' = TRUE
  /\ sleeping' = sleeping + 1
  /\ Goto(w, "predicate")
  /\ UNCHANGED <<fields, async, stop, call, k, seen>>

(* wait(lock, predicate): with the mutex held it looks before it sleeps,   *)
(* and each time it is woken.                                              *)
AwakeOnlyIfStopped(w) == stop

Awake(w) == stop \/ gen # seen[w]

Predicate(w) ==
  /\ pc[w] = "predicate"
  /\ mutex' = FALSE
  /\ IF Awake(w)
     THEN /\ sleeping' = sleeping - 1
          /\ Goto(w, IF stop THEN "gone" ELSE "load")
     ELSE /\ Goto(w, "asleep")
          /\ UNCHANGED sleeping
  /\ UNCHANGED <<fields, async, stop, call, k, seen>>

SpuriousWakeup(w) ==
  /\ pc[w] = "asleep"
  /\ Goto(w, "woken")
  /\ UNCHANGED <<fields, async, stop, sleep, call, k, seen>>

WakesUp(w) ==
  /\ pc[w] = "woken" /\ ~mutex
  /\ mutex' = TRUE
  /\ Goto(w, "predicate")
  /\ UNCHANGED <<fields, async, stop, sleeping, call, k, seen>>

ClosedJobIsLeft(w) == IF Open THEN "enter" ELSE "leave"

WhereTo(w) == IF Open THEN "enter" ELSE "spin"

(* Something happened since the job it saw last.  A job that closed before *)
(* the worker got here is passed over.                                     *)
LoadGen(w) ==
  /\ pc[w] = "load" \/ (pc[w] = "spin" /\ gen # seen[w])
  /\ seen' = [seen EXCEPT ![w] = gen]
  /\ Goto(w, WhereTo(w))
  /\ UNCHANGED <<fields, async, stop, sleep, call, k>>

Enter(w) ==
  /\ pc[w] = "enter"
  /\ inflight' = inflight + 1
  /\ Goto(w, "recheck")
  /\ UNCHANGED <<chunks, next, done, gen, async, stop, sleep, call, k, seen>>

StillOpenUnchecked(w) == TRUE

StillOpen(w) == gen = seen[w]

Recheck(w) ==
  /\ pc[w] = "recheck"
  /\ Goto(w, IF StillOpen(w) THEN "claim" ELSE "leave")
  /\ UNCHANGED <<fields, async, stop, sleep, call, k, seen>>

Leave(w) ==
  /\ pc[w] = "leave"
  /\ inflight' = inflight - 1
  /\ Goto(w, "spin")
  /\ UNCHANGED <<chunks, next, done, gen, async, stop, sleep, call, k, seen>>

-----------------------------------------------------------------------------
Drain(t) == Claim(t) \/ Bound(t) \/ RunChunk(t) \/ CountChunk(t)

JoinStep == AllDone \/ CloseJob \/ Joined
CallerStep == OpenJob \/ WakeWorkers \/ JoinStep \/ Drain(Caller)
WorkerInside(w) == Recheck(w) \/ Drain(w) \/ Leave(w)
WorkerStep(w) ==
  \/ SeesStop(w) \/ GoesToSleep(w) \/ Predicate(w) \/ WakesUp(w)
  \/ LoadGen(w) \/ Enter(w)

Next ==
  \/ \E n \in 0 .. MaxChunks : Write(n)
  \/ Help \/ Finish \/ Destroy \/ CallerStep
  \/ \E w \in Workers : WorkerStep(w) \/ SpuriousWakeup(w) \/ WorkerInside(w)

Spec == Init /\ [][Next]_vars

(* The caller runs, and gets the mutex in its turn.  So does a worker that *)
(* is inside a job, and one that holds the mutex or is to read stop_: the  *)
(* others may be descheduled for as long as the machine likes.             *)
Fairness ==
  /\ WF_vars(CallerStep) /\ SF_vars(WakeWorkers)
  /\ \A w \in Workers :
       /\ WF_vars(WorkerInside(w) \/ Predicate(w))
       /\ WF_vars(stop /\ WorkerStep(w)) /\ SF_vars(stop /\ (WakesUp(w) \/ SeesStop(w)))

FairSpec == Spec /\ Fairness

-----------------------------------------------------------------------------
(* Properties                                                              *)

Labels == {"idle", "open", "wake", "wait", "close", "out", "gone",
           "spin", "predicate", "asleep", "woken", "load", "enter"} \cup Inside

(* The counters are the counts the code's unsigned fields can hold.        *)
TypeOK ==
  /\ chunks \in 0 .. MaxChunks /\ next \in Nat /\ done \in Nat
  /\ inflight \in Nat /\ gen \in Nat
  /\ async \in BOOLEAN /\ stop \in BOOLEAN /\ mutex \in BOOLEAN
  /\ sleeping \in Nat
  /\ call \in {"none", "forChunks", "start", "help", "finish"}
  /\ pc \in [Threads -> Labels]
  /\ k \in [Threads -> Nat]
  /\ seen \in [Workers -> Nat]

(* Whenever the caller writes the fields of a job no worker is using them. *)
FieldsAreTheCallers ==
  [][chunks' # chunks \/ (next' = 0 /\ next # 0) => \A w \in Workers : pc[w] \notin Draining]_vars

(* Each chunk of a job is run once, by one thread, and forChunks and       *)
(* finish() return when all have been run and nobody is at one.            *)
F == INSTANCE ForkJoin WITH
       Chunks <- 0 .. MaxChunks - 1, Nothing <- MaxChunks,
       open <- async \/ call \in {"forChunks", "start"},
       todo <- next .. chunks - 1,
       at   <- [t \in Threads |->
                 IF pc[t] \in {"bound", "run"} /\ k[t] < chunks THEN k[t] ELSE MaxChunks]
ImplementsForkJoin == F!Spec

(* Once the caller has woken the sleepers for a job no worker sleeps       *)
(* through it: the wake-up between its last look and its sleep is not lost. *)
NobodySleepsThrough ==
  Open /\ pc[Caller] # "wake" => \A w \in Workers : pc[w] = "asleep" => seen[w] = gen

(* A call returns even if no worker ever takes part, and no worker outside *)
(* the job is waited for.                                                  *)
CallReturns == call # "none" ~> call = "none"

(* The destructor's joins end: every worker gets to see stop_.             *)
WorkersEnd == stop ~> \A w \in Workers : pc[w] = "gone"

=============================================================================
