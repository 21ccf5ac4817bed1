------------------------------ MODULE WaitClocks ------------------------------
(***************************************************************************)
(* What a seat may cost the other players of a running game                *)
(* (src/src/server/server.cpp).  The room stops for a seat in two ways: a  *)
(* wait, once the seat's connection is lost or has been silent for         *)
(* gStallMs, and a hold, while the seat is connected but the room has run  *)
(* its lead past the seat's last acknowledged tick.  Both are charged to   *)
(* one budget per seat for the whole game, in whole seconds; a seat that   *)
(* has spent it is taken over by an AI.  A pause, and another seat's wait, *)
(* stop the game as well and must cost the seat nothing.                   *)
(*                                                                         *)
(* GameRoom lets a wait run out at any moment; here the clocks decide.     *)
(* The network thread's loop is followed pass by pass: it serves frames,   *)
(* scans the waits, tracks the holds seat by seat, closes a tick or not,   *)
(* drops who timed out, and sleeps one unit of time.  A tick is always due *)
(* (a tick period and kFlowRetryMs are far below the unit).                *)
(*                                                                         *)
(* Absolute times of the code are kept as ages: x = now - t.  An age stops *)
(* counting at a cap past which the code cannot tell two values apart.     *)
(***************************************************************************)
EXTENDS Integers

CONSTANTS
  NSeats,     \* human seats of the game
  Second,     \* units of time in a second
  Budget,     \* gDropWaitMs
  Grace,      \* kHoldGraceMs
  Stall,      \* gStallMs
  Timeout,    \* gTimeoutMs
  Watched     \* a spectator is connected throughout

ASSUME ClocksAssumption ==
  /\ NSeats \in Nat \ {0}
  /\ Second \in Nat \ {0}
  /\ Budget \in Nat /\ Grace \in Nat /\ Stall \in Nat /\ Timeout \in Nat
  /\ Watched \in BOOLEAN

Seats == 1 .. NSeats
None == -1                                  \* the code's 0: no such time

VARIABLES
  turn,      \* where the loop is: 0 serves, 1..NSeats tracks that seat's
             \* hold, NSeats + 1 closes a tick, NSeats + 2 sleeps
  clock,     \* the Room's arrays and the seat's Client, per seat
  paused,    \* Room::paused
  job,       \* Room::tickJob: none, running on the worker, or done
  over,      \* the room was torn down
  waited,    \* history: how long the room has waited for each seat, in all
  held       \* history: how long its running hold really held the game

vars == <<turn, clock, paused, job, over, waited, held>>

AgeCap == Timeout + Grace + Budget + 1      \* bound of holdAge
SilenceCap == Timeout + 1                   \* bound of silence
HeldCap == Grace + Budget                   \* bound of the history held
Serve == 0
Close == NSeats + 1
Sleeping == NSeats + 2

Clocks == [kind : {"human", "ai", "left"},   \* slots[i].type = 1, 2, 3
           defeated : BOOLEAN,   \* Room::defeated[i]
           open : BOOLEAN,       \* slotClient[i] >= 0
           lagging : BOOLEAN,    \* tick > ackTick + leadTicks
           silence : 0 .. SilenceCap,             \* now - lastRecvMs
           waitLeft : {None} \cup 0 .. Budget,    \* waitDeadline - now
           waitAge : 0 .. Budget,                 \* now - waitBegan
           spent : 0 .. Budget,                   \* waitSpentMs
           holdAge : {None} \cup 0 .. AgeCap,     \* now - holdBegan
           holdMs : Nat,                          \* holdMs
           holdSeen : {None} \cup Nat]            \* now - holdSeen

(* Every variable holds what the code can put in it; a seat never spends   *)
(* more than its budget (chargeWait).                                      *)
TypeOK ==
  /\ turn \in 0 .. Sleeping
  /\ clock \in [Seats -> Clocks]
  /\ paused \in BOOLEAN /\ over \in BOOLEAN
  /\ job \in {"none", "running", "done"}
  /\ waited \in [Seats -> Nat]
  /\ held \in [Seats -> Nat]

Fresh == [kind |-> "human", defeated |-> FALSE, open |-> TRUE, lagging |-> FALSE,
          silence |-> 0, waitLeft |-> None, waitAge |-> 0, spent |-> 0,
          holdAge |-> None, holdMs |-> 0, holdSeen |-> None]

Init ==
  /\ turn = Serve
  /\ clock = [s \in Seats |-> Fresh]
  /\ paused = FALSE /\ job = "none" /\ over = FALSE
  /\ waited = [s \in Seats |-> 0]
  /\ held = [s \in Seats |-> 0]

-----------------------------------------------------------------------------
(* The arithmetic of a seat's clocks.  k is the seat's record.             *)

Least(a, b) == IF a < b THEN a ELSE b
Most(a, b) == IF a > b THEN a ELSE b
Older(age, cap) == IF age < cap THEN age + 1 ELSE age

Human(k) == k.kind = "human"
StillIn(k) == Human(k) /\ ~k.defeated
IsWaiting(k) == k.waitLeft # None
Holding(k) == k.holdAge # None
Left(k) == Budget - k.spent

WholeSecondsDown(t) == (t \div Second) * Second

WholeSeconds(t) == ((t + Second - 1) \div Second) * Second
ChargedPastTheBudget(spent, t) == spent + WholeSeconds(t)

Charged(spent, t) == Least(Budget, spent + WholeSeconds(t))

NoHold(k) == [k EXCEPT !.holdAge = None, !.holdMs = 0, !.holdSeen = None]

EndHold(k, heldMs) ==
  IF heldMs <= Grace THEN NoHold(k)
  ELSE [NoHold(k) EXCEPT !.spent = Charged(k.spent, heldMs - Grace)]

(* What a running hold had held before a silence of this length began.     *)
HeldBefore(k, since) ==
  IF k.holdAge > since THEN Least(k.holdMs, k.holdAge - since) ELSE 0

BeginWaitKeepingTheHold(k, since) ==
  IF IsWaiting(k) THEN k
  ELSE [k EXCEPT !.waitAge = Least(since, Budget), !.waitLeft = Most(Left(k) - since, 0)]

BeginWait(k, since) ==
  IF IsWaiting(k) THEN k
  ELSE LET e == IF Holding(k) THEN EndHold(k, HeldBefore(k, since)) ELSE k
       IN  [e EXCEPT !.waitAge = Least(since, Budget),
                     !.waitLeft = Most(Left(e) - since, 0)]

EndWaitFree(k) == [k EXCEPT !.waitLeft = None, !.waitAge = 0]

EndWait(k) ==
  IF ~IsWaiting(k) THEN k
  ELSE [k EXCEPT !.spent = Charged(k.spent, k.waitAge),
                 !.waitLeft = None, !.waitAge = 0]

(* The seat's client is no longer attached to it.                         *)
Detached(k) == [k EXCEPT !.open = FALSE, !.lagging = FALSE, !.silence = 0]

(* takeOver: the seat goes to an AI, unless it is no player's any more.    *)
TakeOver(k) ==
  IF ~StillIn(k) THEN EndWait(k)
  ELSE [NoHold(Detached(k)) EXCEPT !.waitLeft = None, !.waitAge = 0,
                                   !.spent = Budget, !.kind = "ai"]

(* leaveRoom: a seated player gives its seat up.                           *)
Leave(k) == EndWait([Detached(k) EXCEPT !.kind = "left"])

(* dropClient: the connection is gone.  A defeated player's seat is not    *)
(* kept for it.                                                            *)
Drop(k) == IF StillIn(k) THEN BeginWait(Detached(k), k.silence) ELSE Leave(k)

-----------------------------------------------------------------------------
(* The room, seen from the clocks c of its seats.                          *)

Occupied(c) == Watched \/ \E s \in Seats : c[s].open
RoomActive(c) ==
  \/ \E s \in Seats : Human(c[s]) /\ (c[s].open \/ IsWaiting(c[s]))
  \/ Watched /\ \E s \in Seats : c[s].kind = "ai"
WaitingIn(c) == \E s \in Seats : IsWaiting(c[s])
HeldIn(c) == paused \/ WaitingIn(c)

WaitedWith(s) == Watched \/ \E t \in Seats \ {s} : clock[t].open

(* canAdvance: no seat still in the game is a whole lead behind.           *)
CanAdvance ==
  \A s \in Seats : clock[s].open /\ StillIn(clock[s]) => ~clock[s].lagging

(* A hold that is over takes its history with it.                          *)
ForgetHolds ==
  held' = [s \in Seats |-> IF Holding(clock'[s]) THEN held[s] ELSE 0]

-----------------------------------------------------------------------------
(* Serving: frames, connections, and a tick that landed.                   *)

Serving == ~over /\ turn = Serve
Reset(s, k) == /\ clock' = [clock EXCEPT ![s] = k]
               /\ ForgetHolds
               /\ UNCHANGED <<turn, paused, job, over, waited>>

(* Any frame is contact; Ack and Progress may also bring the seat back     *)
(* within its lead.                                                        *)
Hear(s) ==
  /\ Serving /\ clock[s].open
  /\ \E behind \in {clock[s].lagging, FALSE} :
       Reset(s, [clock[s] EXCEPT !.silence = 0, !.lagging = behind])

Disconnect(s) == Serving /\ clock[s].open /\ Reset(s, Drop(clock[s]))

LeaveGame(s) == Serving /\ clock[s].open /\ Reset(s, Leave(clock[s]))

(* Rejoin: the token's holder takes the seat again, from the old           *)
(* connection if that is still there, however far it is behind.            *)
Rejoin(s) ==
  /\ Serving /\ Human(clock[s])
  /\ \E behind \in BOOLEAN :
       Reset(s, EndWait([clock[s] EXCEPT !.open = TRUE, !.silence = 0,
                                         !.lagging = behind]))

SetPause ==
  /\ Serving /\ Occupied(clock)
  /\ paused' = ~paused
  /\ UNCHANGED <<turn, clock, job, over, waited, held>>

(* The worker finishes a tick on its own time; the next pass publishes it. *)
(* The sim may have defeated players, and the tick's number moves past the *)
(* lead of those who have not acknowledged enough.                         *)
WorkerDone ==
  /\ job = "running" /\ job' = "done"
  /\ UNCHANGED <<turn, clock, paused, over, waited, held>>

FinishTick ==
  /\ Serving /\ job = "done" /\ job' = "none"
  /\ \E lost \in SUBSET {s \in Seats : StillIn(clock[s])},
        behind \in SUBSET {s \in Seats : clock[s].open} :
       clock' = [s \in Seats |->
                   [clock[s] EXCEPT !.defeated = @ \/ s \in lost,
                                    !.lagging = @ \/ s \in behind]]
  /\ UNCHANGED <<turn, paused, over, waited, held>>

-----------------------------------------------------------------------------
(* The rest of a pass.                                                     *)

(* A seated player silent for Stall is waited for, one that talks again is *)
(* not any more.                                                           *)
Stalled(s) ==
  LET k == clock[s]
  IN  IF ~StillIn(k) \/ ~k.open THEN k
      ELSE IF k.silence < Stall THEN EndWait(k)
      ELSE IF WaitedWith(s) THEN BeginWait(k, k.silence)
      ELSE k

ExpiredOnceGone(k) == IF job = "none" /\ k.waitLeft = 0 /\ ~k.open THEN TakeOver(k) ELSE k

Expired(k) == IF job = "none" /\ k.waitLeft = 0 THEN TakeOver(k) ELSE k

NeverSuspended(c) == c

(* A pause or a wait suspends the running holds.                           *)
Suspended(c) == IF HeldIn(c) THEN [s \in Seats |-> [c[s] EXCEPT !.holdSeen = None]]
                ELSE c

Scan ==
  /\ Serving /\ job # "done"
  /\ LET c == [s \in Seats |-> Expired(Stalled(s))]
     IN  /\ clock' = Suspended(c)
         /\ over' = (job = "none" /\ ~(Occupied(c) /\ RoomActive(c)))
         /\ turn' = IF HeldIn(c) \/ job # "none" THEN Sleeping ELSE 1
  /\ ForgetHolds
  /\ UNCHANGED <<paused, job, waited>>

(* trackHolds, for one seat.                                               *)
HoldsUp(s) ==
  clock[s].open /\ StillIn(clock[s]) /\ WaitedWith(s) /\ clock[s].lagging

Held(k) ==
  [k EXCEPT !.holdAge = IF Holding(k) THEN @ ELSE 0,
            !.holdMs = IF Holding(k) /\ k.holdSeen # None THEN @ + k.holdSeen ELSE @,
            !.holdSeen = 0]

Tracked(s) ==
  LET k == clock[s]
      h == Held(k)
  IN  IF ~HoldsUp(s) THEN IF Holding(k) THEN EndHold(k, k.holdMs) ELSE k
      ELSE IF h.holdMs >= Grace + Left(k) THEN TakeOver(h)
      ELSE h

TrackHold(s) ==
  /\ ~over /\ turn = s /\ turn' = s + 1
  /\ clock' = [clock EXCEPT ![s] = Tracked(s)]
  /\ ForgetHolds
  /\ UNCHANGED <<paused, job, over, waited>>

CloseTick ==
  /\ ~over /\ turn = Close /\ turn' = Sleeping
  /\ job' = IF CanAdvance THEN "running" ELSE job
  /\ UNCHANGED <<clock, paused, over, waited, held>>

(* Who is silent past the player timeout is dropped, unless the room is    *)
(* waiting for it; then a unit of time passes.                             *)
TimedOut(k) == IF k.open /\ ~IsWaiting(k) /\ k.silence > Timeout THEN Drop(k) ELSE k

Aged(k) ==
  [k EXCEPT !.silence = IF k.open THEN Older(@, SilenceCap) ELSE @,
            !.waitLeft = IF @ > 0 THEN @ - 1 ELSE @,
            !.waitAge = IF IsWaiting(k) THEN Older(@, Budget) ELSE @,
            !.holdAge = IF Holding(k) THEN Older(@, AgeCap) ELSE @,
            !.holdSeen = IF @ # None THEN @ + 1 ELSE @]

Sleep ==
  /\ ~over /\ turn = Sleeping /\ turn' = Serve
  /\ LET c == [s \in Seats |-> TimedOut(clock[s])]
     IN  /\ clock' = [s \in Seats |-> Aged(c[s])]
         /\ waited' = [s \in Seats |-> IF c[s].waitLeft > 0 THEN waited[s] + 1
                                       ELSE waited[s]]
         /\ held' = [s \in Seats |-> IF ~Holding(c[s]) THEN 0
                                     ELSE IF HeldIn(c) THEN held[s]
                                     ELSE Older(held[s], HeldCap)]
  /\ UNCHANGED <<paused, job, over>>

Loop == Scan \/ (\E s \in Seats : TrackHold(s)) \/ CloseTick \/ Sleep

Next ==
  \/ \E s \in Seats : Hear(s) \/ Disconnect(s) \/ LeaveGame(s) \/ Rejoin(s)
  \/ SetPause
  \/ WorkerDone
  \/ FinishTick
  \/ Loop

Spec == Init /\ [][Next]_vars

(* The loop always comes round again, a simulated tick ends, and one that  *)
(* is done is published on the next pass.  Nothing is asked of players.    *)
FairSpec ==
  Spec /\ WF_vars(Loop) /\ WF_vars(WorkerDone) /\ WF_vars(FinishTick)

-----------------------------------------------------------------------------
(* Properties *)

(* However often a player drops and comes back, the room waits for it no   *)
(* longer than its budget in all (beginWait, endWait and their comment).   *)
WaitBounded == \A s \in Seats : waited[s] <= Budget

(* The same time is never on two clocks: a seat being waited for has no    *)
(* hold left to be charged for (beginWait ends it).                        *)
OneClock == \A s \in Seats : ~(IsWaiting(clock[s]) /\ Holding(clock[s]))

(* A pause, or the wait for another seat, is not charged to a seat that    *)
(* holds the game: its hold never counts more than it really held it       *)
(* (server.cpp:3254-3255 suspends it).                                     *)
PauseCostsNothing == \A s \in Seats : clock[s].holdMs <= held[s]

(* A player back before its countdown ran out has at most what the         *)
(* countdown showed left for the next time; nobody is given time back      *)
(* (endWait, chargeWait).                                                  *)
CountdownHonest ==
  [][\A s \in Seats :
       LET k == clock[s]  n == clock'[s]
       IN  /\ Left(n) <= Left(k)
           /\ IsWaiting(k) /\ ~IsWaiting(n) => Left(n) <= k.waitLeft]_vars

(* A player alone in its room stops only itself.                           *)
AloneAndBehind ==
  \E s \in Seats : clock[s].open /\ clock[s].lagging /\ ~WaitedWith(s)

ComesBack == \E s \in Seats : Rejoin(s)

(* Once nobody pauses it or reconnects to it any more, the game goes on or *)
(* is torn down: no lost, silent or slow player stops the others for good  *)
(* (the run loop's scan and trackHolds).                                   *)
GoesOn ==
  <>[]~paused /\ <>[][~ComesBack]_vars =>
    []<>(job = "running") \/ <>over \/ <>[]AloneAndBehind
=============================================================================
