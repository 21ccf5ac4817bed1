------------------------------ MODULE TickProofs ------------------------------
(***************************************************************************)
(* What goes on in a room beside its ticks, for any number of players: the *)
(* clocks of the seats, the turns that slots take at a tick's orders, the  *)
(* desync check, and the composition of the three.                         *)
(*                                                                         *)
(* Clocks.  For any number of seats and any budget, grace and deadlines:   *)
(* the room waits for no seat longer than its budget, never charges the    *)
(* same time twice, and, when a silence is noticed before it times out,    *)
(* counts nothing but a hold itself as a hold.  Everything but the turn of *)
(* the loop is a property of one seat's record k, of how long it has been  *)
(* waited for (w) and of how long it has really held the game (h), so each *)
(* operation on a record gets its own lemma.                               *)
(*                                                                         *)
(* Orders.  A slot that is passed over comes one place nearer to the head  *)
(* of the round with every tick, and the slot at the head is always served *)
(* (DrainInv): so nobody is passed over as often as there are slots.       *)
(*                                                                         *)
(* Hashes.  As long as the referee is right and at most one player has     *)
(* diverged, the check suspects no referee and accuses nobody else.  The   *)
(* table of reports is what the argument is about.  A report is kept while *)
(* its player drops, comes back, diverges or leaves, so what is said of it *)
(* has to hold of a report made at any earlier time: its hash is the right *)
(* one or the one that its player's simulation yields now.  Reports that   *)
(* all differ from the referee's are then of players who have all diverged,*)
(* and an appeal needs as many of them as there are live players, of whom  *)
(* there are at least two.                                                 *)
(***************************************************************************)
EXTENDS MCTick, FiniteSetTheorems, WellFoundedInduction, TLAPS

-----------------------------------------------------------------------------
(* The clocks.                                                             *)

\* While it waits for the seat, the room has no more than the countdown left to
\* wait, and what is not left will be charged.
Balanced(k, w) ==
  IF IsWaiting(k)
  THEN /\ w + k.waitLeft <= Budget
       /\ Budget <= k.spent + k.waitAge + k.waitLeft
  ELSE w <= k.spent

\* The hold's clock is of the time held; only a player still connected holds.
FairHold(k, h) ==
  /\ ~Holding(k) => k.holdMs = 0 /\ k.holdSeen = None
  /\ StillIn(k) /\ Holding(k) => k.open
  /\ Stall <= Timeout =>
       /\ k.holdMs <= h
       /\ StillIn(k) /\ Holding(k) /\ k.holdSeen # None =>
            k.holdMs + k.holdSeen <= h \/ h >= HeldCap

Sound(k, w, h) ==
  /\ k \in Clocks /\ w \in Nat /\ h \in Nat
  /\ Balanced(k, w)
  /\ ~(IsWaiting(k) /\ Holding(k))
  /\ FairHold(k, h)

\* What a seat could make the room wait, seen from its player's countdown.
Time(k) == IF IsWaiting(k) THEN k.waitLeft ELSE Left(k)

\* From k to e no time is given back.
Shrinks(k, e) == Left(e) <= Left(k) /\ Time(e) <= Time(k)
ShrinkAll == \A s \in Seats : Shrinks(clock[s], clock'[s])

Kept(k, h) == IF Holding(k) THEN h ELSE 0

SoundSeats == \A s \in Seats : Sound(clock[s], waited[s], held[s])

\* Past the scan nothing holds the game if the pass goes on to the tick, the
\* holds are suspended if it does not, and who is silent is silent alone.
ScanDone ==
  /\ turn \in 1 .. Close => ~HeldIn(clock)
  /\ turn = Sleeping /\ HeldIn(clock) => \A s \in Seats : clock[s].holdSeen = None
  /\ turn # Serve =>
       \A s \in Seats :
         /\ StillIn(clock[s]) /\ clock[s].open /\ ~IsWaiting(clock[s])
         /\ clock[s].silence >= Stall
         => ~WaitedWith(s)

IInv == TypeOK /\ SoundSeats /\ ScanDone

-----------------------------------------------------------------------------
(* The operations on one seat's clocks.                                    *)

\* Rounding up to whole seconds (chargeWait) never rounds down.
LEMMA Rounded ==
  ASSUME NEW t \in Nat
  PROVE  WholeSeconds(t) \in Nat /\ WholeSeconds(t) >= t
<1> DEFINE n == t + Second - 1
           q == n \div Second
<1>1. Second \in Nat \ {0} BY ClocksAssumption
<1>2. n \in Nat BY <1>1
<1>3. q \in Int /\ n = q * Second + (n % Second) /\ n % Second \in 0 .. Second - 1
  BY <1>1, <1>2
<1>4. q * Second >= t BY <1>1, <1>2, <1>3
<1>5. q * Second \in Int BY <1>1, <1>3
<1> QED BY <1>4, <1>5 DEF WholeSeconds

\* A charge never exceeds the budget, and falls short of the time charged
\* only there.
LEMMA Charges ==
  ASSUME NEW spent \in 0 .. Budget, NEW t \in Nat
  PROVE  /\ Charged(spent, t) \in 0 .. Budget
         /\ Charged(spent, t) >= spent
         /\ Charged(spent, t) >= spent + t \/ Charged(spent, t) = Budget
<1>1. WholeSeconds(t) \in Nat /\ WholeSeconds(t) >= t BY Rounded
<1>2. Budget \in Nat BY ClocksAssumption
<1> QED BY <1>1, <1>2 DEF Charged, Least

LEMMA Times ==
  ASSUME NEW k \in Clocks
  PROVE  Left(k) \in 0 .. Budget /\ Time(k) \in 0 .. Budget
<1>1. Budget \in Nat /\ k.spent \in 0 .. Budget /\ k.waitLeft \in {None} \cup 0 .. Budget
  BY ClocksAssumption DEF Clocks
<1> QED BY <1>1 DEF Left, Time, IsWaiting

LEMMA ShrinksTwice ==
  ASSUME NEW k \in Clocks, NEW e \in Clocks, NEW n \in Clocks, Shrinks(k, e), Shrinks(e, n)
  PROVE  Shrinks(k, n)
<1>1. /\ Left(k) \in 0 .. Budget /\ Left(e) \in 0 .. Budget /\ Left(n) \in 0 .. Budget
      /\ Time(k) \in 0 .. Budget /\ Time(e) \in 0 .. Budget /\ Time(n) \in 0 .. Budget
      /\ Budget \in Nat
  BY Times, ClocksAssumption
<1> QED BY <1>1 DEF Shrinks

LEMMA SameTimes ==
  ASSUME NEW k \in Clocks, NEW e, e.spent = k.spent, e.waitLeft = k.waitLeft
  PROVE  Shrinks(k, e)
<1>1. Left(e) = Left(k) /\ Time(e) = Time(k) BY DEF Left, Time, IsWaiting
<1>2. Left(k) \in 0 .. Budget /\ Time(k) \in 0 .. Budget /\ Budget \in Nat
  BY Times, ClocksAssumption
<1> QED BY <1>1, <1>2 DEF Shrinks

\* A record without its hold, at some charge.
LEMMA WithoutHold ==
  ASSUME NEW k \in Clocks, NEW c \in 0 .. Budget
  PROVE  LET e == [NoHold(k) EXCEPT !.spent = c]
         IN  /\ e \in Clocks
             /\ e.holdAge = None /\ e.holdMs = 0 /\ e.holdSeen = None /\ e.spent = c
             /\ e.kind = k.kind /\ e.defeated = k.defeated /\ e.open = k.open
             /\ e.lagging = k.lagging /\ e.silence = k.silence
             /\ e.waitLeft = k.waitLeft /\ e.waitAge = k.waitAge
BY DEF NoHold, Clocks

\* What an operation needs to find, which may have broken the rest.
Started(k, w) ==
  /\ k \in Clocks /\ w \in Nat
  /\ Balanced(k, w)
  /\ ~(IsWaiting(k) /\ Holding(k))
  /\ ~Holding(k) => k.holdMs = 0 /\ k.holdSeen = None

\* Ending a hold leaves the wait alone and keeps the balance.
LEMMA EndHoldSound ==
  ASSUME NEW k, NEW w, NEW h \in Nat, Started(k, w), ~IsWaiting(k), NEW t \in Nat
  PROVE  LET e == EndHold(k, t)
         IN  /\ Sound(e, w, h)
             /\ ~Holding(e) /\ ~IsWaiting(e)
             /\ e.kind = k.kind /\ e.defeated = k.defeated /\ e.open = k.open
             /\ e.silence = k.silence
             /\ Shrinks(k, e)
<1>0. Budget \in Nat /\ Grace \in Nat /\ Timeout \in Nat BY ClocksAssumption
<1>1. k \in Clocks /\ w \in Nat BY DEF Started
<1>2. k.spent \in 0 .. Budget BY <1>1 DEF Clocks
<1>3. PICK c \in 0 .. Budget : c >= k.spent /\ EndHold(k, t) = [NoHold(k) EXCEPT !.spent = c]
  <2>1. CASE t <= Grace
    <3>1. [NoHold(k) EXCEPT !.spent = k.spent] = NoHold(k) BY <1>1 DEF NoHold, Clocks
    <3> QED BY <1>0, <1>2, <2>1, <3>1 DEF EndHold
  <2>2. CASE ~(t <= Grace)
    <3>1. /\ Charged(k.spent, t - Grace) \in 0 .. Budget
          /\ Charged(k.spent, t - Grace) >= k.spent
      <4>1. t - Grace \in Nat BY <1>0, <2>2
      <4> QED BY <1>2, <4>1, Charges
    <3> QED BY <2>2, <3>1 DEF EndHold
  <2> QED BY <2>1, <2>2
<1> DEFINE e == EndHold(k, t)
<1>4. /\ e \in Clocks
      /\ e.holdAge = None /\ e.holdMs = 0 /\ e.holdSeen = None /\ e.spent = c
      /\ e.kind = k.kind /\ e.defeated = k.defeated /\ e.open = k.open
      /\ e.silence = k.silence /\ e.waitLeft = k.waitLeft
  BY <1>1, <1>3, WithoutHold
<1>5. w <= c BY <1>0, <1>1, <1>2, <1>3 DEF Started, Balanced
<1> HIDE DEF e
<1>6. ~Holding(e) /\ ~IsWaiting(e) BY <1>4 DEF IsWaiting, Holding
<1>7. Balanced(e, w) BY <1>4, <1>5, <1>6 DEF Balanced
<1>8. FairHold(e, h) BY <1>4, <1>6 DEF FairHold
<1>9. Shrinks(k, e)
  BY <1>0, <1>2, <1>3, <1>4, <1>6 DEF Shrinks, Left, Time
<1> QED BY <1>1, <1>4, <1>6, <1>7, <1>8, <1>9 DEF Sound, e

\* A record without its wait, at some charge.
LEMMA WithoutWait ==
  ASSUME NEW k \in Clocks, NEW c \in 0 .. Budget
  PROVE  LET e == [k EXCEPT !.spent = c, !.waitLeft = None, !.waitAge = 0]
         IN  /\ e \in Clocks
             /\ e.holdAge = k.holdAge /\ e.holdMs = k.holdMs /\ e.holdSeen = k.holdSeen
             /\ e.kind = k.kind /\ e.defeated = k.defeated /\ e.open = k.open
             /\ e.lagging = k.lagging /\ e.silence = k.silence
             /\ e.waitLeft = None /\ e.waitAge = 0 /\ e.spent = c
<1>1. 0 \in 0 .. Budget BY ClocksAssumption
<1> QED BY <1>1 DEF Clocks

\* Ending a wait charges it and leaves the hold alone.
LEMMA EndWaitSound ==
  ASSUME NEW k, NEW w, NEW h, Sound(k, w, h)
  PROVE  LET e == EndWait(k)
         IN  /\ Sound(e, w, h)
             /\ ~IsWaiting(e) /\ Holding(e) = Holding(k)
             /\ e.kind = k.kind /\ e.defeated = k.defeated /\ e.open = k.open
             /\ e.silence = k.silence /\ e.holdSeen = k.holdSeen
             /\ Shrinks(k, e)
<1> DEFINE e == EndWait(k)
<1>0. Budget \in Nat BY ClocksAssumption
<1>1. k \in Clocks /\ w \in Nat /\ h \in Nat BY DEF Sound
<1>2. /\ k.spent \in 0 .. Budget /\ k.waitAge \in 0 .. Budget
      /\ k.waitLeft \in {None} \cup 0 .. Budget
  BY <1>1 DEF Clocks
<1>3. CASE ~IsWaiting(k)
  BY <1>1, <1>3, SameTimes DEF EndWait
<1>4. CASE IsWaiting(k)
  <2>1. PICK c \in 0 .. Budget :
          /\ c >= k.spent
          /\ c >= k.spent + k.waitAge \/ c = Budget
          /\ e = [k EXCEPT !.spent = c, !.waitLeft = None, !.waitAge = 0]
    <3>1. k.waitAge \in Nat BY <1>0, <1>2
    <3> DEFINE c == Charged(k.spent, k.waitAge)
    <3>2. c \in 0 .. Budget /\ c >= k.spent /\ (c >= k.spent + k.waitAge \/ c = Budget) BY <1>2, <3>1, Charges
    <3>3. e = [k EXCEPT !.spent = c, !.waitLeft = None, !.waitAge = 0] BY <1>4 DEF EndWait
    <3> HIDE DEF c, e
    <3> QED BY <3>2, <3>3
  <2> HIDE DEF e
  <2>2. /\ e \in Clocks
        /\ e.spent = c /\ e.waitLeft = None
        /\ e.kind = k.kind /\ e.defeated = k.defeated /\ e.open = k.open /\ e.silence = k.silence
        /\ e.holdAge = k.holdAge /\ e.holdMs = k.holdMs /\ e.holdSeen = k.holdSeen
    <3> DEFINE x == [k EXCEPT !.spent = c, !.waitLeft = None, !.waitAge = 0]
    <3>1. /\ x \in Clocks
          /\ x.spent = c /\ x.waitLeft = None
          /\ x.kind = k.kind /\ x.defeated = k.defeated /\ x.open = k.open /\ x.silence = k.silence
          /\ x.holdAge = k.holdAge /\ x.holdMs = k.holdMs /\ x.holdSeen = k.holdSeen
      BY <1>1, WithoutWait, ZenonT(60)
    <3>2. e = x BY <2>1
    <3> HIDE DEF x
    <3> QED BY <3>1, <3>2
  <2>3. w + k.waitLeft <= Budget /\ Budget <= k.spent + k.waitAge + k.waitLeft
    BY <1>4 DEF Sound, Balanced
  <2>4. k.waitLeft \in 0 .. Budget BY <1>2, <1>4 DEF IsWaiting
  <2>5. w <= c BY <1>0, <1>1, <1>2, <2>1, <2>3, <2>4
  <2>6. Balanced(e, w) BY <2>2, <2>5 DEF Balanced, IsWaiting
  <2>7. Holding(e) = Holding(k) BY <2>2 DEF Holding
  <2>8. FairHold(e, h)
    BY <2>2, <2>7 DEF Sound, FairHold, StillIn, Human
  <2>9. ~IsWaiting(e) BY <2>2 DEF IsWaiting
  <2>10. Budget - c <= k.waitLeft /\ Budget - c <= Budget - k.spent
    BY <1>0, <1>2, <2>1, <2>3, <2>4
  <2>11. Shrinks(k, e) BY <1>4, <2>2, <2>9, <2>10 DEF Shrinks, Left, Time
  <2> QED BY <1>1, <2>2, <2>6, <2>7, <2>8, <2>9, <2>11 DEF Sound, e
<1> QED BY <1>3, <1>4

\* Beginning a wait ends the hold, and leaves no more of the budget to wait
\* than what is not spent yet.
LEMMA BeginWaitSound ==
  ASSUME NEW k, NEW w, NEW h \in Nat, Started(k, w), NEW since \in Nat
  PROVE  LET e == BeginWait(k, since)
         IN  /\ Sound(e, w, h)
             /\ IsWaiting(e) /\ ~Holding(e)
             /\ e.kind = k.kind /\ e.defeated = k.defeated /\ e.open = k.open
             /\ e.silence = k.silence
             /\ Shrinks(k, e)
<1>0. Budget \in Nat BY ClocksAssumption
<1>1. CASE IsWaiting(k)
  <2>1. BeginWait(k, since) = k BY <1>1 DEF BeginWait
  <2>2. Sound(k, w, h) BY <1>1 DEF Started, Sound, FairHold
  <2> QED BY <1>1, <2>1, <2>2, SameTimes DEF Started
<1>2. CASE ~IsWaiting(k)
  <2> DEFINE b == IF Holding(k) THEN EndHold(k, HeldBefore(k, since)) ELSE k
             e == [b EXCEPT !.waitAge = Least(since, Budget),
                            !.waitLeft = Most(Left(b) - since, 0)]
  <2>1. BeginWait(k, since) = e BY <1>2 DEF BeginWait
  <2>2. /\ Sound(b, w, h) /\ ~Holding(b) /\ ~IsWaiting(b)
        /\ b.kind = k.kind /\ b.defeated = k.defeated /\ b.open = k.open
        /\ b.silence = k.silence
        /\ Shrinks(k, b)
    <3>1. CASE Holding(k)
      <4>1. k.holdMs \in Nat /\ k.holdAge \in {None} \cup 0 .. AgeCap BY DEF Started, Clocks
      <4>2. k.holdAge \in Nat BY <3>1, <4>1 DEF Holding, AgeCap
      <4>3. HeldBefore(k, since) \in Nat BY <4>1, <4>2 DEF HeldBefore, Least
      <4>4. b = EndHold(k, HeldBefore(k, since)) BY <3>1
      <4> HIDE DEF b
      <4> QED BY <1>2, <4>3, <4>4, EndHoldSound
    <3>2. CASE ~Holding(k)
      BY <1>2, <3>2, SameTimes DEF Started, Sound, FairHold
    <3> QED BY <3>1, <3>2
  <2> HIDE DEF b
  <2>3. b \in Clocks /\ w \in Nat /\ b.holdMs = 0 /\ b.holdSeen = None
    BY <2>2 DEF Sound, FairHold
  <2>4. b.spent \in 0 .. Budget /\ w <= b.spent BY <2>2, <2>3 DEF Sound, Balanced, Clocks
  <2>5. /\ Least(since, Budget) \in 0 .. Budget
        /\ Most(Left(b) - since, 0) \in 0 .. Budget
        /\ w + Most(Left(b) - since, 0) <= Budget
        /\ Budget <= b.spent + Least(since, Budget) + Most(Left(b) - since, 0)
        /\ Most(Left(b) - since, 0) <= Left(b)
    BY <1>0, <2>3, <2>4 DEF Least, Most, Left
  <2>6. /\ e \in Clocks
        /\ e.waitLeft = Most(Left(b) - since, 0) /\ e.waitAge = Least(since, Budget)
        /\ e.spent = b.spent
        /\ e.holdAge = b.holdAge /\ e.holdMs = b.holdMs /\ e.holdSeen = b.holdSeen
        /\ e.kind = b.kind /\ e.defeated = b.defeated /\ e.open = b.open /\ e.silence = b.silence
    BY <2>3, <2>5 DEF Clocks
  <2> HIDE DEF e
  <2>7. IsWaiting(e) /\ ~Holding(e)
    BY <1>0, <2>2, <2>5, <2>6 DEF IsWaiting, Holding, None
  <2>8. Balanced(e, w) BY <2>5, <2>6, <2>7 DEF Balanced
  <2>9. FairHold(e, h) BY <2>3, <2>6, <2>7 DEF FairHold
  <2>10. Shrinks(b, e)
    <3>1. Left(b) \in 0 .. Budget BY <2>3, Times
    <3> QED BY <1>0, <2>2, <2>5, <2>6, <2>7, <3>1 DEF Shrinks, Left, Time
  <2>11. Shrinks(k, e) BY <2>2, <2>3, <2>6, <2>10, ShrinksTwice DEF Started
  <2> QED BY <2>1, <2>2, <2>3, <2>6, <2>7, <2>8, <2>9, <2>11 DEF Sound
<1> QED BY <1>1, <1>2

\* A seat's player is detached; nothing else of it changes.
LEMMA DetachedClocks ==
  ASSUME NEW k \in Clocks, NEW kind \in {"human", "ai", "left"}
  PROVE  LET d == [Detached(k) EXCEPT !.kind = kind]
         IN  /\ d \in Clocks
             /\ d.holdAge = k.holdAge /\ d.holdMs = k.holdMs /\ d.holdSeen = k.holdSeen
             /\ d.kind = kind /\ d.defeated = k.defeated /\ d.open = FALSE
             /\ d.waitLeft = k.waitLeft /\ d.waitAge = k.waitAge /\ d.spent = k.spent
<1>1. 0 \in 0 .. SilenceCap BY ClocksAssumption DEF SilenceCap
<1> QED BY <1>1 DEF Detached, Clocks

LEMMA Bounded ==
  ASSUME NEW k, NEW w, Started(k, w)
  PROVE  w \in Nat /\ w <= Budget
<1>1. Budget \in Nat /\ k \in Clocks /\ w \in Nat BY ClocksAssumption DEF Started
<1>2. k.spent \in 0 .. Budget /\ k.waitLeft \in {None} \cup 0 .. Budget BY <1>1 DEF Clocks
<1>3. CASE IsWaiting(k)
  <2>1. k.waitLeft \in 0 .. Budget BY <1>2, <1>3 DEF IsWaiting
  <2>2. w + k.waitLeft <= Budget BY <1>3 DEF Started, Balanced
  <2> QED BY <1>1, <2>1, <2>2
<1>4. CASE ~IsWaiting(k)
  <2>1. w <= k.spent BY <1>4 DEF Started, Balanced
  <2> QED BY <1>1, <1>2, <2>1
<1> QED BY <1>3, <1>4

LEMMA SoundStarts ==
  ASSUME NEW k, NEW w, NEW h, Sound(k, w, h)
  PROVE  Started(k, w)
BY DEF Sound, FairHold, Started

\* Leaving gives the seat up: its wait ends, its hold is somebody else's now.
LEMMA LeaveSound ==
  ASSUME NEW k, NEW w, NEW h, Sound(k, w, h)
  PROVE  LET e == Leave(k)
         IN  Sound(e, w, h) /\ ~StillIn(e) /\ ~IsWaiting(e) /\ ~e.open /\ Shrinks(k, e)
<1> DEFINE d == [Detached(k) EXCEPT !.kind = "left"]
<1>1. k \in Clocks BY DEF Sound
<1>2. /\ d \in Clocks
      /\ d.holdAge = k.holdAge /\ d.holdMs = k.holdMs /\ d.holdSeen = k.holdSeen
      /\ d.kind = "left" /\ d.open = FALSE
      /\ d.waitLeft = k.waitLeft /\ d.waitAge = k.waitAge /\ d.spent = k.spent
  BY <1>1, DetachedClocks
<1>3. Leave(k) = EndWait(d) BY DEF Leave
<1> HIDE DEF d
<1>4. ~StillIn(d) /\ IsWaiting(d) = IsWaiting(k) /\ Holding(d) = Holding(k)
  BY <1>2 DEF StillIn, Human, IsWaiting, Holding
<1>5. Balanced(d, w) BY <1>2, <1>4 DEF Sound, Balanced
<1>6. FairHold(d, h) BY <1>2, <1>4 DEF Sound, FairHold
<1>7. Sound(d, w, h) BY <1>2, <1>4, <1>5, <1>6 DEF Sound
<1>8. Shrinks(k, d) BY <1>1, <1>2, SameTimes
<1>9. Sound(EndWait(d), w, h) /\ Shrinks(d, EndWait(d)) BY <1>7, EndWaitSound
<1>10. Shrinks(k, EndWait(d)) BY <1>1, <1>2, <1>8, <1>9, ShrinksTwice DEF Sound
<1> QED BY <1>2, <1>3, <1>7, <1>10, EndWaitSound DEF StillIn, Human

\* A lost connection begins the wait for a player still in the game, and ends
\* its hold.
LEMMA DropSound ==
  ASSUME NEW k, NEW w, NEW h, Sound(k, w, h)
  PROVE  LET e == Drop(k)
         IN  /\ Sound(e, w, h) /\ ~e.open /\ Shrinks(k, e)
             /\ StillIn(e) => StillIn(k) /\ IsWaiting(e) /\ ~Holding(e)
             /\ IsWaiting(e) => StillIn(e)
<1>1. k \in Clocks /\ h \in Nat BY DEF Sound
<1>2. CASE ~StillIn(k)
  BY <1>2, LeaveSound DEF Drop
<1>3. CASE StillIn(k)
  <2> DEFINE d == Detached(k)
  <2>1. /\ d \in Clocks
        /\ d.holdAge = k.holdAge /\ d.holdMs = k.holdMs /\ d.holdSeen = k.holdSeen
        /\ d.kind = k.kind /\ d.defeated = k.defeated /\ d.open = FALSE
        /\ d.waitLeft = k.waitLeft /\ d.waitAge = k.waitAge /\ d.spent = k.spent
    <3>1. 0 \in 0 .. SilenceCap BY ClocksAssumption DEF SilenceCap
    <3> QED BY <1>1, <3>1 DEF Detached, Clocks
  <2>2. Drop(k) = BeginWait(d, k.silence) BY <1>3 DEF Drop
  <2>3. k.silence \in Nat
    <3>1. k.silence \in 0 .. SilenceCap /\ SilenceCap \in Nat
      BY <1>1, ClocksAssumption DEF Clocks, SilenceCap
    <3> QED BY <3>1
  <2> HIDE DEF d
  <2>4. Started(d, w)
    BY <2>1 DEF Sound, Started, Balanced, FairHold, IsWaiting, Holding
  <2>5. Shrinks(k, d) BY <1>1, <2>1, SameTimes
  <2>6. Sound(Drop(k), w, h) /\ Shrinks(d, Drop(k)) BY <1>1, <2>2, <2>3, <2>4, BeginWaitSound
  <2>7. Shrinks(k, Drop(k)) BY <1>1, <2>1, <2>5, <2>6, ShrinksTwice DEF Sound
  <2> QED BY <1>1, <1>3, <2>1, <2>2, <2>3, <2>4, <2>7, BeginWaitSound DEF StillIn, Human
<1> QED BY <1>2, <1>3

\* A player still in the game loses the seat, with all its clocks.
LEMMA LosesSeat ==
  ASSUME NEW k \in Clocks, NEW w \in 0 .. Budget, NEW h \in Nat, StillIn(k)
  PROVE  LET e == TakeOver(k)
         IN  /\ Sound(e, w, h) /\ ~StillIn(e) /\ ~IsWaiting(e) /\ ~Holding(e) /\ ~e.open
             /\ Shrinks(k, e)
<1>0. Budget \in Nat BY ClocksAssumption
<1> DEFINE e == TakeOver(k)
<1>1. /\ e \in Clocks
      /\ e.kind = "ai" /\ e.open = FALSE /\ e.waitLeft = None /\ e.spent = Budget
      /\ e.holdAge = None /\ e.holdMs = 0 /\ e.holdSeen = None
  <2>1. 0 \in 0 .. SilenceCap /\ 0 \in 0 .. Budget /\ Budget \in 0 .. Budget
    BY ClocksAssumption DEF SilenceCap
  <2> QED BY <2>1 DEF TakeOver, Detached, NoHold, Clocks
<1> HIDE DEF e
<1>2. ~StillIn(e) /\ ~IsWaiting(e) /\ ~Holding(e)
  BY <1>1 DEF StillIn, Human, IsWaiting, Holding
<1>3. Shrinks(k, e)
  <2>1. Left(e) = 0 /\ Time(e) = 0 BY <1>0, <1>1, <1>2 DEF Left, Time
  <2>2. Left(k) \in 0 .. Budget /\ Time(k) \in 0 .. Budget BY Times
  <2> QED BY <1>0, <2>1, <2>2 DEF Shrinks
<1> QED BY <1>0, <1>1, <1>2, <1>3 DEF Sound, Balanced, FairHold, e

LEMMA TakeOverSound ==
  ASSUME NEW k, NEW w, NEW h, Sound(k, w, h)
  PROVE  LET e == TakeOver(k)
         IN  /\ Sound(e, w, h) /\ ~StillIn(e) /\ ~IsWaiting(e)
             /\ Holding(e) => Holding(k)
             /\ e.open => k.open
             /\ Shrinks(k, e)
<1>1. k \in Clocks /\ h \in Nat BY DEF Sound
<1>2. w \in 0 .. Budget
  <2>1. w \in Nat /\ w <= Budget BY SoundStarts, Bounded
  <2> QED BY <2>1, ClocksAssumption
<1>3. CASE StillIn(k)
  BY <1>1, <1>2, <1>3, LosesSeat
<1>4. CASE ~StillIn(k)
  <2>1. TakeOver(k) = EndWait(k) BY <1>4 DEF TakeOver
  <2> QED BY <1>4, <2>1, EndWaitSound DEF StillIn, Human
<1> QED BY <1>3, <1>4

\* A hold that is over takes its history with it.
LEMMA KeptSound ==
  ASSUME NEW k, NEW w, NEW h, Sound(k, w, h)
  PROVE  Sound(k, w, Kept(k, h))
BY DEF Sound, FairHold, Kept

-----------------------------------------------------------------------------
(* The steps of a pass, for one seat.                                      *)

LEMMA StalledSound ==
  ASSUME SoundSeats, NEW s \in Seats
  PROVE  LET e == Stalled(s)
         IN  /\ Sound(e, waited[s], held[s])
             /\ e.open = clock[s].open
             /\ Shrinks(clock[s], e)
             /\ StillIn(e) /\ e.open /\ ~IsWaiting(e) /\ e.silence >= Stall => ~WaitedWith(s)
<1> DEFINE k == clock[s]
           e == Stalled(s)
<1>1. Sound(k, waited[s], held[s]) BY DEF SoundSeats
<1>2. Started(k, waited[s]) /\ held[s] \in Nat BY <1>1, SoundStarts DEF Sound
<1>3. k.silence \in Nat /\ Stall \in Nat
  <2>1. k.silence \in 0 .. SilenceCap BY <1>1 DEF Sound, Clocks
  <2> QED BY <2>1, ClocksAssumption DEF SilenceCap
<1>4. CASE ~StillIn(k) \/ ~k.open
  <2>1. e = k BY <1>4 DEF Stalled
  <2> QED BY <1>1, <1>4, <2>1, SameTimes DEF Sound
<1>5. CASE StillIn(k) /\ k.open /\ k.silence < Stall
  <2>1. e = EndWait(k) BY <1>5 DEF Stalled
  <2>2. Sound(e, waited[s], held[s]) /\ e.open = k.open /\ e.silence = k.silence /\ Shrinks(k, e)
    BY <1>1, <2>1, EndWaitSound
  <2> QED BY <1>3, <1>5, <2>2
<1>6. CASE StillIn(k) /\ k.open /\ ~(k.silence < Stall) /\ WaitedWith(s)
  <2>1. e = BeginWait(k, k.silence) BY <1>6 DEF Stalled
  <2> QED BY <1>2, <1>3, <2>1, BeginWaitSound
<1>7. CASE StillIn(k) /\ k.open /\ ~(k.silence < Stall) /\ ~WaitedWith(s)
  <2>1. e = k BY <1>7 DEF Stalled
  <2> QED BY <1>1, <1>7, <2>1, SameTimes DEF Sound
<1> QED BY <1>4, <1>5, <1>6, <1>7

LEMMA ExpiredSound ==
  ASSUME NEW k, NEW w, NEW h, Sound(k, w, h)
  PROVE  LET e == Expired(k)
         IN  /\ Sound(e, w, h)
             /\ e.open => k.open
             /\ Shrinks(k, e)
             /\ StillIn(e) => e = k
BY TakeOverSound, SameTimes DEF Expired, Sound

LEMMA SuspendedSound ==
  ASSUME NEW k, NEW w, NEW h, Sound(k, w, h)
  PROVE  LET e == [k EXCEPT !.holdSeen = None]
         IN  /\ Sound(e, w, h)
             /\ e.open = k.open /\ e.silence = k.silence /\ e.holdSeen = None
             /\ StillIn(e) = StillIn(k) /\ IsWaiting(e) = IsWaiting(k)
             /\ Shrinks(k, e)
<1> DEFINE e == [k EXCEPT !.holdSeen = None]
<1>1. k \in Clocks BY DEF Sound
<1>2. /\ e \in Clocks
      /\ e.holdAge = k.holdAge /\ e.holdMs = k.holdMs /\ e.holdSeen = None
      /\ e.kind = k.kind /\ e.defeated = k.defeated /\ e.open = k.open /\ e.silence = k.silence
      /\ e.waitLeft = k.waitLeft /\ e.waitAge = k.waitAge /\ e.spent = k.spent
  BY <1>1 DEF Clocks
<1> HIDE DEF e
<1>3. StillIn(e) = StillIn(k) /\ IsWaiting(e) = IsWaiting(k) /\ Holding(e) = Holding(k)
  BY <1>2 DEF StillIn, Human, IsWaiting, Holding
<1>4. Balanced(e, w) BY <1>2, <1>3 DEF Sound, Balanced
<1>5. FairHold(e, h) BY <1>2, <1>3 DEF Sound, FairHold
<1>6. Shrinks(k, e) BY <1>1, <1>2, SameTimes
<1> QED BY <1>2, <1>3, <1>4, <1>5, <1>6 DEF Sound, e

LEMMA TrackedSound ==
  ASSUME SoundSeats, NEW s \in Seats, ~IsWaiting(clock[s])
  PROVE  LET e == Tracked(s)
         IN  /\ Sound(e, waited[s], held[s])
             /\ ~IsWaiting(e)
             /\ Shrinks(clock[s], e)
             /\ e.open => clock[s].open
             /\ StillIn(e) => StillIn(clock[s]) /\ e.silence = clock[s].silence
<1> DEFINE k == clock[s]
           h == Held(k)
<1>0. Budget \in Nat /\ Grace \in Nat BY ClocksAssumption
<1>1. Sound(k, waited[s], held[s]) BY DEF SoundSeats
<1>2. k \in Clocks /\ Started(k, waited[s]) /\ held[s] \in Nat BY <1>1, SoundStarts DEF Sound
<1>3. /\ k.holdMs \in Nat /\ k.spent \in 0 .. Budget
      /\ k.holdAge \in {None} \cup 0 .. AgeCap /\ k.holdSeen \in {None} \cup Nat
  BY <1>2 DEF Clocks
<1>4. CASE ~HoldsUp(s)
  <2>1. CASE Holding(k)
    <3>1. Tracked(s) = EndHold(k, k.holdMs) BY <1>4, <2>1 DEF Tracked
    <3> QED BY <1>2, <1>3, <3>1, EndHoldSound DEF StillIn, Human
  <2>2. CASE ~Holding(k)
    <3>1. Tracked(s) = k BY <1>4, <2>2 DEF Tracked
    <3> QED BY <1>1, <1>2, <3>1, SameTimes
  <2> QED BY <2>1, <2>2
<1>5. CASE HoldsUp(s)
  <2>1. k.open /\ StillIn(k) BY <1>5 DEF HoldsUp
  <2>2. /\ h \in Clocks
        /\ h.holdAge \in 0 .. AgeCap /\ h.holdSeen = 0
        /\ h.holdMs = IF Holding(k) /\ k.holdSeen # None THEN k.holdMs + k.holdSeen ELSE k.holdMs
        /\ h.holdMs \in Nat
        /\ h.kind = k.kind /\ h.defeated = k.defeated /\ h.open = k.open /\ h.silence = k.silence
        /\ h.waitLeft = k.waitLeft /\ h.waitAge = k.waitAge /\ h.spent = k.spent
    <3>1. 0 \in 0 .. AgeCap BY ClocksAssumption DEF AgeCap
    <3>2. (IF Holding(k) THEN k.holdAge ELSE 0) \in 0 .. AgeCap BY <1>3, <3>1 DEF Holding
    <3>3. (IF Holding(k) /\ k.holdSeen # None THEN k.holdMs + k.holdSeen ELSE k.holdMs) \in Nat
      <4>1. k.holdSeen # None => k.holdSeen \in Nat BY <1>3
      <4> QED BY <1>3, <4>1
    <3> QED BY <1>2, <3>2, <3>3 DEF Held, Clocks
  <2> HIDE DEF h
  <2>3. StillIn(h) /\ ~IsWaiting(h) BY <2>1, <2>2 DEF StillIn, Human, IsWaiting
  <2>4. Shrinks(k, h) BY <1>2, <2>2, SameTimes
  <2>5. CASE h.holdMs >= Grace + Left(k)
    <3>1. waited[s] \in 0 .. Budget
      <4>1. waited[s] \in Nat /\ waited[s] <= Budget BY <1>2, Bounded
      <4> QED BY <1>0, <4>1
    <3>2. Tracked(s) = TakeOver(h) BY <1>5, <2>5 DEF Tracked, h
    <3>3. Shrinks(h, TakeOver(h)) /\ Sound(TakeOver(h), waited[s], held[s])
      BY <1>2, <2>2, <2>3, <3>1, LosesSeat
    <3>4. Shrinks(k, TakeOver(h)) BY <1>2, <2>2, <2>4, <3>3, ShrinksTwice DEF Sound
    <3> QED BY <1>2, <2>2, <2>3, <3>1, <3>2, <3>4, LosesSeat
  <2>6. CASE ~(h.holdMs >= Grace + Left(k))
    <3>1. Tracked(s) = h BY <1>5, <2>6 DEF Tracked, h
    <3>2. h.holdMs < HeldCap BY <1>0, <1>3, <2>2, <2>6 DEF Left, HeldCap
    <3>3. Holding(h) /\ h.holdSeen = 0
      <4>1. AgeCap \in Nat BY ClocksAssumption DEF AgeCap
      <4> QED BY <2>2, <4>1 DEF Holding, None
    <3>4. Stall <= Timeout => h.holdMs <= held[s]
      <4>1. CASE Holding(k) /\ k.holdSeen # None
        <5>1. Stall <= Timeout => k.holdMs + k.holdSeen <= held[s] \/ held[s] >= HeldCap
          BY <1>1, <2>1, <4>1 DEF Sound, FairHold
        <5>2. HeldCap \in Nat BY <1>0 DEF HeldCap
        <5>3. h.holdMs \in Nat /\ held[s] \in Nat /\ h.holdMs = k.holdMs + k.holdSeen
          BY <1>2, <2>2, <4>1
        <5> QED BY <3>2, <5>1, <5>2, <5>3
      <4>2. CASE ~(Holding(k) /\ k.holdSeen # None)
        BY <1>1, <2>2, <4>2 DEF Sound, FairHold
      <4> QED BY <4>1, <4>2
    <3>5. FairHold(h, held[s])
      <4>1. h.holdMs + h.holdSeen = h.holdMs BY <2>2
      <4> QED BY <2>1, <2>2, <3>3, <3>4, <4>1 DEF FairHold
    <3>6. Balanced(h, waited[s]) BY <1>1, <2>2, <2>3 DEF Sound, Balanced, IsWaiting
    <3> QED BY <1>1, <2>1, <2>2, <2>3, <2>4, <3>1, <3>5, <3>6 DEF Sound
  <2> QED BY <2>5, <2>6
<1> QED BY <1>4, <1>5

\* A silent connection is dropped, if the player is not waited for.
LEMMA TimedOutSound ==
  ASSUME NEW k, NEW w, NEW h, Sound(k, w, h)
  PROVE  LET c == TimedOut(k)
         IN  /\ Sound(c, w, h)
             /\ c.open => k.open
             /\ Shrinks(k, c)
             /\ StillIn(c) /\ Holding(c) => c = k
             /\ IsWaiting(c) /\ ~IsWaiting(k) =>
                  StillIn(k) /\ k.open /\ k.silence > Timeout
<1>1. CASE k.open /\ ~IsWaiting(k) /\ k.silence > Timeout
  <2>1. TimedOut(k) = Drop(k) BY <1>1 DEF TimedOut
  <2> QED BY <1>1, <2>1, DropSound
<1>2. CASE ~(k.open /\ ~IsWaiting(k) /\ k.silence > Timeout)
  <2>1. TimedOut(k) = k BY <1>2 DEF TimedOut
  <2> QED BY <2>1, SameTimes DEF Sound
<1> QED BY <1>1, <1>2

\* A unit of time passes: the wait's is charged to the wait, the hold's is of
\* the time held unless the hold is suspended.
LEMMA AgedSound ==
  ASSUME NEW c, NEW w, NEW h, Sound(c, w, h), NEW stopped \in BOOLEAN,
         stopped /\ Stall <= Timeout /\ StillIn(c) /\ Holding(c) => c.holdSeen = None
  PROVE  /\ Sound(Aged(c), IF c.waitLeft > 0 THEN w + 1 ELSE w,
                  IF ~Holding(c) THEN 0 ELSE IF stopped THEN h ELSE Older(h, HeldCap))
         /\ Shrinks(c, Aged(c))
<1> DEFINE e == Aged(c)
           x == IF c.waitLeft > 0 THEN w + 1 ELSE w
           g == IF ~Holding(c) THEN 0 ELSE IF stopped THEN h ELSE Older(h, HeldCap)
<1>0. /\ Budget \in Nat /\ SilenceCap \in Nat /\ AgeCap \in Nat /\ HeldCap \in Nat
  BY ClocksAssumption DEF SilenceCap, AgeCap, HeldCap
<1>1. c \in Clocks /\ w \in Nat /\ h \in Nat BY DEF Sound
<1>2. /\ c.silence \in 0 .. SilenceCap /\ c.spent \in 0 .. Budget
      /\ c.waitLeft \in {None} \cup 0 .. Budget /\ c.waitAge \in 0 .. Budget
      /\ c.holdAge \in {None} \cup 0 .. AgeCap
      /\ c.holdMs \in Nat /\ c.holdSeen \in {None} \cup Nat
  BY <1>1 DEF Clocks
<1> DEFINE silence == IF c.open THEN Older(c.silence, SilenceCap) ELSE c.silence
           waitLeft == IF c.waitLeft > 0 THEN c.waitLeft - 1 ELSE c.waitLeft
           waitAge == IF IsWaiting(c) THEN Older(c.waitAge, Budget) ELSE c.waitAge
           holdAge == IF Holding(c) THEN Older(c.holdAge, AgeCap) ELSE c.holdAge
           holdSeen == IF c.holdSeen # None THEN c.holdSeen + 1 ELSE c.holdSeen
<1>3. /\ silence \in 0 .. SilenceCap
      /\ waitLeft \in {None} \cup 0 .. Budget /\ waitAge \in 0 .. Budget
      /\ holdAge \in {None} \cup 0 .. AgeCap /\ holdSeen \in {None} \cup Nat
  <2>1. silence \in 0 .. SilenceCap /\ waitAge \in 0 .. Budget BY <1>0, <1>2 DEF Older
  <2>2. waitLeft \in {None} \cup 0 .. Budget BY <1>0, <1>2 DEF None
  <2>3. holdAge \in {None} \cup 0 .. AgeCap BY <1>0, <1>2 DEF Older, Holding
  <2>4. holdSeen \in {None} \cup Nat BY <1>2
  <2> QED BY <2>1, <2>2, <2>3, <2>4
<1>4. /\ e \in Clocks
      /\ e.kind = c.kind /\ e.defeated = c.defeated /\ e.open = c.open
      /\ e.spent = c.spent /\ e.holdMs = c.holdMs
      /\ e.waitLeft = waitLeft /\ e.waitAge = waitAge
      /\ e.holdAge = holdAge /\ e.holdSeen = holdSeen
  <2>1. e = [c EXCEPT !.silence = silence, !.waitLeft = waitLeft, !.waitAge = waitAge,
                      !.holdAge = holdAge, !.holdSeen = holdSeen]
    BY <1>1 DEF Aged, Clocks
  <2> HIDE DEF e, silence, waitLeft, waitAge, holdAge, holdSeen
  <2> QED BY <1>1, <1>3, <2>1 DEF Clocks
<1> HIDE DEF e
<1>5. x \in Nat /\ g \in Nat BY <1>0, <1>1 DEF Older
<1>6. Holding(e) = Holding(c)
  BY <1>0, <1>2, <1>4 DEF Holding, Older, None
<1>7. IsWaiting(e) = IsWaiting(c)
  BY <1>0, <1>2, <1>4 DEF IsWaiting, None
<1>8. StillIn(e) = StillIn(c) BY <1>4 DEF StillIn, Human
<1>9. Balanced(e, x)
  <2>1. CASE IsWaiting(c)
    <3>1. c.waitLeft \in 0 .. Budget BY <1>2, <2>1 DEF IsWaiting
    <3>2. w + c.waitLeft <= Budget /\ Budget <= c.spent + c.waitAge + c.waitLeft
      BY <2>1 DEF Sound, Balanced
    <3>3. e.waitAge = Older(c.waitAge, Budget) BY <1>4, <2>1
    <3>4. x + e.waitLeft <= Budget BY <1>0, <1>1, <1>4, <3>1, <3>2
    <3>5. Budget <= e.spent + e.waitAge + e.waitLeft
      BY <1>0, <1>1, <1>2, <1>4, <3>1, <3>2, <3>3 DEF Older
    <3> QED BY <1>7, <2>1, <3>4, <3>5 DEF Balanced
  <2>2. CASE ~IsWaiting(c)
    <3>1. x = w BY <2>2 DEF IsWaiting, None
    <3>2. w <= c.spent BY <2>2 DEF Sound, Balanced
    <3> QED BY <1>4, <1>7, <2>2, <3>1, <3>2 DEF Balanced
  <2> QED BY <2>1, <2>2
<1>10. FairHold(e, g)
  <2>1. CASE ~Holding(c)
    <3>1. c.holdMs = 0 /\ c.holdSeen = None BY <2>1 DEF Sound, FairHold
    <3>2. e.holdMs = 0 /\ e.holdSeen = None /\ g = 0 BY <1>4, <2>1, <3>1
    <3> QED BY <1>6, <2>1, <3>2 DEF FairHold
  <2>2. CASE Holding(c)
    <3>1. StillIn(e) => e.open BY <1>4, <1>8, <2>2 DEF Sound, FairHold
    <3>2. ASSUME Stall <= Timeout
          PROVE  e.holdMs <= g
      <4>1. c.holdMs <= h BY <3>2 DEF Sound, FairHold
      <4> QED BY <1>0, <1>1, <1>2, <1>4, <2>2, <4>1 DEF Older
    <3>3. ASSUME Stall <= Timeout, StillIn(c), e.holdSeen # None
          PROVE  e.holdMs + e.holdSeen <= g \/ g >= HeldCap
      <4>1. c.holdSeen # None BY <1>4, <3>3
      <4>2. c.holdSeen \in Nat /\ e.holdSeen = c.holdSeen + 1 BY <1>2, <1>4, <4>1
      <4>3. ~stopped BY <2>2, <3>3, <4>1
      <4>4. g = Older(h, HeldCap) BY <2>2, <4>3
      <4>5. c.holdMs + c.holdSeen <= h \/ h >= HeldCap
        BY <2>2, <3>3, <4>1 DEF Sound, FairHold
      <4> QED BY <1>0, <1>1, <1>2, <1>4, <4>2, <4>4, <4>5 DEF Older
    <3> QED BY <1>6, <1>8, <2>2, <3>1, <3>2, <3>3 DEF FairHold
  <2> QED BY <2>1, <2>2
<1> HIDE DEF x, g
<1>11. Sound(e, x, g)
  BY <1>4, <1>5, <1>6, <1>7, <1>9, <1>10 DEF Sound
<1>12. Shrinks(c, e)
  <2>1. Left(e) = Left(c) BY <1>4 DEF Left
  <2>2. Time(e) <= Time(c)
    <3>1. CASE IsWaiting(c)
      <4>1. c.waitLeft \in 0 .. Budget BY <1>2, <3>1 DEF IsWaiting
      <4>2. e.waitLeft <= c.waitLeft BY <1>0, <1>4, <4>1
      <4> QED BY <1>7, <3>1, <4>2 DEF Time
    <3>2. CASE ~IsWaiting(c) BY <1>0, <1>1, <1>7, <2>1, <3>2, Times DEF Time
    <3> QED BY <3>1, <3>2
  <2>3. Left(c) \in 0 .. Budget BY <1>1, Times
  <2> QED BY <1>0, <2>1, <2>2, <2>3 DEF Shrinks
<1> QED BY <1>11, <1>12 DEF e, x, g

-----------------------------------------------------------------------------
(* The steps of the room.                                                  *)

LEMMA Turns ==
  /\ NSeats \in Nat \ {0}
  /\ Serve = 0 /\ Close = NSeats + 1 /\ Sleeping = NSeats + 2
BY ClocksAssumption DEF Serve, Close, Sleeping

LEMMA InitInvariant == Init => IInv
<1> SUFFICES ASSUME Init PROVE IInv OBVIOUS
<1> USE DEF Init
<1>1. Fresh \in Clocks
  <2>1. 0 \in 0 .. SilenceCap /\ 0 \in 0 .. Budget BY ClocksAssumption DEF SilenceCap
  <2> QED BY <2>1 DEF Fresh, Clocks
<1>2. ~Holding(Fresh) /\ ~IsWaiting(Fresh) BY DEF Fresh, Holding, IsWaiting
<1>3. Sound(Fresh, 0, 0) BY <1>1, <1>2 DEF Fresh, Sound, Balanced, FairHold
<1>4. SoundSeats BY <1>3 DEF SoundSeats
<1>5. TypeOK
  <2>1. turn \in 0 .. Sleeping BY Turns DEF Serve
  <2>2. clock \in [Seats -> Clocks] BY <1>1
  <2>3. waited \in [Seats -> Nat] /\ held \in [Seats -> Nat] OBVIOUS
  <2>4. paused \in BOOLEAN /\ over \in BOOLEAN /\ job \in {"none", "running", "done"} OBVIOUS
  <2> QED BY <2>1, <2>2, <2>3, <2>4 DEF TypeOK
<1>6. ScanDone BY Turns DEF ScanDone
<1> QED BY <1>4, <1>5, <1>6 DEF IInv

\* While it serves, the loop asks nothing of the room.
LEMMA ServingDone ==
  ASSUME turn' = Serve
  PROVE  ScanDone'
BY Turns DEF ScanDone

LEMMA ResetKeeps ==
  ASSUME IInv, Serving, NEW s \in Seats, NEW e, Sound(e, waited[s], held[s]),
         Shrinks(clock[s], e), Reset(s, e)
  PROVE  IInv' /\ ShrinkAll
<1>1. clock \in [Seats -> Clocks] /\ held \in [Seats -> Nat] /\ waited \in [Seats -> Nat]
  BY DEF IInv, TypeOK
<1>2. /\ clock' = [clock EXCEPT ![s] = e]
      /\ held' = [t \in Seats |-> Kept(clock'[t], held[t])]
      /\ waited' = waited
  BY DEF Reset, ForgetHolds, Kept
<1>3. SoundSeats'
  <2> SUFFICES ASSUME NEW t \in Seats PROVE Sound(clock'[t], waited[t], Kept(clock'[t], held[t]))
    BY <1>1, <1>2 DEF SoundSeats
  <2>1. Sound(clock'[t], waited[t], held[t])
    BY <1>1, <1>2 DEF IInv, SoundSeats
  <2> QED BY <2>1, KeptSound
<1>4. ScanDone' BY ServingDone DEF Serving, Reset
<1>5. TypeOK'
  <2>1. e \in Clocks BY DEF Sound
  <2>2. clock' \in [Seats -> Clocks] BY <1>1, <1>2, <2>1
  <2>3. held' \in [Seats -> Nat] BY <1>1, <1>2 DEF Kept
  <2> QED BY <1>1, <1>2, <2>2, <2>3 DEF IInv, TypeOK, Reset
<1>6. ShrinkAll
  <2> SUFFICES ASSUME NEW t \in Seats PROVE Shrinks(clock[t], clock'[t]) BY DEF ShrinkAll
  <2>1. CASE t = s BY <1>1, <1>2, <2>1
  <2>2. CASE t # s
    <3>1. clock'[t] = clock[t] /\ clock[t] \in Clocks BY <1>1, <1>2, <2>2
    <3> QED BY <3>1, SameTimes
  <2> QED BY <2>1, <2>2
<1> QED BY <1>3, <1>4, <1>5, <1>6 DEF IInv

LEMMA HearKeeps ==
  ASSUME IInv, NEW s \in Seats, Hear(s)
  PROVE  IInv' /\ ShrinkAll
<1> DEFINE k == clock[s]
<1>1. Sound(k, waited[s], held[s]) BY DEF IInv, SoundSeats
<1>2. PICK behind \in {k.lagging, FALSE} :
        Reset(s, [k EXCEPT !.silence = 0, !.lagging = behind])
  BY DEF Hear
<1> DEFINE e == [k EXCEPT !.silence = 0, !.lagging = behind]
<1>3. /\ e \in Clocks
      /\ e.holdAge = k.holdAge /\ e.holdMs = k.holdMs /\ e.holdSeen = k.holdSeen
      /\ e.kind = k.kind /\ e.defeated = k.defeated /\ e.open = k.open
      /\ e.waitLeft = k.waitLeft /\ e.waitAge = k.waitAge /\ e.spent = k.spent
  <2>1. 0 \in 0 .. SilenceCap /\ k \in Clocks BY <1>1, ClocksAssumption DEF SilenceCap, Sound
  <2>2. behind \in BOOLEAN BY <1>2, <2>1 DEF Clocks
  <2> QED BY <2>1, <2>2 DEF Clocks
<1>4. Reset(s, e) BY <1>2
<1> HIDE DEF e
<1>5. Sound(e, waited[s], held[s])
  BY <1>1, <1>3 DEF Sound, Balanced, FairHold, IsWaiting, Holding, StillIn, Human
<1>6. Shrinks(k, e) BY <1>1, <1>3, SameTimes DEF Sound
<1> QED BY <1>4, <1>5, <1>6, ResetKeeps DEF Hear

LEMMA RejoinKeeps ==
  ASSUME IInv, NEW s \in Seats, Rejoin(s)
  PROVE  IInv' /\ ShrinkAll
<1> DEFINE k == clock[s]
<1>1. Sound(k, waited[s], held[s]) BY DEF IInv, SoundSeats
<1>2. PICK behind \in BOOLEAN :
        Reset(s, EndWait([k EXCEPT !.open = TRUE, !.silence = 0, !.lagging = behind]))
  BY DEF Rejoin
<1> DEFINE e == [k EXCEPT !.open = TRUE, !.silence = 0, !.lagging = behind]
<1>3. /\ e \in Clocks
      /\ e.holdAge = k.holdAge /\ e.holdMs = k.holdMs /\ e.holdSeen = k.holdSeen
      /\ e.kind = k.kind /\ e.defeated = k.defeated /\ e.open = TRUE
      /\ e.waitLeft = k.waitLeft /\ e.waitAge = k.waitAge /\ e.spent = k.spent
  <2>1. 0 \in 0 .. SilenceCap /\ k \in Clocks BY <1>1, ClocksAssumption DEF SilenceCap, Sound
  <2> HIDE DEF k
  <2> QED BY <2>1 DEF Clocks
<1>4. Reset(s, EndWait(e)) BY <1>2
<1> HIDE DEF e
<1>5. Sound(e, waited[s], held[s])
  BY <1>1, <1>3 DEF Sound, Balanced, FairHold, IsWaiting, Holding, StillIn, Human
<1>6. Sound(EndWait(e), waited[s], held[s]) /\ Shrinks(e, EndWait(e)) BY <1>5, EndWaitSound
<1>7. Shrinks(k, EndWait(e))
  <2>1. k \in Clocks /\ Shrinks(k, e) BY <1>1, <1>3, SameTimes DEF Sound
  <2> QED BY <1>3, <1>6, <2>1, ShrinksTwice DEF Sound
<1> QED BY <1>4, <1>6, <1>7, ResetKeeps DEF Rejoin

LEMMA DisconnectKeeps ==
  ASSUME IInv, NEW s \in Seats, Disconnect(s) \/ LeaveGame(s)
  PROVE  IInv' /\ ShrinkAll
<1>1. Sound(clock[s], waited[s], held[s]) BY DEF IInv, SoundSeats
<1>2. CASE Disconnect(s)
  <2>1. Sound(Drop(clock[s]), waited[s], held[s]) /\ Shrinks(clock[s], Drop(clock[s])) BY <1>1, DropSound
  <2> QED BY <1>2, <2>1, ResetKeeps DEF Disconnect
<1>3. CASE LeaveGame(s)
  <2>1. Sound(Leave(clock[s]), waited[s], held[s]) /\ Shrinks(clock[s], Leave(clock[s])) BY <1>1, LeaveSound
  <2> QED BY <1>3, <2>1, ResetKeeps DEF LeaveGame
<1> QED BY <1>2, <1>3

LEMMA FinishTickKeeps ==
  ASSUME IInv, FinishTick
  PROVE  IInv' /\ ShrinkAll
<1>1. PICK lost \in SUBSET {s \in Seats : StillIn(clock[s])},
           behind \in SUBSET {s \in Seats : clock[s].open} :
        clock' = [s \in Seats |-> [clock[s] EXCEPT !.defeated = @ \/ s \in lost,
                                                  !.lagging = @ \/ s \in behind]]
  BY DEF FinishTick
<1>2. \A s \in Seats : Sound(clock'[s], waited[s], held[s]) /\ Shrinks(clock[s], clock'[s])
  <2> SUFFICES ASSUME NEW s \in Seats
               PROVE  Sound(clock'[s], waited[s], held[s]) /\ Shrinks(clock[s], clock'[s])
    OBVIOUS
  <2> DEFINE k == clock[s]
             e == clock'[s]
  <2>1. Sound(k, waited[s], held[s]) BY DEF IInv, SoundSeats
  <2>2. /\ e \in Clocks
        /\ e.holdAge = k.holdAge /\ e.holdMs = k.holdMs /\ e.holdSeen = k.holdSeen
        /\ e.kind = k.kind /\ (k.defeated => e.defeated) /\ e.open = k.open
        /\ e.waitLeft = k.waitLeft /\ e.waitAge = k.waitAge /\ e.spent = k.spent
    <3>1. k \in Clocks BY <2>1 DEF Sound
    <3> DEFINE lose == k.defeated \/ s \in lost
               lag == k.lagging \/ s \in behind
    <3>2. lose \in BOOLEAN /\ lag \in BOOLEAN OBVIOUS
    <3>3. e = [k EXCEPT !.defeated = lose, !.lagging = lag] BY <1>1
    <3>4. k.defeated => lose OBVIOUS
    <3> HIDE DEF lose, lag, e
    <3> QED BY <3>1, <3>2, <3>3, <3>4 DEF Clocks
  <2> HIDE DEF e
  <2>3. Sound(e, waited[s], held[s])
    BY <2>1, <2>2 DEF Sound, Balanced, FairHold, IsWaiting, Holding, StillIn, Human
  <2>4. Shrinks(k, e) BY <2>1, <2>2, SameTimes DEF Sound
  <2> QED BY <2>3, <2>4 DEF e
<1>3. waited' = waited /\ held' = held /\ turn' = turn /\ turn = Serve BY DEF FinishTick, Serving
<1>4. SoundSeats' BY <1>2, <1>3 DEF SoundSeats
<1>5. TypeOK'
  <2>1. clock' \in [Seats -> Clocks] BY <1>1, <1>2 DEF Sound
  <2> QED BY <1>3, <2>1 DEF IInv, TypeOK, FinishTick
<1>6. ShrinkAll BY <1>2 DEF ShrinkAll
<1> QED BY <1>3, <1>4, <1>5, <1>6, ServingDone DEF IInv

LEMMA ScanKeeps ==
  ASSUME IInv, Scan
  PROVE  IInv' /\ ShrinkAll
<1> DEFINE c == [s \in Seats |-> Expired(Stalled(s))]
<1>1. /\ turn = Serve /\ clock' = Suspended(c)
      /\ turn' = IF HeldIn(c) \/ job # "none" THEN Sleeping ELSE 1
      /\ held' = [s \in Seats |-> Kept(clock'[s], held[s])]
      /\ waited' = waited /\ paused' = paused /\ job' = job /\ over' \in BOOLEAN
  BY DEF Scan, Serving, ForgetHolds, Kept
<1>2. \A s \in Seats :
        /\ Sound(c[s], waited[s], held[s])
        /\ c[s].open => clock[s].open
        /\ Shrinks(clock[s], c[s])
        /\ StillIn(c[s]) /\ c[s].open /\ ~IsWaiting(c[s]) /\ c[s].silence >= Stall => ~WaitedWith(s)
  <2> SUFFICES ASSUME NEW s \in Seats
               PROVE  /\ Sound(c[s], waited[s], held[s])
                      /\ c[s].open => clock[s].open
                      /\ Shrinks(clock[s], c[s])
                      /\ StillIn(c[s]) /\ c[s].open /\ ~IsWaiting(c[s]) /\ c[s].silence >= Stall
                           => ~WaitedWith(s)
    OBVIOUS
  <2> DEFINE e == Stalled(s)
  <2>1. /\ Sound(e, waited[s], held[s]) /\ e.open = clock[s].open
        /\ Shrinks(clock[s], e)
        /\ StillIn(e) /\ e.open /\ ~IsWaiting(e) /\ e.silence >= Stall => ~WaitedWith(s)
    BY StalledSound DEF IInv
  <2>2. c[s] = Expired(e) OBVIOUS
  <2> HIDE DEF e, c
  <2>3. /\ Sound(c[s], waited[s], held[s])
        /\ c[s].open => e.open
        /\ Shrinks(e, c[s])
        /\ StillIn(c[s]) => c[s] = e
    BY <2>1, <2>2, ExpiredSound
  <2>4. Shrinks(clock[s], c[s])
    BY <2>1, <2>3, ShrinksTwice DEF Sound, IInv, SoundSeats
  <2> QED BY <2>1, <2>3, <2>4
<1> HIDE DEF c
<1>3. \A s \in Seats :
        /\ Sound(clock'[s], waited[s], held[s])
        /\ clock'[s].open = c[s].open /\ clock'[s].silence = c[s].silence
        /\ StillIn(clock'[s]) = StillIn(c[s]) /\ IsWaiting(clock'[s]) = IsWaiting(c[s])
        /\ HeldIn(c) => clock'[s].holdSeen = None
        /\ Shrinks(c[s], clock'[s])
  <2>1. CASE HeldIn(c)
    <3>1. clock' = [s \in Seats |-> [c[s] EXCEPT !.holdSeen = None]]
      BY <1>1, <2>1 DEF Suspended
    <3> QED BY <1>2, <3>1, SuspendedSound
  <2>2. CASE ~HeldIn(c)
    <3>1. clock' = c BY <1>1, <2>2 DEF Suspended
    <3> QED BY <1>2, <2>2, <3>1, SameTimes DEF Sound
  <2> QED BY <2>1, <2>2
<1>4. SoundSeats'
  <2> SUFFICES ASSUME NEW s \in Seats PROVE Sound(clock'[s], waited[s], Kept(clock'[s], held[s]))
    BY <1>1 DEF SoundSeats
  <2> QED BY <1>3, KeptSound
<1>5. ScanDone'
  <2>1. HeldIn(clock)' => HeldIn(c) BY <1>1, <1>3 DEF HeldIn, WaitingIn
  <2>2. \A s \in Seats : WaitedWith(s)' => WaitedWith(s) BY <1>2, <1>3 DEF WaitedWith
  <2>3. turn' \in 1 .. Close => ~HeldIn(c) BY <1>1, Turns
  <2> QED BY <1>2, <1>3, <2>1, <2>2, <2>3 DEF ScanDone
<1>6. TypeOK'
  <2>1. \A s \in Seats : clock'[s] \in Clocks BY <1>3 DEF Sound
  <2>2. clock' \in [Seats -> Clocks]
    <3>1. clock' = [s \in Seats |-> clock'[s]]
      <4>1. CASE HeldIn(c) BY <1>1, <4>1 DEF Suspended
      <4>2. CASE ~HeldIn(c) BY <1>1, <4>2 DEF Suspended, c
      <4> QED BY <4>1, <4>2
    <3> QED BY <2>1, <3>1
  <2>3. held' \in [Seats -> Nat] BY <1>1 DEF IInv, TypeOK, Kept
  <2>4. turn' \in 0 .. Sleeping BY <1>1, Turns
  <2> QED BY <1>1, <2>2, <2>3, <2>4 DEF IInv, TypeOK
<1>7. ShrinkAll
  <2> SUFFICES ASSUME NEW s \in Seats PROVE Shrinks(clock[s], clock'[s]) BY DEF ShrinkAll
  <2>1. clock[s] \in Clocks /\ c[s] \in Clocks /\ clock'[s] \in Clocks
    BY <1>2, <1>3 DEF Sound, IInv, SoundSeats
  <2> QED BY <1>2, <1>3, <2>1, ShrinksTwice
<1> QED BY <1>4, <1>5, <1>6, <1>7 DEF IInv

LEMMA TrackHoldKeeps ==
  ASSUME IInv, NEW s \in Seats, TrackHold(s)
  PROVE  IInv' /\ ShrinkAll
<1>0. clock \in [Seats -> Clocks] /\ held \in [Seats -> Nat] /\ waited \in [Seats -> Nat]
  BY DEF IInv, TypeOK
<1>1. /\ turn = s /\ turn' = s + 1
      /\ clock' = [clock EXCEPT ![s] = Tracked(s)]
      /\ held' = [t \in Seats |-> Kept(clock'[t], held[t])]
      /\ waited' = waited /\ paused' = paused /\ job' = job /\ over' = over
  BY DEF TrackHold, ForgetHolds, Kept
<1>2. s \in 1 .. NSeats BY DEF Seats
<1>3. ~HeldIn(clock) BY <1>1, <1>2, Turns DEF IInv, ScanDone
<1>4. ~IsWaiting(clock[s]) BY <1>3 DEF HeldIn, WaitingIn
<1> DEFINE e == Tracked(s)
<1>5. /\ Sound(e, waited[s], held[s])
      /\ ~IsWaiting(e)
      /\ Shrinks(clock[s], e)
      /\ e.open => clock[s].open
      /\ StillIn(e) => StillIn(clock[s]) /\ e.silence = clock[s].silence
  BY <1>4, TrackedSound DEF IInv
<1> HIDE DEF e
<1>6. clock' = [clock EXCEPT ![s] = e] BY <1>1 DEF e
<1>7. SoundSeats'
  <2> SUFFICES ASSUME NEW t \in Seats PROVE Sound(clock'[t], waited[t], Kept(clock'[t], held[t]))
    BY <1>0, <1>1 DEF SoundSeats
  <2>1. Sound(clock'[t], waited[t], held[t])
    BY <1>0, <1>5, <1>6 DEF IInv, SoundSeats
  <2> QED BY <2>1, KeptSound
<1>8. ScanDone'
  <2>1. ~HeldIn(clock)'
    BY <1>0, <1>1, <1>3, <1>5, <1>6 DEF HeldIn, WaitingIn
  <2>2. \A t \in Seats : clock'[t].open => clock[t].open BY <1>0, <1>5, <1>6
  <2>3. \A t \in Seats : WaitedWith(t)' => WaitedWith(t) BY <2>2 DEF WaitedWith
  <2>4. turn # Serve BY <1>1, <1>2, Turns
  <2>5. ASSUME NEW t \in Seats,
               StillIn(clock'[t]), clock'[t].open, ~IsWaiting(clock'[t]), clock'[t].silence >= Stall
        PROVE  ~WaitedWith(t)
    <3>1. CASE t = s
      BY <1>0, <1>4, <1>5, <1>6, <2>4, <2>5, <3>1 DEF IInv, ScanDone
    <3>2. CASE t # s
      BY <1>0, <1>6, <2>4, <2>5, <3>2 DEF IInv, ScanDone
    <3> QED BY <3>1, <3>2
  <2> QED BY <2>1, <2>3, <2>5 DEF ScanDone
<1>9. TypeOK'
  <2>1. clock' \in [Seats -> Clocks] BY <1>0, <1>5, <1>6 DEF Sound
  <2>2. held' \in [Seats -> Nat] BY <1>0, <1>1 DEF Kept
  <2>3. turn' \in 0 .. Sleeping BY <1>1, <1>2, Turns
  <2> QED BY <1>1, <2>1, <2>2, <2>3 DEF IInv, TypeOK
<1>10. ShrinkAll
  <2> SUFFICES ASSUME NEW t \in Seats PROVE Shrinks(clock[t], clock'[t]) BY DEF ShrinkAll
  <2>1. CASE t = s BY <1>0, <1>5, <1>6, <2>1
  <2>2. CASE t # s
    <3>1. clock'[t] = clock[t] /\ clock[t] \in Clocks BY <1>0, <1>6, <2>2
    <3> QED BY <3>1, SameTimes
  <2> QED BY <2>1, <2>2
<1> QED BY <1>7, <1>8, <1>9, <1>10 DEF IInv

LEMMA CloseTickKeeps ==
  ASSUME IInv, CloseTick
  PROVE  IInv' /\ ShrinkAll
<1>1. /\ turn = Close /\ turn' = Sleeping
      /\ clock' = clock /\ paused' = paused /\ over' = over /\ waited' = waited /\ held' = held
      /\ job' \in {job, "running"}
  BY DEF CloseTick
<1>2. ~HeldIn(clock) BY <1>1, Turns DEF IInv, ScanDone
<1>3. ~HeldIn(clock)' BY <1>1, <1>2 DEF HeldIn, WaitingIn
<1>4. SoundSeats' BY <1>1 DEF IInv, SoundSeats
<1>5. ScanDone'
  <2>1. turn # Serve /\ turn' \notin 1 .. Close BY <1>1, Turns
  <2>2. \A s \in Seats : WaitedWith(s)' = WaitedWith(s) BY <1>1 DEF WaitedWith
  <2> QED BY <1>1, <1>3, <2>1, <2>2 DEF IInv, ScanDone
<1>6. TypeOK' BY <1>1, Turns DEF IInv, TypeOK
<1>7. ShrinkAll BY <1>1, SameTimes DEF ShrinkAll, IInv, SoundSeats, Sound
<1> QED BY <1>4, <1>5, <1>6, <1>7 DEF IInv

\* Who times out while somebody holds the game was waited for, or was alone:
\* a deadline that comes after the silence that is noticed holds up nobody.
LEMMA SleepKeeps ==
  ASSUME IInv, Sleep
  PROVE  IInv' /\ ShrinkAll
<1> DEFINE c == [s \in Seats |-> TimedOut(clock[s])]
<1>1. /\ turn = Sleeping /\ turn' = Serve
      /\ clock' = [s \in Seats |-> Aged(c[s])]
      /\ waited' = [s \in Seats |-> IF c[s].waitLeft > 0 THEN waited[s] + 1 ELSE waited[s]]
      /\ held' = [s \in Seats |-> IF ~Holding(c[s]) THEN 0
                                  ELSE IF HeldIn(c) THEN held[s] ELSE Older(held[s], HeldCap)]
      /\ paused' = paused /\ job' = job /\ over' = over
  BY DEF Sleep
<1>2. \A s \in Seats :
        /\ Sound(c[s], waited[s], held[s])
        /\ c[s].open => clock[s].open
        /\ Shrinks(clock[s], c[s])
        /\ StillIn(c[s]) /\ Holding(c[s]) => c[s] = clock[s]
        /\ IsWaiting(c[s]) /\ ~IsWaiting(clock[s]) =>
             StillIn(clock[s]) /\ clock[s].open /\ clock[s].silence > Timeout
  BY TimedOutSound DEF IInv, SoundSeats
<1> HIDE DEF c
<1>3. ASSUME NEW s \in Seats, HeldIn(c), Stall <= Timeout, StillIn(c[s]), Holding(c[s])
      PROVE  c[s].holdSeen = None
  <2>1. c[s] = clock[s] BY <1>2, <1>3
  <2>2. CASE HeldIn(clock)
    BY <1>1, <2>1, <2>2 DEF IInv, ScanDone
  <2>3. CASE ~HeldIn(clock)
    <3>1. PICK t \in Seats : IsWaiting(c[t]) /\ ~IsWaiting(clock[t])
      BY <1>3, <2>3 DEF HeldIn, WaitingIn
    <3>2. StillIn(clock[t]) /\ clock[t].open /\ clock[t].silence > Timeout BY <1>2, <3>1
    <3>3. clock[t].silence >= Stall
      <4>1. clock[t].silence \in Nat
        <5>1. clock[t].silence \in 0 .. SilenceCap BY DEF IInv, TypeOK, Clocks
        <5> QED BY <5>1, ClocksAssumption DEF SilenceCap
      <4> QED BY <1>3, <3>2, <4>1, ClocksAssumption
    <3>4. ~WaitedWith(t)
      <4>1. turn # Serve BY <1>1, Turns
      <4> QED BY <3>1, <3>2, <3>3, <4>1 DEF IInv, ScanDone
    <3>5. clock[s].open BY <1>2, <1>3, <2>1 DEF Sound, FairHold
    <3>6. s = t BY <3>4, <3>5 DEF WaitedWith
    <3>7. ~IsWaiting(c[s]) BY <1>2, <1>3 DEF Sound
    <3> QED BY <3>1, <3>6, <3>7
  <2> QED BY <2>2, <2>3
<1>4. HeldIn(c) \in BOOLEAN
  BY DEF HeldIn, IInv, TypeOK
<1>5. \A s \in Seats : Sound(clock'[s], waited'[s], held'[s]) /\ Shrinks(c[s], clock'[s])
  <2> SUFFICES ASSUME NEW s \in Seats
               PROVE  Sound(clock'[s], waited'[s], held'[s]) /\ Shrinks(c[s], clock'[s])
    OBVIOUS
  <2>1. /\ Sound(Aged(c[s]), IF c[s].waitLeft > 0 THEN waited[s] + 1 ELSE waited[s],
                 IF ~Holding(c[s]) THEN 0 ELSE IF HeldIn(c) THEN held[s] ELSE Older(held[s], HeldCap))
        /\ Shrinks(c[s], Aged(c[s]))
    BY <1>2, <1>3, <1>4, AgedSound
  <2> QED BY <1>1, <2>1
<1>6. SoundSeats' BY <1>5 DEF SoundSeats
<1>7. TypeOK'
  <2>1. clock' \in [Seats -> Clocks]
    <3>1. \A s \in Seats : clock'[s] \in Clocks BY <1>5 DEF Sound
    <3>2. clock' = [s \in Seats |-> clock'[s]] BY <1>1
    <3> QED BY <3>1, <3>2
  <2>2. waited' \in [Seats -> Nat]
    <3>1. \A s \in Seats : waited'[s] \in Nat BY <1>5 DEF Sound
    <3>2. waited' = [s \in Seats |-> waited'[s]] BY <1>1
    <3> QED BY <3>1, <3>2
  <2>3. held' \in [Seats -> Nat]
    <3>1. \A s \in Seats : held'[s] \in Nat BY <1>5 DEF Sound
    <3>2. held' = [s \in Seats |-> held'[s]] BY <1>1
    <3> QED BY <3>1, <3>2
  <2>4. turn' \in 0 .. Sleeping BY <1>1, Turns
  <2> QED BY <1>1, <2>1, <2>2, <2>3, <2>4 DEF IInv, TypeOK
<1>8. ShrinkAll
  <2> SUFFICES ASSUME NEW s \in Seats PROVE Shrinks(clock[s], clock'[s]) BY DEF ShrinkAll
  <2>1. clock[s] \in Clocks /\ c[s] \in Clocks /\ clock'[s] \in Clocks
    BY <1>2, <1>5 DEF Sound, IInv, SoundSeats
  <2> QED BY <1>2, <1>5, <2>1, ShrinksTwice
<1> QED BY <1>1, <1>6, <1>7, <1>8, ServingDone DEF IInv

\* A pause, a tick that ends and a step that changes nothing touch no clock.
LEMMA ClocksRest ==
  ASSUME IInv, SetPause \/ WorkerDone \/ UNCHANGED vars
  PROVE  IInv' /\ ShrinkAll
<1>1. clock' = clock /\ waited' = waited /\ held' = held /\ turn' = turn /\ over' = over
  BY DEF SetPause, WorkerDone, vars
<1>2. paused' \in BOOLEAN /\ job' \in {"none", "running", "done"}
  BY DEF IInv, TypeOK, SetPause, WorkerDone, vars
<1>3. SoundSeats' /\ TypeOK' BY <1>1, <1>2 DEF IInv, SoundSeats, TypeOK
<1>4. ScanDone'
  <2>1. CASE turn = Serve BY <1>1, <2>1, ServingDone
  <2>2. CASE turn # Serve
    <3>1. paused' = paused BY <2>2 DEF SetPause, Serving, WorkerDone, vars
    <3>2. HeldIn(clock)' = HeldIn(clock) BY <1>1, <3>1 DEF HeldIn, WaitingIn
    <3>3. \A s \in Seats : WaitedWith(s)' = WaitedWith(s) BY <1>1 DEF WaitedWith
    <3> QED BY <1>1, <3>2, <3>3 DEF IInv, ScanDone
  <2> QED BY <2>1, <2>2
<1>5. ShrinkAll BY <1>1, SameTimes DEF ShrinkAll, IInv, SoundSeats, Sound
<1> QED BY <1>3, <1>4, <1>5 DEF IInv

LEMMA NextInvariant ==
  ASSUME IInv, [Next]_vars
  PROVE  IInv' /\ ShrinkAll
<1>1. ASSUME NEW s \in Seats, Hear(s) PROVE IInv' /\ ShrinkAll BY <1>1, HearKeeps
<1>2. ASSUME NEW s \in Seats, Disconnect(s) PROVE IInv' /\ ShrinkAll BY <1>2, DisconnectKeeps
<1>3. ASSUME NEW s \in Seats, LeaveGame(s) PROVE IInv' /\ ShrinkAll BY <1>3, DisconnectKeeps
<1>4. ASSUME NEW s \in Seats, Rejoin(s) PROVE IInv' /\ ShrinkAll BY <1>4, RejoinKeeps
<1>5. CASE SetPause BY <1>5, ClocksRest
<1>6. CASE WorkerDone BY <1>6, ClocksRest
<1>7. CASE FinishTick BY <1>7, FinishTickKeeps
<1>8. CASE Scan BY <1>8, ScanKeeps
<1>9. ASSUME NEW s \in Seats, TrackHold(s) PROVE IInv' /\ ShrinkAll BY <1>9, TrackHoldKeeps
<1>10. CASE CloseTick BY <1>10, CloseTickKeeps
<1>11. CASE Sleep BY <1>11, SleepKeeps
<1>12. CASE UNCHANGED vars BY <1>12, ClocksRest
<1> QED
  BY <1>1, <1>2, <1>3, <1>4, <1>5, <1>6, <1>7, <1>8, <1>9, <1>10, <1>11, <1>12 DEF Next, Loop

LEMMA Invariant == Spec => []IInv
<1>1. Init => IInv BY InitInvariant
<1>2. IInv /\ [Next]_vars => IInv' BY NextInvariant
<1> QED BY <1>1, <1>2, PTL DEF Spec

-----------------------------------------------------------------------------
(* The theorems.                                                           *)

\* Every reachable state is well-typed; in particular no seat is ever charged
\* more than its budget (chargeWait).
THEOREM TypeCorrect == Spec => []TypeOK
<1>1. IInv => TypeOK BY DEF IInv
<1> QED BY <1>1, Invariant, PTL

\* However often a player drops and comes back, the room waits for it no longer
\* than its budget in all (beginWait, endWait).
THEOREM WaitsAreBounded == Spec => []WaitBounded
<1>1. ASSUME IInv PROVE WaitBounded
  <2> SUFFICES ASSUME NEW s \in Seats PROVE waited[s] <= Budget BY DEF WaitBounded
  <2>1. Sound(clock[s], waited[s], held[s]) BY <1>1 DEF IInv, SoundSeats
  <2> QED BY <2>1, SoundStarts, Bounded
<1> QED BY <1>1, Invariant, PTL

\* A seat being waited for has no hold to be charged for the same time
\* (beginWait ends it, trackHolds begins none).
THEOREM OneClockRuns == Spec => []OneClock
<1>1. IInv => OneClock BY DEF IInv, SoundSeats, Sound, OneClock
<1> QED BY <1>1, Invariant, PTL

\* When a silence is noticed before it times out, as it is by default, nothing
\* but the hold itself is charged as a hold, whoever pauses or is waited for
\* meanwhile (server.cpp:3254-3255).
THEOREM HoldsAreTheirOwn ==
  ASSUME Stall <= Timeout
  PROVE  Spec => []PauseCostsNothing
<1>1. IInv => PauseCostsNothing BY DEF IInv, SoundSeats, Sound, FairHold, PauseCostsNothing
<1> QED BY <1>1, Invariant, PTL

\* A player back before its countdown ran out has at most what the countdown
\* showed left for the next time, and nobody is given time back (endWait,
\* chargeWait).
THEOREM CountdownsAreHonest == Spec => CountdownHonest
<1> DEFINE Honest == \A s \in Seats :
                       LET k == clock[s]  n == clock'[s]
                       IN  /\ Left(n) <= Left(k)
                           /\ IsWaiting(k) /\ ~IsWaiting(n) => Left(n) <= k.waitLeft
<1>1. IInv /\ [Next]_vars => [Honest]_vars
  <2>1. ShrinkAll => Honest BY DEF ShrinkAll, Shrinks, Time
  <2> QED BY <2>1, NextInvariant
<1> HIDE DEF Honest
<1>2. Spec => [][Honest]_vars BY <1>1, Invariant, PTL DEF Spec
<1> QED BY <1>2 DEF CountdownHonest, Honest

-----------------------------------------------------------------------------
(* Taking turns at a tick's orders.                                        *)

\* How many slots have their turn before slot s.
Ahead(s) == IF s >= orderRotor THEN s - orderRotor ELSE s - orderRotor + NSlots

\* A slot that is passed over comes nearer to its turn, and a slot whose
\* connection is gone has nothing queued.
DrainInv ==
  /\ DrainTypeOK
  /\ \A s \in Slots : s \notin connected => drainQueue[s] = <<>>
  /\ \A s \in Slots : passed[s] + Ahead(s) <= NSlots - 1

LEMMA LeastOf ==
  ASSUME NEW S \in SUBSET Nat, S # {}
  PROVE  \E n \in S : \A m \in S : n <= m
  <1> DEFINE R == OpToRel(<, Nat)
  <1>1. PICK n \in S : \A m \in S : ~(<<m, n>> \in R)
    <2> HIDE DEF R
    <2>1. IsWellFoundedOn(R, Nat)
      BY NatLessThanWellFounded, Zenon DEF R
    <2> QED
      BY <2>1, WFMin, Zenon
  <1>2. \A m \in S : ~(m < n)
    BY <1>1, Zenon DEF OpToRel
  <1> QED
    BY <1>2

LEMMA Induction ==
  ASSUME NEW S, 0 \in S, \A n \in Nat : n \in S => n + 1 \in S
  PROVE  Nat \subseteq S
  <1> SUFFICES ASSUME NEW k \in Nat, k \notin S PROVE FALSE
    OBVIOUS
  <1> DEFINE Out == Nat \ S
  <1>1. PICK n \in Out : \A m \in Out : n <= m
    <2>1. Out \in SUBSET Nat /\ Out # {}
      OBVIOUS
    <2> QED
      BY <2>1, LeastOf
  <1>2. n # 0 /\ n - 1 \in Nat /\ n - 1 \in S
    BY <1>1
  <1> QED
    BY <1>1, <1>2

\* The slots in the order of the round, from the rotor's on.
LEMMA Round ==
  ASSUME orderRotor \in Slots
  PROVE  /\ \A s \in Slots : /\ Ahead(s) \in 0 .. NSlots - 1 /\ (s - orderRotor) % NSlots = Ahead(s)
                             /\ Ahead(s) = 0 => s = orderRotor
         /\ \A k \in 0 .. NSlots - 1 : Turn(k) \in Slots
         /\ NextRotor = IF orderRotor + 1 = NSlots THEN 0 ELSE orderRotor + 1
         /\ \A s \in Slots : Turn(Ahead(s)) = s
  <1>1. NSlots \in Nat \ {0} /\ orderRotor \in 0 .. NSlots - 1
    BY DrainAssumption DEF Slots
  <1>2. ASSUME NEW s \in Slots
        PROVE  /\ Ahead(s) \in 0 .. NSlots - 1 /\ (s - orderRotor) % NSlots = Ahead(s)
               /\ Ahead(s) = 0 => s = orderRotor
               /\ Turn(Ahead(s)) = s
    <2>1. s \in 0 .. NSlots - 1
      BY DEF Slots
    <2>2. CASE s >= orderRotor
      <3>1. Ahead(s) = s - orderRotor /\ s - orderRotor \in 0 .. NSlots - 1
        BY <1>1, <2>1, <2>2 DEF Ahead
      <3>2. (s - orderRotor) % NSlots = s - orderRotor
        BY <1>1, <3>1
      <3>3. Turn(Ahead(s)) = s
        BY <1>1, <2>1, <3>1 DEF Turn
      <3> QED
        BY <1>1, <2>1, <3>1, <3>2, <3>3
    <2>3. CASE s < orderRotor
      <3>1. Ahead(s) = s - orderRotor + NSlots /\ s - orderRotor + NSlots \in 1 .. NSlots - 1
        BY <1>1, <2>1, <2>3 DEF Ahead
      <3>2. (s - orderRotor) % NSlots = s - orderRotor + NSlots
        BY <1>1, <2>1, <3>1
      <3>3. Turn(Ahead(s)) = s
        <4>1. orderRotor + Ahead(s) = s + NSlots
          BY <1>1, <2>1, <3>1
        <4>2. (s + NSlots) % NSlots = s
          BY <1>1, <2>1
        <4> QED
          BY <4>1, <4>2 DEF Turn
      <3> QED
        BY <1>1, <2>1, <3>1, <3>2, <3>3
    <2> QED
      BY <1>1, <2>1, <2>2, <2>3
  <1>3. ASSUME NEW k \in 0 .. NSlots - 1 PROVE Turn(k) \in Slots
    <2>1. orderRotor + k \in Nat
      BY <1>1
    <2> QED
      BY <1>1, <2>1 DEF Turn, Slots
  <1>4. NextRotor = IF orderRotor + 1 = NSlots THEN 0 ELSE orderRotor + 1
    BY <1>1 DEF NextRotor
  <1> QED
    BY <1>2, <1>3, <1>4

\* The sum that Bytes builds up item by item.
LEMMA BytesOf ==
  ASSUME NEW s, drainQueue[s] \in Seq(Items), NEW n \in 0 .. Len(drainQueue[s])
  PROVE  /\ Bytes(s, n) \in Nat /\ Bytes(s, 0) = 0
         /\ n > 0 => Bytes(s, 1) = drainQueue[s][1]
  <1> DEFINE q == drainQueue[s]
             upTo(N) == CHOOSE f : f = [k \in 0 .. N |-> IF k = 0 THEN 0 ELSE f[k - 1] + q[k]]
             S == {N \in Nat : \E f : f = [k \in 0 .. N |-> IF k = 0 THEN 0 ELSE f[k - 1] + q[k]]}
  <1>1. Len(q) \in Nat /\ \A i \in 1 .. Len(q) : q[i] \in Nat
    BY DrainAssumption DEF Items, Orders, Command
  <1>2. Nat \subseteq S
    <2>1. 0 \in S
      <3> DEFINE g == [k \in 0 .. 0 |-> 0]
      <3>1. g = [k \in 0 .. 0 |-> IF k = 0 THEN 0 ELSE g[k - 1] + q[k]]
        OBVIOUS
      <3> QED
        BY <3>1
    <2>2. ASSUME NEW N \in Nat, N \in S PROVE N + 1 \in S
      <3>1. PICK g : g = [k \in 0 .. N |-> IF k = 0 THEN 0 ELSE g[k - 1] + q[k]]
        BY <2>2
      <3> DEFINE h == [k \in 0 .. N + 1 |-> IF k \in 0 .. N THEN g[k] ELSE g[N] + q[N + 1]]
      <3>2. h = [k \in 0 .. N + 1 |-> IF k = 0 THEN 0 ELSE h[k - 1] + q[k]]
        <4> HIDE DEF q, S
        <4>1. \A k \in 0 .. N : h[k] = g[k] /\ k \in 0 .. N + 1
          OBVIOUS
        <4>2. h[N + 1] = g[N] + q[N + 1] /\ N \in 0 .. N /\ N + 1 \notin 0 .. N
          OBVIOUS
        <4>3. \A k \in 0 .. N : g[k] = IF k = 0 THEN 0 ELSE g[k - 1] + q[k]
          BY <3>1
        <4>4. ASSUME NEW k \in 0 .. N + 1 PROVE h[k] = IF k = 0 THEN 0 ELSE h[k - 1] + q[k]
          <5>1. CASE k = N + 1
            <6>1. k # 0 /\ k - 1 = N
              BY <5>1
            <6> HIDE DEF h
            <6> QED
              BY <4>1, <4>2, <5>1, <6>1
          <5>2. CASE k # N + 1
            <6>1. k \in 0 .. N /\ (k # 0 => k - 1 \in 0 .. N)
              BY <5>2
            <6> HIDE DEF h
            <6> QED
              BY <4>1, <4>3, <6>1
          <5> QED
            BY <5>1, <5>2
        <4> QED
          BY <4>4
      <3> HIDE DEF h
      <3> QED
        BY <3>2
    <2> HIDE DEF S
    <2> QED
      BY <2>1, <2>2, Induction
  <1>3. ASSUME NEW N \in Nat
        PROVE  upTo(N) = [k \in 0 .. N |-> IF k = 0 THEN 0 ELSE upTo(N)[k - 1] + q[k]]
    <2>1. \E f : f = [k \in 0 .. N |-> IF k = 0 THEN 0 ELSE f[k - 1] + q[k]]
      BY <1>2
    <2> QED
      BY <2>1
  <1>4. \A N : Bytes(s, N) = upTo(N)[N]
    BY DEF Bytes
  <1> HIDE DEF upTo, S, q
  <1>5. Bytes(s, 0) = 0
    BY <1>3, <1>4
  <1>6. Bytes(s, 1) = 0 + q[1]
    <2> DEFINE f == upTo(1)
    <2>1. f = [k \in 0 .. 1 |-> IF k = 0 THEN 0 ELSE f[k - 1] + q[k]]
      BY <1>3
    <2> HIDE DEF f
    <2>2. f[0] = 0 /\ f[1] = f[0] + q[1]
      BY <2>1
    <2> QED
      BY <1>4, <2>2 DEF f
  <1>7. Bytes(s, n) \in Nat
    <2> DEFINE f == upTo(n)
               Good == {k \in Nat : k <= n => f[k] \in Nat}
    <2>1. n \in Nat /\ n <= Len(q)
      BY <1>1 DEF q
    <2>2. f = [k \in 0 .. n |-> IF k = 0 THEN 0 ELSE f[k - 1] + q[k]]
      BY <1>3, <2>1
    <2> HIDE DEF f
    <2>3. 0 \in Good
      BY <2>1, <2>2
    <2>4. ASSUME NEW k \in Nat, k \in Good PROVE k + 1 \in Good
      <3> SUFFICES ASSUME k + 1 <= n PROVE f[k + 1] \in Nat
        OBVIOUS
      <3>1. f[k + 1] = f[k] + q[k + 1]
        BY <2>1, <2>2
      <3>2. k + 1 \in 1 .. Len(q) /\ f[k] \in Nat
        BY <1>1, <2>1, <2>4
      <3> QED
        BY <1>1, <3>1, <3>2
    <2>5. Nat \subseteq Good
      <3> HIDE DEF Good
      <3> QED
        BY <2>3, <2>4, Induction
    <2>6. f[n] \in Nat
      BY <2>1, <2>5
    <2> QED
      BY <1>4, <2>6 DEF f
  <1>8. n > 0 => q[1] \in Nat
    BY <1>1 DEF q
  <1> QED
    BY <1>5, <1>6, <1>7, <1>8 DEF q

\* What a slot drains fits, and the item behind it does not.
LEMMA DrainsFit ==
  ASSUME DrainTypeOK, NEW s \in Slots, NEW used \in 0 .. TickBytes
  PROVE  LET n == Drains(s, used) IN
         /\ n \in 0 .. Len(drainQueue[s])
         /\ Bytes(s, n) \in 0 .. allowance[s] /\ used + Bytes(s, n) \in 0 .. TickBytes
         /\ s \in connected /\ n < Len(drainQueue[s]) => ~Fits(s, n + 1, used)
  <1> DEFINE q == drainQueue[s]
             n == Drains(s, used)
  <1>1. q \in Seq(Items) /\ Len(q) \in Nat /\ allowance[s] \in Nat
    BY DrainAssumption DEF DrainTypeOK
  <1>2. TickBytes \in Nat /\ CmdCap \in Nat
    BY DrainAssumption
  <1>3. \A k \in 0 .. Len(q) : Bytes(s, k) \in Nat /\ Bytes(s, 0) = 0
    BY <1>1, BytesOf
  <1>4. Fits(s, 0, used)
    <2>1. {k \in 1 .. 0 : q[k] = Command} = {}
      OBVIOUS
    <2>2. Commands(s, 0) = 0
      BY <2>1, FS_EmptySet DEF Commands
    <2>3. Bytes(s, 0) = 0
      BY <1>1, <1>3
    <2> QED
      BY <1>1, <1>2, <2>2, <2>3 DEF Fits
  <1>5. \E k \in 0 .. Len(q) : Fits(s, k, used) /\ (k < Len(q) => ~Fits(s, k + 1, used))
    <2> DEFINE G == {k \in 0 .. Len(q) : k < Len(q) => ~Fits(s, k + 1, used)}
    <2>1. G \in SUBSET Nat /\ Len(q) \in G
      BY <1>1
    <2> HIDE DEF q
    <2>2. PICK k \in G : \A j \in G : k <= j
      <3> HIDE DEF G
      <3> QED
        BY <2>1, LeastOf
    <2>3. CASE k = 0
      BY <1>4, <2>2, <2>3
    <2>4. CASE k > 0
      <3>1. k - 1 \in 0 .. Len(q) /\ k - 1 < Len(q) /\ (k - 1) + 1 = k /\ ~(k <= k - 1)
        BY <1>1, <2>2, <2>4
      <3>2. k - 1 \notin G
        BY <2>2, <3>1
      <3>3. Fits(s, k, used)
        BY <3>1, <3>2
      <3> QED
        BY <2>2, <3>3
    <2> QED
      BY <1>1, <2>2, <2>3, <2>4
  <1>6. CASE s \in connected
    <2>1. n = CHOOSE k \in 0 .. Len(q) : Fits(s, k, used) /\ (k < Len(q) => ~Fits(s, k + 1, used))
      BY <1>6 DEF Drains
    <2> HIDE DEF n, q
    <2>2. n \in 0 .. Len(q) /\ Fits(s, n, used) /\ (n < Len(q) => ~Fits(s, n + 1, used))
      BY <1>5, <2>1
    <2>3. Bytes(s, n) \in Nat /\ used + Bytes(s, n) <= TickBytes /\ Bytes(s, n) <= allowance[s]
      BY <1>3, <2>2 DEF Fits
    <2> QED
      BY <1>1, <1>2, <2>2, <2>3 DEF n, q
  <1>7. CASE s \notin connected
    <2>1. n = 0
      BY <1>7 DEF Drains
    <2>2. Bytes(s, 0) = 0
      BY <1>1, <1>3
    <2> QED
      BY <1>1, <1>2, <1>7, <2>1, <2>2
  <1> QED
    BY <1>6, <1>7


\* What the room drains in a tick: each slot what fits after those before it,
\* and the first slot of the round what fits alone.
LEMMA TakenFits ==
  ASSUME DrainTypeOK
  PROVE  /\ \A s \in Slots : /\ Taken[s] \in 0 .. Len(drainQueue[s])
                             /\ Bytes(s, Taken[s]) \in 0 .. allowance[s]
         /\ Taken[orderRotor] = Drains(orderRotor, 0)
  <1> DEFINE After(k, u) == u + Bytes(Turn(k - 1), Drains(Turn(k - 1), u))
             used == CHOOSE f : f = [k \in 0 .. NSlots |-> IF k = 0 THEN 0 ELSE After(k, f[k - 1])]
             S == {N \in Nat : \E f : f = [k \in 0 .. N |-> IF k = 0 THEN 0 ELSE After(k, f[k - 1])]}
             Good == {k \in Nat : k <= NSlots => used[k] \in 0 .. TickBytes}
  <1>1. NSlots \in Nat \ {0} /\ TickBytes \in Nat /\ orderRotor \in Slots
    BY DrainAssumption DEF DrainTypeOK
  <1>2. ASSUME NEW k \in 1 .. NSlots, NEW u \in 0 .. TickBytes PROVE After(k, u) \in 0 .. TickBytes
    <2>1. k - 1 \in 0 .. NSlots - 1
      BY <1>1
    <2>2. Turn(k - 1) \in Slots
      BY <1>1, <2>1, Round
    <2> QED
      BY <2>2, DrainsFit
  <1>3. Taken = [s \in Slots |-> Drains(s, used[(s - orderRotor) % NSlots])]
    BY DEF Taken
  <1>4. used = [k \in 0 .. NSlots |-> IF k = 0 THEN 0 ELSE After(k, used[k - 1])]
    <2> HIDE DEF After
    <2>1. 0 \in S
      <3> DEFINE g == [k \in 0 .. 0 |-> 0]
      <3>1. g = [k \in 0 .. 0 |-> IF k = 0 THEN 0 ELSE After(k, g[k - 1])]
        OBVIOUS
      <3> QED
        BY <3>1
    <2>2. ASSUME NEW N \in Nat, N \in S PROVE N + 1 \in S
      <3>1. PICK g : g = [k \in 0 .. N |-> IF k = 0 THEN 0 ELSE After(k, g[k - 1])]
        BY <2>2
      <3> DEFINE h == [k \in 0 .. N + 1 |-> IF k \in 0 .. N THEN g[k] ELSE After(N + 1, g[N])]
      <3>2. h = [k \in 0 .. N + 1 |-> IF k = 0 THEN 0 ELSE After(k, h[k - 1])]
        BY <3>1
      <3> HIDE DEF h
      <3> QED
        BY <3>2
    <2>3. Nat \subseteq S
      <3> HIDE DEF S
      <3> QED
        BY <2>1, <2>2, Induction
    <2>4. \E f : f = [k \in 0 .. NSlots |-> IF k = 0 THEN 0 ELSE After(k, f[k - 1])]
      BY <1>1, <2>3
    <2> QED
      BY <2>4
  <1> HIDE DEF After, used, S
  <1>5. used[0] = 0
    BY <1>1, <1>4
  <1>6. Nat \subseteq Good
    <2>1. 0 \in Good
      BY <1>1, <1>5
    <2>2. ASSUME NEW k \in Nat, k \in Good PROVE k + 1 \in Good
      <3> SUFFICES ASSUME k + 1 <= NSlots PROVE used[k + 1] \in 0 .. TickBytes
        OBVIOUS
      <3>1. k + 1 \in 1 .. NSlots /\ k + 1 \in 0 .. NSlots /\ k + 1 # 0 /\ (k + 1) - 1 = k /\ k <= NSlots
        BY <1>1
      <3>2. used[k + 1] = After(k + 1, used[k])
        BY <1>4, <3>1
      <3>3. used[k] \in 0 .. TickBytes
        BY <2>2, <3>1
      <3> QED
        BY <1>2, <3>1, <3>2, <3>3
    <2> HIDE DEF Good
    <2> QED
      BY <2>1, <2>2, Induction
  <1>7. ASSUME NEW s \in Slots
        PROVE  /\ Taken[s] = Drains(s, used[Ahead(s)]) /\ Ahead(s) \in 0 .. NSlots - 1
               /\ used[Ahead(s)] \in 0 .. TickBytes
    <2>1. Ahead(s) \in 0 .. NSlots - 1 /\ (s - orderRotor) % NSlots = Ahead(s)
      BY <1>1, Round
    <2>2. Ahead(s) \in Nat /\ Ahead(s) <= NSlots
      BY <1>1, <2>1
    <2>3. used[Ahead(s)] \in 0 .. TickBytes
      BY <1>6, <2>2
    <2> QED
      BY <1>3, <2>1, <2>3
  <1>8. ASSUME NEW s \in Slots
        PROVE  Taken[s] \in 0 .. Len(drainQueue[s]) /\ Bytes(s, Taken[s]) \in 0 .. allowance[s]
    BY <1>7, DrainsFit
  <1>9. Taken[orderRotor] = Drains(orderRotor, 0)
    <2>1. Ahead(orderRotor) = 0
      BY <1>1 DEF Ahead, Slots
    <2> QED
      BY <1>1, <1>5, <1>7, <2>1
  <1> QED
    BY <1>8, <1>9

\* Who is first in the round is not passed over.
LEMMA FirstIsServed ==
  ASSUME DrainInv, PassesOver(orderRotor)
  PROVE  Taken[orderRotor] # 0
  <1> DEFINE s == orderRotor
             q == drainQueue[s]
  <1>1. /\ DrainTypeOK /\ s \in Slots /\ q \in Seq(Items) /\ q # <<>> /\ s \in connected
        /\ Head(q) \in Orders /\ Head(q) <= allowance[s]
    BY DEF DrainInv, DrainTypeOK, PassesOver
  <1>2. Len(q) \in Nat /\ Len(q) > 0 /\ Head(q) = q[1] /\ 1 \in 0 .. Len(q)
    BY <1>1
  <1>3. TickBytes \in Nat /\ CmdCap \in Nat /\ 0 \in 0 .. TickBytes
    BY DrainAssumption
  <1> HIDE DEF s, q
  <1>4. Fits(s, 1, 0)
    <2>1. Bytes(s, 1) = q[1]
      BY <1>1, <1>2, BytesOf DEF q
    <2>2. q[1] \in 1 .. TickBytes
      BY <1>1, <1>2 DEF Orders
    <2>3. {k \in 1 .. 1 : q[k] = Command} = {}
      BY <2>2 DEF Command
    <2>4. Commands(s, 1) = 0
      BY <2>3, FS_EmptySet DEF Commands, q
    <2> QED
      BY <1>1, <1>2, <1>3, <2>1, <2>2, <2>4 DEF Fits
  <1>5. Taken[s] = Drains(s, 0)
    BY <1>1, TakenFits DEF s
  <1>6. /\ Drains(s, 0) \in 0 .. Len(q)
        /\ Drains(s, 0) < Len(q) => ~Fits(s, Drains(s, 0) + 1, 0)
    BY <1>1, <1>3, DrainsFit DEF q
  <1>7. Drains(s, 0) # 0
    <2> SUFFICES ASSUME Drains(s, 0) = 0 PROVE FALSE
      OBVIOUS
    <2>1. ~Fits(s, 0 + 1, 0)
      BY <1>2, <1>6
    <2> QED
      BY <1>4, <2>1
  <1> QED
    BY <1>5, <1>7 DEF s

LEMMA DrainStarts == DrainInit => DrainInv
  <1> SUFFICES ASSUME DrainInit PROVE DrainInv
    OBVIOUS
  <1>1. NSlots \in Nat \ {0} /\ PerSecond \in Nat /\ MaxQueue \in Nat
    BY DrainAssumption
  <1>2. 0 \in Slots
    BY <1>1 DEF Slots
  <1>3. DrainTypeOK
    BY <1>1, <1>2 DEF DrainInit, DrainTypeOK
  <1>4. \A s \in Slots : passed[s] + Ahead(s) <= NSlots - 1
    BY <1>1 DEF DrainInit, Ahead, Slots
  <1> QED
    BY <1>3, <1>4 DEF DrainInit, DrainInv

LEMMA CloseDrainKeeps == DrainInv /\ CloseDrain => DrainInv'
  <1> SUFFICES ASSUME DrainInv, CloseDrain PROVE DrainInv'
    OBVIOUS
  <1>1. /\ drainQueue' = [s \in Slots |-> SubSeq(drainQueue[s], Taken[s] + 1, Len(drainQueue[s]))]
        /\ allowance' = [s \in Slots |-> allowance[s] - Bytes(s, Taken[s])]
        /\ orderRotor' = NextRotor
        /\ passed' = [s \in Slots |-> IF Taken[s] = 0 /\ PassesOver(s) THEN passed[s] + 1 ELSE 0]
        /\ connected' = connected
    BY DEF CloseDrain
  <1>2. DrainTypeOK /\ orderRotor \in Slots /\ NSlots \in Nat \ {0} /\ PerSecond \in Nat /\ MaxQueue \in Nat
    BY DrainAssumption DEF DrainInv, DrainTypeOK
  <1>3. \A s \in Slots : Taken[s] \in 0 .. Len(drainQueue[s]) /\ Bytes(s, Taken[s]) \in 0 .. allowance[s]
    BY <1>2, TakenFits
  <1>4. PassesOver(orderRotor) => Taken[orderRotor] # 0
    BY FirstIsServed
  <1>5. NextRotor = IF orderRotor + 1 = NSlots THEN 0 ELSE orderRotor + 1
    BY <1>2, Round
  <1>6. orderRotor' \in Slots
    BY <1>1, <1>2, <1>5 DEF Slots
  <1>7. ASSUME NEW s \in Slots
        PROVE  /\ drainQueue'[s] \in Seq(Items) /\ Len(drainQueue'[s]) <= Len(drainQueue[s])
               /\ drainQueue[s] = <<>> => drainQueue'[s] = <<>>
    <2> DEFINE q == drainQueue[s]
               n == Taken[s]
               r == SubSeq(q, n + 1, Len(q))
    <2>1. q \in Seq(Items) /\ Len(q) \in Nat /\ n \in 0 .. Len(q)
      BY <1>2, <1>3 DEF DrainTypeOK
    <2> HIDE DEF q, n
    <2>2. n + 1 \in Nat /\ n + 1 >= 1
      BY <2>1
    <2>3. r \in Seq(Items)
      BY <2>1, <2>2
    <2>4. Len(r) = Len(q) - n
      BY <2>1, <2>2
    <2> HIDE DEF r
    <2>5. q = <<>> => r = <<>>
      <3> SUFFICES ASSUME q = <<>> PROVE r = <<>>
        OBVIOUS
      <3>1. Len(q) = 0
        OBVIOUS
      <3>2. Len(r) = 0
        BY <2>1, <2>4, <3>1
      <3> QED
        BY <2>3, <3>2
    <2>6. drainQueue'[s] = r
      BY <1>1 DEF r, q, n
    <2> QED
      BY <2>1, <2>3, <2>4, <2>5, <2>6 DEF q
  <1>8. \A s \in Slots : allowance'[s] \in 0 .. PerSecond /\ passed'[s] \in Nat
    <2> SUFFICES ASSUME NEW s \in Slots PROVE allowance'[s] \in 0 .. PerSecond /\ passed'[s] \in Nat
      OBVIOUS
    <2>1. allowance[s] \in 0 .. PerSecond /\ passed[s] \in Nat
      BY <1>2 DEF DrainTypeOK
    <2>2. Bytes(s, Taken[s]) \in 0 .. allowance[s] /\ allowance'[s] = allowance[s] - Bytes(s, Taken[s])
      BY <1>1, <1>3
    <2>3. allowance'[s] \in 0 .. PerSecond
      BY <1>2, <2>1, <2>2
    <2>4. passed'[s] \in Nat
      BY <1>1, <2>1
    <2> QED
      BY <2>3, <2>4
  <1>9. DrainTypeOK'
    <2>1. drainQueue' \in [Slots -> Seq(Items)]
      BY <1>1, <1>7
    <2>2. \A s \in Slots : Len(drainQueue'[s]) <= MaxQueue
      <3> SUFFICES ASSUME NEW s \in Slots PROVE Len(drainQueue'[s]) <= MaxQueue
        OBVIOUS
      <3>1. Len(drainQueue'[s]) \in Nat /\ Len(drainQueue[s]) \in Nat /\ Len(drainQueue[s]) <= MaxQueue
        BY <1>2, <1>7 DEF DrainTypeOK
      <3> QED
        BY <1>2, <1>7, <3>1
    <2>3. allowance' \in [Slots -> 0 .. PerSecond] /\ passed' \in [Slots -> Nat]
      BY <1>1, <1>8
    <2>4. connected' \subseteq Slots
      BY <1>1, <1>2 DEF DrainTypeOK
    <2> QED
      BY <1>6, <2>1, <2>2, <2>3, <2>4 DEF DrainTypeOK
  <1>10. \A s \in Slots : s \notin connected' => drainQueue'[s] = <<>>
    BY <1>1, <1>7 DEF DrainInv
  <1>11. ASSUME NEW s \in Slots PROVE passed'[s] + Ahead(s)' <= NSlots - 1
    <2>1. s \in 0 .. NSlots - 1 /\ orderRotor \in 0 .. NSlots - 1
      BY <1>2 DEF Slots
    <2>2. passed[s] \in Nat /\ passed[s] + Ahead(s) <= NSlots - 1
      BY <1>2 DEF DrainInv, DrainTypeOK
    <2>3. CASE s = orderRotor
      <3>1. passed'[s] = 0
        BY <1>1, <1>4, <2>3
      <3>2. Ahead(s)' <= NSlots - 1
        BY <1>1, <1>2, <1>5, <2>1, <2>3 DEF Ahead
      <3> QED
        BY <1>2, <1>1, <1>5, <2>1, <3>1, <3>2 DEF Ahead
    <2>4. CASE s # orderRotor
      <3>1. passed'[s] <= passed[s] + 1 /\ passed'[s] \in Nat
        BY <1>1, <1>8, <2>2
      <3>2. Ahead(s)' = Ahead(s) - 1 /\ Ahead(s) \in Nat
        BY <1>1, <1>2, <1>5, <2>1, <2>4 DEF Ahead
      <3> QED
        BY <1>2, <2>2, <3>1, <3>2
    <2> QED
      BY <2>3, <2>4
  <1> QED
    BY <1>9, <1>10, <1>11 DEF DrainInv

LEMMA DrainKeeps == DrainInv /\ [DrainNext]_drainVars => DrainInv'
  <1> SUFFICES ASSUME DrainInv, [DrainNext]_drainVars PROVE DrainInv'
    OBVIOUS
  <1>1. /\ DrainTypeOK /\ NSlots \in Nat \ {0} /\ PerSecond \in Nat /\ MaxQueue \in Nat
        /\ \A s \in Slots : s \notin connected => drainQueue[s] = <<>>
        /\ \A s \in Slots : passed[s] + Ahead(s) <= NSlots - 1
    BY DrainAssumption DEF DrainInv
  <1>2. ASSUME NEW s \in Slots, NEW item \in Items, Queue(s, item) PROVE DrainInv'
    <2>1. /\ s \in connected /\ Len(drainQueue[s]) < MaxQueue
          /\ AtReceipt(item) =< allowance[s]
          /\ drainQueue' = [drainQueue EXCEPT ![s] = Append(drainQueue[s], item)]
          /\ allowance' = [allowance EXCEPT ![s] = allowance[s] - AtReceipt(item)]
          /\ UNCHANGED <<connected, orderRotor, passed>>
      BY <1>2 DEF Queue
    <2>2. drainQueue[s] \in Seq(Items) /\ allowance[s] \in 0 .. PerSecond /\ AtReceipt(item) \in {0, 1}
      BY <1>1 DEF DrainTypeOK, AtReceipt
    <2>3. Append(drainQueue[s], item) \in Seq(Items) /\ Len(Append(drainQueue[s], item)) <= MaxQueue
      BY <1>1, <2>1, <2>2
    <2>4. allowance[s] - AtReceipt(item) \in 0 .. PerSecond
      BY <1>1, <2>1, <2>2
    <2>5. drainQueue' \in [Slots -> Seq(Items)] /\ \A t \in Slots : Len(drainQueue'[t]) <= MaxQueue
      BY <1>1, <2>1, <2>3 DEF DrainTypeOK
    <2>6. allowance' \in [Slots -> 0 .. PerSecond]
      BY <1>1, <2>1, <2>4 DEF DrainTypeOK
    <2>7. DrainTypeOK'
      BY <1>1, <2>1, <2>5, <2>6 DEF DrainTypeOK
    <2>8. \A t \in Slots : t \notin connected' => drainQueue'[t] = <<>>
      BY <1>1, <2>1 DEF DrainTypeOK
    <2>9. \A t \in Slots : passed'[t] + Ahead(t)' <= NSlots - 1
      BY <1>1, <2>1 DEF Ahead
    <2> QED
      BY <2>7, <2>8, <2>9 DEF DrainInv
  <1>3. ASSUME NEW s \in Slots, Detach(s) PROVE DrainInv'
    <2>1. /\ connected' = connected \ {s} /\ drainQueue' = [drainQueue EXCEPT ![s] = <<>>]
          /\ passed' = [passed EXCEPT ![s] = 0] /\ UNCHANGED <<allowance, orderRotor>>
      BY <1>3 DEF Detach
    <2>2. <<>> \in Seq(Items) /\ Len(<<>>) <= MaxQueue
      BY <1>1
    <2>3. DrainTypeOK'
      BY <1>1, <2>1, <2>2 DEF DrainTypeOK
    <2>4. \A t \in Slots : t \notin connected' => drainQueue'[t] = <<>>
      BY <1>1, <2>1 DEF DrainTypeOK
    <2>5. ASSUME NEW t \in Slots PROVE passed'[t] + Ahead(t)' <= NSlots - 1
      <3>1. orderRotor \in Slots
        BY <1>1 DEF DrainTypeOK
      <3>2. Ahead(t) \in 0 .. NSlots - 1
        BY <3>1, Round
      <3>3. Ahead(t)' = Ahead(t)
        BY <2>1 DEF Ahead
      <3>4. passed'[t] \in {0, passed[t]}
        BY <1>1, <2>1 DEF DrainTypeOK
      <3> QED
        BY <1>1, <3>2, <3>3, <3>4
    <2> QED
      BY <2>3, <2>4, <2>5 DEF DrainInv
  <1>4. ASSUME NEW s \in Slots, Reattach(s) PROVE DrainInv'
    <2>1. connected' = connected \cup {s} /\ UNCHANGED <<drainQueue, allowance, orderRotor, passed>>
      BY <1>4 DEF Reattach
    <2> QED
      BY <1>1, <2>1 DEF DrainInv, DrainTypeOK, Ahead
  <1>5. ASSUME NEW s \in Slots, SecondTurns(s) PROVE DrainInv'
    <2>1. /\ allowance' = [allowance EXCEPT ![s] = PerSecond]
          /\ UNCHANGED <<drainQueue, connected, orderRotor, passed>>
      BY <1>5 DEF SecondTurns
    <2>2. allowance' \in [Slots -> 0 .. PerSecond]
      BY <1>1, <2>1 DEF DrainTypeOK
    <2> QED
      BY <1>1, <2>1, <2>2 DEF DrainInv, DrainTypeOK, Ahead
  <1>6. CASE CloseDrain
    BY <1>6, CloseDrainKeeps
  <1>7. CASE UNCHANGED drainVars
    BY <1>1, <1>7 DEF drainVars, DrainInv, DrainTypeOK, Ahead
  <1> QED
    BY <1>2, <1>3, <1>4, <1>5, <1>6, <1>7 DEF DrainNext

LEMMA DrainInvariance == DrainSpec => []DrainInv
  BY DrainStarts, DrainKeeps, PTL DEF DrainSpec

LEMMA NotPassedForLong == DrainInv => OrderSoonTaken
  <1> SUFFICES ASSUME DrainInv, NEW s \in Slots PROVE passed[s] < NSlots
    BY DEF OrderSoonTaken
  <1>1. NSlots \in Nat /\ orderRotor \in Slots /\ passed[s] \in Nat /\ passed[s] + Ahead(s) <= NSlots - 1
    BY DrainAssumption DEF DrainInv, DrainTypeOK
  <1>2. Ahead(s) \in 0 .. NSlots - 1
    BY <1>1, Round
  <1> QED
    BY <1>1, <1>2

(* However many players there are and whatever they send: an order at the  *)
(* head of its client's queue, and within its client's own budget, is      *)
(* taken within as many ticks as there are slots (the rotor of             *)
(* Server::closeTick).                                                     *)
THEOREM OrdersAreTakenSoon == DrainSpec => []OrderSoonTaken
  BY DrainInvariance, NotPassedForLong, PTL

-----------------------------------------------------------------------------
(* The desync check.                                                       *)

\* A report, however old, is right or is what its player still simulates: a
\* world that has gone wrong stays as it is.
ReportsAreTheirs ==
  \A a \in Ages, p \in Players :
    hashes[a][p] # NoReport => hashes[a][p].hash \in {Right, player[p].world}

\* Who was told has diverged, whoever else has.
ToldHasDiverged ==
  refRight => \A p \in Players : player[p].flagged => p \in OutOfStep

NoFalseSuspicion ==
  refRight /\ Cardinality(OutOfStep) =< 1 => ~refSuspect

CheckInv == HashTypeOK /\ ReportsAreTheirs /\ ToldHasDiverged /\ NoFalseSuspicion

-----------------------------------------------------------------------------
(* The operators.                                                           *)

\* There are finitely many players, and so in every set of them.
LEMMA FewPlayers ==
  ASSUME NEW S \in SUBSET Players
  PROVE  IsFiniteSet(S) /\ Cardinality(S) \in Nat
<1>1. IsFiniteSet(Players)
  BY FS_Interval, HashAssumption DEF Players
<1>2. IsFiniteSet(S) BY <1>1, FS_Subset
<1> QED BY <1>2, FS_CardinalityType

\* The size of a set of players bounds that of any of its subsets.
LEMMA FewerPlayers ==
  ASSUME NEW T \in SUBSET Players, NEW S \in SUBSET T
  PROVE  Cardinality(S) =< Cardinality(T)
BY FewPlayers, FS_Subset

\* Reports of the right form stay so, whatever is forgotten.
Tables == [Ages -> [Players -> Reports]]

LEMMA NoReportsTyped == NoReports \in [Players -> Reports]
BY DEF NoReports, Reports

\* Forgetting and the bound on the table only ever drop reports.
LEMMA ReportsKept ==
  ASSUME NEW table \in Tables, NEW a \in Ages
  PROVE  /\ ForgetFrom(table, a) \in Tables
         /\ \A b \in Ages : ForgetFrom(table, a)[b] \in {table[b], NoReports}
BY NoReportsTyped DEF ForgetFrom, Tables

LEMMA RetainedKept ==
  ASSUME NEW table \in Tables
  PROVE  /\ Retained(table) \in Tables
         /\ \A b \in Ages : Retained(table)[b] \in {table[b], NoReports}
<1> DEFINE kept == {a \in Ages : table[a] # NoReports}
           Few(a) == Cardinality({b \in kept : b =< a}) =< MaxTicks
<1>1. Retained(table) = [a \in Ages |-> IF Few(a) THEN table[a] ELSE NoReports]
  BY DEF Retained
<1> HIDE DEF Few, kept
<1> QED BY <1>1, NoReportsTyped DEF Tables

\* The reports of a row are those of the table it was dropped or kept from.
LEMMA StillTheirs ==
  ASSUME NEW table \in Tables, NEW fewer \in Tables,
         \A a \in Ages : fewer[a] \in {table[a], NoReports},
         NEW world \in [Players -> Hashes],
         \A a \in Ages, p \in Players :
           table[a][p] # NoReport => table[a][p].hash \in {Right, world[p]}
  PROVE  \A a \in Ages, p \in Players :
           fewer[a][p] # NoReport => fewer[a][p].hash \in {Right, world[p]}
BY DEF NoReports

\* An appeal against a right referee takes two diverged players: as many
\* reports as live players, all of them wrong.
LEMMA AppealTakesTwo ==
  ASSUME refRight, NEW row \in [Players -> Reports],
         \A p \in Players : row[p] # NoReport => row[p].hash \in {Right, player[p].world},
         AllReported(row), Appeals(row)
  PROVE  Cardinality(OutOfStep) >= 2
<1>1. Of(row) \in SUBSET OutOfStep
  BY DEF Appeals, Of, Canon, OutOfStep
<1>2. OutOfStep \in SUBSET Players /\ LivePlayers \in SUBSET Players /\ Of(row) \in SUBSET Players
  BY DEF OutOfStep, LivePlayers, Of
<1>3. Cardinality(Of(row)) =< Cardinality(OutOfStep)
  BY <1>1, <1>2, FewerPlayers
<1>4. Cardinality(LivePlayers) >= 2 /\ Cardinality(Of(row)) >= Cardinality(LivePlayers)
  BY DEF AllReported, Appeals
<1>5. /\ Cardinality(OutOfStep) \in Nat
      /\ Cardinality(LivePlayers) \in Nat
      /\ Cardinality(Of(row)) \in Nat
  BY <1>2, FewPlayers
<1> QED BY <1>3, <1>4, <1>5

-----------------------------------------------------------------------------
(* Type correctness.                                                        *)

\* Every step but a report keeps every variable's type (the table and its
\* ages, the players and their lags): HashTypeOK of HashCheck.
LEMMA CheckTyped ==
  ASSUME HashTypeOK, [HashNext]_hashVars
  PROVE  HashTypeOK'
<1> DEFINE Player == [world : Hashes, lag : 0 .. MaxLag, link : Links,
                      defeated : BOOLEAN, flagged : BOOLEAN]
<1>0. /\ player \in [Players -> Player] /\ hashes \in Tables
      /\ refRight \in BOOLEAN /\ refSuspect \in BOOLEAN
      /\ MaxLag \in Nat /\ Lead \in Nat /\ MaxLag > Lead
  BY HashAssumption DEF HashTypeOK, Tables
<1> SUFFICES /\ player' \in [Players -> Player] /\ hashes' \in Tables
             /\ refRight' \in BOOLEAN /\ refSuspect' \in BOOLEAN
  BY DEF HashTypeOK, Tables
<1>1. CASE Publish
  <2>1. ASSUME NEW p \in Players, Seated(p)
        PROVE  [player[p] EXCEPT !.lag = @ + 1] \in Player
    <3>1. player[p].lag \in 0 .. MaxLag /\ player[p].lag < MaxLag
      BY <1>0, <1>1, <2>1 DEF Publish, PlayersKeepUp
    <3>2. player[p].lag + 1 \in 0 .. MaxLag BY <1>0, <3>1
    <3> QED BY <1>0, <3>2
  <2>2. player' \in [Players -> Player] BY <1>0, <1>1, <2>1 DEF Publish
  <2>3. ASSUME NEW a \in Ages, a # 1 PROVE a - 1 \in Ages
    BY <1>0, <2>3 DEF Ages
  <2>4. hashes' \in Tables BY <1>0, <1>1, <2>3, NoReportsTyped DEF Publish, Tables
  <2> QED BY <1>0, <1>1, <2>2, <2>4 DEF Publish
<1>2. ASSUME NEW p \in Players, Report(p)
      PROVE  /\ player' \in [Players -> Player] /\ hashes' \in Tables
             /\ refRight' \in BOOLEAN /\ refSuspect' \in BOOLEAN
  <2> DEFINE a == player[p].lag
             table == [hashes EXCEPT ![a][p] = [hash |-> player[p].world, current |-> TRUE]]
             judged == AllReported(table[a]) /\ a =< RefRing
             suspect == refSuspect \/ (judged /\ Appeals(table[a]))
  <2>1. a \in Ages
    <3>1. a \in 0 .. MaxLag BY <1>0
    <3>2. a > 0 BY <1>2 DEF Report
    <3> QED BY <1>0, <3>1, <3>2 DEF Ages
  <2>2. table \in Tables
    <3>1. [hash |-> player[p].world, current |-> TRUE] \in Reports BY <1>0 DEF Reports
    <3> QED BY <1>0, <2>1, <3>1 DEF Tables
  <2>3. /\ refSuspect' = suspect
        /\ player' = [q \in Players |->
             [player[q] EXCEPT !.lag = IF q = p THEN a - 1 ELSE @,
                               !.flagged = @ \/ (judged /\ ~suspect /\ q \in Diverged(table[a]))]]
        /\ hashes' = Retained(IF judged THEN ForgetFrom(table, a) ELSE table)
        /\ refRight' = refRight
    BY <1>2 DEF Report
  <2>4. judged \in BOOLEAN /\ suspect \in BOOLEAN
    BY <1>0 DEF AllReported, Appeals
  <2>5. a - 1 \in 0 .. MaxLag BY <1>0, <2>1 DEF Ages
  <2>6. (IF judged THEN ForgetFrom(table, a) ELSE table) \in Tables
    BY <2>1, <2>2, ReportsKept
  <2>7. hashes' \in Tables BY <2>3, <2>6, RetainedKept
  <2> HIDE DEF a, table, judged, suspect
  <2>8. player' \in [Players -> Player] BY <1>0, <2>3, <2>4, <2>5
  <2> QED BY <1>0, <2>3, <2>4, <2>7, <2>8
<1>3. ASSUME NEW p \in Players, LoseReport(p)
      PROVE  /\ player' \in [Players -> Player] /\ hashes' \in Tables
             /\ refRight' \in BOOLEAN /\ refSuspect' \in BOOLEAN
  <2>1. player[p].lag - 1 \in 0 .. MaxLag BY <1>0, <1>3 DEF LoseReport
  <2> QED BY <1>0, <1>3, <2>1 DEF LoseReport
<1>4. ASSUME NEW p \in Players, Diverge(p) \/ Defeat(p) \/ LinkBreaks(p)
      PROVE  /\ player' \in [Players -> Player] /\ hashes' \in Tables
             /\ refRight' \in BOOLEAN /\ refSuspect' \in BOOLEAN
  <2>1. hashes' = hashes /\ refRight' = refRight /\ refSuspect' = refSuspect
    BY <1>4 DEF Diverge, Defeat, LinkBreaks
  <2>2. CASE Diverge(p)
    <3>1. PICK w \in Wrong : player' = [player EXCEPT ![p].world = w]
      BY <2>2 DEF Diverge
    <3> QED BY <1>0, <2>1, <3>1 DEF Hashes
  <2>3. CASE Defeat(p) BY <1>0, <2>1, <2>3 DEF Defeat
  <2>4. CASE LinkBreaks(p) BY <1>0, <2>1, <2>4 DEF LinkBreaks, Links
  <2> QED BY <1>4, <2>2, <2>3, <2>4
<1>5. ASSUME NEW p \in Players PROVE Stale(p) \in Tables
  <2>1. ASSUME NEW a \in Ages, hashes[a][p] # NoReport
        PROVE  [hashes[a][p] EXCEPT !.current = FALSE] \in Reports
    <3>1. hashes[a][p] \in Reports BY <1>0 DEF Tables
    <3>2. hashes[a][p] \in [hash : Hashes, current : BOOLEAN] BY <2>1, <3>1 DEF Reports
    <3> QED BY <3>2 DEF Reports
  <2> QED BY <1>0, <2>1 DEF Stale, Tables
<1>6. ASSUME NEW p \in Players, DropPlayer(p) \/ RejoinPlayer(p) \/ GiveUp(p)
      PROVE  /\ player' \in [Players -> Player] /\ hashes' \in Tables
             /\ refRight' \in BOOLEAN /\ refSuspect' \in BOOLEAN
  BY <1>0, <1>5, <1>6 DEF DropPlayer, RejoinPlayer, GiveUp, Links
<1>7. CASE UNCHANGED hashVars BY <1>0, <1>7 DEF hashVars
<1> QED BY <1>1, <1>2, <1>3, <1>4, <1>6, <1>7 DEF HashNext

-----------------------------------------------------------------------------
(* The invariant.                                                           *)

LEMMA CheckStarts == ASSUME HashInit PROVE CheckInv
<1>1. HashTypeOK
  <2>1. hashes \in [Ages -> [Players -> Reports]] BY NoReportsTyped DEF HashInit
  <2>2. 0 \in 0 .. MaxLag BY HashAssumption
  <2> QED BY <2>1, <2>2 DEF HashInit, HashTypeOK, Links, Hashes
<1> QED
  BY <1>1 DEF HashInit, CheckInv, ReportsAreTheirs, ToldHasDiverged, NoFalseSuspicion, NoReports

\* What makes or changes no report, changes nobody's world and tells nobody
\* anything leaves the invariant as it is.
LEMMA CheckRests ==
  ASSUME CheckInv, HashTypeOK', refRight' = refRight, refSuspect' = refSuspect,
         \A p \in Players : /\ player'[p].world = player[p].world
                            /\ player'[p].flagged = player[p].flagged,
         \A a \in Ages, p \in Players :
           hashes'[a][p] # NoReport =>
             \E b \in Ages : /\ hashes[b][p] # NoReport
                             /\ hashes'[a][p].hash = hashes[b][p].hash
  PROVE  CheckInv'
<1>1. ReportsAreTheirs' BY DEF CheckInv, ReportsAreTheirs
<1>2. OutOfStep' = OutOfStep BY DEF OutOfStep
<1> QED BY <1>1, <1>2 DEF CheckInv, ToldHasDiverged, NoFalseSuspicion

LEMMA CheckKeeps == ASSUME CheckInv, [HashNext]_hashVars PROVE CheckInv'
<1>0. HashTypeOK /\ HashTypeOK' BY CheckTyped DEF CheckInv
<1>1. CASE Publish
  <2>1. \A a \in Ages : a # 1 => a - 1 \in Ages BY HashAssumption DEF Ages
  <2>2. \A p \in Players : /\ player'[p].world = player[p].world
                           /\ player'[p].flagged = player[p].flagged
    BY <1>0, <1>1 DEF Publish, HashTypeOK
  <2>3. ASSUME NEW a \in Ages, NEW p \in Players, hashes'[a][p] # NoReport
        PROVE  \E b \in Ages : /\ hashes[b][p] # NoReport
                               /\ hashes'[a][p].hash = hashes[b][p].hash
    <3>1. a # 1 BY <1>1, <2>3 DEF Publish, NoReports
    <3>2. hashes'[a] = hashes[a - 1] BY <1>1, <3>1 DEF Publish
    <3> QED BY <2>1, <2>3, <3>1, <3>2
  <2> QED BY <1>0, <1>1, <2>2, <2>3, CheckRests DEF Publish
<1>2. ASSUME NEW p \in Players, Report(p) PROVE CheckInv'
  <2> DEFINE a == player[p].lag
             table == [hashes EXCEPT ![a][p] = [hash |-> player[p].world, current |-> TRUE]]
             judged == AllReported(table[a]) /\ a =< RefRing
             suspect == refSuspect \/ (judged /\ Appeals(table[a]))
             world == [q \in Players |-> player[q].world]
  <2>1. a \in Ages
    <3>1. a \in 0 .. MaxLag BY <1>0 DEF HashTypeOK
    <3>2. a > 0 BY <1>2 DEF Report
    <3> QED BY <3>1, <3>2, HashAssumption DEF Ages
  <2>2. table \in Tables
    <3>1. [hash |-> player[p].world, current |-> TRUE] \in Reports
      BY <1>0 DEF Reports, HashTypeOK
    <3> QED BY <1>0, <2>1, <3>1 DEF Tables, HashTypeOK
  <2>3. /\ refSuspect' = suspect
        /\ player' = [q \in Players |->
             [player[q] EXCEPT !.lag = IF q = p THEN a - 1 ELSE @,
                               !.flagged = @ \/ (judged /\ ~suspect /\ q \in Diverged(table[a]))]]
        /\ hashes' = Retained(IF judged THEN ForgetFrom(table, a) ELSE table)
        /\ refRight' = refRight
    BY <1>2 DEF Report
  <2>4. world \in [Players -> Hashes] BY <1>0 DEF HashTypeOK
  <2>5. \A b \in Ages, q \in Players :
          table[b][q] # NoReport => table[b][q].hash \in {Right, world[q]}
    BY <1>0, <2>1 DEF CheckInv, ReportsAreTheirs, HashTypeOK
  <2>6. \A q \in Players : player'[q].world = player[q].world
    <3> HIDE DEF a, table, judged, suspect
    <3> QED BY <1>0, <2>3 DEF HashTypeOK
  <2>7. OutOfStep' = OutOfStep BY <2>6 DEF OutOfStep
  <2>8. ReportsAreTheirs'
    <3> DEFINE left == IF judged THEN ForgetFrom(table, a) ELSE table
    <3>1. left \in Tables /\ \A b \in Ages : left[b] \in {table[b], NoReports}
      BY <2>1, <2>2, ReportsKept
    <3>2. \A b \in Ages, q \in Players :
            left[b][q] # NoReport => left[b][q].hash \in {Right, world[q]}
      <4> HIDE DEF left, table, world
      <4> QED BY <2>2, <2>4, <2>5, <3>1, StillTheirs
    <3>3. hashes' \in Tables /\ \A b \in Ages : hashes'[b] \in {left[b], NoReports}
      BY <2>3, <3>1, RetainedKept
    <3>4. \A b \in Ages, q \in Players :
            hashes'[b][q] # NoReport => hashes'[b][q].hash \in {Right, world[q]}
      <4> HIDE DEF left, table, world
      <4> QED BY <2>4, <3>1, <3>2, <3>3, StillTheirs
    <3>5. \A q \in Players : world[q] = player'[q].world BY <2>6
    <3> HIDE DEF world
    <3> QED BY <3>4, <3>5 DEF ReportsAreTheirs
  <2>9. table[a] \in [Players -> Reports] BY <2>1, <2>2 DEF Tables
  <2>10. \A q \in Players :
           table[a][q] # NoReport => table[a][q].hash \in {Right, player[q].world}
    BY <2>1, <2>5
  <2>11. ToldHasDiverged'
    <3>1. \A q \in Players :
            player'[q].flagged => player[q].flagged \/ q \in Diverged(table[a])
      <4> HIDE DEF a, table, judged, suspect
      <4> QED BY <1>0, <2>3 DEF HashTypeOK
    <3>2. refRight => \A q \in Players : q \in Diverged(table[a]) => q \in OutOfStep
      <4> HIDE DEF a, table
      <4> QED BY <2>10 DEF Diverged, Of, Canon, OutOfStep
    <3> QED BY <2>3, <2>7, <3>1, <3>2 DEF CheckInv, ToldHasDiverged
  <2>12. NoFalseSuspicion'
    <3> SUFFICES ASSUME refRight', Cardinality(OutOfStep') =< 1 PROVE ~refSuspect'
      BY DEF NoFalseSuspicion
    <3>1. refRight /\ Cardinality(OutOfStep) =< 1 BY <2>3, <2>7
    <3>2. ~refSuspect BY <3>1 DEF CheckInv, NoFalseSuspicion
    <3>3. Cardinality(OutOfStep) \in Nat BY FewPlayers DEF OutOfStep
    <3>4. ASSUME judged, Appeals(table[a]) PROVE FALSE
      <4>1. AllReported(table[a]) BY <3>4
      <4> HIDE DEF a, table
      <4>2. Cardinality(OutOfStep) >= 2 BY <2>9, <2>10, <3>1, <3>4, <4>1, AppealTakesTwo
      <4> QED BY <3>1, <3>3, <4>2
    <3> QED BY <2>3, <3>2, <3>4
  <2> QED BY <1>0, <2>8, <2>11, <2>12 DEF CheckInv
<1>3. ASSUME NEW p \in Players, LoseReport(p) \/ Defeat(p) \/ LinkBreaks(p) PROVE CheckInv'
  <2>1. hashes' = hashes /\ refRight' = refRight /\ refSuspect' = refSuspect
    BY <1>3 DEF LoseReport, Defeat, LinkBreaks
  <2>2. \A q \in Players : /\ player'[q].world = player[q].world
                           /\ player'[q].flagged = player[q].flagged
    <3>1. CASE LoseReport(p) BY <1>0, <3>1 DEF LoseReport, HashTypeOK
    <3>2. CASE Defeat(p) BY <1>0, <3>2 DEF Defeat, HashTypeOK
    <3>3. CASE LinkBreaks(p) BY <1>0, <3>3 DEF LinkBreaks, HashTypeOK
    <3> QED BY <1>3, <3>1, <3>2, <3>3
  <2> QED BY <1>0, <2>1, <2>2, CheckRests
<1>4. ASSUME NEW p \in Players, Diverge(p) PROVE CheckInv'
  <2>1. /\ player[p].world = Right /\ hashes' = hashes
        /\ refRight' = refRight /\ refSuspect' = refSuspect
    BY <1>4 DEF Diverge
  <2>2. \A q \in Players : /\ q # p => player'[q].world = player[q].world
                           /\ player'[q].flagged = player[q].flagged
    BY <1>0, <1>4 DEF Diverge, HashTypeOK
  <2>3. OutOfStep \in SUBSET OutOfStep' /\ OutOfStep' \in SUBSET Players
    BY <2>1, <2>2 DEF OutOfStep
  <2>4. ReportsAreTheirs' BY <2>1, <2>2 DEF CheckInv, ReportsAreTheirs
  <2>5. ToldHasDiverged' BY <2>1, <2>2, <2>3 DEF CheckInv, ToldHasDiverged
  <2>6. NoFalseSuspicion'
    <3>1. Cardinality(OutOfStep) =< Cardinality(OutOfStep') BY <2>3, FewerPlayers
    <3>2. Cardinality(OutOfStep) \in Nat /\ Cardinality(OutOfStep') \in Nat
      BY <2>3, FewPlayers
    <3> QED BY <2>1, <3>1, <3>2 DEF CheckInv, NoFalseSuspicion
  <2> QED BY <1>0, <2>4, <2>5, <2>6 DEF CheckInv
<1>5. ASSUME NEW p \in Players, DropPlayer(p) \/ RejoinPlayer(p) \/ GiveUp(p) PROVE CheckInv'
  <2>0. hashes' = Stale(p) /\ refRight' = refRight /\ refSuspect' = refSuspect
    BY <1>5 DEF DropPlayer, RejoinPlayer, GiveUp
  <2>1. \A q \in Players : /\ player'[q].world = player[q].world
                           /\ player'[q].flagged = player[q].flagged
    <3>1. CASE DropPlayer(p) BY <1>0, <3>1 DEF DropPlayer, HashTypeOK
    <3>2. CASE RejoinPlayer(p) BY <1>0, <3>2 DEF RejoinPlayer, HashTypeOK
    <3>3. CASE GiveUp(p) BY <1>0, <3>3 DEF GiveUp, HashTypeOK
    <3> QED BY <1>5, <3>1, <3>2, <3>3
  <2>2. \A a \in Ages, q \in Players :
          hashes'[a][q] # NoReport =>
            hashes[a][q] # NoReport /\ hashes'[a][q].hash = hashes[a][q].hash
    <3> SUFFICES ASSUME NEW a \in Ages, NEW q \in Players, hashes'[a][q] # NoReport
                 PROVE  hashes[a][q] # NoReport /\ hashes'[a][q].hash = hashes[a][q].hash
      OBVIOUS
    <3>1. hashes[a] \in [Players -> Reports] BY <1>0 DEF HashTypeOK
    <3>2. hashes'[a] = [hashes[a] EXCEPT ![p] = IF @ = NoReport THEN @ ELSE [@ EXCEPT !.current = FALSE]]
      BY <2>0 DEF Stale
    <3>3. CASE q # p BY <3>1, <3>2, <3>3
    <3>4. CASE q = p
      <4>1. hashes'[a][q] = IF hashes[a][q] = NoReport THEN hashes[a][q]
                            ELSE [hashes[a][q] EXCEPT !.current = FALSE]
        BY <3>1, <3>2, <3>4
      <4>2. hashes[a][q] # NoReport BY <4>1
      <4>3. hashes[a][q] \in [hash : Hashes, current : BOOLEAN] BY <3>1, <4>2 DEF Reports
      <4> QED BY <4>1, <4>2, <4>3
    <3> QED BY <3>3, <3>4
  <2> QED BY <1>0, <2>0, <2>1, <2>2, CheckRests
<1>6. CASE UNCHANGED hashVars BY <1>0, <1>6, CheckRests DEF hashVars
<1> QED BY <1>1, <1>2, <1>3, <1>4, <1>5, <1>6 DEF HashNext

LEMMA CheckInvariance == HashSpec => []CheckInv
BY CheckStarts, CheckKeeps, PTL DEF HashSpec

\* One diverged player, whatever it and the others do, can neither have the
\* referee suspected nor somebody else accused (Server::checkHashes).
THEOREM OneAloneHarmsNobody == HashSpec => []LoneDivergenceIsIts
<1>1. CheckInv => LoneDivergenceIsIts
  BY DEF CheckInv, ToldHasDiverged, NoFalseSuspicion, LoneDivergenceIsIts
<1> QED BY <1>1, CheckInvariance, PTL

\* With a right referee nobody is told that it has diverged unless it has,
\* however many have.
THEOREM NobodyIsAccusedFalsely == HashSpec => []ToldHasDiverged
<1>1. CheckInv => ToldHasDiverged BY DEF CheckInv
<1> QED BY <1>1, CheckInvariance, PTL

-----------------------------------------------------------------------------
(* The three together.                                                     *)

\* A behaviour of the composition is one of each of the three: what moves
\* takes that part's steps, and the others rest.
LEMMA EachGoesItsWay == MCSpec => Spec /\ DrainSpec /\ HashSpec
  <1>1. MCInit => Init /\ DrainInit /\ HashInit
    BY DEF MCInit
  <1>2. [MCNext]_tickVars => [Next]_vars
    BY DEF MCNext, ClocksStep, OrdersStep, HashesStep, tickVars
  <1>3. [MCNext]_tickVars => [DrainNext]_drainVars
    BY DEF MCNext, ClocksStep, OrdersStep, HashesStep, tickVars
  <1>4. [MCNext]_tickVars => [HashNext]_hashVars
    BY DEF MCNext, ClocksStep, OrdersStep, HashesStep, tickVars
  <1> QED
    BY <1>1, <1>2, <1>3, <1>4, PTL DEF MCSpec, Spec, DrainSpec, HashSpec

\* Every variable of the clocks, of the orders and of the check holds what the
\* code can put in it, whichever of them moves.
THEOREM TickTypeCorrect == MCSpec => []TickTypeOK
  <1>1. DrainInv => DrainTypeOK
    BY DEF DrainInv
  <1>2. CheckInv => HashTypeOK
    BY DEF CheckInv
  <1>3. TypeOK /\ DrainTypeOK /\ HashTypeOK => TickTypeOK
    BY DEF TickTypeOK
  <1> QED
    BY <1>1, <1>2, <1>3, EachGoesItsWay, TypeCorrect, DrainInvariance, CheckInvariance, PTL

=============================================================================
