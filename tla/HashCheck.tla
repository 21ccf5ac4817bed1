------------------------------- MODULE HashCheck -------------------------------
(***************************************************************************)
(* The desync check (Server::checkHashes, src/src/server/server.cpp).      *)
(* Every kHashPeriod ticks each player's client reports the hash of its    *)
(* simulation and the server's own simulation, the referee, keeps one.     *)
(* When all live players have reported a tick, who differs from the        *)
(* referee is told that it has diverged; but when they all agree with each *)
(* other and not with the referee, it is the referee that is suspected and *)
(* nobody is told anything for the rest of the game.                       *)
(*                                                                         *)
(* Ticks are hash ticks, named by their age: age a is the a-th last tick   *)
(* published.  A client reports a tick once, when it simulates it, over    *)
(* whatever connection it then has; the code keeps reports by connection,  *)
(* here they are kept by player, with a mark on those of a connection that *)
(* is no longer the seat's.                                                *)
(***************************************************************************)
EXTENDS Integers, FiniteSets

CONSTANTS
  NPlayers,    \* human seats
  Lead,        \* hash ticks in kMaxLeadTicks
  MaxTicks,    \* kMaxHashTicks: ticks with reports that are kept
  RefRing,     \* ticks of which the referee's hash is kept (300)
  MaxLag       \* bound: how far an unpaced (defeated) client falls behind

ASSUME HashAssumption ==
  /\ NPlayers \in Nat \ {0}
  /\ Lead \in Nat \ {0}
  /\ MaxTicks \in Nat \ {0} /\ RefRing \in Nat \ {0} /\ RefRing >= MaxTicks
  /\ MaxLag \in Nat /\ MaxLag > Lead

VARIABLES
  refRight,      \* the referee simulates what the game's rules say
  player,        \* each player's client and its seat
  hashes,        \* Room::hashes: the reports of the tick of each age
  refSuspect     \* Room::refSuspect

hashVars == <<refRight, player, hashes, refSuspect>>

Players == 1 .. NPlayers
Ages == 1 .. MaxLag

\* A hash: the right one, the wrong referee's, or one of two wrong ones.
Right == "right"
Canon == IF refRight THEN Right ELSE "referee's"
Wrong == {"wrong", "other"}
Hashes == {Right} \cup Wrong
NoReport == [hash |-> "none", current |-> FALSE]
Reports == [hash : Hashes, current : BOOLEAN] \cup {NoReport}
NoReports == [p \in Players |-> NoReport]

\* link: up; broken, which the server has not seen yet (slotClient[i] >= 0);
\* away, the seat waited for (slotClient[i] = -1); gone, the seat given up.
Links == {"up", "broken", "away", "gone"}

\* Every variable holds what the code can put in it.
HashTypeOK ==
  /\ refRight \in BOOLEAN /\ refSuspect \in BOOLEAN
  /\ player \in [Players -> [world : Hashes,      \* what its simulation yields
                             lag : 0 .. MaxLag,   \* ticks it has yet to simulate
                             link : Links,
                             defeated : BOOLEAN,
                             flagged : BOOLEAN]]  \* it was sent Msg::Desynced
  /\ hashes \in [Ages -> [Players -> Reports]]

HashInit ==
  /\ refRight \in BOOLEAN
  /\ player = [p \in Players |-> [world |-> Right, lag |-> 0, link |-> "up",
                                  defeated |-> FALSE, flagged |-> FALSE]]
  /\ hashes = [a \in Ages |-> NoReports]
  /\ refSuspect = FALSE

-----------------------------------------------------------------------------
(* The room.                                                                *)

Seated(p) == player[p].link \in {"up", "broken"}
LivePlayers == {p \in Players : Seated(p)}

\* canAdvance and Room::waiting: nobody is waited for and no seated player
\* still in the game is a lead behind.
PlayersKeepUp ==
  \A p \in Players :
    /\ player[p].link # "away"
    /\ Seated(p) =>
         player[p].lag < IF player[p].defeated THEN MaxLag ELSE Lead

\* finishTick: one more tick, and everything before it ages.
Publish ==
  /\ PlayersKeepUp
  /\ player' = [p \in Players |->
       IF Seated(p) THEN [player[p] EXCEPT !.lag = @ + 1] ELSE player[p]]
  /\ hashes' = [a \in Ages |-> IF a = 1 THEN NoReports ELSE hashes[a - 1]]
  /\ UNCHANGED <<refRight, refSuspect>>

-----------------------------------------------------------------------------
(* A report and what it leads to.                                           *)

Of(reports) == {p \in Players : reports[p] # NoReport}
Agreed(reports) == Cardinality({reports[p].hash : p \in Of(reports)}) = 1

AllReportedByEverySeat(reports) == Of(reports) = Players

\* As many reports as there are live clients.
AllReported(reports) ==
  Cardinality(Of(reports)) >= Cardinality(LivePlayers)

AppealsAlone(reports) ==
  Agreed(reports) /\ \A p \in Of(reports) : reports[p].hash # Canon

\* The referee is suspected: two clients or more, of one mind against it.
Appeals(reports) ==
  /\ Cardinality(LivePlayers) >= 2
  /\ Agreed(reports)
  /\ \A p \in Of(reports) : reports[p].hash # Canon

\* Msg::Desynced goes to the connections whose report differs, if they are
\* still there.
Diverged(reports) ==
  {p \in Of(reports) : reports[p].hash # Canon /\ reports[p].current}

\* The judged tick and all before it are forgotten.
ForgetFrom(table, a) == [b \in Ages |-> IF b >= a THEN NoReports ELSE table[b]]

\* At most MaxTicks ticks are kept, the oldest go first.
Retained(table) ==
  LET kept == {a \in Ages : table[a] # NoReports}
  IN [a \in Ages |-> IF Cardinality({b \in kept : b =< a}) =< MaxTicks
                     THEN table[a] ELSE NoReports]

\* Msg::StateHash: player p simulates its next tick and its report arrives.
Report(p) ==
  LET a == player[p].lag
      table == [hashes EXCEPT ![a][p] = [hash |-> player[p].world, current |-> TRUE]]
      judged == AllReported(table[a]) /\ a =< RefRing
      suspect == refSuspect \/ (judged /\ Appeals(table[a]))
  IN /\ player[p].link = "up"
     /\ ~player[p].flagged
     /\ a > 0
     /\ refSuspect' = suspect
     /\ player' = [q \in Players |->
          [player[q] EXCEPT !.lag = IF q = p THEN a - 1 ELSE @,
                            !.flagged = @ \/ (judged /\ ~suspect /\ q \in Diverged(table[a]))]]
     /\ hashes' = Retained(IF judged THEN ForgetFrom(table, a) ELSE table)
     /\ UNCHANGED refRight

\* The same over a broken link: the report is lost.
LoseReport(p) ==
  /\ player[p].link \in {"broken", "away"}
  /\ player[p].lag > 0
  /\ player' = [player EXCEPT ![p].lag = @ - 1]
  /\ UNCHANGED <<refRight, hashes, refSuspect>>

-----------------------------------------------------------------------------
(* What happens to players.                                                 *)

\* A client's simulation goes wrong, for good.
Diverge(p) ==
  /\ player[p].world = Right
  /\ \E w \in Wrong : player' = [player EXCEPT ![p].world = w]
  /\ UNCHANGED <<refRight, hashes, refSuspect>>

Defeat(p) ==
  /\ player' = [player EXCEPT ![p].defeated = TRUE]
  /\ UNCHANGED <<refRight, hashes, refSuspect>>

LinkBreaks(p) ==
  /\ player[p].link = "up"
  /\ player' = [player EXCEPT ![p].link = "broken"]
  /\ UNCHANGED <<refRight, hashes, refSuspect>>

\* The reports of p's old connection stay in the table without a client.
Stale(p) ==
  [a \in Ages |-> [hashes[a] EXCEPT ![p] =
     IF @ = NoReport THEN @ ELSE [@ EXCEPT !.current = FALSE]]]

\* The server sees the connection gone.  Only a player still in the game is
\* waited for; a client that was told that it has diverged does not come back.
DropPlayer(p) ==
  /\ \/ player[p].link = "broken"
     \/ player[p].link = "up" /\ player[p].flagged
  /\ player' = [player EXCEPT ![p].link = IF player[p].defeated THEN "gone" ELSE "away"]
  /\ hashes' = Stale(p)
  /\ UNCHANGED <<refRight, refSuspect>>

\* Msg::Rejoin: another connection for the seat, the client's world as it was.
RejoinPlayer(p) ==
  /\ player[p].link \in {"broken", "away"}
  /\ ~player[p].flagged
  /\ player' = [player EXCEPT ![p].link = "up"]
  /\ hashes' = Stale(p)
  /\ UNCHANGED <<refRight, refSuspect>>

\* The player leaves, or an AI takes its seat.
GiveUp(p) ==
  /\ player[p].link # "gone"
  /\ player' = [player EXCEPT ![p].link = "gone", ![p].lag = 0]
  /\ hashes' = Stale(p)
  /\ UNCHANGED <<refRight, refSuspect>>

HashNext ==
  \/ Publish
  \/ \E p \in Players :
       \/ Report(p) \/ LoseReport(p)
       \/ Diverge(p) \/ Defeat(p)
       \/ LinkBreaks(p) \/ DropPlayer(p) \/ RejoinPlayer(p) \/ GiveUp(p)

HashSpec == HashInit /\ [][HashNext]_hashVars

\* The room goes on, clients simulate what they receive, and the server sees a
\* lost connection and waits for it only so long.
HashFairness ==
  /\ WF_hashVars(Publish)
  /\ \A p \in Players :
       /\ WF_hashVars(Report(p))
       /\ WF_hashVars(DropPlayer(p))
       /\ WF_hashVars(player[p].link = "away" /\ (RejoinPlayer(p) \/ GiveUp(p)))

HashFairSpec == HashSpec /\ HashFairness

-----------------------------------------------------------------------------
(* Properties.                                                              *)

OutOfStep == {p \in Players : player[p].world # Right}

\* One diverged player can neither have the referee suspected, which would end
\* the check for everybody, nor another player accused, whoever drops, comes
\* back or leaves between two reports (server.cpp:2524-2529).
LoneDivergenceIsIts ==
  refRight /\ Cardinality(OutOfStep) =< 1 =>
    /\ ~refSuspect
    /\ \A p \in Players : player[p].flagged => p \in OutOfStep

\* A player whose simulation diverges and who stays is told, unless the referee
\* has come under suspicion, once nobody's link breaks any more and every
\* client keeps within the ticks that are kept.  (A defeated player's client
\* counts as live and paces nobody: further behind, its reports are dropped as
\* they come and no tick is ever judged.)
Steady == [][\A p \in Players : ~LinkBreaks(p)]_hashVars
KeepsWithin == \A p \in Players : Seated(p) => player[p].lag =< MaxTicks
Detected ==
  refRight /\ <>Steady /\ <>[]KeepsWithin =>
    \A p \in Players :
      p \in OutOfStep ~> \/ player[p].flagged
                         \/ player[p].link = "gone"
                         \/ refSuspect

===============================================================================
