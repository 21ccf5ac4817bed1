--------------------------- MODULE GameRoomProofs ---------------------------
(***************************************************************************)
(* Proofs about GameRoom, for any number of seats, connections, watchers   *)
(* and ticks.  Its variables keep their types, and seats and connections   *)
(* agree about who sits where.  A player whose link is gone is waited for; *)
(* a seat is given up once, by one event of the tick stream; and an AI     *)
(* plays it from the tick that says so on.                                 *)
(***************************************************************************)
EXTENDS GameRoom, TLAPS, SequenceTheorems, FiniteSetTheorems

-----------------------------------------------------------------------------
(* Type correctness.                                                       *)

(* A connection outside the game is a Client record.                       *)
LEMMA OutsideType ==
  ASSUME NEW state \in ConnStates
  PROVE  Outside(state) \in Connections
  BY ConstantsAssumption DEF Outside, Connections, NoSlot

(* The pieces every token, wire and job is made of have their types.       *)
LEMMA PieceTypes ==
  /\ NoToken \in Tokens
  /\ NoOpener \in Openers
  /\ EmptyWire \in Wires
  /\ NoJob \in Jobs
  /\ \A s \in Slots, n \in Nat : <<s, n>> \in Tokens
  /\ \A kind \in {"starting", "reseated"}, t \in Tokens : Opener(kind, t) \in Openers
  /\ \A o \in Openers : [EmptyWire EXCEPT !.opener = o] \in Wires
  <1>1. NoToken \in Tokens
    BY DEF Tokens
  <1>2. NoOpener \in Openers
    BY <1>1 DEF NoOpener, Openers, Opener
  <1>3. EmptyWire \in Wires
    BY <1>2 DEF EmptyWire, Wires
  <1>4. \A o \in Openers : [EmptyWire EXCEPT !.opener = o] \in Wires
    BY <1>3 DEF Wires
  <1>5. NoJob \in Jobs
    BY DEF NoJob, Jobs
  <1>6. \A s \in Slots, n \in Nat : <<s, n>> \in Tokens
    BY DEF Tokens
  <1>7. \A kind \in {"starting", "reseated"}, t \in Tokens : Opener(kind, t) \in Openers
    BY DEF Opener, Openers
  <1> QED
    BY <1>1, <1>2, <1>3, <1>4, <1>5, <1>6, <1>7

(* The room as it is started has the types of TypeOK (Init).               *)
THEOREM InitType == Init => TypeOK
  <1> SUFFICES ASSUME Init PROVE TypeOK
    OBVIOUS
  <1> USE ConstantsAssumption DEF Init
  <1>1. room \in Rooms
    BY DEF Rooms, Players
  <1>2. seat \in [Slots -> Seats]
    BY PieceTypes DEF Seats, Players
  <1>3. conn \in [Conns -> Connections]
    <2> SUFFICES ASSUME NEW c \in Conns PROVE conn[c] \in Connections
      OBVIOUS
    <2>1. /\ Outside("game") \in Connections
          /\ Outside("none") \in Connections
      BY OutsideType DEF ConnStates
    <2>2. CASE \E p \in Players : Seated[p] = c
      <3>1. Owner[c] \in Slots
        BY <2>2 DEF Players
      <3> QED
        BY <2>1, <2>2, <3>1 DEF Connections
    <2> QED
      BY <2>1, <2>2 DEF Connections
  <1>4. /\ log \in Seq(Bundles) /\ job \in Jobs
        /\ pending \in Seq(Events) /\ ai \in [Slots -> Nat]
    BY PieceTypes
  <1>5. up \in SUBSET Conns
    BY DEF Players
  <1>6. wire \in [Conns -> Wires]
    <2> SUFFICES ASSUME NEW c \in Conns PROVE wire[c] \in Wires
      OBVIOUS
    <2>1. CASE \E p \in Players : Seated[p] = c
      <3>1. Owner[c] \in Slots
        BY <2>1 DEF Players
      <3> QED
        BY <2>1, <3>1, PieceTypes
    <2> QED
      BY <2>1, PieceTypes
  <1>7. peer \in [Persons -> Peers]
    BY PieceTypes DEF Peers
  <1> QED
    BY <1>1, <1>2, <1>3, <1>4, <1>5, <1>6, <1>7 DEF TypeOK

(* Leaving changes the room, the seat and the pending events only.         *)
LEMMA LeaveRoomType ==
  ASSUME TypeOK, SeatOwnership, GameRunning,
         NEW c \in Conns, InGame(c), LeaveRoom(c)
  PROVE  /\ room' \in Rooms
         /\ seat' \in [Slots -> Seats]
         /\ pending' \in Seq(Events)
  <1>1. CASE c \in room.spectators
    BY <1>1 DEF LeaveRoom, TypeOK, Rooms
  <1>2. CASE c \notin room.spectators
    <2>1. conn[c].slot \in Slots
      BY <1>2 DEF SeatOwnership, GameRunning, TypeOK, Connections
    <2>2. Forfeited(seat[conn[c].slot]) \in Seats
      <3>1. seat[conn[c].slot] \in Seats
        BY <2>1 DEF TypeOK
      <3> QED
        BY <3>1 DEF Forfeited, Seats
    <2>3. Event("Leave", conn[c].slot) \in Events
      BY <2>1 DEF Event, Events
    <2>4. seat' \in [Slots -> Seats]
      BY <1>2, <2>1, <2>2 DEF LeaveRoom, TypeOK
    <2>5. pending' \in Seq(Events)
      <3>1. pending' = Append(pending, Event("Leave", conn[c].slot))
        BY <1>2 DEF LeaveRoom
      <3> QED
        BY <2>3, <3>1, AppendProperties DEF TypeOK
    <2> QED
      BY <1>2, <2>4, <2>5 DEF LeaveRoom, TypeOK
  <1> QED
    BY <1>1, <1>2

(* So does a takeover, with the connections and the controllers.           *)
LEMMA AiTakesSeatType ==
  ASSUME TypeOK, NEW s \in Slots, AiTakesSeat(s)
  PROVE  TypeOK'
  <1> DEFINE old == seat[s].client
             taken == [seat[s] EXCEPT !.type = "ai", !.client = NoConn,
                         !.taken = seat[s].token, !.token = NoToken, !.waiting = FALSE]
             st == [seat EXCEPT ![s] = taken]
             cs == IF old \in Conns THEN Unseated(conn, old) ELSE conn
  <1>1. taken \in Seats
    BY PieceTypes DEF TypeOK, Seats
  <1>2. seat' = st /\ st \in [Slots -> Seats]
    BY <1>1 DEF AiTakesSeat, TypeOK
  <1>3. conn' = cs /\ cs \in [Conns -> Connections]
    BY OutsideType DEF AiTakesSeat, Unseated, TypeOK, ConnStates
  <1>4. pending' \in Seq(Events)
    BY DEF AiTakesSeat, TypeOK, Event, Events
  <1>5. ai' \in [Slots -> Nat]
    BY DEF AiTakesSeat, TypeOK
  <1>6. NextHosts(st, cs) \subseteq Conns
    BY <1>2 DEF NextHosts, FirstOf, TypeOK, Rooms, Seats
  <1>7. \E host \in NextHosts(st, cs) : room' = [room EXCEPT !.host = host]
    BY DEF AiTakesSeat
  <1>8. room' \in Rooms
    BY <1>6, <1>7 DEF TypeOK, Rooms
  <1>9. UNCHANGED <<log, job, up, wire, peer>>
    BY DEF AiTakesSeat
  <1> QED
    BY <1>2, <1>3, <1>4, <1>5, <1>8, <1>9 DEF TypeOK

(* The first bundle a client lacks has a number.                           *)
LEMMA NextBundleTickType ==
  ASSUME TypeOK, NEW c \in Conns
  PROVE  NextBundleTick(Owner[c]) \in Nat
  <1> DEFINE got == peer[Owner[c]].replayLog
  <1>1. got \in Seq(Bundles)
    BY ConstantsAssumption DEF TypeOK, Peers
  <1>2. CASE got # <<>>
    <2>1. got[Len(got)] \in Bundles
      BY <1>1, <1>2, EmptySeq, ElementOfSeq
    <2>2. got[Len(got)].tick \in Nat
      BY <2>1 DEF Bundles
    <2> QED
      BY <1>2, <2>2 DEF NextBundleTick
  <1> QED
    BY <1>2 DEF NextBundleTick

(* A connection keeps its type when a flag of it changes, or what it has   *)
(* acknowledged, or how far it has been replayed to.                       *)
LEMMA ConnFieldTypes ==
  ASSUME TypeOK, NEW c \in Conns
  PROVE  /\ \A b \in BOOLEAN : /\ [conn EXCEPT ![c].silent = b] \in [Conns -> Connections]
                               /\ [conn EXCEPT ![c].loaded = b] \in [Conns -> Connections]
         /\ \A n \in Nat : [conn EXCEPT ![c].ackTick = n] \in [Conns -> Connections]
         /\ \A n \in Nat, lead \in 0 .. MaxLead :
              [conn EXCEPT ![c].ackTick = n, ![c].leadTicks = lead] \in [Conns -> Connections]
         /\ \A n \in Nat, b \in BOOLEAN :
              [conn EXCEPT ![c].replayPos = n, ![c].replaying = b] \in [Conns -> Connections]
  <1>1. conn \in [Conns -> Connections] /\ conn[c] \in Connections
    BY DEF TypeOK
  <1> HIDE DEF TypeOK
  <1>2. ASSUME NEW r \in Connections PROVE [conn EXCEPT ![c] = r] \in [Conns -> Connections]
    BY <1>1
  <1>3. ASSUME NEW b \in BOOLEAN
        PROVE  /\ [conn EXCEPT ![c].silent = b] \in [Conns -> Connections]
               /\ [conn EXCEPT ![c].loaded = b] \in [Conns -> Connections]
    <2>1. /\ [conn[c] EXCEPT !.silent = b] \in Connections
          /\ [conn[c] EXCEPT !.loaded = b] \in Connections
      BY <1>1 DEF Connections
    <2> QED
      BY <1>2, <2>1
  <1>4. ASSUME NEW n \in Nat PROVE [conn EXCEPT ![c].ackTick = n] \in [Conns -> Connections]
    <2>1. [conn[c] EXCEPT !.ackTick = n] \in Connections
      BY <1>1 DEF Connections
    <2> QED
      BY <1>2, <2>1
  <1>5. ASSUME NEW n \in Nat, NEW lead \in 0 .. MaxLead
        PROVE  [conn EXCEPT ![c].ackTick = n, ![c].leadTicks = lead] \in [Conns -> Connections]
    <2>1. [conn[c] EXCEPT !.ackTick = n, !.leadTicks = lead] \in Connections
      BY <1>1 DEF Connections
    <2>2. [conn EXCEPT ![c].ackTick = n, ![c].leadTicks = lead]
            = [conn EXCEPT ![c] = [conn[c] EXCEPT !.ackTick = n, !.leadTicks = lead]]
      BY <1>1
    <2> QED
      BY <1>2, <2>1, <2>2
  <1>6. ASSUME NEW n \in Nat, NEW b \in BOOLEAN
        PROVE  [conn EXCEPT ![c].replayPos = n, ![c].replaying = b] \in [Conns -> Connections]
    <2>1. [conn[c] EXCEPT !.replayPos = n, !.replaying = b] \in Connections
      BY <1>1 DEF Connections
    <2>2. [conn EXCEPT ![c].replayPos = n, ![c].replaying = b]
            = [conn EXCEPT ![c] = [conn[c] EXCEPT !.replayPos = n, !.replaying = b]]
      BY <1>1
    <2> QED
      BY <1>2, <2>1, <2>2
  <1> QED
    BY <1>3, <1>4, <1>5, <1>6

(* A seat keeps its type when a wait begins or ends.                       *)
LEMMA SeatWaitType ==
  ASSUME TypeOK, NEW s \in Slots, NEW b \in BOOLEAN
  PROVE  /\ [seat EXCEPT ![s].waiting = b] \in [Slots -> Seats]
         /\ [seat[s] EXCEPT !.defeated = b] \in Seats
  <1>1. seat \in [Slots -> Seats] /\ seat[s] \in Seats
    BY DEF TypeOK
  <1>2. [seat[s] EXCEPT !.waiting = b] \in Seats /\ [seat[s] EXCEPT !.defeated = b] \in Seats
    BY <1>1 DEF Seats
  <1> QED
    BY <1>1, <1>2

(* Every step of the game keeps the types of TypeOK.                       *)
THEOREM NextType ==
  TypeOK /\ SeatOwnership /\ GameRunning /\ [Next]_vars => TypeOK'
  <1> SUFFICES ASSUME TypeOK, SeatOwnership, GameRunning, [Next]_vars PROVE TypeOK'
    OBVIOUS
  <1>1. ASSUME NEW c \in Conns, GoSilent(c) PROVE TypeOK'
    <2>1. conn' \in [Conns -> Connections]
      BY <1>1, ConnFieldTypes DEF GoSilent
    <2> QED
      BY <1>1, <2>1 DEF TypeOK, GoSilent, roomVars
  <1>2. ASSUME NEW c \in Conns, Speak(c) PROVE TypeOK'
    <2>1. conn' \in [Conns -> Connections]
      BY <1>2, ConnFieldTypes DEF Speak
    <2> QED
      BY <1>2, <2>1 DEF TypeOK, Speak, roomVars
  <1>3. ASSUME NEW c \in Conns, Loaded(c) PROVE TypeOK'
    <2>1. conn' \in [Conns -> Connections]
      BY <1>3, ConnFieldTypes DEF Loaded
    <2> QED
      BY <1>3, <2>1 DEF TypeOK, Loaded, roomVars
  <1>4. ASSUME NEW c \in Conns, SetPause(c) PROVE TypeOK'
    <2>1. room' \in Rooms
      BY <1>4 DEF TypeOK, SetPause, Rooms
    <2> QED
      BY <1>4, <2>1 DEF TypeOK, SetPause
  <1>5. ASSUME NEW c \in Conns, NEW tk \in 0 .. MaxTicks, StateHash(c, tk) PROVE TypeOK'
    <2>1. conn' \in [Conns -> Connections]
      <3> DEFINE ack == IF tk > conn[c].ackTick THEN tk ELSE conn[c].ackTick
      <3>1. ack \in Nat
        BY ConstantsAssumption DEF TypeOK, Connections
      <3>2. conn' = [conn EXCEPT ![c].ackTick = ack]
        BY <1>5 DEF StateHash
      <3> HIDE DEF ack
      <3> QED
        BY <3>1, <3>2, ConnFieldTypes
    <2> QED
      BY <1>5, <2>1 DEF TypeOK, StateHash, roomVars
  <1>6. ASSUME NEW c \in Conns, NEW tk \in 0 .. MaxTicks, NEW lead \in Leads, Progress(c, tk, lead) PROVE TypeOK'
    <2>1. conn' \in [Conns -> Connections]
      <3> DEFINE ack == IF tk > conn[c].ackTick THEN tk ELSE conn[c].ackTick
      <3>1. ack \in Nat /\ lead \in 0 .. MaxLead
        BY ConstantsAssumption DEF TypeOK, Connections
      <3>2. conn' = [conn EXCEPT ![c].ackTick = ack, ![c].leadTicks = lead]
        BY <1>6 DEF Progress
      <3> HIDE DEF ack
      <3> QED
        BY <3>1, <3>2, ConnFieldTypes
    <2> QED
      BY <1>6, <2>1 DEF TypeOK, Progress, roomVars
  <1>7. ASSUME NEW c \in Conns, LeaveGame(c) PROVE TypeOK'
    <2>1. room' \in Rooms /\ seat' \in [Slots -> Seats] /\ pending' \in Seq(Events)
      BY <1>7, LeaveRoomType DEF LeaveGame
    <2>2. conn' \in [Conns -> Connections]
      BY <1>7, OutsideType DEF TypeOK, LeaveGame, ConnStates
    <2>3. wire' \in [Conns -> Wires]
      BY <1>7, PieceTypes DEF TypeOK, LeaveGame
    <2>4. peer' \in [Persons -> Peers]
      <3>1. Owner[c] \in Persons /\ peer[Owner[c]] \in Peers
        BY ConstantsAssumption DEF TypeOK
      <3>2. [peer[Owner[c]] EXCEPT !.phase = "away"] \in Peers
        BY <3>1 DEF Peers
      <3> QED
        BY <1>7, <3>1, <3>2 DEF TypeOK, LeaveGame
    <2> QED
      BY <1>7, <2>1, <2>2, <2>3, <2>4 DEF TypeOK, LeaveGame
  <1>8. ASSUME NEW c \in Conns, DropClient(c) PROVE TypeOK'
    <2>1. room' \in Rooms /\ seat' \in [Slots -> Seats] /\ pending' \in Seq(Events)
      <3>1. CASE HoldsSeat(c)
        <4>1. conn[c].slot \in Slots
          BY <3>1 DEF HoldsSeat, TypeOK, Connections
        <4>2. [seat[conn[c].slot] EXCEPT !.client = NoConn, !.waiting = TRUE] \in Seats
          <5>1. seat[conn[c].slot] \in Seats
            BY <4>1 DEF TypeOK
          <5> QED
            BY <5>1 DEF Seats
        <4>3. InGame(c)
          BY <3>1 DEF HoldsSeat
        <4> QED
          BY <1>8, <3>1, <4>1, <4>2, <4>3 DEF TypeOK, DropClient
      <3>2. CASE InGame(c) /\ ~HoldsSeat(c)
        BY <1>8, <3>2, LeaveRoomType DEF DropClient
      <3>3. CASE ~InGame(c)
        BY <1>8, <3>3 DEF TypeOK, DropClient, HoldsSeat
      <3> QED
        BY <3>1, <3>2, <3>3
    <2>2. conn' \in [Conns -> Connections]
      BY <1>8, OutsideType DEF TypeOK, DropClient, ConnStates
    <2> QED
      BY <1>8, <2>1, <2>2 DEF TypeOK, DropClient
  <1>9. ASSUME NEW c \in Conns, Connect(c) PROVE TypeOK'
    <2>1. conn' \in [Conns -> Connections]
      BY <1>9, OutsideType DEF TypeOK, Connect, ConnStates
    <2> QED
      BY <1>9, <2>1 DEF TypeOK, Connect, roomVars
  <1>10. ASSUME NEW c \in Conns, Rejoin(c) PROVE TypeOK'
    <2>1. PICK s \in Slots :
            LET next == <<s, seat[s].token[2] + 1>>
                old  == seat[s].client
            IN  /\ Opens(c, s)
                /\ NextBundleTick(Owner[c]) <= Tick
                /\ seat' = [seat EXCEPT ![s].client = c, ![s].token = next,
                                        ![s].waiting = FALSE]
                /\ conn' = [IF old \in Conns THEN Unseated(conn, old) ELSE conn EXCEPT ![c] =
                     [Outside("game") EXCEPT
                        !.slot = s, !.loaded = TRUE,
                        !.replaying = NextBundleTick(Owner[c]) < Tick,
                        !.replayPos = NextBundleTick(Owner[c]),
                        !.ackTick = IF NextBundleTick(Owner[c]) = 0 THEN 0
                                    ELSE NextBundleTick(Owner[c]) - 1]]
                /\ wire' = [wire EXCEPT ![c].opener = Opener("reseated", next)]
      BY <1>10 DEF Rejoin
    <2> DEFINE next == <<s, seat[s].token[2] + 1>>
               from == NextBundleTick(Owner[c])
    <2>2. next \in Tokens
      <3>1. seat[s].token \in Tokens /\ seat[s].token # NoToken
        BY <2>1 DEF Opens, TypeOK, Seats
      <3>2. seat[s].token[2] + 1 \in Nat
        BY <3>1 DEF Tokens
      <3> QED
        BY <3>2, PieceTypes
    <2>3. from \in Nat
      BY <1>10, NextBundleTickType
    <2>4. seat' \in [Slots -> Seats]
      <3>1. [seat[s] EXCEPT !.client = c, !.token = next, !.waiting = FALSE] \in Seats
        BY <2>2 DEF TypeOK, Seats
      <3> QED
        BY <2>1, <3>1 DEF TypeOK
    <2>5. conn' \in [Conns -> Connections]
      <3>1. [Outside("game") EXCEPT
               !.slot = s, !.loaded = TRUE, !.replaying = from < Tick, !.replayPos = from,
               !.ackTick = IF from = 0 THEN 0 ELSE from - 1] \in Connections
        <4>1. Outside("game") \in Connections
          BY OutsideType DEF ConnStates
        <4> HIDE DEF from
        <4>2. (IF from = 0 THEN 0 ELSE from - 1) \in Nat /\ (from < Tick) \in BOOLEAN
          BY <2>3
        <4> QED
          BY <2>3, <4>1, <4>2 DEF Connections
      <3>2. (IF seat[s].client \in Conns THEN Unseated(conn, seat[s].client) ELSE conn)
              \in [Conns -> Connections]
        BY OutsideType DEF Unseated, TypeOK, ConnStates
      <3> QED
        BY <2>1, <3>1, <3>2
    <2>6. wire' \in [Conns -> Wires]
      BY <2>1, <2>2, PieceTypes DEF TypeOK, Wires
    <2> QED
      BY <1>10, <2>4, <2>5, <2>6 DEF TypeOK, Rejoin
  <1>11. ASSUME NEW c \in Conns, RejoinRefused(c) PROVE TypeOK'
    <2>1. peer' \in [Persons -> Peers]
      BY <1>11 DEF TypeOK, RejoinRefused, Peers
    <2> QED
      BY <1>11, <2>1 DEF TypeOK, RejoinRefused, roomVars
  <1>12. ASSUME NEW c \in Conns, Spectate(c) PROVE TypeOK'
    <2>1. room' \in Rooms
      BY <1>12 DEF TypeOK, Spectate, Rooms
    <2>2. [Outside("game") EXCEPT !.loaded = TRUE, !.replaying = TRUE] \in Connections
      BY OutsideType DEF Connections, ConnStates
    <2>3. conn' \in [Conns -> Connections]
      BY <1>12, <2>2 DEF TypeOK, Spectate
    <2>4. wire' \in [Conns -> Wires]
      BY <1>12, PieceTypes DEF TypeOK, Spectate
    <2> QED
      BY <1>12, <2>1, <2>2, <2>3, <2>4 DEF TypeOK, Spectate
  <1>13. ASSUME NEW c \in Conns, NEW n \in 0 .. MaxTicks, Feed(c, n) PROVE TypeOK'
    <2>1. conn' \in [Conns -> Connections]
      <3> DEFINE behind == n < Tick
      <3>1. n \in Nat /\ behind \in BOOLEAN
        BY ConstantsAssumption
      <3>2. conn' = [conn EXCEPT ![c].replayPos = n, ![c].replaying = behind]
        BY <1>13 DEF Feed
      <3> HIDE DEF behind
      <3> QED
        BY <3>1, <3>2, ConnFieldTypes
    <2>2. wire' \in [Conns -> Wires]
        <3>1. SubSeq(log, conn[c].replayPos + 1, n) \in Seq(Bundles)
          BY <1>13 DEF TypeOK, Feed, Connections, Tick
        <3>2. wire[c].bundles \o SubSeq(log, conn[c].replayPos + 1, n) \in Seq(Bundles)
          BY <3>1 DEF TypeOK, Wires
        <3> QED
          BY <1>13, <3>2 DEF TypeOK, Feed, Wires
    <2> QED
      BY <1>13, <2>1, <2>2 DEF TypeOK, Feed, roomVars
  <1>14. ASSUME NEW c \in Conns, ReadOpener(c) PROVE TypeOK'
    <2>1. peer' \in [Persons -> Peers]
        <3>1. Owner[c] \in Persons /\ wire[c].opener.token \in Tokens
          BY ConstantsAssumption DEF TypeOK, Wires, Openers
        <3>2. [peer[Owner[c]] EXCEPT !.phase = "playing", !.token = wire[c].opener.token] \in Peers
          BY <3>1 DEF TypeOK, Peers
        <3>3. \A ph \in {"watching", "starting"} :
                [phase |-> ph, token |-> wire[c].opener.token, replayLog |-> <<>>] \in Peers
          BY <3>1 DEF Peers
        <3> QED
          BY <1>14, <3>1, <3>2, <3>3 DEF TypeOK, ReadOpener
    <2>2. wire' \in [Conns -> Wires]
      BY <1>14, PieceTypes DEF TypeOK, ReadOpener, Wires
    <2> QED
      BY <1>14, <2>1, <2>2 DEF TypeOK, ReadOpener, roomVars
  <1>15. ASSUME NEW c \in Conns, ReadBundle(c) PROVE TypeOK'
    <2>1. peer' \in [Persons -> Peers]
        <3>1. Owner[c] \in Persons /\ Head(wire[c].bundles) \in Bundles
          <4>1. wire[c].bundles \in Seq(Bundles) /\ wire[c].bundles # <<>>
            BY <1>15 DEF TypeOK, ReadBundle, Wires
          <4> QED
            BY <4>1, HeadTailProperties, ConstantsAssumption
        <3>2. Append(peer[Owner[c]].replayLog, Head(wire[c].bundles)) \in Seq(Bundles)
          BY <3>1, AppendProperties DEF TypeOK, Peers
        <3> DEFINE got == Append(peer[Owner[c]].replayLog, Head(wire[c].bundles))
                   phase == IF peer[Owner[c]].phase = "starting" THEN "playing"
                            ELSE peer[Owner[c]].phase
        <3>3. phase \in {"away", "starting", "playing", "watching", "lost"}
          BY <3>1 DEF TypeOK, Peers
        <3>4. peer' = [peer EXCEPT ![Owner[c]] =
                        [peer[Owner[c]] EXCEPT !.replayLog = got, !.phase = phase]]
          BY <1>15 DEF ReadBundle
        <3> HIDE DEF got, phase
        <3>5. [peer[Owner[c]] EXCEPT !.replayLog = got, !.phase = phase] \in Peers
          BY <3>1, <3>2, <3>3 DEF TypeOK, Peers, got
        <3> QED
          BY <3>1, <3>4, <3>5 DEF TypeOK
    <2>2. wire' \in [Conns -> Wires]
      <3>1. wire[c].bundles \in Seq(Bundles) /\ wire[c].bundles # <<>>
        BY <1>15 DEF TypeOK, ReadBundle, Wires
      <3>2. [wire[c] EXCEPT !.bundles = Tail(wire[c].bundles)] \in Wires
        <4>1. Tail(wire[c].bundles) \in Seq(Bundles) /\ wire[c] \in Wires
          BY <3>1, HeadTailProperties DEF TypeOK
        <4> QED
          BY <4>1 DEF Wires
      <3> QED
        BY <1>15, <3>2 DEF TypeOK, ReadBundle
    <2> QED
      BY <1>15, <2>1, <2>2 DEF TypeOK, ReadBundle, roomVars
  <1>16. ASSUME NEW c \in Conns, LinkBreaks(c) PROVE TypeOK'
    <2>1. peer' \in [Persons -> Peers]
      <3>1. Owner[c] \in Persons
        BY ConstantsAssumption
      <3>2. PICK phase \in {"away", "lost"} :
              peer' = [peer EXCEPT ![Owner[c]].phase = phase]
        BY <1>16 DEF LinkBreaks
      <3>3. [peer[Owner[c]] EXCEPT !.phase = phase] \in Peers
        BY <3>1 DEF TypeOK, Peers
      <3> QED
        BY <3>1, <3>2, <3>3 DEF TypeOK
    <2>2. wire' \in [Conns -> Wires]
      BY <1>16, PieceTypes DEF TypeOK, LinkBreaks
    <2> QED
      BY <1>16, <2>1, <2>2 DEF TypeOK, LinkBreaks, roomVars
  <1>17. ASSUME NEW s \in Slots, BeginWait(s) PROVE TypeOK'
    <2>1. seat' \in [Slots -> Seats]
      BY <1>17, SeatWaitType DEF BeginWait
    <2> QED
      BY <1>17, <2>1 DEF TypeOK, BeginWait
  <1>18. ASSUME NEW s \in Slots, EndWait(s) PROVE TypeOK'
    <2>1. seat' \in [Slots -> Seats]
      BY <1>18, SeatWaitType DEF EndWait
    <2> QED
      BY <1>18, <2>1 DEF TypeOK, EndWait
  <1>19. ASSUME NEW s \in Slots, TakeOver(s) PROVE TypeOK'
    <2>1. CASE StillIn(s)
      BY <1>19, <2>1, AiTakesSeatType DEF TakeOver
    <2>2. CASE ~StillIn(s)
      <3>1. seat' \in [Slots -> Seats]
        <4>1. [seat[s] EXCEPT !.waiting = FALSE] \in Seats
          BY DEF TypeOK, Seats
        <4> QED
          BY <1>19, <2>2, <4>1 DEF TypeOK, TakeOver
      <3> QED
        BY <1>19, <2>2, <3>1 DEF TypeOK, TakeOver
    <2> QED
      BY <2>1, <2>2
  <1>20. ASSUME NEW s \in Slots, HoldTakeOver(s) PROVE TypeOK'
    BY <1>20, AiTakesSeatType DEF HoldTakeOver
  <1>21. ASSUME NEW p \in Persons, GiveUp(p) PROVE TypeOK'
    <2>1. peer' \in [Persons -> Peers]
      BY <1>21 DEF TypeOK, GiveUp, Peers
    <2> QED
      BY <1>21, <2>1 DEF TypeOK, GiveUp, roomVars
  <1>22. ASSUME CloseTick PROVE TypeOK'
    <2>1. job' \in Jobs
      BY <1>22 DEF TypeOK, CloseTick, Jobs
    <2>2. pending' \in Seq(Events)
      BY <1>22 DEF CloseTick
    <2> QED
      BY <1>22, <2>1, <2>2 DEF TypeOK, CloseTick
  <1>23. ASSUME WorkerRuns PROVE TypeOK'
    <2>1. job' \in Jobs
      BY <1>23 DEF TypeOK, WorkerRuns, Jobs
    <2> QED
      BY <1>23, <2>1 DEF TypeOK, WorkerRuns
  <1>24. ASSUME JobFails PROVE TypeOK'
    <2>1. job' \in Jobs
      BY <1>24, PieceTypes DEF JobFails
    <2>2. room' \in Rooms
      BY <1>24 DEF TypeOK, JobFails, Rooms
    <2> QED
      BY <1>24, <2>1, <2>2 DEF TypeOK, JobFails
  <1>25. ASSUME Teardown PROVE TypeOK'
    <2>1. room' \in Rooms
      BY <1>25 DEF TypeOK, Teardown, Rooms
    <2>2. conn' \in [Conns -> Connections]
      BY <1>25, OutsideType DEF TypeOK, Teardown, ConnStates
    <2> QED
      BY <1>25, <2>1, <2>2 DEF TypeOK, Teardown
  <1>26. ASSUME NEW beaten \in SUBSET {s \in Players : ~seat[s].defeated}, FinishTick(beaten) PROVE TypeOK'
    <2> DEFINE bundle == [tick |-> Tick, events |-> job.events, ais |-> job.ais]
    <2>1. bundle \in Bundles
      BY DEF TypeOK, Bundles, Jobs, Tick
    <2>2. log' \in Seq(Bundles)
      BY <1>26, <2>1 DEF TypeOK, FinishTick
    <2>3. wire' \in [Conns -> Wires]
      <3>1. ASSUME NEW c \in Conns
            PROVE  [wire[c] EXCEPT !.bundles = Append(wire[c].bundles, bundle)] \in Wires
        <4>1. Append(wire[c].bundles, bundle) \in Seq(Bundles)
          BY <2>1, AppendProperties DEF TypeOK, Wires
        <4> QED
          BY <4>1 DEF TypeOK, Wires
      <3> HIDE DEF bundle
      <3>2. wire' = [c \in Conns |->
              IF Live(c) THEN [wire[c] EXCEPT !.bundles = Append(wire[c].bundles, bundle)]
              ELSE wire[c]]
        BY <1>26 DEF FinishTick, bundle
      <3> QED
        BY <3>1, <3>2 DEF TypeOK
    <2>4. seat' \in [Slots -> Seats]
      BY <1>26, SeatWaitType DEF TypeOK, FinishTick
    <2>5. job' \in Jobs
      BY <1>26, PieceTypes DEF FinishTick
    <2> QED
      BY <1>26, <2>2, <2>3, <2>4, <2>5 DEF TypeOK, FinishTick
  <1>27. ASSUME UNCHANGED vars PROVE TypeOK'
    BY <1>27 DEF TypeOK, vars
  <1> QED
    BY <1>1, <1>2, <1>3, <1>4, <1>5, <1>6, <1>7, <1>8, <1>9, <1>10, <1>11, <1>12, <1>13, <1>14, <1>15, <1>16, <1>17, <1>18, <1>19, <1>20, <1>21, <1>22, <1>23, <1>24, <1>25, <1>26, <1>27 DEF Next

-----------------------------------------------------------------------------
(* Who sits where.                                                         *)

SeatInv == SeatOwnership /\ GameRunning

(* The room as it is started has every player on the seat it sat down on.  *)
LEMMA InitSeats == Init => SeatInv
  <1> SUFFICES ASSUME Init PROVE SeatInv
    OBVIOUS
  <1>1. \A p \in Players : Seated[p] \in Conns /\ Owner[Seated[p]] = p /\ p \in Slots
    BY ConstantsAssumption DEF Players
  <1>2. \A p, q \in Players : Seated[p] = Seated[q] => p = q
    BY <1>1
  <1>3. \A c \in StartWatchers : c \in Conns /\ \A p \in Players : Seated[p] # c
    BY <1>1, ConstantsAssumption
  <1>4. room.running /\ room.spectators = StartWatchers
    BY DEF Init
  <1>5. ASSUME NEW s \in Slots, Connected(s)
        PROVE  Human(s) /\ InGame(seat[s].client) /\ conn[seat[s].client].slot = s
    <2>1. s \in Players /\ seat[s].client = Seated[s] /\ Human(s)
      BY <1>5 DEF Init, Connected, Human
    <2>2. conn[Seated[s]] = [Outside("game") EXCEPT !.slot = Owner[Seated[s]]]
      BY <2>1, <1>1 DEF Init
    <2> QED
      BY <2>1, <2>2, <1>1 DEF InGame, Outside
  <1>6. ASSUME NEW c \in StartWatchers PROVE InGame(c) /\ conn[c].slot = NoSlot
    BY <1>3 DEF Init, InGame, Outside
  <1>7. ASSUME NEW c \in Conns, InGame(c)
        PROVE  IF conn[c].slot = NoSlot THEN c \in StartWatchers
               ELSE seat[conn[c].slot].client = c
    <2>1. CASE \E p \in Players : Seated[p] = c
      <3>1. PICK p \in Players : Seated[p] = c
        BY <2>1
      <3>2. conn[c].slot = p
        BY <3>1, <1>1 DEF Init, Outside
      <3>3. p # NoSlot /\ seat[p].client = c
        BY <3>1, <1>1, ConstantsAssumption DEF Init, NoSlot, Slots
      <3> QED
        BY <3>2, <3>3
    <2>2. CASE ~ \E p \in Players : Seated[p] = c
      BY <1>7, <2>2 DEF Init, InGame, Outside
    <2> QED
      BY <2>1, <2>2
  <1> QED
    BY <1>4, <1>5, <1>6, <1>7 DEF SeatInv, SeatOwnership, GameRunning

(* A step that moves nobody in the game keeps everybody's place.           *)
LEMMA SameSeats ==
  ASSUME TypeOK, SeatInv,
         UNCHANGED <<room.running, room.spectators>>,
         \A s \in Slots : UNCHANGED <<seat[s].type, seat[s].client>>,
         \A d \in Conns :
           IF conn[d].state # "game" THEN conn'[d].state # "game"
           ELSE UNCHANGED <<conn[d].state, conn[d].slot>>
  PROVE  SeatInv'
  <1>1. GameRunning'
    BY DEF SeatInv, GameRunning, InGame
  <1>2. ASSUME room'.running, NEW s \in Slots, Connected(s)'
        PROVE  (Human(s) /\ InGame(seat[s].client) /\ conn[seat[s].client].slot = s)'
    <2>1. seat[s].client \in Conns
      BY <1>2 DEF Connected, TypeOK, Seats
    <2> QED
      BY <1>2, <2>1 DEF SeatInv, SeatOwnership, Connected, Human, InGame
  <1>3. ASSUME room'.running, NEW c \in room'.spectators
        PROVE  (InGame(c) /\ conn[c].slot = NoSlot)'
    BY <1>3 DEF SeatInv, SeatOwnership, InGame, TypeOK, Rooms, NoSlot
  <1>4. ASSUME room'.running, NEW c \in Conns, InGame(c)'
        PROVE  (IF conn[c].slot = NoSlot THEN c \in room.spectators
                ELSE seat[conn[c].slot].client = c)'
    <2>1. conn[c].slot \in Slots \cup {NoSlot}
      BY DEF TypeOK, Connections
    <2> QED
      BY <1>4, <2>1 DEF SeatInv, SeatOwnership, InGame, NoSlot
  <1> QED
    BY <1>1, <1>2, <1>3, <1>4 DEF SeatInv, SeatOwnership

(* A step that only takes connections out of the room, and empties the     *)
(* seats they sat on, leaves everybody else's place alone.                 *)
LEMMA MovingOut ==
  ASSUME TypeOK, SeatInv, NEW gone \in SUBSET Conns,
         room'.running = room.running,
         room'.spectators = room.spectators \ gone,
         \A s \in Slots :
           /\ seat'[s].client = IF seat[s].client \in gone THEN NoConn ELSE seat[s].client
           /\ seat'[s].client # NoConn => seat'[s].type = seat[s].type,
         \A d \in Conns :
           IF d \in gone \/ conn[d].state # "game" THEN conn'[d].state # "game"
           ELSE UNCHANGED <<conn[d].state, conn[d].slot>>
  PROVE  SeatInv'
  <1>1. GameRunning'
    BY DEF SeatInv, GameRunning, InGame
  <1>2. ASSUME room'.running, NEW s \in Slots, Connected(s)'
        PROVE  (Human(s) /\ InGame(seat[s].client) /\ conn[seat[s].client].slot = s)'
    <2>1. seat'[s].client = seat[s].client /\ seat[s].client \notin gone /\ Connected(s)
      BY <1>2 DEF Connected
    <2>2. seat[s].client \in Conns
      BY <2>1 DEF Connected, TypeOK, Seats
    <2>3. Human(s) /\ InGame(seat[s].client) /\ conn[seat[s].client].slot = s
      BY <1>2, <2>1 DEF SeatInv, SeatOwnership
    <2> QED
      BY <1>2, <2>1, <2>2, <2>3 DEF Connected, Human, InGame
  <1>3. ASSUME room'.running, NEW c \in room'.spectators
        PROVE  (InGame(c) /\ conn[c].slot = NoSlot)'
    <2>1. c \in Conns /\ c \in room.spectators /\ c \notin gone
      BY DEF TypeOK, Rooms
    <2>2. InGame(c) /\ conn[c].slot = NoSlot
      BY <1>3, <2>1 DEF SeatInv, SeatOwnership
    <2> QED
      BY <2>1, <2>2 DEF InGame, NoSlot
  <1>4. ASSUME room'.running, NEW c \in Conns, InGame(c)'
        PROVE  (IF conn[c].slot = NoSlot THEN c \in room.spectators
                ELSE seat[conn[c].slot].client = c)'
    <2>1. c \notin gone /\ InGame(c) /\ conn'[c].slot = conn[c].slot
      BY <1>4 DEF InGame
    <2>2. conn[c].slot \in Slots \cup {NoSlot}
      BY DEF TypeOK, Connections
    <2>3. IF conn[c].slot = NoSlot THEN c \in room.spectators
          ELSE seat[conn[c].slot].client = c
      BY <1>4, <2>1 DEF SeatInv, SeatOwnership
    <2> QED
      BY <2>1, <2>2, <2>3 DEF NoSlot
  <1> QED
    BY <1>1, <1>2, <1>3, <1>4 DEF SeatInv, SeatOwnership

(* Leaving takes the connection that leaves out of the room.               *)
LEMMA LeavingSeats ==
  ASSUME TypeOK, SeatInv, NEW c \in Conns, InGame(c), LeaveRoom(c),
         NEW state \in {"lobby", "closed"},
         conn' = [conn EXCEPT ![c] = Outside(state)]
  PROVE  SeatInv'
  <1>1. \A d \in Conns :
          IF d \in {c} \/ conn[d].state # "game" THEN conn'[d].state # "game"
          ELSE UNCHANGED <<conn[d].state, conn[d].slot>>
    BY DEF TypeOK, Outside
  <1>2. CASE c \in room.spectators
    <2>1. ASSUME NEW s \in Slots, seat[s].client = c PROVE FALSE
      <3>1. room.running /\ conn[c].slot = NoSlot
        BY <1>2 DEF SeatInv, SeatOwnership, GameRunning
      <3>2. conn[c].slot = s
        BY <2>1, <3>1, ConstantsAssumption DEF SeatInv, SeatOwnership, Connected
      <3> QED
        BY <3>1, <3>2 DEF Slots, NoSlot
    <2>2. room' = [room EXCEPT !.spectators = @ \ {c}] /\ seat' = seat
      BY <1>2 DEF LeaveRoom
    <2>3. room'.running = room.running /\ room'.spectators = room.spectators \ {c}
      BY <2>2 DEF TypeOK, Rooms
    <2>4. \A s \in Slots :
            /\ seat'[s].client = IF seat[s].client \in {c} THEN NoConn ELSE seat[s].client
            /\ seat'[s].client # NoConn => seat'[s].type = seat[s].type
      BY <2>1, <2>2
    <2> QED
      BY <1>1, <2>3, <2>4, MovingOut
  <1>3. CASE c \notin room.spectators
    <2> DEFINE s == conn[c].slot
    <2>1. s \in Slots /\ seat[s].client = c
      BY <1>3 DEF SeatInv, SeatOwnership, GameRunning, TypeOK, Connections
    <2>2. room' = room /\ seat' = [seat EXCEPT ![s] = Forfeited(@)]
      BY <1>3 DEF LeaveRoom
    <2>3. \A t \in Slots : seat[t].client = c => t = s
      BY ConstantsAssumption DEF SeatInv, SeatOwnership, GameRunning, Connected
    <2>4. seat'[s].client = NoConn /\ \A t \in Slots : t # s => seat'[t] = seat[t]
      <3>1. seat[s] \in Seats
        BY <2>1 DEF TypeOK
      <3>2. Forfeited(seat[s]).client = NoConn
        BY <3>1 DEF Forfeited, Seats
      <3> HIDE DEF s
      <3> QED
        BY <2>1, <2>2, <3>2 DEF TypeOK
    <2>5. room'.spectators = room.spectators \ {c}
      BY <1>3, <2>2
    <2> HIDE DEF s
    <2>6. \A t \in Slots :
            /\ seat'[t].client = IF seat[t].client \in {c} THEN NoConn ELSE seat[t].client
            /\ seat'[t].client # NoConn => seat'[t].type = seat[t].type
      BY <2>1, <2>3, <2>4
    <2> QED
      BY <1>1, <2>2, <2>5, <2>6, MovingOut
  <1> QED
    BY <1>2, <1>3

(* A takeover takes the connection the seat had, if any, out of the room.  *)
LEMMA TakeOverSeats ==
  ASSUME TypeOK, SeatInv, NEW s \in Slots, room.running, AiTakesSeat(s)
  PROVE  SeatInv'
  <1> DEFINE old  == seat[s].client
             gone == IF old \in Conns THEN {old} ELSE {}
  <1>1. seat'[s].client = NoConn /\ \A t \in Slots : t # s => seat'[t] = seat[t]
    <2> DEFINE st == [seat[s] EXCEPT !.type = "ai", !.client = NoConn,
                        !.taken = seat[s].token, !.token = NoToken, !.waiting = FALSE]
    <2>1. seat' = [seat EXCEPT ![s] = st]
      BY DEF AiTakesSeat
    <2>2. st.client = NoConn
      BY DEF TypeOK, Seats
    <2> HIDE DEF st
    <2> QED
      BY <2>1, <2>2 DEF TypeOK
  <1>2. conn' = IF old \in Conns THEN [conn EXCEPT ![old] = Outside("bye")] ELSE conn
    BY DEF AiTakesSeat, Unseated
  <1>3. \A d \in Conns : IF d \in gone THEN conn'[d].state = "bye" ELSE conn'[d] = conn[d]
    BY <1>2 DEF TypeOK, Outside
  <1>4. old \in Conns => old \notin room.spectators /\ \A t \in Slots : seat[t].client = old => t = s
    <2>1. old \in Conns => conn[old].slot = s
      BY ConstantsAssumption DEF SeatInv, SeatOwnership, Connected
    <2> QED
      BY <2>1, ConstantsAssumption DEF SeatInv, SeatOwnership, Connected, NoSlot, Slots
  <1>5. \E h \in NextHosts(seat', conn') : room' = [room EXCEPT !.host = h]
    BY DEF AiTakesSeat
  <1>6. room'.running = room.running /\ room'.spectators = room.spectators
    BY <1>5 DEF TypeOK, Rooms
  <1>7. old \in Conns \cup {NoConn} /\ NoConn \notin Conns
    BY ConstantsAssumption DEF TypeOK, Seats
  <1>8. /\ gone \in SUBSET Conns
        /\ room'.spectators = room.spectators \ gone
        /\ \A t \in Slots :
             /\ seat'[t].client = IF seat[t].client \in gone THEN NoConn ELSE seat[t].client
             /\ seat'[t].client # NoConn => seat'[t].type = seat[t].type
        /\ \A d \in Conns :
             IF d \in gone \/ conn[d].state # "game" THEN conn'[d].state # "game"
             ELSE UNCHANGED <<conn[d].state, conn[d].slot>>
    BY <1>1, <1>3, <1>4, <1>6, <1>7
  <1> HIDE DEF gone
  <1> QED
    BY <1>6, <1>8, MovingOut

(* A player who comes back sits where its token says, and whoever sat      *)
(* there is out.                                                           *)
LEMMA RejoinSeats ==
  ASSUME TypeOK, SeatInv, NEW c \in Conns, Rejoin(c)
  PROVE  SeatInv'
  <1>1. PICK s \in Slots :
          /\ Opens(c, s)
          /\ seat' = [seat EXCEPT ![s].client = c, ![s].token = <<s, seat[s].token[2] + 1>>,
                                  ![s].waiting = FALSE]
          /\ conn' = [IF seat[s].client \in Conns THEN Unseated(conn, seat[s].client)
                      ELSE conn EXCEPT ![c] =
               [Outside("game") EXCEPT
                  !.slot = s, !.loaded = TRUE,
                  !.replaying = NextBundleTick(Owner[c]) < Tick,
                  !.replayPos = NextBundleTick(Owner[c]),
                  !.ackTick = IF NextBundleTick(Owner[c]) = 0 THEN 0
                              ELSE NextBundleTick(Owner[c]) - 1]]
    BY DEF Rejoin
  <1> DEFINE old == seat[s].client
  <1>2. /\ room' = room /\ room.running
        /\ conn[c].state = "lobby"
    BY DEF Rejoin, Asks
  <1>3. /\ seat'[s].client = c /\ seat'[s].type = "human"
        /\ \A t \in Slots : t # s => seat'[t] = seat[t]
    BY <1>1 DEF TypeOK, Seats, Opens, Human
  <1>4. conn'[c].state = "game" /\ conn'[c].slot = s
    BY <1>1 DEF TypeOK, Unseated, Outside
  <1>5. \A d \in Conns : d # c =>
          IF d = old THEN conn'[d].state = "bye" ELSE conn'[d] = conn[d]
    BY <1>1 DEF TypeOK, Unseated, Outside
  <1>6. s # NoSlot
    BY DEF Slots, NoSlot
  <1>7. old \in Conns => InGame(old) /\ conn[old].slot = s
    BY <1>2, ConstantsAssumption DEF SeatInv, SeatOwnership, Connected
  <1> HIDE DEF old
  <1>8. ASSUME NEW t \in Slots, Connected(t)'
        PROVE  (Human(t) /\ InGame(seat[t].client) /\ conn[seat[t].client].slot = t)'
    <2>1. CASE t = s
      BY <2>1, <1>3, <1>4 DEF Human, InGame
    <2>2. CASE t # s
      <3>1. seat'[t] = seat[t] /\ Connected(t)
        BY <1>8, <2>2, <1>3 DEF Connected
      <3>2. Human(t) /\ InGame(seat[t].client) /\ conn[seat[t].client].slot = t
        BY <3>1, <1>2 DEF SeatInv, SeatOwnership
      <3>3. seat[t].client \in Conns
        BY <3>1 DEF Connected, TypeOK, Seats
      <3>4. seat[t].client # c /\ seat[t].client # old
        BY <3>2, <3>3, <1>2, <1>7, <2>2 DEF InGame
      <3> QED
        BY <3>1, <3>2, <3>3, <3>4, <1>5 DEF Human, InGame
    <2> QED
      BY <2>1, <2>2
  <1>9. ASSUME NEW d \in room'.spectators
        PROVE  (InGame(d) /\ conn[d].slot = NoSlot)'
    <2>1. d \in Conns /\ InGame(d) /\ conn[d].slot = NoSlot
      BY <1>2 DEF SeatInv, SeatOwnership, TypeOK, Rooms
    <2>2. d # c /\ d # old
      BY <2>1, <1>2, <1>6, <1>7 DEF InGame
    <2> QED
      BY <2>1, <2>2, <1>5 DEF InGame, NoSlot
  <1>10. ASSUME NEW d \in Conns, InGame(d)'
         PROVE  (IF conn[d].slot = NoSlot THEN d \in room.spectators
                 ELSE seat[conn[d].slot].client = d)'
    <2>1. CASE d = c
      BY <2>1, <1>3, <1>4, <1>6 DEF NoSlot
    <2>2. CASE d # c
      <3>1. d # old /\ conn'[d] = conn[d] /\ InGame(d)
        BY <2>2, <1>5, <1>10 DEF InGame
      <3>2. IF conn[d].slot = NoSlot THEN d \in room.spectators
            ELSE seat[conn[d].slot].client = d
        BY <3>1, <1>2 DEF SeatInv, SeatOwnership
      <3>3. conn[d].slot \in Slots \cup {NoSlot} /\ conn[d].slot # s
        <4>1. conn[d].slot # s
          BY <3>1, <3>2, <1>6 DEF old
        <4> QED
          BY <4>1 DEF TypeOK, Connections
      <3> QED
        BY <3>1, <3>2, <3>3, <1>2, <1>3 DEF NoSlot
    <2> QED
      BY <2>1, <2>2
  <1>11. GameRunning'
    BY <1>2 DEF GameRunning
  <1> QED
    BY <1>8, <1>9, <1>10, <1>11 DEF SeatInv, SeatOwnership

(* Every step of the game keeps seats and connections in agreement.        *)
THEOREM NextSeats == TypeOK /\ SeatInv /\ [Next]_vars => SeatInv'
  <1> SUFFICES ASSUME TypeOK, SeatInv, [Next]_vars PROVE SeatInv'
    OBVIOUS
  <1>1. ASSUME NEW c \in Conns, GoSilent(c) \/ Speak(c) \/ Loaded(c) \/ SetPause(c)
        PROVE  SeatInv'
    <2>1. seat' = seat /\ UNCHANGED <<room.running, room.spectators>>
      BY <1>1 DEF GoSilent, Speak, Loaded, SetPause, roomVars, TypeOK, Rooms
    <2>2. \A d \in Conns : UNCHANGED <<conn[d].state, conn[d].slot>>
      <3>1. CASE GoSilent(c)
        BY <3>1 DEF GoSilent, TypeOK, Connections
      <3>2. CASE Speak(c)
        BY <3>2 DEF Speak, TypeOK, Connections
      <3>3. CASE Loaded(c)
        BY <3>3 DEF Loaded, TypeOK, Connections
      <3>4. CASE SetPause(c)
        BY <3>4 DEF SetPause
      <3> QED
        BY <1>1, <3>1, <3>2, <3>3, <3>4
    <2> QED
      BY <2>1, <2>2, SameSeats
  <1>2. ASSUME NEW c \in Conns, NEW tk \in 0 .. MaxTicks,
               StateHash(c, tk) \/ \E lead \in Leads : Progress(c, tk, lead)
        PROVE  SeatInv'
    <2>1. seat' = seat /\ room' = room
      BY <1>2 DEF StateHash, Progress, roomVars
    <2>2. \A d \in Conns : UNCHANGED <<conn[d].state, conn[d].slot>>
      <3>1. PICK ack, lead :
              conn' = [conn EXCEPT ![c].ackTick = ack, ![c].leadTicks = lead]
        <4>1. CASE StateHash(c, tk)
          <5>1. conn' = [conn EXCEPT ![c].ackTick = conn'[c].ackTick,
                                     ![c].leadTicks = conn[c].leadTicks]
            BY <4>1 DEF StateHash, TypeOK, Connections
          <5> QED
            BY <5>1
        <4>2. CASE \E lead \in Leads : Progress(c, tk, lead)
          BY <4>2 DEF Progress
        <4> QED
          BY <1>2, <4>1, <4>2
      <3> QED
        BY <3>1 DEF TypeOK, Connections
    <2> QED
      BY <2>1, <2>2, SameSeats
  <1>3. ASSUME NEW c \in Conns, LeaveGame(c) PROVE SeatInv'
    BY <1>3, LeavingSeats DEF LeaveGame
  <1>4. ASSUME NEW c \in Conns, DropClient(c) PROVE SeatInv'
    <2>1. CASE HoldsSeat(c)
      <3> DEFINE s == conn[c].slot
      <3>1. s \in Slots /\ seat[s].client = c /\ room.running /\ s # NoSlot
        BY <2>1 DEF HoldsSeat, SeatInv, SeatOwnership, GameRunning, TypeOK, Connections
      <3>2. room' = room /\ seat' = [seat EXCEPT ![s].client = NoConn, ![s].waiting = TRUE]
        BY <1>4, <2>1 DEF DropClient, HoldsSeat
      <3>3. c \notin room.spectators
        BY <3>1 DEF SeatInv, SeatOwnership
      <3>4. \A t \in Slots : seat[t].client = c => t = s
        BY <3>1, ConstantsAssumption DEF SeatInv, SeatOwnership, Connected
      <3>5. \A d \in Conns :
              IF d \in {c} \/ conn[d].state # "game" THEN conn'[d].state # "game"
              ELSE UNCHANGED <<conn[d].state, conn[d].slot>>
        BY <1>4 DEF DropClient, TypeOK, Outside
      <3> HIDE DEF s
      <3>6. \A t \in Slots :
              /\ seat'[t].client = IF seat[t].client \in {c} THEN NoConn ELSE seat[t].client
              /\ seat'[t].client # NoConn => seat'[t].type = seat[t].type
        BY <3>1, <3>2, <3>4 DEF TypeOK, Seats
      <3>7. room'.running = room.running /\ room'.spectators = room.spectators \ {c}
        BY <3>2, <3>3
      <3> QED
        BY <3>5, <3>6, <3>7, MovingOut
    <2>2. CASE InGame(c) /\ ~HoldsSeat(c)
      BY <1>4, <2>2, LeavingSeats DEF DropClient
    <2>3. CASE ~InGame(c)
      <3>1. seat' = seat /\ room' = room
        BY <1>4, <2>3 DEF DropClient, HoldsSeat
      <3>2. \A d \in Conns :
              IF conn[d].state # "game" THEN conn'[d].state # "game"
              ELSE UNCHANGED <<conn[d].state, conn[d].slot>>
        BY <1>4, <2>3 DEF DropClient, InGame, TypeOK, Outside
      <3> QED
        BY <3>1, <3>2, SameSeats
    <2> QED
      BY <2>1, <2>2, <2>3
  <1>5. ASSUME NEW c \in Conns, Connect(c) PROVE SeatInv'
    <2>1. seat' = seat /\ room' = room
      BY <1>5 DEF Connect, roomVars
    <2>2. \A d \in Conns :
            IF conn[d].state # "game" THEN conn'[d].state # "game"
            ELSE UNCHANGED <<conn[d].state, conn[d].slot>>
      BY <1>5 DEF Connect, TypeOK, Outside
    <2> QED
      BY <2>1, <2>2, SameSeats
  <1>6. ASSUME NEW c \in Conns, Rejoin(c) PROVE SeatInv'
    BY <1>6, RejoinSeats
  <1>7. ASSUME NEW c \in Conns, Spectate(c) PROVE SeatInv'
    <2>1. /\ seat' = seat /\ room.running
          /\ conn[c].state = "lobby"
      BY <1>7 DEF Spectate
    <2>2. room'.spectators = room.spectators \cup {c}
      BY <1>7 DEF Spectate, TypeOK, Rooms
    <2>3. conn'[c].state = "game" /\ conn'[c].slot = NoSlot
      BY <1>7 DEF Spectate, TypeOK, Outside
    <2>4. \A d \in Conns : d # c => conn'[d] = conn[d]
      BY <1>7 DEF Spectate, TypeOK
    <2>5. room'.running
      BY <1>7 DEF Spectate, TypeOK, Rooms
    <2>6. ASSUME NEW s \in Slots, Connected(s)'
          PROVE  (Human(s) /\ InGame(seat[s].client) /\ conn[seat[s].client].slot = s)'
      <3>1. Connected(s)
        BY <2>1, <2>6 DEF Connected
      <3>2. Human(s) /\ InGame(seat[s].client) /\ conn[seat[s].client].slot = s
        BY <2>1, <3>1 DEF SeatInv, SeatOwnership
      <3>3. seat[s].client \in Conns /\ seat[s].client # c
        BY <2>1, <3>1, <3>2 DEF Connected, TypeOK, Seats, InGame
      <3> QED
        BY <2>1, <2>4, <3>2, <3>3 DEF Human, InGame
    <2>7. ASSUME NEW d \in room'.spectators
          PROVE  (InGame(d) /\ conn[d].slot = NoSlot)'
      <3>1. CASE d = c
        BY <2>3, <3>1 DEF InGame, NoSlot
      <3>2. CASE d # c
        BY <2>1, <2>2, <2>4, <3>2 DEF SeatInv, SeatOwnership, InGame, NoSlot, TypeOK, Rooms
      <3> QED
        BY <3>1, <3>2
    <2>8. ASSUME NEW d \in Conns, InGame(d)'
          PROVE  (IF conn[d].slot = NoSlot THEN d \in room.spectators
                  ELSE seat[conn[d].slot].client = d)'
      <3>1. CASE d = c
        BY <2>2, <2>3, <3>1 DEF NoSlot
      <3>2. CASE d # c
        <4>1. conn'[d] = conn[d] /\ InGame(d)
          BY <2>4, <2>8, <3>2 DEF InGame
        <4> QED
          BY <2>1, <2>2, <4>1 DEF SeatInv, SeatOwnership, NoSlot
      <3> QED
        BY <3>1, <3>2
    <2> QED
      BY <2>5, <2>6, <2>7, <2>8 DEF SeatInv, SeatOwnership, GameRunning
  <1>8. ASSUME NEW c \in Conns, NEW n \in 0 .. MaxTicks, Feed(c, n) PROVE SeatInv'
    <2>1. seat' = seat /\ room' = room
      BY <1>8 DEF Feed, roomVars
    <2>2. \A d \in Conns : UNCHANGED <<conn[d].state, conn[d].slot>>
      BY <1>8 DEF Feed, TypeOK, Connections
    <2> QED
      BY <2>1, <2>2, SameSeats
  <1>9. ASSUME NEW c \in Conns, RejoinRefused(c) \/ ReadOpener(c) \/ ReadBundle(c) \/ LinkBreaks(c)
        PROVE  SeatInv'
    <2>1. seat' = seat /\ room' = room /\ conn' = conn
      BY <1>9 DEF RejoinRefused, ReadOpener, ReadBundle, LinkBreaks, roomVars
    <2> QED
      BY <2>1, SameSeats
  <1>10. ASSUME NEW s \in Slots, BeginWait(s) \/ EndWait(s) \/ TakeOver(s) PROVE SeatInv'
    <2>1. CASE AiTakesSeat(s)
      BY <1>10, <2>1, TakeOverSeats DEF TakeOver, Due, BeginWait, EndWait, Returned, Watched
    <2>2. CASE ~AiTakesSeat(s)
      <3>1. PICK w : room' = room /\ conn' = conn /\ seat' = [seat EXCEPT ![s].waiting = w]
        BY <1>10, <2>2 DEF BeginWait, EndWait, TakeOver
      <3>2. \A t \in Slots : UNCHANGED <<seat[t].type, seat[t].client>>
        BY <3>1 DEF TypeOK, Seats
      <3> QED
        BY <3>1, <3>2, SameSeats
    <2> QED
      BY <2>1, <2>2
  <1>11. ASSUME NEW s \in Slots, HoldTakeOver(s) PROVE SeatInv'
    BY <1>11, TakeOverSeats DEF HoldTakeOver, TickDue
  <1>12. ASSUME NEW p \in Persons, GiveUp(p) PROVE SeatInv'
    BY <1>12, SameSeats DEF GiveUp, roomVars
  <1>13. ASSUME CloseTick \/ WorkerRuns PROVE SeatInv'
    BY <1>13, SameSeats DEF CloseTick, WorkerRuns
  <1>14. ASSUME JobFails PROVE SeatInv'
    <2>1. UNCHANGED <<room.running, room.spectators>> /\ seat' = seat /\ conn' = conn
      BY <1>14 DEF JobFails, TypeOK, Rooms
    <2> QED
      BY <2>1, SameSeats
  <1>15. ASSUME Teardown PROVE SeatInv'
    <2>1. ~room'.running
      BY <1>15 DEF Teardown, TypeOK, Rooms
    <2>2. \A c \in Conns : ~InGame(c)'
      BY <1>15 DEF Teardown, InGame, Outside
    <2> QED
      BY <2>1, <2>2 DEF SeatInv, SeatOwnership, GameRunning
  <1>16. ASSUME NEW beaten \in SUBSET {s \in Players : ~seat[s].defeated}, FinishTick(beaten)
         PROVE  SeatInv'
    <2>1. room' = room /\ conn' = conn
      BY <1>16 DEF FinishTick
    <2>2. \A t \in Slots : UNCHANGED <<seat[t].type, seat[t].client>>
      BY <1>16 DEF FinishTick, TypeOK, Seats
    <2> QED
      BY <2>1, <2>2, SameSeats
  <1>17. ASSUME UNCHANGED vars PROVE SeatInv'
    BY <1>17, SameSeats DEF vars
  <1> QED
    BY <1>1, <1>2, <1>3, <1>4, <1>5, <1>6, <1>7, <1>8, <1>9, <1>10, <1>11, <1>12, <1>13, <1>14,
       <1>15, <1>16, <1>17 DEF Next

-----------------------------------------------------------------------------
(* The theorems.                                                           *)

(* Types and places together are inductive: neither is without the other.  *)
LEMMA TypeAndSeats == Spec => [](TypeOK /\ SeatInv)
  <1>1. Init => TypeOK /\ SeatInv
    BY InitType, InitSeats
  <1>2. (TypeOK /\ SeatInv) /\ [Next]_vars => (TypeOK /\ SeatInv)'
    BY NextType, NextSeats DEF SeatInv
  <1> QED
    BY <1>1, <1>2, PTL DEF Spec

(* The variables of a game keep their types, whatever its players, links   *)
(* and worker do.                                                          *)
THEOREM TypeCorrect == Spec => []TypeOK
  BY TypeAndSeats, PTL

(* No connection is ever left on a seat it lost, and no seat points at a   *)
(* connection that is gone, through any sequence of leaves, drops,         *)
(* reconnects and takeovers.                                               *)
THEOREM SeatsAgree == Spec => []SeatOwnership
  <1>1. TypeOK /\ SeatInv => SeatOwnership
    BY DEF SeatInv
  <1> QED
    BY <1>1, TypeAndSeats, PTL

-----------------------------------------------------------------------------
(* What a step does to the fates of the seats.                             *)

RoomStays == room'.error = room.error /\ (room'.running = room.running \/ Teardown)

FateStays ==
  /\ UNCHANGED <<log, job, pending, ai>> /\ RoomStays
  /\ \A t \in Slots : seat'[t].type = seat[t].type

Leaves(s) ==
  /\ Human(s) /\ seat'[s].type = "closed" /\ \A t \in Slots \ {s} : seat'[t].type = seat[t].type
  /\ pending' = Append(pending, Event("Leave", s))
  /\ UNCHANGED <<log, job, ai>> /\ RoomStays

\* An AI takes over between ticks only.
TakenOver(s) ==
  /\ Human(s) /\ seat'[s].type = "ai" /\ \A t \in Slots \ {s} : seat'[t].type = seat[t].type
  /\ pending' = Append(pending, Event("AiTakeover", s))
  /\ ai' = [ai EXCEPT ![s] = @ + 1]
  /\ job.state = "none"
  /\ UNCHANGED <<log, job>> /\ RoomStays

TickStep ==
  \/ CloseTick \/ WorkerRuns \/ JobFails
  \/ \E beaten \in SUBSET {s \in Players : ~seat[s].defeated} : FinishTick(beaten)

LEMMA LeaveRoomFate ==
  ASSUME TypeOK, SeatInv, NEW c \in Conns, InGame(c), LeaveRoom(c), UNCHANGED <<log, job, ai>>
  PROVE  FateStays \/ \E s \in Slots : Leaves(s)
  <1>1. CASE c \in room.spectators
    BY <1>1 DEF LeaveRoom, FateStays, RoomStays, TypeOK, Rooms, SeatInv, SeatOwnership, GameRunning
  <1>2. CASE c \notin room.spectators
    <2> DEFINE s == conn[c].slot
    <2>1. s \in Slots /\ Human(s)
      <3>1. s \in Slots /\ seat[s].client = c /\ room.running
        BY <1>2 DEF SeatInv, SeatOwnership, GameRunning, TypeOK, Connections
      <3> HIDE DEF s
      <3> QED
        BY <3>1, ConstantsAssumption DEF SeatInv, SeatOwnership, Connected
    <2>2. seat' = [seat EXCEPT ![s] = Forfeited(@)] /\ room' = room
          /\ pending' = Append(pending, Event("Leave", s))
      BY <1>2 DEF LeaveRoom
    <2>3. Forfeited(seat[s]).type = "closed"
      BY <2>1 DEF Forfeited, TypeOK, Seats
    <2> HIDE DEF s
    <2>4. Leaves(s)
      BY <2>1, <2>2, <2>3 DEF Leaves, RoomStays, TypeOK
    <2> QED
      BY <2>1, <2>4
  <1> QED
    BY <1>1, <1>2

LEMMA AiTakesSeatFate ==
  ASSUME TypeOK, NEW s \in Slots, Human(s), job.state = "none", AiTakesSeat(s)
  PROVE  TakenOver(s)
  <1> DEFINE st == [seat[s] EXCEPT !.type = "ai", !.client = NoConn,
                      !.taken = seat[s].token, !.token = NoToken, !.waiting = FALSE]
  <1>1. seat' = [seat EXCEPT ![s] = st]
    BY DEF AiTakesSeat
  <1>2. st.type = "ai"
    BY DEF TypeOK, Seats
  <1>3. room'.error = room.error /\ room'.running = room.running
    BY DEF AiTakesSeat, TypeOK, Rooms
  <1>4. UNCHANGED <<log, job>> /\ pending' = Append(pending, Event("AiTakeover", s))
        /\ ai' = [ai EXCEPT ![s] = @ + 1]
    BY DEF AiTakesSeat
  <1> HIDE DEF st
  <1> QED
    BY <1>1, <1>2, <1>3, <1>4 DEF TakenOver, RoomStays, TypeOK

LEMMA FateSteps ==
  ASSUME TypeOK, SeatInv, [Next]_vars
  PROVE  FateStays \/ TickStep \/ \E s \in Slots : Leaves(s) \/ TakenOver(s)
  <1>1. ASSUME NEW c \in Conns, LeaveGame(c) PROVE FateStays \/ \E s \in Slots : Leaves(s)
    BY <1>1, LeaveRoomFate DEF LeaveGame
  <1>2. ASSUME NEW c \in Conns, DropClient(c) PROVE FateStays \/ \E s \in Slots : Leaves(s)
    <2>1. CASE InGame(c) /\ ~HoldsSeat(c)
      BY <1>2, <2>1, LeaveRoomFate DEF DropClient
    <2>2. CASE HoldsSeat(c)
      <3>1. seat' = [seat EXCEPT ![conn[c].slot].client = NoConn, ![conn[c].slot].waiting = TRUE]
            /\ UNCHANGED <<room, pending, log, job, ai>>
        BY <1>2, <2>2 DEF DropClient, HoldsSeat
      <3> QED
        BY <3>1 DEF FateStays, RoomStays, TypeOK, Seats
    <2>3. CASE ~InGame(c)
      BY <1>2, <2>3 DEF DropClient, HoldsSeat, FateStays, RoomStays
    <2> QED
      BY <2>1, <2>2, <2>3
  <1>3. ASSUME NEW c \in Conns, Rejoin(c) PROVE FateStays
    <2>1. PICK s, token : seat' = [seat EXCEPT ![s].client = c, ![s].token = token,
                                              ![s].waiting = FALSE]
      BY <1>3 DEF Rejoin
    <2>2. \A t \in Slots : seat'[t].type = seat[t].type
      BY <2>1 DEF TypeOK, Seats
    <2> QED
      BY <1>3, <2>2 DEF Rejoin, FateStays, RoomStays
  <1>4. ASSUME NEW c \in Conns, Spectate(c) PROVE FateStays
    BY <1>4 DEF Spectate, FateStays, RoomStays, TypeOK, Rooms
  <1>5. ASSUME NEW c \in Conns, SetPause(c) PROVE FateStays
    BY <1>5 DEF SetPause, FateStays, RoomStays, TypeOK, Rooms
  <1>6. ASSUME NEW c \in Conns,
               \/ GoSilent(c) \/ Speak(c) \/ Loaded(c) \/ Connect(c) \/ RejoinRefused(c)
               \/ ReadOpener(c) \/ ReadBundle(c) \/ LinkBreaks(c)
               \/ \E n \in 0 .. MaxTicks : Feed(c, n)
               \/ \E tk \in 0 .. MaxTicks : StateHash(c, tk) \/ \E lead \in Leads : Progress(c, tk, lead)
        PROVE  FateStays
    BY <1>6 DEF GoSilent, Speak, Loaded, Connect, RejoinRefused, ReadOpener, ReadBundle,
                LinkBreaks, Feed, StateHash, Progress, roomVars, FateStays, RoomStays
  <1>7. ASSUME NEW s \in Slots, BeginWait(s) \/ EndWait(s) \/ (TakeOver(s) /\ ~StillIn(s))
        PROVE  FateStays
    <2>1. PICK w : seat' = [seat EXCEPT ![s].waiting = w] /\ UNCHANGED <<room, log, job, pending, ai>>
      BY <1>7 DEF BeginWait, EndWait, TakeOver
    <2> QED
      BY <2>1 DEF FateStays, RoomStays, TypeOK, Seats
  <1>8. ASSUME NEW s \in Slots, HoldTakeOver(s) \/ (TakeOver(s) /\ StillIn(s)) PROVE TakenOver(s)
    <2>1. Human(s) /\ job.state = "none" /\ AiTakesSeat(s)
      BY <1>8 DEF HoldTakeOver, TakeOver, Due, TickDue, Holding, Watched, StillIn
    <2> QED
      BY <2>1, AiTakesSeatFate
  <1>9. ASSUME NEW p \in Persons, GiveUp(p) PROVE FateStays
    BY <1>9 DEF GiveUp, roomVars, FateStays, RoomStays
  <1>10. CASE Teardown
    BY <1>10 DEF Teardown, FateStays, RoomStays, TypeOK, Rooms
  <1>11. CASE UNCHANGED vars
    BY <1>11 DEF vars, FateStays, RoomStays
  <1> QED
    BY <1>1, <1>2, <1>3, <1>4, <1>5, <1>6, <1>7, <1>8, <1>9, <1>10, <1>11 DEF Next, TickStep

-----------------------------------------------------------------------------
(* The seats that are held.                                                *)

(* A tick is in flight only in a running room that has not failed: a room  *)
(* fails, and is torn down, between ticks.                                 *)
LEMMA NextJob ==
  ASSUME TypeOK, SeatInv, JobInRoom, [Next]_vars
  PROVE  JobInRoom'
  <1>1. CASE FateStays \/ \E s \in Slots : Leaves(s) \/ TakenOver(s)
    <2>1. job' = job /\ RoomStays
      BY <1>1 DEF FateStays, Leaves, TakenOver
    <2> QED
      BY <2>1 DEF RoomStays, JobInRoom, Teardown
  <1>2. CASE CloseTick
    BY <1>2 DEF CloseTick, TickDue, JobInRoom
  <1>3. CASE WorkerRuns
    BY <1>3 DEF WorkerRuns, JobInRoom, TypeOK, Jobs
  <1>4. CASE JobFails \/ \E beaten \in SUBSET {s \in Players : ~seat[s].defeated} : FinishTick(beaten)
    BY <1>4 DEF JobFails, FinishTick, JobInRoom, NoJob
  <1> QED
    BY <1>1, <1>2, <1>3, <1>4, FateSteps DEF TickStep

LEMMA RoomInv == Spec => [](TypeOK /\ SeatInv /\ JobInRoom)
  <1>1. Init => JobInRoom
    BY DEF Init, JobInRoom, NoJob
  <1>2. TypeOK /\ SeatInv /\ JobInRoom /\ [Next]_vars => JobInRoom'
    BY NextJob
  <1> QED
    BY <1>1, <1>2, TypeAndSeats, PTL DEF Spec

(* A step that leaves the seats' types, connections and defeats alone, and *)
(* begins waits of players only, and ends those of the connected.          *)
LEMMA SameHeld ==
  ASSUME HeldSeatAccounted, room'.running => room.running,
         \A t \in Slots :
           \/ /\ seat'[t].type = "human"
              /\ seat'[t].client # NoConn \/ seat'[t].waiting \/ seat'[t].defeated
           \/ seat'[t].type # "human" /\ ~seat'[t].waiting
           \/ /\ seat'[t].type = seat[t].type /\ seat'[t].client = seat[t].client
              /\ seat'[t].waiting = seat[t].waiting
              /\ seat[t].defeated => seat'[t].defeated
  PROVE  HeldSeatAccounted'
  BY DEF HeldSeatAccounted, Human, Connected

LEMMA NextHeld ==
  ASSUME TypeOK, SeatInv, HeldSeatAccounted, [Next]_vars
  PROVE  HeldSeatAccounted'
  <1>1. ASSUME NEW c \in Conns, InGame(c), LeaveRoom(c)
        PROVE  HeldSeatAccounted'
    <2>1. CASE c \in room.spectators
      BY <1>1, <2>1, SameHeld DEF LeaveRoom, TypeOK, Rooms, SeatInv, SeatOwnership, GameRunning
    <2>2. CASE c \notin room.spectators
      <3> DEFINE s == conn[c].slot
      <3>1. s \in Slots
        BY <1>1, <2>2 DEF SeatInv, SeatOwnership, GameRunning, TypeOK, Connections
      <3>2. seat' = [seat EXCEPT ![s] = Forfeited(@)] /\ room' = room
        BY <1>1, <2>2 DEF LeaveRoom
      <3>3. Forfeited(seat[s]).type # "human" /\ ~Forfeited(seat[s]).waiting
        BY <3>1 DEF Forfeited, TypeOK, Seats
      <3> HIDE DEF s
      <3>4. seat'[s].type # "human" /\ ~seat'[s].waiting
            /\ \A t \in Slots \ {s} : seat'[t] = seat[t]
        BY <3>1, <3>2, <3>3 DEF TypeOK
      <3> QED
        BY <3>2, <3>4, SameHeld
    <2> QED
      BY <2>1, <2>2
  <1>2. ASSUME NEW c \in Conns, DropClient(c) PROVE HeldSeatAccounted'
    <2>1. CASE InGame(c) /\ ~HoldsSeat(c)
      BY <1>1, <1>2, <2>1 DEF DropClient
    <2>2. CASE HoldsSeat(c)
      <3> DEFINE s == conn[c].slot
      <3>1. s \in Slots /\ Human(s)
        BY <2>2 DEF HoldsSeat, StillIn, TypeOK, Connections
      <3>2. seat' = [seat EXCEPT ![s].client = NoConn, ![s].waiting = TRUE] /\ room' = room
        BY <1>2, <2>2 DEF DropClient, HoldsSeat
      <3> HIDE DEF s
      <3>3. seat'[s].type = "human" /\ seat'[s].waiting
            /\ \A t \in Slots \ {s} : seat'[t] = seat[t]
        BY <3>1, <3>2 DEF TypeOK, Seats, Human
      <3> QED
        BY <3>2, <3>3, SameHeld
    <2>3. CASE ~InGame(c)
      BY <1>2, <2>3, SameHeld DEF DropClient, HoldsSeat
    <2> QED
      BY <2>1, <2>2, <2>3
  <1>3. ASSUME NEW c \in Conns, Rejoin(c) PROVE HeldSeatAccounted'
    <2>1. PICK s, token :
            s \in Slots /\ Opens(c, s)
            /\ seat' = [seat EXCEPT ![s].client = c, ![s].token = token, ![s].waiting = FALSE]
      BY <1>3 DEF Rejoin
    <2>2. seat'[s].type = "human" /\ seat'[s].client # NoConn
          /\ \A t \in Slots \ {s} : seat'[t] = seat[t]
      BY <2>1, ConstantsAssumption DEF Opens, Human, TypeOK, Seats
    <2> QED
      BY <1>3, <2>2, SameHeld DEF Rejoin
  <1>4. ASSUME NEW s \in Slots, BeginWait(s) \/ EndWait(s) \/ (TakeOver(s) /\ ~StillIn(s))
        PROVE  HeldSeatAccounted'
    <2>1. room' = room /\ \A t \in Slots \ {s} : seat'[t] = seat[t]
      BY <1>4 DEF BeginWait, EndWait, TakeOver, TypeOK
    <2>2. CASE BeginWait(s)
      <3>1. seat'[s].type = "human" /\ seat'[s].waiting
        BY <2>2 DEF BeginWait, Watched, StillIn, Human, TypeOK, Seats
      <3> QED
        BY <2>1, <3>1, SameHeld
    <2>3. CASE EndWait(s)
      <3>1. seat'[s].type = "human" /\ seat'[s].client # NoConn
        BY <2>3 DEF EndWait, Returned, Watched, StillIn, Human, Connected, TypeOK, Seats
      <3> QED
        BY <2>1, <3>1, SameHeld
    <2>4. CASE TakeOver(s) /\ ~StillIn(s)
      <3>1. seat' = [seat EXCEPT ![s].waiting = FALSE]
        BY <2>4 DEF TakeOver
      <3>2. seat'[s].type = seat[s].type /\ ~seat'[s].waiting /\ seat'[s].defeated = seat[s].defeated
        BY <3>1 DEF TypeOK, Seats
      <3>3. seat[s].type # "human" \/ seat[s].defeated
        BY <2>4 DEF StillIn, Human
      <3> QED
        BY <2>1, <3>2, <3>3, SameHeld
    <2> QED
      BY <1>4, <2>2, <2>3, <2>4
  <1>5. ASSUME NEW s \in Slots, AiTakesSeat(s) PROVE HeldSeatAccounted'
    <2> DEFINE st == [seat[s] EXCEPT !.type = "ai", !.client = NoConn,
                        !.taken = seat[s].token, !.token = NoToken, !.waiting = FALSE]
    <2>1. seat' = [seat EXCEPT ![s] = st] /\ room'.running = room.running
      BY <1>5 DEF AiTakesSeat, TypeOK, Rooms
    <2>2. st.type # "human" /\ ~st.waiting
      BY DEF TypeOK, Seats
    <2> HIDE DEF st
    <2>3. seat'[s].type # "human" /\ ~seat'[s].waiting
          /\ \A t \in Slots \ {s} : seat'[t] = seat[t]
      BY <2>1, <2>2 DEF TypeOK
    <2> QED
      BY <2>1, <2>3, SameHeld
  <1>6. ASSUME NEW beaten \in SUBSET {s \in Players : ~seat[s].defeated}, FinishTick(beaten)
        PROVE  HeldSeatAccounted'
    <2>1. \A t \in Slots : /\ seat'[t].type = seat[t].type /\ seat'[t].client = seat[t].client
                          /\ seat'[t].waiting = seat[t].waiting
                          /\ seat[t].defeated => seat'[t].defeated
      BY <1>6 DEF FinishTick, TypeOK, Seats
    <2> QED
      BY <1>6, <2>1, SameHeld DEF FinishTick
  <1>7. ASSUME NEW c \in Conns, Spectate(c) \/ SetPause(c) PROVE HeldSeatAccounted'
    BY <1>7, SameHeld DEF Spectate, SetPause, TypeOK, Rooms
  <1>8. CASE JobFails \/ Teardown
    BY <1>8, SameHeld DEF JobFails, Teardown, TypeOK, Rooms
  <1>9. CASE UNCHANGED <<room, seat>>
    BY <1>9, SameHeld
  <1>10. ASSUME NEW c \in Conns,
               \/ GoSilent(c) \/ Speak(c) \/ Loaded(c) \/ Connect(c) \/ RejoinRefused(c)
               \/ ReadOpener(c) \/ ReadBundle(c) \/ LinkBreaks(c)
               \/ \E n \in 0 .. MaxTicks : Feed(c, n)
               \/ \E tk \in 0 .. MaxTicks : StateHash(c, tk) \/ \E lead \in Leads : Progress(c, tk, lead)
        PROVE  UNCHANGED <<room, seat>>
    BY <1>10 DEF GoSilent, Speak, Loaded, Connect, RejoinRefused, ReadOpener, ReadBundle,
                 LinkBreaks, Feed, StateHash, Progress, roomVars
  <1>11. CASE CloseTick \/ WorkerRuns \/ UNCHANGED vars \/ \E p \in Persons : GiveUp(p)
    BY <1>9, <1>11 DEF CloseTick, WorkerRuns, vars, roomVars, GiveUp
  <1>12. ASSUME NEW c \in Conns, LeaveGame(c) PROVE HeldSeatAccounted'
    BY <1>1, <1>12 DEF LeaveGame
  <1>13. ASSUME NEW s \in Slots, HoldTakeOver(s) \/ (TakeOver(s) /\ StillIn(s))
         PROVE  HeldSeatAccounted'
    BY <1>5, <1>13 DEF HoldTakeOver, TakeOver
  <1> QED
    BY <1>2, <1>3, <1>4, <1>6, <1>7, <1>8, <1>9, <1>10, <1>11, <1>12, <1>13 DEF Next

(* Server::dropClient, beginWait, endWait, takeOver and Msg::Rejoin between *)
(* them never forget a seat: a player who is gone is waited for, and the   *)
(* room waits for nobody else.                                             *)
THEOREM SeatsAreHeld == Spec => []HeldSeatAccounted
  <1>1. Init => HeldSeatAccounted
    BY ConstantsAssumption DEF Init, HeldSeatAccounted, Human, Connected, Players
  <1>2. TypeOK /\ SeatInv /\ HeldSeatAccounted /\ [Next]_vars => HeldSeatAccounted'
    BY NextHeld
  <1> QED
    BY <1>1, <1>2, TypeAndSeats, PTL DEF Spec

-----------------------------------------------------------------------------
(* The AI plays a seat from the tick that says so on.                      *)

Published(e) == \E j \in DOMAIN log : \E i \in DOMAIN log[j].events : log[j].events[i] = e
InTick(e) == \E i \in DOMAIN job.events : job.events[i] = e
InNext(e) == \E i \in DOMAIN pending : pending[i] = e

\* A controller of a seat that was a player's has its event behind it: in the
\* log, in the tick that is in flight, or, between ticks, in the next.  What a
\* failed tick takes with it is the end of the game.
ControllersAnnounced ==
  \A s \in Slots \ AiStart :
    LET e == Event("AiTakeover", s)
    IN  /\ ai[s] > 0 /\ ~room.error =>
             Published(e) \/ InTick(e) \/ (job.state = "none" /\ InNext(e))
        /\ s \in job.ais => Published(e) \/ InTick(e)

AiInv == ControllersAnnounced /\ AiAfterTakeover

LEMMA NextAi ==
  ASSUME TypeOK, SeatInv, JobInRoom, AiInv, [Next]_vars
  PROVE  AiInv'
  <1>1. CASE FateStays \/ \E s \in Slots : Leaves(s) \/ TakenOver(s)
    <2>1. UNCHANGED <<log, job>> /\ room'.error = room.error
      BY <1>1 DEF FateStays, Leaves, TakenOver, RoomStays
    <2>2. AiAfterTakeover'
      BY <2>1 DEF AiInv, AiAfterTakeover
    <2>3. ASSUME NEW e, InNext(e) PROVE InNext(e)'
      <3>1. pending' = pending \/ \E f \in Events : pending' = Append(pending, f)
        BY <1>1 DEF FateStays, Leaves, TakenOver, Event, Events
      <3>2. pending \in Seq(Events)
        BY DEF TypeOK
      <3> QED
        BY <2>3, <3>1, <3>2, AppendProperties DEF InNext
    <2>4. ASSUME NEW s \in Slots \ AiStart, ai'[s] > 0, ~(ai[s] > 0)
          PROVE  job.state = "none" /\ InNext(Event("AiTakeover", s))'
      <3>1. TakenOver(s)
        BY <1>1, <2>4 DEF FateStays, Leaves, TakenOver, TypeOK
      <3>2. pending' = Append(pending, Event("AiTakeover", s)) /\ pending \in Seq(Events)
            /\ Event("AiTakeover", s) \in Events
        BY <3>1 DEF TakenOver, TypeOK, Event, Events
      <3>3. Len(pending') \in DOMAIN pending' /\ pending'[Len(pending')] = Event("AiTakeover", s)
        BY <3>2, AppendProperties
      <3> QED
        BY <3>1, <3>3 DEF TakenOver, InNext
    <2>5. ControllersAnnounced'
      BY <2>1, <2>3, <2>4 DEF AiInv, ControllersAnnounced, Published, InTick
    <2> QED
      BY <2>2, <2>5 DEF AiInv
  <1>2. CASE CloseTick
    <2>1. /\ job.state = "none" /\ job = NoJob /\ ~room.error
          /\ job' = [state |-> "running", events |-> pending, ais |-> {}]
          /\ UNCHANGED <<log, ai, room>>
      BY <1>2 DEF CloseTick, TickDue, JobInRoom
    <2>2. \A e : ~InTick(e) /\ (InNext(e) => InTick(e)')
      BY <2>1 DEF InTick, InNext, NoJob
    <2>3. ControllersAnnounced'
      BY <2>1, <2>2 DEF AiInv, ControllersAnnounced, Published
    <2> QED
      BY <2>1, <2>3 DEF AiInv, AiAfterTakeover
  <1>3. CASE WorkerRuns
    <2>1. /\ job.state = "running" /\ ~room.error
          /\ UNCHANGED <<log, ai, room>>
          /\ job'.events = job.events /\ job'.ais = {s \in Slots : ai[s] > 0}
      BY <1>3 DEF WorkerRuns, JobInRoom, TypeOK, Jobs
    <2>2. ControllersAnnounced'
      BY <2>1 DEF AiInv, ControllersAnnounced, Published, InTick
    <2> QED
      BY <2>1, <2>2 DEF AiInv, AiAfterTakeover
  <1>4. ASSUME NEW beaten \in SUBSET {s \in Players : ~seat[s].defeated}, FinishTick(beaten)
        PROVE  AiInv'
    <2> DEFINE bundle == [tick |-> Tick, events |-> job.events, ais |-> job.ais]
    <2>1. log \in Seq(Bundles) /\ log' = Append(log, bundle) /\ job' = NoJob /\ UNCHANGED <<ai, room>>
          /\ job.state = "done"
      BY <1>4 DEF FinishTick, TypeOK
    <2>2. bundle \in Bundles /\ bundle.events = job.events /\ bundle.ais = job.ais
      BY DEF TypeOK, Jobs, Bundles, Tick
    <2> HIDE DEF bundle
    <2>3. /\ DOMAIN log = 1 .. Len(log) /\ DOMAIN log' = 1 .. Len(log) + 1 /\ Len(log) \in Nat
          /\ \A i \in 1 .. Len(log) : log'[i] = log[i]
          /\ log'[Len(log) + 1] = bundle
      BY <2>1, <2>2, AppendProperties
    <2>4. \A e : Published(e) \/ InTick(e) => Published(e)'
      BY <2>2, <2>3 DEF Published, InTick
    <2>5. ControllersAnnounced'
      BY <2>1, <2>4 DEF AiInv, ControllersAnnounced, NoJob
    <2>6. ASSUME NEW i \in DOMAIN log', NEW s \in log'[i].ais \ AiStart
          PROVE  \E j \in 1 .. i : \E n \in DOMAIN log'[j].events :
                   log'[j].events[n] = Event("AiTakeover", s)
      <3>1. CASE i \in 1 .. Len(log)
        <4>1. \E j \in 1 .. i : \E n \in DOMAIN log[j].events :
                log[j].events[n] = Event("AiTakeover", s)
          BY <2>3, <2>6, <3>1 DEF AiInv, AiAfterTakeover
        <4> QED
          BY <2>3, <3>1, <4>1
      <3>2. CASE i = Len(log) + 1
        <4>1. s \in job.ais /\ s \in Slots \ AiStart
          BY <2>2, <2>3, <2>6, <3>2 DEF TypeOK, Jobs
        <4>2. Published(Event("AiTakeover", s)) \/ InTick(Event("AiTakeover", s))
          BY <4>1 DEF AiInv, ControllersAnnounced
        <4> QED
          BY <2>2, <2>3, <3>2, <4>2 DEF Published, InTick
      <3> QED
        BY <2>3, <2>6, <3>1, <3>2
    <2>7. AiAfterTakeover'
      BY <2>6 DEF AiAfterTakeover
    <2> QED
      BY <2>5, <2>7 DEF AiInv
  <1>5. CASE JobFails
    <2>1. room'.error /\ job' = NoJob /\ log' = log
      BY <1>5 DEF JobFails, TypeOK, Rooms
    <2> QED
      BY <2>1 DEF AiInv, ControllersAnnounced, AiAfterTakeover, NoJob
  <1> QED
    BY <1>1, <1>2, <1>3, <1>4, <1>5, FateSteps DEF TickStep

(* Server::takeOver adds a controller only between ticks, and with it the  *)
(* event that the next tick freezes: no worker asks an AI for the commands *)
(* of a seat before the bundle that gives the seat to it.                  *)
THEOREM TakeoversComeFirst == Spec => []AiAfterTakeover
  <1>1. Init => AiInv
    BY DEF Init, AiInv, ControllersAnnounced, AiAfterTakeover, NoJob
  <1>2. TypeOK /\ SeatInv /\ JobInRoom /\ AiInv /\ [Next]_vars => AiInv'
    BY NextAi
  <1>3. AiInv => AiAfterTakeover
    BY DEF AiInv
  <1> QED
    BY <1>1, <1>2, <1>3, RoomInv, PTL DEF Spec

-----------------------------------------------------------------------------
(* A seat is given up once.                                                *)

\* The events about seat s in a sequence of them, and in the log.
At(es, s) == {i \in DOMAIN es : es[i].player = s}
Logged(s) == UNION {{i} \X At(log[i].events, s) : i \in DOMAIN log}

LEMMA AtFinite ==
  ASSUME NEW es \in Seq(Events), NEW s
  PROVE  IsFiniteSet(At(es, s)) /\ Cardinality(At(es, s)) \in Nat
  <1>1. At(es, s) \in SUBSET (1 .. Len(es)) /\ Len(es) \in Nat
    BY DEF At
  <1>2. IsFiniteSet(1 .. Len(es))
    BY <1>1, FS_Interval
  <1>3. IsFiniteSet(At(es, s))
    BY <1>1, <1>2, FS_Subset
  <1> QED
    BY <1>3, FS_CardinalityType

LEMMA AtNone == \A s : Cardinality(At(<<>>, s)) = 0
  <1>1. \A s : At(<<>>, s) = {}
    BY DEF At
  <1> QED
    BY <1>1, FS_EmptySet

\* One more event counts for its seat alone.
LEMMA AtAppend ==
  ASSUME NEW es \in Seq(Events), NEW e \in Events, NEW s
  PROVE  Cardinality(At(Append(es, e), s))
           = Cardinality(At(es, s)) + (IF e.player = s THEN 1 ELSE 0)
  <1> DEFINE n == Len(es) + 1
  <1>1. /\ DOMAIN Append(es, e) = 1 .. n /\ DOMAIN es = 1 .. Len(es) /\ Len(es) \in Nat
        /\ \A i \in 1 .. Len(es) : Append(es, e)[i] = es[i]
        /\ Append(es, e)[n] = e
    BY AppendProperties
  <1>2. IsFiniteSet(At(es, s)) /\ Cardinality(At(es, s)) \in Nat
    BY AtFinite
  <1>3. n \notin At(es, s)
    BY <1>1 DEF At
  <1>4. CASE e.player = s
    <2>1. At(Append(es, e), s) = At(es, s) \cup {n}
      BY <1>1, <1>4 DEF At
    <2> QED
      <3>1. Cardinality(At(es, s) \cup {n}) = Cardinality(At(es, s)) + 1
        BY <1>2, <1>3, FS_AddElement
      <3> QED
        BY <1>4, <2>1, <3>1
  <1>5. CASE e.player # s
    <2>1. At(Append(es, e), s) = At(es, s)
      BY <1>1, <1>5 DEF At
    <2> QED
      BY <1>2, <1>5, <2>1
  <1> QED
    BY <1>4, <1>5

\* One more tick brings the events it has.
LEMMA LoggedAppend ==
  ASSUME TypeOK, NEW s, NEW bundle \in Bundles, log' = Append(log, bundle), IsFiniteSet(Logged(s))
  PROVE  /\ IsFiniteSet(Logged(s)')
         /\ Cardinality(Logged(s)') = Cardinality(Logged(s)) + Cardinality(At(bundle.events, s))
  <1> DEFINE n == Len(log) + 1
             A == At(bundle.events, s)
             L0 == Logged(s)
             L1 == Logged(s)'
  <1>1. log \in Seq(Bundles) /\ bundle.events \in Seq(Events)
    BY DEF TypeOK, Bundles
  <1>2. /\ DOMAIN log' = 1 .. n /\ DOMAIN log = 1 .. Len(log) /\ Len(log) \in Nat
        /\ \A i \in 1 .. Len(log) : log'[i] = log[i]
        /\ log'[n] = bundle
    BY <1>1, AppendProperties
  <1>3. \A x : x \in L0 <=> \E i \in 1 .. Len(log) : x \in {i} \X At(log[i].events, s)
    BY <1>2 DEF Logged
  <1>4. \A x : x \in L1 <=> \E i \in 1 .. n : x \in {i} \X At(log'[i].events, s)
    <2>1. L1 = UNION {{i} \X At(log'[i].events, s) : i \in DOMAIN log'}
      BY DEF Logged, At
    <2> QED
      BY <1>2, <2>1
  <1>5. IsFiniteSet(A) /\ Cardinality(A) \in Nat
    BY <1>1, AtFinite
  <1>6. IsFiniteSet({n} \X A) /\ Cardinality({n} \X A) = Cardinality(A)
    <2>1. IsFiniteSet({n}) /\ Cardinality({n}) = 1
      BY FS_Singleton
    <2>2. IsFiniteSet({n} \X A) /\ Cardinality({n} \X A) = 1 * Cardinality(A)
      BY <1>5, <2>1, FS_Product
    <2> QED
      BY <1>5, <2>2
  <1> HIDE DEF A, L0, L1
  <1>7. L1 = L0 \cup ({n} \X A)
    <2>1. \A x : x \in L1 <=> x \in L0 \/ x \in {n} \X A
      BY <1>2, <1>3, <1>4 DEF A
    <2> QED
      BY <2>1
  <1>8. L0 \cap ({n} \X A) = {}
    BY <1>2, <1>3
  <1>9. IsFiniteSet(L0) /\ Cardinality(L0) \in Nat
    BY FS_CardinalityType DEF L0
  <1>10. IsFiniteSet(L1) /\ Cardinality(L1) = Cardinality(L0) + Cardinality(A) - 0
    <2> DEFINE X == {n} \X A
    <2> HIDE DEF X
    <2>1. IsFiniteSet(X) /\ L1 = L0 \cup X /\ L0 \cap X = {} /\ Cardinality(X) = Cardinality(A)
      BY <1>6, <1>7, <1>8 DEF X
    <2>2. IsFiniteSet(L1) /\ Cardinality(L1) = Cardinality(L0) + Cardinality(X) - Cardinality(L0 \cap X)
      BY <1>9, <2>1, FS_Union
    <2>3. Cardinality(L0 \cap X) = 0
      BY <2>1, FS_EmptySet
    <2> QED
      BY <2>1, <2>2, <2>3
  <1> QED
    BY <1>5, <1>9, <1>10 DEF A, L0, L1

LEMMA EventsCount ==
  \A s : EventsOf(s) = Cardinality(At(job.events, s)) + Cardinality(At(pending, s))
                         + Cardinality(Logged(s))
  BY DEF EventsOf, At, Logged

LEMMA LoggedSame == log' = log => \A s : Logged(s)' = Logged(s)
  BY DEF Logged, At

\* The log's events can be counted.
LoggedFinite == \A s : IsFiniteSet(Logged(s))
FateInv == LoggedFinite /\ FateSequenced

LEMMA NextFate ==
  ASSUME TypeOK, SeatInv, JobInRoom, FateInv, [Next]_vars
  PROVE  FateInv'
  <1> DEFINE Job(s) == Cardinality(At(job.events, s))
             Pending(s) == Cardinality(At(pending, s))
             Log(s) == Cardinality(Logged(s))
  <1>1. \A s : EventsOf(s) = Job(s) + Pending(s) + Log(s)
    BY EventsCount
  <1>2. \A s : EventsOf(s)' = Job(s)' + Pending(s)' + Log(s)'
    BY EventsCount DEF EventsOf, At, Logged
  <1>3. \A s : Job(s) \in Nat /\ Pending(s) \in Nat /\ Log(s) \in Nat
    BY AtFinite, FS_CardinalityType DEF TypeOK, Jobs, FateInv, LoggedFinite
  <1>4. ~room.error => \A s \in Players :
          /\ EventsOf(s) = IF Human(s) THEN 0 ELSE 1
          /\ ai[s] = IF seat[s].type = "ai" THEN 1 ELSE 0
    BY DEF FateInv, FateSequenced
  <1>5. Players \subseteq Slots
    BY DEF Players
  <1> HIDE DEF Job, Pending, Log
  <1>6. CASE FateStays
    <2>1. \A s : Job(s)' = Job(s) /\ Pending(s)' = Pending(s) /\ Log(s)' = Log(s)
      BY <1>6 DEF FateStays, Job, Pending, Log, Logged, At
    <2>2. \A s : EventsOf(s)' = EventsOf(s)
      BY <1>1, <1>2, <2>1
    <2>3. FateSequenced'
      BY <1>4, <1>5, <1>6, <2>2 DEF FateSequenced, FateStays, RoomStays, Human
    <2>4. LoggedFinite'
      BY <1>6, LoggedSame DEF FateInv, LoggedFinite, FateStays
    <2> QED
      BY <2>3, <2>4 DEF FateInv
  <1>7. ASSUME NEW s \in Slots, Leaves(s) \/ TakenOver(s) PROVE FateInv'
    <2>1. PICK e \in Events : pending' = Append(pending, e) /\ e.player = s
      BY <1>7 DEF Leaves, TakenOver, Event, Events
    <2>2. UNCHANGED <<log, job>> /\ room'.error = room.error /\ Human(s)
          /\ \A t \in Slots \ {s} : seat'[t].type = seat[t].type
      BY <1>7 DEF Leaves, TakenOver, RoomStays
    <2>3. \A t : Job(t)' = Job(t) /\ Log(t)' = Log(t)
      BY <2>2 DEF Job, Log, Logged, At
    <2>4. \A t : Pending(t)' = Pending(t) + (IF t = s THEN 1 ELSE 0)
      <3>1. pending \in Seq(Events)
        BY DEF TypeOK
      <3>2. \A t : Pending(t)' = Cardinality(At(Append(pending, e), t))
        BY <2>1 DEF Pending, At
      <3> QED
        BY <2>1, <3>1, <3>2, AtAppend DEF Pending
    <2>5. \A t : EventsOf(t)' = EventsOf(t) + (IF t = s THEN 1 ELSE 0)
      BY <1>1, <1>2, <1>3, <2>3, <2>4
    <2>6. \/ seat'[s].type = "closed" /\ ai' = ai
          \/ seat'[s].type = "ai" /\ ai' = [ai EXCEPT ![s] = @ + 1]
      BY <1>7 DEF Leaves, TakenOver
    <2>7. ASSUME ~room'.error, NEW t \in Players
          PROVE  /\ EventsOf(t)' = IF Human(t)' THEN 0 ELSE 1
                 /\ ai'[t] = IF seat'[t].type = "ai" THEN 1 ELSE 0
      <3>1. CASE t = s
        BY <1>4, <2>2, <2>5, <2>6, <2>7, <3>1 DEF Human, TypeOK
      <3>2. CASE t # s
        <4>1. seat'[t].type = seat[t].type /\ EventsOf(t)' = EventsOf(t) /\ ai'[t] = ai[t]
          <5>1. EventsOf(t) \in Nat
            BY <1>1, <1>3
          <5> QED
            BY <1>5, <2>2, <2>5, <2>6, <3>2, <5>1 DEF TypeOK
        <4> QED
          BY <1>4, <2>2, <2>7, <4>1 DEF Human
      <3> QED
        BY <3>1, <3>2
    <2>8. LoggedFinite'
      BY <2>2, LoggedSame DEF FateInv, LoggedFinite
    <2> QED
      BY <2>7, <2>8 DEF FateInv, FateSequenced
  <1>8. CASE CloseTick \/ WorkerRuns
    <2>1. UNCHANGED <<log, room, seat, ai>>
      BY <1>8 DEF CloseTick, WorkerRuns
    <2>2. \A s : Job(s)' + Pending(s)' = Job(s) + Pending(s)
      <3>1. CASE CloseTick
        <4>1. job.events = <<>> /\ job'.events = pending /\ pending' = <<>>
          BY <3>1 DEF CloseTick, TickDue, JobInRoom, NoJob
        <4>2. \A s : Job(s) = 0 /\ Job(s)' = Pending(s) /\ Pending(s)' = 0
          BY <4>1, AtNone DEF Job, Pending, At
        <4> QED
          BY <1>3, <4>2
      <3>2. CASE WorkerRuns
        <4>1. job'.events = job.events /\ pending' = pending
          BY <3>2 DEF WorkerRuns, TypeOK, Jobs
        <4> QED
          BY <4>1 DEF Job, Pending, At
      <3> QED
        BY <1>8, <3>1, <3>2
    <2>3. \A s : Log(s)' = Log(s)
      BY <2>1 DEF Log, Logged, At
    <2>4. \A s : EventsOf(s)' = EventsOf(s)
      BY <1>1, <1>2, <2>2, <2>3
    <2>5. LoggedFinite'
      BY <2>1, LoggedSame DEF FateInv, LoggedFinite
    <2> QED
      BY <1>4, <2>1, <2>4, <2>5 DEF FateInv, FateSequenced, Human
  <1>9. ASSUME NEW beaten \in SUBSET {s \in Players : ~seat[s].defeated}, FinishTick(beaten)
        PROVE  FateInv'
    <2> DEFINE bundle == [tick |-> Tick, events |-> job.events, ais |-> job.ais]
    <2>1. log' = Append(log, bundle) /\ job' = NoJob /\ UNCHANGED <<pending, ai, room>>
      BY <1>9 DEF FinishTick
    <2>2. bundle \in Bundles /\ bundle.events = job.events
      BY DEF TypeOK, Jobs, Bundles, Tick
    <2> HIDE DEF bundle
    <2>3. \A s : IsFiniteSet(Logged(s)') /\ Log(s)' = Log(s) + Job(s)
      BY <2>1, <2>2, LoggedAppend DEF FateInv, LoggedFinite, Log, Job
    <2>4. \A s : Job(s)' = 0 /\ Pending(s)' = Pending(s)
      BY <2>1, AtNone DEF Job, Pending, At, NoJob
    <2>5. \A s : EventsOf(s)' = EventsOf(s)
      BY <1>1, <1>2, <1>3, <2>3, <2>4
    <2>6. \A s \in Slots : seat'[s].type = seat[s].type
      BY <1>9 DEF FinishTick, TypeOK, Seats
    <2>7. FateSequenced'
      BY <1>4, <1>5, <2>1, <2>5, <2>6 DEF FateSequenced, Human
    <2> QED
      BY <2>3, <2>7 DEF FateInv, LoggedFinite
  <1>10. CASE JobFails
    <2>1. room'.error /\ log' = log
      BY <1>10 DEF JobFails, TypeOK, Rooms
    <2> QED
      BY <2>1, LoggedSame DEF FateInv, LoggedFinite, FateSequenced
  <1> QED
    BY <1>6, <1>7, <1>8, <1>9, <1>10, FateSteps DEF TickStep

(* Server::leaveRoom, dropClient, takeOver and trackHolds race for a seat; *)
(* whichever comes first is the only one to give it up, and the event that *)
(* says so is never lost between the pending list, the tick in flight and  *)
(* the log.                                                                *)
THEOREM FatesAreSequenced == Spec => []FateSequenced
  <1>1. Init => FateInv
    <2> SUFFICES ASSUME Init PROVE FateInv
      OBVIOUS
    <2>1. \A s : Logged(s) = {}
      BY DEF Init, Logged
    <2>2. \A s : EventsOf(s) = 0
      <3>1. job.events = <<>> /\ pending = <<>>
        BY DEF Init, NoJob
      <3>2. \A s : EventsOf(s) = 0 + 0 + 0
        BY <2>1, <3>1, EventsCount, AtNone, FS_EmptySet
      <3> QED
        BY <3>2
    <2>3. \A s \in Players : s \in Slots /\ Human(s) /\ s \notin AiStart
      BY DEF Init, Players, Human
    <2>4. FateSequenced
      BY <2>2, <2>3 DEF Init, FateSequenced, Human
    <2> QED
      BY <2>1, <2>4, FS_EmptySet DEF FateInv, LoggedFinite
  <1>2. TypeOK /\ SeatInv /\ JobInRoom /\ FateInv /\ [Next]_vars => FateInv'
    BY NextFate
  <1>3. FateInv => FateSequenced
    BY DEF FateInv
  <1> QED
    BY <1>1, <1>2, <1>3, RoomInv, PTL DEF Spec

=============================================================================
