------------------------------ MODULE StreamProofs ------------------------------
(***************************************************************************)
(* The tick streams of a GameRoom, for any number of seats, connections,   *)
(* watchers and ticks: what is under way to a client is always the part of *)
(* the log that follows what the client holds, whoever drops, reconnects,  *)
(* comes to watch or is taken over; the room implements Lockstep; and it   *)
(* never runs further ahead of a player still in the game than the lead it *)
(* may grant.                                                              *)
(***************************************************************************)
EXTENDS GameRoomProofs

Copy(p) == peer[p].replayLog

\* What the streams rest on (StreamInv, and the variables' types).
Streams == TypeOK /\ StreamInv

LEMMA StreamParts ==
  Streams <=> /\ TypeOK /\ SeatInv /\ JobInRoom
              /\ OneConnection /\ LogNumbered /\ CopiesArePrefixes /\ QuietOutside /\ StreamInStep
  BY DEF Streams, StreamInv, SeatInv

-----------------------------------------------------------------------------
(* Types of the parts.                                                     *)

LEMMA PartTypes ==
  ASSUME TypeOK
  PROVE  /\ log \in Seq(Bundles) /\ Len(log) \in Nat
         /\ \A p \in Persons : Copy(p) \in Seq(Bundles) /\ Len(Copy(p)) \in Nat
         /\ \A c \in Conns : /\ Owner[c] \in Persons
                             /\ conn[c] \in Connections
                             /\ wire[c] \in Wires /\ wire[c].opener \in Openers
                             /\ wire[c].bundles \in Seq(Bundles)
                             /\ Len(wire[c].bundles) \in Nat
                             /\ conn[c].replayPos \in Nat
  <1>1. log \in Seq(Bundles) /\ Len(log) \in Nat
    BY DEF TypeOK
  <1>2. ASSUME NEW p \in Persons PROVE Copy(p) \in Seq(Bundles) /\ Len(Copy(p)) \in Nat
    BY DEF TypeOK, Peers, Copy
  <1>3. ASSUME NEW c \in Conns
        PROVE  /\ Owner[c] \in Persons
               /\ conn[c] \in Connections
               /\ wire[c] \in Wires /\ wire[c].opener \in Openers
               /\ wire[c].bundles \in Seq(Bundles)
               /\ Len(wire[c].bundles) \in Nat
               /\ conn[c].replayPos \in Nat
    BY ConstantsAssumption DEF TypeOK, Wires, Connections
  <1> QED
    BY <1>1, <1>2, <1>3

-----------------------------------------------------------------------------
(* What a step does to the log and to the peers' copies of it.             *)

CopiesStay == log' = log /\ \A p \in Persons : Copy(p)' = Copy(p)

LEMMA CopySteps ==
  ASSUME TypeOK, [Next]_vars
  PROVE  \/ CopiesStay
         \/ \E beaten \in SUBSET {s \in Players : ~seat[s].defeated} : FinishTick(beaten)
         \/ \E c \in Conns : ReadBundle(c) \/ (ReadOpener(c) /\ wire[c].opener.kind = "starting")
  <1>1. ASSUME NEW c \in Conns,
               \/ GoSilent(c) \/ Speak(c) \/ Loaded(c) \/ SetPause(c)
               \/ \E tk \in 0 .. MaxTicks : StateHash(c, tk) \/ \E lead \in Leads : Progress(c, tk, lead)
               \/ DropClient(c) \/ Connect(c) \/ Rejoin(c) \/ Spectate(c)
               \/ \E n \in 0 .. MaxTicks : Feed(c, n)
        PROVE  CopiesStay
    BY <1>1 DEF GoSilent, Speak, Loaded, SetPause, StateHash, Progress, DropClient, Connect, Rejoin,
                Spectate, Feed, roomVars, CopiesStay, Copy
  <1>2. ASSUME NEW c \in Conns, LeaveGame(c) \/ RejoinRefused(c) \/ LinkBreaks(c)
        PROVE  CopiesStay
    <2>1. PICK phase : peer' = [peer EXCEPT ![Owner[c]].phase = phase]
      BY <1>2 DEF LeaveGame, RejoinRefused, LinkBreaks
    <2>2. log' = log
      BY <1>2 DEF LeaveGame, RejoinRefused, LinkBreaks, roomVars
    <2> QED
      BY <2>1, <2>2 DEF CopiesStay, Copy, TypeOK, Peers
  <1>3. ASSUME NEW c \in Conns, ReadOpener(c), wire[c].opener.kind # "starting"
        PROVE  CopiesStay
    <2>1. wire[c].opener.kind = "reseated"
      BY <1>3, PartTypes DEF ReadOpener, Openers
    <2>2. peer' = [peer EXCEPT ![Owner[c]] = [@ EXCEPT !.phase = "playing", !.token = wire[c].opener.token]]
          /\ log' = log
      BY <1>3, <2>1 DEF ReadOpener, roomVars
    <2> QED
      BY <2>2 DEF CopiesStay, Copy, TypeOK, Peers
  <1>4. ASSUME NEW s \in Slots, BeginWait(s) \/ EndWait(s) \/ TakeOver(s) \/ HoldTakeOver(s)
        PROVE  CopiesStay
    BY <1>4 DEF BeginWait, EndWait, TakeOver, HoldTakeOver, AiTakesSeat, CopiesStay, Copy
  <1>5. ASSUME NEW p \in Persons, GiveUp(p) PROVE CopiesStay
    BY <1>5 DEF GiveUp, roomVars, CopiesStay, Copy, TypeOK, Peers
  <1>6. CASE CloseTick \/ WorkerRuns \/ JobFails \/ Teardown \/ UNCHANGED vars
    BY <1>6 DEF CloseTick, WorkerRuns, JobFails, Teardown, vars, roomVars, CopiesStay, Copy
  <1> QED
    BY <1>1, <1>2, <1>3, <1>4, <1>5, <1>6 DEF Next

\* A client reads the bundle of the log that follows those it holds.
LEMMA NextBundleRead ==
  ASSUME Streams, NEW c \in Conns, ReadBundle(c)
  PROVE  LET p == Owner[c]
         IN  /\ Len(Copy(p)) < Len(log)
             /\ Copy(p)' = Append(Copy(p), log[Len(Copy(p)) + 1])
             /\ \A q \in Persons : q # p => Copy(q)' = Copy(q)
             /\ log' = log
  <1> DEFINE p == Owner[c]
             w == wire[c].bundles
  <1>1. /\ Copy(p) \in Seq(Bundles) /\ Len(Copy(p)) \in Nat /\ p \in Persons
        /\ w \in Seq(Bundles) /\ Len(w) \in Nat /\ Len(log) \in Nat /\ log \in Seq(Bundles)
    BY PartTypes DEF Streams
  <1>2. c \in up /\ wire[c].opener.kind = "none" /\ w # <<>> /\ log' = log
    BY DEF ReadBundle, roomVars
  <1>3. Holds(c) = Len(Copy(p))
    BY <1>2 DEF Holds, Copy
  <1>4. Len(w) >= 1 /\ Head(w) = w[1]
    BY <1>1, <1>2, EmptySeq, HeadTailProperties
  <1>5. Holds(c) + Len(w) <= Len(log) /\ \A i \in 1 .. Len(w) : w[i] = log[Holds(c) + i]
    BY <1>2, StreamParts DEF StreamInStep
  <1>6. Len(Copy(p)) < Len(log) /\ Head(w) = log[Len(Copy(p)) + 1]
    <2>1. 1 \in 1 .. Len(w)
      BY <1>1, <1>4
    <2>2. Head(w) = log[Holds(c) + 1]
      BY <1>4, <1>5, <2>1
    <2>3. Head(w) = log[Len(Copy(p)) + 1]
      BY <1>3, <2>2
    <2>4. Len(Copy(p)) + Len(w) <= Len(log)
      BY <1>3, <1>5
    <2> HIDE DEF p, w
    <2>5. Len(Copy(p)) < Len(log)
      BY <1>1, <1>4, <2>4
    <2> QED
      BY <2>3, <2>5
  <1>7. peer' = [peer EXCEPT ![p] =
                   [peer[p] EXCEPT !.replayLog = Append(peer[p].replayLog, Head(w)),
                      !.phase = IF peer[p].phase = "starting" THEN "playing" ELSE peer[p].phase]]
    BY DEF ReadBundle
  <1> HIDE DEF w
  <1>8. Copy(p)' = Append(Copy(p), Head(w)) /\ \A q \in Persons : q # p => Copy(q)' = Copy(q)
    BY <1>1, <1>7 DEF Copy, Streams, TypeOK, Peers
  <1> QED
    BY <1>2, <1>6, <1>8

\* A client that is told to load starts over.
LEMMA CopyStartsOver ==
  ASSUME TypeOK, NEW c \in Conns, ReadOpener(c), wire[c].opener.kind = "starting"
  PROVE  /\ Copy(Owner[c])' = <<>>
         /\ \A q \in Persons : q # Owner[c] => Copy(q)' = Copy(q)
         /\ log' = log
  <1>1. Owner[c] \in Persons
    BY PartTypes
  <1> DEFINE o == wire[c].opener
             r == [phase |-> IF o.token = NoToken THEN "watching" ELSE "starting",
                   token |-> o.token, replayLog |-> <<>>]
  <1>2. peer' = [peer EXCEPT ![Owner[c]] = r] /\ log' = log
    BY DEF ReadOpener, roomVars
  <1>3. r.replayLog = <<>>
    OBVIOUS
  <1> HIDE DEF r
  <1> QED
    BY <1>1, <1>2, <1>3 DEF Copy, TypeOK

LEMMA NextCopies ==
  ASSUME Streams, [Next]_vars
  PROVE  LogNumbered' /\ CopiesArePrefixes'
  <1>1. /\ log \in Seq(Bundles) /\ Len(log) \in Nat /\ DOMAIN log = 1 .. Len(log)
        /\ \A p \in Persons : Copy(p) \in Seq(Bundles) /\ Len(Copy(p)) \in Nat
    BY PartTypes DEF Streams
  <1>2. \A p \in Persons : Prefix(Copy(p), log)
    BY StreamParts DEF CopiesArePrefixes, Copy
  <1>3. \A i \in 1 .. Len(log) : log[i].tick = i - 1
    BY <1>1, StreamParts DEF LogNumbered
  <1>4. CASE CopiesStay
    BY <1>4, StreamParts DEF CopiesStay, LogNumbered, CopiesArePrefixes, Copy
  <1>5. ASSUME NEW beaten \in SUBSET {s \in Players : ~seat[s].defeated}, FinishTick(beaten)
        PROVE  LogNumbered' /\ CopiesArePrefixes'
    <2> DEFINE bundle == [tick |-> Tick, events |-> job.events, ais |-> job.ais]
    <2>1. log' = Append(log, bundle) /\ peer' = peer
      BY <1>5 DEF FinishTick
    <2>2. bundle \in Bundles /\ bundle.tick = Len(log)
      BY DEF TypeOK, Jobs, Bundles, Tick, Streams
    <2> HIDE DEF bundle
    <2>3. /\ Len(log') = Len(log) + 1 /\ DOMAIN log' = 1 .. Len(log) + 1
          /\ \A i \in 1 .. Len(log) : log'[i] = log[i]
          /\ log'[Len(log) + 1] = bundle
      BY <1>1, <2>1, <2>2, AppendProperties
    <2>4. LogNumbered'
      BY <1>1, <1>3, <2>2, <2>3 DEF LogNumbered
    <2>5. \A p \in Persons : Prefix(Copy(p), log')
      BY <1>1, <1>2, <2>3 DEF Prefix
    <2> QED
      BY <2>1, <2>4, <2>5 DEF CopiesArePrefixes, Copy, Prefix
  <1>6. ASSUME NEW c \in Conns, ReadBundle(c) PROVE LogNumbered' /\ CopiesArePrefixes'
    <2> DEFINE p == Owner[c]
    <2>1. /\ Len(Copy(p)) < Len(log) /\ Copy(p)' = Append(Copy(p), log[Len(Copy(p)) + 1])
          /\ \A q \in Persons : q # p => Copy(q)' = Copy(q)
          /\ log' = log /\ p \in Persons
      BY <1>6, NextBundleRead, PartTypes DEF Streams
    <2>2. log[Len(Copy(p)) + 1] \in Bundles
      BY <1>1, <2>1, ElementOfSeq
    <2>3. Prefix(Append(Copy(p), log[Len(Copy(p)) + 1]), log)
      <3> DEFINE l == Append(Copy(p), log[Len(Copy(p)) + 1])
      <3>1. /\ Len(l) = Len(Copy(p)) + 1 /\ \A i \in 1 .. Len(Copy(p)) : l[i] = Copy(p)[i]
            /\ l[Len(Copy(p)) + 1] = log[Len(Copy(p)) + 1]
        BY <1>1, <2>1, <2>2, AppendProperties
      <3>2. Len(l) <= Len(log) /\ \A i \in 1 .. Len(l) : l[i] = log[i]
        BY <1>1, <1>2, <2>1, <3>1 DEF Prefix
      <3> QED
        BY <3>2 DEF Prefix
    <2>4. \A q \in Persons : Prefix(peer'[q].replayLog, log')
      BY <1>2, <2>1, <2>3 DEF Copy
    <2> QED
      BY <2>1, <2>4, StreamParts DEF CopiesArePrefixes, LogNumbered, Prefix
  <1>7. ASSUME NEW c \in Conns, ReadOpener(c), wire[c].opener.kind = "starting"
        PROVE  LogNumbered' /\ CopiesArePrefixes'
    <2>1. /\ Copy(Owner[c])' = <<>> /\ log' = log
          /\ \A q \in Persons : q # Owner[c] => Copy(q)' = Copy(q)
      BY <1>7, CopyStartsOver DEF Streams
    <2>2. Prefix(<<>>, log)
      BY <1>1 DEF Prefix
    <2>3. \A q \in Persons : Prefix(peer'[q].replayLog, log')
      BY <1>2, <2>1, <2>2 DEF Copy
    <2> QED
      BY <2>1, <2>3, StreamParts DEF CopiesArePrefixes, LogNumbered, Prefix
  <1> QED
    BY <1>4, <1>5, <1>6, <1>7, CopySteps DEF Streams

-----------------------------------------------------------------------------
(* What a step does to the connections.                                    *)

\* It closes some, and leaves what the others are sent, and where the server
\* has got with it, alone.
Calm ==
  /\ CopiesStay /\ UNCHANGED <<up, wire>> /\ room'.running = room.running
  /\ \A d \in Conns :
       \/ conn'[d].state \in {"closed", "bye"}
       \/ UNCHANGED <<conn[d].state, conn[d].replaying, conn[d].replayPos>>

LEMMA AiTakesSeatCalm ==
  ASSUME TypeOK, NEW s \in Slots, AiTakesSeat(s)
  PROVE  Calm
  <1>1. conn' = IF seat[s].client \in Conns THEN [conn EXCEPT ![seat[s].client] = Outside("bye")]
                ELSE conn
    BY DEF AiTakesSeat, Unseated
  <1>2. \A d \in Conns : conn'[d] = conn[d] \/ conn'[d].state = "bye"
    BY <1>1 DEF TypeOK, Outside
  <1>3. room'.running = room.running
    BY DEF AiTakesSeat, TypeOK, Rooms
  <1>4. UNCHANGED <<log, up, wire, peer>>
    BY DEF AiTakesSeat
  <1> QED
    BY <1>2, <1>3, <1>4 DEF Calm, CopiesStay, Copy

LEMMA ConnSteps ==
  ASSUME TypeOK, SeatInv, [Next]_vars
  PROVE  \/ Calm \/ Teardown
         \/ \E beaten \in SUBSET {s \in Players : ~seat[s].defeated} : FinishTick(beaten)
         \/ \E c \in Conns :
              \/ LeaveGame(c) \/ Connect(c) \/ Rejoin(c) \/ RejoinRefused(c) \/ Spectate(c)
              \/ \E n \in 0 .. MaxTicks : Feed(c, n)
              \/ ReadOpener(c) \/ ReadBundle(c) \/ LinkBreaks(c)
  <1>1. ASSUME NEW c \in Conns, GoSilent(c) \/ Speak(c) PROVE Calm
    <2>1. PICK b : conn' = [conn EXCEPT ![c].silent = b]
      BY <1>1 DEF GoSilent, Speak
    <2>2. \A d \in Conns : UNCHANGED <<conn[d].state, conn[d].replaying, conn[d].replayPos>>
      BY <2>1 DEF TypeOK, Connections
    <2> QED
      BY <1>1, <2>2 DEF GoSilent, Speak, roomVars, Calm, CopiesStay, Copy
  <1>2. ASSUME NEW c \in Conns, Loaded(c) PROVE Calm
    <2>1. \A d \in Conns : UNCHANGED <<conn[d].state, conn[d].replaying, conn[d].replayPos>>
      BY <1>2 DEF Loaded, TypeOK, Connections
    <2> QED
      BY <1>2, <2>1 DEF Loaded, roomVars, Calm, CopiesStay, Copy
  <1>3. ASSUME NEW c \in Conns, SetPause(c) PROVE Calm
    BY <1>3 DEF SetPause, Calm, CopiesStay, Copy, TypeOK, Rooms
  <1>4. ASSUME NEW c \in Conns, NEW tk \in 0 .. MaxTicks,
               StateHash(c, tk) \/ \E lead \in Leads : Progress(c, tk, lead)
        PROVE  Calm
    <2>1. \A d \in Conns : UNCHANGED <<conn[d].state, conn[d].replaying, conn[d].replayPos>>
      <3>1. CASE StateHash(c, tk)
        BY <3>1 DEF StateHash, TypeOK, Connections
      <3>2. ASSUME NEW lead \in Leads, Progress(c, tk, lead)
            PROVE  \A d \in Conns : UNCHANGED <<conn[d].state, conn[d].replaying, conn[d].replayPos>>
        BY <3>2 DEF Progress, TypeOK, Connections
      <3> QED
        BY <1>4, <3>1, <3>2
    <2> QED
      BY <1>4, <2>1 DEF StateHash, Progress, roomVars, Calm, CopiesStay, Copy
  <1>5. ASSUME NEW c \in Conns, DropClient(c) PROVE Calm
    <2>1. \A d \in Conns : conn'[d] = conn[d] \/ conn'[d].state = "closed"
      BY <1>5 DEF DropClient, TypeOK, Outside
    <2>2. room'.running = room.running
      BY <1>5 DEF DropClient, LeaveRoom, TypeOK, Rooms
    <2> QED
      BY <1>5, <2>1, <2>2 DEF DropClient, Calm, CopiesStay, Copy
  <1>6. ASSUME NEW s \in Slots, BeginWait(s) \/ EndWait(s) \/ TakeOver(s) \/ HoldTakeOver(s)
        PROVE  Calm
    <2>1. CASE AiTakesSeat(s)
      BY <2>1, AiTakesSeatCalm
    <2>2. CASE ~AiTakesSeat(s)
      BY <1>6, <2>2 DEF BeginWait, EndWait, TakeOver, HoldTakeOver, Calm, CopiesStay, Copy
    <2> QED
      BY <2>1, <2>2
  <1>7. ASSUME NEW p \in Persons, GiveUp(p) PROVE Calm
    BY <1>7 DEF GiveUp, roomVars, Calm, CopiesStay, Copy, TypeOK, Peers
  <1>8. CASE CloseTick \/ WorkerRuns \/ UNCHANGED vars
    BY <1>8 DEF CloseTick, WorkerRuns, vars, roomVars, Calm, CopiesStay, Copy
  <1>9. CASE JobFails
    BY <1>9 DEF JobFails, Calm, CopiesStay, Copy, TypeOK, Rooms
  <1> QED
    BY <1>1, <1>2, <1>3, <1>4, <1>5, <1>6, <1>7, <1>8, <1>9 DEF Next

-----------------------------------------------------------------------------
(* Nothing is under way outside the game.                                  *)

LEMMA SameQuiet ==
  ASSUME Streams, NEW d \in Conns, room'.running => room.running,
         \/ conn'[d].state \in {"game", "closed", "bye"}
         \/ /\ conn'[d].state = conn[d].state
            /\ wire'[d] = wire[d] \/ wire'[d] = EmptyWire
            /\ d \in up' => d \in up
  PROVE  /\ conn'[d].state = "none" => wire'[d] = EmptyWire /\ d \notin up'
         /\ conn'[d].state = "lobby" /\ room'.running => wire'[d] = EmptyWire
  BY StreamParts DEF QuietOutside

\* Whoever is in the room, or is talked to, is no stranger to it.
LEMMA InRoomInGame ==
  ASSUME Streams, room.running, NEW c \in Conns
  PROVE  InRoom(c) <=> InGame(c)
  BY StreamParts, ConstantsAssumption
     DEF InRoom, SeatInv, SeatOwnership, Connected, Streams, TypeOK, Connections

LEMMA NextQuiet ==
  ASSUME Streams, [Next]_vars
  PROVE  OneConnection' /\ QuietOutside'
  <1> DEFINE Quiet(d) ==
        /\ conn[d].state = "none" => wire[d] = EmptyWire /\ d \notin up
        /\ conn[d].state = "lobby" /\ room.running => wire[d] = EmptyWire
  <1>1. TypeOK /\ SeatInv
    BY StreamParts
  <1>2. ASSUME \A d \in Conns : Quiet(d)', up' \subseteq up
        PROVE  OneConnection' /\ QuietOutside'
    BY <1>1, <1>2, StreamParts
       DEF OneConnection, QuietOutside, TypeOK, EmptyWire, NoOpener, Opener, NoToken
  <1>3. CASE Calm
    BY <1>2, <1>3, SameQuiet DEF Calm
  <1>4. CASE Teardown
    <2>1. ~room'.running /\ wire' = wire /\ up' = up
      BY <1>1, <1>4 DEF Teardown, TypeOK, Rooms
    <2>2. ASSUME NEW d \in Conns PROVE Quiet(d)'
      <3>1. conn'[d] = conn[d] \/ conn'[d].state \in {"lobby", "bye"}
        BY <1>4 DEF Teardown, Outside
      <3> QED
        BY <2>1, <3>1, SameQuiet
    <2> QED
      BY <1>2, <2>1, <2>2
  <1>5. ASSUME NEW beaten \in SUBSET {s \in Players : ~seat[s].defeated}, FinishTick(beaten)
        PROVE  OneConnection' /\ QuietOutside'
    <2>1. room.running /\ UNCHANGED <<room, conn, up>>
      BY <1>5, StreamParts DEF FinishTick, JobInRoom
    <2>2. ASSUME NEW d \in Conns PROVE Quiet(d)'
      <3>1. ~InGame(d) => wire'[d] = wire[d]
        BY <1>5, <2>1, InRoomInGame DEF FinishTick, Live
      <3> QED
        BY <2>1, <3>1, SameQuiet DEF InGame
    <2> QED
      BY <1>2, <2>1, <2>2
  <1>6. ASSUME NEW c \in Conns, LeaveGame(c) PROVE OneConnection' /\ QuietOutside'
    <2>1. /\ conn' = [conn EXCEPT ![c] = Outside("lobby")] /\ wire' = [wire EXCEPT ![c] = EmptyWire]
          /\ up' = up
      BY <1>6 DEF LeaveGame
    <2>2. room'.running = room.running
      BY <1>1, <1>6 DEF LeaveGame, LeaveRoom, TypeOK, Rooms
    <2>3. conn'[c].state = "lobby" /\ wire'[c] = EmptyWire
          /\ \A d \in Conns \ {c} : conn'[d] = conn[d] /\ wire'[d] = wire[d]
      BY <1>1, <2>1 DEF TypeOK, Outside
    <2>4. ASSUME NEW d \in Conns PROVE Quiet(d)'
      BY <2>1, <2>2, <2>3, SameQuiet
    <2> QED
      BY <1>2, <2>1, <2>4
  <1>7. ASSUME NEW c \in Conns, Connect(c) PROVE OneConnection' /\ QuietOutside'
    <2>1. /\ conn' = [conn EXCEPT ![c] = Outside("lobby")] /\ wire' = wire /\ room' = room
          /\ up' = up \cup {c} /\ \A d \in up : Owner[d] # Owner[c]
          /\ conn[c].state = "none"
      BY <1>7 DEF Connect, roomVars
    <2>2. conn'[c].state = "lobby" /\ wire'[c] = EmptyWire
          /\ \A d \in Conns \ {c} : conn'[d] = conn[d]
      BY <1>1, <2>1, StreamParts DEF TypeOK, Outside, QuietOutside
    <2>3. ASSUME NEW d \in Conns PROVE Quiet(d)'
      BY <2>1, <2>2, SameQuiet
    <2>4. OneConnection'
      BY <2>1, StreamParts DEF OneConnection
    <2> QED
      BY <2>3, <2>4 DEF QuietOutside, EmptyWire, NoOpener, Opener, NoToken
  <1>8. ASSUME NEW c \in Conns, Rejoin(c) PROVE OneConnection' /\ QuietOutside'
    <2>1. PICK s, r, o :
            /\ s \in Slots /\ r.state = "game"
            /\ conn' = [IF seat[s].client \in Conns THEN Unseated(conn, seat[s].client) ELSE conn
                         EXCEPT ![c] = r]
            /\ wire' = [wire EXCEPT ![c].opener = o]
      <3>1. PICK s \in Slots :
              /\ conn' = [IF seat[s].client \in Conns THEN Unseated(conn, seat[s].client) ELSE conn
                           EXCEPT ![c] =
                   [Outside("game") EXCEPT
                      !.slot = s, !.loaded = TRUE,
                      !.replaying = NextBundleTick(Owner[c]) < Tick,
                      !.replayPos = NextBundleTick(Owner[c]),
                      !.ackTick = IF NextBundleTick(Owner[c]) = 0 THEN 0
                                  ELSE NextBundleTick(Owner[c]) - 1]]
              /\ wire' = [wire EXCEPT ![c].opener = Opener("reseated", <<s, seat[s].token[2] + 1>>)]
        BY <1>8 DEF Rejoin
      <3>2. [Outside("game") EXCEPT
               !.slot = s, !.loaded = TRUE,
               !.replaying = NextBundleTick(Owner[c]) < Tick,
               !.replayPos = NextBundleTick(Owner[c]),
               !.ackTick = IF NextBundleTick(Owner[c]) = 0 THEN 0
                           ELSE NextBundleTick(Owner[c]) - 1].state = "game"
        BY DEF Outside
      <3> QED
        BY <3>1, <3>2
    <2>2. room' = room /\ up' = up
      BY <1>8 DEF Rejoin
    <2>3. conn'[c].state = "game"
          /\ \A d \in Conns \ {c} : conn'[d].state = "bye" \/ conn'[d] = conn[d]
      BY <1>1, <2>1 DEF TypeOK, Unseated, Outside
    <2>4. \A d \in Conns \ {c} : wire'[d] = wire[d]
      BY <1>1, <2>1 DEF TypeOK
    <2>5. ASSUME NEW d \in Conns PROVE Quiet(d)'
      BY <2>2, <2>3, <2>4, SameQuiet
    <2> QED
      BY <1>2, <2>2, <2>5
  <1>9. ASSUME NEW c \in Conns, RejoinRefused(c) PROVE OneConnection' /\ QuietOutside'
    <2>1. room' = room /\ conn' = conn /\ wire' = wire /\ up' = up \ {c}
      BY <1>9 DEF RejoinRefused, roomVars
    <2> QED
      BY <1>2, <2>1, SameQuiet
  <1>10. ASSUME NEW c \in Conns, Spectate(c) PROVE OneConnection' /\ QuietOutside'
    <2>1. /\ room.running /\ up' = up
          /\ conn' = [conn EXCEPT ![c] = [Outside("game") EXCEPT !.loaded = TRUE, !.replaying = TRUE]]
          /\ wire' = [wire EXCEPT ![c] = [EmptyWire EXCEPT !.opener = Opener("starting", NoToken)]]
      BY <1>10 DEF Spectate
    <2>2. conn'[c].state = "game"
          /\ \A d \in Conns \ {c} : conn'[d] = conn[d] /\ wire'[d] = wire[d]
      BY <1>1, <2>1 DEF TypeOK, Outside
    <2>3. ASSUME NEW d \in Conns PROVE Quiet(d)'
      BY <2>1, <2>2, SameQuiet
    <2> QED
      BY <1>2, <2>1, <2>3
  <1>11. ASSUME NEW c \in Conns, NEW n \in 0 .. MaxTicks, Feed(c, n) PROVE OneConnection' /\ QuietOutside'
    <2>1. room' = room /\ up' = up /\ InGame(c)
      BY <1>11 DEF Feed, roomVars
    <2>2. \A d \in Conns : conn'[d].state = conn[d].state /\ (d # c => wire'[d] = wire[d])
      BY <1>1, <1>11 DEF Feed, TypeOK, Connections
    <2>3. ASSUME NEW d \in Conns PROVE Quiet(d)'
      BY <2>1, <2>2, SameQuiet DEF InGame
    <2> QED
      BY <1>2, <2>1, <2>3
  <1>12. ASSUME NEW c \in Conns, ReadOpener(c) \/ ReadBundle(c) PROVE OneConnection' /\ QuietOutside'
    <2>1. /\ room' = room /\ conn' = conn /\ up' = up /\ c \in up
          /\ \A d \in Conns \ {c} : wire'[d] = wire[d]
      BY <1>1, <1>12 DEF ReadOpener, ReadBundle, roomVars, TypeOK
    <2>2. conn[c].state # "none" /\ (conn[c].state = "lobby" /\ room.running => wire[c] = EmptyWire)
      BY <2>1, StreamParts DEF QuietOutside
    <2>3. conn[c].state = "lobby" => ~room.running
      BY <1>12, <2>2 DEF ReadOpener, ReadBundle, EmptyWire, NoOpener, Opener
    <2>4. ASSUME NEW d \in Conns PROVE Quiet(d)'
      BY <2>1, <2>2, <2>3, SameQuiet
    <2> QED
      BY <1>2, <2>1, <2>4
  <1>13. ASSUME NEW c \in Conns, LinkBreaks(c) PROVE OneConnection' /\ QuietOutside'
    <2>1. /\ room' = room /\ conn' = conn /\ up' = up \ {c} /\ wire' = [wire EXCEPT ![c] = EmptyWire]
      BY <1>13 DEF LinkBreaks, roomVars
    <2>2. \A d \in Conns : wire'[d] = wire[d] \/ wire'[d] = EmptyWire
      BY <1>1, <2>1 DEF TypeOK
    <2> QED
      BY <1>2, <2>1, <2>2, SameQuiet
  <1> QED
    BY <1>1, <1>3, <1>4, <1>5, <1>6, <1>7, <1>8, <1>9, <1>10, <1>11, <1>12, <1>13, ConnSteps

-----------------------------------------------------------------------------
(* What is under way is what comes next.                                   *)

InStep(c) ==
  LET w == wire[c].bundles
  IN  /\ Holds(c) + Len(w) <= Len(log)
      /\ \A i \in 1 .. Len(w) : w[i] = log[Holds(c) + i]
      /\ InGame(c) => Holds(c) + Len(w) = Sent(c)

LEMMA HoldsType ==
  ASSUME TypeOK, NEW c \in Conns
  PROVE  Holds(c) \in Nat
  BY PartTypes DEF Holds, Copy

\* The number after the newest bundle a client holds is how many it holds.
LEMMA NextIsLen ==
  ASSUME Streams, NEW p \in Persons
  PROVE  NextBundleTick(p) = Len(Copy(p))
  <1>1. Copy(p) \in Seq(Bundles) /\ Len(Copy(p)) \in Nat /\ log \in Seq(Bundles) /\ Len(log) \in Nat
    BY PartTypes DEF Streams
  <1>2. Prefix(Copy(p), log)
    BY StreamParts DEF CopiesArePrefixes, Copy
  <1>3. CASE Copy(p) = <<>>
    BY <1>3 DEF NextBundleTick, Copy
  <1>4. CASE Copy(p) # <<>>
    <2> DEFINE n == Len(Copy(p))
    <2>1. n \in 1 .. Len(log) /\ Copy(p)[n] = log[n]
      BY <1>1, <1>2, <1>4, EmptySeq DEF Prefix
    <2>2. log[n].tick = n - 1
      BY <1>1, <2>1, StreamParts DEF LogNumbered
    <2>3. NextBundleTick(p) = Copy(p)[n].tick + 1
      BY <1>4 DEF NextBundleTick, Copy
    <2> QED
      BY <1>1, <2>1, <2>2, <2>3
  <1> QED
    BY <1>3, <1>4

\* A connection the step is not about.
LEMMA SameStream ==
  ASSUME Streams, NEW c \in Conns, c \in up,
         log' = log, wire'[c] = wire[c], Copy(Owner[c])' = Copy(Owner[c]),
         \/ conn'[c].state # "game"
         \/ UNCHANGED <<conn[c].state, conn[c].replaying, conn[c].replayPos>>
  PROVE  InStep(c)'
  <1>1. InStep(c)
    BY StreamParts DEF StreamInStep, InStep
  <1>2. Holds(c)' = Holds(c)
    BY DEF Holds, Copy
  <1>3. InGame(c)' => InGame(c) /\ Sent(c)' = Sent(c)
    BY DEF InGame, Sent
  <1> QED
    BY <1>1, <1>2, <1>3 DEF InStep

\* A connection nothing is under way to.
LEMMA EmptyStream ==
  ASSUME Streams, NEW c \in Conns,
         log' = log, wire'[c] = EmptyWire, Copy(Owner[c])' = Copy(Owner[c]),
         conn'[c].state # "game"
  PROVE  InStep(c)'
  <1>1. wire'[c].bundles = <<>> /\ wire'[c].opener.kind = "none"
    BY DEF EmptyWire, NoOpener, Opener
  <1>2. Holds(c)' = Len(Copy(Owner[c]))
    BY <1>1 DEF Holds, Copy
  <1>3. Len(Copy(Owner[c])) <= Len(log) /\ Len(Copy(Owner[c])) \in Nat /\ Len(log) \in Nat
    BY StreamParts, PartTypes DEF CopiesArePrefixes, Copy, Prefix, Streams
  <1> QED
    BY <1>1, <1>2, <1>3 DEF InStep, InGame

LEMMA PhaseOnly ==
  ASSUME TypeOK, NEW p \in Persons, NEW phase, log' = log,
         peer' = [peer EXCEPT ![p].phase = phase]
  PROVE  CopiesStay
  BY DEF CopiesStay, Copy, TypeOK, Peers

\* The part of a log from one position to another.
LEMMA SubSeqIsPart ==
  ASSUME NEW S, NEW s \in Seq(S), NEW from \in Nat, NEW n \in from .. Len(s)
  PROVE  /\ SubSeq(s, from + 1, n) \in Seq(S)
         /\ Len(SubSeq(s, from + 1, n)) = n - from
         /\ \A i \in 1 .. n - from : SubSeq(s, from + 1, n)[i] = s[from + i]
  <1>1. n \in Int /\ Len(s) \in Nat /\ from + 1 \in Int /\ n <= Len(s) /\ from <= n
    BY LenProperties
  <1>2. \A i \in from + 1 .. n : s[i] \in S
    <2> SUFFICES ASSUME NEW i \in from + 1 .. n PROVE s[i] \in S
      OBVIOUS
    <2>1. i \in 1 .. Len(s)
      BY <1>1
    <2> QED
      BY <2>1, ElementOfSeq
  <1> DEFINE part == SubSeq(s, from + 1, n)
  <1>3. /\ part \in Seq(S)
        /\ Len(part) = IF from + 1 <= n THEN n - (from + 1) + 1 ELSE 0
        /\ \A i \in 1 .. n - (from + 1) + 1 : part[i] = s[from + 1 + i - 1]
    BY <1>1, <1>2, SubSeqProperties
  <1> HIDE DEF part
  <1>4. Len(part) = n - from
    BY <1>1, <1>3
  <1>5. ASSUME NEW i \in 1 .. n - from PROVE part[i] = s[from + i]
    <2>1. i \in 1 .. n - (from + 1) + 1 /\ from + 1 + i - 1 = from + i
      BY <1>1
    <2>2. part[i] = s[from + 1 + i - 1]
      BY <1>3, <2>1
    <2> QED
      BY <2>1, <2>2
  <1>6. QED
    BY <1>3, <1>4, <1>5 DEF part

LEMMA NextStreams ==
  ASSUME Streams, [Next]_vars
  PROVE  StreamInStep'
  <1>1. TypeOK /\ SeatInv /\ Streams
    BY StreamParts
  <1>2. ASSUME \A d \in Conns : d \in up' => InStep(d)' PROVE StreamInStep'
    <2>1. up' \in SUBSET Conns
      BY <1>1, NextType DEF SeatInv, TypeOK
    <2> QED
      BY <1>2, <2>1 DEF StreamInStep, InStep
  <1>3. log \in Seq(Bundles) /\ Len(log) \in Nat
        /\ \A c \in Conns : /\ Owner[c] \in Persons /\ Copy(Owner[c]) \in Seq(Bundles)
                            /\ wire[c].bundles \in Seq(Bundles) /\ Len(wire[c].bundles) \in Nat
                            /\ wire[c] \in Wires /\ conn[c] \in Connections
                            /\ conn[c].replayPos \in Nat /\ Holds(c) \in Nat
    BY <1>1, PartTypes, HoldsType
  <1>4. CASE Calm
    BY <1>1, <1>2, <1>3, <1>4, SameStream DEF Calm, CopiesStay
  <1>5. CASE Teardown
    <2>1. UNCHANGED <<up, log, wire, peer>> /\ \A d \in Conns : conn'[d].state # "game"
      BY <1>5 DEF Teardown, Outside, InGame
    <2> QED
      BY <1>1, <1>2, <1>3, <2>1, SameStream DEF Copy
  <1>6. ASSUME NEW beaten \in SUBSET {s \in Players : ~seat[s].defeated}, FinishTick(beaten)
        PROVE  StreamInStep'
    <2> DEFINE bundle == [tick |-> Tick, events |-> job.events, ais |-> job.ais]
    <2>1. /\ room.running /\ UNCHANGED <<room, conn, up, peer>>
          /\ log' = Append(log, bundle)
          /\ wire' = [c \in Conns |->
                IF Live(c) THEN [wire[c] EXCEPT !.bundles = Append(@, bundle)] ELSE wire[c]]
      BY <1>6, StreamParts DEF FinishTick, JobInRoom
    <2>2. bundle \in Bundles
      BY <1>1 DEF TypeOK, Jobs, Bundles, Tick
    <2> HIDE DEF bundle
    <2>3. /\ Len(log') = Len(log) + 1 /\ \A i \in 1 .. Len(log) : log'[i] = log[i]
          /\ log'[Len(log) + 1] = bundle
      BY <1>3, <2>1, <2>2, AppendProperties
    <2>4. ASSUME NEW d \in Conns, d \in up PROVE InStep(d)'
      <3>1. InStep(d)
        BY <2>4, StreamParts DEF StreamInStep, InStep
      <3>2. Live(d) <=> InGame(d) /\ ~conn[d].replaying
        BY <1>1, <2>1, <2>4, InRoomInGame DEF Live
      <3>3. CASE Live(d)
        <4> DEFINE w == wire[d].bundles
                   v == Append(w, bundle)
                   h == Holds(d)
        <4>1. wire'[d].bundles = v /\ wire'[d].opener = wire[d].opener
          BY <1>3, <2>1, <3>3 DEF Wires
        <4>2. Holds(d)' = h
          BY <2>1, <4>1 DEF Holds
        <4>3. Len(v) = Len(w) + 1 /\ (\A i \in 1 .. Len(w) : v[i] = w[i]) /\ v[Len(w) + 1] = bundle
          BY <1>3, <2>2, AppendProperties
        <4>4. h + Len(w) = Len(log) /\ \A i \in 1 .. Len(w) : w[i] = log[h + i]
          BY <3>1, <3>2, <3>3 DEF InStep, Sent
        <4>5. Sent(d)' = Len(log) + 1
          BY <2>1, <2>3, <3>2, <3>3 DEF Sent
        <4>6. h \in Nat /\ Len(w) \in Nat
          BY <1>3
        <4> HIDE DEF w, v, h
        <4>7. h + Len(v) = Len(log')
          BY <2>3, <4>3, <4>4, <4>6
        <4>8. ASSUME NEW i \in 1 .. Len(v) PROVE v[i] = log'[h + i]
          <5>1. CASE i \in 1 .. Len(w)
            <6>1. v[i] = log[h + i] /\ h + i \in 1 .. Len(log)
              BY <1>3, <4>3, <4>4, <4>6, <5>1
            <6> QED
              BY <2>3, <6>1
          <5>2. CASE i = Len(w) + 1
            <6>1. h + i = Len(log) + 1
              BY <1>3, <2>3, <4>3, <4>6, <4>7, <5>2
            <6> QED
              BY <2>3, <4>3, <5>2, <6>1
          <5> QED
            BY <4>3, <4>6, <4>8, <5>1, <5>2
        <4>9. h + Len(v) <= Len(log') /\ h + Len(v) = Len(log) + 1
          BY <1>3, <2>3, <4>7
        <4> QED
          BY <4>1, <4>2, <4>5, <4>8, <4>9 DEF InStep
      <3>4. CASE ~Live(d)
        <4>1. wire'[d] = wire[d] /\ Holds(d)' = Holds(d) /\ (InGame(d)' => InGame(d) /\ Sent(d)' = Sent(d))
          BY <2>1, <3>2, <3>4 DEF Holds, Sent, InGame
        <4> DEFINE w == wire[d].bundles
                   h == Holds(d)
        <4>2. h \in Nat /\ Len(w) \in Nat /\ h + Len(w) <= Len(log)
              /\ (\A i \in 1 .. Len(w) : w[i] = log[h + i]) /\ (InGame(d) => h + Len(w) = Sent(d))
          BY <1>3, <3>1 DEF InStep
        <4>3. Holds(d)' = h /\ wire'[d].bundles = w
          BY <4>1
        <4> HIDE DEF w, h
        <4>4. h + Len(w) <= Len(log')
          BY <1>3, <2>3, <4>2
        <4>5. \A i \in 1 .. Len(w) : w[i] = log'[h + i]
          <5> SUFFICES ASSUME NEW i \in 1 .. Len(w) PROVE w[i] = log'[h + i]
            OBVIOUS
          <5>1. h + i \in 1 .. Len(log)
            BY <1>3, <4>2
          <5> QED
            BY <2>3, <4>2, <5>1
        <4> QED
          BY <4>1, <4>2, <4>3, <4>4, <4>5 DEF InStep
      <3> QED
        BY <3>3, <3>4
    <2> QED
      BY <1>2, <2>1, <2>4
  <1>7. ASSUME NEW c \in Conns, LeaveGame(c) PROVE StreamInStep'
    <2>1. /\ conn' = [conn EXCEPT ![c] = Outside("lobby")] /\ wire' = [wire EXCEPT ![c] = EmptyWire]
          /\ up' = up /\ log' = log /\ peer' = [peer EXCEPT ![Owner[c]].phase = "away"]
      BY <1>7 DEF LeaveGame
    <2>2. conn'[c].state # "game" /\ wire'[c] = EmptyWire
          /\ \A d \in Conns \ {c} : conn'[d] = conn[d] /\ wire'[d] = wire[d]
      BY <1>1, <2>1 DEF TypeOK, Outside
    <2>3. CopiesStay
      BY <1>1, <1>3, <2>1, PhaseOnly
    <2>4. InStep(c)'
      BY <1>1, <1>3, <2>1, <2>2, <2>3, EmptyStream DEF CopiesStay
    <2>5. ASSUME NEW d \in Conns \ {c}, d \in up PROVE InStep(d)'
      BY <1>1, <1>3, <2>1, <2>2, <2>3, <2>5, SameStream DEF CopiesStay
    <2> QED
      BY <1>2, <2>1, <2>4, <2>5
  <1>8. ASSUME NEW c \in Conns, Connect(c) PROVE StreamInStep'
    <2>1. /\ conn' = [conn EXCEPT ![c] = Outside("lobby")] /\ wire' = wire /\ log' = log
          /\ up' = up \cup {c} /\ peer' = peer /\ conn[c].state = "none"
      BY <1>8 DEF Connect, roomVars
    <2>2. conn'[c].state # "game" /\ wire'[c] = EmptyWire
          /\ \A d \in Conns \ {c} : conn'[d] = conn[d]
      BY <1>1, <2>1, StreamParts DEF TypeOK, Outside, QuietOutside
    <2>3. InStep(c)'
      BY <1>1, <2>1, <2>2, EmptyStream DEF Copy
    <2>4. ASSUME NEW d \in Conns \ {c}, d \in up PROVE InStep(d)'
      BY <1>1, <2>1, <2>2, <2>4, SameStream DEF Copy
    <2> QED
      BY <1>2, <2>1, <2>3, <2>4
  <1>9. ASSUME NEW c \in Conns, Rejoin(c) PROVE StreamInStep'
    <2> DEFINE from == NextBundleTick(Owner[c])
    <2>1. PICK s, ack :
            /\ s \in Slots
            /\ conn' = [IF seat[s].client \in Conns THEN Unseated(conn, seat[s].client) ELSE conn
                         EXCEPT ![c] =
                  [Outside("game") EXCEPT !.slot = s, !.loaded = TRUE, !.replaying = from < Tick,
                                          !.replayPos = from, !.ackTick = ack]]
            /\ wire' = [wire EXCEPT ![c].opener = Opener("reseated", <<s, seat[s].token[2] + 1>>)]
            /\ from <= Tick
      BY <1>9 DEF Rejoin
    <2>2. /\ UNCHANGED <<up, log, peer>> /\ room.running /\ conn[c].state = "lobby" /\ c \in up
      BY <1>9 DEF Rejoin, Asks, Talks
    <2>3. from = Len(Copy(Owner[c])) /\ from \in Nat
      BY <1>1, <1>3, NextIsLen, PartTypes
    <2> HIDE DEF from
    <2>4. conn'[c].replaying = (from < Tick) /\ conn'[c].replayPos = from
      BY <1>1, <2>1 DEF TypeOK, Unseated, Outside
    <2>5. \A d \in Conns \ {c} : conn'[d].state = "bye" \/ conn'[d] = conn[d]
      BY <1>1, <2>1 DEF TypeOK, Unseated, Outside
    <2>6. \A d \in Conns \ {c} : wire'[d] = wire[d]
      BY <1>1, <2>1 DEF TypeOK
    <2>7. wire'[c].bundles = <<>> /\ wire'[c].opener.kind = "reseated"
      <3>1. wire[c] = EmptyWire
        BY <2>2, StreamParts DEF QuietOutside
      <3> QED
        BY <1>1, <1>3, <2>1, <3>1 DEF TypeOK, Wires, EmptyWire, Opener
    <2>8. Holds(c)' = from
      BY <2>2, <2>3, <2>7 DEF Holds, Copy
    <2>9. InStep(c)'
      <3>1. Sent(c)' = from
        <4>1. CASE from < Len(log)
          BY <2>4, <4>1 DEF Sent, Tick
        <4>2. CASE ~(from < Len(log))
          <5>1. from = Len(log)
            BY <1>3, <2>1, <2>3, <4>2 DEF Tick
          <5>2. ~conn'[c].replaying /\ Len(log') = Len(log)
            BY <2>2, <2>4, <4>2 DEF Tick
          <5> QED
            BY <5>1, <5>2 DEF Sent
        <4> QED
          BY <4>1, <4>2
      <3>2. wire'[c].bundles = <<>> /\ Len(<<>>) = 0 /\ log' = log
        BY <2>2, <2>7
      <3>3. from + 0 = from /\ from <= Len(log)
        BY <2>1, <2>3 DEF Tick
      <3>4. Holds(c)' + Len(wire'[c].bundles) = from
        BY <2>8, <3>2, <3>3
      <3>5. \A i \in 1 .. Len(wire'[c].bundles) : FALSE
        BY <3>2
      <3> QED
        BY <3>1, <3>2, <3>3, <3>4, <3>5 DEF InStep
    <2>10. ASSUME NEW d \in Conns \ {c}, d \in up PROVE InStep(d)'
      BY <1>1, <2>2, <2>5, <2>6, <2>10, SameStream DEF Copy
    <2> QED
      BY <1>2, <2>2, <2>9, <2>10
  <1>10. ASSUME NEW c \in Conns, RejoinRefused(c) PROVE StreamInStep'
    <2>1. UNCHANGED <<conn, wire, log>> /\ up' = up \ {c}
          /\ peer' = [peer EXCEPT ![Owner[c]].phase = "away"]
      BY <1>10 DEF RejoinRefused, roomVars
    <2>2. CopiesStay
      BY <1>1, <1>3, <2>1, PhaseOnly
    <2> QED
      BY <1>1, <1>2, <1>3, <2>1, <2>2, SameStream DEF CopiesStay
  <1>11. ASSUME NEW c \in Conns, Spectate(c) PROVE StreamInStep'
    <2>1. /\ UNCHANGED <<up, log, peer>>
          /\ conn' = [conn EXCEPT ![c] = [Outside("game") EXCEPT !.loaded = TRUE, !.replaying = TRUE]]
          /\ wire' = [wire EXCEPT ![c] = [EmptyWire EXCEPT !.opener = Opener("starting", NoToken)]]
      BY <1>11 DEF Spectate
    <2>2. /\ conn'[c].replaying /\ conn'[c].replayPos = 0
          /\ wire'[c].bundles = <<>> /\ wire'[c].opener.kind = "starting"
          /\ \A d \in Conns \ {c} : conn'[d] = conn[d] /\ wire'[d] = wire[d]
      BY <1>1, <2>1 DEF TypeOK, Outside, EmptyWire, Opener
    <2>3. Holds(c)' = 0 /\ Sent(c)' = 0
      BY <2>2 DEF Holds, Sent
    <2>4. InStep(c)'
      BY <1>3, <2>1, <2>2, <2>3 DEF InStep
    <2>5. ASSUME NEW d \in Conns \ {c}, d \in up PROVE InStep(d)'
      BY <1>1, <2>1, <2>2, <2>5, SameStream DEF Copy
    <2> QED
      BY <1>2, <2>1, <2>4, <2>5
  <1>12. ASSUME NEW c \in Conns, NEW n \in 0 .. MaxTicks, Feed(c, n) PROVE StreamInStep'
    <2> DEFINE from == conn[c].replayPos
               w == wire[c].bundles
               part == SubSeq(log, from + 1, n)
    <2>1. /\ UNCHANGED <<up, log, peer>> /\ conn[c].replaying /\ InGame(c) /\ n \in from .. Len(log)
          /\ conn' = [conn EXCEPT ![c].replayPos = n, ![c].replaying = n < Len(log)]
          /\ wire' = [wire EXCEPT ![c].bundles = IF c \in up THEN @ \o part ELSE @]
      BY <1>12 DEF Feed, roomVars, Tick
    <2>2. /\ conn'[c].replayPos = n /\ conn'[c].replaying = (n < Len(log))
          /\ \A d \in Conns \ {c} : conn'[d] = conn[d] /\ wire'[d] = wire[d]
      BY <1>1, <1>3, <2>1 DEF TypeOK, Connections
    <2>3. ASSUME c \in up PROVE InStep(c)'
      <3>1. wire'[c].bundles = w \o part /\ wire'[c].opener = wire[c].opener
        BY <1>1, <1>3, <2>1, <2>3 DEF TypeOK, Wires
      <3>2. Holds(c)' = Holds(c)
        BY <2>1, <3>1 DEF Holds
      <3>3. Sent(c)' = n
        <4>1. n \in Nat /\ n <= Len(log)
          BY <1>3, <2>1
        <4>2. CASE n < Len(log)
          BY <2>2, <4>2 DEF Sent
        <4>3. CASE ~(n < Len(log))
          <5>1. n = Len(log)
            BY <1>3, <4>1, <4>3
          <5> QED
            BY <2>1, <2>2, <4>3, <5>1 DEF Sent
        <4> QED
          BY <4>2, <4>3
      <3>4. Holds(c) + Len(w) = from /\ \A i \in 1 .. Len(w) : w[i] = log[Holds(c) + i]
        BY <2>1, <2>3, StreamParts DEF StreamInStep, Sent
      <3>5. Holds(c) \in Nat /\ from \in Nat /\ w \in Seq(Bundles) /\ n \in from .. Len(log)
        BY <1>3, <2>1
      <3> DEFINE h == Holds(c)
                 v == w \o part
      <3> HIDE DEF w, from, h
      <3>6. Len(v) \in Nat /\ h + Len(v) = n /\ \A i \in 1 .. Len(v) : v[i] = log[h + i]
        <4>1. log \in Seq(Bundles) /\ Len(w) \in Nat
          BY <1>3 DEF w
        <4>2. h \in Nat /\ h + Len(w) = from /\ \A i \in 1 .. Len(w) : w[i] = log[h + i]
          BY <3>4, <3>5 DEF h
        <4> HIDE DEF part
        <4>3. /\ part \in Seq(Bundles) /\ Len(part) = n - from
              /\ \A i \in 1 .. n - from : part[i] = log[from + i]
          BY <3>5, <4>1, SubSeqIsPart DEF part
        <4>4. /\ Len(v) = Len(w) + Len(part)
              /\ \A i \in 1 .. Len(w) + Len(part) :
                   v[i] = IF i <= Len(w) THEN w[i] ELSE part[i - Len(w)]
          <5>1. w \in Seq(Bundles)
            BY <3>5
          <5>2. /\ Len(w \o part) = Len(w) + Len(part)
                /\ \A i \in 1 .. Len(w) + Len(part) :
                     (w \o part)[i] = IF i <= Len(w) THEN w[i] ELSE part[i - Len(w)]
            BY ONLY <4>3, <5>1, ConcatProperties
          <5> QED
            BY <5>2, Zenon
        <4> HIDE DEF v
        <4>5. n \in Int /\ from <= n /\ from \in Nat
          BY <1>3, <3>5
        <4> DEFINE a == Len(w)
                   b == Len(part)
        <4>6. a \in Nat /\ b = n - from /\ h + a = from
          BY <4>1, <4>2, <4>3
        <4>7. /\ \A i \in 1 .. a : w[i] = log[h + i]
              /\ \A i \in 1 .. b : part[i] = log[h + a + i]
              /\ \A i \in 1 .. a + b : v[i] = IF i <= a THEN w[i] ELSE part[i - a]
              /\ Len(v) = a + b
          BY <4>2, <4>3, <4>4
        <4> HIDE DEF a, b
        <4>8. b \in Nat /\ h + (a + b) = n /\ a + b \in Nat
          BY <4>2, <4>5, <4>6
        <4>9. \A i \in 1 .. a + b : v[i] = log[h + i]
          <5> SUFFICES ASSUME NEW i \in 1 .. a + b PROVE v[i] = log[h + i]
            OBVIOUS
          <5>1. CASE i <= a
            <6>1. i \in 1 .. a /\ v[i] = w[i]
              BY <4>6, <4>7, <4>8, <5>1
            <6> QED
              BY <4>7, <6>1
          <5>2. CASE ~(i <= a)
            <6>1. i - a \in 1 .. b /\ h + a + (i - a) = h + i /\ v[i] = part[i - a]
              BY <4>2, <4>6, <4>7, <4>8, <5>2, SMTT(30)
            <6>2. part[i - a] = log[h + a + (i - a)]
              BY <4>7, <6>1
            <6> QED
              BY <6>1, <6>2
          <5> QED
            BY <5>1, <5>2
        <4> QED
          BY <4>7, <4>8, <4>9
      <3>7. n <= Len(log)
        BY <1>3, <3>5
      <3> HIDE DEF v, part
      <3>8. Holds(c)' = h /\ wire'[c].bundles = v /\ log' = log
        BY <2>1, <3>1, <3>2 DEF h, v
      <3> QED
        BY <3>3, <3>6, <3>7, <3>8 DEF InStep
    <2>4. ASSUME NEW d \in Conns \ {c}, d \in up PROVE InStep(d)'
      BY <1>1, <2>1, <2>2, <2>4, SameStream DEF Copy
    <2> QED
      BY <1>2, <2>1, <2>3, <2>4
  <1>13. ASSUME NEW c \in Conns, ReadOpener(c) PROVE StreamInStep'
    <2>1. /\ UNCHANGED <<up, log, conn>> /\ c \in up
          /\ wire' = [wire EXCEPT ![c].opener = NoOpener]
      BY <1>13 DEF ReadOpener, roomVars
    <2>2. /\ wire'[c].bundles = wire[c].bundles /\ wire'[c].opener.kind = "none"
          /\ \A d \in Conns \ {c} : wire'[d] = wire[d]
      BY <1>1, <1>3, <2>1 DEF TypeOK, Wires, NoOpener, Opener
    <2>3. Holds(c)' = Holds(c) /\ \A q \in Persons : q # Owner[c] => Copy(q)' = Copy(q)
      <3>1. CASE wire[c].opener.kind = "starting"
        BY <1>1, <1>13, <2>2, <3>1, CopyStartsOver DEF Holds, Copy
      <3>2. CASE wire[c].opener.kind # "starting"
        <4>1. wire[c].opener.kind = "reseated"
          BY <1>1, <1>13, <3>2, PartTypes DEF ReadOpener, Openers
        <4>2. peer' = [peer EXCEPT ![Owner[c]] = [@ EXCEPT !.phase = "playing", !.token = wire[c].opener.token]]
          BY <1>13, <4>1 DEF ReadOpener
        <4>3. \A q \in Persons : Copy(q)' = Copy(q)
          BY <4>2, <1>1 DEF Copy, TypeOK, Peers
        <4> QED
          BY <1>3, <2>2, <3>2, <4>3 DEF Holds, Copy
      <3> QED
        BY <3>1, <3>2
    <2>4. InStep(c)'
      <3>1. InStep(c)
        BY <2>1, StreamParts DEF StreamInStep, InStep
      <3>2. Sent(c)' = Sent(c)
        BY <2>1 DEF Sent
      <3> QED
        BY <2>1, <2>2, <2>3, <3>1, <3>2 DEF InStep, InGame
    <2>5. ASSUME NEW d \in Conns \ {c}, d \in up PROVE InStep(d)'
      <3>1. Owner[d] # Owner[c]
        BY <2>1, <2>5, StreamParts DEF OneConnection
      <3> QED
        BY <1>1, <1>3, <2>1, <2>2, <2>3, <2>5, <3>1, SameStream
    <2> QED
      BY <1>2, <2>1, <2>4, <2>5
  <1>14. ASSUME NEW c \in Conns, ReadBundle(c) PROVE StreamInStep'
    <2> DEFINE w == wire[c].bundles
    <2>1. /\ UNCHANGED <<up, log, conn>> /\ c \in up /\ w # <<>> /\ wire[c].opener.kind = "none"
          /\ wire' = [wire EXCEPT ![c].bundles = Tail(@)]
      BY <1>14 DEF ReadBundle, roomVars
    <2>2. /\ wire'[c].bundles = Tail(w) /\ wire'[c].opener = wire[c].opener
          /\ \A d \in Conns \ {c} : wire'[d] = wire[d]
      BY <1>1, <1>3, <2>1 DEF TypeOK, Wires
    <2>3. /\ Len(Copy(Owner[c])) < Len(log)
          /\ Copy(Owner[c])' = Append(Copy(Owner[c]), log[Len(Copy(Owner[c])) + 1])
          /\ \A q \in Persons : q # Owner[c] => Copy(q)' = Copy(q)
      BY <1>1, <1>14, NextBundleRead
    <2>4. Holds(c)' = Holds(c) + 1
      <3>1. log[Len(Copy(Owner[c])) + 1] \in Bundles
        BY <1>1, <1>3, <2>3, ElementOfSeq, PartTypes
      <3>2. Len(Copy(Owner[c])') = Len(Copy(Owner[c])) + 1
        BY <1>3, <2>3, <3>1, AppendProperties
      <3> QED
        BY <2>1, <2>2, <3>2 DEF Holds, Copy
    <2>5. InStep(c)'
      <3>1. InStep(c)
        BY <2>1, StreamParts DEF StreamInStep, InStep
      <3>2. Sent(c)' = Sent(c)
        BY <2>1 DEF Sent
      <3>3. Len(Tail(w)) = Len(w) - 1 /\ \A i \in 1 .. Len(w) - 1 : Tail(w)[i] = w[i + 1]
        BY <1>3, <2>1, HeadTailProperties
      <3> DEFINE h == Holds(c)
      <3>4. h \in Nat /\ Len(w) \in Nat
        BY <1>3
      <3>5. /\ h + Len(w) <= Len(log) /\ (\A i \in 1 .. Len(w) : w[i] = log[h + i])
            /\ InGame(c) => h + Len(w) = Sent(c)
        BY <3>1 DEF InStep
      <3> HIDE DEF h, w
      <3>6. \A i \in 1 .. Len(w) - 1 : Tail(w)[i] = log[h + 1 + i]
        <4> SUFFICES ASSUME NEW i \in 1 .. Len(w) - 1 PROVE Tail(w)[i] = log[h + 1 + i]
          OBVIOUS
        <4>1. i + 1 \in 1 .. Len(w) /\ h + (i + 1) = h + 1 + i
          BY <3>4
        <4>2. Tail(w)[i] = w[i + 1] /\ w[i + 1] = log[h + (i + 1)]
          BY <3>3, <3>5, <4>1
        <4> QED
          BY <4>1, <4>2
      <3>7. h + 1 + Len(Tail(w)) = h + Len(w)
        <4>1. \A k \in Nat : h + 1 + (k - 1) = h + k
          BY <3>4
        <4> QED
          BY <3>3, <3>4, <4>1
      <3> QED
        BY <2>1, <2>2, <2>4, <3>2, <3>3, <3>5, <3>6, <3>7 DEF InStep, InGame, h
    <2>6. ASSUME NEW d \in Conns \ {c}, d \in up PROVE InStep(d)'
      <3>1. Owner[d] # Owner[c]
        BY <2>1, <2>6, StreamParts DEF OneConnection
      <3> QED
        BY <1>1, <1>3, <2>1, <2>2, <2>3, <2>6, <3>1, SameStream
    <2> QED
      BY <1>2, <2>1, <2>5, <2>6
  <1>15. ASSUME NEW c \in Conns, LinkBreaks(c) PROVE StreamInStep'
    <2>1. PICK phase : UNCHANGED <<conn, log>> /\ up' = up \ {c} /\ wire' = [wire EXCEPT ![c] = EmptyWire]
                       /\ peer' = [peer EXCEPT ![Owner[c]].phase = phase]
      BY <1>15 DEF LinkBreaks, roomVars
    <2>2. CopiesStay
      BY <1>1, <1>3, <2>1, PhaseOnly
    <2>3. ASSUME NEW d \in Conns, d \in up' PROVE InStep(d)'
      <3>1. d \in up /\ wire'[d] = wire[d]
        BY <1>1, <2>1, <2>3 DEF TypeOK
      <3> QED
        BY <1>1, <1>3, <2>1, <2>2, <3>1, SameStream DEF CopiesStay
    <2> QED
      BY <1>2, <2>3
  <1> QED
    BY <1>1, <1>4, <1>5, <1>6, <1>7, <1>8, <1>9, <1>10, <1>11, <1>12, <1>13, <1>14, <1>15, ConnSteps

-----------------------------------------------------------------------------
(* The streams hold in every state of the room.                            *)

LEMMA InitStreams == Init => StreamInv
  <1> SUFFICES ASSUME Init PROVE StreamInv
    OBVIOUS
  <1>1. SeatInv
    BY InitSeats
  <1>2. JobInRoom
    BY DEF Init, JobInRoom, NoJob
  <1>3. log = <<>> /\ Len(log) = 0 /\ DOMAIN log = {}
    BY DEF Init
  <1>4. LogNumbered
    BY <1>3 DEF LogNumbered
  <1>5. \A p \in Persons : peer[p].replayLog = <<>>
    BY DEF Init
  <1>6. CopiesArePrefixes
    BY <1>3, <1>5 DEF CopiesArePrefixes, Prefix
  <1>7. OneConnection
    <2>1. \A p \in Players : Seated[p] \in Conns /\ Owner[Seated[p]] = p /\ p \notin Watchers
      BY ConstantsAssumption DEF Players
    <2>2. \A c \in StartWatchers : c \in Conns /\ Owner[c] \in Watchers
      BY ConstantsAssumption
    <2>3. up = {Seated[p] : p \in Players} \cup StartWatchers
      BY DEF Init
    <2> QED
      BY <2>1, <2>2, <2>3, ConstantsAssumption DEF OneConnection
  <1>8. QuietOutside
    <2> SUFFICES ASSUME NEW c \in Conns
                 PROVE  /\ conn[c].state = "none" => wire[c] = EmptyWire /\ c \notin up
                        /\ conn[c].state = "lobby" /\ room.running => wire[c] = EmptyWire
      BY DEF QuietOutside
    <2>1. CASE (\E p \in Players : Seated[p] = c) \/ c \in StartWatchers
      BY <2>1 DEF Init, Outside
    <2>2. CASE ~(\E p \in Players : Seated[p] = c) /\ c \notin StartWatchers
      BY <2>2 DEF Init, Outside
    <2> QED
      BY <2>1, <2>2
  <1>9. StreamInStep
    <2> SUFFICES ASSUME NEW c \in up PROVE InStep(c)
      BY DEF StreamInStep, InStep
    <2>1. c \in Conns /\ Owner[c] \in Persons
      BY InitType, ConstantsAssumption DEF TypeOK
    <2>2. wire[c].bundles = <<>> /\ ~conn[c].replaying
      BY <2>1 DEF Init, EmptyWire, Outside
    <2>3. Holds(c) = 0 /\ Sent(c) = 0
      BY <1>3, <1>5, <2>1, <2>2 DEF Holds, Sent
    <2> QED
      BY <1>3, <2>2, <2>3 DEF InStep
  <1> QED
    BY <1>1, <1>2, <1>4, <1>6, <1>7, <1>8, <1>9 DEF StreamInv, SeatInv

LEMMA NextStreamInv == Streams /\ [Next]_vars => Streams'
  <1> SUFFICES ASSUME Streams, [Next]_vars PROVE Streams'
    OBVIOUS
  <1>1. TypeOK /\ SeatInv /\ JobInRoom
    BY StreamParts
  <1>2. TypeOK'
    BY <1>1, NextType DEF SeatInv
  <1>3. SeatInv'
    BY <1>1, NextSeats
  <1>4. JobInRoom'
    BY <1>1, NextJob
  <1>5. LogNumbered' /\ CopiesArePrefixes' /\ OneConnection' /\ QuietOutside' /\ StreamInStep'
    BY NextCopies, NextQuiet, NextStreams
  <1> QED
    BY <1>2, <1>3, <1>4, <1>5 DEF Streams, StreamInv, SeatInv

LEMMA StreamsHold == Spec => []Streams
  <1>1. Init => Streams
    BY InitType, InitStreams DEF Streams
  <1> QED
    BY <1>1, NextStreamInv, PTL DEF Spec

\* The streams of a room and its seats stay in step with its log.
THEOREM StreamsInStep == Spec => []StreamInv
  <1>1. Streams => StreamInv
    BY DEF Streams
  <1> QED
    BY <1>1, StreamsHold, PTL

-----------------------------------------------------------------------------
(* The room implements Lockstep.                                           *)

Copies == [p \in Persons |-> peer[p].replayLog]
Fates == [s \in Slots |-> seat[s].type]
Owed == job.events \o pending

\* Lockstep's actions, seen in the room.
LEMMA SeenInit == L!Init <=> /\ log = <<>> /\ Copies = [p \in Persons |-> <<>>]
                             /\ Fates = [s \in Slots |-> IF s \in AiStart THEN "ai" ELSE "human"]
                             /\ Owed = <<>> /\ room.error = FALSE
  BY DEF L!Init, Copies, Fates, Owed

LEMMA SeenNothing ==
  log' = log /\ Copies' = Copies /\ Fates' = Fates /\ Owed' = Owed /\ room'.error = room.error
  => UNCHANGED L!vars
  BY DEF L!vars, Copies, Fates, Owed

LEMMA SeenDepart ==
  ASSUME NEW s \in Slots, Fates[s] = "human",
         \/ Fates' = [Fates EXCEPT ![s] = "closed"] /\ Owed' = Append(Owed, Event("Leave", s))
         \/ Fates' = [Fates EXCEPT ![s] = "ai"] /\ Owed' = Append(Owed, Event("AiTakeover", s)),
         log' = log, Copies' = Copies, room'.error = room.error
  PROVE  L!Next
  BY DEF L!Next, L!Depart, L!Departure, Event, Copies, Fates, Owed

LEMMA SeenPublish ==
  ASSUME NEW bundle, ~room.error, log' = Append(log, bundle), log' # <<>>, log'[Len(log')] = bundle,
         bundle.tick = Len(log), Owed = bundle.events \o Owed',
         Copies' = Copies, Fates' = Fates, room'.error = room.error
  PROVE  L!Next
  BY DEF L!Next, L!Publish, Copies, Fates, Owed

LEMMA SeenReceive ==
  ASSUME NEW p \in Persons,
         \/ /\ Len(Copies[p]) < Len(log)
            /\ Copies' = [Copies EXCEPT ![p] = Append(@, log[Len(@) + 1])]
         \/ Copies' = [Copies EXCEPT ![p] = <<>>],
         log' = log, Fates' = Fates, Owed' = Owed, room'.error = room.error
  PROVE  L!Next
  BY DEF L!Next, L!Receive, L!StartOver, Copies, Fates, Owed

LEMMA SeenCutShort ==
  ASSUME ~room.error, room'.error = TRUE,
         NEW n \in 0 .. Len(Owed), Owed' = SubSeq(Owed, n + 1, Len(Owed)),
         log' = log, Copies' = Copies, Fates' = Fates
  PROVE  L!Next
  BY DEF L!Next, L!CutShort, Copies, Fates, Owed

\* Queues of departures.
LEMMA OwedType ==
  ASSUME TypeOK
  PROVE  /\ job.events \in Seq(Events) /\ pending \in Seq(Events) /\ Owed \in Seq(Events)
         /\ Len(job.events) \in Nat /\ Len(pending) \in Nat
         /\ Len(Owed) = Len(job.events) + Len(pending)
  <1>1. job.events \in Seq(Events) /\ pending \in Seq(Events)
    BY DEF TypeOK, Jobs
  <1>2. Owed \in Seq(Events) /\ Len(Owed) = Len(job.events) + Len(pending)
    BY ONLY <1>1, ConcatProperties DEF Owed
  <1> QED
    BY <1>1, <1>2, LenProperties

LEMMA OwedLater ==
  ASSUME TypeOK, NEW e \in Events, pending' = Append(pending, e), job' = job
  PROVE  Owed' = Append(Owed, e)
  <1> DEFINE a == job.events
             b == pending
  <1>1. a \in Seq(Events) /\ b \in Seq(Events) /\ a \o b \in Seq(Events) /\ <<e>> \in Seq(Events)
    BY OwedType DEF Owed
  <1>2. Owed' = a \o Append(b, e) /\ Owed = a \o b
    BY DEF Owed
  <1> HIDE DEF a, b
  <1>3. Append(b, e) = b \o <<e>> /\ Append(a \o b, e) = (a \o b) \o <<e>>
    BY <1>1, AppendIsConcat
  <1>4. (a \o b) \o <<e>> = a \o (b \o <<e>>)
    BY <1>1, ConcatAssociative
  <1> QED
    BY <1>2, <1>3, <1>4, Zenon

LEMMA RestOfOwed ==
  ASSUME TypeOK
  PROVE  SubSeq(Owed, Len(job.events) + 1, Len(Owed)) = pending
  <1> DEFINE a == job.events
             b == pending
             m == Len(a)
             k == Len(Owed)
             rest == SubSeq(Owed, m + 1, k)
  <1>1. /\ a \in Seq(Events) /\ b \in Seq(Events) /\ Owed \in Seq(Events)
        /\ m \in Nat /\ Len(b) \in Nat /\ k = m + Len(b)
    BY OwedType
  <1>2. \A i \in 1 .. m + Len(b) : Owed[i] = IF i <= m THEN a[i] ELSE b[i - m]
    BY ONLY <1>1, ConcatProperties DEF Owed
  <1> HIDE DEF a, b, m
  <1>3. k \in m .. Len(Owed)
    BY <1>1
  <1>4. /\ rest \in Seq(Events) /\ Len(rest) = k - m
        /\ \A i \in 1 .. k - m : rest[i] = Owed[m + i]
    BY <1>1, <1>3, SubSeqIsPart
  <1> HIDE DEF rest
  <1>5. Len(rest) = Len(b)
    BY <1>1, <1>4
  <1>6. ASSUME NEW i \in 1 .. Len(rest) PROVE rest[i] = b[i]
    <2>1. m + i \in 1 .. m + Len(b) /\ ~(m + i <= m) /\ (m + i) - m = i /\ i \in 1 .. k - m
      BY <1>1, <1>5
    <2>2. Owed[m + i] = b[(m + i) - m]
      BY <1>2, <2>1
    <2> QED
      BY <1>4, <2>1, <2>2
  <1>7. rest = b
    BY <1>1, <1>4, <1>5, <1>6, SeqEqual
  <1> QED
    BY <1>7 DEF rest, a, b, m

LEMMA StepsSeen ==
  ASSUME Streams, [Next]_vars
  PROVE  [L!Next]_L!vars
  <1>1. TypeOK /\ SeatInv /\ JobInRoom
    BY StreamParts
  <1>2. /\ job.events \in Seq(Events) /\ pending \in Seq(Events) /\ Owed \in Seq(Events)
        /\ job \in Jobs /\ room \in Rooms /\ log \in Seq(Bundles)
        /\ room.error \in BOOLEAN
    BY <1>1, OwedType DEF TypeOK, Rooms
  <1>3. ASSUME NEW beaten \in SUBSET {s \in Players : ~seat[s].defeated}, FinishTick(beaten)
        PROVE  L!Next
    <2> DEFINE bundle == [tick |-> Tick, events |-> job.events, ais |-> job.ais]
    <2>1. /\ log' = Append(log, bundle) /\ job' = NoJob /\ pending' = pending /\ room' = room
          /\ peer' = peer /\ job.state = "done"
          /\ seat' = [s \in Slots |->
               IF s \in beaten THEN [seat[s] EXCEPT !.defeated = TRUE] ELSE seat[s]]
      BY <1>3 DEF FinishTick
    <2>2. bundle \in Bundles /\ bundle.tick = Len(log) /\ bundle.events = job.events
      BY <1>2 DEF Bundles, Jobs, Tick
    <2> HIDE DEF bundle
    <2>3. log' # <<>> /\ log'[Len(log')] = bundle
      <3>1. Len(log') = Len(log) + 1 /\ log' # <<>> /\ log'[Len(log) + 1] = bundle
        BY <1>2, <2>1, <2>2, AppendProperties
      <3> QED
        BY <3>1
    <2>4. Owed' = pending
      <3>1. Owed' = <<>> \o pending
        BY <2>1 DEF Owed, NoJob
      <3> QED
        BY <1>2, <3>1, ConcatEmptySeq
    <2>5. Copies' = Copies /\ Fates' = Fates
      BY <1>1, <2>1 DEF Copies, Fates, TypeOK, Seats
    <2>6. ~room.error
      BY <1>1, <2>1 DEF JobInRoom
    <2> QED
      BY <2>1, <2>2, <2>3, <2>4, <2>5, <2>6, SeenPublish DEF Owed
  <1>4. ASSUME NEW c \in Conns, ReadBundle(c) \/ (ReadOpener(c) /\ wire[c].opener.kind = "starting")
        PROVE  L!Next
    <2> DEFINE p == Owner[c]
    <2>1. p \in Persons
      BY <1>1, PartTypes
    <2>2. log' = log /\ Fates' = Fates /\ Owed' = Owed /\ room'.error = room.error
      BY <1>4 DEF ReadBundle, ReadOpener, roomVars, Fates, Owed
    <2>3. CASE ReadBundle(c)
      <3>1. /\ Len(Copy(p)) < Len(log)
            /\ Copy(p)' = Append(Copy(p), log[Len(Copy(p)) + 1])
            /\ \A q \in Persons : q # p => Copy(q)' = Copy(q)
        BY <2>3, NextBundleRead
      <3>2. /\ Len(Copies[p]) < Len(log)
            /\ Copies' = [Copies EXCEPT ![p] = Append(@, log[Len(@) + 1])]
        BY <2>1, <3>1 DEF Copies, Copy
      <3> QED
        BY <2>1, <2>2, <3>2, SeenReceive
    <2>4. CASE ReadOpener(c) /\ wire[c].opener.kind = "starting"
      <3>1. Copy(p)' = <<>> /\ \A q \in Persons : q # p => Copy(q)' = Copy(q)
        BY <1>1, <2>4, CopyStartsOver
      <3>2. Copies' = [Copies EXCEPT ![p] = <<>>]
        BY <2>1, <3>1 DEF Copies, Copy
      <3> QED
        BY <2>1, <2>2, <3>2, SeenReceive
    <2> QED
      BY <1>4, <2>3, <2>4
  <1>5. ASSUME CopiesStay PROVE [L!Next]_L!vars
    <2>1. log' = log /\ Copies' = Copies
      BY <1>5 DEF CopiesStay, Copies, Copy
    <2>2. ASSUME FateStays PROVE UNCHANGED L!vars
      <3>1. Fates' = Fates /\ Owed' = Owed /\ room'.error = room.error
        BY <2>2 DEF FateStays, RoomStays, Fates, Owed
      <3> QED
        BY <2>1, <3>1, SeenNothing
    <2>3. ASSUME NEW s \in Slots, Leaves(s) PROVE L!Next
      <3>1. Fates[s] = "human" /\ Fates' = [Fates EXCEPT ![s] = "closed"] /\ room'.error = room.error
        BY <2>3 DEF Leaves, RoomStays, Fates, Human
      <3>2. Owed' = Append(Owed, Event("Leave", s))
        <4>1. Event("Leave", s) \in Events
          BY DEF Event, Events
        <4> QED
          BY <1>1, <2>3, <4>1, OwedLater DEF Leaves
      <3> QED
        BY <2>1, <3>1, <3>2, SeenDepart
    <2>4. ASSUME NEW s \in Slots, TakenOver(s) PROVE L!Next
      <3>1. Fates[s] = "human" /\ Fates' = [Fates EXCEPT ![s] = "ai"] /\ room'.error = room.error
        BY <2>4 DEF TakenOver, RoomStays, Fates, Human
      <3>2. Owed' = Append(Owed, Event("AiTakeover", s))
        <4>1. Event("AiTakeover", s) \in Events
          BY DEF Event, Events
        <4> QED
          BY <1>1, <2>4, <4>1, OwedLater DEF TakenOver
      <3> QED
        BY <2>1, <3>1, <3>2, SeenDepart
    <2>5. CASE CloseTick
      <3>1. /\ job.state = "none" /\ pending' = <<>> /\ job'.events = pending
            /\ room' = room /\ seat' = seat
        BY <2>5 DEF CloseTick, TickDue
      <3>2. job.events = <<>>
        BY <1>1, <3>1 DEF JobInRoom, NoJob
      <3>3. Owed = <<>> \o pending /\ Owed' = pending \o <<>>
        BY <3>1, <3>2 DEF Owed
      <3>4. Owed' = Owed
        BY <1>2, <3>3, ConcatEmptySeq
      <3> QED
        BY <2>1, <3>1, <3>4, SeenNothing DEF Fates
    <2>6. CASE WorkerRuns
      <3>1. job'.events = job.events /\ UNCHANGED <<pending, room, seat>>
        BY <1>2, <2>6 DEF WorkerRuns, Jobs
      <3> QED
        BY <2>1, <3>1, SeenNothing DEF Fates, Owed
    <2>7. CASE JobFails
      <3>1. /\ job.state = "done" /\ job' = NoJob /\ room' = [room EXCEPT !.error = TRUE]
            /\ UNCHANGED <<seat, pending>>
        BY <2>7 DEF JobFails
      <3>2. ~room.error /\ room'.error = TRUE
        BY <1>1, <1>2, <3>1 DEF JobInRoom, Rooms
      <3>3. Owed' = pending
        <4>1. Owed' = <<>> \o pending
          BY <3>1 DEF Owed, NoJob
        <4> QED
          BY <1>2, <4>1, ConcatEmptySeq
      <3>4. Len(job.events) \in 0 .. Len(Owed)
        BY <1>1, OwedType
      <3>5. Owed' = SubSeq(Owed, Len(job.events) + 1, Len(Owed))
        BY <1>1, <3>3, RestOfOwed
      <3>6. Fates' = Fates
        BY <3>1 DEF Fates
      <3> QED
        BY <2>1, <3>2, <3>4, <3>5, <3>6, SeenCutShort
    <2> QED
      BY <1>1, <1>3, <2>2, <2>3, <2>4, <2>5, <2>6, <2>7, FateSteps DEF TickStep
  <1> QED
    BY <1>1, <1>3, <1>4, <1>5, CopySteps

\* However the room's links and clients behave, it is one log of ticks every
\* person reads in order and without a gap, in which each seat departs once.
THEOREM Refinement == Spec => ImplementsLockstep
  <1>1. Init => L!Init
    <2> SUFFICES ASSUME Init PROVE L!Init
      OBVIOUS
    <2>1. log = <<>> /\ job.events = <<>> /\ pending = <<>> /\ room.error = FALSE
      BY DEF Init, NoJob
    <2>2. Owed = <<>>
      <3>1. Owed = <<>> \o <<>> /\ <<>> \in Seq(Events)
        BY <2>1 DEF Owed
      <3> QED
        BY <3>1, ConcatEmptySeq
    <2>3. Copies = [p \in Persons |-> <<>>]
      BY DEF Init, Copies
    <2>4. Fates = [s \in Slots |-> IF s \in AiStart THEN "ai" ELSE "human"]
      BY DEF Init, Fates, Players
    <2> QED
      BY <2>1, <2>2, <2>3, <2>4, SeenInit
  <1>2. ASSUME Streams, [Next]_vars PROVE [L!Next]_L!vars
    BY <1>2, StepsSeen
  <1> QED
    BY <1>1, <1>2, StreamsHold, PTL DEF Spec, ImplementsLockstep, L!Spec

-----------------------------------------------------------------------------
(* Flow control.                                                           *)

(* What the bound rests on.  A token names the seat it was rolled for, so  *)
(* a seat is only ever played by a connection of its own player;           *)
TokenOfItsOwn(t, p) == t = NoToken \/ t[1] = p

TokensOwn ==
  /\ \A p \in Persons : TokenOfItsOwn(peer[p].token, p)
  /\ \A c \in Conns : TokenOfItsOwn(wire[c].opener.token, Owner[c])
  /\ \A s \in Slots : TokenOfItsOwn(seat[s].token, s)

SeatedByOwner ==
  room.running => \A s \in Slots : Connected(s) => Owner[seat[s].client] = s

(* who has been sent a new token had one;                                  *)
ReseatedHadToken ==
  \A c \in up : wire[c].opener.kind = "reseated" => peer[Owner[c]].token # NoToken

(* a game does not begin without the players it was started with, and a    *)
(* player that has not even read that it starts has acknowledged nothing;  *)
Unread(c) == wire[c].opener.kind = "starting" /\ wire[c].opener.token # NoToken

NotBegunFor(c) ==
  LET s == Owner[c]
  IN  /\ c \in up /\ s \in Slots
      /\ peer[s].phase = "away" /\ peer[s].replayLog = <<>>
      /\ conn[c].ackTick = 0
      /\ room.running /\ StillIn(s) =>
           /\ Tick = 0 /\ job.state = "none"
           /\ seat[s].client \in {c, NoConn}
           /\ seat[s].client = c => ~conn[c].loaded

BeginsTogether == \A c \in Conns : Unread(c) => NotBegunFor(c)

AllHaveLoaded ==
  room.running /\ (Tick > 0 \/ job.state # "none") =>
    \A s \in Slots : Human(s) /\ Connected(s) => conn[seat[s].client].loaded

(* and nobody acknowledges a tick it has not received.                     *)
Got(p) == IF Len(peer[p].replayLog) = 0 THEN 1 ELSE Len(peer[p].replayLog)

AcksReceived ==
  room.running =>
    \A s \in Slots : StillIn(s) /\ Connected(s) /\ peer[s].token # NoToken =>
      conn[seat[s].client].ackTick < Got(s)

HumansArePlayers == \A s \in Slots : Human(s) => s \in Players

FlowInv == HumansArePlayers /\ TokensOwn /\ SeatedByOwner /\ ReseatedHadToken /\ BeginsTogether
           /\ AllHaveLoaded /\ AcksReceived /\ FlowBound

-----------------------------------------------------------------------------
(* What a step may do to a connection, a seat, a person's client and what  *)
(* is under way.                                                           *)

Acks(d) ==
  \E tk \in 0 .. MaxTicks : StateHash(d, tk) \/ \E lead \in Leads : Progress(d, tk, lead)

SameConn(d) ==
  /\ conn'[d].ackTick = conn[d].ackTick
  /\ conn'[d].loaded = conn[d].loaded
  /\ conn'[d].state = conn[d].state
LeftGame(d) == conn'[d].state # "game" /\ conn'[d].ackTick = 0 /\ ~conn'[d].loaded

LEMMA ConnFrame ==
  ASSUME TypeOK, [Next]_vars, NEW d \in Conns
  PROVE  SameConn(d) \/ LeftGame(d) \/ Loaded(d) \/ Acks(d) \/ Rejoin(d) \/ Spectate(d)
  <1>1. conn \in [Conns -> Connections] /\ conn[d] \in Connections
    BY DEF TypeOK
  <1>2. ASSUME NEW x \in Conns, NEW state, conn' = [conn EXCEPT ![x] = Outside(state)], state # "game"
        PROVE  SameConn(d) \/ LeftGame(d)
    <2>1. CASE x = d
      <3>1. conn'[d] = Outside(state)
        BY <1>1, <1>2, <2>1
      <3> QED
        BY <1>2, <3>1 DEF LeftGame, Outside
    <2>2. CASE x # d
      BY <1>1, <1>2, <2>2 DEF SameConn
    <2> QED
      BY <2>1, <2>2
  <1>3. ASSUME NEW c \in Conns,
               \/ GoSilent(c) \/ Speak(c)
               \/ \E n \in 0 .. MaxTicks : Feed(c, n)
        PROVE  SameConn(d)
    <2>1. CASE GoSilent(c) \/ Speak(c)
      BY <1>1, <2>1 DEF GoSilent, Speak, SameConn, Connections
    <2>2. ASSUME NEW n \in 0 .. MaxTicks, Feed(c, n) PROVE SameConn(d)
      BY <1>1, <2>2 DEF Feed, SameConn, Connections
    <2> QED
      BY <1>3, <2>1, <2>2
  <1>4. ASSUME NEW c \in Conns, LeaveGame(c) \/ DropClient(c) \/ Connect(c)
        PROVE  SameConn(d) \/ LeftGame(d)
    BY <1>2, <1>4 DEF LeaveGame, DropClient, Connect
  <1>5. ASSUME NEW c \in Conns,
               \/ SetPause(c) \/ RejoinRefused(c) \/ ReadOpener(c) \/ ReadBundle(c) \/ LinkBreaks(c)
        PROVE  SameConn(d)
    BY <1>5 DEF SetPause, RejoinRefused, ReadOpener, ReadBundle, LinkBreaks, SameConn
  <1>6. ASSUME NEW c \in Conns, c # d, Loaded(c) \/ Acks(c) \/ Spectate(c) PROVE SameConn(d)
    <2>1. CASE Loaded(c)
      BY <1>1, <1>6, <2>1 DEF Loaded, SameConn
    <2>2. CASE Spectate(c)
      BY <1>1, <1>6, <2>2 DEF Spectate, SameConn
    <2>3. CASE Acks(c)
      BY <1>1, <1>6, <2>3 DEF Acks, StateHash, Progress, SameConn
    <2> QED
      BY <1>6, <2>1, <2>2, <2>3
  <1>7. ASSUME NEW c \in Conns, c # d, Rejoin(c) PROVE SameConn(d) \/ LeftGame(d)
    <2>1. PICK s, record :
            conn' = [IF seat[s].client \in Conns THEN Unseated(conn, seat[s].client) ELSE conn
                       EXCEPT ![c] = record]
      BY <1>7 DEF Rejoin
    <2> QED
      BY <1>1, <1>7, <2>1 DEF SameConn, LeftGame, Unseated, Outside
  <1>8. ASSUME NEW s \in Slots, AiTakesSeat(s) PROVE SameConn(d) \/ LeftGame(d)
    <2>1. conn' = IF seat[s].client \in Conns THEN [conn EXCEPT ![seat[s].client] = Outside("bye")]
                  ELSE conn
      BY <1>8 DEF AiTakesSeat, Unseated
    <2> QED
      BY <1>2, <2>1 DEF SameConn
  <1>9. ASSUME NEW s \in Slots, BeginWait(s) \/ EndWait(s) \/ TakeOver(s) \/ HoldTakeOver(s)
        PROVE  SameConn(d) \/ LeftGame(d)
    <2>1. CASE AiTakesSeat(s)
      BY <1>8, <2>1
    <2>2. CASE ~AiTakesSeat(s)
      BY <1>9, <2>2 DEF BeginWait, EndWait, TakeOver, HoldTakeOver, SameConn
    <2> QED
      BY <2>1, <2>2
  <1>10. ASSUME NEW p \in Persons, GiveUp(p) PROVE SameConn(d)
    BY <1>10 DEF GiveUp, SameConn
  <1>11. CASE Teardown
    BY <1>1, <1>11 DEF Teardown, SameConn, LeftGame, Outside
  <1>12. CASE \/ CloseTick \/ WorkerRuns \/ JobFails \/ UNCHANGED vars
              \/ \E beaten \in SUBSET {s \in Players : ~seat[s].defeated} : FinishTick(beaten)
    BY <1>12 DEF CloseTick, WorkerRuns, JobFails, FinishTick, vars, SameConn
  <1> QED
    BY <1>3, <1>4, <1>5, <1>6, <1>7, <1>9, <1>10, <1>11, <1>12 DEF Next, Acks

\* A seat loses its client and its token, but for those given to who comes
\* back; and nobody comes back into the game who is out of it.
SeatLoses(s) ==
  /\ seat'[s].client \in {seat[s].client, NoConn}
  /\ seat'[s].token \in {seat[s].token, NoToken}

LEMMA SeatFrame ==
  ASSUME TypeOK, [Next]_vars, NEW s \in Slots
  PROVE  /\ SeatLoses(s) \/ \E c \in Conns : Rejoin(c)
         /\ StillIn(s)' => StillIn(s)
         /\ Human(s)' => Human(s)
         /\ room'.running => room.running
  <1>1. seat \in [Slots -> Seats] /\ room \in Rooms
    BY DEF TypeOK
  <1> DEFINE Goal == SeatLoses(s) /\ (StillIn(s)' => StillIn(s)) /\ (Human(s)' => Human(s))
                     /\ (room'.running => room.running)
  <1>2. ASSUME seat' = seat, room' = room PROVE Goal
    BY <1>2 DEF SeatLoses, StillIn, Human
  <1>3. ASSUME NEW c \in Conns, LeaveRoom(c) PROVE Goal
    <2>1. CASE c \in room.spectators
      BY <1>1, <1>3, <2>1 DEF LeaveRoom, SeatLoses, StillIn, Human, Rooms
    <2>2. CASE c \notin room.spectators
      <3>1. room' = room /\ seat' = [seat EXCEPT ![conn[c].slot] = Forfeited(@)]
        BY <1>3, <2>2 DEF LeaveRoom
      <3>2. seat'[s] = seat[s] \/ seat'[s] = Forfeited(seat[s])
        BY <1>1, <3>1
      <3> QED
        BY <1>1, <3>1, <3>2 DEF Forfeited, SeatLoses, StillIn, Human, Seats
    <2> QED
      BY <2>1, <2>2
  <1>4. ASSUME NEW c \in Conns, LeaveGame(c) PROVE Goal
    BY <1>3, <1>4 DEF LeaveGame
  <1>5. ASSUME NEW c \in Conns, DropClient(c) PROVE Goal
    <2>1. CASE LeaveRoom(c)
      BY <1>3, <2>1
    <2>2. CASE ~LeaveRoom(c)
      BY <1>1, <1>5, <2>2 DEF DropClient, SeatLoses, StillIn, Human, Seats
    <2> QED
      BY <2>1, <2>2
  <1>6. ASSUME NEW c \in Conns,
               \/ GoSilent(c) \/ Speak(c) \/ Loaded(c) \/ Acks(c) \/ Connect(c) \/ RejoinRefused(c)
               \/ ReadOpener(c) \/ ReadBundle(c) \/ LinkBreaks(c)
               \/ \E n \in 0 .. MaxTicks : Feed(c, n)
        PROVE  Goal
    BY <1>2, <1>6 DEF GoSilent, Speak, Loaded, Acks, StateHash, Progress, Connect, RejoinRefused,
                      ReadOpener, ReadBundle, LinkBreaks, Feed, roomVars
  <1>7. ASSUME NEW c \in Conns, SetPause(c) \/ Spectate(c) PROVE Goal
    BY <1>1, <1>7 DEF SetPause, Spectate, SeatLoses, StillIn, Human, Rooms
  <1>8. ASSUME NEW c \in Conns, Rejoin(c)
        PROVE  (StillIn(s)' => StillIn(s)) /\ (Human(s)' => Human(s)) /\ room' = room
    <2>1. PICK t, token :
            seat' = [seat EXCEPT ![t].client = c, ![t].token = token, ![t].waiting = FALSE]
      BY <1>8 DEF Rejoin
    <2>2. seat'[s].type = seat[s].type /\ seat'[s].defeated = seat[s].defeated
      BY <1>1, <2>1 DEF Seats
    <2> QED
      BY <1>8, <2>2 DEF Rejoin, StillIn, Human
  <1>9. ASSUME NEW t \in Slots, AiTakesSeat(t) PROVE Goal
    <2>1. /\ seat' = [seat EXCEPT ![t] = [@ EXCEPT !.type = "ai", !.client = NoConn,
                        !.taken = seat[t].token, !.token = NoToken, !.waiting = FALSE]]
          /\ room'.running = room.running
      BY <1>1, <1>9 DEF AiTakesSeat, Rooms
    <2> QED
      BY <1>1, <2>1 DEF SeatLoses, StillIn, Human, Seats
  <1>10. ASSUME NEW t \in Slots, BeginWait(t) \/ EndWait(t) \/ TakeOver(t) \/ HoldTakeOver(t)
         PROVE  Goal
    <2>1. CASE AiTakesSeat(t)
      BY <1>9, <2>1
    <2>2. CASE ~AiTakesSeat(t)
      <3>1. PICK w : seat' = [seat EXCEPT ![t].waiting = w] /\ room' = room
        BY <1>10, <2>2 DEF BeginWait, EndWait, TakeOver, HoldTakeOver
      <3> QED
        BY <1>1, <3>1 DEF SeatLoses, StillIn, Human, Seats
    <2> QED
      BY <2>1, <2>2
  <1>11. ASSUME NEW p \in Persons, GiveUp(p) PROVE Goal
    BY <1>2, <1>11 DEF GiveUp, roomVars
  <1>12. ASSUME CloseTick \/ WorkerRuns \/ UNCHANGED vars PROVE Goal
    BY <1>2, <1>12 DEF CloseTick, WorkerRuns, vars
  <1>13. ASSUME JobFails \/ Teardown PROVE Goal
    BY <1>1, <1>13 DEF JobFails, Teardown, SeatLoses, StillIn, Human, Rooms
  <1>14. ASSUME NEW beaten \in SUBSET {x \in Players : ~seat[x].defeated}, FinishTick(beaten)
         PROVE  Goal
    BY <1>1, <1>14 DEF FinishTick, SeatLoses, StillIn, Human, Seats
  <1> HIDE DEF Goal
  <1>15. Goal \/ \E c \in Conns : Rejoin(c)
    BY <1>4, <1>5, <1>6, <1>7, <1>10, <1>11, <1>12, <1>13, <1>14 DEF Next, Acks
  <1> QED
    BY <1>8, <1>15 DEF Goal

\* A client's token is what an opener brings, and a client that is away stays
\* so until an opener comes.
SamePeer(p) ==
  peer'[p].token = peer[p].token /\ (peer[p].phase = "away" => peer'[p].phase = "away")

LEMMA PeerFrame ==
  ASSUME TypeOK, [Next]_vars, NEW p \in Persons
  PROVE  SamePeer(p) \/ \E c \in Conns : Owner[c] = p /\ ReadOpener(c)
  <1>1. peer \in [Persons -> Peers] /\ peer[p] \in Peers
    BY DEF TypeOK
  <1>2. ASSUME peer' = peer PROVE SamePeer(p)
    BY <1>2 DEF SamePeer
  <1>3. ASSUME NEW c \in Conns, LeaveGame(c) \/ RejoinRefused(c) PROVE SamePeer(p)
    <2>1. peer' = [peer EXCEPT ![Owner[c]].phase = "away"]
      BY <1>3 DEF LeaveGame, RejoinRefused
    <2> QED
      BY <1>1, <2>1 DEF SamePeer, Peers
  <1>4. ASSUME NEW c \in Conns, LinkBreaks(c) PROVE SamePeer(p)
    <2>1. PICK phase :
            /\ peer' = [peer EXCEPT ![Owner[c]].phase = phase]
            /\ peer[Owner[c]].phase = "away" => phase = "away"
      BY <1>4 DEF LinkBreaks
    <2> QED
      BY <1>1, <2>1 DEF SamePeer, Peers
  <1>5. ASSUME NEW c \in Conns, ReadBundle(c) PROVE SamePeer(p)
    <2>1. PICK got :
            peer' = [peer EXCEPT ![Owner[c]] =
              [peer[Owner[c]] EXCEPT !.replayLog = got,
                 !.phase = IF peer[Owner[c]].phase = "starting" THEN "playing" ELSE peer[Owner[c]].phase]]
      BY <1>5 DEF ReadBundle
    <2>2. CASE p = Owner[c]
      BY <1>1, <2>1, <2>2 DEF SamePeer, Peers
    <2>3. CASE p # Owner[c]
      BY <1>1, <2>1, <2>3 DEF SamePeer
    <2> QED
      BY <2>2, <2>3
  <1>6. ASSUME NEW c \in Conns, Owner[c] # p, ReadOpener(c) PROVE SamePeer(p)
    <2>1. PICK me : peer' = [peer EXCEPT ![Owner[c]] = me]
      BY <1>6 DEF ReadOpener
    <2> QED
      BY <1>1, <1>6, <2>1 DEF SamePeer
  <1>7. ASSUME NEW c \in Conns,
               \/ GoSilent(c) \/ Speak(c) \/ Loaded(c) \/ Acks(c) \/ SetPause(c) \/ Connect(c)
               \/ DropClient(c) \/ Rejoin(c) \/ Spectate(c)
               \/ \E n \in 0 .. MaxTicks : Feed(c, n)
        PROVE  SamePeer(p)
    BY <1>2, <1>7 DEF GoSilent, Speak, Loaded, Acks, StateHash, Progress, SetPause, Connect, DropClient,
                      Rejoin, Spectate, Feed
  <1>8. ASSUME NEW s \in Slots, BeginWait(s) \/ EndWait(s) \/ TakeOver(s) \/ HoldTakeOver(s)
        PROVE  SamePeer(p)
    BY <1>2, <1>8 DEF BeginWait, EndWait, TakeOver, HoldTakeOver, AiTakesSeat
  <1>9. ASSUME NEW q \in Persons, GiveUp(q) PROVE SamePeer(p)
    BY <1>1, <1>9 DEF GiveUp, SamePeer, Peers
  <1>10. CASE \/ CloseTick \/ WorkerRuns \/ JobFails \/ Teardown \/ UNCHANGED vars
              \/ \E beaten \in SUBSET {s \in Players : ~seat[s].defeated} : FinishTick(beaten)
    BY <1>2, <1>10 DEF CloseTick, WorkerRuns, JobFails, Teardown, FinishTick, vars
  <1> QED
    BY <1>3, <1>4, <1>5, <1>6, <1>7, <1>8, <1>9, <1>10 DEF Next, Acks

\* What opens a stream is the answer to who comes back or comes to watch.
SameOpener(c) == wire'[c].opener \in {wire[c].opener, NoOpener}

LEMMA WireFrame ==
  ASSUME TypeOK, [Next]_vars, NEW c \in Conns
  PROVE  /\ SameOpener(c) \/ Rejoin(c) \/ Spectate(c)
         /\ c \in up => c \in up' \/ RejoinRefused(c) \/ LinkBreaks(c)
         /\ c \in up' => c \in up \/ Connect(c)
  <1>1. wire \in [Conns -> Wires] /\ wire[c] \in Wires /\ up \in SUBSET Conns
    BY DEF TypeOK
  <1> DEFINE Opened == SameOpener(c) \/ Rejoin(c) \/ Spectate(c)
             Open == (c \in up => c \in up' \/ RejoinRefused(c) \/ LinkBreaks(c))
                     /\ (c \in up' => c \in up \/ Connect(c))
  <1>2. ASSUME wire' = wire PROVE Opened
    BY <1>2 DEF SameOpener
  <1>3. ASSUME up' = up PROVE Open
    BY <1>3
  <1>4. ASSUME NEW d \in Conns, LeaveGame(d) \/ LinkBreaks(d) PROVE Opened
    <2>1. wire' = [wire EXCEPT ![d] = EmptyWire]
      BY <1>4 DEF LeaveGame, LinkBreaks
    <2> QED
      BY <1>1, <2>1 DEF SameOpener, EmptyWire
  <1>5. ASSUME NEW d \in Conns, LeaveGame(d) \/ LinkBreaks(d) PROVE Open
    BY <1>1, <1>5 DEF LeaveGame, LinkBreaks
  <1>6. ASSUME NEW d \in Conns, Rejoin(d) \/ Spectate(d) PROVE Opened /\ Open
    <2>1. CASE d = c
      BY <1>6, <2>1 DEF Rejoin, Spectate
    <2>2. CASE d # c
      BY <1>1, <1>6, <2>2 DEF Rejoin, Spectate, SameOpener
    <2> QED
      BY <2>1, <2>2
  <1>7. ASSUME NEW d \in Conns, ReadOpener(d) \/ ReadBundle(d) PROVE Opened /\ Open
    <2>1. CASE ReadOpener(d)
      BY <1>1, <1>3, <2>1 DEF ReadOpener, SameOpener, Wires
    <2>2. CASE ReadBundle(d)
      BY <1>1, <1>3, <2>2 DEF ReadBundle, SameOpener, Wires
    <2> QED
      BY <1>7, <2>1, <2>2
  <1>8. ASSUME NEW d \in Conns, Connect(d) \/ RejoinRefused(d) PROVE Opened /\ Open
    BY <1>1, <1>2, <1>8 DEF Connect, RejoinRefused
  <1>9. ASSUME NEW d \in Conns, NEW n \in 0 .. MaxTicks, Feed(d, n) PROVE Opened /\ Open
    BY <1>1, <1>3, <1>9 DEF Feed, SameOpener, Wires
  <1>10. ASSUME NEW d \in Conns,
                GoSilent(d) \/ Speak(d) \/ Loaded(d) \/ Acks(d) \/ SetPause(d) \/ DropClient(d)
         PROVE  Opened /\ Open
    BY <1>2, <1>3, <1>10 DEF GoSilent, Speak, Loaded, Acks, StateHash, Progress, SetPause, DropClient
  <1>11. ASSUME NEW s \in Slots, BeginWait(s) \/ EndWait(s) \/ TakeOver(s) \/ HoldTakeOver(s)
         PROVE  Opened /\ Open
    BY <1>2, <1>3, <1>11 DEF BeginWait, EndWait, TakeOver, HoldTakeOver, AiTakesSeat
  <1>12. ASSUME NEW p \in Persons, GiveUp(p) PROVE Opened /\ Open
    BY <1>2, <1>3, <1>12 DEF GiveUp
  <1>13. ASSUME CloseTick \/ WorkerRuns \/ JobFails \/ Teardown \/ UNCHANGED vars PROVE Opened /\ Open
    BY <1>2, <1>3, <1>13 DEF CloseTick, WorkerRuns, JobFails, Teardown, vars
  <1>14. ASSUME NEW beaten \in SUBSET {s \in Players : ~seat[s].defeated}, FinishTick(beaten)
         PROVE  Opened /\ Open
    BY <1>1, <1>3, <1>14 DEF FinishTick, SameOpener, Wires
  <1> HIDE DEF Opened, Open
  <1>15. Opened /\ Open
    BY <1>4, <1>5, <1>6, <1>7, <1>8, <1>9, <1>10, <1>11, <1>12, <1>13, <1>14 DEF Next, Acks
  <1> QED
    BY <1>15 DEF Opened, Open

-----------------------------------------------------------------------------
(* Tokens, and who sits where.                                             *)

\* Who comes back comes back to the player's own seat.
ComesBack(c, next) ==
  LET s == Owner[c]
      n == NextBundleTick(s)
  IN  /\ s \in Slots /\ next # NoToken /\ next[1] = s /\ peer[s].token # NoToken
      /\ seat' = [seat EXCEPT ![s].client = c, ![s].token = next, ![s].waiting = FALSE]
      /\ wire' = [wire EXCEPT ![c].opener = Opener("reseated", next)]
      /\ conn'[c].loaded /\ conn'[c].ackTick = IF n = 0 THEN 0 ELSE n - 1
      /\ UNCHANGED <<room, log, job, up, peer>>
      /\ c \in up /\ conn[c].state = "lobby" /\ room.running

LEMMA RejoinOwn ==
  ASSUME TypeOK, TokensOwn, NEW c \in Conns, Rejoin(c)
  PROVE  \E next : ComesBack(c, next)
  <1>1. PICK s \in Slots :
          LET from == NextBundleTick(Owner[c])
              old  == seat[s].client
              next == <<s, seat[s].token[2] + 1>>
          IN  /\ Opens(c, s)
              /\ seat' = [seat EXCEPT ![s].client = c, ![s].token = next, ![s].waiting = FALSE]
              /\ conn' = [IF old \in Conns THEN Unseated(conn, old) ELSE conn EXCEPT ![c] =
                   [Outside("game") EXCEPT
                      !.slot = s, !.loaded = TRUE,
                      !.replaying = from < Tick, !.replayPos = from,
                      !.ackTick = IF from = 0 THEN 0 ELSE from - 1]]
              /\ wire' = [wire EXCEPT ![c].opener = Opener("reseated", next)]
    BY DEF Rejoin
  <1> DEFINE next == <<s, seat[s].token[2] + 1>>
  <1>2. /\ UNCHANGED <<room, log, job, up, peer>> /\ c \in up
        /\ conn[c].state = "lobby" /\ room.running
    BY DEF Rejoin, Asks, Talks
  <1>3. Owner[c] \in Persons
    BY PartTypes
  <1>4. s = Owner[c] /\ peer[s].token # NoToken
    BY <1>1, <1>3 DEF Opens, TokenOf, TokensOwn, TokenOfItsOwn
  <1>5. next[1] = s /\ next # NoToken
    BY DEF NoToken, Slots
  <1>6. conn'[c].loaded /\ conn'[c].ackTick = IF NextBundleTick(Owner[c]) = 0 THEN 0
                                              ELSE NextBundleTick(Owner[c]) - 1
    BY <1>1 DEF TypeOK, Unseated, Outside
  <1> QED
    BY <1>1, <1>2, <1>4, <1>5, <1>6 DEF ComesBack

Flowing == Streams /\ HeldSeatAccounted /\ FlowInv

LEMMA NextTokens ==
  ASSUME Flowing, [Next]_vars
  PROVE  TokensOwn'
  <1>1. TypeOK /\ TokensOwn
    BY DEF Flowing, Streams, FlowInv
  <1>2. ASSUME NEW p \in Persons PROVE TokenOfItsOwn(peer'[p].token, p)
    <2>1. CASE SamePeer(p)
      BY <1>1, <2>1 DEF SamePeer, TokensOwn, TokenOfItsOwn
    <2>2. ASSUME NEW c \in Conns, Owner[c] = p, ReadOpener(c) PROVE TokenOfItsOwn(peer'[p].token, p)
      <3>1. peer'[p].token = wire[c].opener.token
        <4>1. PICK me : me.token = wire[c].opener.token /\ peer' = [peer EXCEPT ![p] = me]
          <5>1. CASE wire[c].opener.kind = "reseated"
            BY <1>1, <2>2, <5>1 DEF ReadOpener, TypeOK, Peers
          <5>2. CASE wire[c].opener.kind # "reseated"
            BY <2>2, <5>2 DEF ReadOpener
          <5> QED
            BY <5>1, <5>2
        <4> QED
          BY <1>1, <4>1 DEF TypeOK
      <3> QED
        BY <1>1, <2>2, <3>1 DEF TokensOwn, TokenOfItsOwn
    <2> QED
      BY <1>1, <2>1, <2>2, PeerFrame
  <1>3. ASSUME NEW c \in Conns PROVE TokenOfItsOwn(wire'[c].opener.token, Owner[c])
    <2>1. CASE SameOpener(c)
      BY <1>1, <2>1 DEF SameOpener, NoOpener, Opener, TokensOwn, TokenOfItsOwn
    <2>2. CASE Rejoin(c)
      <3>1. PICK next : ComesBack(c, next)
        BY <1>1, <2>2, RejoinOwn
      <3>2. wire'[c].opener.token = next
        BY <1>1, <3>1 DEF ComesBack, TypeOK, Wires, Opener
      <3> QED
        BY <3>1, <3>2 DEF ComesBack, TokenOfItsOwn
    <2>3. CASE Spectate(c)
      <3>1. wire'[c].opener.token = NoToken
        BY <1>1, <2>3 DEF Spectate, TypeOK, EmptyWire, Opener
      <3> QED
        BY <3>1 DEF TokenOfItsOwn
    <2> QED
      BY <1>1, <2>1, <2>2, <2>3, WireFrame
  <1>4. ASSUME NEW s \in Slots PROVE TokenOfItsOwn(seat'[s].token, s)
    <2>1. CASE SeatLoses(s)
      BY <1>1, <2>1 DEF SeatLoses, TokensOwn, TokenOfItsOwn
    <2>2. ASSUME NEW c \in Conns, Rejoin(c) PROVE TokenOfItsOwn(seat'[s].token, s)
      <3>1. PICK next : ComesBack(c, next)
        BY <1>1, <2>2, RejoinOwn
      <3>2. seat'[s].token = IF s = Owner[c] THEN next ELSE seat[s].token
        BY <1>1, <3>1 DEF ComesBack, TypeOK, Seats
      <3> QED
        BY <1>1, <3>1, <3>2 DEF ComesBack, TokensOwn, TokenOfItsOwn
    <2> QED
      BY <1>1, <2>1, <2>2, SeatFrame
  <1> QED
    BY <1>2, <1>3, <1>4 DEF TokensOwn, TokenOfItsOwn

LEMMA NextSeated ==
  ASSUME Flowing, [Next]_vars
  PROVE  SeatedByOwner'
  <1>1. TypeOK /\ TokensOwn /\ SeatedByOwner
    BY DEF Flowing, Streams, FlowInv
  <1> SUFFICES ASSUME room'.running, NEW s \in Slots, seat'[s].client # NoConn
               PROVE  Owner[seat'[s].client] = s
    BY DEF SeatedByOwner, Connected
  <1>2. room.running
    BY <1>1, SeatFrame
  <1>3. CASE SeatLoses(s)
    BY <1>1, <1>2, <1>3 DEF SeatLoses, SeatedByOwner, Connected
  <1>4. ASSUME NEW c \in Conns, Rejoin(c) PROVE Owner[seat'[s].client] = s
    <2>1. PICK next : ComesBack(c, next)
      BY <1>1, <1>4, RejoinOwn
    <2>2. seat'[s].client = IF s = Owner[c] THEN c ELSE seat[s].client
      BY <1>1, <2>1 DEF ComesBack, TypeOK, Seats
    <2> QED
      BY <1>1, <1>2, <2>2 DEF SeatedByOwner, Connected
  <1> QED
    BY <1>1, <1>3, <1>4, SeatFrame

\* A seat's client is in the game, and no other seat's.
LEMMA SeatsClient ==
  ASSUME Flowing, room.running, NEW s \in Slots, Connected(s)
  PROVE  /\ seat[s].client \in Conns /\ InGame(seat[s].client)
         /\ Owner[seat[s].client] = s
  BY DEF Flowing, Streams, StreamInv, SeatOwnership, FlowInv, SeatedByOwner, TypeOK, Seats, Connected

LEMMA NextReseated ==
  ASSUME Flowing, [Next]_vars
  PROVE  ReseatedHadToken'
  <1>1. TypeOK /\ TokensOwn /\ ReseatedHadToken /\ OneConnection
    BY DEF Flowing, Streams, StreamInv, FlowInv
  <1> SUFFICES ASSUME NEW c \in up', wire'[c].opener.kind = "reseated"
               PROVE  peer'[Owner[c]].token # NoToken
    BY DEF ReseatedHadToken
  <1>2. c \in Conns /\ up \subseteq Conns
    <2>1. TypeOK'
      BY NextType DEF Flowing, Streams, StreamInv
    <2> QED
      BY <1>1, <2>1 DEF TypeOK
  <1>3. Owner[c] \in Persons
    BY <1>1, <1>2, PartTypes
  <1>4. CASE Rejoin(c)
    <2>1. PICK next : ComesBack(c, next)
      BY <1>1, <1>2, <1>4, RejoinOwn
    <2> QED
      BY <2>1 DEF ComesBack
  <1>5. CASE Spectate(c)
    BY <1>1, <1>2, <1>5 DEF Spectate, TypeOK, EmptyWire, Opener
  <1>6. CASE ~Rejoin(c) /\ ~Spectate(c)
    <2>1. wire[c].opener.kind = "reseated"
      BY <1>1, <1>2, <1>6, WireFrame DEF SameOpener, NoOpener, Opener
    <2>2. c \in up
      <3>1. CASE Connect(c)
        BY <1>2, <2>1, <3>1 DEF Connect, Flowing, Streams, StreamInv, QuietOutside, EmptyWire, NoOpener, Opener
      <3> QED
        BY <1>1, <1>2, <3>1, WireFrame
    <2>3. peer[Owner[c]].token # NoToken
      BY <1>1, <2>1, <2>2 DEF ReseatedHadToken
    <2>4. ASSUME NEW d \in Conns, Owner[d] = Owner[c], ReadOpener(d) PROVE peer'[Owner[c]].token # NoToken
      <3>1. d = c
        BY <1>1, <2>2, <2>4 DEF ReadOpener, OneConnection
      <3>2. wire'[c].opener = NoOpener
        BY <1>1, <1>2, <2>4, <3>1 DEF ReadOpener, TypeOK, Wires
      <3> QED
        BY <3>2 DEF NoOpener, Opener
    <2> QED
      BY <1>1, <1>3, <2>3, <2>4, PeerFrame DEF SamePeer
  <1> QED
    BY <1>4, <1>5, <1>6

-----------------------------------------------------------------------------
(* The players a game began with.                                          *)

LEMMA FlowParts ==
  ASSUME Flowing
  PROVE  /\ TypeOK /\ OneConnection /\ QuietOutside /\ JobInRoom /\ SeatInv
         /\ TokensOwn /\ SeatedByOwner /\ ReseatedHadToken /\ BeginsTogether
         /\ AllHaveLoaded /\ AcksReceived /\ FlowBound /\ HeldSeatAccounted
         /\ \A s \in Slots : Human(s) => s \in Players /\ s \in Persons
         /\ Len(log) \in Nat /\ MaxLead \in Nat
  BY StreamParts, PartTypes, ConstantsAssumption DEF Flowing, Streams, FlowInv, HumansArePlayers, Persons

\* A player still in the game whom a tick is closed for is there and loaded.
LEMMA TickHasPlayer ==
  ASSUME Flowing, CloseTick, NEW s \in Slots, StillIn(s)
  PROVE  Paces(s)
  <1>1. room.running /\ ~Held /\ (Tick = 0 => AllLoaded)
    BY DEF CloseTick, TickDue
  <1>2. Connected(s)
    BY <1>1, FlowParts DEF HeldSeatAccounted, StillIn, Held, Waiting
  <1>3. conn[seat[s].client].loaded
    <2>1. CASE Tick = 0
      BY <1>1, <1>2, <2>1 DEF AllLoaded, StillIn
    <2>2. CASE Tick > 0
      BY <1>1, <1>2, <2>2, FlowParts DEF AllHaveLoaded, StillIn
    <2> QED
      BY <2>1, <2>2, FlowParts DEF Tick
  <1> QED
    BY <1>2, <1>3 DEF Paces

\* Nobody a game has not begun for can act in it, and it does not go on
\* without them.
LEMMA NextBegins ==
  ASSUME Flowing, [Next]_vars
  PROVE  BeginsTogether'
  <1>1. TypeOK
    BY FlowParts
  <1> SUFFICES ASSUME NEW c \in Conns, Unread(c)' PROVE NotBegunFor(c)'
    BY DEF BeginsTogether
  <1> DEFINE s == Owner[c]
  <1>2. Unread(c)
    <2>1. CASE SameOpener(c)
      BY <2>1 DEF SameOpener, Unread, NoOpener, Opener
    <2>2. CASE Rejoin(c)
      <3>1. PICK next : ComesBack(c, next)
        BY <2>2, FlowParts, RejoinOwn
      <3> QED
        BY <1>1, <3>1 DEF ComesBack, Unread, TypeOK, Wires, Opener
    <2>3. CASE Spectate(c)
      BY <1>1, <2>3 DEF Spectate, Unread, TypeOK, EmptyWire, Opener
    <2> QED
      BY <1>1, <2>1, <2>2, <2>3, WireFrame
  <1>3. NotBegunFor(c)
    BY <1>2, FlowParts DEF BeginsTogether
  <1>4. /\ s \in Persons /\ s \in Slots /\ c \in up
        /\ peer[s].phase = "away" /\ peer[s].replayLog = <<>>
        /\ \A d \in up : Owner[d] = s => d = c
    BY <1>1, <1>3, PartTypes, FlowParts DEF NotBegunFor, OneConnection
  <1> HIDE DEF s
  <1>5. ~(conn[c].state = "lobby" /\ room.running)
    BY <1>2, FlowParts DEF QuietOutside, Unread, EmptyWire, NoOpener, Opener
  <1>6. ~Rejoin(c) /\ ~Spectate(c) /\ ~RejoinRefused(c) /\ ~Loaded(c) /\ ~Acks(c)
    <2>1. ~Rejoin(c) /\ ~RejoinRefused(c)
      BY <1>4 DEF Rejoin, RejoinRefused, Asks, s
    <2>2. ~Spectate(c)
      BY <1>5 DEF Spectate
    <2>3. ~Loaded(c) /\ ~Acks(c)
      BY <1>4 DEF Loaded, Acks, StateHash, Progress, Plays, s
    <2> QED
      BY <2>1, <2>2, <2>3
  <1>7. ~LinkBreaks(c) /\ ~ReadOpener(c) /\ ~ReadBundle(c)
    <2>1. ~LinkBreaks(c)
      BY <1>1, <1>2 DEF LinkBreaks, Unread, TypeOK, EmptyWire, NoOpener, Opener
    <2>2. ~ReadOpener(c)
      BY <1>1 DEF ReadOpener, Unread, TypeOK, Wires, NoOpener, Opener
    <2>3. ~ReadBundle(c)
      BY <1>2 DEF ReadBundle, Unread
    <2> QED
      BY <2>1, <2>2, <2>3
  <1>8. c \in up'
    BY <1>1, <1>4, <1>6, <1>7, WireFrame
  <1>9. peer'[s].phase = "away"
    <2>1. ASSUME NEW d \in Conns, Owner[d] = s, ReadOpener(d) PROVE FALSE
      BY <1>4, <1>7, <2>1 DEF ReadOpener
    <2> QED
      BY <1>1, <1>4, <2>1, PeerFrame DEF SamePeer
  <1>10. peer'[s].replayLog = <<>>
    <2>1. CASE CopiesStay
      BY <1>4, <2>1 DEF CopiesStay, Copy
    <2>2. ASSUME NEW beaten \in SUBSET {x \in Players : ~seat[x].defeated}, FinishTick(beaten)
          PROVE  peer'[s].replayLog = <<>>
      BY <1>4, <2>2 DEF FinishTick
    <2>3. ASSUME NEW d \in Conns, ReadBundle(d) \/ (ReadOpener(d) /\ wire[d].opener.kind = "starting")
          PROVE  peer'[s].replayLog = <<>>
      <3>1. Owner[d] # s
        BY <1>4, <1>7, <2>3 DEF ReadBundle, ReadOpener
      <3>2. Copy(s)' = Copy(s)
        BY <1>1, <1>4, <2>3, <3>1, NextBundleRead, CopyStartsOver DEF Flowing
      <3> QED
        BY <1>4, <3>2 DEF Copy
    <2> QED
      BY <1>1, <2>1, <2>2, <2>3, CopySteps
  <1>11. conn'[c].ackTick = 0 /\ (conn'[c].loaded => conn[c].loaded)
    BY <1>1, <1>3, <1>6, ConnFrame DEF NotBegunFor, SameConn, LeftGame
  <1>12. ASSUME room'.running, StillIn(s)'
         PROVE  /\ Len(log') = 0 /\ job'.state = "none"
                /\ seat'[s].client \in {c, NoConn}
                /\ seat'[s].client = c => ~conn'[c].loaded
    <2>1. room.running /\ StillIn(s)
      BY <1>1, <1>4, <1>12, SeatFrame
    <2>2. /\ Len(log) = 0 /\ job.state = "none" /\ seat[s].client \in {c, NoConn}
          /\ seat[s].client = c => ~conn[c].loaded
      BY <1>3, <2>1 DEF NotBegunFor, Tick, s
    <2>3. ~CloseTick
      <3>1. ASSUME CloseTick PROVE FALSE
        <4>1. Paces(s)
          BY <1>4, <2>1, <3>1, TickHasPlayer
        <4> QED
          BY <2>2, <4>1 DEF Paces, Connected
      <3> QED
        BY <3>1
    <2>4. log' = log /\ job' = job
      <3>1. ~TickStep
        BY <2>2, <2>3 DEF TickStep, WorkerRuns, JobFails, FinishTick
      <3> QED
        BY <1>1, <3>1, FlowParts, FateSteps DEF FateStays, Leaves, TakenOver
    <2>5. seat'[s].client \in {seat[s].client, NoConn}
      <3>1. ASSUME NEW d \in Conns, Rejoin(d) PROVE seat'[s].client \in {seat[s].client, NoConn}
        <4>1. PICK next : ComesBack(d, next)
          BY <3>1, FlowParts, RejoinOwn
        <4>2. Owner[d] # s
          BY <1>4, <1>6, <3>1, <4>1 DEF ComesBack
        <4> QED
          BY <1>1, <1>4, <4>1, <4>2 DEF ComesBack, TypeOK, Seats
      <3> QED
        BY <1>1, <1>4, <3>1, SeatFrame DEF SeatLoses
    <2> QED
      BY <1>11, <2>2, <2>4, <2>5, FlowParts, ConstantsAssumption
  <1> QED
    BY <1>4, <1>8, <1>9, <1>10, <1>11, <1>12 DEF NotBegunFor, Tick, s

-----------------------------------------------------------------------------
(* Loading and acknowledging.                                              *)

LEMMA AckStep ==
  ASSUME TypeOK, NEW d \in Conns, Acks(d)
  PROVE  /\ \E tk \in Nat : /\ tk < NextBundleTick(Owner[d])
                            /\ conn'[d].ackTick \in {conn[d].ackTick, tk}
         /\ conn'[d].loaded = conn[d].loaded /\ conn'[d].state = conn[d].state
         /\ UNCHANGED <<room, seat, log, job, peer>>
  <1>1. conn \in [Conns -> Connections] /\ conn[d] \in Connections /\ 0 .. MaxTicks \subseteq Nat
    BY ConstantsAssumption DEF TypeOK
  <1>2. PICK tk \in 0 .. MaxTicks : StateHash(d, tk) \/ \E lead \in Leads : Progress(d, tk, lead)
    BY DEF Acks
  <1>3. tk < NextBundleTick(Owner[d]) /\ UNCHANGED <<room, seat, log, job, peer>>
    BY <1>2 DEF StateHash, Progress, roomVars
  <1>4. /\ conn'[d].ackTick \in {conn[d].ackTick, tk}
        /\ conn'[d].loaded = conn[d].loaded /\ conn'[d].state = conn[d].state
    <2>1. CASE StateHash(d, tk)
      <3>1. PICK a \in {conn[d].ackTick, tk} : conn' = [conn EXCEPT ![d].ackTick = a]
        BY <2>1 DEF StateHash
      <3> QED
        BY <1>1, <3>1 DEF Connections
    <2>2. ASSUME NEW lead \in Leads, Progress(d, tk, lead)
          PROVE  /\ conn'[d].ackTick \in {conn[d].ackTick, tk}
                 /\ conn'[d].loaded = conn[d].loaded /\ conn'[d].state = conn[d].state
      <3>1. PICK a \in {conn[d].ackTick, tk} :
              conn' = [conn EXCEPT ![d].ackTick = a, ![d].leadTicks = lead]
        BY <2>2 DEF Progress
      <3> QED
        BY <1>1, <3>1 DEF Connections
    <2> QED
      BY <1>2, <2>1, <2>2
  <1> QED
    BY <1>1, <1>3, <1>4

\* The client a seat has after a step had it before, or comes back to it.
LEMMA ClientStays ==
  ASSUME Flowing, [Next]_vars, room'.running, NEW s \in Slots, Connected(s)'
  PROVE  LET d == seat'[s].client
         IN  /\ d \in Conns /\ Owner[d] = s /\ room.running
             /\ \/ Rejoin(d)
                \/ /\ Connected(s) /\ d = seat[s].client
                   /\ SameConn(d) \/ Loaded(d) \/ Acks(d)
  <1>1. TypeOK /\ SeatInv' /\ SeatedByOwner' /\ TypeOK'
    BY FlowParts, NextSeats, NextSeated, NextType DEF SeatInv
  <1> DEFINE d == seat'[s].client
  <1>2. d \in Conns /\ conn'[d].state = "game" /\ d # NoConn /\ Owner[d] = s
    BY <1>1 DEF SeatInv, SeatOwnership, SeatedByOwner, Connected, InGame, TypeOK, Seats
  <1>3. room.running
    BY <1>1, SeatFrame
  <1>4. CASE ~Rejoin(d)
    <2>1. d = seat[s].client /\ Connected(s)
      <3>1. CASE SeatLoses(s)
        BY <1>2, <3>1 DEF SeatLoses, Connected
      <3>2. ASSUME NEW x \in Conns, Rejoin(x) PROVE d = seat[s].client
        <4>1. PICK next : ComesBack(x, next)
          BY <1>1, <3>2, FlowParts, RejoinOwn
        <4>2. d = IF s = Owner[x] THEN x ELSE seat[s].client
          BY <1>1, <4>1 DEF ComesBack, TypeOK, Seats
        <4> QED
          BY <1>4, <3>2, <4>2
      <3> QED
        BY <1>1, <1>2, <3>1, <3>2, SeatFrame DEF Connected
    <2>2. ~Spectate(d)
      BY <1>3, <2>1, SeatsClient DEF Spectate, InGame
    <2> QED
      BY <1>1, <1>2, <1>3, <1>4, <2>1, <2>2, ConnFrame DEF LeftGame
  <1> QED
    BY <1>2, <1>3, <1>4

LEMMA NextLoaded ==
  ASSUME Flowing, [Next]_vars
  PROVE  AllHaveLoaded'
  <1>1. TypeOK
    BY FlowParts
  <1> SUFFICES ASSUME room'.running, Tick' > 0 \/ job'.state # "none",
                      NEW s \in Slots, Human(s)', Connected(s)'
               PROVE  conn'[seat'[s].client].loaded
    BY DEF AllHaveLoaded
  <1> DEFINE d == seat'[s].client
  <1>2. /\ d \in Conns /\ Owner[d] = s /\ room.running
        /\ \/ Rejoin(d)
           \/ Connected(s) /\ d = seat[s].client /\ (SameConn(d) \/ Loaded(d) \/ Acks(d))
    BY ClientStays
  <1>3. Human(s)
    BY <1>1, SeatFrame
  <1>4. CASE Rejoin(d)
    BY <1>2, <1>4, FlowParts, RejoinOwn DEF ComesBack
  <1>5. CASE Loaded(d)
    BY <1>1, <1>2, <1>5 DEF Loaded, TypeOK, Connections
  <1>6. CASE ~Rejoin(d) /\ ~Loaded(d)
    <2>1. conn'[d].loaded = conn[d].loaded
      BY <1>1, <1>2, <1>6, AckStep DEF SameConn
    <2>2. CASE Tick > 0 \/ job.state # "none"
      BY <1>2, <1>3, <1>6, <2>1, <2>2, FlowParts DEF AllHaveLoaded
    <2>3. CASE ~(Tick > 0 \/ job.state # "none")
      <3>1. CloseTick
        <4>1. CASE TickStep
          BY <2>3, <4>1 DEF TickStep, WorkerRuns, JobFails, FinishTick
        <4>2. CASE ~TickStep
          <5>1. log' = log /\ job' = job
            BY <1>1, <4>2, FlowParts, FateSteps DEF FateStays, Leaves, TakenOver
          <5> QED
            BY <2>3, <5>1 DEF Tick
        <4> QED
          BY <4>1, <4>2
      <3>2. Tick = 0
        BY <2>3, FlowParts DEF Tick
      <3> QED
        BY <1>2, <1>3, <1>6, <2>1, <3>1, <3>2 DEF CloseTick, AllLoaded
    <2> QED
      BY <2>2, <2>3
  <1> QED
    BY <1>4, <1>5, <1>6

LEMMA GotGrows ==
  ASSUME Flowing, [Next]_vars, NEW p \in Persons,
         ~\E c \in Conns : Owner[c] = p /\ ReadOpener(c) /\ wire[c].opener.kind = "starting"
  PROVE  Got(p) \in Nat /\ Got(p)' \in Nat /\ Got(p) <= Got(p)'
  <1>1. TypeOK /\ Streams
    BY FlowParts DEF Flowing
  <1>2. Copy(p) \in Seq(Bundles) /\ Len(Copy(p)) \in Nat /\ log \in Seq(Bundles)
    BY <1>1, PartTypes
  <1>3. Copy(p)' = Copy(p) \/ (Len(Copy(p)') \in Nat /\ Len(Copy(p)') = Len(Copy(p)) + 1)
    <2>1. CASE CopiesStay
      BY <2>1 DEF CopiesStay
    <2>2. ASSUME NEW beaten \in SUBSET {x \in Players : ~seat[x].defeated}, FinishTick(beaten)
          PROVE  Copy(p)' = Copy(p)
      BY <2>2 DEF FinishTick, Copy
    <2>3. ASSUME NEW c \in Conns, Owner[c] # p, ReadOpener(c), wire[c].opener.kind = "starting"
          PROVE  Copy(p)' = Copy(p)
      BY <1>1, <2>3, CopyStartsOver
    <2>4. ASSUME NEW c \in Conns, ReadBundle(c)
          PROVE  Copy(p)' = Copy(p) \/ (Len(Copy(p)') \in Nat /\ Len(Copy(p)') = Len(Copy(p)) + 1)
      <3>1. CASE Owner[c] # p
        BY <1>1, <2>4, <3>1, NextBundleRead
      <3>2. CASE Owner[c] = p
        <4>1. /\ Len(Copy(p)) < Len(log)
              /\ Copy(p)' = Append(Copy(p), log[Len(Copy(p)) + 1])
          BY <1>1, <2>4, <3>2, NextBundleRead
        <4>2. log[Len(Copy(p)) + 1] \in Bundles
          <5>1. Len(Copy(p)) + 1 \in 1 .. Len(log)
            BY <1>2, <4>1
          <5> QED
            BY <1>2, <5>1, ElementOfSeq
        <4>3. Len(Append(Copy(p), log[Len(Copy(p)) + 1])) = Len(Copy(p)) + 1
          BY <1>2, <4>2, AppendProperties
        <4> QED
          BY <1>2, <4>1, <4>3
      <3> QED
        BY <3>1, <3>2
    <2> QED
      BY <1>1, <2>1, <2>2, <2>3, <2>4, CopySteps
  <1>4. Got(p) = (IF Len(Copy(p)) = 0 THEN 1 ELSE Len(Copy(p)))
        /\ Got(p)' = (IF Len(Copy(p)') = 0 THEN 1 ELSE Len(Copy(p)'))
    BY DEF Got, Copy
  <1> QED
    BY <1>2, <1>3, <1>4

\* A client that has just been given a token has one from before, or a game
\* that has not begun.
LEMMA TokenIsNew ==
  ASSUME Flowing, [Next]_vars, NEW s \in Slots, s \in Persons, peer'[s].token # NoToken
  PROVE  \/ /\ peer[s].token # NoToken
            /\ ~\E c \in Conns : Owner[c] = s /\ ReadOpener(c) /\ wire[c].opener.kind = "starting"
         \/ \E c \in Conns : Owner[c] = s /\ ReadOpener(c) /\ Unread(c)
  <1>1. TypeOK
    BY FlowParts
  <1>2. ASSUME NEW c \in Conns, Owner[c] = s, ReadOpener(c), wire[c].opener.kind = "starting"
        PROVE  Unread(c)
    <2>1. PICK me : me.token = wire[c].opener.token /\ peer' = [peer EXCEPT ![s] = me]
      BY <1>2 DEF ReadOpener
    <2>2. peer'[s].token = wire[c].opener.token
      BY <1>1, <2>1 DEF TypeOK
    <2> QED
      BY <1>2, <2>2 DEF Unread
  <1>3. ASSUME NEW c \in Conns, Owner[c] = s, ReadOpener(c), wire[c].opener.kind # "starting"
        PROVE  peer[s].token # NoToken
    <2>1. wire[c].opener.kind = "reseated" /\ c \in up
      BY <1>1, <1>3, PartTypes DEF ReadOpener, Openers
    <2> QED
      BY <1>3, <2>1, FlowParts DEF ReseatedHadToken
  <1> QED
    BY <1>1, <1>2, <1>3, PeerFrame DEF SamePeer

LEMMA NextAcks ==
  ASSUME Flowing, [Next]_vars
  PROVE  AcksReceived'
  <1>1. TypeOK /\ Streams
    BY FlowParts DEF Flowing
  <1> SUFFICES ASSUME room'.running, NEW s \in Slots, StillIn(s)', Connected(s)', peer'[s].token # NoToken
               PROVE  conn'[seat'[s].client].ackTick < Got(s)'
    BY DEF AcksReceived
  <1> DEFINE d == seat'[s].client
             n == NextBundleTick(s)
  <1>2. /\ d \in Conns /\ Owner[d] = s /\ room.running
        /\ \/ Rejoin(d)
           \/ Connected(s) /\ d = seat[s].client /\ (SameConn(d) \/ Loaded(d) \/ Acks(d))
    BY ClientStays
  <1>3. StillIn(s) /\ s \in Persons
    BY <1>1, SeatFrame, FlowParts DEF StillIn
  <1>4. n = Len(Copy(s)) /\ n \in Nat /\ Got(s) = IF n = 0 THEN 1 ELSE n
    BY <1>1, <1>3, NextIsLen, PartTypes DEF Got, Copy
  <1>5. ASSUME NEW c \in Conns, Owner[c] = s, ReadOpener(c), Unread(c) PROVE conn'[d].ackTick < Got(s)'
    <2>1. NotBegunFor(c) /\ UNCHANGED <<conn, seat>>
      BY <1>5, FlowParts DEF BeginsTogether, ReadOpener, roomVars
    <2>2. d = c /\ conn'[d].ackTick = 0
      BY <1>2, <1>3, <1>5, <2>1 DEF NotBegunFor, Connected
    <2>3. Got(s)' = 1
      BY <1>1, <1>5, CopyStartsOver DEF Unread, Got, Copy
    <2> QED
      BY <2>2, <2>3
  <1>6. CASE /\ peer[s].token # NoToken
             /\ ~\E c \in Conns : Owner[c] = s /\ ReadOpener(c) /\ wire[c].opener.kind = "starting"
    <2>1. Got(s) \in Nat /\ Got(s)' \in Nat /\ Got(s) <= Got(s)'
      BY <1>3, <1>6, GotGrows
    <2>2. conn'[d].ackTick \in Nat /\ conn'[d].ackTick < Got(s)
      <3>1. CASE Rejoin(d)
        <4>1. conn'[d].ackTick = IF n = 0 THEN 0 ELSE n - 1
          BY <1>1, <1>2, <3>1, FlowParts, RejoinOwn DEF ComesBack
        <4> QED
          BY <1>4, <4>1
      <3>2. CASE ~Rejoin(d)
        <4>1. conn[d].ackTick \in Nat /\ conn[d].ackTick < Got(s)
          BY <1>1, <1>2, <1>3, <1>6, <3>2, FlowParts DEF AcksReceived, TypeOK, Connections
        <4>2. CASE Acks(d)
          <5>1. PICK tk \in Nat : tk < n /\ conn'[d].ackTick \in {conn[d].ackTick, tk}
            BY <1>1, <1>2, <4>2, AckStep
          <5> QED
            BY <1>4, <4>1, <5>1
        <4>3. CASE Loaded(d)
          <5>1. conn'[d].ackTick = conn[d].ackTick
            BY <1>1, <1>2, <4>3 DEF Loaded, TypeOK, Connections
          <5> QED
            BY <4>1, <5>1
        <4>4. CASE SameConn(d)
          BY <4>1, <4>4 DEF SameConn
        <4> QED
          BY <1>2, <3>2, <4>2, <4>3, <4>4
      <3> QED
        BY <3>1, <3>2
    <2> QED
      BY <2>1, <2>2
  <1> QED
    BY <1>3, <1>5, <1>6, TokenIsNew

-----------------------------------------------------------------------------
(* The bound itself.                                                       *)

LEMMA NextFlow ==
  ASSUME Flowing, [Next]_vars
  PROVE  FlowBound'
  <1>1. TypeOK /\ Streams /\ JobInRoom /\ Len(log) \in Nat /\ MaxLead \in Nat /\ SeatInv
        /\ log \in Seq(Bundles)
    BY FlowParts, PartTypes DEF Flowing
  <1> SUFFICES ASSUME room'.running, NEW s \in Slots, StillIn(s)', peer'[s].token # NoToken
               PROVE  Len(log') + InFlight' <= Got(s)' + MaxLead
    BY DEF FlowBound, Got, Tick
  <1>2. room.running /\ StillIn(s) /\ s \in Persons
    BY <1>1, SeatFrame, FlowParts DEF StillIn
  <1>3. InFlight \in {0, 1} /\ InFlight' \in {0, 1}
    BY DEF InFlight
  <1>4. ASSUME NEW c \in Conns, Owner[c] = s, ReadOpener(c), Unread(c)
        PROVE  Len(log') + InFlight' <= Got(s)' + MaxLead
    <2>1. NotBegunFor(c) /\ UNCHANGED <<log, job>>
      BY <1>4, FlowParts DEF BeginsTogether, ReadOpener, roomVars
    <2>2. Len(log') = 0 /\ InFlight' = 0
      BY <1>2, <1>4, <2>1 DEF NotBegunFor, Tick, InFlight
    <2>3. Got(s)' = 1
      BY <1>1, <1>4, CopyStartsOver DEF Unread, Got, Copy
    <2> QED
      BY <1>1, <2>2, <2>3
  <1>5. CASE /\ peer[s].token # NoToken
             /\ ~\E c \in Conns : Owner[c] = s /\ ReadOpener(c) /\ wire[c].opener.kind = "starting"
    <2>1. Got(s) \in Nat /\ Got(s)' \in Nat /\ Got(s) <= Got(s)'
      BY <1>2, <1>5, GotGrows
    <2>2. Len(log) + InFlight <= Got(s) + MaxLead
      BY <1>2, <1>5, FlowParts DEF FlowBound, Got, Tick
    <2>3. CASE CloseTick
      <3>1. Paces(s)
        BY <1>2, <2>3, TickHasPlayer
      <3> DEFINE d == seat[s].client
                 a == conn[d].ackTick
                 l == conn[d].leadTicks
      <3>2. d \in Conns /\ Connected(s)
        BY <1>2, <3>1, SeatsClient DEF Paces
      <3>3. a \in Nat /\ l \in 0 .. MaxLead
        BY <1>1, <3>2 DEF TypeOK, Connections
      <3>4. Len(log) <= a + l
        BY <2>3, <3>1 DEF CloseTick, CanAdvance, InLead, Tick
      <3>5. a < Got(s)
        BY <1>2, <1>5, <3>2, FlowParts DEF AcksReceived
      <3> HIDE DEF a, l
      <3>6. Len(log) + 1 <= Got(s) + MaxLead
        BY <1>1, <2>1, <3>3, <3>4, <3>5
      <3>7. log' = log
        BY <2>3 DEF CloseTick
      <3> QED
        BY <1>1, <1>3, <2>1, <3>6, <3>7
    <2>4. ASSUME NEW beaten \in SUBSET {x \in Players : ~seat[x].defeated}, FinishTick(beaten)
          PROVE  Len(log') + InFlight' <= Got(s)' + MaxLead
      <3>1. InFlight = 1 /\ InFlight' = 0
        BY <2>4 DEF FinishTick, InFlight, NoJob
      <3>2. Len(log') = Len(log) + 1
        <4>1. PICK bundle \in Bundles : log' = Append(log, bundle)
          BY <1>1, <2>4 DEF FinishTick, Bundles, Tick, TypeOK, Jobs
        <4> QED
          BY <1>1, <4>1, AppendProperties
      <3> QED
        BY <1>1, <2>1, <2>2, <3>1, <3>2
    <2>5. CASE WorkerRuns \/ JobFails
      <3>1. log' = log /\ InFlight = 1
        BY <2>5 DEF WorkerRuns, JobFails, InFlight
      <3> QED
        BY <1>1, <1>3, <2>1, <2>2, <3>1
    <2>6. CASE ~TickStep
      <3>1. log' = log /\ job' = job
        BY <1>1, <2>6, FateSteps DEF FateStays, Leaves, TakenOver
      <3>2. InFlight' = InFlight
        BY <3>1 DEF InFlight
      <3> QED
        BY <1>1, <1>3, <2>1, <2>2, <3>1, <3>2
    <2> QED
      BY <2>3, <2>4, <2>5, <2>6 DEF TickStep
  <1> QED
    BY <1>2, <1>4, <1>5, TokenIsNew

LEMMA InitFlow == Init => FlowInv
  <1> SUFFICES ASSUME Init PROVE FlowInv
    OBVIOUS
  <1>1. Len(log) = 0 /\ log = <<>> /\ job.state = "none" /\ InFlight = 0
    BY DEF Init, NoJob, InFlight
  <1>2. \A p \in Persons : peer[p] = [phase |-> "away", token |-> NoToken, replayLog |-> <<>>]
    BY DEF Init
  <1>3. \A p \in Players : Seated[p] \in Conns /\ Owner[Seated[p]] = p
    BY ConstantsAssumption
  <1>4. HumansArePlayers
    BY DEF Init, HumansArePlayers, Human
  <1>5. ASSUME NEW c \in Conns
        PROVE  /\ wire[c].opener.kind \in {"none", "starting"}
               /\ wire[c].opener.token # NoToken =>
                    /\ \E p \in Players : Seated[p] = c
                    /\ wire[c].opener.token[1] = Owner[c]
    BY DEF Init, EmptyWire, NoOpener, Opener
  <1>6. ASSUME NEW s \in Slots
        PROVE  /\ seat[s].token = NoToken \/ seat[s].token[1] = s
               /\ Connected(s) => s \in Players /\ seat[s].client = Seated[s]
    BY DEF Init, Connected
  <1>7. TokensOwn
    BY <1>2, <1>5, <1>6 DEF TokensOwn, TokenOfItsOwn
  <1>8. SeatedByOwner
    BY <1>3, <1>6 DEF SeatedByOwner
  <1>9. ReseatedHadToken
    BY <1>5, InitType DEF ReseatedHadToken, TypeOK
  <1>10. BeginsTogether
    <2> SUFFICES ASSUME NEW c \in Conns, Unread(c) PROVE NotBegunFor(c)
      BY DEF BeginsTogether
    <2>1. PICK p \in Players : Seated[p] = c
      BY <1>5 DEF Unread
    <2>2. Owner[c] = p /\ p \in Slots /\ p \in Persons
      BY <1>3, <2>1 DEF Players, Persons
    <2>3. c \in up /\ conn[c].ackTick = 0 /\ ~conn[c].loaded
      BY <2>1 DEF Init, Outside
    <2>4. seat[p].client = c
      BY <2>1, <2>2 DEF Init
    <2> QED
      BY <1>1, <1>2, <2>2, <2>3, <2>4 DEF NotBegunFor, Tick
  <1>11. AllHaveLoaded
    BY <1>1 DEF AllHaveLoaded, Tick
  <1>12. AcksReceived /\ FlowBound
    <2>1. \A s \in Slots : StillIn(s) => peer[s].token = NoToken
      BY <1>2, <1>4 DEF StillIn, HumansArePlayers, Persons
    <2> QED
      BY <2>1 DEF AcksReceived, FlowBound
  <1> QED
    BY <1>4, <1>7, <1>8, <1>9, <1>10, <1>11, <1>12 DEF FlowInv

LEMMA NextFlowInv ==
  ASSUME Flowing, [Next]_vars
  PROVE  FlowInv'
  <1>1. HumansArePlayers'
    <2>1. \A s \in Slots : Human(s)' => Human(s)
      BY FlowParts, SeatFrame
    <2> QED
      BY <2>1, FlowParts DEF HumansArePlayers
  <1> QED
    BY <1>1, NextTokens, NextSeated, NextReseated, NextBegins, NextLoaded, NextAcks, NextFlow DEF FlowInv

\* However the links behave, the room has closed at most a lead's worth of
\* ticks more than a player still in the game has received.
THEOREM FlowIsBounded == Spec => []FlowBound
  <1>1. Streams /\ HeldSeatAccounted /\ FlowInv /\ [Next]_vars => FlowInv'
    BY NextFlowInv DEF Flowing
  <1>2. FlowInv => FlowBound
    BY DEF FlowInv
  <1> QED
    BY <1>1, <1>2, InitFlow, StreamsHold, SeatsAreHeld, PTL DEF Spec

================================================================================
