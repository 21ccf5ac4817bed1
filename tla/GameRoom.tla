------------------------------ MODULE GameRoom ------------------------------
(***************************************************************************)
(* One running game of the multiplayer server (src/src/server/server.cpp,  *)
(* struct Room) together with the connections attached to it and the       *)
(* players' clients (src/src/net/client.cpp).                              *)
(*                                                                         *)
(* The server closes numbered ticks.  A closed tick is simulated by the    *)
(* room's worker thread while the network thread goes on serving clients;  *)
(* when it lands, its bundle is appended to the room's log and broadcast.  *)
(* Players whose link goes are waited for, come back by name of a resume   *)
(* token and are streamed what they missed; spectators are streamed the    *)
(* whole log.  A seat nobody comes back to is taken over by a server AI,   *)
(* as an event sequenced in the tick stream itself.                        *)
(*                                                                         *)
(* Time is abstracted: a wait may run out, and a silence may pass the      *)
(* stall threshold, at any moment.  Commands are the module CommandWindow; *)
(* hashes and the lobby are not modelled.                                  *)
(***************************************************************************)
EXTENDS Integers, Sequences, FiniteSets

CONSTANTS
  NSlots,           \* seats of the room (kMaxSlots at most)
  AiStart,          \* the seats that began as AI players
  Watchers,         \* people who may watch; the others are named by their seat
  Conns,            \* connection ids; the server never reuses one (nextClientId_)
  Owner,            \* whose client opens a connection
  Seated,           \* the connection each player sat down with in the lobby
  StartWatchers,    \* connections watching since before the start
  AllowSpectators,  \* GameOptions::allowSpectators
  Leads,            \* leads flowLeadTicks can grant, scaled down
  MaxLead,          \* kMaxLeadTicks, scaled down
  MaxTicks,         \* bound: the game ends after this many ticks
  NoConn            \* slotClient[i] = -1

Slots == 1 .. NSlots
Players == Slots \ AiStart
Persons == Players \cup Watchers
NoSlot == 0                     \* Client::slot = -1

(***************************************************************************)
(* Resume tokens.  randToken() never repeats, so the n-th token rolled for *)
(* seat s is the pair <<s, n>>; NoToken is the token 0.                    *)
(***************************************************************************)
NoToken == <<0, 0>>
Tokens == {NoToken} \cup (Slots \X Nat)

ASSUME ConstantsAssumption ==
  /\ NSlots \in Nat \ {0}
  /\ AiStart \subseteq Slots
  /\ Watchers \cap Slots = {}
  /\ Owner \in [Conns -> Persons]
  /\ Seated \in [Players -> Conns]
  /\ \A p \in Players : Owner[Seated[p]] = p
  /\ StartWatchers \subseteq Conns
  /\ \A c \in StartWatchers : Owner[c] \in Watchers
  /\ \A c, d \in StartWatchers : Owner[c] = Owner[d] => c = d
  /\ AllowSpectators \in BOOLEAN
  /\ MaxLead \in Nat
  /\ Leads \subseteq 0 .. MaxLead
  /\ MaxTicks \in Nat
  /\ NoConn \notin Conns
  /\ Players # {} \/ StartWatchers # {}

VARIABLES
  room,      \* the Room's flags: running, paused, hostId, spectators, error
  seat,      \* per slot: slots[i].type, slotClient, tokens, wait, defeated
  conn,      \* the server's Client record of each connection
  log,       \* Room::log, one bundle per published tick; Room::tick is its length
  job,       \* Room::tickJob and the input frozen into it
  pending,   \* Room::pendingEvents
  ai,        \* Room::ai: how many controllers play each slot
  up,        \* connections whose client end is open
  wire,      \* what the server has sent a connection and its client has not read
  peer       \* each person's client

roomVars == <<room, seat, log, job, pending, ai>>
vars == <<room, seat, conn, log, job, pending, ai, up, wire, peer>>

-----------------------------------------------------------------------------
(* Values *)

Event(kind, s) == [kind |-> kind, player |-> s]
Events == [kind : {"Leave", "AiTakeover"}, player : Slots]

(* A published tick: its number, its sequenced events, and the seats whose *)
(* AI controllers were asked for commands while it was simulated.          *)
Bundles == [tick : Nat, events : Seq(Events), ais : SUBSET Slots]

NoJob == [state |-> "none", events |-> <<>>, ais |-> {}]
Jobs == [state : {"none", "running", "done"}, events : Seq(Events), ais : SUBSET Slots]

Rooms == [running : BOOLEAN, paused : BOOLEAN, host : Conns,
          spectators : SUBSET Conns, error : BOOLEAN]
Seats == [type : {"human", "ai", "closed"}, client : Conns \cup {NoConn},
          token : Tokens, taken : Tokens, waiting : BOOLEAN, defeated : BOOLEAN]
ConnStates == {"none", "lobby", "game", "closed", "bye"}
Connections == [state : ConnStates, slot : Slots \cup {NoSlot}, loaded : BOOLEAN,
                replaying : BOOLEAN, replayPos : Nat, ackTick : Nat,
                leadTicks : 0 .. MaxLead, silent : BOOLEAN]
Openers == [kind : {"none", "starting", "reseated"}, token : Tokens]
Wires == [opener : Openers, bundles : Seq(Bundles)]
Peers == [phase : {"away", "starting", "playing", "watching", "lost"},
          token : Tokens, replayLog : Seq(Bundles)]

(* The Client record of a connection outside any game.                     *)
Outside(state) ==
  [state |-> state, slot |-> NoSlot, loaded |-> FALSE, replaying |-> FALSE,
   replayPos |-> 0, ackTick |-> 0, leadTicks |-> MaxLead, silent |-> FALSE]

(* What opens a stream: GameStarting or Reseated, with the token inside.   *)
Opener(kind, token) == [kind |-> kind, token |-> token]
NoOpener == Opener("none", NoToken)
EmptyWire == [opener |-> NoOpener, bundles |-> <<>>]

Tick == Len(log)                  \* Room::tick, the next tick to close
InGame(c) == conn[c].state = "game"
Human(s) == seat[s].type = "human"
Connected(s) == seat[s].client # NoConn

Waiting == \E s \in Slots : seat[s].waiting
Held == room.paused \/ Waiting

Occupied == room.spectators # {} \/ \E s \in Slots : Connected(s)

RoomActive ==
  \/ \E s \in Slots : Human(s) /\ (Connected(s) \/ seat[s].waiting)
  \/ room.spectators # {} /\ \E s \in Slots : seat[s].type = "ai"

(* Somebody else to wait with (Server::waitedWith).                        *)
WaitedWith(s) ==
  room.spectators # {} \/ \E t \in Slots \ {s} : Connected(t)

(* Still a player of the game, in the eyes of the last published tick.     *)
StillIn(s) == Human(s) /\ ~seat[s].defeated

(* One past the newest bundle the client received (nextBundleTick_).       *)
NewestBundleTick(p) ==
  LET got == peer[p].replayLog
  IN  IF got = <<>> THEN 0 ELSE got[Len(got)].tick

NextBundleTick(p) ==
  LET got == peer[p].replayLog
  IN  IF got = <<>> THEN 0 ELSE got[Len(got)].tick + 1

-----------------------------------------------------------------------------
(* The game has just been started (Server::tryStart): every seated player  *)
(* has been sent GameStarting with a token and is loading; whoever created *)
(* the game to watch it is a spectator and needs no seat.                  *)

Init ==
  /\ \E host \in {Seated[p] : p \in Players} \cup StartWatchers :
       room = [running |-> TRUE, paused |-> FALSE, host |-> host,
               spectators |-> StartWatchers, error |-> FALSE]
  /\ seat = [s \in Slots |->
       [type     |-> IF s \in Players THEN "human" ELSE "ai",
        client   |-> IF s \in Players THEN Seated[s] ELSE NoConn,
        token    |-> IF s \in Players THEN <<s, 1>> ELSE NoToken,
        taken    |-> NoToken,
        waiting  |-> FALSE,
        defeated |-> FALSE]]
  /\ conn = [c \in Conns |->
       IF \E p \in Players : Seated[p] = c
       THEN [Outside("game") EXCEPT !.slot = Owner[c]]
       ELSE IF c \in StartWatchers THEN [Outside("game") EXCEPT !.loaded = TRUE]
       ELSE Outside("none")]
  /\ log = <<>>
  /\ job = NoJob
  /\ pending = <<>>
  /\ ai = [s \in Slots |-> IF s \in AiStart THEN 1 ELSE 0]
  /\ up = {Seated[p] : p \in Players} \cup StartWatchers
  /\ wire = [c \in Conns |->
       IF \E p \in Players : Seated[p] = c
       THEN [EmptyWire EXCEPT !.opener = Opener("starting", <<Owner[c], 1>>)]
       ELSE IF c \in StartWatchers THEN [EmptyWire EXCEPT !.opener = Opener("starting", NoToken)]
       ELSE EmptyWire]
  /\ peer = [p \in Persons |-> [phase |-> "away", token |-> NoToken, replayLog |-> <<>>]]

-----------------------------------------------------------------------------
(* What a connection's client sends.                                       *)

(* A frame of c can be handled now.  While a connection is silent nothing  *)
(* of it is; its next frame is Speak.                                      *)
Talks(c) == c \in up /\ ~conn[c].silent
Plays(c) == peer[Owner[c]].phase \in {"playing", "watching"}

(* A seated client has sent nothing for gStallMs.                          *)
GoSilent(c) ==
  /\ InGame(c) /\ conn[c].slot # NoSlot
  /\ ~conn[c].silent
  /\ conn' = [conn EXCEPT ![c].silent = TRUE]
  /\ UNCHANGED <<roomVars, up, wire, peer>>

Speak(c) ==
  /\ c \in up /\ conn[c].silent
  /\ conn' = [conn EXCEPT ![c].silent = FALSE]
  /\ UNCHANGED <<roomVars, up, wire, peer>>

(* Msg::Loaded                                                             *)
Loaded(c) ==
  /\ room.running /\ InGame(c) /\ Talks(c)
  /\ peer[Owner[c]].phase = "starting"
  /\ ~conn[c].loaded
  /\ conn' = [conn EXCEPT ![c].loaded = TRUE]
  /\ UNCHANGED <<roomVars, up, wire, peer>>

(* Msg::Progress: the client has processed tick tk; its lead is sized from *)
(* the round trip it reports.                                              *)
Progress(c, tk, lead) ==
  /\ room.running /\ InGame(c) /\ Talks(c) /\ Plays(c)
  /\ tk < NextBundleTick(Owner[c])
  /\ tk < Tick
  /\ conn' = [conn EXCEPT ![c].ackTick = IF tk > @ THEN tk ELSE @,
                          ![c].leadTicks = lead]
  /\ UNCHANGED <<roomVars, up, wire, peer>>

(* Msg::StateHash, as far as flow control goes: an ack that leaves the     *)
(* lead alone.                                                             *)
StateHash(c, tk) ==
  /\ room.running /\ InGame(c) /\ Talks(c) /\ Plays(c)
  /\ tk < NextBundleTick(Owner[c])
  /\ tk < Tick
  /\ conn' = [conn EXCEPT ![c].ackTick = IF tk > @ THEN tk ELSE @]
  /\ UNCHANGED <<roomVars, up, wire, peer>>

(* Msg::SetPause: the host's alone.                                        *)
SetPause(c) ==
  /\ room.running /\ InGame(c) /\ Talks(c) /\ Plays(c)
  /\ room.host = c
  /\ room' = [room EXCEPT !.paused = ~@]
  /\ UNCHANGED <<seat, conn, log, job, pending, ai, up, wire, peer>>

-----------------------------------------------------------------------------
(* Leaving and losing a connection.                                        *)

(* The seat of a player who left.                                          *)
ForfeitedHuman(st) == [st EXCEPT !.client = NoConn, !.waiting = FALSE]
ForfeitedWaiting(st) == [st EXCEPT !.type = "closed", !.client = NoConn]

Forfeited(st) == [st EXCEPT !.type = "closed", !.client = NoConn, !.waiting = FALSE]

(* Server::leaveRoom for a running game: a spectator just goes; a seated   *)
(* player forfeits, by an event of the next tick.                          *)
LeaveRoom(c) ==
  \/ /\ c \in room.spectators
     /\ room' = [room EXCEPT !.spectators = @ \ {c}]
     /\ UNCHANGED <<seat, pending>>
  \/ /\ c \notin room.spectators
     /\ LET s == conn[c].slot IN
          /\ seat' = [seat EXCEPT ![s] = Forfeited(@)]
          /\ pending' = Append(pending, Event("Leave", s))
     /\ UNCHANGED room

(* Msg::LeaveGame.  What is still on its way to the client is of a game it *)
(* has left.                                                               *)
LeaveGame(c) ==
  /\ room.running /\ InGame(c) /\ Talks(c)
  /\ peer[Owner[c]].phase \in {"starting", "playing", "watching"}
  /\ LeaveRoom(c)
  /\ conn' = [conn EXCEPT ![c] = Outside("lobby")]
  /\ wire' = [wire EXCEPT ![c] = EmptyWire]
  /\ peer' = [peer EXCEPT ![Owner[c]].phase = "away"]
  /\ UNCHANGED <<log, job, ai, up>>

(* Server::dropClient: the connection failed or timed out.  In a running   *)
(* game the seat of a player still in it is held and the room waits.       *)
HoldsSeat(c) ==
  /\ InGame(c) /\ conn[c].slot # NoSlot
  /\ StillIn(conn[c].slot)

DropClient(c) ==
  /\ conn[c].state \in {"lobby", "game"}
  /\ \/ /\ HoldsSeat(c)
        /\ seat' = [seat EXCEPT ![conn[c].slot].client = NoConn,
                                ![conn[c].slot].waiting = TRUE]
        /\ UNCHANGED <<room, pending>>
     \/ /\ InGame(c) /\ ~HoldsSeat(c)
        /\ LeaveRoom(c)
     \/ /\ ~InGame(c)
        /\ UNCHANGED <<room, seat, pending>>
  /\ conn' = [conn EXCEPT ![c] = Outside("closed")]
  /\ UNCHANGED <<log, job, ai, up, wire, peer>>

-----------------------------------------------------------------------------
(* Coming back, and coming to watch.                                       *)

(* Server::unseat: the connection is told Bye and failed.                  *)
UnseatedInPlace(cs, c) == [cs EXCEPT ![c].replaying = FALSE]

Unseated(cs, c) == [cs EXCEPT ![c] = Outside("bye")]

(* A person's client opens a connection and signs in; it has one at a time *)
(* (MpClient::conn_).                                                      *)
Connect(c) ==
  /\ conn[c].state = "none"
  /\ \A d \in up : Owner[d] # Owner[c]
  /\ peer[Owner[c]].phase \in {"away", "lost"}
  /\ conn' = [conn EXCEPT ![c] = Outside("lobby")]
  /\ up' = up \cup {c}
  /\ UNCHANGED <<roomVars, wire, peer>>

(* A client that lost its link in the game asks for its seat back.         *)
Asks(c) ==
  /\ conn[c].state = "lobby" /\ Talks(c)
  /\ peer[Owner[c]].phase = "lost"

(* The seat a resume token opens.                                          *)
TokenOf(c) == peer[Owner[c]].token
Opens(c, s) == Human(s) /\ TokenOf(c) # NoToken /\ seat[s].token = TokenOf(c)

(* Msg::Rejoin accepted: the seat changes hands, its token is rotated, its *)
(* wait is over, and the log streams from the first bundle the client      *)
(* lacks.                                                                  *)
Rejoin(c) ==
  /\ Asks(c) /\ room.running
  /\ \E s \in Slots :
       LET from == NextBundleTick(Owner[c])
           old  == seat[s].client
           next == <<s, seat[s].token[2] + 1>>
       IN  /\ Opens(c, s)
           /\ from <= Tick
           /\ seat' = [seat EXCEPT ![s].client = c, ![s].token = next,
                                   ![s].waiting = FALSE]
           /\ conn' = [IF old \in Conns THEN Unseated(conn, old) ELSE conn EXCEPT ![c] =
                [Outside("game") EXCEPT
                   !.slot = s, !.loaded = TRUE,
                   !.replaying = from < Tick, !.replayPos = from,
                   !.ackTick = IF from = 0 THEN 0 ELSE from - 1]]
           /\ wire' = [wire EXCEPT ![c].opener = Opener("reseated", next)]
  /\ UNCHANGED <<room, log, job, pending, ai, up, peer>>

(* Msg::Rejoin refused, and the client takes no for an answer.             *)
RejoinRefused(c) ==
  /\ Asks(c)
  /\ \/ ~room.running
     \/ \A s \in Slots : ~Opens(c, s)
     \/ NextBundleTick(Owner[c]) > Tick
  /\ peer' = [peer EXCEPT ![Owner[c]].phase = "away"]
  /\ up' = up \ {c}
  /\ UNCHANGED <<roomVars, conn, wire>>

(* Msg::Spectate accepted (Server::sendGameStarting, catchUp): the whole   *)
(* log from tick 0.                                                        *)
Spectate(c) ==
  /\ conn[c].state = "lobby" /\ Talks(c)
  /\ peer[Owner[c]].phase = "away"
  /\ room.running /\ AllowSpectators
  /\ room' = [room EXCEPT !.spectators = @ \cup {c}]
  /\ conn' = [conn EXCEPT ![c] = [Outside("game") EXCEPT !.loaded = TRUE,
                                                         !.replaying = TRUE]]
  /\ wire' = [wire EXCEPT ![c] = [EmptyWire EXCEPT !.opener = Opener("starting", NoToken)]]
  /\ UNCHANGED <<seat, log, job, pending, ai, up, peer>>

-----------------------------------------------------------------------------
(* The tick.                                                               *)

(* A seated consumer paces the room; one that lost the game never does.    *)
Paces(s) ==
  /\ StillIn(s) /\ Connected(s)
  /\ conn[seat[s].client].loaded

InLeadAndOneMore(c) == Tick <= conn[c].ackTick + conn[c].leadTicks + 1

InLead(c) == Tick <= conn[c].ackTick + conn[c].leadTicks

(* Server::canAdvance                                                      *)
CanAdvance ==
  IF \E s \in Slots : Paces(s)
  THEN \A s \in Slots : Paces(s) => InLead(seat[s].client)
  ELSE \A c \in room.spectators : InLead(c)

(* The run loop looks at a room's tick at all.                             *)
TickDue ==
  /\ room.running /\ ~Held /\ job.state = "none" /\ ~room.error
  /\ Occupied /\ RoomActive

AllLoaded == \A s \in Slots : Human(s) /\ Connected(s) => conn[seat[s].client].loaded

(* Server::closeTick: the input is frozen and handed to the room's worker. *)
CloseTick ==
  /\ TickDue /\ CanAdvance
  /\ Tick = 0 => AllLoaded
  /\ Tick < MaxTicks
  /\ job' = [state |-> "running", events |-> pending, ais |-> {}]
  /\ pending' = <<>>
  /\ UNCHANGED <<room, seat, conn, log, ai, up, wire, peer>>

(* simulateRoomTick on the worker thread: each AI controller there is now  *)
(* is asked for its commands.                                              *)
WorkerRuns ==
  /\ job.state = "running"
  /\ job' = [job EXCEPT !.state = "done", !.ais = {s \in Slots : ai[s] > 0}]
  /\ UNCHANGED <<room, seat, conn, log, pending, ai, up, wire, peer>>

(* Who a live bundle is sent to (Server::broadcastRoom): whoever is still  *)
(* catching up gets it from the log instead.                               *)
InRoom(c) == c \in room.spectators \/ \E s \in Slots : seat[s].client = c
LiveOrReplaying(c) == c \in up /\ InRoom(c)

Live(c) == c \in up /\ InRoom(c) /\ ~conn[c].replaying

(* Server::finishTick: one completed tick is published, and the players it *)
(* defeated are known.                                                     *)
FinishTick(beaten) ==
  /\ job.state = "done"
  /\ LET bundle == [tick |-> Tick, events |-> job.events, ais |-> job.ais]
     IN  /\ log' = Append(log, bundle)
         /\ wire' = [c \in Conns |->
              IF Live(c) THEN [wire[c] EXCEPT !.bundles = Append(@, bundle)] ELSE wire[c]]
  /\ seat' = [s \in Slots |->
       IF s \in beaten THEN [seat[s] EXCEPT !.defeated = TRUE] ELSE seat[s]]
  /\ job' = NoJob
  /\ UNCHANGED <<room, conn, pending, ai, up, peer>>

(* The simulation threw, or the replay's memory limit was met.             *)
JobFails ==
  /\ job.state = "done"
  /\ job' = NoJob
  /\ room' = [room EXCEPT !.error = TRUE]
  /\ UNCHANGED <<seat, conn, log, pending, ai, up, wire, peer>>

(* The catch-up feed: what fits the connection's write buffer, up to tick  *)
(* n; at the log's end the live broadcast takes over.                      *)
Feed(c, n) ==
  /\ conn[c].replaying /\ InGame(c) /\ room.running
  /\ n \in conn[c].replayPos .. Tick
  /\ n > conn[c].replayPos \/ n = Tick
  /\ conn' = [conn EXCEPT ![c].replayPos = n, ![c].replaying = n < Tick]
  /\ wire' = [wire EXCEPT ![c].bundles =
       IF c \in up THEN @ \o SubSeq(log, conn[c].replayPos + 1, n) ELSE @]
  /\ UNCHANGED <<roomVars, up, peer>>

(* The room ends: the simulation failed, or nobody is left in it.          *)
Teardown ==
  /\ room.running /\ job.state = "none"
  /\ room.error \/ ~Occupied \/ ~RoomActive
  /\ room' = [room EXCEPT !.running = FALSE, !.spectators = {}]
  /\ conn' = [c \in Conns |->
       IF ~InGame(c) THEN conn[c]
       ELSE IF room.error THEN Outside("bye")
       ELSE Outside("lobby")]
  /\ UNCHANGED <<seat, log, job, pending, ai, up, wire, peer>>

-----------------------------------------------------------------------------
(* The disconnect wait (the scan in Server::run).                          *)

(* A seat whose silence the room listens for.                              *)
Watched(s) ==
  /\ room.running /\ Tick > 0
  /\ StillIn(s)
  /\ Connected(s) /\ conn[seat[s].client].loaded

(* Server::beginWait on a connection silent past gStallMs.                 *)
BeginWait(s) ==
  /\ Watched(s) /\ conn[seat[s].client].silent
  /\ ~seat[s].waiting /\ WaitedWith(s)
  /\ seat' = [seat EXCEPT ![s].waiting = TRUE]
  /\ UNCHANGED <<room, conn, log, job, pending, ai, up, wire, peer>>

(* Server::endWait: it talks again, on the connection it had.              *)
Returned(s) == Watched(s) /\ ~conn[seat[s].client].silent

EndWait(s) ==
  /\ Returned(s) /\ seat[s].waiting
  /\ seat' = [seat EXCEPT ![s].waiting = FALSE]
  /\ UNCHANGED <<room, conn, log, job, pending, ai, up, wire, peer>>

(* Server::takeOver's host rule: the controls pass to the first player     *)
(* still connected when the host's connection is gone from the room.       *)
FirstOf(S) == {s \in S : \A t \in S : s <= t}

NextHostsUnchecked(st, cs) ==
  LET left == {s \in Slots : st[s].type = "human"}
  IN  IF cs[room.host].state = "game" \/ left = {} THEN {room.host}
      ELSE {st[s].client : s \in FirstOf(left)}

NextHosts(st, cs) ==
  LET left == {s \in Slots : st[s].type = "human" /\ st[s].client # NoConn}
  IN  IF cs[room.host].state = "game" \/ left = {} THEN {room.host}
      ELSE {st[s].client : s \in FirstOf(left)}

(* Server::takeOver of a player still in the game.                         *)
AiTakesSeat(s) ==
  LET old == seat[s].client
      st  == [seat EXCEPT ![s] = [@ EXCEPT !.type = "ai", !.client = NoConn,
                !.taken = seat[s].token, !.token = NoToken, !.waiting = FALSE]]
      cs  == IF old \in Conns THEN Unseated(conn, old) ELSE conn
  IN  /\ seat' = st
      /\ conn' = cs
      /\ pending' = Append(pending, Event("AiTakeover", s))
      /\ ai' = [ai EXCEPT ![s] = @ + 1]
      /\ \E host \in NextHosts(st, cs) : room' = [room EXCEPT !.host = host]
      /\ UNCHANGED <<log, job, up, wire, peer>>

(* The wait ran out.  The scan that takes the seat over has just ended the *)
(* waits of those who talk again.  A player who lost, or left, meanwhile   *)
(* is only no longer waited for.                                           *)
DueDuringTick(s) == room.running /\ seat[s].waiting /\ ~Returned(s)
DueOnceTicking(s) ==
  /\ room.running /\ job.state = "none" /\ Tick > 0
  /\ seat[s].waiting /\ ~Returned(s)

Due(s) ==
  /\ room.running /\ job.state = "none"
  /\ seat[s].waiting /\ ~Returned(s)

TakeOver(s) ==
  /\ Due(s)
  /\ \/ /\ StillIn(s)
        /\ AiTakesSeat(s)
     \/ /\ ~StillIn(s)
        /\ seat' = [seat EXCEPT ![s].waiting = FALSE]
        /\ UNCHANGED <<room, conn, log, job, pending, ai, up, wire, peer>>

(* Server::trackHolds: a player who talks but does not keep up holds the   *)
(* room without a wait; past the seat's budget it is taken over as well.   *)
Holding(s) ==
  /\ Watched(s) /\ WaitedWith(s)
  /\ ~InLead(seat[s].client)

HoldTakeOver(s) ==
  /\ TickDue /\ Holding(s)
  /\ AiTakesSeat(s)

-----------------------------------------------------------------------------
(* The clients (MpClient::onFrame and MpClient::poll).                     *)

(* GameStarting, or Reseated.                                              *)
ReadOpener(c) ==
  /\ c \in up /\ wire[c].opener.kind # "none"
  /\ LET o == wire[c].opener IN
       peer' = [peer EXCEPT ![Owner[c]] =
         IF o.kind = "reseated"
         THEN [@ EXCEPT !.phase = "playing", !.token = o.token]
         ELSE [phase |-> IF o.token = NoToken THEN "watching" ELSE "starting",
               token |-> o.token, replayLog |-> <<>>]]
  /\ wire' = [wire EXCEPT ![c].opener = NoOpener]
  /\ UNCHANGED <<roomVars, conn, up>>

(* TickBundle: recorded as it came.                                        *)
ReadBundle(c) ==
  /\ c \in up /\ wire[c].opener.kind = "none" /\ wire[c].bundles # <<>>
  /\ LET me == peer[Owner[c]] IN
       peer' = [peer EXCEPT ![Owner[c]] =
         [me EXCEPT !.replayLog = Append(me.replayLog, Head(wire[c].bundles)),
                    !.phase = IF me.phase = "starting" THEN "playing" ELSE me.phase]]
  /\ wire' = [wire EXCEPT ![c].bundles = Tail(@)]
  /\ UNCHANGED <<roomVars, conn, up>>

(* The client finds its link broken; what was under way is lost with it,   *)
(* and so is what the server sends before it notices.  A player in the     *)
(* game may come back (lostInGame_), unless the server said Bye; so may    *)
(* one who had asked already, unless Reseated and the break are read in    *)
(* the same poll.                                                          *)
LinkBreaks(c) ==
  /\ c \in up
  /\ LET p == Owner[c]
         after == CASE peer[p].phase = "playing" -> {"lost"}
                    [] peer[p].phase = "lost" ->
                         IF wire[c].opener.kind = "reseated" THEN {"lost", "away"} ELSE {"lost"}
                    [] OTHER -> {"away"}
     IN  \E phase \in after \cup (IF conn[c].state = "bye" THEN {"away"} ELSE {}) :
           peer' = [peer EXCEPT ![p].phase = phase]
  /\ up' = up \ {c}
  /\ wire' = [wire EXCEPT ![c] = EmptyWire]
  /\ UNCHANGED <<roomVars, conn>>

(* A client's reconnect window closes (reconnectWindowMs), or its player   *)
(* stops trying.                                                           *)
GiveUp(p) ==
  /\ peer[p].phase = "lost"
  /\ \A c \in up : Owner[c] # p
  /\ peer' = [peer EXCEPT ![p].phase = "away"]
  /\ UNCHANGED <<roomVars, conn, up, wire>>

-----------------------------------------------------------------------------
Next ==
  \/ \E c \in Conns :
       \/ GoSilent(c) \/ Speak(c) \/ Loaded(c) \/ SetPause(c)
       \/ \E tk \in 0 .. MaxTicks : StateHash(c, tk) \/ \E lead \in Leads : Progress(c, tk, lead)
       \/ LeaveGame(c) \/ DropClient(c)
       \/ Connect(c) \/ Rejoin(c) \/ RejoinRefused(c) \/ Spectate(c)
       \/ \E n \in 0 .. MaxTicks : Feed(c, n)
       \/ ReadOpener(c) \/ ReadBundle(c) \/ LinkBreaks(c)
  \/ \E s \in Slots : BeginWait(s) \/ EndWait(s) \/ TakeOver(s) \/ HoldTakeOver(s)
  \/ \E p \in Persons : GiveUp(p)
  \/ CloseTick \/ WorkerRuns \/ JobFails \/ Teardown
  \/ \E beaten \in SUBSET {s \in Players : ~seat[s].defeated} : FinishTick(beaten)

Spec == Init /\ [][Next]_vars

-----------------------------------------------------------------------------
(* Fairness.  The network thread's loop looks at every room, every seat    *)
(* and every connection on each pass, and a pass comes at least once a     *)
(* second; the worker finishes each tick; clients read what they are sent, *)
(* and a client that is told to load does.  Nobody is obliged to keep up,  *)
(* or to stay.  A silence costs its seat at least a second of a finite     *)
(* budget (chargeWait), and a seat that has spent it is taken over at      *)
(* once, so a seat makes the room wait only so many times.                 *)
LoadDeadline(c) == ~conn[c].loaded /\ (conn[c].silent \/ c \notin up) /\ DropClient(c)

Fairness ==
  /\ WF_vars(WorkerRuns)
  /\ WF_vars(job.state = "done" /\ (JobFails \/ \E beaten \in SUBSET Players : FinishTick(beaten)))
  /\ WF_vars(Teardown)
  /\ WF_vars(CloseTick)
  /\ \A s \in Slots : WF_vars(EndWait(s) \/ TakeOver(s)) /\ WF_vars(HoldTakeOver(s))
  /\ \A s \in Slots : <>[][~BeginWait(s)]_vars
  /\ \A c \in Conns : WF_vars(ReadOpener(c)) /\ SF_vars(Loaded(c)) /\ WF_vars(LoadDeadline(c))

FairSpec == Spec /\ Fairness

-----------------------------------------------------------------------------
(* Properties                                                              *)

(* The variables hold the values the code's fields can.                    *)
TypeOK ==
  /\ room \in Rooms
  /\ seat \in [Slots -> Seats]
  /\ conn \in [Conns -> Connections]
  /\ log \in Seq(Bundles)
  /\ job \in Jobs
  /\ pending \in Seq(Events)
  /\ ai \in [Slots -> Nat]
  /\ up \in SUBSET Conns
  /\ wire \in [Conns -> Wires]
  /\ peer \in [Persons -> Peers]

(* A seat and a connection that name each other agree, in both directions, *)
(* and a connection in the game without a seat is a spectator's: through   *)
(* every drop, reconnect on top of a living connection and takeover no     *)
(* connection is left in a seat it lost and no seat points at a connection *)
(* that is gone (slotClient against Client::slot).                         *)
SeatOwnership ==
  room.running =>
    /\ \A s \in Slots : Connected(s) =>
         Human(s) /\ InGame(seat[s].client) /\ conn[seat[s].client].slot = s
    /\ \A c \in room.spectators : InGame(c) /\ conn[c].slot = NoSlot
    /\ \A c \in Conns : InGame(c) =>
         IF conn[c].slot = NoSlot THEN c \in room.spectators
         ELSE seat[conn[c].slot].client = c

(* No connection is in a game that has ended.                              *)
GameRunning == \A c \in Conns : InGame(c) => room.running

(* A person's client has one connection open at a time.                    *)
OneConnection == \A c, d \in up : Owner[c] = Owner[d] => c = d

(* A tick is in flight only in a running room that has not failed, and     *)
(* nothing is frozen when none is.                                         *)
JobInRoom ==
  IF job.state = "none" THEN job = NoJob ELSE room.running /\ ~room.error

LogNumbered == \A i \in DOMAIN log : log[i].tick = i - 1

Prefix(s, t) == Len(s) <= Len(t) /\ \A i \in 1 .. Len(s) : s[i] = t[i]

CopiesArePrefixes == \A p \in Persons : Prefix(peer[p].replayLog, log)

(* Nothing is under way to a connection that is not in the running game    *)
(* and never was, or has left it.                                          *)
QuietOutside ==
  \A c \in Conns :
    /\ conn[c].state = "none" => wire[c] = EmptyWire /\ c \notin up
    /\ conn[c].state = "lobby" /\ room.running => wire[c] = EmptyWire

(* What is under way to an open connection is the part of the log that     *)
(* follows what its client holds (nothing, once it reads GameStarting), up *)
(* to where the server has got with it.                                    *)
Holds(c) == IF wire[c].opener.kind = "starting" THEN 0 ELSE Len(peer[Owner[c]].replayLog)
Sent(c) == IF conn[c].replaying THEN conn[c].replayPos ELSE Len(log)

StreamInStep ==
  \A c \in up :
    LET w == wire[c].bundles
    IN  /\ Holds(c) + Len(w) <= Len(log)
        /\ \A i \in 1 .. Len(w) : w[i] = log[Holds(c) + i]
        /\ InGame(c) => Holds(c) + Len(w) = Sent(c)

(* The inductive invariant behind ImplementsLockstep.                      *)
StreamInv ==
  /\ SeatOwnership
  /\ GameRunning
  /\ OneConnection
  /\ JobInRoom
  /\ LogNumbered
  /\ CopiesArePrefixes
  /\ QuietOutside
  /\ StreamInStep

(* What has been decided about seat s, published, being simulated or yet   *)
(* to be frozen into a tick.                                               *)
EventsOf(s) ==
  LET at(es) == {i \in DOMAIN es : es[i].player = s}
  IN  Cardinality(at(job.events)) + Cardinality(at(pending))
        + Cardinality(UNION {{i} \X at(log[i].events) : i \in DOMAIN log})

(* A player's seat that is not theirs any more was given up by exactly one *)
(* event and is played by one AI controller or by nobody; a seat that is   *)
(* still a player's has no event and no controller.  Wait, leave, defeat,  *)
(* drop and takeover race for a seat; one of them wins, once.              *)
FateSequenced ==
  ~room.error =>
    \A s \in Players :
      /\ EventsOf(s) = IF Human(s) THEN 0 ELSE 1
      /\ ai[s] = IF seat[s].type = "ai" THEN 1 ELSE 0

(* The room never waits for a seat that is not a player's, and a player's  *)
(* seat without a connection is waited for unless its player has lost the  *)
(* game: no held room without a countdown, no seat forgotten.              *)
HeldSeatAccounted ==
  room.running =>
    \A s \in Slots :
      /\ seat[s].waiting => Human(s)
      /\ Human(s) /\ ~Connected(s) => seat[s].waiting \/ seat[s].defeated

(* However the link behaves, the room has closed at most a lead's worth of *)
(* ticks more than a player still in the game has received, counting the   *)
(* one in flight (canAdvance, Rejoin's ackTick, the acks of the clients).  *)
(* A player who gave up reconnecting has thrown its token away.            *)
InFlight == IF job.state = "none" THEN 0 ELSE 1
FlowBound ==
  room.running =>
    \A s \in Slots : StillIn(s) /\ peer[s].token # NoToken =>
      LET got == Len(peer[s].replayLog)
      IN  Tick + InFlight <= (IF got = 0 THEN 1 ELSE got) + MaxLead

(* No AI plays a seat in a tick before the one whose bundle says so: the   *)
(* peers mark the seat computer-owned before its first AI command, and the *)
(* controllers are never changed under the worker that runs them.          *)
AiAfterTakeover ==
  \A i \in DOMAIN log : \A s \in log[i].ais \ AiStart :
    \E j \in 1 .. i : \E k \in DOMAIN log[j].events :
      log[j].events[k] = Event("AiTakeover", s)

(* Every peer holds a prefix of the one log, extended a tick at a time, and *)
(* each seat departs once, by one published event: the room implements     *)
(* Lockstep.                                                               *)
L == INSTANCE Lockstep WITH
       Seats <- Slots, Peers <- Persons, AiSeats <- AiStart,
       copy <- [p \in Persons |-> peer[p].replayLog],
       fate <- [s \in Slots |-> seat[s].type],
       owed <- job.events \o pending,
       cut  <- room.error
ImplementsLockstep == L!Spec

(* A game shared by somebody still in it with anyone else goes on: from    *)
(* each tick it comes to the next one, unless it ends or the host pauses   *)
(* it.  No silence, lost link, slow or defeated player holds it for good.  *)
Shared == \E s \in Slots : StillIn(s) /\ WaitedWith(s)
GameGoesOn ==
  \A t \in 0 .. MaxTicks - 1 :
    (room.running /\ Tick = t) ~> (Tick > t \/ ~room.running \/ room.paused \/ ~Shared)

(* A room that waits for a player lets that player back in: whoever asks   *)
(* with the last token it was given is seated (docs/user-guide.md, "Back   *)
(* in time").                                                              *)
SeatStaysOpen ==
  room.running /\ Occupied =>
    \A c \in Conns : Asks(c) /\ seat[Owner[c]].waiting => \E s \in Slots : Opens(c, s)

(* While people are in a paused game, the one who can resume it is among    *)
(* them, or the room is waiting for somebody (Server::takeOver,             *)
(* Msg::SetPause).                                                         *)
PauseHasItsHost ==
  room.running /\ Occupied /\ room.paused /\ ~Waiting => InGame(room.host)
=============================================================================
