-------------------------------- MODULE Packages --------------------------------
(***************************************************************************)
(* How a room gets the game mods and the map it plays (server.cpp modMsg,  *)
(* mapMsg, validatePackage, finishValidations; client.cpp modFrame,        *)
(* mapFrame).  The host offers a package of the mod packs it has ticked,   *)
(* then one of the map as those packs make it; the server looks each up in *)
(* its cache, on a thread of its own, asks the host for what it lacks, and *)
(* offers what it has checked to everybody in the room.  The room may      *)
(* start when everybody has said that they have both.                      *)
(*                                                                         *)
(* A package is its digest, and goes in one piece some time after it was   *)
(* asked for.  The packages are well formed and the server has room for    *)
(* them, in memory, on disk and among the three validations it has under   *)
(* way at a time; the connections hold.                                    *)
(***************************************************************************)
EXTENDS Integers, Sequences

CONSTANTS
  Host, Guests,     \* who opens the room, and who may join it
  Packs,            \* selections of mod packs, each the digest of its package
  FirstTicks,       \* what each player has ticked to begin with
  MapOf,            \* the map's digest as the host builds it with those packs
  ServerHas,        \* packages the server may have in its cache
  MaxChanges        \* bound: times a host changes its ticks or leaves

Players == {Host} \cup Guests
Maps == {MapOf[d] : d \in Packs}
Nothing == "nothing"
Digests == Packs \cup Maps

ASSUME PackagesAssumption ==
  /\ Host \notin Guests /\ Packs \cap Maps = {} /\ Nothing \notin Digests \cup Players
  /\ FirstTicks \in [Players -> Packs]
  /\ ServerHas \subseteq Digests /\ MaxChanges \in Nat

VARIABLES
  room,    \* Room: hostId, modPackage, mapPackage, whether it runs
  seen,    \* the server's side of each player: struct Client
  mine,    \* each player's MpClient
  jobs,    \* validations_, oldest first: the worker's queue with what it did
  stored,  \* the server's cache
  up,      \* frames on their way to the server, per player
  down,    \* frames on their way to each player
  changes  \* times a host changed its ticks or left

pkVars == <<room, seen, mine, jobs, stored, up, down, changes>>

Frame(kind, digest) == [kind |-> kind, digest |-> digest]
LobbyState(host, ready) == [kind |-> "LobbyState", host |-> host, ready |-> ready]

Away == [here |-> FALSE, modReady |-> Nothing, modOffered |-> Nothing,
         modReceive |-> Nothing, modSend |-> Nothing,
         mapReady |-> FALSE, mapOffered |-> FALSE,
         mapReceive |-> Nothing, mapSend |-> Nothing, deferred |-> Nothing]
Offline(ticks) ==
  [at |-> "lobby", host |-> Nothing, mapsReady |-> FALSE,
   ticks |-> ticks, pending |-> FALSE,
   modPackage |-> Nothing, modReceive |-> Nothing, modSend |-> Nothing,
   modOffered |-> FALSE, modReady |-> FALSE,
   mapPackage |-> Nothing, mapReceive |-> Nothing, mapSend |-> Nothing,
   mapOffered |-> FALSE, mapReady |-> FALSE,
   startSent |-> FALSE, has |-> {}]

Here == {p \in Players : seen[p].here}
Validating(p) == \E i \in DOMAIN jobs : jobs[i].client = p /\ jobs[i].current

\* Server::mapsReady
MapsReady(r, s) ==
  /\ r.mods # Nothing /\ r.map # Nothing
  /\ \A p \in Players : s[p].here => s[p].modReady = r.mods /\ s[p].mapReady

(***************************************************************************)
(* Server::broadcastLobby, of room r with clients s: everybody hears where *)
(* the room stands, and is offered what they have not been offered.        *)
(***************************************************************************)
BroadcastFrames(r, s, p) ==
  <<LobbyState(r.host, MapsReady(r, s))>>
    \o (IF r.map # Nothing /\ ~s[p].mapOffered THEN <<Frame("MapOffer", r.map)>> ELSE <<>>)
    \o (IF r.mods # Nothing /\ s[p].modOffered # r.mods
        THEN <<Frame("ModOffer", r.mods)>> ELSE <<>>)

Offered(r, s) ==
  [p \in Players |-> IF ~s[p].here THEN s[p]
                     ELSE [s[p] EXCEPT !.mapOffered = @ \/ r.map # Nothing,
                                       !.modOffered = IF r.mods # Nothing THEN r.mods ELSE @]]

\* The room becomes r, the clients s, and everybody is told, after the frames
\* first has for them.
BroadcastLobby(r, s, first) ==
  /\ room' = r
  /\ seen' = Offered(r, s)
  /\ down' = [p \in Players |-> IF s[p].here THEN down[p] \o first[p] \o BroadcastFrames(r, s, p)
                                ELSE down[p] \o first[p]]

NoFrames == [p \in Players |-> <<>>]
Quietly == UNCHANGED <<room, down>>

\* A job is current while its client's validationId names it.
Job(p, mods, cache, digest, bytes) ==
  [client |-> p, mods |-> mods, cache |-> cache, digest |-> digest, bytes |-> bytes,
   done |-> FALSE, found |-> FALSE, current |-> TRUE]
Forgotten(q, who) ==
  [i \in DOMAIN q |-> IF q[i].client \in who THEN [q[i] EXCEPT !.current = FALSE] ELSE q[i]]
\* validatePackage: the new job is the client's current one.
Validate(q, job) == Append(Forgotten(q, {job.client}), job)

-----------------------------------------------------------------------------
(* The server: modMsg.                                                      *)

\* What a new mod package does to everybody in the room.
ResetTransfers(s) == [p \in Players |-> [Away EXCEPT !.here = s[p].here]]

ServerModOffer(p, f) ==
  IF room.host # p
  THEN /\ seen' = [seen EXCEPT ![p].modReceive = Nothing]
       /\ down' = [down EXCEPT ![p] = Append(@, Frame("ModError", Nothing))]
       /\ UNCHANGED <<room, jobs>>
  ELSE IF room.running \/ seen[p].modReceive # Nothing \/ Validating(p)
  THEN Quietly /\ UNCHANGED <<seen, jobs>>
  ELSE /\ BroadcastLobby([room EXCEPT !.mods = Nothing, !.map = Nothing],
                         ResetTransfers(seen), NoFrames)
       /\ jobs' = Validate(Forgotten(jobs, Here), Job(p, TRUE, TRUE, f.digest, Nothing))

\* A chunk nobody expects is an error, and ends what is being validated.
ModChunkFails(p) ==
  /\ seen' = [seen EXCEPT ![p].modReceive = Nothing, ![p].modSend = Nothing, ![p].modReady = Nothing]
  /\ jobs' = Forgotten(jobs, {p})
  /\ down' = [down EXCEPT ![p] = Append(@, Frame("ModError", Nothing))]
  /\ UNCHANGED room

ServerModChunk(p, f) ==
  IF room.host # p
  THEN /\ seen' = [seen EXCEPT ![p].modReceive = Nothing]
       /\ down' = [down EXCEPT ![p] = Append(@, Frame("ModError", Nothing))]
       /\ UNCHANGED <<room, jobs>>
  ELSE IF room.running THEN Quietly /\ UNCHANGED <<seen, jobs>>
  ELSE IF seen[p].modReceive = Nothing THEN ModChunkFails(p)
  ELSE /\ seen' = [seen EXCEPT ![p].modReceive = Nothing]
       /\ jobs' = Validate(jobs, Job(p, TRUE, FALSE, seen[p].modReceive, f.digest))
       /\ Quietly

ServerModRequest(p, f) ==
  /\ seen' = IF room.mods = f.digest /\ seen[p].modSend = Nothing
             THEN [seen EXCEPT ![p].modSend = room.mods] ELSE seen
  /\ Quietly /\ UNCHANGED jobs

Told(p, s) == IF room.running THEN seen' = s /\ Quietly ELSE BroadcastLobby(room, s, NoFrames)

ServerModReady(p, f) ==
  /\ IF room.mods = f.digest THEN Told(p, [seen EXCEPT ![p].modReady = f.digest])
     ELSE Quietly /\ UNCHANGED seen
  /\ UNCHANGED jobs

ServerModError(p, f) ==
  /\ seen' = [seen EXCEPT ![p].modReady = Nothing, ![p].modSend = Nothing, ![p].modReceive = Nothing]
  /\ Quietly /\ UNCHANGED jobs

(* The server: mapMsg. *)

\* What Msg::MapOffer does, of clients s and jobs q: the offer is taken, put
\* off while something of this client's is being received or validated, or
\* dropped.
TakesMapOffer(r, s, p) ==
  ~r.running /\ r.host = p /\ r.map = Nothing /\ s[p].mapReceive = Nothing

ServerMapOfferIfFree(p, f) ==
  /\ IF ~TakesMapOffer(room, seen, p) \/ Validating(p) \/ seen[p].modReceive # Nothing
     THEN UNCHANGED <<seen, jobs>>
     ELSE jobs' = Validate(jobs, Job(p, FALSE, TRUE, f.digest, Nothing)) /\ UNCHANGED seen
  /\ Quietly

ServerMapOffer(p, f) ==
  /\ IF ~TakesMapOffer(room, seen, p) THEN UNCHANGED <<seen, jobs>>
     ELSE IF Validating(p) \/ seen[p].modReceive # Nothing
     THEN seen' = [seen EXCEPT ![p].deferred = f.digest] /\ UNCHANGED jobs
     ELSE jobs' = Validate(jobs, Job(p, FALSE, TRUE, f.digest, Nothing)) /\ UNCHANGED seen
  /\ Quietly

MapFails(p) ==
  /\ seen' = [seen EXCEPT ![p].mapReady = FALSE, ![p].mapReceive = Nothing, ![p].mapSend = Nothing]
  /\ jobs' = Forgotten(jobs, {p})
  /\ UNCHANGED room

ServerMapChunk(p, f) ==
  IF room.running \/ room.host # p \/ room.map # Nothing
  THEN Quietly /\ UNCHANGED <<seen, jobs>>
  ELSE IF seen[p].mapReceive = Nothing
  THEN /\ MapFails(p)
       /\ down' = [down EXCEPT ![p] = Append(@, Frame("MapError", Nothing))]
  ELSE /\ seen' = [seen EXCEPT ![p].mapReceive = Nothing]
       /\ jobs' = Validate(jobs, Job(p, FALSE, FALSE, seen[p].mapReceive, f.digest))
       /\ Quietly

ServerMapRequest(p, f) ==
  /\ seen' = IF room.map # Nothing /\ seen[p].mapSend = Nothing
             THEN [seen EXCEPT ![p].mapSend = room.map] ELSE seen
  /\ Quietly /\ UNCHANGED jobs

ServerMapReady(p, f) ==
  /\ IF room.map = f.digest THEN Told(p, [seen EXCEPT ![p].mapReady = TRUE])
     ELSE Quietly /\ UNCHANGED seen
  /\ UNCHANGED jobs

ServerMapError(p, f) == MapFails(p) /\ UNCHANGED down

(* The server: coming, going, and the start. *)

ServerJoin(p, f) ==
  IF room.host = Nothing \/ room.running
  THEN Quietly /\ UNCHANGED <<seen, jobs>>
  ELSE BroadcastLobby(room, [seen EXCEPT ![p] = [Away EXCEPT !.here = TRUE]], NoFrames) /\ UNCHANGED jobs

\* leaveRoom.  Before the game a seated host's role passes to who is left, or
\* the room goes with it; in the game it does not.
ServerLeave(p, f) ==
  LET left == [seen EXCEPT ![p] = Away]
      others == Here \ {p}
      host == IF room.host # p \/ room.running THEN room.host
              ELSE IF others = {} THEN Nothing ELSE CHOOSE q \in others : TRUE
  IN /\ jobs' = Forgotten(jobs, {p})
     /\ IF host = Nothing
        THEN /\ room' = [room EXCEPT !.host = Nothing, !.mods = Nothing, !.map = Nothing]
             /\ seen' = left /\ UNCHANGED down
        ELSE BroadcastLobby([room EXCEPT !.host = host], left, NoFrames)

\* tryStart, with the seats filled and ready.
ServerStart(p, f) ==
  /\ IF room.host = p /\ ~room.running /\ MapsReady(room, seen)
     THEN /\ room' = [room EXCEPT !.running = TRUE]
          /\ down' = [q \in Players |-> IF seen[q].here THEN Append(down[q], Frame("GameStarting", Nothing))
                                        ELSE down[q]]
     ELSE IF room.host = p /\ ~room.running
     THEN down' = [down EXCEPT ![p] = Append(@, Frame("MapError", Nothing))] /\ UNCHANGED room
     ELSE Quietly
  /\ UNCHANGED <<seen, jobs>>

\* A frame from a client that is not in the room, but for one that joins, is
\* none of the room's.
ServerReads(p) ==
  LET f == Head(up[p]) IN
  /\ up[p] # <<>>
  /\ up' = [up EXCEPT ![p] = Tail(@)]
  /\ \/ ~seen[p].here /\ f.kind # "Join" /\ Quietly /\ UNCHANGED <<seen, jobs>>
     \/ f.kind = "Join" /\ ServerJoin(p, f)
     \/ /\ seen[p].here
        /\ \/ f.kind = "ModOffer" /\ ServerModOffer(p, f)
           \/ f.kind = "ModChunk" /\ ServerModChunk(p, f)
           \/ f.kind = "ModRequest" /\ ServerModRequest(p, f)
           \/ f.kind = "ModReady" /\ ServerModReady(p, f)
           \/ f.kind = "ModError" /\ ServerModError(p, f)
           \/ f.kind = "MapOffer" /\ ServerMapOffer(p, f)
           \/ f.kind = "MapChunk" /\ ServerMapChunk(p, f)
           \/ f.kind = "MapRequest" /\ ServerMapRequest(p, f)
           \/ f.kind = "MapReady" /\ ServerMapReady(p, f)
           \/ f.kind = "MapError" /\ ServerMapError(p, f)
           \/ f.kind = "Leave" /\ ServerLeave(p, f)
           \/ f.kind = "Start" /\ ServerStart(p, f)
  /\ UNCHANGED <<mine, stored, changes>>

-----------------------------------------------------------------------------
(* The server: the worker's thread, its results, and what it sends.         *)

\* ValidationWorker: the oldest job that is not done.  A cache job finds the
\* package or not; an upload is checked and kept.  One that nobody waits for any
\* more may have been told to stop before it came to that.
RunJob ==
  \E i \in DOMAIN jobs, stopped \in BOOLEAN :
    /\ ~jobs[i].done
    /\ \A k \in 1 .. i - 1 : jobs[k].done
    /\ stopped => ~jobs[i].current
    /\ LET job == jobs[i]
           found == /\ ~stopped
                    /\ IF job.cache THEN job.digest \in stored ELSE job.bytes = job.digest
       IN  /\ jobs' = [jobs EXCEPT ![i].done = TRUE, ![i].found = found]
           /\ stored' = IF found THEN stored \cup {job.digest} ELSE stored
    /\ UNCHANGED <<room, seen, mine, up, down, changes>>

\* The result is of use if its client still waits for it and is the host.
Valid(job) == job.current /\ room.host = job.client /\ ~room.running

\* The deferred map offers, once their client's validation is over: the last
\* thing finishValidations does, of room r, clients s and jobs q.
Ripe(s, q) ==
  {p \in Players : /\ s[p].deferred # Nothing /\ s[p].modReceive = Nothing
                   /\ ~\E i \in DOMAIN q : q[i].client = p /\ q[i].current}
TakeDeferred(r, s, q) ==
  LET p == CHOOSE p \in Ripe(s, q) : TRUE
  IN IF Ripe(s, q) = {} THEN q
     ELSE IF TakesMapOffer(r, s, p) THEN Validate(q, Job(p, FALSE, TRUE, s[p].deferred, Nothing)) ELSE q
DropRipe(s, q) == [p \in Players |-> IF p \in Ripe(s, q) THEN [s[p] EXCEPT !.deferred = Nothing] ELSE s[p]]

\* finishValidations with the oldest job done, ...
FinishValidation ==
  LET job == Head(jobs)
      rest == Tail(jobs)
      p == job.client
      begun == IF job.mods THEN [seen EXCEPT ![p].modReceive = job.digest]
               ELSE [seen EXCEPT ![p].mapReceive = job.digest]
      accepted == IF job.mods THEN [room EXCEPT !.mods = job.digest] ELSE [room EXCEPT !.map = job.digest]
      asked == Frame(IF job.mods THEN "ModRequest" ELSE "MapRequest", Nothing)
      failed == Frame(IF job.mods THEN "ModError" ELSE "MapError", Nothing)
  IN
  /\ jobs # <<>> /\ job.done
  /\ IF Valid(job) /\ job.found
     THEN /\ BroadcastLobby(accepted, DropRipe(seen, rest), NoFrames)
          /\ jobs' = TakeDeferred(accepted, seen, rest)
     ELSE IF Valid(job)
     THEN /\ down' = [down EXCEPT ![p] = Append(@, IF job.cache THEN asked ELSE failed)]
          /\ LET s == IF job.cache THEN begun ELSE seen
             IN seen' = DropRipe(s, rest) /\ jobs' = TakeDeferred(room, s, rest)
          /\ UNCHANGED room
     ELSE Quietly /\ seen' = DropRipe(seen, rest) /\ jobs' = TakeDeferred(room, seen, rest)
  /\ UNCHANGED <<mine, stored, up, changes>>

\* ... or with none, and an offer put off that can be taken now.
TakeDeferredOffer ==
  /\ \A i \in DOMAIN jobs : ~jobs[i].done
  /\ Ripe(seen, jobs) # {}
  /\ seen' = DropRipe(seen, jobs)
  /\ jobs' = TakeDeferred(room, seen, jobs)
  /\ UNCHANGED <<room, mine, stored, up, down, changes>>

\* Sender::pump: the package goes when the socket takes it.
ServerSendsMods(p) ==
  /\ seen[p].modSend # Nothing
  /\ seen' = [seen EXCEPT ![p].modSend = Nothing]
  /\ down' = [down EXCEPT ![p] = Append(@, Frame("ModChunk", seen[p].modSend))]
  /\ UNCHANGED <<room, mine, jobs, stored, up, changes>>
ServerSendsMap(p) ==
  /\ seen[p].mapSend # Nothing
  /\ seen' = [seen EXCEPT ![p].mapSend = Nothing]
  /\ down' = [down EXCEPT ![p] = Append(@, Frame("MapChunk", seen[p].mapSend))]
  /\ UNCHANGED <<room, mine, jobs, stored, up, changes>>

-----------------------------------------------------------------------------
(* The client.  Each of these is the client and the frames it sends after   *)
(* reading a frame.                                                         *)

Result(c, frames) == [client |-> c, sends |-> frames]

OfferMods(c) ==
  Result([c EXCEPT !.pending = FALSE, !.mapsReady = FALSE, !.modOffered = TRUE, !.modReady = FALSE,
                   !.mapPackage = Nothing, !.mapOffered = FALSE, !.mapReady = FALSE,
                   !.modPackage = c.ticks],
         <<Frame("ModOffer", c.ticks)>>)

OfferMap(c) ==
  LET map == IF c.mapPackage = Nothing THEN MapOf[c.ticks] ELSE c.mapPackage
  IN Result([c EXCEPT !.mapPackage = map, !.mapOffered = TRUE], <<Frame("MapOffer", map)>>)

\* A host offers what it has not offered yet.  A GameStarting held back stays so.
ReadLobbyState(p, c, f) ==
  LET told == [c EXCEPT !.at = IF @ = "held" THEN "held" ELSE "room", !.host = f.host, !.mapsReady = f.ready]
      mods == IF f.host = p /\ ~c.modOffered THEN OfferMods(told) ELSE Result(told, <<>>)
      map == IF f.host = p /\ ~mods.client.mapOffered THEN OfferMap(mods.client)
             ELSE Result(mods.client, <<>>)
  IN Result(map.client, mods.sends \o map.sends)

\* A GameStarting that came before the packages were checked is read again
\* when they are.
Starts(c) == IF c.at = "held" /\ c.modReady /\ c.mapReady THEN [c EXCEPT !.at = "started"] ELSE c

AcceptMods(c, digest) ==
  Result(Starts([c EXCEPT !.modPackage = digest, !.modReceive = Nothing, !.modReady = TRUE,
                          !.has = @ \cup {digest}]),
         <<Frame("ModReady", digest)>>)
AcceptMap(c, digest) ==
  Result(Starts([c EXCEPT !.mapPackage = digest, !.mapReceive = Nothing, !.mapReady = TRUE,
                          !.has = @ \cup {digest}]),
         <<Frame("MapReady", digest)>>)

ModsFail(c) ==
  Result([c EXCEPT !.modReceive = Nothing, !.modSend = Nothing, !.modReady = FALSE],
         <<Frame("ModError", Nothing)>>)
MapFailsHere(c) ==
  Result([c EXCEPT !.mapReceive = Nothing, !.mapSend = Nothing, !.mapReady = FALSE],
         <<Frame("MapError", Nothing)>>)

ReadModOffer(c, f) ==
  LET told == [c EXCEPT !.modReceive = f.digest, !.modReady = FALSE]
  IN IF c.modPackage = f.digest \/ f.digest \in c.has THEN AcceptMods(told, f.digest)
     ELSE Result(told, <<Frame("ModRequest", f.digest)>>)

\* The map of an offer is not asked for again while it is being received.
ReadMapOffer(c, f) ==
  IF c.mapReceive = f.digest THEN Result(c, <<>>)
  ELSE IF c.mapPackage = f.digest THEN AcceptMap(c, f.digest)
  ELSE LET told == [c EXCEPT !.mapReady = FALSE, !.mapReceive = f.digest]
       IN IF f.digest \in c.has THEN AcceptMap(told, f.digest)
          ELSE Result(told, <<Frame("MapRequest", Nothing)>>)

ReadModRequest(p, c) ==
  IF c.host # p \/ c.modPackage = Nothing \/ c.modSend # Nothing THEN ModsFail(c)
  ELSE Result([c EXCEPT !.modSend = c.modPackage], <<>>)
ReadMapRequest(p, c) ==
  IF c.host # p \/ c.mapPackage = Nothing \/ c.mapSend # Nothing THEN MapFailsHere(c)
  ELSE Result([c EXCEPT !.mapSend = c.mapPackage], <<>>)

ReadModChunk(c, f) ==
  IF c.modReceive = Nothing \/ c.modReceive # f.digest THEN ModsFail(c) ELSE AcceptMods(c, f.digest)
ReadMapChunk(c, f) ==
  IF c.mapReceive = Nothing THEN Result(c, <<>>)
  ELSE IF c.mapReceive # f.digest THEN MapFailsHere(c) ELSE AcceptMap(c, f.digest)

ReadGameStartingAtOnce(c) ==
  Result([c EXCEPT !.at = "started", !.startSent = FALSE], <<>>)

ReadGameStarting(c) ==
  Result([c EXCEPT !.at = IF c.modReady /\ c.mapReady THEN "started" ELSE "held",
                   !.startSent = IF c.modReady /\ c.mapReady THEN FALSE ELSE @], <<>>)

Reads(p, c, f) ==
  CASE f.kind = "LobbyState" -> ReadLobbyState(p, c, f)
    [] f.kind = "ModOffer" -> ReadModOffer(c, f)
    [] f.kind = "MapOffer" -> ReadMapOffer(c, f)
    [] f.kind = "ModRequest" -> ReadModRequest(p, c)
    [] f.kind = "MapRequest" -> ReadMapRequest(p, c)
    [] f.kind = "ModChunk" -> ReadModChunk(c, f)
    [] f.kind = "MapChunk" -> ReadMapChunk(c, f)
    [] f.kind = "ModError" -> Result([c EXCEPT !.modReceive = Nothing, !.modSend = Nothing, !.modReady = FALSE], <<>>)
    [] f.kind = "MapError" -> Result([c EXCEPT !.startSent = FALSE], <<>>)
    [] f.kind = "GameStarting" -> ReadGameStarting(c)

\* Players who have left, or are in the game, are followed no further.
Followed(p) == mine[p].at \notin {"left", "started"}

ClientReads(p) ==
  /\ down[p] # <<>>
  /\ down' = [down EXCEPT ![p] = Tail(@)]
  /\ IF Followed(p)
     THEN LET r == Reads(p, mine[p], Head(down[p]))
          IN mine' = [mine EXCEPT ![p] = r.client] /\ up' = [up EXCEPT ![p] = @ \o r.sends]
     ELSE UNCHANGED <<mine, up>>
  /\ UNCHANGED <<room, seen, jobs, stored, changes>>

\* Who holds a GameStarting back is still in the room.
InRoom(p) == mine[p].at \in {"room", "held"}
Sends(p, c, frames) ==
  /\ mine' = [mine EXCEPT ![p] = c]
  /\ up' = [up EXCEPT ![p] = @ \o frames]
  /\ UNCHANGED <<room, seen, jobs, stored, down>>

\* MpClient::update
ClientSendsMods(p) ==
  /\ Followed(p) /\ mine[p].modSend # Nothing
  /\ Sends(p, [mine[p] EXCEPT !.modSend = Nothing], <<Frame("ModChunk", mine[p].modSend)>>)
  /\ UNCHANGED changes
ClientSendsMap(p) ==
  /\ Followed(p) /\ mine[p].mapSend # Nothing
  /\ Sends(p, [mine[p] EXCEPT !.mapSend = Nothing], <<Frame("MapChunk", mine[p].mapSend)>>)
  /\ UNCHANGED changes

ModBusy(c) == c.modSend # Nothing \/ c.modReceive # Nothing

\* setGameModPacks: the host ticks other packs; they are offered shortly.
TickPacks(p) ==
  /\ changes < MaxChanges /\ changes' = changes + 1
  /\ InRoom(p) /\ mine[p].host = p /\ ~ModBusy(mine[p])
  /\ \E d \in Packs \ {mine[p].ticks} :
       Sends(p, [mine[p] EXCEPT !.ticks = d, !.pending = TRUE, !.modOffered = TRUE, !.mapsReady = FALSE], <<>>)
OfferTicked(p) ==
  /\ InRoom(p) /\ mine[p].pending /\ ~ModBusy(mine[p])
  /\ LET r == OfferMods(mine[p]) IN Sends(p, r.client, r.sends)
  /\ UNCHANGED changes

CanStart(p) ==
  LET c == mine[p]
  IN InRoom(p) /\ c.host = p /\ ~c.pending /\ c.mapsReady /\ c.modPackage # Nothing /\ c.modReady
RequestStart(p) ==
  /\ CanStart(p) /\ ~mine[p].startSent
  /\ Sends(p, [mine[p] EXCEPT !.startSent = TRUE], <<Frame("Start", Nothing)>>)
  /\ UNCHANGED changes

JoinGame(p) ==
  /\ mine[p].at = "lobby"
  /\ Sends(p, [mine[p] EXCEPT !.at = "joining"], <<Frame("Join", Nothing)>>)
  /\ UNCHANGED changes
LeaveGame(p) ==
  /\ InRoom(p)
  /\ Sends(p, [Offline(mine[p].ticks) EXCEPT !.at = "left"], <<Frame("Leave", Nothing)>>)
  /\ IF mine[p].host # p THEN UNCHANGED changes
     ELSE changes < MaxChanges /\ changes' = changes + 1

-----------------------------------------------------------------------------
\* The host's room, just created (Msg::CreateGame).
PkInit ==
  /\ room = [host |-> Host, mods |-> Nothing, map |-> Nothing, running |-> FALSE]
  /\ seen = [p \in Players |-> IF p = Host THEN [Away EXCEPT !.here = TRUE] ELSE Away]
  /\ mine = [p \in Players |->
               IF p = Host THEN [Offline(FirstTicks[p]) EXCEPT !.at = "joining", !.mapPackage = MapOf[FirstTicks[p]]]
               ELSE Offline(FirstTicks[p])]
  /\ jobs = <<>> /\ stored \in SUBSET ServerHas
  /\ up = NoFrames
  /\ down = [p \in Players |-> IF p = Host THEN <<LobbyState(Host, FALSE)>> ELSE <<>>]
  /\ changes = 0

PkNext ==
  \/ \E p \in Players :
       \/ ServerReads(p) \/ ServerSendsMods(p) \/ ServerSendsMap(p)
       \/ ClientReads(p) \/ ClientSendsMods(p) \/ ClientSendsMap(p)
       \/ TickPacks(p) \/ OfferTicked(p) \/ RequestStart(p)
       \/ JoinGame(p) \/ LeaveGame(p)
  \/ RunJob \/ FinishValidation \/ TakeDeferredOffer

PkSpec == PkInit /\ [][PkNext]_pkVars

-----------------------------------------------------------------------------
(* Properties.                                                              *)

Optional(digests) == digests \cup {Nothing}

\* Every variable holds what the code can put in it: where a digest of mods
\* belongs there is never one of a map, nor the other way about.
PkTypeOK ==
  /\ room \in [host : Optional(Players), mods : Optional(Packs), map : Optional(Maps), running : BOOLEAN]
  /\ DOMAIN seen = Players /\ DOMAIN mine = Players
  /\ \A p \in Players :
       /\ {seen[p].modReady, seen[p].modOffered, seen[p].modReceive, seen[p].modSend} \subseteq Optional(Packs)
       /\ {seen[p].mapReceive, seen[p].mapSend, seen[p].deferred} \subseteq Optional(Maps)
       /\ mine[p].at \in {"lobby", "joining", "room", "held", "started", "left"}
       /\ {mine[p].modPackage, mine[p].modReceive, mine[p].modSend} \subseteq Optional(Packs)
       /\ {mine[p].mapPackage, mine[p].mapReceive, mine[p].mapSend} \subseteq Optional(Maps)
  /\ \A i \in DOMAIN jobs : jobs[i].digest \in IF jobs[i].mods THEN Packs ELSE Maps
  /\ stored \subseteq Digests

\* Whatever the host ticks and whoever comes and goes meanwhile, everybody who
\* starts has the packages the room plays by (map-transfer.md:6-7).
StartsAlike ==
  \A p \in Players : mine[p].at = "started" =>
    room.running /\ mine[p].modPackage = room.mods /\ mine[p].mapPackage = room.map

\* Nothing is under way and nothing will be, unless somebody does something.
Quiet ==
  /\ \A p \in Players : up[p] = <<>> /\ down[p] = <<>>
  /\ jobs = <<>>
  /\ \A p \in Here : seen[p].modSend = Nothing /\ seen[p].mapSend = Nothing
  /\ \A p \in Players : mine[p].modSend = Nothing /\ mine[p].mapSend = Nothing /\ ~mine[p].pending

\* The host can start the room, and with the packs it has ticked.
Settled ==
  /\ MapsReady(room, seen) /\ CanStart(room.host)
  /\ room.mods = mine[room.host].ticks

\* As long as no host has changed its ticks or left: once nothing is under way
\* the room can start.  Nobody waits for a package that will never come
\* (Server::finishValidations, mapMsg, modMsg).
QuietMeansReady ==
  Quiet /\ room.host # Nothing /\ ~room.running /\ changes = 0 => Settled

\* A room its host can start, with everything verified, has the packs the host
\* has ticked (user-guide.md:2794-2799).
PacksAreTheTicked ==
  \A p \in Players : CanStart(p) /\ room.host = p /\ MapsReady(room, seen) => room.mods = mine[p].ticks

=============================================================================
