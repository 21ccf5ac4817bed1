# TAK Engine: a verification project in TLA+

TAK Engine (0.9.21, C++20) re-implements a fantasy real-time strategy game. Its
multiplayer is deterministic lockstep behind a relay server: the server closes
numbered ticks thirty times a second, every peer simulates the same commands and
events in the same tick, and the server simulates along as the referee. This
directory models the parts of it that are hard to test, checks the models with
TLC on small instances and proves theorems about them with TLAPS.

Paths below are relative to the repository (`src/server/server.cpp` is
`server.cpp` for short).

## The system

| part | state | operations | talks to | hard behaviour |
| --- | --- | --- | --- | --- |
| **Game room** (`server.cpp`, `roomtick.cpp`, `roomworker.h`) | seats and their connections, resume tokens, waits, log, tick in flight, pending commands and events, AI controllers, pause, host | close, simulate, publish a tick; hold, wait for, reseat, take over a seat; leave; feed a late-comer; tear down | clients over TCP, one worker thread per room | what arrives while a tick is in flight; links that break between two frames; races for a seat; rooms that stop for good |
| **Client session** (`net/client.cpp`, `client/gameview_net.cpp`) | link, phase, resume token, received bundles, outbox and its windows | read frames, play ticks, report progress, lose the link, reconnect, give up | the server; the simulation thread | lost frames, replays from a boundary, windows across a reconnect |
| **Command stream** (`orders.h`, `orderpack.h`, `commands.h`) | outbox, credit, send windows, server queue, open transaction | send, drop and say so, drain into a tick, retire | client and room | FIFO under two windows; a queue at its limit; starvation between clients |
| **Hash check** (`server.cpp` checkHashes) | reports by tick and client, the referee's ring | report, compare, convict, retire | room, referee | who counts as live when a report is judged |
| **Lobby** (`server.cpp`) | rooms, slots, host, options | create, join, move, kick, start | transfer, accounts | host leaving, validation finishing late |
| **Package transfer** (`mappackage`, `modpackage`, `validationworker.h`) | offers, senders, receivers, validations | offer, request, chunk, validate, accept | lobby, worker thread | results applied after their room or client changed |
| **Sign-in** (`net/auth`, `accounts.cpp`, `revocation.cpp`, `filelease.cpp`) | accounts file, tokens, challenges, leases | register, challenge, verify, revoke, save | disk | crash between write and rename |
| **Worker pool** (`sim/simpool.h`, `simpool.cpp`) | one job's fields, generation, counters, sleepers | forChunks, start, help, finish, destroy; worker loop | simulation and navigator | lock-free open/close, lost wake-ups |
| **Simulation, navigator, AI, scripts** (`sim/`, `ai/`, `cob/`) | the world | tick | room worker, client worker | numeric; determinism |
| **Replay writer** (`net/replaywriter.cpp`) | file, trail | append, finish, recover | disk | crash at any byte |
| **Client presentation, map editor, formats, tools** | | | | not concurrent, or presentation |

What makes them correct, in a line each: *room*, every peer sees one log and
nothing stops a shared game for good; *seat*, one owner and one fate; *command
stream*, what a player issued happens once, in order, or the player is told;
*hash check*, only a diverged client is convicted; *lobby*, a room always has
somebody who can start it; *transfer*, what is accepted is what the current host
offered; *sign-in*, no account is lost; *pool*, each chunk runs once and the
fields are the caller's.

## Modules

| module | models | role |
| --- | --- | --- |
| `GameRoom` | a running room, its connections and its peers | the core |
| `Lockstep` | what a room promises its peers | abstract; `GameRoom` implements it |
| `GameRoomProofs` | | theorems about `GameRoom`: types, seats, fates |
| `StreamProofs` | | theorems about `GameRoom`: streams, `Lockstep`, flow control |
| `MCGameRoom` | | instances of `GameRoom` |
| `WaitClocks` | the clocks of waits and holds, which `GameRoom` abstracts | component |
| `OrderDrain` | how the players of a room share a tick's orders | component |
| `HashCheck` | the desync check | component |
| `MCTick` | | `WaitClocks`, `OrderDrain` and `HashCheck` side by side |
| `TickProofs` | | theorems about `WaitClocks`, `OrderDrain`, `HashCheck` and `MCTick` |
| `CommandWindow` | one player's input, from its outbox into the ticks | component |
| `CommandWindowProofs` | | theorems about `CommandWindow` |
| `Packages` | a lobby's mod and map packages, up to the start | component |
| `PackagesProofs` | | theorems about `Packages`: types, starting alike |
| `ReadyProofs` | | theorem about `Packages`: the room gets ready |
| `MCPackages` | | instance of `Packages` |
| `Recording` | a replay file, its recorder and its recovery | component |
| `AccountFile` | the account file and its rewrite | component |
| `MCKeep` | | `Packages`, `Recording` and `AccountFile` side by side |
| `FileProofs` | | theorems about `Recording`, `AccountFile` and `MCKeep` |
| `SimPool` | the simulation's worker pool | component |
| `SimPoolProofs` | | theorems about `SimPool` |
| `ForkJoin` | what a fork-join promises | abstract; `SimPool` implements it |
| `MCSimPool` | | instance of `SimPool` |

`WaitClocks`, `OrderDrain`, `HashCheck` and `CommandWindow` each look closer at
something `GameRoom` leaves out or to chance; between them they touch through
`GameRoom`'s state only, so each is followed on its own.

### GameRoom

`Init` is the room as `Server::tryStart` leaves it: GameStarting is on the wire to
everybody, nobody has loaded. The variables and the fields they stand for:

| variable | in the code |
| --- | --- |
| `room` | `running`, `paused`, `hostId`, `spectators`, `simulationError`/`resourceLimited` |
| `seat[s]` | `slots[s].type`, `slotClient`, `slotToken`, `takenToken`, `waitDeadline != 0`, `defeated` |
| `conn[c]` | the server's `Client`: `state`, `slot`, `loaded`, `replaying`, `replayPos`, `ackTick`, `leadTicks`, and whether it has been silent for `gStallMs` |
| `log` | `Room::log`; `Room::tick` is its length |
| `job` | `tickJob` with the input frozen into it: none, running, done |
| `pending` | `pendingEvents` |
| `ai` | the controllers in `Room::ai`, by slot |
| `up` | the connections whose client end is open |
| `wire[c]` | what the server has sent and the client has not read: an opener (GameStarting or Reseated) and bundles |
| `peer[p]` | a person's client: what it is doing, its resume token, the bundles it received |

Each action is one handler, or one visit of the server's loop to one room, seat
or connection. A pass of `Server::run` visits them in an order of its own; the
model lets the visits happen in any order, and joins to a visit what the code does
in the same visit. What can happen between `closeTick` and `finishTick` in the
code can happen between `CloseTick`, `WorkerRuns` and `FinishTick` here. A
connection delivers in order until it breaks (`LinkBreaks`), with whatever was
under way lost; the server finds out at any later time (`DropClient`). A bundle
holds its number, its events and the seats whose AI controllers took part.

Time is abstracted: a silence may pass the stall threshold, a wait or a hold run
out, whenever there is one. Hence the safety properties hold for every setting of
`gStallMs`, `gDropWaitMs` and the rest.

### WaitClocks

`GameRoom` lets a wait or a hold run out at any moment. Here the clocks decide.
A seat stops the room by a *wait* (its connection is lost, or silent for
`gStallMs`) or by a *hold* (connected, but a lead behind); both are charged to one
budget for the whole game, `gDropWaitMs`. The loop of `Server::run` is followed
pass by pass: `turn` 0 serves frames (`Hear`, `Disconnect`, `LeaveGame`, `Rejoin`,
`SetPause`, `FinishTick`), `Scan` looks at silences and countdowns, `TrackHold`
goes seat by seat, `CloseTick` closes one or not, `Sleep` drops who has timed out
and lets a unit of time pass. A tick is always due: its period and `kFlowRetryMs`
are far below the unit. The worker ends a tick at any time.

`clock[s]` is what the room's arrays and the seat's `Client` hold of one seat:
`spent` is `waitSpentMs`, `holdMs` itself, and an absolute time `t` of the code is
kept as an age or a remainder (`waitLeft` = `waitDeadline - now`, `waitAge` =
`now - waitBegan`, `holdAge`, `holdSeen`, `silence` likewise), which stops counting
where the code can no longer tell two values apart. `waited` and `held` are
history: how long the room really waited for the seat, and how long its running
hold really kept the game.

### OrderDrain

`Server::closeTick`'s drain for all slots at once: from `orderRotor` on, each slot
gives up its queue to the first item that does not fit. Commands are capped per
client and tick, orders by the tick's bytes, which the room shares, and by the
members a client may spend in a second. `Queue`, `Detach`, `Reattach` and
`SecondTurns` are what happens between ticks. `passed` is history: ticks in a row
that passed over an affordable order at the head of a slot's queue.

### HashCheck

`Server::checkHashes` with everything that moves under it. Only ticks that are
hashed appear, named by their age, so their number needs no bound. `hashes` is
`Room::hashes`; the code keys reports by connection, the model by player, with
`current` FALSE on a report whose connection is no longer the seat's. `Report` is
the whole handler: record, judge when as many reports as live players are there,
suspect the referee or tell the diverged, forget, retain. Clients diverge
(`Diverge`), are defeated, lose their link, come back, and leave; the referee may
be wrong from the start (`refRight`).

### CommandWindow

GameRoom leaves out what the ticks are for: the players' input. `CommandWindow`
follows one player's. `Issue` puts a command or a selection order into the
outbox; `Step` is a pass of `GameView::mpStep`, which reads frames, accrues
credit, sends what the windows allow and plays ticks, whose own commands coming
back are the acknowledgement; `TakeCommands` and `TakeOrderFrame` are the
server's side of the uplink (an order is three frames or more, of which the
model has one of each kind); `CloseTick` drains the queue, under a cap on commands and
whatever room the other players leave for orders, `FinishTick` publishes. The
link breaks for the client (`LinkBreaks`) and for the server (`DropClient`)
separately; `Rejoin` is the server's handler and the client's, joined because no
other step of the model reads what either writes in between.

| variable | in the code |
| --- | --- |
| `outbox`, `credit`, `inFlight`, `sent`, `serial` | `outbox_`, `cmdCredit_`, `cmdInFlight_`, `orderWindow_`, `nextOrderSerial_` |
| `unsettled` | `netTick_ - lastSendTick_` |
| `history` | `cmdReplayEnd_ - netTick_` while `cmdCatchUp_` |
| `up`, `down` | frames under way |
| `queue`, `inbox`, `floor` | `Client::cmdQueue`, `Client::orders`, `Room::orderSerialFloor` |
| `frozen` | the player's commands in the tick in flight |
| `unplayed`, `got` | the published ticks the client has yet to play, and how many of them have reached it |

An item is known by its place in the order of issue, so what is somewhere is a set
of items, and every count the code keeps (`cmdInFlight_`, an order window's bytes, the
server's counts of its queue) is compared with the cardinality of one: `Commands`,
`Orders` and `Bytes` of it. What may go, and what a tick takes, is the longest prefix
of a queue whose set of items is allowed (`LongestPrefix`), since the first item that
has to wait stops everything behind it. A notice (`InputDropped`) carries the items
dropped; the client uses of them the serials and the number of commands, which is
what the message holds.

Ticks are counted from the one the client plays next, so a tick leaves the state
once played and no bound on their number is needed. `refused` is a budget per
second, shared by the connections of an account and by the server, being spent.
The debug build's input delay (`TAK_SRV_DELAY`) is not modelled.

### Packages

The host's packs and map on their way to everybody, frame by frame: `room` is
`Room` (host, `modPackage`, `mapPackage`, running), `seen[p]` the server's
`Client`, `mine[p]` the player's `MpClient`, `jobs` the server's `validations_`
together with the worker's queue. A job is `current` while its client's
`validationId` names it; `FinishValidation` drops the others. `ServerReads`
dispatches to one operator per message of `modMsg` and `mapMsg` (and join, leave,
start), `ClientReads` to one per message of `modFrame` and `mapFrame`; the frames
each handler sends, and the lobby broadcast with its offers, belong to the step.
A leave in a running room passes the lobby on as well, and a client that holds a
`GameStarting` back reads it and goes on holding.
`TakeDeferred` is the map offer the server puts off while it validates the
mods. A package is its digest and goes in one piece, at any time after it was asked
for; packages are well formed, connections hold, and the server has room for them and
for their validations (the code refuses a fourth while three are under way, its own
rooms' or others'). Everybody has a seat and is ready. The model ends for a player who leaves or
starts.

### Recording

The steps of `ReplayWriter` and `recoverReplayParts` that another process, or the
end of this one, can come between: look, create exclusively, lock, header, flush,
sync, trail, count, choose a name, rename, sync the directory, remove the sidecar;
and for a recovery pass open, lock, look again, read, discard or truncate, and the
same end. A file is what the loader can tell of it: header, whole bundles, a torn
one, count field, trail. `lock` is the `flock` on the open file. Any write may
fail. `Kill` ends a process and keeps what it wrote; `PowerCut` leaves of each
file some state between its last sync (`synced`) and its last write, and of the
directory what was synced or what is there; a file that no name leads to is gone. `promised` is history: the
bundles that must survive (flushed, for a kill; synced, for a power cut).

### AccountFile

`AccountStore::create` and `noteLogin` with `save` in its steps (open, write, sync,
rename), each of which may fail or be the server's last. `onDisk` holds what a
power cut may leave: after the rename both the old and the new file, since the
directory is not synced, until it reaches the disk on its own. `known` is history:
the accounts whose players have been told, less those a power cut may take.

### SimPool

One step is one access to a shared variable (`gen_`, `next_`, `done_`,
`inflight_`, `stop_`, `sleeping_` under the mutex), so every interleaving of the
threads is explored under sequential consistency; the orderings the code asks
for (`seq_cst` on `gen_` and `inflight_`, release on `done_`) are what makes that
sufficient for the fields. A condition variable may wake spuriously. The
abstract `ForkJoin` has three steps to a job: fork, begin and end a chunk, join.

## Runs

| run | instance | question | result |
| --- | --- | --- | --- |
| `two_players` | 2 humans, one with a second connection, 2 ticks | types; seat and connection agree; one fate per seat, sequenced once; a held seat is waited for; no AI before its announcement; every peer reads the one log in order (`Lockstep`) | holds |
| `catch_up` | 1 human, 1 AI; the human comes back or a person comes to watch; 3 ticks | catch-up feed and live broadcast hand over without gap or repetition, and a reconnect streams exactly what was missed (`Lockstep`); the room stays within a lead of its players | holds |
| `goes_on` | 2 humans, 2 ticks, fair | a shared game always comes to its next tick | holds |
| `tick` | clocks: 1 seat and a spectator, budget 4, grace 2; drain: 3 slots, queues of 1; hashes: 2 players, a lead of 1; fair | a seat costs the others its budget at most, no time is charged twice, a pause is free, the countdown is honest, the game goes on; no order starves; a lone diverged client is the one that is told, and it is told | holds |
| `window` | 3 commands and orders, 1 broken link, server queue of 2, lead of 1 tick, budgets that may refuse, fair | input comes out once and in order; the client's windows cover what is under way and leak nothing; the server's queues hold what they let out; no honest frame is malformed; the outbox empties and the windows close | holds |
| `keep` | packages: host and guest, 2 pack selections, 1 change; recording: 1 recorder, 1 recovery, 2 names, 2 bundles, 1 power cut; 2 accounts | who starts has the room's packages; once nothing is under way the room can start; flushed or synced bundles are not lost, replays are whole, a live recording is left alone; no account is lost | holds |
| `sim_pool` | 2 workers, 2 jobs of up to 2 chunks, fair | the pool implements `ForkJoin`; the fields are the caller's while written; no lost wake-up; calls return; workers end | holds |
| `lost_reseat` | 2 humans, 3 connections for player 1 | a player the room waits for is let back in | violated |
| `host_gone` | 2 humans | somebody present can resume a paused game | violated |
| `overflow` | 4 commands, 1 broken link, no budgets | an honest client's commands always fit the server's queue | violated |
| `recording_taken` | 1 recorder, 1 recovery, which may meet a creation | a live recording is left alone | violated |
| `packs_dropped` | host and guest, 1 change | a room its host can start has the packs the host has ticked | violated |

PROJECT.json names for each property a faulty form of a definition
(`NextHostsUnchecked` of `NextHosts`, `ForgottenButTheStage` of `Forgotten`),
kept just before the definition it distorts: in its place, the run finds the
property violated.

Deadlock is not checked: the bounds stop these systems, and so does the end of
a game.

**Bounds.**
- *GameRoom.* `MaxTicks` (2 or 3) ends the log: two ticks give a tick in flight
  with a published one behind it, three a reconnect that has ticks before, within
  and after what it missed. `Leads`/`MaxLead` of 1 stands for 16 to 120: flow
  control only compares sums with the tick. Two seats are enough for one to wait
  with the other; a third changes only who else is `WaitedWith`. Connection ids are
  never reused by the server, so a person's reconnects are bounded by the ids that
  are theirs in `Owner`. Tokens are counted, not random. `OneComes`, in `catch_up`,
  lets either the player come back or the watcher come, not both: each catch-up is
  fed on its own, from its own position.
- *Side by side.* `MCTick` and `MCKeep` each put three components that share no
  state into one run: `behaviour` chooses one, the others rest. What such a run
  shows is what three runs would.
- *WaitClocks.* One seat, with a spectator to wait with it; the spectator is what
  makes the room worth keeping when the seat goes. A second is 2 units, so that
  rounding up to whole seconds is felt; the budget is 2 seconds, the grace 1, and a
  silence is noticed (2) before it times out (3) as in the code's settings.
  What `Budget`, `Grace` and the seats are cannot matter: the four safety
  properties are proved for all of them. The invariant of the proof was itself
  checked with two seats (budget 2, grace 1).
  With one seat in `tick`, that another seat's wait suspends a hold
  (`PauseCostsNothing`) is shown by the proof, not by that run.
- *OrderDrain.* Three slots, so that one is passed over twice; an order is up to
  the whole tick's bytes, the worst a neighbour can send. A queue of one item
  suffices: what is behind the head does not drain before it, and a neighbour's
  deeper queue takes no more bytes than its largest order already does.
- *HashCheck.* Two players: the smallest room in which two can agree against the
  referee, and one can be outvoted by a stale report. Two wrong hashes let diverged
  players differ. The lead is 1 and `MaxLag` 2, so that a defeated (unpaced) client
  can fall a tick further back than a paced one; `MaxTicks` 1 makes retention bite.
- *Packages.* Two selections, of which the server may have one; one change of the
  ticks, or one leaving host. Two changes only repeat what one does, on a room that
  the first has reset. One guest: the server treats every member alike, and
  `StartsAlike` is proved for any number of guests and changes.
- *Recording.* Two names make a recording find its name taken; two bundles make a
  flush that fails leave less than it should. At a power cut there is at most one
  recording (`MaxAtCut`), since files do not affect each other there; `MeetsCreation`
  is FALSE in `keep`, which leaves out the one moment `recording_taken` is about.
- *SimPool.* Two jobs are what a late worker needs to mistake one for the next;
  `MaxHelp` bounds the calls of `help()` that find nothing.
- *CommandWindow.* A tick takes one command and one order of one unit, and the
  server holds two (the code's ratio is 8): the smallest queue that a batch can fill
  in part. Three items are one more than it holds; the overflow needs a fourth, lost
  or acknowledged with the old connection. One break is enough for everything a
  reconnect resets, because each reconnect resets it.

**Fairness.**
- `GameRoom`: the network thread visits every room, seat and connection on every
  pass of `Server::run`, which polls with a timeout, so each visit that stays
  possible happens; the worker finishes a tick it was given; clients read what
  arrives and finish loading, unless they are silent, in which case the loading
  deadline drops them. Nobody has to keep up, answer or stay. That a seat begins
  only finitely many waits is `chargeWait`: each costs at least a second of a finite
  budget. `WaitClocks` shows that with the clocks in it.
- `WaitClocks`: the loop comes round, the worker ends its tick, the pass after
  publishes it. Nothing is asked of players; `GoesOn` asks that from some moment on
  nobody pauses and nobody takes a seat again, since a player may do either for ever.
- `HashCheck`: ticks are published as long as the players keep up, clients with a
  link simulate and report, a broken link is noticed, and a seat that is waited for
  is taken again or given up (`WaitClocks`). `Detected` asks that links stop
  breaking and that clients stay within the ticks that are kept.
- `CommandWindow`: the client's frame loop runs, reads and plays what it has; the
  server reads its connection; ticks close and land; again and again a tick closes
  with its whole order budget left to this player, since the drain starts with
  another client each tick (`OrderDrain`) and budgets turn over every second; a
  connection the server has dropped is found broken, and the client reconnects (a
  player who does not loses the seat, in `GameRoom`).
- `SimPool`: the caller runs; so does a worker that is inside a job or holds the
  mutex; a worker elsewhere may be descheduled for ever, except that once `stop_` is
  set all run (the destructor joins them).
- `Packages`, `Recording` and `AccountFile` are checked for safety only.
  `QuietMeansReady` is what safety can say of getting stuck: no state in which
  nothing is under way is one the room cannot start from. It is proved as well.

## What the runs found

1. **A lost Reseated frame loses the seat** (`SeatStaysOpen`). `Msg::Rejoin`
   rotates the token before the client has the new one. If that connection breaks
   first, the next attempt is refused with the wait still running, although the
   guide promises that reconnecting is automatic and tried every two seconds.
2. **A paused game without its host** (`PauseHasItsHost`). `leaveRoom` passes the
   host on only in the lobby, `takeOver` only at a takeover. A host who pauses and
   leaves, or who reconnects (a new connection id), leaves a pause nobody can end.
3. **The window opens too wide after a reconnect** (`NeverOverflows`). A tick in
   flight at the reconnect carries commands of the old connection and lands past
   the boundary the client counts acknowledgements from, so it retires commands
   the client has just sent. The excess is at most one tick's cap
   (`WindowCovers`); if it ever meets a full queue the message is dropped, and the
   player told. Orders, which are retired by serial, are not affected (`Roomy`).
4. **A new recording can be taken for one left behind** (`RecordingIsLeftAlone`).
   The `.part` is created and locked in two calls; a recovery pass of another client
   on the same profile that locks the empty file in between removes it by name
   after it has let go of it, and the recorder goes on into a file without a name.
   The header promises that recovery never touches a live recording.
5. **A tick of another pack is lost** (`PacksAreTheTicked`). The server drops a mod
   offer while it validates the host's last package, and says nothing; the client
   counts it as made. The room is then verified, and can start, with the packs of
   before.

### Observations

Seen while modelling; no run is about them.

- A player whom the tick in flight defeats, and whose connection breaks while it is
  in flight, is waited for to the end of the countdown (`server.cpp:2735` looks at
  the last completed tick); `WaitBounded` bounds it.
- A defeated player's client counts as live for the hash check but does not pace
  the room (`server.cpp:2510-2512`): far enough behind, its reports are dropped as
  they come and no tick is judged (the premise of `Detected`). The report of a player
  who has gone still counts towards the number.
- A wait that ends a hold charges of it the smaller of what it counted and the time
  from its beginning to the last contact (`server.cpp:2815-2817`). If a pause or
  another seat's wait suspended the hold before that, part of what is charged can be of the silence, which
  the wait charges too: at most that pause's length. Holds within `kHoldGraceMs` are free, however often
  they come (`server.cpp:2890`).
- A guest whose map download a new mod offer cuts off ignores the next offer of the
  same map as one being received (`client.cpp:1012`). A map chunk that arrives after
  a new mod offer ends the validation of the mods (`server.cpp:1836`). A host that
  ticks packs between asking for the start and hearing of it holds the GameStarting
  back (`client.cpp:648`). All three need a change during a transfer or a start,
  which is why `QuietMeansReady` has `changes = 0` in its premise.
- A LobbyState under way when a player leaves puts that client back into the room
  (`client.cpp:610`). A host who watches without a seat and leaves leaves a lobby
  nobody can start (`server.cpp:1605-1629`).
- Two games recorded in the same second on one profile (two clients) may share a base:
  a recorder that removes its empty file, or its sidecar, does so by name after it
  has closed the file, when the other may have created the name again. With two
  recorders TLC finds all three properties of `Recording` violated that way; the run
  and the theorems are about one recorder at a time, with any number of recoveries.
- The rename of the account file is not followed by a sync of the directory
  (`accounts.cpp:233`): a power cut moments after a registration can undo it.
  `AccountsKept` allows for that, and for nothing else.

## Proofs

`GameRoomProofs` proves, for any numbers of seats, people, connections, ticks and
leads satisfying `ConstantsAssumption`:

- `TypeCorrect`: `Spec => []TypeOK`;
- `SeatsAgree`: `Spec => []SeatOwnership`, that seats and connections of a running
  room name each other in both directions.

`SeatOwnership` is inductive together with `TypeOK`, so no strengthening beyond
the types is needed: the proof shows that every step of `Next` preserves it
(`NextSeats`), through lemmas for the four ways a seat changes hands (leaving,
dropping, reseating, takeover), each a fact about functions on seats and connections.

`TickProofs` proves of `WaitClocks`, for any number of seats, length of a second, budget,
grace, stall and timeout satisfying `ClocksAssumption`:

- `TypeCorrect`: `Spec => []TypeOK`, in which a seat never spends past its budget;
- `WaitsAreBounded`: `Spec => []WaitBounded`, the room waits for a seat no longer
  than its budget in all;
- `OneClockRuns`: `Spec => []OneClock`, no seat is waited for and held for at once;
- `HoldsAreTheirOwn`: with `Stall <= Timeout`, `Spec => []PauseCostsNothing`, a hold
  counts no more than it held. Without the premise a silent player can be dropped
  at the end of a pass, and waited for, before the scan has seen the silence; the
  holds of others then run on through that wait until the next scan, and TLC finds
  one overcounted (the settings, 15 s for `gTimeoutMs`, satisfy it);
- `CountdownsAreHonest`: `Spec => CountdownHonest`, no step gives time back.

None of these is inductive by itself. A wait's length is bounded because during it
what has been waited and what is left stay within the budget, and what is not left
will be charged (`Balanced`): rounding a charge up to whole seconds keeps that
(`Rounded`, `Charges`), rounding down would not. A hold is honest because its clock,
with the time since it was last looked at, never runs past the time really held
(`FairHold`), which needs that a pause or a wait found by the scan suspends every
hold before the loop sleeps, and that a seat silent for `Stall` which nobody waits
for is alone in the room (`ScanDone`). The invariant `IInv` is `TypeOK`, these
per-seat facts (`Sound`) and `ScanDone`. Each operation on one seat's record has a
lemma that it keeps `Sound` and gives no time back (`Shrinks`); each action of
`Next` has one that it keeps `IInv` and, seat by seat, `Shrinks`.

`GameRoomProofs` goes on to the fates of the seats:

- `SeatsAreHeld`: `Spec => []HeldSeatAccounted`;
- `TakeoversComeFirst`: `Spec => []AiAfterTakeover`;
- `FatesAreSequenced`: `Spec => []FateSequenced`.

`FateSteps` says once what a step does to a seat's fate: nothing, `Leaves`, or
`TakenOver`, each with the event it adds and the controller it makes; `TickStep`
says how events move from pending to the tick in flight to the log. The rest is
about events. `AiAfterTakeover` alone is not inductive: a tick in flight has
computer players whose takeover is in the same tick, so `ControllersAnnounced`
follows a controller's announcement through pending, tick and log (`AiInv`).
`FateSequenced` counts: `EventsOf` is a sum of cardinalities of index sets, and the
lemmas about appending and concatenating show that a step adds one event or only moves
it. It needs the log's events of a seat to be a finite set (`LoggedFinite`).

`StreamProofs`, on the same assumptions:

- `StreamsInStep`: `Spec => []StreamInv`, which is inductive with the types;
- `Refinement`: `Spec => ImplementsLockstep`. `Leaves` and `TakenOver` are `Depart`,
  `FinishTick` is `Publish`, a job that fails is `CutShort`, reading a bundle is
  `Receive`, reading the opener of a game that starts is `StartOver`; every other step
  changes nothing that `Lockstep` sees;
- `FlowIsBounded`: `Spec => []FlowBound`. The room knows what clients acknowledge,
  the bound is about what they have received, so the invariant (`FlowInv`) says that
  nobody acknowledges what it has not received (`AcksReceived`), whoever plays a seat
  (`SeatedByOwner`, since a token names the seat it was made for: `TokensOwn`), and
  that a game has not begun without a player who still has its start to read
  (`BeginsTogether`), who would otherwise throw away what the room counts on. A
  reconnect acknowledges what the client says it has, which is why who is sent a new
  token must have had one (`ReseatedHadToken`).

`SimPoolProofs` proves, for any finite set of workers and any number and size of jobs:

- `TypeCorrect`, and `NobodySleeps`: `Spec => []NobodySleepsThrough`;
- `FieldsKept`: `Spec => FieldsAreTheCallers`;
- `Refinement`: `Spec => ImplementsForkJoin`.

The invariant ties the parity of `gen` to the caller's place and call (`CallerInv`):
the job is open from the first step after the wake-up to the close. A worker that
takes part is in the open job, or in one the caller closed and has not left
(`WorkerInv`), and `inflight` and `sleeping` count exactly the workers at the places
between their increment and decrement (`Counts`): so a caller that reads 0 from
`inflight` knows that nobody is at the fields, and one that reads 0 from `sleeping`
leaves nobody asleep. The chunk a thread has claimed is below `next` (`ClaimedOnce`),
which makes each claim `ForkJoin`'s beginning of a chunk nobody began.

`CommandWindowProofs` proves, for any cap, queue, windows, order sizes, lead and
number of breaks satisfying `WindowAssumption`:

- `TypeCorrect`: `Spec => []TypeOK`, in which the server's counts are those of its
  queue;
- `InputInOrder`: `Spec => []InOrder`;
- `WindowsCover`: `Spec => []WindowCovers`;
- `WindowsClose`: `Spec => []NothingLeaks`;
- `RoomIsFound`: `Spec => []Roomy`;
- `FramesWellFormed`: `Spec => []NeverMalformed`.

They share one invariant, `IInv`. Its parts on items say where an item can be: the ticks
to be played, the one in flight, the server's queue, the frames under way and the
outbox are one line in the order of issue (`Ordering`), what was dropped is in no part
of it (`Apart`), and serials follow the same order (`Numbering`). The frames under way
are runs of commands and whole transactions, of which only the first can be begun
already (`Shaped`), and then the server's stage is that transaction's (`Staged`); this
is what makes no frame malformed. `Counted` ties the server's counts to its queue,
and `Windows` ties the client's to the sets of what is outstanding. `WindowCovers` is
not inductive without what happens on the way to it: while the client replays its
history it acknowledges nothing and has sent nothing, so there is nothing of its own
between the server and it but what the tick in flight holds (`Quiet`). Every count
moves by a set that leaves one place for another, and the lemmas on `Commands`,
`Orders` and `Bytes` are that these are additive on disjoint finite sets. `Frames` is
a recursive function; that it makes a well-shaped uplink out of every batch is proved
by the least counterexample (`LeastOf`), which the well-foundedness of the naturals
gives without a theorem that takes the induction hypothesis as an operator.

`TickProofs` is also about the rest of what a room does beside its ticks:

- `OrdersAreTakenSoon`: `DrainSpec => []OrderSoonTaken`, for any number of slots. A
  slot that is passed over is one place nearer to the head of the round after the
  tick, and the head of the round is always served; so how often a slot was passed
  over and how many are ahead of it stay below the number of slots together
  (`DrainInv`). What a slot takes are sums over its queue and over the slots
  before it, recursive functions whose values are got at the same way as those of
  `Frames` above (`BytesOf`);
- `OneAloneHarmsNobody`: `HashSpec => []LoneDivergenceIsIts`;
- `NobodyIsAccusedFalsely`: `HashSpec => []ToldHasDiverged`, that a right referee
  accuses only who has diverged, however many have;
- `TickTypeCorrect`: `MCSpec => []TickTypeOK`, by `EachGoesItsWay`: a behaviour of
  `MCTick` is one of each of its three components.

Reports outlive what their players do, so the invariant of the hash check
(`ReportsAreTheirs`) says of a report of any age that it is right or what its player
simulates now. Reports that all differ from the referee's are then of players who have
all diverged, and an appeal needs at least two (`AppealTakesTwo`).

`FileProofs` is about what is kept. `AccountsAreKept` is
`AccSpec => []AccountsKept`, for any set of accounts. While a save is under way the
store is the file and at most one account more, and the temporary file is what the
step before has made of it (`SaveInStep`); what a power cut may leave is a whole file
(`AccountsInv`). For any number of recovery passes, bases, bundles and power cuts it
proves of recordings, under `OneGame`:

- `LiveLeftAlone`: `OneGame => (RecSpec => []RecordingIsLeftAlone)`;
- `FlushesLast`: `OneGame => (RecSpec => []NothingFlushedIsLost)`;
- `ReplaysWhole`: `OneGame => (RecSpec => []ReplaysAreWhole)`;

and without any hypothesis, for any number of recorders at any moment:

- `RecordingTyped`: `RecSpec => []RecTypeOK`, that a lock goes with the file its
  process has open and who needs a file has one (`FilesTyped`);
- `KeepTypeCorrect`: `MCSpec => []KeepTypeOK`, the types of packages, recordings and
  accounts, by `EachKeepsItsOwn`.

`OneGame` says that at most one process records and that no recovery pass meets a
recording between its creation and its lock. The second half is what
`recording_taken` is about; the first is explained under Observations. The
difficulty is that recovery removes and renames by name after it has let go of the
lock, which is on the file. The proof rests on a base leading to one recording for
ever (`OneRecording`), across the directory, what of it is on the disk, and what
processes have open; that holds because a recording starts at a base nothing is
known of (`FreshBases`). Then a place in the code is worth what has been seen before
it (`Placed`: who writes holds the name; who removes has seen that the file is worth
nothing, which it remains; `Prepared`: what the file holds there), and a file that is
to survive has a name in the directory and on the disk (`OnDisk`). `RecInv` was first
checked with TLC on the instance of `keep`.

`PackagesProofs` proves `EverybodyStartsAlike`: `PkSpec => []StartsAlike`, for any
guests, selections of packs, maps they make, store and number of changes. It also
covers what the run `keep` is too small for: several guests, and a host that changes
its ticks or leaves over and over. The server goes by what clients said a while ago, so nothing about one
state says that a client which reads `GameStarting` has what the room has; the order
on the wire does. The invariant says of each client that being ready with another
package than the room's, or having another one's offer or bytes still to read, means
that an offer of the room's package is still to be read after it (`InOrder`), and that
no offer follows `GameStarting` (`NoOfferAfter`): a client that starts has no offer
left, so it has the room's packages. The server's half (`ServerInStep`) is that
everybody inside has been offered just what the room has, that nobody is sent the bytes
of another package, and that at most one validation is current, the host's, for a
package the room does not have yet. Each handler of the server is shown to keep that
and to send only what fits (`ServerDone`, `Sent`); each frame a client reads leaves it
ready with no more than it was or with what the frame brought (`ReadsWell`). `IInv` was
first checked with TLC on the instance of `keep`.

`PackagesTyped`, `PkSpec => []PkTypeOK`, is about digests: `Packs` and `Maps` are
disjoint, but one field of a frame or a job carries either, and a job's results are
applied by its `mods` flag. `AllSorted` says that each frame under way, each job and
each field at either end holds one of the sort its kind says, and every handler keeps
that.

`ReadyProofs` proves `RoomsGetReady`: `PkSpec => []QuietMeansReady`. It is about progress:
as long as no host has changed its ticks or left, nobody waits for a package that never comes. Its
invariant (`Owed`) is an account. On the way from what the host has ticked to what the
room has, the mods are in exactly one place (`ModsComing`): the host's offer in its
uplink, the server's request to the host, the bytes, the validation, the room. So is
the map (`MapComing`), which may also wait at the server, its offer put off, until the
mods are there. Each player present has exactly one of the offer, the request, the
bytes and the answer under way, or is ready, for the mods (`GetsMods`) and for the map
(`GetsMap`). What is under way comes in order, mods before map (`ModsFirst`,
`OffersInOrder`), and the last `LobbyState` under way to the host, or else the one it
has read, is true of who is ready (`IsTold`). The places are counted as cardinalities
of sets of indices (`Num`), and each action is shown to move one count from its place
to the next and to leave the others alone. When nothing is under way only the last
place of each account is left: the room has what the host ticked, everybody inside is
ready, and the host has been told (`QuietSettled`). A host that has changed its ticks
or left spoils the account for good (`StaysDisturbed`); what then happens is among the
observations above.

## What is only model-checked

- Liveness (`GameGoesOn`, `CallReturns`, `WorkersEnd`, `Settles`, `ClocksGoOn`,
  `Detected`): out of the prover's reach. Every safety invariant and every action
  property of the passing runs is proved.
- What the violated runs show is shown by TLC's counterexamples.

## Plan

Done: `GameRoom` with `Lockstep`, `SimPool` with `ForkJoin`, `CommandWindow`,
`WaitClocks`, `OrderDrain`, `HashCheck`, `Packages`, `Recording`, `AccountFile`; the
proofs above. Left, in this order:

1. An abstract specification for `CommandWindow`, "each command once, in order, or a
   notice", which its invariants already imply step by step.
2. The lobby's part in `Packages` beyond one seat per player; its three validations
   at a time.
3. Session tokens, leases and revocation; the rest of the lobby (seat moves, kicks,
   a host who watches); `TickPacer`; the low-priority queue of `Conn`.
4. Pieces of the simulation with a discrete core (script threads, build queues).

## Not modelled

Most of the repository's lines are a numeric simulation (`sim/sim.cpp`,
`sim/legion.cpp`), what is drawn of it (`client/gameview_*`), heuristics (`ai/`),
formats and an editor. They run in one thread, or inside one tick of one, decide
nothing about each other's state through messages, time or failure, and their
correctness is numeric or visual: a TLA+ model would copy the arithmetic, or say
nothing. The modules here are about the parts that take turns, wait, fail and come
back, which are a small share of the lines. Of these, left out for now are the parts
the plan lists. Chat, voice, diplomacy, resource sharing and the speed setting are
relayed without a decision that depends on them. Outside TLA+'s reach altogether:
cryptography and TLS (library calls), the operating system's sockets beyond "in
order until it breaks", and the debug build's input delay (`TAK_SRV_DELAY`).
