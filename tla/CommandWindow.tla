---------------------------- MODULE CommandWindow ----------------------------
(***************************************************************************)
(* One player's input on its way into the tick stream: the client's outbox *)
(* and send windows (src/src/client/gameview_net.cpp), the uplink, the     *)
(* server's queue for the player (src/src/server/server.cpp, orders.h) and *)
(* the drain of that queue into the ticks, whose bundles coming back are   *)
(* the only acknowledgement there is.                                      *)
(*                                                                         *)
(* A player's input is commands and selection orders in one FIFO.  Commands *)
(* go out under a credit and a window (cmdSendCredit, cmdSendWindow), an   *)
(* order under a window of its own (orderSendWindow) as a transaction of   *)
(* three frames.  What the server drops it says (InputDropped).            *)
(*                                                                         *)
(* Ticks are counted from the one the client plays next: a published tick  *)
(* leaves the model when the client has played it.  The room's other       *)
(* players are only in what they leave of a tick's budget for orders.      *)
(***************************************************************************)
EXTENDS Integers, Sequences, FiniteSets, FiniteSetsExt

CONSTANTS
  CapPerTick,     \* kCmdCapPerTick
  QueueCap,       \* kCmdQueueCap
  OrderWindow,    \* kOrderWindow
  WindowBytes,    \* kOrderWindowBytes
  TickBytes,      \* kTickOrderBytes
  OrderSizes,     \* record sizes of orders, in units of bytes
  SharedBudgets,  \* the budgets per second may refuse this player's input
  Lead,           \* how far the room runs past what the client has played
  MaxIssued,      \* bound: commands and orders the player issues
  MaxBreaks       \* bound: times the link breaks

ASSUME WindowAssumption ==
  /\ CapPerTick \in Nat \ {0} /\ QueueCap \in Nat /\ CapPerTick <= QueueCap
  /\ OrderWindow \in Nat \ {0}
  /\ TickBytes \in Nat /\ WindowBytes \in Nat /\ TickBytes <= WindowBytes
  /\ OrderSizes \subseteq 1 .. TickBytes
  /\ SharedBudgets \in BOOLEAN
  /\ Lead \in Nat \ {0} /\ MaxIssued \in Nat /\ MaxBreaks \in Nat

VARIABLES
  issued,      \* commands and orders the player has issued
  outbox,      \* outbox_ from outboxHead_
  credit,      \* cmdCredit_
  unsettled,   \* netTick_ - lastSendTick_
  inFlight,    \* cmdInFlight_
  sent,        \* orderWindow_: the orders sent and not retired
  serial,      \* nextOrderSerial_
  link,        \* the client has a connection
  got,         \* how many of the ticks not played it has received
  history,     \* cmdReplayEnd_ - netTick_, or 0
  breaks,      \* how often the link broke
  up,          \* frames under way to the server
  down,        \* frames under way to the client
  attached,    \* the server has the player's connection
  queue,       \* Client::cmdQueue
  inbox,       \* Client::orders
  floor,       \* Room::orderSerialFloor of the player's slot
  frozen,      \* what the tick in flight holds of the player's, if there is one
  unplayed,    \* what the published ticks the client has not played hold of it
  played       \* the newest of its commands and orders the client has played

client == <<issued, outbox, credit, unsettled, inFlight, sent, serial>>
stream == <<got, history, unplayed, played>>
server == <<attached, queue, inbox, floor, frozen>>
vars == <<client, link, stream, breaks, up, down, server>>

-----------------------------------------------------------------------------
(* An item is known by its place in the order of issue; an order has a     *)
(* record size, and a serial once it is sent.  Counts are of sets of items: *)
(* no item is at two places.                                               *)

Item(n, bytes) == [n |-> n, bytes |-> bytes, serial |-> 0]
IsOrder(item) == item.bytes > 0
IsCommand(item) == item.bytes = 0

Commands(items) == Cardinality({x \in items : IsCommand(x)})
Orders(items) == Cardinality({x \in items : IsOrder(x)})
Bytes(items) == Cardinality(UNION {{x} \X (1 .. x.bytes) : x \in items})
Serials(items) == {x.serial : x \in items}
AllOf(runs) == UNION {Range(runs[i]) : i \in DOMAIN runs}

First(s, n) == SubSeq(s, 1, n)
Behind(s, n) == SubSeq(s, n + 1, Len(s))

(* The longest run of items from the head of a FIFO that is allowed: the   *)
(* first item that is not stops everything behind it.                      *)
LongestPrefix(s, Allowed(_)) ==
  Max({n \in 0 .. Len(s) : \A m \in 0 .. n : Allowed(Range(First(s, m)))})

(* Frames.  Those to the server carry items; those to the client are a     *)
(* bundle, or a notice: of a dropped order by its serial, of dropped       *)
(* commands by their number.                                               *)
Frame(kind, items) == [kind |-> kind, items |-> items]
Bundle == Frame("bundle", {})
InputDropped(items) == Frame("dropped", items)

NoStage == [serial |-> 0, dropped |-> FALSE]
EmptyInbox == [queued |-> 0, bytes |-> 0, last |-> 0, stage |-> NoStage]

Init ==
  /\ issued = 0 /\ outbox = <<>> /\ credit = CapPerTick /\ unsettled = 0
  /\ inFlight = 0 /\ sent = {} /\ serial = 1
  /\ link = TRUE /\ got = 0 /\ history = 0 /\ breaks = 0
  /\ up = <<>> /\ down = <<>>
  /\ attached = TRUE /\ queue = <<>> /\ inbox = EmptyInbox /\ floor = 0
  /\ frozen = <<>> /\ unplayed = <<>> /\ played = 0

-----------------------------------------------------------------------------
(* The client.                                                             *)

(* GameView::issue, flushClick.                                            *)
Issue(bytes) ==
  /\ issued < MaxIssued
  /\ issued' = issued + 1
  /\ outbox' = Append(outbox, Item(issued + 1, bytes))
  /\ UNCHANGED <<credit, unsettled, inFlight, sent, serial, link, stream, breaks, up, down, server>>

(* The input the server says it dropped leaves the windows.                *)
ReleasedNothing(window, dropped) == window
Released(window, dropped) == {o \in window : o.serial \notin Serials(dropped)}

Less(n, m) == IF n > m THEN n - m ELSE 0

(* What the client knows of its windows once it has read n frames.         *)
BundlesIn(n) == Cardinality({i \in 1 .. n : down[i].kind = "bundle"})
NewsIn(n) == UNION {down[i].items : i \in 1 .. n}
CreditNow == Min({QueueCap, credit + unsettled * CapPerTick})
InFlightAfter(n) == Less(inFlight, Commands(NewsIn(n)))
SentAfter(n) == Released(sent, NewsIn(n))

(* A rejoined client's own commands come back with the history it plays    *)
(* first: they acknowledge nothing, and it sends nothing meanwhile.        *)
CatchingUp == history > 0

SendableByCredit(n) ==
  IF CatchingUp THEN 0
  ELSE LongestPrefix(outbox, LAMBDA items : Commands(items) <= CreditNow)

(* How much of the outbox may go then: commands by credit and window,      *)
(* orders by theirs, and nothing past the first item that has to wait.     *)
Sendable(n) ==
  IF CatchingUp THEN 0
  ELSE LongestPrefix(outbox,
         LAMBDA items : /\ Commands(items) <= Min({CreditNow, Less(QueueCap, InFlightAfter(n))})
                        /\ Orders(items) + Cardinality(SentAfter(n)) <= OrderWindow
                        /\ Bytes(items) + Bytes(SentAfter(n)) <= WindowBytes)

(* An order takes its serial as it leaves.                                 *)
Numbered(run, s) ==
  [i \in DOMAIN run |->
     IF IsOrder(run[i])
     THEN [run[i] EXCEPT !.serial = s + Orders(Range(First(run, i - 1)))]
     ELSE run[i]]

(* A run of commands is one PlayerCommands; an order is OrderBegin, its    *)
(* members and OrderCommit.                                                *)
Transaction(order) ==
  <<Frame("begin", <<order>>), Frame("members", <<order>>), Frame("commit", <<order>>)>>

Framed(frames, item) ==
  IF IsOrder(item) THEN frames \o Transaction(item)
  ELSE IF frames # <<>> /\ frames[Len(frames)].kind = "commands"
       THEN [frames EXCEPT ![Len(frames)].items = Append(@, item)]
       ELSE Append(frames, Frame("commands", <<item>>))

Frames(batch) ==
  LET upTo[n \in 0 .. Len(batch)] ==
        IF n = 0 THEN <<>> ELSE Framed(upTo[n - 1], batch[n])
  IN  upTo[Len(batch)]

(* What comes back in the ticks played retires what is in flight.          *)
Acknowledged(newest) == IF CatchingUp THEN 0 ELSE Commands(newest)
Unacknowledged(window, newest) == IF CatchingUp THEN window ELSE Released(window, newest)

(* GameView::mpStep: the client reads n frames, takes the notices, accrues *)
(* its credit, sends the k items it may and plays m of the ticks it has;   *)
(* when the history is spent its windows start over.                       *)
Step(n, k, m) ==
  /\ link
  /\ k = Sendable(n)
  /\ got' = got + BundlesIn(n) - m
  /\ got' >= 0
  /\ down' = Behind(down, n)
  /\ outbox' = Behind(outbox, k)
  /\ unplayed' = Behind(unplayed, m)
  /\ unsettled' = m
  /\ history' = Less(history, m)
  /\ LET batch   == Numbered(First(outbox, k), serial)
         newest  == AllOf(First(unplayed, m))
         resumes == CatchingUp /\ m >= history
     IN  /\ up' = IF attached THEN up \o Frames(batch) ELSE up
         /\ played' = Max({played} \cup {x.n : x \in newest})
         /\ serial' = Max({serial + Orders(Range(batch))} \cup {s + 1 : s \in Serials(newest)})
         /\ credit' = IF resumes THEN CapPerTick ELSE CreditNow - Commands(Range(batch))
         /\ inFlight' = IF resumes THEN 0
                        ELSE Less(InFlightAfter(n) + Commands(Range(batch)), Acknowledged(newest))
         /\ sent' = IF resumes THEN {}
                    ELSE Unacknowledged(SentAfter(n) \cup {x \in Range(batch) : IsOrder(x)}, newest)
  /\ UNCHANGED <<issued, link, breaks, server>>

(* The client finds its link broken.                                       *)
LinkBreaks ==
  /\ link /\ breaks < MaxBreaks
  /\ link' = FALSE
  /\ breaks' = breaks + 1
  /\ down' = <<>>
  /\ UNCHANGED <<client, stream, up, server>>

-----------------------------------------------------------------------------
(* The server.                                                             *)

(* Client::clearCommands and a new, or no, connection: what was queued and *)
(* what was under way is gone.  A tick in flight keeps what it holds.      *)
ForgottenButTheQueue ==
  up' = <<>> /\ UNCHANGED <<queue, inbox>>

ForgottenButTheStage ==
  /\ queue' = <<>>
  /\ inbox' = [EmptyInbox EXCEPT !.stage = inbox.stage]
  /\ up' = <<>>

Forgotten ==
  /\ queue' = <<>>
  /\ inbox' = EmptyInbox
  /\ up' = <<>>

(* Server::dropClient.                                                     *)
DropClient ==
  /\ attached /\ (link => breaks < MaxBreaks)
  /\ attached' = FALSE
  /\ Forgotten
  /\ UNCHANGED <<client, link, stream, breaks, down, floor, frozen>>

(* Msg::Rejoin and the client's Reseated (GameView::reconnectStep), which  *)
(* touches nothing the server's steps in between do.  The ticks logged by  *)
(* now are history; the one in flight is not.                              *)
RejoinKeepingTheWindow ==
  /\ ~link
  /\ link' = TRUE /\ attached' = TRUE
  /\ Forgotten
  /\ down' = [i \in 1 .. Len(unplayed) - got |-> Bundle]
  /\ history' = Len(unplayed)
  /\ inFlight' = 0
  /\ UNCHANGED <<issued, outbox, credit, unsettled, sent, serial, got, unplayed, played, breaks, floor, frozen>>

Rejoin ==
  /\ ~link
  /\ link' = TRUE /\ attached' = TRUE
  /\ Forgotten
  /\ down' = [i \in 1 .. Len(unplayed) - got |-> Bundle]
  /\ history' = Len(unplayed)
  /\ inFlight' = 0 /\ sent' = {}
  /\ UNCHANGED <<issued, outbox, credit, unsettled, serial, got, unplayed, played, breaks, floor, frozen>>

(* A budget shared with others may be spent (takeInputBudget).             *)
Refusals == IF SharedBudgets THEN BOOLEAN ELSE {FALSE}

Ordinary == Len(queue) - Min({Len(queue), inbox.queued})
QueueTakes(count) == Ordinary <= QueueCap /\ count <= QueueCap - Ordinary

(* Msg::PlayerCommands: taken whole or dropped whole.                      *)
TakeCommands(refused) ==
  /\ attached /\ up # <<>> /\ Head(up).kind = "commands"
  /\ up' = Tail(up)
  /\ LET items == Head(up).items IN
       \/ /\ ~refused /\ QueueTakes(Len(items))
          /\ queue' = queue \o items
          /\ UNCHANGED down
       \/ /\ refused \/ ~QueueTakes(Len(items))
          /\ down' = IF link THEN Append(down, InputDropped(Range(items))) ELSE down
          /\ UNCHANGED queue
  /\ UNCHANGED <<client, link, stream, breaks, attached, inbox, floor, frozen>>

(* OrderInbox::frame.  An order that cannot be queued is dropped where     *)
(* that shows, and the client is told at its commit.                       *)
Malformed(f) ==
  LET s == f.items[1].serial
  IN  CASE f.kind = "begin" -> inbox.stage # NoStage \/ s <= inbox.last \/ s <= floor
        [] f.kind \in {"members", "commit"} -> inbox.stage.serial # s
        [] OTHER -> FALSE

WindowFull(bytes) == inbox.bytes + bytes > WindowBytes

OrderBegin(refused) ==
  /\ Head(up).kind = "begin"
  /\ LET s == Head(up).items[1].serial IN
       inbox' = [inbox EXCEPT !.last = s,
                   !.stage = [serial |-> s, dropped |-> refused \/ inbox.queued >= OrderWindow]]
  /\ UNCHANGED <<queue, down>>

OrderMembers(refused) ==
  /\ Head(up).kind = "members"
  /\ inbox' = [inbox EXCEPT !.stage.dropped = @ \/ refused \/ WindowFull(Head(up).items[1].bytes)]
  /\ UNCHANGED <<queue, down>>

OrderCommit ==
  /\ Head(up).kind = "commit"
  /\ LET order == Head(up).items[1]
         drop == inbox.stage.dropped \/ inbox.queued >= OrderWindow \/ WindowFull(order.bytes)
     IN  IF drop
         THEN /\ down' = IF link THEN Append(down, InputDropped({order})) ELSE down
              /\ inbox' = [inbox EXCEPT !.stage = NoStage]
              /\ UNCHANGED queue
         ELSE /\ queue' = Append(queue, order)
              /\ inbox' = [inbox EXCEPT !.stage = NoStage, !.queued = @ + 1, !.bytes = @ + order.bytes]
              /\ UNCHANGED down

TakeOrderFrame(refused) ==
  /\ attached /\ up # <<>> /\ Head(up).kind # "commands"
  /\ ~Malformed(Head(up))
  /\ OrderBegin(refused) \/ OrderMembers(refused) \/ (OrderCommit /\ ~refused)
  /\ up' = Tail(up)
  /\ UNCHANGED <<client, link, stream, breaks, attached, floor, frozen>>

(* Server::closeTick: the drain.  The tick has room bytes of its order     *)
(* budget left for this player; an order that does not fit waits, and so   *)
(* does what is behind it.                                                 *)
Drained(room) ==
  LongestPrefix(queue, LAMBDA items : Commands(items) <= CapPerTick /\ Bytes(items) <= room)

CloseTickKeepingBytes(room) ==
  /\ attached /\ frozen = <<>>
  /\ Len(unplayed) < Lead
  /\ LET items == First(queue, Drained(room))
     IN  /\ frozen' = <<items>>
         /\ queue' = Behind(queue, Len(items))
         /\ inbox' = [inbox EXCEPT !.queued = Less(@, Orders(Range(items)))]
         /\ floor' = Max({floor} \cup Serials(Range(items)))
  /\ UNCHANGED <<client, link, stream, breaks, up, down, attached>>

CloseTickCommandsFirst(room) ==
  /\ attached /\ frozen = <<>>
  /\ Len(unplayed) < Lead
  /\ LET waits == Drained(room) < Len(queue) /\ IsOrder(queue[Drained(room) + 1])
         items == IF waits THEN SelectSeq(queue, IsCommand) ELSE First(queue, Drained(room))
     IN  /\ frozen' = <<items>>
         /\ queue' = IF waits THEN SelectSeq(queue, IsOrder) ELSE Behind(queue, Len(items))
         /\ inbox' = [inbox EXCEPT !.queued = Less(@, Orders(Range(items))), !.bytes = Less(@, Bytes(Range(items)))]
         /\ floor' = Max({floor} \cup Serials(Range(items)))
  /\ UNCHANGED <<client, link, stream, breaks, up, down, attached>>

CloseTick(room) ==
  /\ attached /\ frozen = <<>>
  /\ Len(unplayed) < Lead
  /\ LET items == First(queue, Drained(room))
     IN  /\ frozen' = <<items>>
         /\ queue' = Behind(queue, Len(items))
         /\ inbox' = [inbox EXCEPT !.queued = Less(@, Orders(Range(items))), !.bytes = Less(@, Bytes(Range(items)))]
         /\ floor' = Max({floor} \cup Serials(Range(items)))
  /\ UNCHANGED <<client, link, stream, breaks, up, down, attached>>

FinishTick ==
  /\ frozen # <<>>
  /\ frozen' = <<>>
  /\ unplayed' = Append(unplayed, frozen[1])
  /\ down' = IF link /\ attached THEN Append(down, Bundle) ELSE down
  /\ UNCHANGED <<client, link, got, history, played, breaks, up, attached, queue, inbox, floor>>

Reading ==
  \E n \in 0 .. Len(down), k \in 0 .. Len(outbox) : \E m \in 0 .. got + n : Step(n, k, m)
Taking ==
  \E refused \in Refusals : TakeCommands(refused) \/ TakeOrderFrame(refused)

Next ==
  \/ \E bytes \in {0} \cup OrderSizes : Issue(bytes)
  \/ Reading
  \/ LinkBreaks
  \/ Taking
  \/ DropClient
  \/ Rejoin
  \/ \E room \in 0 .. TickBytes : CloseTick(room)
  \/ FinishTick

Spec == Init /\ [][Next]_vars

(* The client's loop runs and plays what it has; the connection's frames   *)
(* are read; ticks close and land, and the order budget of a tick comes    *)
(* round to this player (orderRotor); a lost link is noticed and made anew. *)
PlayAll ==
  \E k \in 0 .. Len(outbox) : Step(Len(down), k, got + BundlesIn(Len(down)))

Fairness ==
  /\ WF_vars(PlayAll)
  /\ WF_vars(Taking)
  /\ SF_vars(CloseTick(TickBytes))
  /\ WF_vars(FinishTick)
  /\ WF_vars(~attached /\ LinkBreaks)
  /\ WF_vars(Rejoin)

FairSpec == Spec /\ Fairness

-----------------------------------------------------------------------------
(* Where an item can be.                                                   *)

Carried(f) == IF f.kind \in {"commands", "commit"} THEN f.items ELSE <<>>
Uplink == [i \in DOMAIN up |-> Carried(up[i])]
Streamed == unplayed \o frozen
Pipeline == Streamed \o <<queue>> \o Uplink \o <<outbox>>

(* What the client has sent and has not heard of.                          *)
Outstanding == AllOf(Streamed) \cup Range(queue) \cup AllOf(Uplink) \cup NewsIn(Len(down))

(* The connection is whole, and the client lives in the present.           *)
Conversing == link /\ attached /\ ~CatchingUp

-----------------------------------------------------------------------------
(* The variables keep to their types and bounds; the server counts the     *)
(* orders of its queue and their bytes (OrderInbox::queued, drained), whatever    *)
(* is dropped, drained or forgotten.                                       *)
TypeOK ==
  /\ issued \in 0 .. MaxIssued /\ breaks \in 0 .. MaxBreaks
  /\ credit \in 0 .. QueueCap /\ unsettled \in 0 .. Lead /\ inFlight \in Nat
  /\ sent \subseteq [n : 1 .. issued, bytes : OrderSizes, serial : 1 .. serial - 1]
  /\ serial \in 1 .. MaxIssued + 1 /\ floor \in 0 .. serial - 1
  /\ link \in BOOLEAN /\ attached \in BOOLEAN
  /\ Len(unplayed) \in 0 .. Lead /\ got \in 0 .. Len(unplayed) /\ history \in 0 .. Len(unplayed)
  /\ Len(frozen) \in 0 .. 1
  /\ inbox.queued = Orders(Range(queue)) /\ inbox.bytes = Bytes(Range(queue))

(* A Stop never overtakes a Move: what the player issued comes out of the  *)
(* tick stream in the order of issue, whatever is dropped on the way, and  *)
(* nothing comes out twice (the one FIFO at each end, gameview_net.cpp     *)
(* 487-492, server.cpp 2611-2614).                                         *)
InOrder ==
  \A i \in DOMAIN Pipeline : \A a \in DOMAIN Pipeline[i] :
    /\ played < Pipeline[i][a].n
    /\ \A b \in 1 .. a - 1 : Pipeline[i][b].n < Pipeline[i][a].n
    /\ \A h \in 1 .. i - 1 : \A x \in Range(Pipeline[h]) : x.n < Pipeline[i][a].n

(* The window is the server's queue: the client counts every command that  *)
(* is outstanding, except that a tick in flight at a reconnect may         *)
(* acknowledge as many commands again as one tick takes.                   *)
WindowCovers ==
  Conversing => Commands(Outstanding) <= inFlight + IF breaks = 0 THEN 0 ELSE CapPerTick

(* Nothing holds the outbox shut for good: what the client counts as in    *)
(* flight is on its way somewhere, or the notice that it was dropped is.   *)
NothingLeaks ==
  Conversing =>
    /\ inFlight <= Commands(Outstanding)
    /\ sent \subseteq Outstanding

(* An honest client's order never meets a full inbox, nor do its commands  *)
(* a full queue, on the connection it started with: only a budget it       *)
(* shares makes the server drop them.  Its orders never do.                *)
Roomy ==
  attached /\ up # <<>> =>
    LET f == Head(up) IN
      /\ f.kind = "begin" => inbox.queued < OrderWindow /\ ~WindowFull(f.items[1].bytes)
      /\ f.kind = "commands" /\ breaks = 0 => QueueTakes(Len(f.items))

(* No frame an honest client sends is taken for a broken one, which would  *)
(* cost it the connection: its serials only rise, over reconnects too, and *)
(* each transaction finds the stage it needs.                              *)
NeverMalformed == attached /\ up # <<>> => ~Malformed(Head(up))

(* "It can never have more outstanding than the server can hold"           *)
(* (protocol.h 670-673): no command of an honest client overflows.         *)
NeverOverflows ==
  attached /\ up # <<>> /\ Head(up).kind = "commands" => QueueTakes(Len(Head(up).items))

(* Whatever is dropped, and however often the link breaks, all the player  *)
(* issues leaves the outbox and the windows close over it.                 *)
Settles == <>[](outbox = <<>> /\ inFlight = 0 /\ sent = {})
=============================================================================
