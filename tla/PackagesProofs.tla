---------------------------- MODULE PackagesProofs ----------------------------
(***************************************************************************)
(* For any players, any selections of packs, any maps they make and        *)
(* anything the server may have stored: whatever the host ticks and        *)
(* whoever comes and goes meanwhile, everybody who starts has the packages *)
(* the room plays by.                                                      *)
(*                                                                         *)
(* The server never asks itself what a client has when GameStarting gets   *)
(* there: it goes by what clients said a while ago, and they may since     *)
(* have been offered something else.  That they start alike is a matter of *)
(* the order on the wire.  A client that holds itself ready for another    *)
(* package than the room's, or has another one's offer or bytes still to   *)
(* read, has an offer of the room's to read after it (Ahead, Covered); and *)
(* no offer follows GameStarting (NoOfferAfter).  The server's part is to  *)
(* offer whatever it takes to whom it has offered nothing since, and to    *)
(* send nobody the bytes of another package (ServerInStep).                *)
(***************************************************************************)
EXTENDS Packages, SequenceTheorems, TLAPS

-----------------------------------------------------------------------------
(* Types.                                                                   *)

Values == Optional(Digests)
Offers == {"ModOffer", "MapOffer"}
Plain == {"ModOffer", "ModRequest", "ModChunk", "ModReady", "ModError",
          "MapOffer", "MapRequest", "MapChunk", "MapReady", "MapError",
          "Join", "Leave", "Start", "GameStarting"}
Downward == {"ModOffer", "ModRequest", "ModChunk", "ModError",
             "MapOffer", "MapRequest", "MapChunk", "MapError", "GameStarting"}
UpFrames == [kind : Plain, digest : Values]
DownFrames == [kind : Downward, digest : Values]
                \cup [kind : {"LobbyState"}, host : Optional(Players), ready : BOOLEAN]

Rooms == [host : Optional(Players), mods : Values, map : Values, running : BOOLEAN]
Seen == [here : BOOLEAN, modReady : Values, modOffered : Values,
         modReceive : Values, modSend : Values,
         mapReady : BOOLEAN, mapOffered : BOOLEAN,
         mapReceive : Values, mapSend : Values, deferred : Values]
Mine == [at : {"lobby", "joining", "room", "held", "started", "left"},
         host : Optional(Players), mapsReady : BOOLEAN,
         ticks : Packs, pending : BOOLEAN,
         modPackage : Values, modReceive : Values, modSend : Values,
         modOffered : BOOLEAN, modReady : BOOLEAN,
         mapPackage : Values, mapReceive : Values, mapSend : Values,
         mapOffered : BOOLEAN, mapReady : BOOLEAN,
         startSent : BOOLEAN, has : SUBSET Values]
Jobs == [client : Players, mods : BOOLEAN, cache : BOOLEAN, digest : Values, bytes : Values,
         done : BOOLEAN, found : BOOLEAN, current : BOOLEAN]

Typed ==
  /\ room \in Rooms
  /\ seen \in [Players -> Seen]
  /\ mine \in [Players -> Mine]
  /\ jobs \in Seq(Jobs)
  /\ up \in [Players -> Seq(UpFrames)]
  /\ down \in [Players -> Seq(DownFrames)]

-----------------------------------------------------------------------------
(* The server: room r, its clients s, and validations q.                    *)

\* Who is outside is nobody to the server, and the host is inside.
Membership(r, s) ==
  /\ \A p \in Players : ~s[p].here => s[p] = Away
  /\ r.host # Nothing /\ ~r.running => s[r.host].here
  /\ r.host = Nothing => \A p \in Players : ~s[p].here

\* Everybody inside has been offered what the room has, and is sent nothing else.
Offering(r, s) ==
  \A p \in Players :
    /\ s[p].here => s[p].modOffered = r.mods /\ (s[p].mapOffered <=> r.map # Nothing)
    /\ s[p].modSend \in {Nothing, r.mods}
    /\ s[p].mapSend \in {Nothing, r.map}

\* A package comes from the host, and only while the room has none of its kind;
Receiving(r, s) ==
  \A p \in Players :
    /\ s[p].modReceive # Nothing => p = r.host /\ r.mods = Nothing
    /\ s[p].mapReceive # Nothing => p = r.host /\ r.map = Nothing

\* and one at a time.
Checking(r, s, q) ==
  \A i \in DOMAIN q : q[i].current =>
    /\ q[i].client = r.host
    /\ q[i].mods => r.mods = Nothing /\ s[q[i].client].modReceive = Nothing
    /\ ~q[i].mods => r.map = Nothing /\ s[q[i].client].mapReceive = Nothing
    /\ \A k \in DOMAIN q : q[k].current => k = i

ServerInStep(r, s, q) ==
  /\ Membership(r, s) /\ Offering(r, s) /\ Receiving(r, s) /\ Checking(r, s, q)
  /\ r.running => r.mods # Nothing /\ r.map # Nothing

-----------------------------------------------------------------------------
(* What a player still has to read.                                         *)

Ahead(q, kind, d) == \E i \in DOMAIN q : q[i].kind = kind /\ q[i].digest = d

\* Whatever of these kinds is not of package d is followed by an offer of d.
Covered(q, offer, chunk, d) ==
  \A i \in DOMAIN q : q[i].kind \in {offer, chunk} /\ q[i].digest # d =>
    \E j \in DOMAIN q : i < j /\ q[j].kind = offer /\ q[j].digest = d

NoOfferAfter(q) ==
  \A i, j \in DOMAIN q : i < j /\ q[i].kind = "GameStarting" => q[j].kind \notin Offers

InOrder(p) ==
  /\ room.mods # Nothing =>
       /\ Covered(down[p], "ModOffer", "ModChunk", room.mods)
       /\ mine[p].modReady => mine[p].modPackage = room.mods \/ Ahead(down[p], "ModOffer", room.mods)
  /\ room.map # Nothing =>
       /\ Covered(down[p], "MapOffer", "MapChunk", room.map)
       /\ mine[p].mapReady => mine[p].mapPackage = room.map \/ Ahead(down[p], "MapOffer", room.map)

Starting(p) ==
  /\ ~room.running => \A i \in DOMAIN down[p] : down[p][i].kind # "GameStarting"
  /\ NoOfferAfter(down[p])
  /\ mine[p].at \in {"held", "started"} => room.running
  /\ mine[p].at = "held" => \A i \in DOMAIN down[p] : down[p][i].kind \notin Offers

\* A client that is receiving a map is not ready with one; who has not come in
\* has nothing, and who was let out has left.
ClientInStep(p) ==
  /\ mine[p].mapReceive # Nothing => ~mine[p].mapReady
  /\ mine[p].mapReady => mine[p].mapPackage # Nothing
  /\ \A i \in DOMAIN down[p] : down[p][i].kind = "MapOffer" => down[p][i].digest # Nothing
  /\ ~seen[p].here /\ mine[p].at # "left" =>
       down[p] = <<>> /\ ~mine[p].modReady /\ ~mine[p].mapReady
  /\ \A i \in DOMAIN up[p] : up[p][i].kind = "Leave" => mine[p].at = "left"

PlayerInStep(p) ==
  /\ mine[p].at # "left" => InOrder(p) /\ Starting(p)
  /\ ClientInStep(p)

PlayersInStep == \A p \in Players : PlayerInStep(p)

IInv == Typed /\ ServerInStep(room, seen, jobs) /\ PlayersInStep /\ StartsAlike

-----------------------------------------------------------------------------
(* Sequences.                                                               *)

Occurs(x, q) == \E i \in DOMAIN q : q[i] = x

LEMMA OneFrame ==
  ASSUME NEW S, NEW x \in S
  PROVE  <<x>> \in Seq(S) /\ DOMAIN <<x>> = {1} /\ <<x>>[1] = x
  OBVIOUS

LEMMA Joined ==
  ASSUME NEW S, NEW q \in Seq(S), NEW t \in Seq(S)
  PROVE  /\ q \o t \in Seq(S)
         /\ DOMAIN q = 1 .. Len(q) /\ DOMAIN t = 1 .. Len(t)
         /\ DOMAIN (q \o t) = 1 .. Len(q) + Len(t)
         /\ Len(q) \in Nat /\ Len(t) \in Nat
         /\ \A i \in 1 .. Len(q) : (q \o t)[i] = q[i]
         /\ \A i \in 1 .. Len(t) : (q \o t)[Len(q) + i] = t[i]
         /\ \A i \in 1 .. Len(q) + Len(t) : i > Len(q) => i - Len(q) \in 1 .. Len(t) /\ (q \o t)[i] = t[i - Len(q)]
  <1>1. /\ q \o t \in Seq(S) /\ Len(q \o t) = Len(q) + Len(t)
        /\ \A i \in 1 .. Len(q) + Len(t) : (q \o t)[i] = IF i <= Len(q) THEN q[i] ELSE t[i - Len(q)]
    BY ConcatProperties
  <1>2. Len(q) \in Nat /\ Len(t) \in Nat /\ DOMAIN q = 1 .. Len(q) /\ DOMAIN t = 1 .. Len(t)
        /\ DOMAIN (q \o t) = 1 .. Len(q \o t)
    BY <1>1, LenProperties
  <1> QED
    BY <1>1, <1>2

LEMMA OccursJoined ==
  ASSUME NEW S, NEW q \in Seq(S), NEW t \in Seq(S), NEW x
  PROVE  Occurs(x, q \o t) <=> Occurs(x, q) \/ Occurs(x, t)
  <1>1. ASSUME Occurs(x, q) PROVE Occurs(x, q \o t)
    <2>1. PICK i \in 1 .. Len(q) : q[i] = x
      BY <1>1, Joined DEF Occurs
    <2>2. i \in 1 .. Len(q) + Len(t) /\ (q \o t)[i] = x
      BY <2>1, Joined
    <2> QED
      BY <2>2, Joined DEF Occurs
  <1>2. ASSUME Occurs(x, t) PROVE Occurs(x, q \o t)
    <2>1. PICK i \in 1 .. Len(t) : t[i] = x
      BY <1>2, Joined DEF Occurs
    <2>2. Len(q) + i \in 1 .. Len(q) + Len(t) /\ (q \o t)[Len(q) + i] = x
      BY <2>1, Joined
    <2> QED
      BY <2>2, Joined DEF Occurs
  <1>3. ASSUME Occurs(x, q \o t) PROVE Occurs(x, q) \/ Occurs(x, t)
    <2>1. PICK i \in 1 .. Len(q) + Len(t) : (q \o t)[i] = x
      BY <1>3, Joined DEF Occurs
    <2>2. CASE i <= Len(q)
      <3>1. i \in 1 .. Len(q) /\ q[i] = x
        BY <2>1, <2>2, Joined
      <3> QED
        BY <3>1, Joined DEF Occurs
    <2>3. CASE i > Len(q)
      <3>1. i - Len(q) \in 1 .. Len(t) /\ t[i - Len(q)] = x
        BY <2>1, <2>3, Joined
      <3> QED
        BY <3>1, Joined DEF Occurs
    <2> QED
      BY <2>1, <2>2, <2>3, Joined
  <1> QED
    BY <1>1, <1>2, <1>3

LEMMA Shorter ==
  ASSUME NEW S, NEW q \in Seq(S), q # <<>>
  PROVE  /\ Tail(q) \in Seq(S) /\ Head(q) \in S /\ Head(q) = q[1] /\ 1 \in DOMAIN q
         /\ \A i \in DOMAIN Tail(q) : i \in Nat /\ i + 1 \in DOMAIN q /\ Tail(q)[i] = q[i + 1]
         /\ \A i \in DOMAIN q : i \in Nat /\ (i # 1 => i - 1 \in DOMAIN Tail(q) /\ Tail(q)[i - 1] = q[i])
  <1>1. /\ Head(q) \in S /\ Tail(q) \in Seq(S) /\ Len(Tail(q)) = Len(q) - 1
        /\ \A i \in 1 .. Len(Tail(q)) : Tail(q)[i] = q[i + 1]
    BY HeadTailProperties
  <1>2. Len(q) \in Nat \ {0} /\ DOMAIN q = 1 .. Len(q) /\ DOMAIN Tail(q) = 1 .. Len(Tail(q))
    BY <1>1, EmptySeq, LenProperties
  <1>3. Head(q) = q[1]
    OBVIOUS
  <1> QED
    BY <1>1, <1>2, <1>3

\* What a queue is covered by survives an addition that is not stale, and one
\* that brings the offer itself covers whatever was there before.
LEMMA CoveredJoined ==
  ASSUME NEW q \in Seq(DownFrames), NEW t \in Seq(DownFrames),
         NEW offer, NEW chunk, NEW d,
         \A i \in DOMAIN t : t[i].kind \in {offer, chunk} => t[i].digest = d,
         Covered(q, offer, chunk, d) \/ Ahead(t, offer, d)
  PROVE  Covered(q \o t, offer, chunk, d)
  <1> DEFINE w == q \o t
             n == Len(q)
             m == Len(t)
  <1>1. /\ n \in Nat /\ m \in Nat /\ DOMAIN q = 1 .. n /\ DOMAIN t = 1 .. m /\ DOMAIN w = 1 .. n + m
        /\ \A i \in 1 .. n : w[i] = q[i]
        /\ \A i \in 1 .. m : w[n + i] = t[i]
        /\ \A i \in 1 .. n + m : i > n => i - n \in 1 .. m /\ w[i] = t[i - n]
    BY Joined
  <1> HIDE DEF w, n, m
  <1> SUFFICES ASSUME NEW i \in 1 .. n + m, w[i].kind \in {offer, chunk}, w[i].digest # d
               PROVE  \E j \in 1 .. n + m : i < j /\ w[j].kind = offer /\ w[j].digest = d
    BY <1>1 DEF Covered, w
  <1>2. i \in 1 .. n /\ q[i].kind \in {offer, chunk} /\ q[i].digest # d
    <2>1. ASSUME i > n PROVE FALSE
      <3>1. i - n \in DOMAIN t /\ w[i] = t[i - n]
        BY <1>1, <2>1
      <3>2. t[i - n].kind \in {offer, chunk} /\ t[i - n].digest # d
        BY <3>1
      <3> QED
        BY <3>1, <3>2
    <2> QED
      BY <1>1, <2>1
  <1>3. CASE Covered(q, offer, chunk, d)
    <2>1. PICK j \in 1 .. n : i < j /\ q[j].kind = offer /\ q[j].digest = d
      BY <1>1, <1>2, <1>3 DEF Covered
    <2>2. j \in 1 .. n + m /\ w[j] = q[j]
      BY <1>1, <2>1
    <2> QED
      BY <2>1, <2>2
  <1>4. CASE Ahead(t, offer, d)
    <2>1. PICK j \in 1 .. m : t[j].kind = offer /\ t[j].digest = d
      BY <1>1, <1>4 DEF Ahead
    <2>2. n + j \in 1 .. n + m /\ i < n + j /\ w[n + j] = t[j]
      BY <1>1, <1>2
    <2> QED
      BY <2>1, <2>2
  <1> QED
    BY <1>3, <1>4

LEMMA AheadJoined ==
  ASSUME NEW q \in Seq(DownFrames), NEW t \in Seq(DownFrames), NEW kind, NEW d,
         Ahead(q, kind, d) \/ Ahead(t, kind, d)
  PROVE  Ahead(q \o t, kind, d)
  <1>1. PICK f : (Occurs(f, q) \/ Occurs(f, t)) /\ f.kind = kind /\ f.digest = d
    BY DEF Ahead, Occurs
  <1>2. Occurs(f, q \o t)
    BY <1>1, OccursJoined
  <1> QED
    BY <1>1, <1>2 DEF Ahead, Occurs

LEMMA OfferAfterJoined ==
  ASSUME NEW q \in Seq(DownFrames), NEW t \in Seq(DownFrames), NoOfferAfter(q),
         \/ \A i \in DOMAIN t : t[i].kind \notin Offers
         \/ /\ \A i \in DOMAIN q : q[i].kind # "GameStarting"
            /\ \A i \in DOMAIN t : t[i].kind # "GameStarting"
  PROVE  NoOfferAfter(q \o t)
  <1> DEFINE w == q \o t
             n == Len(q)
             m == Len(t)
  <1>1. /\ n \in Nat /\ m \in Nat /\ DOMAIN q = 1 .. n /\ DOMAIN t = 1 .. m /\ DOMAIN w = 1 .. n + m
        /\ \A i \in 1 .. n : w[i] = q[i]
        /\ \A i \in 1 .. n + m : i > n => i - n \in 1 .. m /\ w[i] = t[i - n]
    BY Joined
  <1> HIDE DEF w, n, m
  <1> SUFFICES ASSUME NEW i \in 1 .. n + m, NEW j \in 1 .. n + m, i < j, w[i].kind = "GameStarting"
               PROVE  w[j].kind \notin Offers
    BY <1>1 DEF NoOfferAfter, w
  <1>2. CASE j <= n
    <2>1. i \in 1 .. n /\ j \in 1 .. n
      BY <1>1, <1>2
    <2> QED
      BY <1>1, <2>1 DEF NoOfferAfter
  <1>3. CASE j > n
    <2>1. j - n \in 1 .. m /\ w[j] = t[j - n]
      BY <1>1, <1>3
    <2>2. \/ i \in 1 .. n /\ w[i] = q[i]
          \/ i - n \in 1 .. m /\ w[i] = t[i - n]
      BY <1>1
    <2> QED
      BY <1>1, <2>1, <2>2
  <1> QED
    BY <1>1, <1>2, <1>3

\* Reading one frame leaves the rest as it was, and an offer that was read is
\* not ahead any more.
LEMMA CoveredTail ==
  ASSUME NEW q \in Seq(DownFrames), q # <<>>, NEW offer, NEW chunk, NEW d,
         Covered(q, offer, chunk, d)
  PROVE  /\ Covered(Tail(q), offer, chunk, d)
         /\ Head(q).kind \in {offer, chunk} /\ Head(q).digest # d => Ahead(Tail(q), offer, d)
         /\ Ahead(q, offer, d) =>
              Ahead(Tail(q), offer, d) \/ (Head(q).kind = offer /\ Head(q).digest = d)
  <1> DEFINE w == Tail(q)
  <1>1. /\ Head(q) = q[1] /\ 1 \in DOMAIN q
        /\ \A i \in DOMAIN w : i \in Nat /\ i + 1 \in DOMAIN q /\ w[i] = q[i + 1]
        /\ \A i \in DOMAIN q : i \in Nat /\ (i # 1 => i - 1 \in DOMAIN w /\ w[i - 1] = q[i])
    BY Shorter
  <1> HIDE DEF w
  <1>2. Covered(w, offer, chunk, d)
    <2> SUFFICES ASSUME NEW i \in DOMAIN w, w[i].kind \in {offer, chunk}, w[i].digest # d
                 PROVE  \E j \in DOMAIN w : i < j /\ w[j].kind = offer /\ w[j].digest = d
      BY DEF Covered
    <2>1. PICK j \in DOMAIN q : i + 1 < j /\ q[j].kind = offer /\ q[j].digest = d
      BY <1>1 DEF Covered
    <2>2. j - 1 \in DOMAIN w /\ w[j - 1] = q[j] /\ i < j - 1
      BY <1>1, <2>1
    <2> QED
      BY <2>1, <2>2
  <1>3. ASSUME Head(q).kind \in {offer, chunk}, Head(q).digest # d PROVE Ahead(w, offer, d)
    <2>1. PICK j \in DOMAIN q : 1 < j /\ q[j].kind = offer /\ q[j].digest = d
      BY <1>1, <1>3 DEF Covered
    <2>2. j - 1 \in DOMAIN w /\ w[j - 1] = q[j]
      BY <1>1, <2>1
    <2> QED
      BY <2>1, <2>2 DEF Ahead
  <1>4. ASSUME Ahead(q, offer, d), ~(Head(q).kind = offer /\ Head(q).digest = d) PROVE Ahead(w, offer, d)
    <2>1. PICK j \in DOMAIN q : q[j].kind = offer /\ q[j].digest = d
      BY <1>4 DEF Ahead
    <2>2. j - 1 \in DOMAIN w /\ w[j - 1] = q[j]
      BY <1>1, <1>4, <2>1
    <2> QED
      BY <2>1, <2>2 DEF Ahead
  <1> QED
    BY <1>2, <1>3, <1>4 DEF w

LEMMA OfferAfterTail ==
  ASSUME NEW q \in Seq(DownFrames), q # <<>>, NoOfferAfter(q)
  PROVE  /\ NoOfferAfter(Tail(q))
         /\ Head(q).kind = "GameStarting" => \A i \in DOMAIN Tail(q) : Tail(q)[i].kind \notin Offers
  <1> DEFINE w == Tail(q)
  <1>1. /\ Head(q) = q[1] /\ 1 \in DOMAIN q
        /\ \A i \in DOMAIN w : i \in Nat /\ i + 1 \in DOMAIN q /\ w[i] = q[i + 1]
        /\ \A i \in DOMAIN w : i # 0
    <2>1. Tail(q) \in Seq(DownFrames)
      BY HeadTailProperties
    <2> QED
      BY Shorter, <2>1, LenProperties
  <1> HIDE DEF w
  <1>2. NoOfferAfter(w)
    <2> SUFFICES ASSUME NEW i \in DOMAIN w, NEW j \in DOMAIN w, i < j, w[i].kind = "GameStarting"
                 PROVE  w[j].kind \notin Offers
      BY DEF NoOfferAfter
    <2>1. i + 1 < j + 1 /\ i + 1 \in DOMAIN q /\ j + 1 \in DOMAIN q
      BY <1>1
    <2> QED
      BY <1>1, <2>1 DEF NoOfferAfter
  <1>3. ASSUME Head(q).kind = "GameStarting", NEW i \in DOMAIN w PROVE w[i].kind \notin Offers
    <2>1. 1 < i + 1 /\ i + 1 \in DOMAIN q
      BY <1>1
    <2> QED
      BY <1>1, <1>3, <2>1 DEF NoOfferAfter
  <1> QED
    BY <1>2, <1>3 DEF w

-----------------------------------------------------------------------------
(* What a step of the server does to a player.                              *)

\* The frames t are of room r as it is.
Fresh(r, t) ==
  \A i \in DOMAIN t :
    /\ t[i].kind \in {"ModOffer", "ModChunk"} => t[i].digest = r.mods
    /\ t[i].kind \in {"MapOffer", "MapChunk"} => t[i].digest = r.map /\ r.map # Nothing
    /\ t[i].kind = "GameStarting" => r.running
    /\ t[i].kind \in Offers => ~r.running

\* Player p, if inside, is sent t: with offers of what the room did not have.
Posted(p, t) ==
  /\ t \in Seq(DownFrames) /\ down'[p] = down[p] \o t
  /\ Fresh(room', t)
  /\ seen'[p].here \/ t = <<>>
  /\ seen'[p].here /\ room'.mods \notin {Nothing, room.mods} => Ahead(t, "ModOffer", room'.mods)
  /\ seen'[p].here /\ room'.map \notin {Nothing, room.map} => Ahead(t, "MapOffer", room'.map)

RoomStays == room.running => UNCHANGED <<room.running, room.mods, room.map>>
MemberStays(p) == seen[p].here => seen'[p].here \/ mine[p].at = "left"
UpShorter(p) == up'[p] = up[p] \/ (up[p] # <<>> /\ up'[p] = Tail(up[p]))

LEMMA ServerStep ==
  ASSUME IInv, room' \in Rooms, mine' = mine, RoomStays,
         NEW p \in Players, MemberStays(p), UpShorter(p),
         NEW t, Posted(p, t)
  PROVE  PlayerInStep(p)'
  <1> DEFINE q == down[p]
  <1>1. /\ q \in Seq(DownFrames) /\ t \in Seq(DownFrames) /\ down'[p] = q \o t
        /\ up[p] \in Seq(UpFrames) /\ room \in Rooms /\ PlayerInStep(p)
    BY DEF IInv, Typed, PlayersInStep, Posted
  <1>2. ASSUME NEW i \in DOMAIN down'[p]
        PROVE  (\E k \in DOMAIN q : q[k] = down'[p][i]) \/ (\E k \in DOMAIN t : t[k] = down'[p][i])
    <2>1. Occurs(down'[p][i], q \o t)
      BY <1>1, <1>2 DEF Occurs
    <2> QED
      BY <1>1, <2>1, OccursJoined DEF Occurs
  <1>3. Fresh(room', t)
    BY DEF Posted
  <1>4. ASSUME mine[p].at # "left" PROVE InOrder(p)'
    <2>1. InOrder(p) /\ ClientInStep(p)
      BY <1>1, <1>4 DEF PlayerInStep
    <2>2. seen'[p].here \/ (q = <<>> /\ t = <<>> /\ ~mine[p].modReady /\ ~mine[p].mapReady)
      BY <1>4, <2>1 DEF Posted, MemberStays, ClientInStep
    <2>3. ASSUME q = <<>>, t = <<>> PROVE down'[p] = <<>> /\ DOMAIN down'[p] = {}
      BY <1>1, <2>3
    <2>4. ASSUME room'.mods # Nothing
          PROVE  /\ Covered(down'[p], "ModOffer", "ModChunk", room'.mods)
                 /\ mine[p].modReady => mine[p].modPackage = room'.mods \/ Ahead(down'[p], "ModOffer", room'.mods)
      <3>1. \A i \in DOMAIN t : t[i].kind \in {"ModOffer", "ModChunk"} => t[i].digest = room'.mods
        BY <1>3 DEF Fresh
      <3>2. CASE room'.mods = room.mods
        BY <1>1, <2>1, <2>4, <3>1, <3>2, CoveredJoined, AheadJoined DEF InOrder
      <3>3. CASE room'.mods # room.mods /\ seen'[p].here
        <4>1. Ahead(t, "ModOffer", room'.mods)
          BY <2>4, <3>3 DEF Posted
        <4> QED
          BY <1>1, <3>1, <4>1, CoveredJoined, AheadJoined
      <3>4. CASE ~seen'[p].here
        BY <2>2, <2>3, <3>4 DEF Covered
      <3> QED
        BY <3>2, <3>3, <3>4
    <2>5. ASSUME room'.map # Nothing
          PROVE  /\ Covered(down'[p], "MapOffer", "MapChunk", room'.map)
                 /\ mine[p].mapReady => mine[p].mapPackage = room'.map \/ Ahead(down'[p], "MapOffer", room'.map)
      <3>1. \A i \in DOMAIN t : t[i].kind \in {"MapOffer", "MapChunk"} => t[i].digest = room'.map
        BY <1>3 DEF Fresh
      <3>2. CASE room'.map = room.map
        BY <1>1, <2>1, <2>5, <3>1, <3>2, CoveredJoined, AheadJoined DEF InOrder
      <3>3. CASE room'.map # room.map /\ seen'[p].here
        <4>1. Ahead(t, "MapOffer", room'.map)
          BY <2>5, <3>3 DEF Posted
        <4> QED
          BY <1>1, <3>1, <4>1, CoveredJoined, AheadJoined
      <3>4. CASE ~seen'[p].here
        BY <2>2, <2>3, <3>4 DEF Covered
      <3> QED
        BY <3>2, <3>3, <3>4
    <2> QED
      BY <2>4, <2>5 DEF InOrder
  <1>5. ASSUME mine[p].at # "left" PROVE Starting(p)'
    <2>1. Starting(p)
      BY <1>1, <1>5 DEF PlayerInStep
    <2>2. room.running => room'.running
      BY DEF RoomStays
    <2>3. ASSUME ~room'.running PROVE \A i \in DOMAIN down'[p] : down'[p][i].kind # "GameStarting"
      BY <1>2, <1>3, <2>1, <2>2, <2>3 DEF Starting, Fresh
    <2>4. NoOfferAfter(down'[p])
      <3>1. CASE room'.running
        <4>1. \A i \in DOMAIN t : t[i].kind \notin Offers
          BY <1>3, <3>1 DEF Fresh
        <4> QED
          BY <1>1, <2>1, <4>1, OfferAfterJoined DEF Starting
      <3>2. CASE ~room'.running
        <4>1. /\ \A i \in DOMAIN q : q[i].kind # "GameStarting"
              /\ \A i \in DOMAIN t : t[i].kind # "GameStarting"
          BY <1>1, <1>3, <2>1, <2>2, <3>2 DEF Starting, Fresh, Rooms
        <4> QED
          BY <1>1, <2>1, <4>1, OfferAfterJoined DEF Starting
      <3> QED
        BY <3>1, <3>2
    <2>5. ASSUME mine[p].at = "held" PROVE \A i \in DOMAIN down'[p] : down'[p][i].kind \notin Offers
      <3>1. room'.running
        BY <2>1, <2>2, <2>5 DEF Starting
      <3> QED
        BY <1>2, <1>3, <2>1, <2>5, <3>1 DEF Starting, Fresh
    <2> QED
      BY <2>1, <2>2, <2>3, <2>4, <2>5 DEF Starting
  <1>6. ClientInStep(p)'
    <2>1. ClientInStep(p)
      BY <1>1 DEF PlayerInStep
    <2>2. \A i \in DOMAIN down'[p] : down'[p][i].kind = "MapOffer" => down'[p][i].digest # Nothing
      BY <1>2, <1>3, <2>1 DEF ClientInStep, Fresh
    <2>3. ASSUME ~seen'[p].here, mine[p].at # "left"
          PROVE  down'[p] = <<>> /\ ~mine[p].modReady /\ ~mine[p].mapReady
      <3>1. t = <<>> /\ q = <<>> /\ ~mine[p].modReady /\ ~mine[p].mapReady
        BY <2>1, <2>3 DEF ClientInStep, Posted, MemberStays
      <3> QED
        BY <1>1, <3>1
    <2>4. \A i \in DOMAIN up'[p] : up'[p][i].kind = "Leave" => mine[p].at = "left"
      <3>1. CASE up'[p] = up[p]
        BY <2>1, <3>1 DEF ClientInStep
      <3>2. CASE up[p] # <<>> /\ up'[p] = Tail(up[p])
        <4>1. \A i \in DOMAIN up'[p] : i + 1 \in DOMAIN up[p] /\ up'[p][i] = up[p][i + 1]
          BY <1>1, <3>2, Shorter
        <4> QED
          BY <2>1, <4>1 DEF ClientInStep
      <3> QED
        BY <3>1, <3>2 DEF UpShorter
    <2> QED
      BY <2>1, <2>2, <2>3, <2>4 DEF ClientInStep
  <1> QED
    BY <1>4, <1>5, <1>6 DEF PlayerInStep

\* The frames of a lobby broadcast.
LEMMA Broadcast ==
  ASSUME NEW r \in Rooms, NEW s \in [Players -> Seen], NEW p \in Players,
         r.running => /\ r.mods # Nothing => s[p].modOffered = r.mods
                      /\ r.map # Nothing => s[p].mapOffered
  PROVE  LET t == BroadcastFrames(r, s, p)
         IN  /\ t \in Seq(DownFrames)
             /\ Fresh(r, t)
             /\ r.map # Nothing /\ ~s[p].mapOffered => Ahead(t, "MapOffer", r.map)
             /\ r.mods # Nothing /\ s[p].modOffered # r.mods => Ahead(t, "ModOffer", r.mods)
  <1> DEFINE a == <<LobbyState(r.host, MapsReady(r, s))>>
             b == IF r.map # Nothing /\ ~s[p].mapOffered THEN <<Frame("MapOffer", r.map)>> ELSE <<>>
             c == IF r.mods # Nothing /\ s[p].modOffered # r.mods THEN <<Frame("ModOffer", r.mods)>> ELSE <<>>
             t == a \o b \o c
  <1>1. a \in Seq(DownFrames) /\ b \in Seq(DownFrames) /\ c \in Seq(DownFrames)
    <2>1. LobbyState(r.host, MapsReady(r, s)) \in DownFrames
      BY DEF LobbyState, MapsReady, DownFrames, Rooms
    <2>2. Frame("MapOffer", r.map) \in DownFrames /\ Frame("ModOffer", r.mods) \in DownFrames
      BY DEF Frame, DownFrames, Downward, Rooms
    <2> QED
      BY <2>1, <2>2
  <1>2. \A x : Occurs(x, t) <=> Occurs(x, a) \/ Occurs(x, b) \/ Occurs(x, c)
    <2> HIDE DEF a, b, c
    <2> SUFFICES ASSUME NEW x
                 PROVE  Occurs(x, a \o b \o c) <=> Occurs(x, a) \/ Occurs(x, b) \/ Occurs(x, c)
      OBVIOUS
    <2>1. a \o b \in Seq(DownFrames)
      BY <1>1, Joined
    <2>2. Occurs(x, a \o b \o c) <=> Occurs(x, a \o b) \/ Occurs(x, c)
      BY <1>1, <2>1, OccursJoined
    <2>3. Occurs(x, a \o b) <=> Occurs(x, a) \/ Occurs(x, b)
      BY <1>1, OccursJoined
    <2> QED
      BY <2>2, <2>3
  <1>3. \A x : /\ Occurs(x, a) <=> x = LobbyState(r.host, MapsReady(r, s))
               /\ Occurs(x, b) <=> x = Frame("MapOffer", r.map) /\ r.map # Nothing /\ ~s[p].mapOffered
               /\ Occurs(x, c) <=> x = Frame("ModOffer", r.mods) /\ r.mods # Nothing /\ s[p].modOffered # r.mods
    BY DEF Occurs
  <1>4. t = BroadcastFrames(r, s, p)
    BY DEF BroadcastFrames
  <1>5. t \in Seq(DownFrames)
    BY <1>1, Joined
  <1> HIDE DEF a, b, c, t
  <1>6. Fresh(r, t)
    <2> SUFFICES ASSUME NEW i \in DOMAIN t
                 PROVE  /\ t[i].kind \in {"ModOffer", "ModChunk"} => t[i].digest = r.mods
                        /\ t[i].kind \in {"MapOffer", "MapChunk"} => t[i].digest = r.map /\ r.map # Nothing
                        /\ t[i].kind = "GameStarting" => r.running
                        /\ t[i].kind \in Offers => ~r.running
      BY DEF Fresh
    <2>1. Occurs(t[i], t)
      BY DEF Occurs
    <2> QED
      BY <1>2, <1>3, <2>1 DEF LobbyState, Frame, Offers
  <1>7. ASSUME r.map # Nothing, ~s[p].mapOffered PROVE Ahead(t, "MapOffer", r.map)
    <2>1. Occurs(Frame("MapOffer", r.map), t)
      BY <1>2, <1>3, <1>7
    <2> QED
      BY <2>1 DEF Occurs, Ahead, Frame
  <1>8. ASSUME r.mods # Nothing, s[p].modOffered # r.mods PROVE Ahead(t, "ModOffer", r.mods)
    <2>1. Occurs(Frame("ModOffer", r.mods), t)
      BY <1>2, <1>3, <1>8
    <2> QED
      BY <2>1 DEF Occurs, Ahead, Frame
  <1> QED
    BY <1>4, <1>5, <1>6, <1>7, <1>8

-----------------------------------------------------------------------------
(* What the handlers of the server have in common.                          *)

LEMMA PieceTypes ==
  /\ Nothing \in Values /\ Packs \subseteq Values /\ Maps \subseteq Values
  /\ Away \in Seen
  /\ Nothing \notin Players /\ Players # {}
  BY PackagesAssumption DEF Values, Optional, Digests, Away, Seen, Players

LEMMA JobElements ==
  ASSUME NEW q \in Seq(Jobs), NEW i \in DOMAIN q
  PROVE  q[i] \in Jobs /\ q[i].client \in Players
  <1>1. i \in 1 .. Len(q)
    BY LenProperties
  <1>2. q[i] \in Jobs
    BY <1>1, ElementOfSeq
  <1> QED
    BY <1>2 DEF Jobs

Fewer(q, u) ==
  /\ DOMAIN u = DOMAIN q
  /\ \A i \in DOMAIN q : /\ u[i].client = q[i].client /\ u[i].mods = q[i].mods
                         /\ u[i].current => q[i].current

LEMMA ForgottenFewer ==
  ASSUME NEW q \in Seq(Jobs), NEW who
  PROVE  /\ Forgotten(q, who) \in Seq(Jobs) /\ Fewer(q, Forgotten(q, who))
         /\ Len(Forgotten(q, who)) = Len(q)
         /\ \A i \in DOMAIN q : Forgotten(q, who)[i].current => q[i].client \notin who
  <1> DEFINE u == Forgotten(q, who)
  <1>1. /\ DOMAIN q = 1 .. Len(q) /\ Len(q) \in Nat /\ \A i \in DOMAIN q : q[i] \in Jobs
    BY LenProperties, ElementOfSeq
  <1>2. u = [i \in 1 .. Len(q) |-> IF q[i].client \in who THEN [q[i] EXCEPT !.current = FALSE] ELSE q[i]]
    BY <1>1 DEF Forgotten
  <1>3. ASSUME NEW i \in 1 .. Len(q)
        PROVE  /\ u[i] \in Jobs /\ u[i].client = q[i].client /\ u[i].mods = q[i].mods
               /\ u[i].current => q[i].current /\ q[i].client \notin who
    <2>1. q[i] \in Jobs
      BY <1>1
    <2>2. CASE q[i].client \in who
      <3>1. u[i] = [q[i] EXCEPT !.current = FALSE]
        BY <1>2, <2>2
      <3> HIDE DEF u
      <3> QED
        BY <2>1, <3>1 DEF Jobs
    <2>3. CASE q[i].client \notin who
      <3>1. u[i] = q[i]
        BY <1>2, <2>3
      <3> HIDE DEF u
      <3> QED
        BY <2>1, <2>3, <3>1
    <2> QED
      BY <2>2, <2>3
  <1>4. u \in [1 .. Len(q) -> Jobs] /\ DOMAIN u = 1 .. Len(q)
    BY <1>2, <1>3
  <1>5. u \in Seq(Jobs)
    BY <1>1, <1>4, SeqDef
  <1>6. Len(u) = Len(q)
    BY <1>1, <1>4, <1>5, LenProperties
  <1> QED
    BY <1>1, <1>3, <1>4, <1>5, <1>6 DEF Fewer

\* A new validation is the one there is, if all there were are its client's.
LEMMA Validated ==
  ASSUME NEW q \in Seq(Jobs), NEW job \in Jobs,
         \A i \in DOMAIN q : q[i].current => q[i].client = job.client
  PROVE  /\ Validate(q, job) \in Seq(Jobs)
         /\ \A i \in DOMAIN Validate(q, job) : Validate(q, job)[i].current =>
              i = Len(q) + 1 /\ Validate(q, job)[i] = job
  <1> DEFINE u == Forgotten(q, {job.client})
             v == Validate(q, job)
  <1>1. /\ u \in Seq(Jobs) /\ Fewer(q, u) /\ Len(u) = Len(q)
        /\ \A i \in DOMAIN q : u[i].current => q[i].client \notin {job.client}
    BY ForgottenFewer
  <1>2. v = Append(u, job)
    BY DEF Validate
  <1>3. /\ v \in Seq(Jobs) /\ Len(v) = Len(u) + 1 /\ v[Len(u) + 1] = job
        /\ \A i \in 1 .. Len(u) : v[i] = u[i]
    BY <1>1, <1>2, AppendProperties
  <1>4. DOMAIN v = 1 .. Len(v) /\ DOMAIN q = 1 .. Len(q) /\ Len(q) \in Nat
    BY <1>3, LenProperties
  <1> HIDE DEF u, v
  <1>5. ASSUME NEW i \in DOMAIN v, v[i].current PROVE i = Len(q) + 1 /\ v[i] = job
    <2>1. ASSUME i \in 1 .. Len(q) PROVE FALSE
      <3>1. v[i] = u[i] /\ u[i].current /\ i \in DOMAIN q
        BY <1>1, <1>3, <1>4, <1>5, <2>1
      <3> QED
        BY <1>1, <3>1 DEF Fewer
    <2>2. i = Len(q) + 1
      BY <1>1, <1>3, <1>4, <2>1
    <2> QED
      BY <1>1, <1>3, <2>2
  <1> QED
    BY <1>3, <1>5 DEF v

LEMMA ValidatedInStep ==
  ASSUME NEW r, NEW s, NEW q \in Seq(Jobs), NEW job \in Jobs,
         \A i \in DOMAIN q : q[i].current => q[i].client = job.client,
         job.client = r.host,
         job.mods => r.mods = Nothing /\ s[job.client].modReceive = Nothing,
         ~job.mods => r.map = Nothing /\ s[job.client].mapReceive = Nothing
  PROVE  Validate(q, job) \in Seq(Jobs) /\ Checking(r, s, Validate(q, job))
  <1> DEFINE v == Validate(q, job)
  <1>1. v \in Seq(Jobs) /\ \A i \in DOMAIN v : v[i].current => i = Len(q) + 1 /\ v[i] = job
    BY Validated
  <1> HIDE DEF v
  <1>2. Checking(r, s, v)
    BY <1>1 DEF Checking
  <1> QED
    BY <1>1, <1>2 DEF v

\* Whoever is validated is the host.
LEMMA AllTheHosts ==
  ASSUME NEW r, NEW s, NEW q, Checking(r, s, q)
  PROVE  \A i \in DOMAIN q : q[i].current => q[i].client = r.host
  BY DEF Checking

LEMMA TailChecking ==
  ASSUME NEW r, NEW s, NEW q \in Seq(Jobs), q # <<>>, Checking(r, s, q)
  PROVE  /\ Tail(q) \in Seq(Jobs) /\ Checking(r, s, Tail(q))
         /\ Head(q).current => \A i \in DOMAIN Tail(q) : ~Tail(q)[i].current
  <1> DEFINE w == Tail(q)
  <1>1. /\ w \in Seq(Jobs) /\ Head(q) = q[1] /\ 1 \in DOMAIN q
        /\ \A i \in DOMAIN w : i \in Nat /\ i + 1 \in DOMAIN q /\ w[i] = q[i + 1]
    BY Shorter
  <1>2. \A i \in DOMAIN w : i + 1 # 1
    BY <1>1, LenProperties
  <1> HIDE DEF w
  <1>3. Checking(r, s, w)
    <2> SUFFICES ASSUME NEW i \in DOMAIN w, w[i].current
                 PROVE  /\ w[i].client = r.host
                        /\ w[i].mods => r.mods = Nothing /\ s[w[i].client].modReceive = Nothing
                        /\ ~w[i].mods => r.map = Nothing /\ s[w[i].client].mapReceive = Nothing
                        /\ \A k \in DOMAIN w : w[k].current => k = i
      BY DEF Checking
    <2>1. i + 1 \in DOMAIN q /\ q[i + 1] = w[i]
      BY <1>1
    <2>2. ASSUME NEW k \in DOMAIN w, w[k].current PROVE k = i
      <3>1. k + 1 \in DOMAIN q /\ q[k + 1].current
        BY <1>1, <2>2
      <3>2. k + 1 = i + 1
        BY <2>1, <3>1 DEF Checking
      <3> QED
        BY <1>1, <3>2
    <2> QED
      BY <2>1, <2>2 DEF Checking
  <1>4. ASSUME Head(q).current, NEW i \in DOMAIN w PROVE ~w[i].current
    BY <1>1, <1>2, <1>4 DEF Checking
  <1> QED
    BY <1>1, <1>3, <1>4 DEF w

\* Of what a client is being sent or sends, a step takes something away, or
\* sends what the room has.
Within(r, s, t) ==
  \A p \in Players :
    /\ t[p].here = s[p].here /\ t[p].modOffered = s[p].modOffered /\ t[p].mapOffered = s[p].mapOffered
    /\ ~s[p].here => t[p] = s[p]
    /\ t[p].modReceive \in {s[p].modReceive, Nothing} /\ t[p].mapReceive \in {s[p].mapReceive, Nothing}
    /\ t[p].modSend \in {s[p].modSend, Nothing, r.mods} /\ t[p].mapSend \in {s[p].mapSend, Nothing, r.map}

LEMMA WithinSeen ==
  ASSUME NEW r, NEW s, NEW t, Membership(r, s), Offering(r, s), Receiving(r, s), Within(r, s, t),
         r.host \in Optional(Players)
  PROVE  Membership(r, t) /\ Offering(r, t) /\ Receiving(r, t)
  <1>1. r.host \in Players \/ r.host = Nothing
    BY DEF Optional
  <1>2. Membership(r, t)
    BY <1>1 DEF Membership, Within
  <1>3. Offering(r, t)
    BY DEF Offering, Within
  <1>4. Receiving(r, t)
    BY DEF Receiving, Within
  <1> QED
    BY <1>2, <1>3, <1>4

LEMMA FewerChecking ==
  ASSUME NEW r, NEW s, NEW t, NEW q, NEW u, Checking(r, s, q), Fewer(q, u), Within(r, s, t),
         r.host \in Optional(Players), \A i \in DOMAIN q : q[i].client \in Players
  PROVE  Checking(r, t, u)
  <1> SUFFICES ASSUME NEW i \in DOMAIN u, u[i].current
               PROVE  /\ u[i].client = r.host
                      /\ u[i].mods => r.mods = Nothing /\ t[u[i].client].modReceive = Nothing
                      /\ ~u[i].mods => r.map = Nothing /\ t[u[i].client].mapReceive = Nothing
                      /\ \A k \in DOMAIN u : u[k].current => k = i
    BY DEF Checking
  <1>1. i \in DOMAIN q /\ q[i].current /\ u[i].client = q[i].client /\ u[i].mods = q[i].mods
    BY DEF Fewer
  <1>2. \A k \in DOMAIN u : u[k].current => k = i
    BY <1>1 DEF Fewer, Checking
  <1>3. q[i].client \in Players
    BY <1>1
  <1> QED
    BY <1>1, <1>2, <1>3 DEF Checking, Within

LEMMA Tame ==
  ASSUME NEW r \in Rooms, NEW s, NEW t, NEW q \in Seq(Jobs), NEW u, ServerInStep(r, s, q),
         Within(r, s, t), Fewer(q, u)
  PROVE  ServerInStep(r, t, u)
  <1>1. r.host \in Optional(Players)
    BY DEF Rooms
  <1>2. \A i \in DOMAIN q : q[i].client \in Players
    BY JobElements
  <1> QED
    BY <1>1, <1>2, WithinSeen, FewerChecking DEF ServerInStep

LEMMA NothingDone ==
  ASSUME NEW r, NEW s, NEW q
  PROVE  Within(r, s, s) /\ Fewer(q, q)
  BY DEF Within, Fewer

\* A lobby broadcast leaves everybody offered what the room has.
LEMMA OfferedInStep ==
  ASSUME NEW r \in Rooms, NEW s \in [Players -> Seen], NEW q \in Seq(Jobs),
         Membership(r, s), Receiving(r, s), Checking(r, s, q),
         r.running => r.mods # Nothing /\ r.map # Nothing,
         \A p \in Players : /\ s[p].here /\ r.mods = Nothing => s[p].modOffered = Nothing
                            /\ s[p].here /\ r.map = Nothing => ~s[p].mapOffered
                            /\ s[p].modSend \in {Nothing, r.mods} /\ s[p].mapSend \in {Nothing, r.map}
  PROVE  Offered(r, s) \in [Players -> Seen] /\ ServerInStep(r, Offered(r, s), q)
  <1> DEFINE t == Offered(r, s)
  <1>1. ASSUME NEW p \in Players
        PROVE  /\ t[p] \in Seen
               /\ t[p].here = s[p].here
               /\ ~s[p].here => t[p] = s[p]
               /\ t[p].modReceive = s[p].modReceive /\ t[p].mapReceive = s[p].mapReceive
               /\ t[p].modSend = s[p].modSend /\ t[p].mapSend = s[p].mapSend
               /\ s[p].here => t[p].modOffered = r.mods /\ (t[p].mapOffered <=> r.map # Nothing)
    <2>1. s[p] \in Seen /\ r.mods \in Values
      BY DEF Rooms
    <2>2. t[p] = IF ~s[p].here THEN s[p]
                 ELSE [s[p] EXCEPT !.mapOffered = @ \/ r.map # Nothing,
                                   !.modOffered = IF r.mods # Nothing THEN r.mods ELSE @]
      BY DEF Offered
    <2> DEFINE offer == s[p].mapOffered \/ r.map # Nothing
               mods == IF r.mods # Nothing THEN r.mods ELSE s[p].modOffered
    <2>3. offer \in BOOLEAN /\ mods \in Values
      BY <2>1 DEF Seen
    <2>4. CASE s[p].here
      <3>1. t[p] = [s[p] EXCEPT !.mapOffered = offer, !.modOffered = mods]
        BY <2>2, <2>4
      <3>2. mods = r.mods /\ (offer <=> r.map # Nothing)
        BY <2>1, <2>4 DEF Seen
      <3> HIDE DEF t, offer, mods
      <3> QED
        BY <2>1, <2>3, <2>4, <3>1, <3>2, ZenonT(60) DEF Seen
    <2>5. CASE ~s[p].here
      <3>1. t[p] = s[p]
        BY <2>2, <2>5
      <3> HIDE DEF t
      <3> QED
        BY <2>1, <2>5, <3>1
    <2> QED
      BY <2>4, <2>5
  <1>2. t \in [Players -> Seen]
    BY <1>1 DEF Offered
  <1> HIDE DEF t
  <1>3. r.host \in Players \/ r.host = Nothing
    BY DEF Rooms, Optional
  <1>4. Membership(r, t)
    BY <1>1, <1>3 DEF Membership
  <1>5. Offering(r, t)
    BY <1>1, <1>4, PieceTypes DEF Offering
  <1>6. Receiving(r, t)
    BY <1>1 DEF Receiving
  <1>7. Checking(r, t, q)
    <2>1. \A i \in DOMAIN q : q[i].client \in Players
      BY JobElements
    <2> QED
      BY <1>1, <2>1 DEF Checking
  <1> QED
    BY <1>2, <1>4, <1>5, <1>6, <1>7 DEF t, ServerInStep

-----------------------------------------------------------------------------
(* What the server sends.                                                   *)

Sent ==
  /\ down' \in [Players -> Seq(DownFrames)]
  /\ \A p \in Players : \E t : Posted(p, t)

LEMMA NoneSent ==
  ASSUME Typed, down' = down, room'.mods \in {Nothing, room.mods}, room'.map \in {Nothing, room.map}
  PROVE  Sent
  <1>1. ASSUME NEW p \in Players PROVE Posted(p, <<>>)
    <2>1. down[p] \in Seq(DownFrames) /\ down[p] \o <<>> = down[p] /\ <<>> \in Seq(DownFrames)
      BY ConcatEmptySeq, EmptySeq DEF Typed
    <2>2. Fresh(room', <<>>)
      BY DEF Fresh
    <2> QED
      BY <2>1, <2>2 DEF Posted
  <1> QED
    BY <1>1 DEF Sent, Typed

LEMMA OneSent ==
  ASSUME Typed, NEW p \in Players, NEW f \in DownFrames,
         down' = [down EXCEPT ![p] = Append(@, f)],
         seen'[p].here, Fresh(room', <<f>>),
         room'.mods \in {Nothing, room.mods}, room'.map \in {Nothing, room.map}
  PROVE  Sent
  <1>1. ASSUME NEW q \in Players, q # p PROVE Posted(q, <<>>)
    <2>1. down[q] \in Seq(DownFrames) /\ down[q] \o <<>> = down[q] /\ <<>> \in Seq(DownFrames)
      BY ConcatEmptySeq, EmptySeq DEF Typed
    <2>2. Fresh(room', <<>>)
      BY DEF Fresh
    <2>3. down'[q] = down[q]
      BY <1>1 DEF Typed
    <2> QED
      BY <2>1, <2>2, <2>3 DEF Posted
  <1>2. Posted(p, <<f>>)
    <2>1. <<f>> \in Seq(DownFrames) /\ down[p] \in Seq(DownFrames)
      BY DEF Typed
    <2>2. down'[p] = down[p] \o <<f>>
      BY <2>1, AppendIsConcat DEF Typed
    <2> QED
      BY <2>1, <2>2 DEF Posted
  <1>3. down' \in [Players -> Seq(DownFrames)]
    <2>1. Append(down[p], f) \in Seq(DownFrames)
      BY AppendProperties DEF Typed
    <2> QED
      BY <2>1 DEF Typed
  <1> QED
    BY <1>1, <1>2, <1>3 DEF Sent

\* Everybody inside is told where the room stands, and is offered what is new,
\* which is nothing once the game runs.
LEMMA AllSent ==
  ASSUME Typed, NEW r \in Rooms, NEW s \in [Players -> Seen],
         r.running => \A p \in Players : s[p].here => /\ r.mods # Nothing => s[p].modOffered = r.mods
                                                      /\ r.map # Nothing => s[p].mapOffered,
         BroadcastLobby(r, s, NoFrames),
         \A p \in Players : /\ s[p].here /\ r.mods \notin {Nothing, room.mods} => s[p].modOffered # r.mods
                            /\ s[p].here /\ r.map \notin {Nothing, room.map} => ~s[p].mapOffered
  PROVE  Sent
  <1>1. room' = r /\ seen' = Offered(r, s)
    BY DEF BroadcastLobby
  <1>2. ASSUME NEW p \in Players
        PROVE  \E t : Posted(p, t)
    <2> DEFINE t == IF s[p].here THEN BroadcastFrames(r, s, p) ELSE <<>>
    <2>1. seen'[p].here = s[p].here
      <3>1. s[p] \in Seen
        OBVIOUS
      <3> QED
        BY <1>1, <3>1 DEF Offered, Seen
    <2>2. /\ t \in Seq(DownFrames) /\ Fresh(r, t)
          /\ s[p].here /\ r.map # Nothing /\ ~s[p].mapOffered => Ahead(t, "MapOffer", r.map)
          /\ s[p].here /\ r.mods # Nothing /\ s[p].modOffered # r.mods => Ahead(t, "ModOffer", r.mods)
      <3>1. CASE s[p].here
        BY <3>1, Broadcast
      <3>2. CASE ~s[p].here
        BY <3>2, EmptySeq DEF Fresh
      <3> QED
        BY <3>1, <3>2
    <2>3. down'[p] = down[p] \o t
      <3>1. down[p] \in Seq(DownFrames) /\ down[p] \o <<>> = down[p]
        BY ConcatEmptySeq DEF Typed
      <3>2. NoFrames[p] = <<>>
        BY DEF NoFrames
      <3>3. down'[p] = IF s[p].here THEN down[p] \o NoFrames[p] \o BroadcastFrames(r, s, p)
                       ELSE down[p] \o NoFrames[p]
        BY DEF BroadcastLobby
      <3> QED
        BY <3>1, <3>2, <3>3
    <2> HIDE DEF t
    <2>4. s[p].here \/ t = <<>>
      BY DEF t
    <2> QED
      BY <1>1, <2>1, <2>2, <2>3, <2>4 DEF Posted
  <1>3. down' \in [Players -> Seq(DownFrames)]
    <2> DEFINE D(p) == IF s[p].here THEN down[p] \o NoFrames[p] \o BroadcastFrames(r, s, p)
                       ELSE down[p] \o NoFrames[p]
    <2>1. down' = [p \in Players |-> D(p)]
      BY DEF BroadcastLobby
    <2>2. ASSUME NEW p \in Players PROVE D(p) \in Seq(DownFrames)
      <3>1. PICK t : Posted(p, t)
        BY <1>2
      <3>2. down[p] \in Seq(DownFrames) /\ t \in Seq(DownFrames) /\ D(p) = down[p] \o t
        BY <2>1, <3>1 DEF Typed, Posted
      <3>3. down[p] \o t \in Seq(DownFrames)
        BY <3>2, ConcatProperties
      <3> HIDE DEF D
      <3> QED
        BY <3>2, <3>3
    <2> HIDE DEF D
    <2> QED
      BY <2>1, <2>2
  <1> QED
    BY <1>2, <1>3 DEF Sent

\* What every step of the server comes to.
ServerDone ==
  /\ room' \in Rooms /\ seen' \in [Players -> Seen] /\ jobs' \in Seq(Jobs)
  /\ ServerInStep(room', seen', jobs')
  /\ RoomStays /\ \A p \in Players : MemberStays(p)
  /\ Sent

\* A step that only takes away, or sends what the room has.
LEMMA TameDone ==
  ASSUME Typed, ServerInStep(room, seen, jobs), room' = room,
         seen' \in [Players -> Seen], jobs' \in Seq(Jobs),
         Within(room, seen, seen'), Fewer(jobs, jobs') \/ Checking(room, seen', jobs'),
         Sent
  PROVE  ServerDone
  <1>1. room.host \in Optional(Players) /\ jobs \in Seq(Jobs) /\ room \in Rooms
    BY DEF Typed, Rooms
  <1>2. Checking(room, seen', jobs')
    BY <1>1, Tame DEF ServerInStep
  <1>3. ServerInStep(room, seen', jobs')
    BY <1>1, <1>2, WithinSeen DEF ServerInStep
  <1>4. RoomStays /\ \A p \in Players : MemberStays(p)
    BY DEF RoomStays, MemberStays, Within
  <1> QED
    BY <1>1, <1>3, <1>4 DEF ServerDone

-----------------------------------------------------------------------------
(* The handlers of the server.                                              *)

ServerWas == Typed /\ ServerInStep(room, seen, jobs)

LEMMA OneChanged ==
  ASSUME ServerWas, NEW p \in Players, seen[p].here, NEW k \in Seen,
         seen' = [seen EXCEPT ![p] = k],
         k.here, k.modOffered = seen[p].modOffered, k.mapOffered = seen[p].mapOffered,
         k.modReceive \in {seen[p].modReceive, Nothing}, k.mapReceive \in {seen[p].mapReceive, Nothing},
         k.modSend \in {seen[p].modSend, Nothing, room.mods},
         k.mapSend \in {seen[p].mapSend, Nothing, room.map}
  PROVE  seen' \in [Players -> Seen] /\ Within(room, seen, seen')
  BY DEF ServerWas, Typed, Within, Seen

LEMMA Unchanged ==
  ASSUME ServerWas, UNCHANGED <<room, seen, down, jobs>>
  PROVE  ServerDone
  <1>1. Sent /\ seen' \in [Players -> Seen] /\ jobs' \in Seq(Jobs)
    BY NoneSent DEF ServerWas, Typed
  <1> QED
    BY <1>1, TameDone, NothingDone DEF ServerWas

LEMMA FrameTypes ==
  /\ \A kind \in Plain, d \in Values : Frame(kind, d) \in UpFrames
  /\ \A kind \in Downward, d \in Values : Frame(kind, d) \in DownFrames
  /\ \A kind, d : Frame(kind, d).kind = kind /\ Frame(kind, d).digest = d
  BY DEF Frame, UpFrames, DownFrames

LEMMA FreshFrame ==
  ASSUME NEW r, NEW kind, NEW d,
         kind \in {"ModRequest", "MapRequest", "ModError", "MapError"}
  PROVE  Fresh(r, <<Frame(kind, d)>>)
  BY FrameTypes DEF Fresh, Offers

\* A step that changes one client's record and tells it something plain, ...
LEMMA ToldOnly ==
  ASSUME ServerWas, NEW p \in Players, seen[p].here, room' = room,
         seen' \in [Players -> Seen], Within(room, seen, seen'),
         jobs' \in Seq(Jobs), Fewer(jobs, jobs') \/ Checking(room, seen', jobs'),
         NEW kind \in {"ModRequest", "MapRequest", "ModError", "MapError"},
         down' = [down EXCEPT ![p] = Append(@, Frame(kind, Nothing))]
  PROVE  ServerDone
  <1>1. Frame(kind, Nothing) \in DownFrames /\ Fresh(room', <<Frame(kind, Nothing)>>)
    BY FrameTypes, FreshFrame, PieceTypes DEF Downward
  <1>2. seen'[p].here
    BY DEF Within
  <1>3. Sent
    BY <1>1, <1>2, OneSent DEF ServerWas
  <1> QED
    BY <1>3, TameDone DEF ServerWas

\* ... or nothing.
LEMMA QuietOnly ==
  ASSUME ServerWas, Quietly,
         seen' \in [Players -> Seen], Within(room, seen, seen'),
         jobs' \in Seq(Jobs), Fewer(jobs, jobs') \/ Checking(room, seen', jobs')
  PROVE  ServerDone
  <1>1. Sent
    BY NoneSent DEF ServerWas, Quietly
  <1> QED
    BY <1>1, TameDone DEF ServerWas, Quietly

LEMMA SameJobs ==
  ASSUME ServerWas, jobs' = jobs
  PROVE  jobs' \in Seq(Jobs) /\ Fewer(jobs, jobs')
  BY NothingDone DEF ServerWas, Typed

LEMMA ForgottenJobs ==
  ASSUME ServerWas, NEW who, jobs' = Forgotten(jobs, who)
  PROVE  jobs' \in Seq(Jobs) /\ Fewer(jobs, jobs')
  BY ForgottenFewer DEF ServerWas, Typed

LEMMA ServerModOfferDone ==
  ASSUME ServerWas, NEW p \in Players, NEW f \in UpFrames, seen[p].here, ServerModOffer(p, f)
  PROVE  ServerDone
  <1>1. seen[p] \in Seen /\ f.digest \in Values /\ room \in Rooms /\ jobs \in Seq(Jobs)
    BY DEF ServerWas, Typed, UpFrames
  <1>2. CASE room.host # p
    <2> DEFINE k == [seen[p] EXCEPT !.modReceive = Nothing]
    <2>1. k \in Seen /\ seen' = [seen EXCEPT ![p] = k]
      BY <1>1, <1>2, PieceTypes DEF ServerModOffer, Seen
    <2>2. seen' \in [Players -> Seen] /\ Within(room, seen, seen')
      BY <1>1, <2>1, OneChanged DEF Seen
    <2>3. room' = room /\ jobs' = jobs /\ down' = [down EXCEPT ![p] = Append(@, Frame("ModError", Nothing))]
      BY <1>2 DEF ServerModOffer
    <2> QED
      BY <2>2, <2>3, ToldOnly, SameJobs
  <1>3. CASE room.host = p /\ (room.running \/ seen[p].modReceive # Nothing \/ Validating(p))
    BY <1>3, Unchanged DEF ServerModOffer, Quietly
  <1>4. CASE room.host = p /\ ~(room.running \/ seen[p].modReceive # Nothing \/ Validating(p))
    <2> DEFINE r == [room EXCEPT !.mods = Nothing, !.map = Nothing]
               s == ResetTransfers(seen)
               u == Forgotten(jobs, Here)
               job == Job(p, TRUE, TRUE, f.digest, Nothing)
               v == Validate(u, job)
    <2>1. BroadcastLobby(r, s, NoFrames) /\ jobs' = v
      BY <1>4 DEF ServerModOffer
    <2>2. /\ r \in Rooms /\ r.mods = Nothing /\ r.map = Nothing
          /\ r.host = room.host /\ r.running = room.running
      BY <1>1, PieceTypes DEF Rooms
    <2>3. \A q \in Players :
            /\ s[q] \in Seen /\ s[q].here = seen[q].here /\ s[q].modOffered = Nothing /\ ~s[q].mapOffered
            /\ s[q].modReceive = Nothing /\ s[q].mapReceive = Nothing
            /\ s[q].modSend = Nothing /\ s[q].mapSend = Nothing
            /\ ~s[q].here => s[q] = Away
      BY PieceTypes DEF ResetTransfers, Away, Seen, ServerWas, Typed
    <2>4. s \in [Players -> Seen]
      BY <2>3 DEF ResetTransfers
    <2>5. job \in Jobs /\ job.client = p /\ job.mods
      BY <1>1, PieceTypes DEF Job, Jobs
    <2>6. u \in Seq(Jobs) /\ \A i \in DOMAIN u : u[i].current => u[i].client = p
      <3>1. \A i \in DOMAIN jobs : jobs[i].current => jobs[i].client = p
        BY <1>4, AllTheHosts DEF ServerWas, ServerInStep
      <3> QED
        BY <1>1, <3>1, ForgottenFewer DEF Fewer
    <2> HIDE DEF r, s, u, job
    <2>7. v \in Seq(Jobs) /\ Checking(r, s, v)
      BY <1>4, <2>2, <2>3, <2>5, <2>6, ValidatedInStep
    <2>8. Membership(r, s) /\ Receiving(r, s)
      BY <1>4, <2>2, <2>3 DEF Membership, Receiving, ServerWas, ServerInStep
    <2>9. Offered(r, s) \in [Players -> Seen] /\ ServerInStep(r, Offered(r, s), v)
      BY <1>4, <2>2, <2>3, <2>4, <2>7, <2>8, OfferedInStep
    <2>10. room' = r /\ seen' = Offered(r, s)
      BY <2>1 DEF BroadcastLobby
    <2>11. Sent
      BY <1>4, <2>1, <2>2, <2>4, AllSent DEF ServerWas
    <2>12. \A q \in Players : seen'[q].here = seen[q].here
      BY <2>3, <2>10 DEF Offered, Seen
    <2> QED
      BY <1>4, <2>1, <2>2, <2>7, <2>9, <2>10, <2>11, <2>12 DEF ServerDone, RoomStays, MemberStays
  <1> QED
    BY <1>2, <1>3, <1>4

LEMMA ServerModChunkDone ==
  ASSUME ServerWas, NEW p \in Players, NEW f \in UpFrames, seen[p].here, ServerModChunk(p, f)
  PROVE  ServerDone
  <1>1. seen[p] \in Seen /\ f.digest \in Values /\ room \in Rooms /\ jobs \in Seq(Jobs)
    BY DEF ServerWas, Typed, UpFrames
  <1> DEFINE k == [seen[p] EXCEPT !.modReceive = Nothing]
  <1>2. k \in Seen /\ [seen EXCEPT ![p].modReceive = Nothing] = [seen EXCEPT ![p] = k]
    BY <1>1, PieceTypes DEF Seen
  <1>3. CASE room.host # p
    <2>1. /\ seen' = [seen EXCEPT ![p] = k]
          /\ room' = room /\ jobs' = jobs
          /\ down' = [down EXCEPT ![p] = Append(@, Frame("ModError", Nothing))]
      BY <1>2, <1>3 DEF ServerModChunk
    <2>2. seen' \in [Players -> Seen] /\ Within(room, seen, seen')
      BY <1>1, <1>2, <2>1, OneChanged DEF Seen
    <2> QED
      BY <2>1, <2>2, ToldOnly, SameJobs
  <1>4. CASE room.host = p /\ room.running
    BY <1>4, Unchanged DEF ServerModChunk, Quietly
  <1>5. CASE room.host = p /\ ~room.running /\ seen[p].modReceive = Nothing
    <2> DEFINE e == [seen[p] EXCEPT !.modReceive = Nothing, !.modSend = Nothing, !.modReady = Nothing]
    <2>1. ModChunkFails(p)
      BY <1>5 DEF ServerModChunk
    <2>2. e \in Seen /\ seen' = [seen EXCEPT ![p] = e]
      BY <1>1, <2>1, PieceTypes DEF ModChunkFails, Seen
    <2>3. seen' \in [Players -> Seen] /\ Within(room, seen, seen')
      BY <1>1, <2>2, OneChanged DEF Seen
    <2>4. /\ room' = room /\ jobs' = Forgotten(jobs, {p})
          /\ down' = [down EXCEPT ![p] = Append(@, Frame("ModError", Nothing))]
      BY <2>1 DEF ModChunkFails
    <2> QED
      BY <2>3, <2>4, ToldOnly, ForgottenJobs
  <1>6. CASE room.host = p /\ ~room.running /\ seen[p].modReceive # Nothing
    <2> DEFINE job == Job(p, TRUE, FALSE, seen[p].modReceive, f.digest)
    <2>1. /\ seen' = [seen EXCEPT ![p] = k]
          /\ jobs' = Validate(jobs, job) /\ Quietly
      BY <1>2, <1>6 DEF ServerModChunk
    <2>2. seen' \in [Players -> Seen] /\ Within(room, seen, seen')
      BY <1>1, <1>2, <2>1, OneChanged DEF Seen
    <2>3. job \in Jobs /\ job.client = p /\ job.mods
      <3>1. seen[p].modReceive \in Values
        BY <1>1 DEF Seen
      <3> QED
        BY <3>1, <1>1 DEF Job, Jobs
    <2>4. room.mods = Nothing /\ seen'[p].modReceive = Nothing
      BY <1>1, <1>6, <2>1 DEF ServerWas, ServerInStep, Receiving, Typed, Seen
    <2>5. \A i \in DOMAIN jobs : jobs[i].current => jobs[i].client = p
      BY <1>6, AllTheHosts DEF ServerWas, ServerInStep
    <2>6. jobs' \in Seq(Jobs) /\ Checking(room, seen', jobs')
      BY <1>1, <1>6, <2>1, <2>3, <2>4, <2>5, ValidatedInStep
    <2> QED
      BY <2>1, <2>2, <2>6, QuietOnly
  <1> QED
    BY <1>3, <1>4, <1>5, <1>6

\* Server::broadcastLobby of what is there already, after a change within a record.
LEMMA ToldDone ==
  ASSUME ServerWas, NEW p \in Players, NEW s \in [Players -> Seen], Within(room, seen, s),
         Told(p, s), jobs' = jobs
  PROVE  ServerDone
  <1>1. room \in Rooms /\ jobs \in Seq(Jobs) /\ ServerInStep(room, s, jobs)
    BY Tame, NothingDone DEF ServerWas, Typed
  <1>2. CASE room.running
    BY <1>1, <1>2, QuietOnly, SameJobs DEF Told
  <1>3. CASE ~room.running
    <2>1. BroadcastLobby(room, s, NoFrames)
      BY <1>3 DEF Told
    <2>2. room' = room /\ seen' = Offered(room, s)
      BY <2>1 DEF BroadcastLobby
    <2>3. seen' \in [Players -> Seen] /\ ServerInStep(room, seen', jobs)
      <3>1. \A q \in Players :
              /\ s[q].here => s[q].modOffered = room.mods /\ (s[q].mapOffered <=> room.map # Nothing)
              /\ s[q].modSend \in {Nothing, room.mods} /\ s[q].mapSend \in {Nothing, room.map}
        BY <1>1 DEF ServerInStep, Offering
      <3> QED
        BY <1>1, <1>3, <2>2, <3>1, OfferedInStep DEF ServerInStep
    <2>4. Sent
      BY <1>1, <1>3, <2>1, AllSent DEF ServerWas
    <2>5. \A q \in Players : seen'[q].here = seen[q].here
      BY <2>2, ZenonT(60) DEF Offered, Within, Seen
    <2> QED
      BY <1>1, <2>2, <2>3, <2>4, <2>5 DEF ServerDone, RoomStays, MemberStays, ServerWas, Typed
  <1> QED
    BY <1>2, <1>3

\* A handler that changes one client's record and stays quiet.
LEMMA OneQuiet ==
  ASSUME ServerWas, NEW p \in Players, seen[p].here, NEW k \in Seen,
         seen' = [seen EXCEPT ![p] = k], Quietly, jobs' = jobs,
         k.here, k.modOffered = seen[p].modOffered, k.mapOffered = seen[p].mapOffered,
         k.modReceive \in {seen[p].modReceive, Nothing}, k.mapReceive \in {seen[p].mapReceive, Nothing},
         k.modSend \in {seen[p].modSend, Nothing, room.mods},
         k.mapSend \in {seen[p].mapSend, Nothing, room.map}
  PROVE  ServerDone
  <1>1. seen' \in [Players -> Seen] /\ Within(room, seen, seen')
    BY OneChanged
  <1> QED
    BY <1>1, QuietOnly, SameJobs

LEMMA ServerModRequestDone ==
  ASSUME ServerWas, NEW p \in Players, NEW f \in UpFrames, seen[p].here, ServerModRequest(p, f)
  PROVE  ServerDone
  <1>1. seen[p] \in Seen /\ room \in Rooms
    BY DEF ServerWas, Typed
  <1> DEFINE k == [seen[p] EXCEPT !.modSend = room.mods]
  <1>2. CASE room.mods = f.digest /\ seen[p].modSend = Nothing
    <2>1. k \in Seen /\ seen' = [seen EXCEPT ![p] = k] /\ Quietly /\ jobs' = jobs
      BY <1>1, <1>2 DEF ServerModRequest, Seen, Rooms
    <2> QED
      BY <1>1, <2>1, OneQuiet DEF Seen
  <1>3. CASE ~(room.mods = f.digest /\ seen[p].modSend = Nothing)
    BY <1>3, Unchanged DEF ServerModRequest, Quietly
  <1> QED
    BY <1>2, <1>3

LEMMA ServerMapRequestDone ==
  ASSUME ServerWas, NEW p \in Players, NEW f \in UpFrames, seen[p].here, ServerMapRequest(p, f)
  PROVE  ServerDone
  <1>1. seen[p] \in Seen /\ room \in Rooms
    BY DEF ServerWas, Typed
  <1> DEFINE k == [seen[p] EXCEPT !.mapSend = room.map]
  <1>2. CASE room.map # Nothing /\ seen[p].mapSend = Nothing
    <2>1. k \in Seen /\ seen' = [seen EXCEPT ![p] = k] /\ Quietly /\ jobs' = jobs
      BY <1>1, <1>2 DEF ServerMapRequest, Seen, Rooms
    <2> QED
      BY <1>1, <2>1, OneQuiet DEF Seen
  <1>3. CASE ~(room.map # Nothing /\ seen[p].mapSend = Nothing)
    BY <1>3, Unchanged DEF ServerMapRequest, Quietly
  <1> QED
    BY <1>2, <1>3

LEMMA ServerReadyDone ==
  ASSUME ServerWas, NEW p \in Players, NEW f \in UpFrames, seen[p].here,
         ServerModReady(p, f) \/ ServerMapReady(p, f)
  PROVE  ServerDone
  <1>1. seen[p] \in Seen /\ f.digest \in Values
    BY DEF ServerWas, Typed, UpFrames
  <1>2. CASE ServerModReady(p, f)
    <2> DEFINE s == [seen EXCEPT ![p].modReady = f.digest]
               k == [seen[p] EXCEPT !.modReady = f.digest]
    <2>1. k \in Seen /\ s = [seen EXCEPT ![p] = k]
      BY <1>1 DEF Seen
    <2>2. s \in [Players -> Seen] /\ Within(room, seen, s)
      BY <1>1, <2>1 DEF ServerWas, Typed, Within, Seen
    <2>3. CASE room.mods = f.digest
      BY <1>2, <2>2, <2>3, ToldDone DEF ServerModReady
    <2>4. CASE room.mods # f.digest
      BY <1>2, <2>4, Unchanged DEF ServerModReady, Quietly
    <2> QED
      BY <2>3, <2>4
  <1>3. CASE ServerMapReady(p, f)
    <2> DEFINE s == [seen EXCEPT ![p].mapReady = TRUE]
               k == [seen[p] EXCEPT !.mapReady = TRUE]
    <2>1. k \in Seen /\ s = [seen EXCEPT ![p] = k]
      BY <1>1 DEF Seen
    <2>2. s \in [Players -> Seen] /\ Within(room, seen, s)
      BY <1>1, <2>1 DEF ServerWas, Typed, Within, Seen
    <2>3. CASE room.map = f.digest
      BY <1>3, <2>2, <2>3, ToldDone DEF ServerMapReady
    <2>4. CASE room.map # f.digest
      BY <1>3, <2>4, Unchanged DEF ServerMapReady, Quietly
    <2> QED
      BY <2>3, <2>4
  <1> QED
    BY <1>2, <1>3

LEMMA ServerErrorDone ==
  ASSUME ServerWas, NEW p \in Players, NEW f \in UpFrames, seen[p].here,
         ServerModError(p, f) \/ ServerMapError(p, f)
  PROVE  ServerDone
  <1>1. seen[p] \in Seen
    BY DEF ServerWas, Typed
  <1>2. CASE ServerModError(p, f)
    <2> DEFINE k == [seen[p] EXCEPT !.modReady = Nothing, !.modSend = Nothing, !.modReceive = Nothing]
    <2>1. k \in Seen /\ seen' = [seen EXCEPT ![p] = k] /\ Quietly /\ jobs' = jobs
      BY <1>1, <1>2, PieceTypes DEF ServerModError, Seen
    <2> QED
      BY <1>1, <2>1, OneQuiet DEF Seen
  <1>3. CASE ServerMapError(p, f)
    <2> DEFINE k == [seen[p] EXCEPT !.mapReady = FALSE, !.mapReceive = Nothing, !.mapSend = Nothing]
    <2>1. k \in Seen /\ seen' = [seen EXCEPT ![p] = k]
      BY <1>1, <1>3, PieceTypes DEF ServerMapError, MapFails, Seen
    <2>2. Quietly /\ jobs' = Forgotten(jobs, {p})
      BY <1>3 DEF ServerMapError, MapFails, Quietly
    <2>3. seen' \in [Players -> Seen] /\ Within(room, seen, seen')
      BY <1>1, <2>1, OneChanged DEF Seen
    <2> QED
      BY <2>2, <2>3, QuietOnly, ForgottenJobs
  <1> QED
    BY <1>2, <1>3

LEMMA ServerMapOfferDone ==
  ASSUME ServerWas, NEW p \in Players, NEW f \in UpFrames, seen[p].here, ServerMapOffer(p, f)
  PROVE  ServerDone
  <1>1. seen[p] \in Seen /\ f.digest \in Values /\ jobs \in Seq(Jobs)
    BY DEF ServerWas, Typed, UpFrames
  <1>2. CASE ~TakesMapOffer(room, seen, p)
    BY <1>2, Unchanged DEF ServerMapOffer, Quietly
  <1>3. CASE TakesMapOffer(room, seen, p) /\ (Validating(p) \/ seen[p].modReceive # Nothing)
    <2> DEFINE k == [seen[p] EXCEPT !.deferred = f.digest]
    <2>1. k \in Seen /\ seen' = [seen EXCEPT ![p] = k] /\ Quietly /\ jobs' = jobs
      BY <1>1, <1>3 DEF ServerMapOffer, Seen
    <2> QED
      BY <1>1, <2>1, OneQuiet DEF Seen
  <1>4. CASE TakesMapOffer(room, seen, p) /\ ~(Validating(p) \/ seen[p].modReceive # Nothing)
    <2> DEFINE job == Job(p, FALSE, TRUE, f.digest, Nothing)
    <2>1. jobs' = Validate(jobs, job) /\ seen' = seen /\ Quietly
      BY <1>4 DEF ServerMapOffer
    <2>2. job \in Jobs /\ job.client = p /\ ~job.mods
      BY <1>1, PieceTypes DEF Job, Jobs
    <2>3. \A i \in DOMAIN jobs : jobs[i].current => jobs[i].client = p
      BY <1>4, AllTheHosts DEF ServerWas, ServerInStep, TakesMapOffer
    <2>4. p = room.host /\ room.map = Nothing /\ seen[p].mapReceive = Nothing
      BY <1>4 DEF TakesMapOffer
    <2> HIDE DEF job
    <2>5. jobs' \in Seq(Jobs) /\ Checking(room, seen', jobs')
      BY <1>1, <2>1, <2>2, <2>3, <2>4, ValidatedInStep
    <2>6. seen' \in [Players -> Seen] /\ Within(room, seen, seen')
      BY <2>1, NothingDone DEF ServerWas, Typed
    <2> QED
      BY <2>1, <2>5, <2>6, QuietOnly
  <1> QED
    BY <1>2, <1>3, <1>4

LEMMA ServerMapChunkDone ==
  ASSUME ServerWas, NEW p \in Players, NEW f \in UpFrames, seen[p].here, ServerMapChunk(p, f)
  PROVE  ServerDone
  <1>1. seen[p] \in Seen /\ f.digest \in Values /\ jobs \in Seq(Jobs)
    BY DEF ServerWas, Typed, UpFrames
  <1> DEFINE early == room.running \/ room.host # p \/ room.map # Nothing
  <1>2. CASE early
    BY <1>2, Unchanged DEF ServerMapChunk, Quietly
  <1>3. CASE ~early /\ seen[p].mapReceive = Nothing
    <2> DEFINE k == [seen[p] EXCEPT !.mapReady = FALSE, !.mapReceive = Nothing, !.mapSend = Nothing]
    <2>1. MapFails(p) /\ down' = [down EXCEPT ![p] = Append(@, Frame("MapError", Nothing))]
      BY <1>3 DEF ServerMapChunk
    <2>2. k \in Seen /\ seen' = [seen EXCEPT ![p] = k]
      BY <1>1, <2>1, PieceTypes DEF MapFails, Seen
    <2>3. seen' \in [Players -> Seen] /\ Within(room, seen, seen')
      BY <1>1, <2>2, OneChanged DEF Seen
    <2>4. room' = room /\ jobs' = Forgotten(jobs, {p})
      BY <2>1 DEF MapFails
    <2> QED
      BY <2>1, <2>3, <2>4, ToldOnly, ForgottenJobs
  <1>4. CASE ~early /\ seen[p].mapReceive # Nothing
    <2> DEFINE k == [seen[p] EXCEPT !.mapReceive = Nothing]
               job == Job(p, FALSE, FALSE, seen[p].mapReceive, f.digest)
    <2>1. k \in Seen /\ seen' = [seen EXCEPT ![p] = k] /\ jobs' = Validate(jobs, job) /\ Quietly
      BY <1>1, <1>4, PieceTypes DEF ServerMapChunk, Seen
    <2>2. seen' \in [Players -> Seen] /\ Within(room, seen, seen')
      BY <1>1, <2>1, OneChanged DEF Seen
    <2>3. job \in Jobs /\ job.client = p /\ ~job.mods
      <3>1. seen[p].mapReceive \in Values
        BY <1>1 DEF Seen
      <3> QED
        BY <3>1, <1>1 DEF Job, Jobs
    <2>4. p = room.host /\ room.map = Nothing /\ seen'[p].mapReceive = Nothing
      BY <1>1, <1>4, <2>1 DEF ServerWas, Typed, Seen
    <2>5. \A i \in DOMAIN jobs : jobs[i].current => jobs[i].client = p
      BY <2>4, AllTheHosts DEF ServerWas, ServerInStep
    <2> HIDE DEF job
    <2>6. jobs' \in Seq(Jobs) /\ Checking(room, seen', jobs')
      BY <1>1, <2>1, <2>3, <2>4, <2>5, ValidatedInStep
    <2> QED
      BY <2>1, <2>2, <2>6, QuietOnly
  <1> QED
    BY <1>2, <1>3, <1>4

LEMMA ServerJoinDone ==
  ASSUME ServerWas, NEW p \in Players, NEW f, ServerJoin(p, f)
  PROVE  ServerDone
  <1>1. CASE room.host = Nothing \/ room.running
    BY <1>1, Unchanged DEF ServerJoin, Quietly
  <1>2. CASE ~(room.host = Nothing \/ room.running)
    <2> DEFINE k == [Away EXCEPT !.here = TRUE]
               s == [seen EXCEPT ![p] = k]
    <2>1. /\ room \in Rooms /\ jobs \in Seq(Jobs) /\ seen \in [Players -> Seen]
          /\ ServerInStep(room, seen, jobs)
      BY DEF ServerWas, Typed
    <2>2. /\ k \in Seen /\ k.here /\ k.modOffered = Nothing /\ ~k.mapOffered
          /\ k.modReceive = Nothing /\ k.mapReceive = Nothing
          /\ k.modSend = Nothing /\ k.mapSend = Nothing
      BY PieceTypes DEF Away, Seen
    <2>3. BroadcastLobby(room, s, NoFrames) /\ jobs' = jobs
      BY <1>2 DEF ServerJoin
    <2> HIDE DEF k
    <2>4. s \in [Players -> Seen] /\ s[p] = k /\ \A q \in Players \ {p} : s[q] = seen[q]
      BY <2>1, <2>2
    <2> HIDE DEF s
    <2>5. room.host \in Players
      BY <1>2, <2>1 DEF Rooms, Optional
    <2>6. Membership(room, s)
      BY <1>2, <2>1, <2>2, <2>4, <2>5 DEF Membership, ServerInStep
    <2>7. Receiving(room, s)
      BY <2>1, <2>2, <2>4 DEF Receiving, ServerInStep
    <2>8. Checking(room, s, jobs)
      <3>1. \A i \in DOMAIN jobs : jobs[i].client \in Players
        BY <2>1, JobElements
      <3> QED
        BY <2>1, <2>2, <2>4, <3>1 DEF Checking, ServerInStep
    <2>9. \A q \in Players : /\ s[q].here /\ room.mods = Nothing => s[q].modOffered = Nothing
                             /\ s[q].here /\ room.map = Nothing => ~s[q].mapOffered
                             /\ s[q].modSend \in {Nothing, room.mods} /\ s[q].mapSend \in {Nothing, room.map}
      BY <2>1, <2>2, <2>4 DEF Offering, ServerInStep
    <2>10. Offered(room, s) \in [Players -> Seen] /\ ServerInStep(room, Offered(room, s), jobs)
      BY <1>2, <2>1, <2>4, <2>6, <2>7, <2>8, <2>9, OfferedInStep
    <2>11. room' = room /\ seen' = Offered(room, s)
      BY <2>3 DEF BroadcastLobby
    <2>12. Sent
      BY <1>2, <2>1, <2>3, <2>4, AllSent DEF ServerWas
    <2>13. \A q \in Players : seen[q].here => seen'[q].here
      BY <2>2, <2>4, <2>11 DEF Offered, Seen
    <2> QED
      BY <2>1, <2>3, <2>10, <2>11, <2>12, <2>13 DEF ServerDone, RoomStays, MemberStays
  <1> QED
    BY <1>1, <1>2

LEMMA ServerLeaveDone ==
  ASSUME ServerWas, NEW p \in Players, NEW f, seen[p].here, mine[p].at = "left", ServerLeave(p, f)
  PROVE  ServerDone
  <1> DEFINE left == [seen EXCEPT ![p] = Away]
             others == Here \ {p}
             host == IF room.host # p \/ room.running THEN room.host
                     ELSE IF others = {} THEN Nothing ELSE CHOOSE q \in others : TRUE
             u == Forgotten(jobs, {p})
  <1>1. /\ room \in Rooms /\ jobs \in Seq(Jobs) /\ seen \in [Players -> Seen]
        /\ ServerInStep(room, seen, jobs)
    BY DEF ServerWas, Typed
  <1>2. left \in [Players -> Seen] /\ left[p] = Away /\ \A q \in Players \ {p} : left[q] = seen[q]
    BY <1>1, PieceTypes
  <1>3. /\ ~Away.here /\ Away.modReceive = Nothing /\ Away.mapReceive = Nothing
        /\ Away.modSend = Nothing /\ Away.mapSend = Nothing
    BY DEF Away
  <1>4. /\ jobs' = u /\ u \in Seq(Jobs) /\ Fewer(jobs, u)
        /\ \A i \in DOMAIN u : u[i].current => u[i].client # p /\ u[i].client \in Players
    <2>1. jobs' = u
      BY DEF ServerLeave
    <2>2. /\ u \in Seq(Jobs) /\ Fewer(jobs, u)
          /\ \A i \in DOMAIN jobs : u[i].current => jobs[i].client \notin {p}
      BY <1>1, ForgottenFewer
    <2> QED
      BY <1>1, <2>1, <2>2, JobElements DEF Fewer
  <1> HIDE DEF u
  <1>5. ASSUME NEW i \in DOMAIN u, u[i].current
        PROVE  /\ u[i].client = room.host /\ u[i].client \in Players \ {p}
               /\ u[i].mods => room.mods = Nothing /\ left[u[i].client].modReceive = Nothing
               /\ ~u[i].mods => room.map = Nothing /\ left[u[i].client].mapReceive = Nothing
               /\ \A k \in DOMAIN u : u[k].current => k = i
    <2>1. /\ i \in DOMAIN jobs /\ jobs[i].current /\ jobs[i].client = u[i].client /\ jobs[i].mods = u[i].mods
          /\ \A k \in DOMAIN u : u[k].current => k \in DOMAIN jobs /\ jobs[k].current
      BY <1>4, <1>5 DEF Fewer
    <2>2. u[i].client \in Players \ {p}
      BY <1>4, <1>5
    <2> QED
      BY <1>1, <1>2, <2>1, <2>2 DEF ServerInStep, Checking
  <1>6. \A q \in Players \ {p} : left[q].here => q \in others
    BY <1>2 DEF Here
  <1> HIDE DEF left
  <1>7. \A q \in Players : MemberStays(q)
    <2>1. ASSUME NEW q \in Players \ {p}, seen[q].here PROVE seen'[q].here
      <3>1. seen' = left \/ \E r : seen' = Offered(r, left)
        BY DEF ServerLeave, BroadcastLobby, left
      <3>2. left[q] \in Seen /\ left[q].here
        BY <1>2, <2>1
      <3>3. ASSUME NEW r, seen' = Offered(r, left) PROVE seen'[q].here
        BY <3>2, <3>3 DEF Offered, Seen
      <3> QED
        BY <3>1, <3>2, <3>3
    <2> QED
      BY <2>1 DEF MemberStays
  \* In the game everybody inside has been offered both packages already.
  <1>8. CASE room.running
    <2>1. host = room.host /\ room.host # Nothing
      BY <1>1, <1>8 DEF ServerInStep, Membership
    <2> HIDE DEF host
    <2>2. [room EXCEPT !.host = host] = room
      BY <1>1, <2>1 DEF Rooms
    <2>3. BroadcastLobby(room, left, NoFrames)
      BY <2>1, <2>2 DEF ServerLeave, left, host
    <2>4. Membership(room, left) /\ Receiving(room, left)
      BY <1>1, <1>2, <1>3, <1>8, <2>1 DEF Membership, Receiving, ServerInStep
    <2>5. Checking(room, left, u)
      BY <1>5 DEF Checking
    <2>6. room.mods # Nothing /\ room.map # Nothing
      BY <1>1, <1>8 DEF ServerInStep
    <2>7. \A q \in Players : /\ left[q].here => left[q].modOffered = room.mods /\ left[q].mapOffered
                             /\ left[q].modSend \in {Nothing, room.mods} /\ left[q].mapSend \in {Nothing, room.map}
      BY <1>1, <1>2, <1>3, <2>6 DEF Offering, ServerInStep
    <2>8. Offered(room, left) \in [Players -> Seen] /\ ServerInStep(room, Offered(room, left), u)
      BY <1>1, <1>2, <1>4, <2>4, <2>5, <2>6, <2>7, OfferedInStep
    <2>9. room' = room /\ seen' = Offered(room, left)
      BY <2>3 DEF BroadcastLobby
    <2>10. Sent
      BY <1>1, <1>2, <2>3, <2>7, AllSent DEF ServerWas
    <2> QED
      BY <1>1, <1>4, <1>7, <2>8, <2>9, <2>10 DEF ServerDone, RoomStays
  <1>9. CASE ~room.running /\ host = Nothing
    <2> DEFINE r == [room EXCEPT !.host = Nothing, !.mods = Nothing, !.map = Nothing]
    <2>1. room' = r /\ seen' = left /\ down' = down
      BY <1>9 DEF ServerLeave, left
    <2>2. /\ r \in Rooms /\ r.host = Nothing /\ r.mods = Nothing /\ r.map = Nothing /\ ~r.running
      BY <1>1, <1>9, PieceTypes DEF Rooms, Optional
    <2>3. room.host = p /\ others = {}
      <3>1. CASE room.host # p
        BY <1>1, <1>9, <3>1 DEF ServerInStep, Membership
      <3>2. CASE room.host = p /\ others # {}
        <4>1. (CHOOSE q \in others : TRUE) \in Players
          BY <3>2 DEF Here
        <4> QED
          BY <1>9, <3>2, <4>1, PieceTypes
      <3> QED
        BY <3>1, <3>2
    <2>4. \A q \in Players : left[q] = Away
      BY <1>1, <1>2, <1>6, <2>3 DEF ServerInStep, Membership
    <2>5. Membership(r, left) /\ Offering(r, left) /\ Receiving(r, left)
      BY <1>3, <2>2, <2>4 DEF Membership, Offering, Receiving
    <2>6. Checking(r, left, u)
      BY <1>5, <2>3 DEF Checking
    <2> HIDE DEF r
    <2>7. Sent
      BY <2>1, <2>2, NoneSent DEF ServerWas
    <2> QED
      BY <1>2, <1>4, <1>7, <1>9, <2>1, <2>2, <2>5, <2>6, <2>7 DEF ServerDone, RoomStays, ServerInStep
  <1>10. CASE ~room.running /\ host # Nothing
    <2> DEFINE r == [room EXCEPT !.host = host]
    <2>1. BroadcastLobby(r, left, NoFrames)
      BY <1>10 DEF ServerLeave, left
    <2>2. host \in Players \ {p} /\ left[host].here
      <3>1. CASE room.host # p
        <4>1. room.host \in Players /\ seen[room.host].here
          BY <1>1, <1>10, <3>1 DEF Rooms, Optional, ServerInStep, Membership
        <4> QED
          BY <1>2, <3>1, <4>1
      <3>2. CASE room.host = p
        <4>1. others # {} /\ host = CHOOSE q \in others : TRUE
          BY <1>10, <3>2
        <4>2. host \in others
          BY <4>1
        <4> QED
          BY <1>2, <4>2 DEF Here
      <3> QED
        BY <3>1, <3>2
    <2>3. room.host # p => host = room.host
      OBVIOUS
    <2> HIDE DEF host
    <2>4. /\ r \in Rooms /\ r.host = host /\ r.mods = room.mods /\ r.map = room.map /\ ~r.running
      BY <1>1, <1>10, <2>2 DEF Rooms, Optional
    <2> HIDE DEF r
    <2>5. Membership(r, left)
      BY <1>1, <1>2, <1>3, <2>2, <2>4, PieceTypes DEF Membership, ServerInStep
    <2>6. Receiving(r, left)
      BY <1>1, <1>2, <1>3, <2>3, <2>4 DEF Receiving, ServerInStep
    <2>7. Checking(r, left, u)
      BY <1>5, <2>3, <2>4 DEF Checking
    <2>8. \A q \in Players : /\ left[q].here /\ r.mods = Nothing => left[q].modOffered = Nothing
                             /\ left[q].here /\ r.map = Nothing => ~left[q].mapOffered
                             /\ left[q].modSend \in {Nothing, r.mods} /\ left[q].mapSend \in {Nothing, r.map}
      BY <1>1, <1>2, <1>3, <2>4 DEF Offering, ServerInStep
    <2>9. Offered(r, left) \in [Players -> Seen] /\ ServerInStep(r, Offered(r, left), u)
      BY <1>2, <1>4, <2>4, <2>5, <2>6, <2>7, <2>8, OfferedInStep
    <2>10. room' = r /\ seen' = Offered(r, left)
      BY <2>1 DEF BroadcastLobby
    <2>11. Sent
      BY <1>2, <2>1, <2>4, AllSent DEF ServerWas
    <2> QED
      BY <1>4, <1>7, <1>10, <2>4, <2>9, <2>10, <2>11 DEF ServerDone, RoomStays
  <1> QED
    BY <1>8, <1>9, <1>10

LEMMA ServerStartDone ==
  ASSUME ServerWas, NEW p \in Players, NEW f, seen[p].here, ServerStart(p, f)
  PROVE  ServerDone
  <1>1. /\ room \in Rooms /\ jobs \in Seq(Jobs) /\ seen \in [Players -> Seen]
        /\ ServerInStep(room, seen, jobs) /\ seen' = seen /\ jobs' = jobs
    BY DEF ServerWas, Typed, ServerStart
  <1>2. CASE room.host = p /\ ~room.running /\ MapsReady(room, seen)
    <2> DEFINE r == [room EXCEPT !.running = TRUE]
               start == Frame("GameStarting", Nothing)
    <2>1. /\ room' = r
          /\ down' = [q \in Players |-> IF seen[q].here THEN Append(down[q], start) ELSE down[q]]
      BY <1>2 DEF ServerStart
    <2>2. /\ r \in Rooms /\ r.host = room.host /\ r.mods = room.mods /\ r.map = room.map /\ r.running
          /\ r.mods # Nothing /\ r.map # Nothing
      BY <1>1, <1>2 DEF Rooms, MapsReady
    <2>3. start \in DownFrames /\ start.kind = "GameStarting"
      BY FrameTypes, PieceTypes DEF Downward
    <2> HIDE DEF r, start
    <2>4. ServerInStep(r, seen, jobs)
      <3>1. Membership(r, seen) /\ Offering(r, seen) /\ Receiving(r, seen) /\ Checking(r, seen, jobs)
        BY <1>1, <1>2, <2>2 DEF ServerInStep, Membership, Offering, Receiving, Checking
      <3> QED
        BY <2>2, <3>1 DEF ServerInStep
    <2>5. ASSUME NEW q \in Players
          PROVE  down'[q] \in Seq(DownFrames) /\ \E t : Posted(q, t)
      <3>1. down[q] \in Seq(DownFrames) /\ down[q] \o <<>> = down[q] /\ <<>> \in Seq(DownFrames)
        BY ConcatEmptySeq, EmptySeq DEF ServerWas, Typed
      <3>2. CASE seen[q].here
        <4>1. down'[q] = down[q] \o <<start>> /\ <<start>> \in Seq(DownFrames)
          BY <2>1, <2>3, <3>1, <3>2, AppendIsConcat
        <4>2. Fresh(r, <<start>>)
          BY <2>2, <2>3 DEF Fresh, Offers
        <4>3. Posted(q, <<start>>)
          BY <1>1, <2>1, <2>2, <3>2, <4>1, <4>2 DEF Posted
        <4>4. down'[q] \in Seq(DownFrames)
          BY <2>1, <2>3, <3>1, <3>2, AppendProperties
        <4> QED
          BY <4>3, <4>4
      <3>3. CASE ~seen[q].here
        <4>1. Fresh(r, <<>>)
          BY DEF Fresh
        <4>2. Posted(q, <<>>)
          BY <1>1, <2>1, <2>2, <3>1, <3>3, <4>1 DEF Posted
        <4> QED
          BY <2>1, <3>1, <3>3, <4>2
      <3> QED
        BY <3>2, <3>3
    <2>6. Sent
      BY <2>1, <2>5 DEF Sent
    <2> QED
      BY <1>1, <1>2, <2>1, <2>2, <2>4, <2>6 DEF ServerDone, RoomStays, MemberStays
  <1>3. CASE room.host = p /\ ~room.running /\ ~MapsReady(room, seen)
    <2>1. room' = room /\ down' = [down EXCEPT ![p] = Append(@, Frame("MapError", Nothing))]
      BY <1>3 DEF ServerStart
    <2> QED
      BY <1>1, <2>1, ToldOnly, NothingDone
  <1>4. CASE ~(room.host = p /\ ~room.running)
    BY <1>1, <1>4, Unchanged DEF ServerStart, Quietly
  <1> QED
    BY <1>2, <1>3, <1>4

\* A frame that is read: one handler, or none.
LEMMA ServerReadsDone ==
  ASSUME ServerWas, PlayersInStep, NEW p \in Players, ServerReads(p)
  PROVE  ServerDone
  <1> DEFINE f == Head(up[p])
  <1>1. f \in UpFrames /\ up[p] \in Seq(UpFrames) /\ up[p] # <<>>
    BY Shorter DEF ServerWas, Typed, ServerReads
  <1>2. f.kind = "Leave" => mine[p].at = "left"
    <2>1. f = up[p][1] /\ 1 \in DOMAIN up[p]
      BY <1>1, Shorter
    <2> QED
      BY <2>1 DEF PlayersInStep, PlayerInStep, ClientInStep
  <1> HIDE DEF f
  <1>3. CASE Quietly /\ UNCHANGED <<seen, jobs>>
    BY <1>3, Unchanged DEF Quietly
  <1>4. CASE ServerJoin(p, f)
    BY <1>4, ServerJoinDone
  <1>5. CASE seen[p].here /\ (ServerModOffer(p, f) \/ ServerModChunk(p, f))
    BY <1>1, <1>5, ServerModOfferDone, ServerModChunkDone
  <1>6. CASE seen[p].here /\ (ServerModRequest(p, f) \/ ServerMapRequest(p, f))
    BY <1>1, <1>6, ServerModRequestDone, ServerMapRequestDone
  <1>7. CASE seen[p].here /\ (ServerModReady(p, f) \/ ServerMapReady(p, f))
    BY <1>1, <1>7, ServerReadyDone
  <1>8. CASE seen[p].here /\ (ServerModError(p, f) \/ ServerMapError(p, f))
    BY <1>1, <1>8, ServerErrorDone
  <1>9. CASE seen[p].here /\ (ServerMapOffer(p, f) \/ ServerMapChunk(p, f))
    BY <1>1, <1>9, ServerMapOfferDone, ServerMapChunkDone
  <1>10. CASE seen[p].here /\ f.kind = "Leave" /\ ServerLeave(p, f)
    BY <1>2, <1>10, ServerLeaveDone
  <1>11. CASE seen[p].here /\ ServerStart(p, f)
    BY <1>11, ServerStartDone
  <1> QED
    BY <1>3, <1>4, <1>5, <1>6, <1>7, <1>8, <1>9, <1>10, <1>11 DEF ServerReads, f

-----------------------------------------------------------------------------
(* The validations and what the server sends of its own accord.             *)

LEMMA RunJobDone ==
  ASSUME ServerWas, RunJob
  PROVE  ServerDone
  <1>1. jobs \in Seq(Jobs) /\ UNCHANGED <<room, seen, down>>
    BY DEF ServerWas, Typed, RunJob
  <1>2. PICK i \in DOMAIN jobs, found \in BOOLEAN : jobs' = [jobs EXCEPT ![i].done = TRUE, ![i].found = found]
    <2>1. \A job, stopped, x : (~stopped /\ (IF x THEN job.digest \in stored ELSE job.bytes = job.digest)) \in BOOLEAN
      OBVIOUS
    <2> QED
      BY <2>1 DEF RunJob
  <1> DEFINE job == [jobs[i] EXCEPT !.done = TRUE, !.found = found]
  <1>3. jobs[i] \in Jobs
    BY <1>1, JobElements
  <1>4. job \in Jobs /\ jobs' = [jobs EXCEPT ![i] = job]
    BY <1>2, <1>3 DEF Jobs
  <1>5. /\ job.client = jobs[i].client /\ job.mods = jobs[i].mods /\ job.current = jobs[i].current
    BY <1>3 DEF Jobs
  <1> HIDE DEF job
  <1>6. jobs' \in Seq(Jobs)
    <2>1. i \in 1 .. Len(jobs)
      BY <1>1, LenProperties
    <2> QED
      BY <1>1, <1>4, <2>1, ExceptSeq
  <1>7. Fewer(jobs, jobs')
    BY <1>1, <1>4, <1>5 DEF Fewer
  <1>8. seen' \in [Players -> Seen] /\ Within(room, seen, seen')
    BY <1>1, NothingDone DEF ServerWas, Typed
  <1> QED
    BY <1>1, <1>6, <1>7, <1>8, QuietOnly DEF Quietly

\* A map offer that was put off is taken when nothing of its client's is under way.
LEMMA DeferredInStep ==
  ASSUME NEW r \in Rooms, NEW s \in [Players -> Seen], NEW q \in Seq(Jobs),
         Membership(r, s), Checking(r, s, q)
  PROVE  /\ DropRipe(s, q) \in [Players -> Seen] /\ Within(r, s, DropRipe(s, q))
         /\ \A p \in Players : /\ DropRipe(s, q)[p].modReceive = s[p].modReceive
                               /\ DropRipe(s, q)[p].mapReceive = s[p].mapReceive
                               /\ DropRipe(s, q)[p].modSend = s[p].modSend
                               /\ DropRipe(s, q)[p].mapSend = s[p].mapSend
         /\ TakeDeferred(r, s, q) \in Seq(Jobs)
         /\ \A t : Within(r, s, t) => Checking(r, t, TakeDeferred(r, s, q))
  <1> DEFINE d == DropRipe(s, q)
  <1>1. ASSUME NEW p \in Players
        PROVE  /\ d[p] \in Seen
               /\ d[p] = s[p] \/ (s[p].deferred # Nothing /\ d[p] = [s[p] EXCEPT !.deferred = Nothing])
    BY PieceTypes DEF DropRipe, Ripe, Seen
  <1>2. d \in [Players -> Seen]
    BY <1>1 DEF DropRipe
  <1> HIDE DEF d
  <1>3. \A p \in Players : s[p].deferred # Nothing => s[p].here
    BY DEF Membership, Away
  <1>4. ASSUME NEW p \in Players
        PROVE  /\ d[p].here = s[p].here /\ d[p].modOffered = s[p].modOffered /\ d[p].mapOffered = s[p].mapOffered
               /\ ~s[p].here => d[p] = s[p]
               /\ d[p].modReceive = s[p].modReceive /\ d[p].mapReceive = s[p].mapReceive
               /\ d[p].modSend = s[p].modSend /\ d[p].mapSend = s[p].mapSend
    <2>1. s[p] \in Seen
      OBVIOUS
    <2>2. CASE d[p] = s[p]
      BY <2>2
    <2>3. CASE s[p].deferred # Nothing /\ d[p] = [s[p] EXCEPT !.deferred = Nothing]
      <3>1. s[p].here
        BY <1>3, <2>3
      <3> QED
        BY <2>1, <2>3, <3>1, ZenonT(60) DEF Seen
    <2> QED
      BY <1>1, <2>2, <2>3
  <1>5. Within(r, s, d)
    BY <1>4 DEF Within
  <1> DEFINE p == CHOOSE p \in Ripe(s, q) : TRUE
             u == TakeDeferred(r, s, q)
             job == Job(p, FALSE, TRUE, s[p].deferred, Nothing)
  <1>6. CASE u = q
    <2>1. \A t : Within(r, s, t) => Checking(r, t, q)
      BY NothingDone, FewerChecking, JobElements DEF Rooms
    <2> QED
      BY <1>2, <1>4, <1>5, <1>6, <2>1 DEF d
  <1>7. CASE u = Validate(q, job) /\ Ripe(s, q) # {} /\ TakesMapOffer(r, s, p)
    <2>1. p \in Ripe(s, q)
      BY <1>7
    <2> HIDE DEF p
    <2>2. /\ p \in Players /\ r.host = p /\ r.map = Nothing /\ s[p].mapReceive = Nothing
          /\ s[p].deferred \in Values
      BY <1>7, <2>1 DEF Ripe, TakesMapOffer, Seen
    <2>3. job \in Jobs /\ job.client = p /\ ~job.mods
      BY <2>2, PieceTypes DEF Job, Jobs
    <2> HIDE DEF job
    <2>4. \A i \in DOMAIN q : q[i].current => q[i].client = job.client
      BY <2>2, <2>3, AllTheHosts
    <2>5. ASSUME NEW t, Within(r, s, t) PROVE u \in Seq(Jobs) /\ Checking(r, t, u)
      <3>1. t[p].mapReceive = Nothing
        BY <2>2, <2>5 DEF Within
      <3> QED
        BY <1>7, <2>2, <2>3, <2>4, <3>1, ValidatedInStep
    <2> QED
      BY <1>2, <1>4, <1>5, <2>5, NothingDone DEF d
  <1>8. u = q \/ (u = Validate(q, job) /\ Ripe(s, q) # {} /\ TakesMapOffer(r, s, p))
    BY DEF TakeDeferred
  <1> QED
    BY <1>6, <1>7, <1>8

LEMMA TakeDeferredOfferDone ==
  ASSUME ServerWas, TakeDeferredOffer
  PROVE  ServerDone
  <1>1. /\ room \in Rooms /\ seen \in [Players -> Seen] /\ jobs \in Seq(Jobs)
        /\ Membership(room, seen) /\ Checking(room, seen, jobs)
        /\ seen' = DropRipe(seen, jobs) /\ jobs' = TakeDeferred(room, seen, jobs) /\ Quietly
    BY DEF ServerWas, Typed, ServerInStep, TakeDeferredOffer, Quietly
  <1>2. /\ seen' \in [Players -> Seen] /\ Within(room, seen, seen')
        /\ jobs' \in Seq(Jobs) /\ Checking(room, seen', jobs')
    BY <1>1, DeferredInStep
  <1> QED
    BY <1>1, <1>2, QuietOnly

\* The result of a validation nobody waits for, ...
LEMMA DroppedDone ==
  ASSUME ServerWas, jobs # <<>>, Quietly,
         seen' = DropRipe(seen, Tail(jobs)), jobs' = TakeDeferred(room, seen, Tail(jobs))
  PROVE  ServerDone
  <1>1. /\ room \in Rooms /\ seen \in [Players -> Seen] /\ jobs \in Seq(Jobs)
        /\ Membership(room, seen) /\ Checking(room, seen, jobs)
    BY DEF ServerWas, Typed, ServerInStep
  <1>2. Tail(jobs) \in Seq(Jobs) /\ Checking(room, seen, Tail(jobs))
    BY <1>1, TailChecking
  <1>3. /\ seen' \in [Players -> Seen] /\ Within(room, seen, seen')
        /\ jobs' \in Seq(Jobs) /\ Checking(room, seen', jobs')
    BY <1>1, <1>2, DeferredInStep
  <1> QED
    BY <1>3, QuietOnly

\* ... of one that failed, ...
LEMMA FailedDone ==
  ASSUME ServerWas, jobs # <<>>, NEW p \in Players, seen[p].here,
         NEW kind \in {"ModError", "MapError"},
         down' = [down EXCEPT ![p] = Append(@, Frame(kind, Nothing))], room' = room,
         seen' = DropRipe(seen, Tail(jobs)), jobs' = TakeDeferred(room, seen, Tail(jobs))
  PROVE  ServerDone
  <1>1. /\ room \in Rooms /\ seen \in [Players -> Seen] /\ jobs \in Seq(Jobs)
        /\ Membership(room, seen) /\ Checking(room, seen, jobs)
    BY DEF ServerWas, Typed, ServerInStep
  <1>2. Tail(jobs) \in Seq(Jobs) /\ Checking(room, seen, Tail(jobs))
    BY <1>1, TailChecking
  <1>3. /\ seen' \in [Players -> Seen] /\ Within(room, seen, seen')
        /\ jobs' \in Seq(Jobs) /\ Checking(room, seen', jobs')
    BY <1>1, <1>2, DeferredInStep
  <1> QED
    BY <1>3, ToldOnly

\* ... of a package the server lacks, which the host is asked for, ...
LEMMA AskedDone ==
  ASSUME ServerWas, jobs # <<>>, Valid(Head(jobs)), NEW d \in Values, d = Head(jobs).digest,
         NEW k \in Seen,
         k = IF Head(jobs).mods THEN [seen[room.host] EXCEPT !.modReceive = d]
             ELSE [seen[room.host] EXCEPT !.mapReceive = d],
         NEW s, s = [seen EXCEPT ![room.host] = k],
         NEW kind \in {"ModRequest", "MapRequest"},
         down' = [down EXCEPT ![room.host] = Append(@, Frame(kind, Nothing))], room' = room,
         seen' = DropRipe(s, Tail(jobs)), jobs' = TakeDeferred(room, s, Tail(jobs))
  PROVE  ServerDone
  <1> DEFINE p == room.host
             rest == Tail(jobs)
  <1>1. /\ room \in Rooms /\ seen \in [Players -> Seen] /\ jobs \in Seq(Jobs)
        /\ Membership(room, seen) /\ Offering(room, seen) /\ Receiving(room, seen) /\ Checking(room, seen, jobs)
        /\ room.running => room.mods # Nothing /\ room.map # Nothing
    BY DEF ServerWas, Typed, ServerInStep
  <1>2. Head(jobs) \in Jobs /\ Head(jobs) = jobs[1] /\ 1 \in DOMAIN jobs
    BY <1>1, Shorter
  <1>3. p \in Players /\ p # Nothing /\ ~room.running /\ seen[p].here /\ Head(jobs).current
    BY <1>1, <1>2, PieceTypes DEF Valid, Jobs, Membership
  <1>4. Head(jobs).mods => room.mods = Nothing
    BY <1>1, <1>2, <1>3 DEF Checking
  <1>5. ~Head(jobs).mods => room.map = Nothing
    BY <1>1, <1>2, <1>3 DEF Checking
  <1>6. /\ k.here /\ k.modOffered = seen[p].modOffered /\ k.mapOffered = seen[p].mapOffered
        /\ k.modSend = seen[p].modSend /\ k.mapSend = seen[p].mapSend
        /\ k.modReceive = seen[p].modReceive \/ room.mods = Nothing
        /\ k.mapReceive = seen[p].mapReceive \/ room.map = Nothing
    <2>1. seen[p] \in Seen
      BY <1>1, <1>3
    <2>2. CASE Head(jobs).mods
      BY <1>3, <1>4, <2>1, <2>2 DEF Seen
    <2>3. CASE ~Head(jobs).mods
      BY <1>3, <1>5, <2>1, <2>3 DEF Seen
    <2> QED
      BY <2>2, <2>3
  <1>7. s \in [Players -> Seen] /\ s[p] = k /\ \A q \in Players : q # p => s[q] = seen[q]
    BY <1>1, <1>3
  <1> HIDE DEF p
  <1>8. Membership(room, s) /\ Offering(room, s) /\ Receiving(room, s)
    <2>1. Membership(room, s)
      BY <1>1, <1>3, <1>6, <1>7 DEF Membership, p
    <2>2. Offering(room, s)
      BY <1>1, <1>3, <1>6, <1>7 DEF Offering
    <2>3. Receiving(room, s)
      BY <1>1, <1>3, <1>6, <1>7 DEF Receiving, p
    <2> QED
      BY <2>1, <2>2, <2>3
  <1>9. rest \in Seq(Jobs) /\ \A i \in DOMAIN rest : ~rest[i].current
    BY <1>1, <1>3, TailChecking
  <1> HIDE DEF rest
  <1>10. Checking(room, s, rest)
    BY <1>9 DEF Checking
  <1>11. /\ seen' \in [Players -> Seen] /\ Within(room, s, seen')
         /\ jobs' \in Seq(Jobs) /\ Checking(room, seen', jobs')
    <2>1. seen' = DropRipe(s, rest) /\ jobs' = TakeDeferred(room, s, rest)
      BY DEF rest
    <2>2. /\ DropRipe(s, rest) \in [Players -> Seen] /\ Within(room, s, DropRipe(s, rest))
          /\ TakeDeferred(room, s, rest) \in Seq(Jobs)
          /\ \A t : Within(room, s, t) => Checking(room, t, TakeDeferred(room, s, rest))
      BY <1>1, <1>7, <1>8, <1>9, <1>10, DeferredInStep
    <2> QED
      BY <2>1, <2>2
  <1>12. Membership(room, seen') /\ Offering(room, seen') /\ Receiving(room, seen')
    BY <1>1, <1>8, <1>11, WithinSeen DEF Rooms
  <1>13. ServerInStep(room, seen', jobs')
    BY <1>1, <1>11, <1>12 DEF ServerInStep
  <1>14. \A q \in Players : seen'[q].here = s[q].here /\ s[q].here = seen[q].here
    <2>1. s[p].here = seen[p].here
      BY <1>3, <1>6, <1>7
    <2>2. \A q \in Players : s[q].here = seen[q].here
      BY <1>7, <2>1
    <2>3. \A q \in Players : seen'[q].here = s[q].here
      BY <1>11 DEF Within
    <2> QED
      BY <2>2, <2>3
  <1>15. Sent
    <2>1. Frame(kind, Nothing) \in DownFrames /\ Fresh(room', <<Frame(kind, Nothing)>>)
      BY FrameTypes, FreshFrame, PieceTypes DEF Downward
    <2>2. seen'[p].here
      BY <1>3, <1>14
    <2> QED
      BY <1>3, <2>1, <2>2, OneSent DEF ServerWas, p
  <1> QED
    BY <1>1, <1>11, <1>13, <1>14, <1>15 DEF ServerDone, RoomStays, MemberStays

\* ... and of a package that is taken, and offered to everybody.
LEMMA AcceptedDone ==
  ASSUME ServerWas, jobs # <<>>, Valid(Head(jobs)), NEW d \in Values, d = Head(jobs).digest,
         NEW r \in Rooms,
         r = IF Head(jobs).mods THEN [room EXCEPT !.mods = d] ELSE [room EXCEPT !.map = d],
         BroadcastLobby(r, DropRipe(seen, Tail(jobs)), NoFrames),
         jobs' = TakeDeferred(r, seen, Tail(jobs))
  PROVE  ServerDone
  <1> DEFINE rest == Tail(jobs)
             s == DropRipe(seen, Tail(jobs))
  <1>1. /\ room \in Rooms /\ seen \in [Players -> Seen] /\ jobs \in Seq(Jobs)
        /\ Membership(room, seen) /\ Offering(room, seen) /\ Receiving(room, seen) /\ Checking(room, seen, jobs)
        /\ room.running => room.mods # Nothing /\ room.map # Nothing
    BY DEF ServerWas, Typed, ServerInStep
  <1>2. Head(jobs) \in Jobs /\ Head(jobs) = jobs[1] /\ 1 \in DOMAIN jobs
    BY <1>1, Shorter
  <1>3. room.host \in Players /\ room.host # Nothing /\ ~room.running /\ Head(jobs).current
    BY <1>1, <1>2, PieceTypes DEF Valid, Jobs
  <1>4. /\ Head(jobs).client = room.host
        /\ Head(jobs).mods => room.mods = Nothing /\ seen[room.host].modReceive = Nothing
        /\ ~Head(jobs).mods => room.map = Nothing /\ seen[room.host].mapReceive = Nothing
    BY <1>1, <1>2, <1>3 DEF Checking
  <1>5. /\ r.host = room.host /\ r.running = room.running
        /\ r.mods = room.mods \/ (room.mods = Nothing /\ seen[room.host].modReceive = Nothing)
        /\ r.map = room.map \/ (room.map = Nothing /\ seen[room.host].mapReceive = Nothing)
    BY <1>1, <1>4 DEF Rooms
  <1>6. rest \in Seq(Jobs) /\ Checking(room, seen, rest) /\ \A i \in DOMAIN rest : ~rest[i].current
    BY <1>1, <1>3, TailChecking
  <1>7. Membership(r, seen)
    BY <1>1, <1>5 DEF Membership
  <1>8. /\ s \in [Players -> Seen] /\ Within(room, seen, s)
        /\ jobs' \in Seq(Jobs)
        /\ \A p \in Players : /\ s[p].modReceive = seen[p].modReceive /\ s[p].mapReceive = seen[p].mapReceive
                              /\ s[p].modSend = seen[p].modSend /\ s[p].mapSend = seen[p].mapSend
        /\ Checking(r, s, jobs')
    <2>1. Checking(r, seen, rest)
      BY <1>6 DEF Checking
    <2>2. /\ s \in [Players -> Seen] /\ Within(room, seen, s)
          /\ \A p \in Players : /\ s[p].modReceive = seen[p].modReceive /\ s[p].mapReceive = seen[p].mapReceive
                                /\ s[p].modSend = seen[p].modSend /\ s[p].mapSend = seen[p].mapSend
      <3>1. /\ room \in Rooms /\ seen \in [Players -> Seen] /\ Membership(room, seen)
            /\ rest \in Seq(Jobs) /\ Checking(room, seen, rest)
        BY <1>1, <1>6
      <3> QED
        BY <3>1, DeferredInStep, ZenonT(60)
    <2>3. /\ Within(r, seen, s) /\ TakeDeferred(r, seen, rest) \in Seq(Jobs)
          /\ \A t : Within(r, seen, t) => Checking(r, t, TakeDeferred(r, seen, rest))
      BY <1>1, <1>6, <1>7, <2>1, DeferredInStep
    <2>4. Checking(r, s, TakeDeferred(r, seen, rest))
      BY <2>3
    <2> QED
      BY <2>2, <2>3, <2>4
  <1> HIDE DEF rest, s
  <1>9. Membership(r, s) /\ Receiving(r, s)
    <2>1. Membership(room, s)
      BY <1>1, <1>8, WithinSeen DEF Rooms
    <2>2. Membership(r, s)
      BY <1>5, <2>1 DEF Membership
    <2>3. Receiving(r, s)
      BY <1>1, <1>5, <1>8 DEF Receiving
    <2> QED
      BY <2>2, <2>3
  <1>10. ASSUME NEW p \in Players
         PROVE  /\ s[p].here /\ r.mods = Nothing => s[p].modOffered = Nothing
                /\ s[p].here /\ r.map = Nothing => ~s[p].mapOffered
                /\ s[p].modSend \in {Nothing, r.mods} /\ s[p].mapSend \in {Nothing, r.map}
                /\ s[p].here /\ r.mods \notin {Nothing, room.mods} => s[p].modOffered # r.mods
                /\ s[p].here /\ r.map \notin {Nothing, room.map} => ~s[p].mapOffered
    <2>1. /\ s[p].here = seen[p].here /\ s[p].modOffered = seen[p].modOffered /\ s[p].mapOffered = seen[p].mapOffered
          /\ s[p].modSend = seen[p].modSend /\ s[p].mapSend = seen[p].mapSend
      BY <1>8 DEF Within
    <2>2. /\ seen[p].here => seen[p].modOffered = room.mods /\ (seen[p].mapOffered <=> room.map # Nothing)
          /\ seen[p].modSend \in {Nothing, room.mods}
          /\ seen[p].mapSend \in {Nothing, room.map}
      BY <1>1 DEF Offering
    <2> QED
      BY <1>5, <2>1, <2>2
  <1>11. room' = r /\ seen' = Offered(r, s) /\ BroadcastLobby(r, s, NoFrames)
    BY DEF BroadcastLobby, s
  <1>12. Offered(r, s) \in [Players -> Seen] /\ ServerInStep(r, Offered(r, s), jobs')
    BY <1>3, <1>5, <1>8, <1>9, <1>10, OfferedInStep
  <1>13. Sent
    BY <1>3, <1>5, <1>8, <1>10, <1>11, AllSent DEF ServerWas
  <1>14. \A p \in Players : seen'[p].here = seen[p].here
    BY <1>8, <1>11 DEF Offered, Seen, Within
  <1> QED
    BY <1>3, <1>8, <1>11, <1>12, <1>13, <1>14 DEF ServerDone, RoomStays, MemberStays

LEMMA FinishValidationDone ==
  ASSUME ServerWas, FinishValidation
  PROVE  ServerDone
  <1> DEFINE job == Head(jobs)
             rest == Tail(jobs)
             p == job.client
             begun == IF job.mods THEN [seen EXCEPT ![p].modReceive = job.digest]
                      ELSE [seen EXCEPT ![p].mapReceive = job.digest]
             k == IF job.mods THEN [seen[room.host] EXCEPT !.modReceive = job.digest]
                  ELSE [seen[room.host] EXCEPT !.mapReceive = job.digest]
             accepted == IF job.mods THEN [room EXCEPT !.mods = job.digest] ELSE [room EXCEPT !.map = job.digest]
             ask == IF job.mods THEN "ModRequest" ELSE "MapRequest"
             fail == IF job.mods THEN "ModError" ELSE "MapError"
  <1>1. /\ room \in Rooms /\ seen \in [Players -> Seen] /\ jobs \in Seq(Jobs) /\ jobs # <<>>
        /\ Membership(room, seen)
    BY DEF ServerWas, Typed, ServerInStep, FinishValidation
  <1>2. job \in Jobs /\ job.digest \in Values /\ p \in Players
    <2>1. job \in Jobs
      BY <1>1, Shorter
    <2> HIDE DEF job
    <2> QED
      BY <2>1 DEF Jobs
  <1>3. Valid(job) => p = room.host /\ seen[p].here
    BY <1>1, <1>2, PieceTypes DEF Valid, Membership
  <1>4. accepted \in Rooms
    BY <1>1, <1>2 DEF Rooms
  <1>5. ASSUME Valid(job) PROVE k \in Seen /\ begun = [seen EXCEPT ![room.host] = k]
    <2>1. seen[p] \in Seen /\ p = room.host
      BY <1>1, <1>2, <1>3, <1>5
    <2> HIDE DEF job
    <2>2. CASE job.mods
      BY <1>1, <1>2, <2>1, <2>2 DEF Seen
    <2>3. CASE ~job.mods
      BY <1>1, <1>2, <2>1, <2>3 DEF Seen
    <2> QED
      BY <2>2, <2>3
  <1>6. CASE Valid(job) /\ job.found
    <2>1. BroadcastLobby(accepted, DropRipe(seen, rest), NoFrames) /\ jobs' = TakeDeferred(accepted, seen, rest)
      BY <1>6 DEF FinishValidation
    <2> HIDE DEF accepted
    <2> QED
      BY <1>1, <1>2, <1>4, <1>6, <2>1, AcceptedDone DEF accepted
  <1>7. CASE Valid(job) /\ ~job.found /\ job.cache
    <2>1. /\ down' = [down EXCEPT ![p] = Append(@, Frame(ask, Nothing))] /\ room' = room
          /\ seen' = DropRipe(begun, rest) /\ jobs' = TakeDeferred(room, begun, rest)
      BY <1>7 DEF FinishValidation
    <2>2. ask \in {"ModRequest", "MapRequest"}
      OBVIOUS
    <2>3. begun = [seen EXCEPT ![room.host] = k] /\ p = room.host
      BY <1>3, <1>5, <1>7
    <2>4. k = IF Head(jobs).mods THEN [seen[room.host] EXCEPT !.modReceive = job.digest]
              ELSE [seen[room.host] EXCEPT !.mapReceive = job.digest]
      OBVIOUS
    <2> HIDE DEF k, begun, ask
    <2> QED
      BY <1>1, <1>2, <1>5, <1>7, <2>1, <2>2, <2>3, <2>4, AskedDone
  <1>8. CASE Valid(job) /\ ~job.found /\ ~job.cache
    <2>1. /\ down' = [down EXCEPT ![p] = Append(@, Frame(fail, Nothing))] /\ room' = room
          /\ seen' = DropRipe(seen, rest) /\ jobs' = TakeDeferred(room, seen, rest)
      BY <1>8 DEF FinishValidation
    <2>2. fail \in {"ModError", "MapError"}
      OBVIOUS
    <2> HIDE DEF fail
    <2> QED
      BY <1>1, <1>2, <1>3, <1>8, <2>1, <2>2, FailedDone
  <1>9. CASE ~Valid(job)
    <2>1. Quietly /\ seen' = DropRipe(seen, rest) /\ jobs' = TakeDeferred(room, seen, rest)
      BY <1>9 DEF FinishValidation
    <2> QED
      BY <1>1, <2>1, DroppedDone
  <1> QED
    BY <1>6, <1>7, <1>8, <1>9

LEMMA ServerSendsDone ==
  ASSUME ServerWas, NEW p \in Players, ServerSendsMods(p) \/ ServerSendsMap(p)
  PROVE  ServerDone
  <1>1. /\ room \in Rooms /\ seen[p] \in Seen /\ jobs \in Seq(Jobs) /\ room' = room /\ jobs' = jobs
        /\ Membership(room, seen) /\ Offering(room, seen)
    BY DEF ServerWas, Typed, ServerInStep, ServerSendsMods, ServerSendsMap
  <1>2. seen[p].modSend # Nothing \/ seen[p].mapSend # Nothing => seen[p].here
    BY DEF Away, ServerWas, ServerInStep, Membership
  <1>3. CASE ServerSendsMods(p)
    <2> DEFINE k == [seen[p] EXCEPT !.modSend = Nothing]
               f == Frame("ModChunk", seen[p].modSend)
    <2>1. k \in Seen /\ seen' = [seen EXCEPT ![p] = k] /\ seen[p].here /\ seen[p].modSend # Nothing
      BY <1>1, <1>2, <1>3, PieceTypes DEF ServerSendsMods, Seen
    <2>2. seen' \in [Players -> Seen] /\ Within(room, seen, seen')
      BY <1>1, <2>1, OneChanged DEF Seen
    <2>3. seen[p].modSend = room.mods /\ seen[p].modSend \in Values
      BY <1>1, <2>1 DEF Offering, Seen
    <2>4. f \in DownFrames /\ Fresh(room', <<f>>)
      BY <1>1, <2>3, FrameTypes DEF Downward, Fresh, Offers
    <2>5. down' = [down EXCEPT ![p] = Append(@, f)]
      BY <1>3 DEF ServerSendsMods
    <2> HIDE DEF f
    <2>6. Sent
      <3>1. seen'[p].here
        BY <2>1, <2>2 DEF Within
      <3>2. Typed /\ room'.mods = room.mods /\ room'.map = room.map
        BY <1>1 DEF ServerWas
      <3> QED
        BY <2>4, <2>5, <3>1, <3>2, OneSent
    <2> QED
      BY <1>1, <2>2, <2>6, TameDone, SameJobs DEF ServerWas
  <1>4. CASE ServerSendsMap(p)
    <2> DEFINE k == [seen[p] EXCEPT !.mapSend = Nothing]
               f == Frame("MapChunk", seen[p].mapSend)
    <2>1. k \in Seen /\ seen' = [seen EXCEPT ![p] = k] /\ seen[p].here /\ seen[p].mapSend # Nothing
      BY <1>1, <1>2, <1>4, PieceTypes DEF ServerSendsMap, Seen
    <2>2. seen' \in [Players -> Seen] /\ Within(room, seen, seen')
      BY <1>1, <2>1, OneChanged DEF Seen
    <2>3. seen[p].mapSend = room.map /\ seen[p].mapSend \in Values /\ room.map # Nothing
      BY <1>1, <2>1 DEF Offering, Seen
    <2>4. f \in DownFrames /\ Fresh(room', <<f>>)
      BY <1>1, <2>3, FrameTypes DEF Downward, Fresh, Offers
    <2>5. down' = [down EXCEPT ![p] = Append(@, f)]
      BY <1>4 DEF ServerSendsMap
    <2> HIDE DEF f
    <2>6. Sent
      <3>1. seen'[p].here
        BY <2>1, <2>2 DEF Within
      <3>2. Typed /\ room'.mods = room.mods /\ room'.map = room.map
        BY <1>1 DEF ServerWas
      <3> QED
        BY <2>4, <2>5, <3>1, <3>2, OneSent
    <2> QED
      BY <1>1, <2>2, <2>6, TameDone, SameJobs DEF ServerWas
  <1> QED
    BY <1>3, <1>4

\* So the server's steps keep everybody in step.
LEMMA ServerKeepsInStep ==
  ASSUME IInv, ServerDone, mine' = mine, up' \in [Players -> Seq(UpFrames)],
         \A p \in Players : UpShorter(p)
  PROVE  IInv'
  <1>1. Typed'
    BY DEF IInv, Typed, ServerDone, Sent
  <1>2. PlayersInStep'
    <2>1. ASSUME NEW p \in Players PROVE PlayerInStep(p)'
      <3>1. PICK t : Posted(p, t)
        BY DEF ServerDone, Sent
      <3>2. room' \in Rooms /\ RoomStays /\ MemberStays(p) /\ UpShorter(p)
        BY DEF ServerDone
      <3> QED
        BY <3>1, <3>2, ServerStep
    <2> QED
      BY <2>1 DEF PlayersInStep
  <1>3. StartsAlike'
    BY DEF IInv, StartsAlike, ServerDone, RoomStays
  <1> QED
    BY <1>1, <1>2, <1>3 DEF IInv, ServerDone

-----------------------------------------------------------------------------
(* What a client makes of a frame.                                          *)

Sound(c) ==
  /\ c.mapReceive # Nothing => ~c.mapReady
  /\ c.mapReady => c.mapPackage # Nothing

\* What c becomes is ready with no more than c was.
NoMore(c, d) ==
  /\ d \in Mine /\ Sound(d)
  /\ d.modReady => c.modReady /\ d.modPackage = c.modPackage
  /\ d.mapReady => c.mapReady /\ d.mapPackage = c.mapPackage
  /\ d.at \in {"held", "started"} => d.at = c.at

UpWell(t) == t \in Seq(UpFrames) /\ \A i \in DOMAIN t : t[i].kind # "Leave"

\* After reading f, client c is ready with what it was ready with or with what
\* f brought, and starts when it has both.
ReadsWell(c, f, r) ==
  LET d == r.client
  IN  /\ d \in Mine /\ Sound(d) /\ UpWell(r.sends)
      /\ d.modReady =>
           \/ c.modReady /\ d.modPackage = c.modPackage /\ f.kind # "ModOffer"
           \/ f.kind \in {"ModOffer", "ModChunk"} /\ d.modPackage = f.digest
      /\ d.mapReady =>
           \/ c.mapReady /\ d.mapPackage = c.mapPackage /\ f.kind # "MapOffer"
           \/ f.kind \in {"MapOffer", "MapChunk"} /\ d.mapPackage = f.digest
      /\ d.at = "held" => c.at = "held" \/ f.kind = "GameStarting"
      /\ d.at = "started" => /\ d.modReady /\ d.mapReady
                             /\ c.at = "held" \/ f.kind = "GameStarting"
      /\ d.at # "left"

LEMMA NoneUp == UpWell(<<>>)
  BY EmptySeq DEF UpWell

LEMMA OneUp ==
  ASSUME NEW kind \in Plain \ {"Leave"}, NEW d \in Values
  PROVE  UpWell(<<Frame(kind, d)>>)
  <1>1. Frame(kind, d) \in UpFrames /\ Frame(kind, d).kind = kind
    BY FrameTypes
  <1> HIDE DEF Plain
  <1>2. <<Frame(kind, d)>> \in Seq(UpFrames)
    BY <1>1, OneFrame
  <1> QED
    BY <1>1, <1>2 DEF UpWell

LEMMA UpJoined ==
  ASSUME NEW q \in Seq(UpFrames), NEW t \in Seq(UpFrames), NEW i \in DOMAIN (q \o t)
  PROVE  \/ \E k \in DOMAIN q : q[k] = (q \o t)[i]
         \/ \E k \in DOMAIN t : t[k] = (q \o t)[i]
  <1>1. Occurs((q \o t)[i], q \o t)
    BY DEF Occurs
  <1> QED
    BY <1>1, OccursJoined DEF Occurs

LEMMA UpWellJoined ==
  ASSUME NEW q, NEW t, UpWell(q), UpWell(t)
  PROVE  UpWell(q \o t)
  <1>1. q \o t \in Seq(UpFrames)
    BY Joined DEF UpWell
  <1> QED
    BY <1>1, UpJoined DEF UpWell

\* A frame that is no offer and brings nothing.
LEMMA NoMoreReads ==
  ASSUME NEW c \in Mine, c.at \notin {"left", "started"}, NEW f, f.kind \notin Offers,
         NEW r, NoMore(c, r.client), UpWell(r.sends), r.client.at # "left"
  PROVE  ReadsWell(c, f, r)
  BY DEF ReadsWell, NoMore, Offers

LEMMA OffersMods ==
  ASSUME NEW c \in Mine, Sound(c), c.at \notin {"left", "started"}
  PROVE  LET r == OfferMods(c)
         IN  NoMore(c, r.client) /\ UpWell(r.sends) /\ r.client.at = c.at
  <1> DEFINE d == [c EXCEPT !.pending = FALSE, !.mapsReady = FALSE, !.modOffered = TRUE,
                            !.modReady = FALSE, !.mapPackage = Nothing, !.mapOffered = FALSE,
                            !.mapReady = FALSE, !.modPackage = c.ticks]
             r == OfferMods(c)
  <1>1. c.ticks \in Values /\ Nothing \in Values
    BY PieceTypes DEF Mine
  <1>2. r.client = d /\ r.sends = <<Frame("ModOffer", c.ticks)>>
    BY DEF OfferMods, Result
  <1>3. UpWell(r.sends)
    BY <1>1, <1>2, OneUp DEF Plain
  <1>4. d \in Mine
    BY <1>1 DEF Mine
  <1>5. ~d.modReady /\ ~d.mapReady /\ d.at = c.at
    BY DEF Mine
  <1> HIDE DEF d
  <1>6. NoMore(c, d)
    BY <1>4, <1>5 DEF NoMore, Sound
  <1> QED
    BY <1>2, <1>3, <1>5, <1>6

LEMMA OffersMap ==
  ASSUME NEW c \in Mine, Sound(c), c.at \notin {"left", "started"}
  PROVE  LET r == OfferMap(c)
         IN  NoMore(c, r.client) /\ UpWell(r.sends) /\ r.client.at = c.at
  <1> DEFINE map == IF c.mapPackage = Nothing THEN MapOf[c.ticks] ELSE c.mapPackage
             d == [c EXCEPT !.mapPackage = map, !.mapOffered = TRUE]
             r == OfferMap(c)
  <1>1. c.ticks \in Packs /\ MapOf[c.ticks] \in Maps
    BY DEF Mine, Maps
  <1>2. map \in Values /\ (c.mapReady => map = c.mapPackage)
    BY <1>1, PieceTypes DEF Mine, Sound
  <1>3. r.client = d /\ r.sends = <<Frame("MapOffer", map)>>
    BY DEF OfferMap, Result
  <1> HIDE DEF map
  <1>4. UpWell(r.sends)
    BY <1>2, <1>3, OneUp DEF Plain
  <1>5. NoMore(c, d) /\ d.at = c.at
    BY <1>2 DEF NoMore, Sound, Mine
  <1> QED
    BY <1>3, <1>4, <1>5

LEMMA ReadsLobbyState ==
  ASSUME NEW p \in Players, NEW c \in Mine, Sound(c), c.at \notin {"left", "started"},
         NEW f \in DownFrames, f.kind = "LobbyState"
  PROVE  ReadsWell(c, f, ReadLobbyState(p, c, f))
  <1> DEFINE told == [c EXCEPT !.at = IF @ = "held" THEN "held" ELSE "room", !.host = f.host, !.mapsReady = f.ready]
             mods == IF f.host = p /\ ~c.modOffered THEN OfferMods(told) ELSE Result(told, <<>>)
             map == IF f.host = p /\ ~mods.client.mapOffered THEN OfferMap(mods.client)
                    ELSE Result(mods.client, <<>>)
             r == ReadLobbyState(p, c, f)
  <1>1. f.host \in Optional(Players) /\ f.ready \in BOOLEAN
    BY DEF DownFrames, Downward
  <1>2. NoMore(c, told) /\ told.at \in {"room", "held"}
    BY <1>1 DEF NoMore, Sound, Mine
  <1>3. told \in Mine /\ Sound(told)
    BY <1>2 DEF NoMore
  <1> HIDE DEF told
  <1>4. NoMore(told, mods.client) /\ UpWell(mods.sends) /\ mods.client.at \in {"room", "held"}
    <2>1. CASE f.host = p /\ ~c.modOffered
      BY <1>2, <1>3, <2>1, OffersMods
    <2>2. CASE ~(f.host = p /\ ~c.modOffered)
      BY <1>2, <1>3, <2>2, NoneUp DEF Result, NoMore
    <2> QED
      BY <2>1, <2>2
  <1> HIDE DEF mods
  <1>5. mods.client \in Mine /\ Sound(mods.client)
    BY <1>4 DEF NoMore
  <1>6. NoMore(mods.client, map.client) /\ UpWell(map.sends) /\ map.client.at \in {"room", "held"}
    <2>1. CASE f.host = p /\ ~mods.client.mapOffered
      BY <1>4, <1>5, <2>1, OffersMap
    <2>2. CASE ~(f.host = p /\ ~mods.client.mapOffered)
      BY <1>4, <1>5, <2>2, NoneUp DEF Result, NoMore
    <2> QED
      BY <2>1, <2>2
  <1>7. r.client = map.client /\ r.sends = mods.sends \o map.sends
    BY DEF ReadLobbyState, Result, map, mods, told
  <1> HIDE DEF map
  <1>8. NoMore(c, map.client)
    BY <1>2, <1>4, <1>6 DEF NoMore
  <1>9. UpWell(r.sends)
    BY <1>4, <1>6, <1>7, UpWellJoined
  <1> HIDE DEF r
  <1> QED
    BY <1>6, <1>7, <1>8, <1>9, NoMoreReads DEF Offers, r

LEMMA AcceptsMods ==
  ASSUME NEW c \in Mine, Sound(c), c.at \notin {"left", "started"}, NEW e \in Mine,
         e \in {c, [c EXCEPT !.modReceive = e.modReceive, !.modReady = FALSE]},
         NEW f, f.digest \in Values, f.kind \in {"ModOffer", "ModChunk"}
  PROVE  ReadsWell(c, f, AcceptMods(e, f.digest))
  <1> DEFINE g == [e EXCEPT !.modPackage = f.digest, !.modReceive = Nothing, !.modReady = TRUE,
                            !.has = @ \cup {f.digest}]
             d == Starts(g)
  <1>1. /\ e.at = c.at /\ e.mapReady = c.mapReady /\ e.mapPackage = c.mapPackage
        /\ e.mapReceive = c.mapReceive
    BY DEF Mine
  <1>2. /\ g \in Mine /\ g.at = c.at /\ g.mapReady = c.mapReady /\ g.mapPackage = c.mapPackage
        /\ g.mapReceive = c.mapReceive /\ g.modReady /\ g.modPackage = f.digest
    BY <1>1, PieceTypes DEF Mine
  <1> HIDE DEF g
  <1>3. /\ d \in Mine /\ d.mapReady = c.mapReady /\ d.mapPackage = c.mapPackage
        /\ d.mapReceive = c.mapReceive /\ d.modReady /\ d.modPackage = f.digest
        /\ d.at = c.at \/ (d.at = "started" /\ c.at = "held" /\ d.mapReady)
    BY <1>2 DEF Starts, Mine
  <1>4. AcceptMods(e, f.digest) = Result(d, <<Frame("ModReady", f.digest)>>)
    BY DEF AcceptMods, g
  <1>5. UpWell(<<Frame("ModReady", f.digest)>>)
    BY OneUp DEF Plain
  <1> HIDE DEF d
  <1>6. Sound(d)
    BY <1>3 DEF Sound
  <1> QED
    BY <1>3, <1>4, <1>5, <1>6 DEF ReadsWell, Result

LEMMA AcceptsMap ==
  ASSUME NEW c \in Mine, Sound(c), c.at \notin {"left", "started"}, NEW e \in Mine,
         e \in {c, [c EXCEPT !.mapReady = FALSE, !.mapReceive = e.mapReceive]},
         NEW f, f.digest \in Values \ {Nothing}, f.kind \in {"MapOffer", "MapChunk"}
  PROVE  ReadsWell(c, f, AcceptMap(e, f.digest))
  <1> DEFINE g == [e EXCEPT !.mapPackage = f.digest, !.mapReceive = Nothing, !.mapReady = TRUE,
                            !.has = @ \cup {f.digest}]
             d == Starts(g)
  <1>1. /\ e.at = c.at /\ e.modReady = c.modReady /\ e.modPackage = c.modPackage
    BY DEF Mine
  <1>2. /\ g \in Mine /\ g.at = c.at /\ g.modReady = c.modReady /\ g.modPackage = c.modPackage
        /\ g.mapReceive = Nothing /\ g.mapReady /\ g.mapPackage = f.digest
    BY <1>1, PieceTypes DEF Mine
  <1> HIDE DEF g
  <1>3. /\ d \in Mine /\ d.modReady = c.modReady /\ d.modPackage = c.modPackage
        /\ d.mapReceive = Nothing /\ d.mapReady /\ d.mapPackage = f.digest
        /\ d.at = c.at \/ (d.at = "started" /\ c.at = "held" /\ d.modReady)
    BY <1>2 DEF Starts, Mine
  <1>4. AcceptMap(e, f.digest) = Result(d, <<Frame("MapReady", f.digest)>>)
    BY DEF AcceptMap, g
  <1>5. UpWell(<<Frame("MapReady", f.digest)>>)
    BY OneUp DEF Plain
  <1> HIDE DEF d
  <1>6. Sound(d)
    BY <1>3 DEF Sound
  <1> QED
    BY <1>3, <1>4, <1>5, <1>6 DEF ReadsWell, Result

LEMMA ReadsModOffer ==
  ASSUME NEW c \in Mine, Sound(c), c.at \notin {"left", "started"},
         NEW f \in DownFrames, f.kind = "ModOffer"
  PROVE  ReadsWell(c, f, ReadModOffer(c, f))
  <1> DEFINE told == [c EXCEPT !.modReceive = f.digest, !.modReady = FALSE]
  <1>1. f.digest \in Values
    BY DEF DownFrames
  <1>2. /\ told \in Mine /\ told = [c EXCEPT !.modReceive = told.modReceive, !.modReady = FALSE]
        /\ ~told.modReady /\ told.mapReady = c.mapReady /\ told.mapPackage = c.mapPackage
        /\ told.mapReceive = c.mapReceive /\ told.at = c.at
    BY <1>1 DEF Mine
  <1>3. CASE c.modPackage = f.digest \/ f.digest \in c.has
    <2>1. ReadModOffer(c, f) = AcceptMods(told, f.digest)
      BY <1>3 DEF ReadModOffer
    <2> HIDE DEF told
    <2>2. told \in {c, [c EXCEPT !.modReceive = told.modReceive, !.modReady = FALSE]}
      BY <1>2
    <2>3. told \in Mine /\ f.kind \in {"ModOffer", "ModChunk"}
      BY <1>2
    <2>4. ReadsWell(c, f, AcceptMods(told, f.digest))
      BY <1>1, <2>2, <2>3, AcceptsMods
    <2> QED
      BY <2>1, <2>4
  <1>4. CASE ~(c.modPackage = f.digest \/ f.digest \in c.has)
    <2>1. ReadModOffer(c, f) = Result(told, <<Frame("ModRequest", f.digest)>>)
      BY <1>4 DEF ReadModOffer
    <2>2. UpWell(<<Frame("ModRequest", f.digest)>>)
      BY <1>1, OneUp DEF Plain
    <2> HIDE DEF told
    <2> QED
      BY <1>2, <2>1, <2>2 DEF ReadsWell, Result, Sound
  <1> QED
    BY <1>3, <1>4

LEMMA ReadsMapOffer ==
  ASSUME NEW c \in Mine, Sound(c), c.at \notin {"left", "started"},
         NEW f \in DownFrames, f.kind = "MapOffer", f.digest # Nothing
  PROVE  ReadsWell(c, f, ReadMapOffer(c, f))
  <1> DEFINE told == [c EXCEPT !.mapReady = FALSE, !.mapReceive = f.digest]
  <1>1. f.digest \in Values
    BY DEF DownFrames
  <1>2. /\ told \in Mine /\ told = [c EXCEPT !.mapReady = FALSE, !.mapReceive = told.mapReceive]
        /\ ~told.mapReady /\ told.modReady = c.modReady /\ told.modPackage = c.modPackage
        /\ told.at = c.at
    BY <1>1 DEF Mine
  <1>3. CASE c.mapReceive = f.digest
    <2>1. ReadMapOffer(c, f) = Result(c, <<>>)
      BY <1>3 DEF ReadMapOffer
    <2>2. ~c.mapReady
      BY <1>3 DEF Sound
    <2> QED
      BY <2>1, <2>2, NoneUp DEF ReadsWell, Result
  <1>4. CASE c.mapReceive # f.digest /\ c.mapPackage = f.digest
    BY <1>1, <1>4, AcceptsMap DEF ReadMapOffer
  <1>5. CASE c.mapReceive # f.digest /\ c.mapPackage # f.digest /\ f.digest \in c.has
    <2>1. ReadMapOffer(c, f) = AcceptMap(told, f.digest)
      BY <1>5 DEF ReadMapOffer
    <2> HIDE DEF told
    <2>2. told \in {c, [c EXCEPT !.mapReady = FALSE, !.mapReceive = told.mapReceive]}
      BY <1>2
    <2>3. told \in Mine /\ f.kind \in {"MapOffer", "MapChunk"} /\ f.digest \in Values \ {Nothing}
      BY <1>1, <1>2
    <2>4. ReadsWell(c, f, AcceptMap(told, f.digest))
      BY <2>2, <2>3, AcceptsMap
    <2> QED
      BY <2>1, <2>4
  <1>6. CASE c.mapReceive # f.digest /\ c.mapPackage # f.digest /\ f.digest \notin c.has
    <2>1. ReadMapOffer(c, f) = Result(told, <<Frame("MapRequest", Nothing)>>)
      BY <1>6 DEF ReadMapOffer
    <2>2. UpWell(<<Frame("MapRequest", Nothing)>>)
      BY OneUp, PieceTypes DEF Plain
    <2> HIDE DEF told
    <2> QED
      BY <1>2, <2>1, <2>2 DEF ReadsWell, Result, Sound
  <1> QED
    BY <1>3, <1>4, <1>5, <1>6

LEMMA ReadsChunks ==
  ASSUME NEW c \in Mine, Sound(c), c.at \notin {"left", "started"}, NEW f \in DownFrames
  PROVE  /\ f.kind = "ModChunk" => ReadsWell(c, f, ReadModChunk(c, f))
         /\ f.kind = "MapChunk" => ReadsWell(c, f, ReadMapChunk(c, f))
  <1>1. CASE f.kind = "ModChunk"
    <2>1. f.digest \in Values
      BY <1>1 DEF DownFrames
    <2>2. CASE c.modReceive = Nothing \/ c.modReceive # f.digest
      <3> DEFINE d == [c EXCEPT !.modReceive = Nothing, !.modSend = Nothing, !.modReady = FALSE]
      <3>1. NoMore(c, d) /\ d.at = c.at
        BY PieceTypes DEF NoMore, Sound, Mine
      <3>2. ReadModChunk(c, f) = Result(d, <<Frame("ModError", Nothing)>>)
        BY <2>2 DEF ReadModChunk, ModsFail
      <3>3. UpWell(<<Frame("ModError", Nothing)>>)
        BY OneUp, PieceTypes DEF Plain
      <3> HIDE DEF d
      <3> QED
        BY <1>1, <3>1, <3>2, <3>3, NoMoreReads DEF Result, Offers
    <2>3. CASE ~(c.modReceive = Nothing \/ c.modReceive # f.digest)
      <3>1. ReadModChunk(c, f) = AcceptMods(c, f.digest)
        BY <2>3 DEF ReadModChunk
      <3>2. ReadsWell(c, f, AcceptMods(c, f.digest))
        BY <1>1, <2>1, AcceptsMods
      <3> QED
        BY <1>1, <3>1, <3>2
    <2> QED
      BY <2>2, <2>3
  <1>2. CASE f.kind = "MapChunk"
    <2>1. f.digest \in Values
      BY <1>2 DEF DownFrames
    <2>2. CASE c.mapReceive = Nothing
      <3>1. ReadMapChunk(c, f) = Result(c, <<>>) /\ NoMore(c, c)
        BY <2>2 DEF ReadMapChunk, NoMore
      <3> QED
        BY <1>2, <3>1, NoneUp, NoMoreReads DEF Result, Offers
    <2>3. CASE c.mapReceive # Nothing /\ c.mapReceive # f.digest
      <3> DEFINE d == [c EXCEPT !.mapReceive = Nothing, !.mapSend = Nothing, !.mapReady = FALSE]
      <3>1. NoMore(c, d) /\ d.at = c.at
        BY PieceTypes DEF NoMore, Sound, Mine
      <3>2. ReadMapChunk(c, f) = Result(d, <<Frame("MapError", Nothing)>>)
        BY <2>3 DEF ReadMapChunk, MapFailsHere
      <3>3. UpWell(<<Frame("MapError", Nothing)>>)
        BY OneUp, PieceTypes DEF Plain
      <3> HIDE DEF d
      <3> QED
        BY <1>2, <3>1, <3>2, <3>3, NoMoreReads DEF Result, Offers
    <2>4. CASE c.mapReceive # Nothing /\ c.mapReceive = f.digest
      <3>1. ReadMapChunk(c, f) = AcceptMap(c, f.digest)
        BY <2>4 DEF ReadMapChunk
      <3>2. ReadsWell(c, f, AcceptMap(c, f.digest))
        BY <1>2, <2>1, <2>4, AcceptsMap
      <3> QED
        BY <1>2, <3>1, <3>2
    <2> QED
      BY <2>2, <2>3, <2>4
  <1> QED
    BY <1>1, <1>2

LEMMA ReadsRequests ==
  ASSUME NEW p \in Players, NEW c \in Mine, Sound(c), c.at \notin {"left", "started"}, NEW f \in DownFrames
  PROVE  /\ f.kind = "ModRequest" => ReadsWell(c, f, ReadModRequest(p, c))
         /\ f.kind = "MapRequest" => ReadsWell(c, f, ReadMapRequest(p, c))
  <1>1. CASE f.kind = "ModRequest"
    <2>1. CASE c.host # p \/ c.modPackage = Nothing \/ c.modSend # Nothing
      <3> DEFINE d == [c EXCEPT !.modReceive = Nothing, !.modSend = Nothing, !.modReady = FALSE]
      <3>1. NoMore(c, d) /\ d.at = c.at
        BY PieceTypes DEF NoMore, Sound, Mine
      <3>2. ReadModRequest(p, c) = Result(d, <<Frame("ModError", Nothing)>>)
        BY <2>1 DEF ReadModRequest, ModsFail
      <3>3. UpWell(<<Frame("ModError", Nothing)>>)
        BY OneUp, PieceTypes DEF Plain
      <3> HIDE DEF d
      <3> QED
        BY <1>1, <3>1, <3>2, <3>3, NoMoreReads DEF Result, Offers
    <2>2. CASE ~(c.host # p \/ c.modPackage = Nothing \/ c.modSend # Nothing)
      <3> DEFINE d == [c EXCEPT !.modSend = c.modPackage]
      <3>1. NoMore(c, d) /\ d.at = c.at
        BY DEF NoMore, Sound, Mine
      <3>2. ReadModRequest(p, c) = Result(d, <<>>)
        BY <2>2 DEF ReadModRequest
      <3> HIDE DEF d
      <3> QED
        BY <1>1, <3>1, <3>2, NoneUp, NoMoreReads DEF Result, Offers
    <2> QED
      BY <2>1, <2>2
  <1>2. CASE f.kind = "MapRequest"
    <2>1. CASE c.host # p \/ c.mapPackage = Nothing \/ c.mapSend # Nothing
      <3> DEFINE d == [c EXCEPT !.mapReceive = Nothing, !.mapSend = Nothing, !.mapReady = FALSE]
      <3>1. NoMore(c, d) /\ d.at = c.at
        BY PieceTypes DEF NoMore, Sound, Mine
      <3>2. ReadMapRequest(p, c) = Result(d, <<Frame("MapError", Nothing)>>)
        BY <2>1 DEF ReadMapRequest, MapFailsHere
      <3>3. UpWell(<<Frame("MapError", Nothing)>>)
        BY OneUp, PieceTypes DEF Plain
      <3> HIDE DEF d
      <3> QED
        BY <1>2, <3>1, <3>2, <3>3, NoMoreReads DEF Result, Offers
    <2>2. CASE ~(c.host # p \/ c.mapPackage = Nothing \/ c.mapSend # Nothing)
      <3> DEFINE d == [c EXCEPT !.mapSend = c.mapPackage]
      <3>1. NoMore(c, d) /\ d.at = c.at
        BY DEF NoMore, Sound, Mine
      <3>2. ReadMapRequest(p, c) = Result(d, <<>>)
        BY <2>2 DEF ReadMapRequest
      <3> HIDE DEF d
      <3> QED
        BY <1>2, <3>1, <3>2, NoneUp, NoMoreReads DEF Result, Offers
    <2> QED
      BY <2>1, <2>2
  <1> QED
    BY <1>1, <1>2

LEMMA ReadsTheRest ==
  ASSUME NEW c \in Mine, Sound(c), c.at \notin {"left", "started"}, NEW f \in DownFrames
  PROVE  /\ f.kind = "ModError" =>
              ReadsWell(c, f, Result([c EXCEPT !.modReceive = Nothing, !.modSend = Nothing, !.modReady = FALSE], <<>>))
         /\ f.kind = "MapError" => ReadsWell(c, f, Result([c EXCEPT !.startSent = FALSE], <<>>))
         /\ f.kind = "GameStarting" => ReadsWell(c, f, ReadGameStarting(c))
  <1>1. ASSUME f.kind = "ModError"
        PROVE  ReadsWell(c, f, Result([c EXCEPT !.modReceive = Nothing, !.modSend = Nothing, !.modReady = FALSE], <<>>))
    <2> DEFINE d == [c EXCEPT !.modReceive = Nothing, !.modSend = Nothing, !.modReady = FALSE]
    <2>1. NoMore(c, d) /\ d.at = c.at
      BY PieceTypes DEF NoMore, Sound, Mine
    <2> HIDE DEF d
    <2>2. ReadsWell(c, f, Result(d, <<>>))
      BY <1>1, <2>1, NoneUp, NoMoreReads DEF Result, Offers
    <2> QED
      BY <2>2 DEF d
  <1>2. ASSUME f.kind = "MapError"
        PROVE  ReadsWell(c, f, Result([c EXCEPT !.startSent = FALSE], <<>>))
    <2> DEFINE d == [c EXCEPT !.startSent = FALSE]
    <2>1. NoMore(c, d) /\ d.at = c.at
      BY DEF NoMore, Sound, Mine
    <2> HIDE DEF d
    <2>2. ReadsWell(c, f, Result(d, <<>>))
      BY <1>2, <2>1, NoneUp, NoMoreReads DEF Result, Offers
    <2> QED
      BY <2>2 DEF d
  <1>3. ASSUME f.kind = "GameStarting" PROVE ReadsWell(c, f, ReadGameStarting(c))
    <2> DEFINE d == [c EXCEPT !.at = IF c.modReady /\ c.mapReady THEN "started" ELSE "held",
                              !.startSent = IF c.modReady /\ c.mapReady THEN FALSE ELSE @]
    <2>1. /\ d \in Mine /\ d.mapReceive = c.mapReceive
          /\ d.modReady = c.modReady /\ d.modPackage = c.modPackage
          /\ d.mapReady = c.mapReady /\ d.mapPackage = c.mapPackage
          /\ d.at = IF c.modReady /\ c.mapReady THEN "started" ELSE "held"
      BY DEF Mine
    <2>2. ReadGameStarting(c) = Result(d, <<>>)
      BY DEF ReadGameStarting
    <2> HIDE DEF d
    <2> QED
      BY <1>3, <2>1, <2>2, NoneUp DEF ReadsWell, Result, Sound
  <1> QED
    BY <1>1, <1>2, <1>3

LEMMA ReadsAnything ==
  ASSUME NEW p \in Players, NEW c \in Mine, Sound(c), c.at \notin {"left", "started"},
         NEW f \in DownFrames, f.kind = "MapOffer" => f.digest # Nothing
  PROVE  ReadsWell(c, f, Reads(p, c, f))
  <1>1. f.kind \in Downward \cup {"LobbyState"}
    BY DEF DownFrames
  <1>2. CASE f.kind = "LobbyState"
    BY <1>2, ReadsLobbyState DEF Reads
  <1>3. CASE f.kind = "ModOffer"
    BY <1>3, ReadsModOffer DEF Reads
  <1>4. CASE f.kind = "MapOffer"
    BY <1>4, ReadsMapOffer DEF Reads
  <1>5. CASE f.kind = "ModRequest"
    BY <1>5, ReadsRequests DEF Reads
  <1>6. CASE f.kind = "MapRequest"
    BY <1>6, ReadsRequests DEF Reads
  <1>7. CASE f.kind = "ModChunk"
    BY <1>7, ReadsChunks DEF Reads
  <1>8. CASE f.kind = "MapChunk"
    BY <1>8, ReadsChunks DEF Reads
  <1>9. CASE f.kind = "ModError"
    BY <1>9, ReadsTheRest DEF Reads
  <1>10. CASE f.kind = "MapError"
    BY <1>10, ReadsTheRest DEF Reads
  <1>11. CASE f.kind = "GameStarting"
    BY <1>11, ReadsTheRest DEF Reads
  <1> QED
    BY <1>1, <1>2, <1>3, <1>4, <1>5, <1>6, <1>7, <1>8, <1>9, <1>10, <1>11 DEF Downward

-----------------------------------------------------------------------------
(* The steps of a client.                                                   *)

LEMMA ClientAlone ==
  ASSUME IInv, NEW p \in Players, UNCHANGED <<room, seen, jobs>>,
         NEW c \in Mine, mine' = [mine EXCEPT ![p] = c],
         up' \in [Players -> Seq(UpFrames)], down' \in [Players -> Seq(DownFrames)],
         \A q \in Players : q # p => up'[q] = up[q] /\ down'[q] = down[q],
         PlayerInStep(p)',
         c.at = "started" => room.running /\ c.modPackage = room.mods /\ c.mapPackage = room.map
  PROVE  IInv'
  <1>1. mine \in [Players -> Mine]
    BY DEF IInv, Typed
  <1>2. mine' \in [Players -> Mine] /\ mine'[p] = c /\ \A q \in Players : q # p => mine'[q] = mine[q]
    BY <1>1
  <1>3. Typed'
    BY <1>2 DEF IInv, Typed
  <1>4. ServerInStep(room', seen', jobs')
    BY DEF IInv
  <1>5. ASSUME NEW q \in Players PROVE PlayerInStep(q)'
    <2>1. CASE q # p
      <3>1. PlayerInStep(q) /\ mine'[q] = mine[q] /\ up'[q] = up[q] /\ down'[q] = down[q]
        BY <1>2, <2>1 DEF IInv, PlayersInStep
      <3> QED
        BY <3>1 DEF PlayerInStep, InOrder, Starting, ClientInStep
    <2> QED
      BY <2>1
  <1>6. StartsAlike'
    BY <1>2 DEF IInv, StartsAlike
  <1> QED
    BY <1>3, <1>4, <1>5, <1>6 DEF IInv, PlayersInStep

\* What it does of its own accord.
LEMMA OwnStep ==
  ASSUME IInv, NEW p \in Players, Followed(p), NEW c, NoMore(mine[p], c),
         NEW frames, Sends(p, c, frames), UpWell(frames) \/ (c.at = "left" /\ frames \in Seq(UpFrames))
  PROVE  IInv'
  <1>1. /\ mine[p].at \notin {"left", "started"} /\ c \in Mine /\ mine'[p] = c
        /\ mine' = [mine EXCEPT ![p] = c] /\ UNCHANGED <<room, seen, jobs, down>>
        /\ frames \in Seq(UpFrames) /\ up[p] \in Seq(UpFrames) /\ up'[p] = up[p] \o frames
        /\ up' = [up EXCEPT ![p] = up[p] \o frames]
    BY DEF IInv, Typed, Followed, NoMore, Sends, UpWell
  <1>2. up[p] \o frames \in Seq(UpFrames)
    BY <1>1, Joined
  <1>3. up' \in [Players -> Seq(UpFrames)] /\ \A q \in Players : q # p => up'[q] = up[q]
    BY <1>1, <1>2 DEF IInv, Typed
  <1>4. PlayerInStep(p)
    BY DEF IInv, PlayersInStep
  <1>5. InOrder(p) /\ Starting(p) /\ ClientInStep(p)
    BY <1>1, <1>4 DEF PlayerInStep
  <1>6. InOrder(p)'
    BY <1>1, <1>5 DEF InOrder, NoMore
  <1>7. Starting(p)'
    BY <1>1, <1>5 DEF Starting, NoMore
  <1>8. ClientInStep(p)'
    <2>1. ASSUME NEW i \in DOMAIN up'[p], up'[p][i].kind = "Leave" PROVE c.at = "left"
      <3>1. \A k \in DOMAIN up[p] : up[p][k].kind # "Leave"
        BY <1>1, <1>5 DEF ClientInStep
      <3>2. UpWell(frames) => \A k \in DOMAIN frames : frames[k].kind # "Leave"
        BY DEF UpWell
      <3> QED
        BY <1>1, <2>1, <3>1, <3>2, UpJoined
    <2> QED
      BY <1>1, <1>5, <2>1 DEF ClientInStep, NoMore, Sound
  <1>9. PlayerInStep(p)'
    BY <1>6, <1>7, <1>8 DEF PlayerInStep
  <1>10. c.at # "started"
    BY <1>1 DEF NoMore
  <1> QED
    BY <1>1, <1>3, <1>9, <1>10, ClientAlone DEF IInv, Typed

\* A frame it reads, of those on their way to it ...
LEMMA FollowedReads ==
  ASSUME IInv, NEW p \in Players, ClientReads(p), Followed(p)
  PROVE  IInv'
  <1> DEFINE q == down[p]
             f == Head(q)
             w == Tail(q)
             m == mine[p]
             r == Reads(p, m, f)
             c == r.client
  <1>1. /\ q \in Seq(DownFrames) /\ q # <<>> /\ m \in Mine /\ m.at \notin {"left", "started"}
        /\ mine' = [mine EXCEPT ![p] = c] /\ mine \in [Players -> Mine]
        /\ up' = [up EXCEPT ![p] = up[p] \o r.sends] /\ up \in [Players -> Seq(UpFrames)]
        /\ down' = [down EXCEPT ![p] = w] /\ down \in [Players -> Seq(DownFrames)]
        /\ UNCHANGED <<room, seen, jobs>> /\ room \in Rooms
    BY DEF IInv, Typed, ClientReads, Followed
  <1>2. /\ w \in Seq(DownFrames) /\ f \in DownFrames /\ f = q[1] /\ 1 \in DOMAIN q
        /\ \A i \in DOMAIN w : i \in Nat /\ i + 1 \in DOMAIN q /\ w[i] = q[i + 1]
    BY <1>1, Shorter
  <1>3. InOrder(p) /\ Starting(p) /\ ClientInStep(p)
    BY <1>1 DEF IInv, PlayersInStep, PlayerInStep
  <1>4. Sound(m) /\ (f.kind = "MapOffer" => f.digest # Nothing)
    BY <1>2, <1>3 DEF ClientInStep, Sound
  <1>5. ReadsWell(m, f, r)
    BY <1>1, <1>2, <1>4, ReadsAnything
  <1>6. mine'[p] = c /\ down'[p] = w /\ up'[p] = up[p] \o r.sends
    BY <1>1
  <1>7. /\ r.sends \in Seq(UpFrames) /\ c \in Mine /\ up[p] \o r.sends \in Seq(UpFrames)
    BY <1>1, <1>5, Joined DEF ReadsWell, UpWell
  <1> HIDE DEF f, w, r, q, m
  <1>8. InOrder(p)'
    <2>1. ASSUME room.mods # Nothing
          PROVE  /\ Covered(w, "ModOffer", "ModChunk", room.mods)
                 /\ c.modReady => c.modPackage = room.mods \/ Ahead(w, "ModOffer", room.mods)
      <3>1. /\ Covered(q, "ModOffer", "ModChunk", room.mods)
            /\ m.modReady => m.modPackage = room.mods \/ Ahead(q, "ModOffer", room.mods)
        BY <1>3, <2>1 DEF InOrder, q, m
      <3>2. /\ Covered(w, "ModOffer", "ModChunk", room.mods)
            /\ f.kind \in {"ModOffer", "ModChunk"} /\ f.digest # room.mods => Ahead(w, "ModOffer", room.mods)
            /\ Ahead(q, "ModOffer", room.mods) =>
                 Ahead(w, "ModOffer", room.mods) \/ (f.kind = "ModOffer" /\ f.digest = room.mods)
        BY <1>1, <3>1, CoveredTail DEF w, f
      <3> QED
        BY <1>5, <3>1, <3>2 DEF ReadsWell
    <2>2. ASSUME room.map # Nothing
          PROVE  /\ Covered(w, "MapOffer", "MapChunk", room.map)
                 /\ c.mapReady => c.mapPackage = room.map \/ Ahead(w, "MapOffer", room.map)
      <3>1. /\ Covered(q, "MapOffer", "MapChunk", room.map)
            /\ m.mapReady => m.mapPackage = room.map \/ Ahead(q, "MapOffer", room.map)
        BY <1>3, <2>2 DEF InOrder, q, m
      <3>2. /\ Covered(w, "MapOffer", "MapChunk", room.map)
            /\ f.kind \in {"MapOffer", "MapChunk"} /\ f.digest # room.map => Ahead(w, "MapOffer", room.map)
            /\ Ahead(q, "MapOffer", room.map) =>
                 Ahead(w, "MapOffer", room.map) \/ (f.kind = "MapOffer" /\ f.digest = room.map)
        BY <1>1, <3>1, CoveredTail DEF w, f
      <3> QED
        BY <1>5, <3>1, <3>2 DEF ReadsWell
    <2> QED
      BY <1>1, <1>6, <2>1, <2>2 DEF InOrder
  <1>9. f.kind = "GameStarting" => room.running /\ \A i \in DOMAIN w : w[i].kind \notin Offers
    <2>1. NoOfferAfter(q)
      BY <1>3 DEF Starting, q
    <2>2. f.kind = "GameStarting" => room.running
      BY <1>1, <1>2, <1>3 DEF Starting, q, Rooms
    <2> QED
      BY <1>1, <2>1, <2>2, OfferAfterTail DEF w, f
  <1>10. c.at \in {"held", "started"} => room.running /\ \A i \in DOMAIN w : w[i].kind \notin Offers
    <2>1. ASSUME m.at = "held" PROVE room.running /\ \A i \in DOMAIN w : w[i].kind \notin Offers
      BY <1>2, <1>3, <2>1 DEF Starting, q, m
    <2> QED
      BY <1>5, <1>9, <2>1 DEF ReadsWell
  <1>11. Starting(p)'
    <2>1. NoOfferAfter(w)
      BY <1>1, <1>3, OfferAfterTail DEF Starting, w, q
    <2>2. ~room.running => \A i \in DOMAIN w : w[i].kind # "GameStarting"
      BY <1>2, <1>3 DEF Starting, q
    <2> QED
      BY <1>1, <1>6, <1>10, <2>1, <2>2 DEF Starting
  <1>12. ClientInStep(p)'
    <2>1. \A i \in DOMAIN w : w[i].kind = "MapOffer" => w[i].digest # Nothing
      BY <1>2, <1>3 DEF ClientInStep, q
    <2>2. seen[p].here
      BY <1>1, <1>3 DEF ClientInStep, q, m
    <2>3. \A i \in DOMAIN up'[p] : up'[p][i].kind # "Leave"
      <3>1. \A k \in DOMAIN up[p] : up[p][k].kind # "Leave"
        BY <1>1, <1>3 DEF ClientInStep, m
      <3>2. \A k \in DOMAIN r.sends : r.sends[k].kind # "Leave"
        BY <1>5 DEF ReadsWell, UpWell
      <3> QED
        BY <1>1, <1>6, <1>7, <3>1, <3>2, UpJoined
    <2> QED
      BY <1>1, <1>5, <1>6, <2>1, <2>2, <2>3 DEF ClientInStep, ReadsWell, Sound
  <1>13. PlayerInStep(p)'
    BY <1>8, <1>11, <1>12 DEF PlayerInStep
  <1>14. ASSUME c.at = "started"
         PROVE  room.running /\ c.modPackage = room.mods /\ c.mapPackage = room.map
    <2>1. /\ room.running /\ room.mods # Nothing /\ room.map # Nothing
          /\ ~Ahead(w, "ModOffer", room.mods) /\ ~Ahead(w, "MapOffer", room.map)
          /\ c.modReady /\ c.mapReady
      BY <1>5, <1>10, <1>14 DEF IInv, ServerInStep, Ahead, Offers, ReadsWell
    <2>2. /\ c.modPackage = room.mods \/ Ahead(w, "ModOffer", room.mods)
          /\ c.mapPackage = room.map \/ Ahead(w, "MapOffer", room.map)
      BY <1>1, <1>6, <1>8, <2>1 DEF InOrder
    <2> QED
      BY <2>1, <2>2
  <1>15. /\ up' \in [Players -> Seq(UpFrames)] /\ down' \in [Players -> Seq(DownFrames)]
         /\ \A x \in Players : x # p => up'[x] = up[x] /\ down'[x] = down[x]
    BY <1>1, <1>2, <1>7
  <1> HIDE DEF c
  <1> QED
    BY <1>1, <1>7, <1>13, <1>14, <1>15, ClientAlone

\* ... and one that finds it gone, or in the game.
LEMMA UnfollowedReads ==
  ASSUME IInv, NEW p \in Players, ClientReads(p), ~Followed(p)
  PROVE  IInv'
  <1> DEFINE q == down[p]
             w == Tail(q)
  <1>1. /\ q \in Seq(DownFrames) /\ q # <<>> /\ mine[p] \in Mine /\ mine[p].at \in {"left", "started"}
        /\ down' = [down EXCEPT ![p] = w] /\ down \in [Players -> Seq(DownFrames)]
        /\ UNCHANGED <<room, seen, jobs, mine, up>> /\ down'[p] = w
        /\ mine \in [Players -> Mine] /\ up \in [Players -> Seq(UpFrames)]
    BY DEF IInv, Typed, ClientReads, Followed
  <1>2. /\ w \in Seq(DownFrames)
        /\ \A i \in DOMAIN w : i + 1 \in DOMAIN q /\ w[i] = q[i + 1]
    BY <1>1, Shorter
  <1>3. PlayerInStep(p)
    BY DEF IInv, PlayersInStep
  <1> HIDE DEF w
  <1>4. ASSUME mine[p].at # "left" PROVE InOrder(p)' /\ Starting(p)'
    <2>1. InOrder(p) /\ Starting(p) /\ mine[p].at = "started"
      BY <1>1, <1>3, <1>4 DEF PlayerInStep
    <2>2. mine[p].modPackage = room.mods /\ mine[p].mapPackage = room.map
      BY <2>1 DEF IInv, StartsAlike
    <2>3. /\ room.mods # Nothing => Covered(w, "ModOffer", "ModChunk", room.mods)
          /\ room.map # Nothing => Covered(w, "MapOffer", "MapChunk", room.map)
      BY <1>1, <2>1, CoveredTail DEF InOrder, w
    <2>4. InOrder(p)'
      BY <1>1, <2>2, <2>3 DEF InOrder
    <2>5. NoOfferAfter(w)
      BY <1>1, <2>1, OfferAfterTail DEF Starting, w
    <2>6. Starting(p)'
      BY <1>1, <1>2, <2>1, <2>5 DEF Starting
    <2> QED
      BY <2>4, <2>6
  <1>5. ClientInStep(p)'
    <2>1. ClientInStep(p)
      BY <1>3 DEF PlayerInStep
    <2> QED
      BY <1>1, <1>2, <2>1 DEF ClientInStep
  <1>6. PlayerInStep(p)'
    BY <1>1, <1>4, <1>5 DEF PlayerInStep
  <1>7. /\ mine' = [mine EXCEPT ![p] = mine[p]] /\ down' \in [Players -> Seq(DownFrames)]
        /\ \A x \in Players : x # p => up'[x] = up[x] /\ down'[x] = down[x]
    BY <1>1, <1>2
  <1>8. mine[p].at = "started" => room.running /\ mine[p].modPackage = room.mods /\ mine[p].mapPackage = room.map
    BY DEF IInv, StartsAlike
  <1> QED
    BY <1>1, <1>6, <1>7, <1>8, ClientAlone

LEMMA OwnSteps ==
  ASSUME IInv, NEW p \in Players,
         \/ ClientSendsMods(p) \/ ClientSendsMap(p) \/ TickPacks(p) \/ OfferTicked(p)
         \/ RequestStart(p) \/ JoinGame(p) \/ LeaveGame(p)
  PROVE  IInv'
  <1> DEFINE m == mine[p]
  <1>1. m \in Mine /\ PlayerInStep(p)
    BY DEF IInv, Typed, PlayersInStep
  <1>2. Sound(m)
    BY <1>1 DEF PlayerInStep, ClientInStep, Sound
  <1>3. CASE ClientSendsMods(p)
    <2> DEFINE c == [m EXCEPT !.modSend = Nothing]
    <2>1. NoMore(m, c)
      BY <1>1, <1>2, PieceTypes DEF NoMore, Sound, Mine
    <2>2. m.modSend \in Values
      BY <1>1 DEF Mine
    <2>3. UpWell(<<Frame("ModChunk", m.modSend)>>)
      BY <2>2, OneUp DEF Plain
    <2> HIDE DEF c
    <2> QED
      BY <1>3, <2>1, <2>3, OwnStep DEF ClientSendsMods, c
  <1>4. CASE ClientSendsMap(p)
    <2> DEFINE c == [m EXCEPT !.mapSend = Nothing]
    <2>1. NoMore(m, c)
      BY <1>1, <1>2, PieceTypes DEF NoMore, Sound, Mine
    <2>2. m.mapSend \in Values
      BY <1>1 DEF Mine
    <2>3. UpWell(<<Frame("MapChunk", m.mapSend)>>)
      BY <2>2, OneUp DEF Plain
    <2> HIDE DEF c
    <2> QED
      BY <1>4, <2>1, <2>3, OwnStep DEF ClientSendsMap, c
  <1>5. InRoom(p) => Followed(p) /\ m.at \in {"room", "held"}
    BY DEF InRoom, Followed
  <1>6. CASE TickPacks(p)
    <2>1. PICK d \in Packs :
            Sends(p, [mine[p] EXCEPT !.ticks = d, !.pending = TRUE, !.modOffered = TRUE, !.mapsReady = FALSE], <<>>)
      BY <1>6 DEF TickPacks
    <2> DEFINE c == [m EXCEPT !.ticks = d, !.pending = TRUE, !.modOffered = TRUE, !.mapsReady = FALSE]
    <2>2. NoMore(m, c)
      BY <1>1, <1>2 DEF NoMore, Sound, Mine
    <2>3. Followed(p)
      BY <1>5, <1>6 DEF TickPacks
    <2> QED
      BY <2>1, <2>2, <2>3, NoneUp, OwnStep
  <1>7. CASE OfferTicked(p)
    <2> DEFINE r == OfferMods(m)
    <2>1. Followed(p) /\ m.at \in {"room", "held"} /\ Sends(p, r.client, r.sends)
      BY <1>5, <1>7 DEF OfferTicked
    <2>2. NoMore(m, r.client) /\ UpWell(r.sends)
      BY <1>1, <1>2, <2>1, OffersMods
    <2> HIDE DEF r
    <2> QED
      BY <2>1, <2>2, OwnStep
  <1>8. CASE RequestStart(p)
    <2> DEFINE c == [m EXCEPT !.startSent = TRUE]
    <2>1. NoMore(m, c)
      BY <1>1, <1>2 DEF NoMore, Sound, Mine
    <2>2. UpWell(<<Frame("Start", Nothing)>>)
      BY OneUp, PieceTypes DEF Plain
    <2>3. Followed(p) /\ Sends(p, c, <<Frame("Start", Nothing)>>)
      BY <1>5, <1>8 DEF RequestStart, CanStart
    <2> HIDE DEF c
    <2> QED
      BY <2>1, <2>2, <2>3, OwnStep
  <1>9. CASE JoinGame(p)
    <2> DEFINE c == [m EXCEPT !.at = "joining"]
    <2>1. NoMore(m, c)
      BY <1>1, <1>2 DEF NoMore, Sound, Mine
    <2>2. UpWell(<<Frame("Join", Nothing)>>)
      BY OneUp, PieceTypes DEF Plain
    <2>3. Followed(p) /\ Sends(p, c, <<Frame("Join", Nothing)>>)
      BY <1>9 DEF JoinGame, Followed
    <2> HIDE DEF c
    <2> QED
      BY <2>1, <2>2, <2>3, OwnStep
  <1>10. CASE LeaveGame(p)
    <2> DEFINE c == [Offline(m.ticks) EXCEPT !.at = "left"]
    <2>1. m.ticks \in Packs
      BY <1>1 DEF Mine
    <2>2. Offline(m.ticks) \in Mine
      BY <2>1, PieceTypes DEF Offline, Mine, Optional
    <2>3. NoMore(m, c) /\ c.at = "left"
      BY <2>1, <2>2, PieceTypes DEF Offline, NoMore, Sound, Mine
    <2>4. <<Frame("Leave", Nothing)>> \in Seq(UpFrames)
      BY FrameTypes, OneFrame, PieceTypes DEF Plain
    <2>5. Followed(p) /\ Sends(p, c, <<Frame("Leave", Nothing)>>)
      BY <1>5, <1>10 DEF LeaveGame
    <2> HIDE DEF c
    <2> QED
      BY <2>3, <2>4, <2>5, OwnStep
  <1> QED
    BY <1>3, <1>4, <1>6, <1>7, <1>8, <1>9, <1>10

-----------------------------------------------------------------------------
(* The invariant.                                                           *)

LEMMA InitInStep == PkInit => IInv
  <1> SUFFICES ASSUME PkInit PROVE IInv
    OBVIOUS
  <1>1. Host \in Players /\ Host # Nothing
    BY PieceTypes, PackagesAssumption DEF Players
  <1>2. ASSUME NEW p \in Players
        PROVE  /\ FirstTicks[p] \in Packs /\ MapOf[FirstTicks[p]] \in Maps
               /\ mine[p] \in Mine /\ mine[p].at \in {"lobby", "joining"} /\ mine[p].mapReceive = Nothing
               /\ ~mine[p].modReady /\ ~mine[p].mapReady
    <2>1. FirstTicks[p] \in Packs
      BY PackagesAssumption
    <2>2. MapOf[FirstTicks[p]] \in Maps
      BY <2>1 DEF Maps
    <2>3. Offline(FirstTicks[p]) \in Mine
      BY <2>1, PieceTypes DEF Offline, Mine, Optional
    <2>4. CASE p = Host
      <3>1. mine[p] = [Offline(FirstTicks[p]) EXCEPT !.at = "joining", !.mapPackage = MapOf[FirstTicks[p]]]
        BY <2>4 DEF PkInit
      <3>2. MapOf[FirstTicks[p]] \in Values
        BY <2>2, PieceTypes
      <3> DEFINE o == Offline(FirstTicks[p])
      <3>3. o \in Mine /\ o.mapReceive = Nothing /\ ~o.modReady /\ ~o.mapReady
        BY <2>3 DEF Offline
      <3> HIDE DEF o
      <3>4. mine[p] = [o EXCEPT !.at = "joining", !.mapPackage = MapOf[FirstTicks[p]]]
        BY <3>1 DEF o
      <3>5. /\ mine[p] \in Mine /\ mine[p].at = "joining" /\ mine[p].mapReceive = Nothing
            /\ ~mine[p].modReady /\ ~mine[p].mapReady
        BY <3>2, <3>3, <3>4 DEF Mine
      <3> QED
        BY <2>1, <2>2, <3>5
    <2>5. CASE p # Host
      <3>1. mine[p] = Offline(FirstTicks[p])
        BY <2>5 DEF PkInit
      <3> QED
        BY <2>1, <2>2, <2>3, <3>1 DEF Offline
    <2> QED
      BY <2>4, <2>5
  <1>3. ASSUME NEW p \in Players
        PROVE  /\ seen[p] \in Seen /\ (seen[p].here <=> p = Host) /\ (p # Host => seen[p] = Away)
               /\ seen[p].modOffered = Nothing /\ ~seen[p].mapOffered
               /\ seen[p].modSend = Nothing /\ seen[p].mapSend = Nothing
               /\ seen[p].modReceive = Nothing /\ seen[p].mapReceive = Nothing
    BY PieceTypes DEF PkInit, Away, Seen
  <1>4. LobbyState(Host, FALSE) \in DownFrames /\ LobbyState(Host, FALSE).kind = "LobbyState"
    BY <1>1 DEF LobbyState, DownFrames, Optional
  <1>5. ASSUME NEW p \in Players
        PROVE  /\ down[p] \in Seq(DownFrames) /\ up[p] = <<>> /\ up[p] \in Seq(UpFrames)
               /\ \A i \in DOMAIN down[p] : down[p][i].kind = "LobbyState"
               /\ p # Host => down[p] = <<>>
    <2>1. up[p] = <<>>
      BY DEF PkInit, NoFrames
    <2>2. down[p] = IF p = Host THEN <<LobbyState(Host, FALSE)>> ELSE <<>>
      BY DEF PkInit
    <2> HIDE DEF LobbyState
    <2>3. /\ <<LobbyState(Host, FALSE)>> \in Seq(DownFrames)
          /\ \A i \in DOMAIN <<LobbyState(Host, FALSE)>> : <<LobbyState(Host, FALSE)>>[i] = LobbyState(Host, FALSE)
      BY <1>4, OneFrame
    <2>4. CASE p = Host
      <3>1. down[p] = <<LobbyState(Host, FALSE)>>
        BY <2>2, <2>4
      <3>2. <<>> \in Seq(UpFrames)
        BY EmptySeq
      <3> QED
        BY <1>4, <2>1, <2>3, <2>4, <3>1, <3>2
    <2>5. CASE p # Host
      BY <2>1, <2>2, <2>5, EmptySeq
    <2> QED
      BY <2>4, <2>5
  <1>6. Typed
    <2>1. room \in Rooms
      BY <1>1, PieceTypes DEF PkInit, Rooms, Optional
    <2>2. seen \in [Players -> Seen]
      BY <1>3 DEF PkInit
    <2>3. mine \in [Players -> Mine]
      BY <1>2 DEF PkInit
    <2>4. jobs \in Seq(Jobs)
      BY EmptySeq DEF PkInit
    <2>5. up \in [Players -> Seq(UpFrames)]
      BY <1>5 DEF PkInit, NoFrames
    <2>6. down \in [Players -> Seq(DownFrames)]
      BY <1>5 DEF PkInit
    <2> QED
      BY <2>1, <2>2, <2>3, <2>4, <2>5, <2>6 DEF Typed
  <1>7. /\ room.host = Host /\ room.mods = Nothing /\ room.map = Nothing /\ ~room.running
        /\ DOMAIN jobs = {}
    <2>1. jobs = <<>> /\ room = [host |-> Host, mods |-> Nothing, map |-> Nothing, running |-> FALSE]
      BY DEF PkInit
    <2>2. DOMAIN jobs = {}
      BY <2>1
    <2> QED
      BY <2>1, <2>2
  <1>8. ServerInStep(room, seen, jobs)
    <2>1. Membership(room, seen)
      BY <1>1, <1>3, <1>7 DEF Membership
    <2>2. Offering(room, seen) /\ Receiving(room, seen) /\ Checking(room, seen, jobs)
      BY <1>3, <1>7 DEF Offering, Receiving, Checking
    <2> QED
      BY <1>7, <2>1, <2>2 DEF ServerInStep
  <1>9. PlayersInStep
    <2>1. ASSUME NEW p \in Players PROVE PlayerInStep(p)
      <3>1. InOrder(p)
        BY <1>7 DEF InOrder
      <3>2. Starting(p)
        BY <1>2, <1>5 DEF Starting, NoOfferAfter, Offers
      <3>3. ClientInStep(p)
        <4>1. DOMAIN up[p] = {}
          BY <1>5
        <4> QED
          BY <1>2, <1>3, <1>5, <4>1 DEF ClientInStep
      <3> QED
        BY <3>1, <3>2, <3>3 DEF PlayerInStep
    <2> QED
      BY <2>1 DEF PlayersInStep
  <1>10. StartsAlike
    BY <1>2 DEF StartsAlike
  <1> QED
    BY <1>6, <1>8, <1>9, <1>10 DEF IInv

LEMMA NextInStep == IInv /\ [PkNext]_pkVars => IInv'
  <1> SUFFICES ASSUME IInv, [PkNext]_pkVars PROVE IInv'
    OBVIOUS
  <1>1. ServerWas /\ PlayersInStep
    BY DEF IInv, ServerWas
  <1>2. up \in [Players -> Seq(UpFrames)]
    BY DEF IInv, Typed
  <1>3. ASSUME ServerDone, mine' = mine, up' = up PROVE IInv'
    BY <1>2, <1>3, ServerKeepsInStep DEF UpShorter
  <1>4. ASSUME NEW p \in Players, ServerReads(p) PROVE IInv'
    <2>1. ServerDone
      BY <1>1, <1>4, ServerReadsDone
    <2>2. mine' = mine /\ up[p] # <<>> /\ up' = [up EXCEPT ![p] = Tail(up[p])]
      BY <1>4 DEF ServerReads
    <2>3. Tail(up[p]) \in Seq(UpFrames)
      BY <1>2, <2>2, Shorter
    <2>4. up' \in [Players -> Seq(UpFrames)] /\ \A q \in Players : UpShorter(q)
      BY <1>2, <2>2, <2>3 DEF UpShorter
    <2> QED
      BY <2>1, <2>2, <2>4, ServerKeepsInStep
  <1>5. ASSUME NEW p \in Players, ServerSendsMods(p) \/ ServerSendsMap(p) PROVE IInv'
    BY <1>1, <1>3, <1>5, ServerSendsDone DEF ServerSendsMods, ServerSendsMap
  <1>6. ASSUME NEW p \in Players, ClientReads(p) PROVE IInv'
    BY <1>6, FollowedReads, UnfollowedReads
  <1>7. ASSUME NEW p \in Players,
               \/ ClientSendsMods(p) \/ ClientSendsMap(p) \/ TickPacks(p) \/ OfferTicked(p)
               \/ RequestStart(p) \/ JoinGame(p) \/ LeaveGame(p)
        PROVE  IInv'
    BY <1>7, OwnSteps
  <1>8. CASE RunJob
    BY <1>1, <1>3, <1>8, RunJobDone DEF RunJob
  <1>9. CASE FinishValidation
    BY <1>1, <1>3, <1>9, FinishValidationDone DEF FinishValidation
  <1>10. CASE TakeDeferredOffer
    BY <1>1, <1>3, <1>10, TakeDeferredOfferDone DEF TakeDeferredOffer
  <1>11. CASE UNCHANGED pkVars
    <2>1. UNCHANGED <<room, seen, down, jobs>> /\ mine' = mine /\ up' = up
      BY <1>11 DEF pkVars
    <2> QED
      BY <1>1, <1>3, <2>1, Unchanged
  <1> QED
    BY <1>4, <1>5, <1>6, <1>7, <1>8, <1>9, <1>10, <1>11 DEF PkNext

\* Whatever the host ticks and whoever comes and goes meanwhile, everybody who
\* starts has the packages the room plays by: no GameStarting overtakes an offer
\* (Server::tryStart, broadcastLobby; MpClient::modFrame, mapFrame).
THEOREM EverybodyStartsAlike == PkSpec => []StartsAlike
  <1>1. IInv => StartsAlike
    BY DEF IInv
  <1> QED
    BY <1>1, InitInStep, NextInStep, PTL DEF PkSpec

-----------------------------------------------------------------------------
(* A digest of mods is never taken for one of a map.                        *)

OfMods == Optional(Packs)
OfMap == Optional(Maps)

\* What the server holds,
RoomSorted(r) == r.mods \in OfMods /\ r.map \in OfMap
ClientsSorted(s) ==
  \A p \in Players :
    /\ s[p].modReady \in OfMods /\ s[p].modReceive \in OfMods
    /\ s[p].mapReceive \in OfMap /\ s[p].deferred \in OfMap
JobSorted(job) == job.digest \in IF job.mods THEN Packs ELSE Maps
JobsSorted(q) == \A i \in DOMAIN q : JobSorted(q[i])

\* what a client does,
MineSorted(c) ==
  /\ c.ticks \in Packs
  /\ c.modPackage \in OfMods /\ c.modReceive \in OfMods /\ c.modSend \in OfMods
  /\ c.mapPackage \in OfMap /\ c.mapReceive \in OfMap /\ c.mapSend \in OfMap

\* and what is on its way: an offer is always of something.
SentSorted(t) ==
  \A i \in DOMAIN t :
    /\ t[i].kind = "ModOffer" => t[i].digest \in Packs
    /\ t[i].kind = "MapOffer" => t[i].digest \in Maps
    /\ t[i].kind = "ModReady" => t[i].digest \in OfMods
TellsSorted(t) ==
  \A i \in DOMAIN t :
    /\ t[i].kind \in {"ModOffer", "ModChunk"} => t[i].digest \in OfMods
    /\ t[i].kind \in {"MapOffer", "MapChunk"} => t[i].digest \in OfMap

ServerSorted == RoomSorted(room) /\ ClientsSorted(seen) /\ JobsSorted(jobs)
AllSorted ==
  /\ ServerSorted /\ stored \subseteq Digests
  /\ \A p \in Players : MineSorted(mine[p]) /\ SentSorted(up[p]) /\ TellsSorted(down[p])

LEMMA SortTypes ==
  /\ Nothing \in OfMods /\ Nothing \in OfMap /\ Packs \subseteq OfMods /\ Maps \subseteq OfMap
  /\ Nothing \notin Packs /\ Nothing \notin Maps
  /\ \A x \in OfMods : x # Nothing => x \in Packs
  /\ \A x \in OfMap : x # Nothing => x \in Maps
  BY PackagesAssumption DEF OfMods, OfMap, Optional, Digests

\* The validations: what is forgotten, added, or taken off.
LEMMA ForgottenSorted ==
  ASSUME NEW q \in Seq(Jobs), NEW who, JobsSorted(q)
  PROVE  JobsSorted(Forgotten(q, who))
  <1> SUFFICES ASSUME NEW i \in DOMAIN Forgotten(q, who) PROVE JobSorted(Forgotten(q, who)[i])
    BY DEF JobsSorted
  <1>1. i \in DOMAIN q /\ q[i] \in Jobs
    BY JobElements DEF Forgotten
  <1>2. Forgotten(q, who)[i] = IF q[i].client \in who THEN [q[i] EXCEPT !.current = FALSE] ELSE q[i]
    BY <1>1 DEF Forgotten
  <1>3. [q[i] EXCEPT !.current = FALSE].digest = q[i].digest /\ [q[i] EXCEPT !.current = FALSE].mods = q[i].mods
    BY <1>1 DEF Jobs
  <1> QED
    BY <1>1, <1>2, <1>3 DEF JobsSorted, JobSorted

LEMMA ValidateSorted ==
  ASSUME NEW q \in Seq(Jobs), JobsSorted(q), NEW job \in Jobs, JobSorted(job)
  PROVE  JobsSorted(Validate(q, job))
  <1> DEFINE u == Forgotten(q, {job.client})
  <1>1. JobsSorted(u) /\ u \in Seq(Jobs)
    BY ForgottenSorted, ForgottenFewer
  <1> HIDE DEF u
  <1>2. /\ Append(u, job) \in Seq(Jobs) /\ Len(Append(u, job)) = Len(u) + 1 /\ Append(u, job)[Len(u) + 1] = job
        /\ \A i \in 1 .. Len(u) : Append(u, job)[i] = u[i]
        /\ Len(u) \in Nat /\ DOMAIN u = 1 .. Len(u)
    BY <1>1, AppendProperties, LenProperties
  <1>3. DOMAIN Append(u, job) = 1 .. Len(u) + 1
    BY <1>2, LenProperties
  <1>4. \A i \in 1 .. Len(u) + 1 : i \in 1 .. Len(u) \/ i = Len(u) + 1
    BY <1>2
  <1> QED
    BY <1>1, <1>2, <1>3, <1>4 DEF Validate, JobsSorted, u

LEMMA TailSorted ==
  ASSUME NEW q \in Seq(Jobs), q # <<>>, JobsSorted(q)
  PROVE  JobsSorted(Tail(q)) /\ JobSorted(Head(q))
  BY Shorter DEF JobsSorted

LEMMA AJob ==
  ASSUME NEW p \in Players, NEW mods \in BOOLEAN, NEW cache \in BOOLEAN, NEW d, NEW bytes \in Values,
         IF mods THEN d \in Packs ELSE d \in Maps
  PROVE  Job(p, mods, cache, d, bytes) \in Jobs /\ JobSorted(Job(p, mods, cache, d, bytes))
  <1>1. d \in Values
    BY PieceTypes
  <1> QED
    BY <1>1 DEF Job, Jobs, JobSorted

\* Nothing that a broadcast adds is of the wrong sort.
LEMMA OfferedSorted ==
  ASSUME NEW r, NEW s \in [Players -> Seen], ClientsSorted(s)
  PROVE  ClientsSorted(Offered(r, s))
  <1> SUFFICES ASSUME NEW p \in Players
               PROVE  LET t == Offered(r, s)[p]
                      IN  /\ t.modReady = s[p].modReady /\ t.modReceive = s[p].modReceive
                          /\ t.mapReceive = s[p].mapReceive /\ t.deferred = s[p].deferred
    BY DEF ClientsSorted
  <1>1. s[p] \in Seen
    OBVIOUS
  <1> QED
    BY <1>1 DEF Offered, Seen

LEMMA DropSorted ==
  ASSUME NEW s \in [Players -> Seen], NEW q, ClientsSorted(s)
  PROVE  ClientsSorted(DropRipe(s, q)) /\ DropRipe(s, q) \in [Players -> Seen]
  <1>1. ASSUME NEW p \in Players
        PROVE  /\ DropRipe(s, q)[p] \in Seen
               /\ DropRipe(s, q)[p].modReady = s[p].modReady /\ DropRipe(s, q)[p].modReceive = s[p].modReceive
               /\ DropRipe(s, q)[p].mapReceive = s[p].mapReceive
               /\ DropRipe(s, q)[p].deferred \in {s[p].deferred, Nothing}
    <2>1. s[p] \in Seen
      OBVIOUS
    <2> QED
      BY <2>1, PieceTypes DEF DropRipe, Seen
  <1>2. DropRipe(s, q) \in [Players -> Seen]
    BY <1>1 DEF DropRipe
  <1> QED
    BY <1>1, <1>2, SortTypes DEF ClientsSorted

LEMMA TakeSorted ==
  ASSUME NEW r, NEW s \in [Players -> Seen], NEW q \in Seq(Jobs), ClientsSorted(s), JobsSorted(q)
  PROVE  JobsSorted(TakeDeferred(r, s, q))
  <1> DEFINE p == CHOOSE p \in Ripe(s, q) : TRUE
             job == Job(p, FALSE, TRUE, s[p].deferred, Nothing)
  <1>1. CASE Ripe(s, q) = {}
    BY <1>1 DEF TakeDeferred
  <1>2. CASE Ripe(s, q) # {}
    <2>1. p \in Players /\ s[p].deferred # Nothing
      BY <1>2 DEF Ripe
    <2> HIDE DEF p
    <2>2. s[p].deferred \in Maps
      BY <2>1, SortTypes DEF ClientsSorted
    <2>3. job \in Jobs /\ JobSorted(job)
      BY <2>1, <2>2, AJob, PieceTypes
    <2> HIDE DEF job
    <2>4. JobsSorted(Validate(q, job))
      BY <2>3, ValidateSorted
    <2>5. TakeDeferred(r, s, q) \in {q, Validate(q, job)}
      BY DEF TakeDeferred, job, p
    <2> QED
      BY <2>4, <2>5
  <1> QED
    BY <1>1, <1>2

\* What the server tells a client is what the room has.
LEMMA ToldSorted ==
  ASSUME Typed, ServerDone, RoomSorted(room'), NEW p \in Players, TellsSorted(down[p])
  PROVE  TellsSorted(down'[p])
  <1>1. PICK t : Posted(p, t)
    BY DEF ServerDone, Sent
  <1>2. TellsSorted(t)
    BY <1>1 DEF Posted, Fresh, RoomSorted, TellsSorted
  <1>3. down[p] \in Seq(DownFrames) /\ t \in Seq(DownFrames) /\ down'[p] = down[p] \o t
    BY <1>1 DEF Posted, Typed
  <1>4. ASSUME NEW i \in DOMAIN down'[p]
        PROVE  (\E k \in DOMAIN down[p] : down[p][k] = down'[p][i]) \/ (\E k \in DOMAIN t : t[k] = down'[p][i])
    <2>1. Occurs(down'[p][i], down[p] \o t)
      BY <1>3 DEF Occurs
    <2> QED
      BY <1>3, <2>1, OccursJoined DEF Occurs
  <1> QED
    BY <1>2, <1>4 DEF TellsSorted

-----------------------------------------------------------------------------
(* The steps of the server.                                                 *)

\* One client's record changes, and nothing of another sort gets into it.
LEMMA OneSorted ==
  ASSUME Typed, ClientsSorted(seen), NEW p \in Players,
         NEW k, seen' = [seen EXCEPT ![p] = k],
         k.modReady \in OfMods, k.modReceive \in OfMods, k.mapReceive \in OfMap, k.deferred \in OfMap
  PROVE  ClientsSorted(seen')
  BY DEF Typed, ClientsSorted

ServerSortedNext == RoomSorted(room') /\ ClientsSorted(seen') /\ JobsSorted(jobs')

LEMMA ModOfferSorted ==
  ASSUME Typed, ServerSorted, NEW p \in Players, NEW f, f.digest \in Packs, ServerModOffer(p, f)
  PROVE  ServerSortedNext
  <1>1. seen[p] \in Seen /\ room \in Rooms /\ jobs \in Seq(Jobs) /\ seen \in [Players -> Seen]
    BY DEF Typed
  <1>2. CASE room.host # p
    <2> DEFINE k == [seen[p] EXCEPT !.modReceive = Nothing]
    <2>1. /\ seen' = [seen EXCEPT ![p] = k] /\ UNCHANGED <<room, jobs>>
      BY <1>2 DEF ServerModOffer
    <2>2. k.modReady = seen[p].modReady /\ k.modReceive = Nothing /\ k.mapReceive = seen[p].mapReceive
          /\ k.deferred = seen[p].deferred
      BY <1>1 DEF Seen
    <2> HIDE DEF k
    <2> QED
      BY <2>1, <2>2, OneSorted, SortTypes DEF ServerSorted, ServerSortedNext, ClientsSorted
  <1>3. CASE room.host = p /\ (room.running \/ seen[p].modReceive # Nothing \/ Validating(p))
    BY <1>3 DEF ServerModOffer, Quietly, ServerSorted, ServerSortedNext
  <1>4. CASE room.host = p /\ ~(room.running \/ seen[p].modReceive # Nothing \/ Validating(p))
    <2> DEFINE r == [room EXCEPT !.mods = Nothing, !.map = Nothing]
               s == ResetTransfers(seen)
               u == Forgotten(jobs, Here)
               job == Job(p, TRUE, TRUE, f.digest, Nothing)
    <2>1. room' = r /\ seen' = Offered(r, s) /\ jobs' = Validate(u, job)
      BY <1>4 DEF ServerModOffer, BroadcastLobby
    <2>2. RoomSorted(r)
      BY <1>1, SortTypes DEF Rooms, RoomSorted
    <2>3. s \in [Players -> Seen] /\ ClientsSorted(s)
      BY <1>1, PieceTypes, SortTypes DEF ResetTransfers, Away, Seen, ClientsSorted
    <2>4. u \in Seq(Jobs) /\ JobsSorted(u)
      BY <1>1, ForgottenFewer, ForgottenSorted DEF ServerSorted
    <2>5. job \in Jobs /\ JobSorted(job)
      BY AJob, PieceTypes
    <2> HIDE DEF r, s, u, job
    <2> QED
      BY <2>1, <2>2, <2>3, <2>4, <2>5, OfferedSorted, ValidateSorted DEF ServerSortedNext
  <1> QED
    BY <1>2, <1>3, <1>4

LEMMA ModChunkSorted ==
  ASSUME Typed, ServerSorted, NEW p \in Players, NEW f, f.digest \in Values, ServerModChunk(p, f)
  PROVE  ServerSortedNext
  <1>1. seen[p] \in Seen /\ jobs \in Seq(Jobs)
    BY DEF Typed
  <1> DEFINE k == [seen[p] EXCEPT !.modReceive = Nothing]
             e == [seen[p] EXCEPT !.modReceive = Nothing, !.modSend = Nothing, !.modReady = Nothing]
  <1>2. /\ k.modReady = seen[p].modReady /\ k.modReceive = Nothing /\ k.mapReceive = seen[p].mapReceive
        /\ k.deferred = seen[p].deferred
        /\ e.modReady = Nothing /\ e.modReceive = Nothing /\ e.mapReceive = seen[p].mapReceive
        /\ e.deferred = seen[p].deferred
    BY <1>1 DEF Seen
  <1>3. /\ seen' = [seen EXCEPT ![p] = k] => ClientsSorted(seen')
        /\ seen' = [seen EXCEPT ![p] = e] => ClientsSorted(seen')
    <2> HIDE DEF k, e
    <2> QED
      BY <1>2, OneSorted, SortTypes DEF ServerSorted, ClientsSorted
  <1>4. CASE room.host # p
    <2>1. seen' = [seen EXCEPT ![p] = k] /\ UNCHANGED <<room, jobs>>
      BY <1>4 DEF ServerModChunk
    <2> QED
      BY <1>3, <2>1 DEF ServerSorted, ServerSortedNext
  <1>5. CASE room.host = p /\ room.running
    BY <1>5 DEF ServerModChunk, Quietly, ServerSorted, ServerSortedNext
  <1>6. CASE room.host = p /\ ~room.running /\ seen[p].modReceive = Nothing
    <2>1. ModChunkFails(p)
      BY <1>6 DEF ServerModChunk
    <2>2. seen' = [seen EXCEPT ![p] = e] /\ jobs' = Forgotten(jobs, {p}) /\ room' = room
      BY <1>1, <2>1 DEF ModChunkFails, Typed
    <2> QED
      BY <1>1, <1>3, <2>2, ForgottenSorted DEF ServerSorted, ServerSortedNext
  <1>7. CASE room.host = p /\ ~room.running /\ seen[p].modReceive # Nothing
    <2> DEFINE job == Job(p, TRUE, FALSE, seen[p].modReceive, f.digest)
    <2>1. seen' = [seen EXCEPT ![p] = k] /\ jobs' = Validate(jobs, job) /\ room' = room
      BY <1>7 DEF ServerModChunk, Quietly
    <2>2. seen[p].modReceive \in Packs
      BY <1>7, SortTypes DEF ServerSorted, ClientsSorted
    <2>3. job \in Jobs /\ JobSorted(job)
      BY <2>2, AJob
    <2> HIDE DEF job
    <2> QED
      BY <1>1, <1>3, <2>1, <2>3, ValidateSorted DEF ServerSorted, ServerSortedNext
  <1> QED
    BY <1>4, <1>5, <1>6, <1>7

LEMMA MapOfferSorted ==
  ASSUME Typed, ServerSorted, NEW p \in Players, NEW f, f.digest \in Maps, ServerMapOffer(p, f)
  PROVE  ServerSortedNext
  <1>1. seen[p] \in Seen /\ jobs \in Seq(Jobs) /\ room' = room
    BY DEF Typed, ServerMapOffer, Quietly
  <1>2. CASE UNCHANGED <<seen, jobs>>
    BY <1>1, <1>2 DEF ServerSorted, ServerSortedNext
  <1>3. CASE seen' = [seen EXCEPT ![p].deferred = f.digest] /\ jobs' = jobs
    <2> DEFINE k == [seen[p] EXCEPT !.deferred = f.digest]
    <2>1. /\ k.modReady = seen[p].modReady /\ k.modReceive = seen[p].modReceive
          /\ k.mapReceive = seen[p].mapReceive /\ k.deferred = f.digest
      BY <1>1 DEF Seen
    <2>2. seen' = [seen EXCEPT ![p] = k]
      BY <1>3
    <2> HIDE DEF k
    <2> QED
      BY <1>1, <1>3, <2>1, <2>2, OneSorted, SortTypes DEF ServerSorted, ServerSortedNext, ClientsSorted
  <1>4. CASE jobs' = Validate(jobs, Job(p, FALSE, TRUE, f.digest, Nothing)) /\ seen' = seen
    BY <1>1, <1>4, AJob, PieceTypes, ValidateSorted DEF ServerSorted, ServerSortedNext
  <1> QED
    BY <1>2, <1>3, <1>4 DEF ServerMapOffer

LEMMA MapChunkSorted ==
  ASSUME Typed, ServerSorted, NEW p \in Players, NEW f, f.digest \in Values, ServerMapChunk(p, f)
  PROVE  ServerSortedNext
  <1>1. seen[p] \in Seen /\ jobs \in Seq(Jobs)
    BY DEF Typed
  <1>2. CASE UNCHANGED <<room, seen, jobs>>
    BY <1>2 DEF ServerSorted, ServerSortedNext
  <1>3. CASE MapFails(p)
    <2> DEFINE k == [seen[p] EXCEPT !.mapReady = FALSE, !.mapReceive = Nothing, !.mapSend = Nothing]
    <2>1. /\ k.modReady = seen[p].modReady /\ k.modReceive = seen[p].modReceive
          /\ k.mapReceive = Nothing /\ k.deferred = seen[p].deferred
      BY <1>1 DEF Seen
    <2>2. seen' = [seen EXCEPT ![p] = k] /\ jobs' = Forgotten(jobs, {p}) /\ room' = room
      BY <1>1, <1>3 DEF MapFails, Typed
    <2> HIDE DEF k
    <2> QED
      BY <1>1, <2>1, <2>2, OneSorted, ForgottenSorted, SortTypes DEF ServerSorted, ServerSortedNext, ClientsSorted
  <1>4. CASE /\ seen[p].mapReceive # Nothing
             /\ seen' = [seen EXCEPT ![p].mapReceive = Nothing]
             /\ jobs' = Validate(jobs, Job(p, FALSE, FALSE, seen[p].mapReceive, f.digest))
             /\ room' = room
    <2> DEFINE k == [seen[p] EXCEPT !.mapReceive = Nothing]
               job == Job(p, FALSE, FALSE, seen[p].mapReceive, f.digest)
    <2>1. /\ k.modReady = seen[p].modReady /\ k.modReceive = seen[p].modReceive
          /\ k.mapReceive = Nothing /\ k.deferred = seen[p].deferred
      BY <1>1 DEF Seen
    <2>2. seen' = [seen EXCEPT ![p] = k]
      BY <1>4
    <2>3. seen[p].mapReceive \in Maps
      BY <1>4, SortTypes DEF ServerSorted, ClientsSorted
    <2>4. job \in Jobs /\ JobSorted(job)
      BY <2>3, AJob
    <2> HIDE DEF k, job
    <2> QED
      BY <1>1, <1>4, <2>1, <2>2, <2>4, OneSorted, ValidateSorted, SortTypes
      DEF ServerSorted, ServerSortedNext, ClientsSorted, job
  <1> QED
    BY <1>2, <1>3, <1>4 DEF ServerMapChunk, Quietly

\* A broadcast of the room as it is, to clients that are well sorted.
LEMMA BroadcastSorted ==
  ASSUME ServerSorted, NEW r, RoomSorted(r), NEW s \in [Players -> Seen], ClientsSorted(s),
         BroadcastLobby(r, s, NoFrames), JobsSorted(jobs')
  PROVE  ServerSortedNext
  BY OfferedSorted DEF BroadcastLobby, ServerSortedNext

LEMMA ReadySorted ==
  ASSUME Typed, ServerSorted, NEW p \in Players, NEW f, f.digest \in Values,
         \/ ServerModReady(p, f) /\ f.digest \in OfMods
         \/ ServerMapReady(p, f)
  PROVE  ServerSortedNext
  <1>1. seen[p] \in Seen
    BY DEF Typed
  <1> DEFINE k == [seen[p] EXCEPT !.modReady = f.digest]
             m == [seen[p] EXCEPT !.mapReady = TRUE]
  <1>2. /\ k \in Seen /\ k.modReady = f.digest /\ k.modReceive = seen[p].modReceive
        /\ k.mapReceive = seen[p].mapReceive /\ k.deferred = seen[p].deferred
        /\ m \in Seen /\ m.modReady = seen[p].modReady /\ m.modReceive = seen[p].modReceive
        /\ m.mapReceive = seen[p].mapReceive /\ m.deferred = seen[p].deferred
    BY <1>1 DEF Seen
  <1>3. jobs' = jobs
    BY DEF ServerModReady, ServerMapReady
  <1>4. ASSUME NEW s, ClientsSorted(s), s \in [Players -> Seen], Told(p, s) PROVE ServerSortedNext
    BY <1>3, <1>4, BroadcastSorted DEF Told, Quietly, ServerSorted, ServerSortedNext
  <1>5. CASE UNCHANGED <<room, seen>>
    BY <1>3, <1>5 DEF ServerSorted, ServerSortedNext
  <1>6. CASE Told(p, [seen EXCEPT ![p].modReady = f.digest]) /\ f.digest \in OfMods
    <2> DEFINE s == [seen EXCEPT ![p] = k]
    <2> HIDE DEF k
    <2>1. s \in [Players -> Seen] /\ ClientsSorted(s)
      BY <1>2, <1>6 DEF Typed, ServerSorted, ClientsSorted
    <2>2. Told(p, s)
      BY <1>6 DEF k
    <2> HIDE DEF s
    <2> QED
      BY <1>4, <2>1, <2>2
  <1>7. CASE Told(p, [seen EXCEPT ![p].mapReady = TRUE])
    <2> DEFINE s == [seen EXCEPT ![p] = m]
    <2> HIDE DEF m
    <2>1. s \in [Players -> Seen] /\ ClientsSorted(s)
      BY <1>2 DEF Typed, ServerSorted, ClientsSorted
    <2>2. Told(p, s)
      BY <1>7 DEF m
    <2> HIDE DEF s
    <2> QED
      BY <1>4, <2>1, <2>2
  <1> QED
    BY <1>5, <1>6, <1>7 DEF ServerModReady, ServerMapReady, Quietly

LEMMA PlainSorted ==
  ASSUME Typed, ServerSorted, NEW p \in Players, NEW f,
         ServerModRequest(p, f) \/ ServerMapRequest(p, f) \/ ServerModError(p, f) \/ ServerMapError(p, f)
  PROVE  ServerSortedNext
  <1>1. seen[p] \in Seen /\ jobs \in Seq(Jobs) /\ room' = room
    BY DEF Typed, ServerModRequest, ServerMapRequest, ServerModError, ServerMapError, MapFails, Quietly
  <1> DEFINE a == [seen[p] EXCEPT !.modSend = room.mods]
             b == [seen[p] EXCEPT !.mapSend = room.map]
             c == [seen[p] EXCEPT !.modReady = Nothing, !.modSend = Nothing, !.modReceive = Nothing]
             d == [seen[p] EXCEPT !.mapReady = FALSE, !.mapReceive = Nothing, !.mapSend = Nothing]
  <1>2. ASSUME NEW k \in {a, b, c, d}
        PROVE  /\ k.modReady \in {Nothing, seen[p].modReady} /\ k.modReceive \in {Nothing, seen[p].modReceive}
               /\ k.mapReceive \in {Nothing, seen[p].mapReceive} /\ k.deferred = seen[p].deferred
    BY <1>1 DEF Seen
  <1>3. seen' = seen \/ \E k \in {a, b, c, d} : seen' = [seen EXCEPT ![p] = k]
    BY <1>1 DEF ServerModRequest, ServerMapRequest, ServerModError, ServerMapError, MapFails, Typed
  <1> HIDE DEF a, b, c, d
  <1>4. ClientsSorted(seen')
    <2>1. CASE seen' = seen
      BY <2>1 DEF ServerSorted
    <2>2. CASE \E k \in {a, b, c, d} : seen' = [seen EXCEPT ![p] = k]
      <3>1. PICK k \in {a, b, c, d} : seen' = [seen EXCEPT ![p] = k]
        BY <2>2
      <3>2. /\ k.modReady \in OfMods /\ k.modReceive \in OfMods /\ k.mapReceive \in OfMap /\ k.deferred \in OfMap
        BY <1>2, SortTypes DEF ServerSorted, ClientsSorted
      <3> QED
        BY <3>1, <3>2, OneSorted DEF ServerSorted
    <2> QED
      BY <1>3, <2>1, <2>2
  <1>5. JobsSorted(jobs')
    <2>1. jobs' \in {jobs, Forgotten(jobs, {p})}
      BY DEF ServerModRequest, ServerMapRequest, ServerModError, ServerMapError, MapFails
    <2> QED
      BY <1>1, <2>1, ForgottenSorted DEF ServerSorted
  <1> QED
    BY <1>1, <1>4, <1>5 DEF ServerSorted, ServerSortedNext

LEMMA ComingAndGoingSorted ==
  ASSUME Typed, ServerSorted, NEW p \in Players, NEW f,
         ServerJoin(p, f) \/ ServerLeave(p, f) \/ ServerStart(p, f)
  PROVE  ServerSortedNext
  <1>1. seen \in [Players -> Seen] /\ jobs \in Seq(Jobs) /\ room \in Rooms
    BY DEF Typed
  <1> DEFINE come == [seen EXCEPT ![p] = [Away EXCEPT !.here = TRUE]]
             left == [seen EXCEPT ![p] = Away]
  <1>2. /\ come \in [Players -> Seen] /\ ClientsSorted(come)
        /\ left \in [Players -> Seen] /\ ClientsSorted(left)
    <2> DEFINE a == [Away EXCEPT !.here = TRUE]
    <2>1. \A k \in {a, Away} : k \in Seen /\ k.modReady = Nothing /\ k.modReceive = Nothing
                               /\ k.mapReceive = Nothing /\ k.deferred = Nothing
      <3>1. Away \in Seen /\ Away.modReady = Nothing /\ Away.modReceive = Nothing
            /\ Away.mapReceive = Nothing /\ Away.deferred = Nothing
        BY PieceTypes DEF Away
      <3>2. a \in Seen /\ a.modReady = Away.modReady /\ a.modReceive = Away.modReceive
            /\ a.mapReceive = Away.mapReceive /\ a.deferred = Away.deferred
        BY <3>1 DEF Seen
      <3> HIDE DEF a
      <3> QED
        BY <3>1, <3>2
    <2>2. come = [seen EXCEPT ![p] = a]
      OBVIOUS
    <2> HIDE DEF a, come
    <2> QED
      BY <1>1, <2>1, <2>2, SortTypes DEF ServerSorted, ClientsSorted
  <1> HIDE DEF come, left
  <1>3. JobsSorted(jobs')
    <2>1. jobs' \in {jobs, Forgotten(jobs, {p})}
      BY DEF ServerJoin, ServerLeave, ServerStart
    <2> QED
      BY <1>1, <2>1, ForgottenSorted DEF ServerSorted
  <1>4. CASE ServerJoin(p, f)
    <2>1. UNCHANGED <<room, seen>> \/ BroadcastLobby(room, come, NoFrames)
      BY <1>4 DEF ServerJoin, Quietly, come
    <2> QED
      BY <1>2, <1>3, <2>1, BroadcastSorted DEF ServerSorted, ServerSortedNext
  <1>5. CASE ServerLeave(p, f)
    <2>1. \/ seen' = left /\ room' = [room EXCEPT !.host = Nothing, !.mods = Nothing, !.map = Nothing]
          \/ \E host : BroadcastLobby([room EXCEPT !.host = host], left, NoFrames)
      BY <1>5 DEF ServerLeave, left
    <2>2. RoomSorted([room EXCEPT !.host = Nothing, !.mods = Nothing, !.map = Nothing])
      BY <1>1, SortTypes DEF Rooms, RoomSorted
    <2>3. ASSUME NEW host PROVE RoomSorted([room EXCEPT !.host = host])
      BY <1>1 DEF Rooms, RoomSorted, ServerSorted
    <2> QED
      BY <1>2, <1>3, <2>1, <2>2, <2>3, BroadcastSorted DEF ServerSorted, ServerSortedNext
  <1>6. CASE ServerStart(p, f)
    <2>1. seen' = seen /\ room' \in {room, [room EXCEPT !.running = TRUE]}
      BY <1>6 DEF ServerStart, Quietly
    <2>2. RoomSorted([room EXCEPT !.running = TRUE])
      BY <1>1 DEF Rooms, RoomSorted, ServerSorted
    <2> QED
      BY <1>3, <2>1, <2>2 DEF ServerSorted, ServerSortedNext
  <1> QED
    BY <1>4, <1>5, <1>6

LEMMA ReadsSorted ==
  ASSUME Typed, ServerSorted, NEW p \in Players, SentSorted(up[p]), ServerReads(p)
  PROVE  ServerSortedNext
  <1> DEFINE f == Head(up[p])
  <1>1. f \in UpFrames /\ 1 \in DOMAIN up[p] /\ f = up[p][1]
    BY Shorter DEF Typed, ServerReads
  <1>2. /\ f.digest \in Values
        /\ f.kind = "ModOffer" => f.digest \in Packs
        /\ f.kind = "MapOffer" => f.digest \in Maps
        /\ f.kind = "ModReady" => f.digest \in OfMods
    BY <1>1 DEF SentSorted, UpFrames
  <1> HIDE DEF f
  <1>3. CASE UNCHANGED <<room, seen, jobs>>
    BY <1>3 DEF ServerSorted, ServerSortedNext
  <1>4. CASE ServerJoin(p, f) \/ ServerLeave(p, f) \/ ServerStart(p, f)
    BY <1>4, ComingAndGoingSorted
  <1>5. CASE ServerModRequest(p, f) \/ ServerMapRequest(p, f) \/ ServerModError(p, f) \/ ServerMapError(p, f)
    BY <1>5, PlainSorted
  <1>6. CASE f.kind = "ModOffer" /\ ServerModOffer(p, f)
    BY <1>2, <1>6, ModOfferSorted
  <1>7. CASE ServerModChunk(p, f)
    BY <1>2, <1>7, ModChunkSorted
  <1>8. CASE f.kind = "MapOffer" /\ ServerMapOffer(p, f)
    BY <1>2, <1>8, MapOfferSorted
  <1>9. CASE ServerMapChunk(p, f)
    BY <1>2, <1>9, MapChunkSorted
  <1>10. CASE (f.kind = "ModReady" /\ ServerModReady(p, f)) \/ ServerMapReady(p, f)
    BY <1>2, <1>10, ReadySorted
  <1> QED
    BY <1>3, <1>4, <1>5, <1>6, <1>7, <1>8, <1>9, <1>10 DEF ServerReads, Quietly, f

\* A validation that is done, and what comes of it.
LEMMA ValidationSorted ==
  ASSUME Typed, ServerSorted, FinishValidation
  PROVE  ServerSortedNext
  <1> DEFINE job == Head(jobs)
             rest == Tail(jobs)
             p == job.client
             a == [seen EXCEPT ![p].modReceive = job.digest]
             b == [seen EXCEPT ![p].mapReceive = job.digest]
             accepted == IF job.mods THEN [room EXCEPT !.mods = job.digest] ELSE [room EXCEPT !.map = job.digest]
  <1>1. /\ room \in Rooms /\ seen \in [Players -> Seen] /\ jobs \in Seq(Jobs) /\ jobs # <<>>
    BY DEF Typed, FinishValidation
  <1>2. /\ job \in Jobs /\ p \in Players /\ rest \in Seq(Jobs) /\ JobsSorted(rest) /\ JobSorted(job)
    <2>1. job \in Jobs /\ rest \in Seq(Jobs) /\ JobsSorted(rest) /\ JobSorted(job)
      BY <1>1, Shorter, TailSorted DEF ServerSorted
    <2> HIDE DEF job
    <2> QED
      BY <2>1 DEF Jobs
  <1>3. job.mods \in BOOLEAN /\ (job.mods => job.digest \in Packs) /\ (~job.mods => job.digest \in Maps)
    <2> HIDE DEF job
    <2> QED
      BY <1>2 DEF Jobs, JobSorted
  <1> DEFINE s == IF job.mods THEN a ELSE b
  <1>4. /\ job.mods => a \in [Players -> Seen] /\ ClientsSorted(a)
        /\ ~job.mods => b \in [Players -> Seen] /\ ClientsSorted(b)
    <2> HIDE DEF job
    <2> DEFINE k == [seen[p] EXCEPT !.modReceive = job.digest]
               m == [seen[p] EXCEPT !.mapReceive = job.digest]
    <2>1. job.digest \in Values /\ seen[p] \in Seen
      BY <1>1, <1>2 DEF Jobs
    <2>2. /\ k \in Seen /\ k.modReady = seen[p].modReady /\ k.modReceive = job.digest
          /\ k.mapReceive = seen[p].mapReceive /\ k.deferred = seen[p].deferred
          /\ m \in Seen /\ m.modReady = seen[p].modReady /\ m.modReceive = seen[p].modReceive
          /\ m.mapReceive = job.digest /\ m.deferred = seen[p].deferred
      BY <2>1 DEF Seen
    <2>3. a = [seen EXCEPT ![p] = k] /\ b = [seen EXCEPT ![p] = m]
      OBVIOUS
    <2> HIDE DEF k, m, a, b
    <2>4. ASSUME job.mods PROVE a \in [Players -> Seen] /\ ClientsSorted(a)
      BY <1>1, <1>2, <1>3, <2>2, <2>3, <2>4, SortTypes DEF ServerSorted, ClientsSorted
    <2>5. ASSUME ~job.mods PROVE b \in [Players -> Seen] /\ ClientsSorted(b)
      BY <1>1, <1>2, <1>3, <2>2, <2>3, <2>5, SortTypes DEF ServerSorted, ClientsSorted
    <2> QED
      BY <2>4, <2>5
  <1>5. s \in [Players -> Seen] /\ ClientsSorted(s)
    <2> HIDE DEF job, a, b
    <2> QED
      BY <1>3, <1>4
  <1>6. RoomSorted(accepted)
    <2> HIDE DEF job
    <2>1. job.mods => RoomSorted([room EXCEPT !.mods = job.digest])
      BY <1>1, <1>3, SortTypes DEF Rooms, RoomSorted, ServerSorted
    <2>2. ~job.mods => RoomSorted([room EXCEPT !.map = job.digest])
      BY <1>1, <1>3, SortTypes DEF Rooms, RoomSorted, ServerSorted
    <2> QED
      BY <2>1, <2>2
  <1>7. /\ ClientsSorted(DropRipe(seen, rest)) /\ ClientsSorted(DropRipe(s, rest))
        /\ DropRipe(seen, rest) \in [Players -> Seen]
        /\ \A r : JobsSorted(TakeDeferred(r, seen, rest)) /\ JobsSorted(TakeDeferred(r, s, rest))
    <2> HIDE DEF s, rest
    <2> QED
      BY <1>1, <1>2, <1>5, DropSorted, TakeSorted DEF ServerSorted
  <1>8. \/ BroadcastLobby(accepted, DropRipe(seen, rest), NoFrames) /\ jobs' = TakeDeferred(accepted, seen, rest)
        \/ room' = room /\ seen' = DropRipe(s, rest) /\ jobs' = TakeDeferred(room, s, rest)
        \/ room' = room /\ seen' = DropRipe(seen, rest) /\ jobs' = TakeDeferred(room, seen, rest)
    BY DEF FinishValidation, Quietly
  <1> HIDE DEF job, rest, s, accepted
  <1> QED
    BY <1>6, <1>7, <1>8, BroadcastSorted DEF ServerSorted, ServerSortedNext

\* What the worker keeps is a package that was offered.
LEMMA WorkerSorted ==
  ASSUME Typed, ServerSorted, stored \subseteq Digests, RunJob
  PROVE  ServerSortedNext /\ stored' \subseteq Digests
  <1>1. PICK i \in DOMAIN jobs, found \in BOOLEAN :
          /\ jobs' = [jobs EXCEPT ![i].done = TRUE, ![i].found = found]
          /\ stored' = IF found THEN stored \cup {jobs[i].digest} ELSE stored
    <2>1. \A job, stopped, x : (~stopped /\ (IF x THEN job.digest \in stored ELSE job.bytes = job.digest)) \in BOOLEAN
      OBVIOUS
    <2> QED
      BY <2>1 DEF RunJob
  <1>2. /\ jobs \in Seq(Jobs) /\ UNCHANGED <<room, seen>>
    BY DEF Typed, RunJob
  <1>3. jobs[i] \in Jobs /\ JobSorted(jobs[i])
    BY <1>2, JobElements DEF ServerSorted, JobsSorted
  <1>4. jobs[i].digest \in Digests
    BY <1>3 DEF JobSorted, Digests, Jobs
  <1> DEFINE job == [jobs[i] EXCEPT !.done = TRUE, !.found = found]
  <1>5. JobSorted(job) /\ jobs' = [jobs EXCEPT ![i] = job]
    <2>1. job.digest = jobs[i].digest /\ job.mods = jobs[i].mods
      BY <1>3 DEF Jobs
    <2> QED
      BY <1>1, <1>3, <2>1 DEF JobSorted
  <1> HIDE DEF job
  <1>6. JobsSorted(jobs')
    BY <1>5 DEF ServerSorted, JobsSorted
  <1> QED
    BY <1>1, <1>2, <1>4, <1>6 DEF ServerSorted, ServerSortedNext

LEMMA ServerStepSorted ==
  ASSUME ServerWas, AllSorted, ServerDone, ServerSortedNext,
         mine' = mine, stored' \subseteq Digests,
         \A p \in Players : up'[p] = up[p] \/ (up[p] # <<>> /\ up'[p] = Tail(up[p]))
  PROVE  AllSorted'
  <1>1. ServerSorted'
    BY DEF ServerSortedNext, ServerSorted
  <1>2. ASSUME NEW p \in Players PROVE MineSorted(mine[p])' /\ SentSorted(up[p])' /\ TellsSorted(down[p])'
    <2>1. up[p] \in Seq(UpFrames) /\ SentSorted(up[p]) /\ TellsSorted(down[p])
      BY DEF ServerWas, Typed, AllSorted
    <2>2. up[p] # <<>> => SentSorted(Tail(up[p]))
      BY <2>1, Shorter DEF SentSorted
    <2>3. TellsSorted(down'[p])
      BY <2>1, ToldSorted DEF ServerSortedNext, ServerWas
    <2> QED
      BY <2>1, <2>2, <2>3 DEF AllSorted
  <1> QED
    BY <1>1, <1>2 DEF AllSorted

-----------------------------------------------------------------------------
(* The steps of a client.                                                   *)

LEMMA OneFrameSorted ==
  ASSUME NEW f, f.kind = "ModOffer" => f.digest \in Packs, f.kind = "MapOffer" => f.digest \in Maps,
         f.kind = "ModReady" => f.digest \in OfMods
  PROVE  SentSorted(<<f>>)
  BY DEF SentSorted

\* What a client makes of a frame is of the right sort, and so is its answer.
Sorts(r) == MineSorted(r.client) /\ SentSorted(r.sends)

LEMMA OfferModsSorted ==
  ASSUME NEW c \in Mine, MineSorted(c)
  PROVE  Sorts(OfferMods(c))
  <1> DEFINE d == [c EXCEPT !.pending = FALSE, !.mapsReady = FALSE, !.modOffered = TRUE,
                            !.modReady = FALSE, !.mapPackage = Nothing, !.mapOffered = FALSE,
                            !.mapReady = FALSE, !.modPackage = c.ticks]
  <1>1. MineSorted(d)
    BY SortTypes DEF Mine, MineSorted
  <1>2. SentSorted(<<Frame("ModOffer", c.ticks)>>)
    BY OneFrameSorted, FrameTypes DEF MineSorted
  <1> QED
    BY <1>1, <1>2 DEF Sorts, OfferMods, Result

LEMMA OfferMapSorted ==
  ASSUME NEW c \in Mine, MineSorted(c)
  PROVE  Sorts(OfferMap(c))
  <1> DEFINE map == IF c.mapPackage = Nothing THEN MapOf[c.ticks] ELSE c.mapPackage
             d == [c EXCEPT !.mapPackage = map, !.mapOffered = TRUE]
  <1>1. map \in Maps
    BY SortTypes DEF MineSorted, Maps
  <1> HIDE DEF map
  <1>2. MineSorted(d)
    BY <1>1, SortTypes DEF Mine, MineSorted
  <1>3. SentSorted(<<Frame("MapOffer", map)>>)
    BY <1>1, OneFrameSorted, FrameTypes
  <1> QED
    BY <1>2, <1>3 DEF Sorts, OfferMap, Result, map

LEMMA NoneSorted == SentSorted(<<>>)
  BY DEF SentSorted

LEMMA SentJoined ==
  ASSUME NEW q \in Seq(UpFrames), NEW t \in Seq(UpFrames), SentSorted(q), SentSorted(t)
  PROVE  SentSorted(q \o t)
  BY UpJoined DEF SentSorted

LEMMA LobbyStateSorted ==
  ASSUME NEW p \in Players, NEW c \in Mine, MineSorted(c), Sound(c), c.at \notin {"left", "started"},
         NEW f \in DownFrames, f.kind = "LobbyState"
  PROVE  Sorts(ReadLobbyState(p, c, f))
  <1> DEFINE told == [c EXCEPT !.at = IF @ = "held" THEN "held" ELSE "room", !.host = f.host, !.mapsReady = f.ready]
             mods == IF f.host = p /\ ~c.modOffered THEN OfferMods(told) ELSE Result(told, <<>>)
             map == IF f.host = p /\ ~mods.client.mapOffered THEN OfferMap(mods.client)
                    ELSE Result(mods.client, <<>>)
  <1>1. f.host \in Optional(Players) /\ f.ready \in BOOLEAN
    BY DEF DownFrames, Downward
  <1>2. told \in Mine /\ MineSorted(told) /\ Sound(told) /\ told.at \in {"room", "held"}
    BY <1>1 DEF Mine, MineSorted, Sound
  <1> HIDE DEF told
  <1>3. mods.client \in Mine /\ Sorts(mods) /\ UpWell(mods.sends) /\ Sound(mods.client) /\ mods.client.at \in {"room", "held"}
    <2>1. /\ OfferMods(told).client \in Mine /\ Sorts(OfferMods(told)) /\ UpWell(OfferMods(told).sends)
          /\ Sound(OfferMods(told).client) /\ OfferMods(told).client.at \in {"room", "held"}
      BY <1>2, OffersMods, OfferModsSorted DEF NoMore
    <2>2. Result(told, <<>>).client = told /\ Result(told, <<>>).sends = <<>>
      BY DEF Result
    <2> QED
      BY <1>2, <2>1, <2>2, NoneSorted, NoneUp DEF Sorts
  <1> HIDE DEF mods
  <1>4. Sorts(map) /\ UpWell(map.sends)
    <2>1. Sorts(OfferMap(mods.client)) /\ UpWell(OfferMap(mods.client).sends)
      <3>1. Sorts(OfferMap(mods.client))
        BY <1>3, OfferMapSorted DEF Sorts
      <3> QED
        BY <1>3, <3>1, OffersMap
    <2>2. Result(mods.client, <<>>).client = mods.client /\ Result(mods.client, <<>>).sends = <<>>
      BY DEF Result
    <2> QED
      BY <1>3, <2>1, <2>2, NoneSorted, NoneUp DEF Sorts
  <1> HIDE DEF map
  <1>5. SentSorted(mods.sends \o map.sends)
    BY <1>3, <1>4, SentJoined DEF UpWell, Sorts
  <1>6. ReadLobbyState(p, c, f) = Result(map.client, mods.sends \o map.sends)
    BY DEF ReadLobbyState, map, mods, told
  <1> QED
    BY <1>4, <1>5, <1>6 DEF Sorts, Result

LEMMA AcceptSorted ==
  ASSUME NEW c \in Mine, MineSorted(c), NEW d
  PROVE  /\ d \in OfMods => Sorts(AcceptMods(c, d))
         /\ d \in OfMap => Sorts(AcceptMap(c, d))
  <1>1. ASSUME NEW e, MineSorted(e) PROVE MineSorted(Starts(e))
    <2>1. CASE Starts(e) = e
      BY <1>1, <2>1
    <2>2. CASE Starts(e) = [e EXCEPT !.at = "started"]
      BY <1>1, <2>2 DEF MineSorted
    <2> QED
      BY <2>1, <2>2 DEF Starts
  <1>2. ASSUME d \in OfMods PROVE Sorts(AcceptMods(c, d))
    <2> DEFINE e == [c EXCEPT !.modPackage = d, !.modReceive = Nothing, !.modReady = TRUE, !.has = @ \cup {d}]
    <2>1. MineSorted(e)
      BY <1>2, SortTypes DEF Mine, MineSorted
    <2> HIDE DEF e
    <2>2. MineSorted(Starts(e)) /\ SentSorted(<<Frame("ModReady", d)>>)
      BY <1>1, <1>2, <2>1, OneFrameSorted, FrameTypes
    <2> QED
      BY <2>2 DEF AcceptMods, Result, Sorts, e
  <1>3. ASSUME d \in OfMap PROVE Sorts(AcceptMap(c, d))
    <2> DEFINE e == [c EXCEPT !.mapPackage = d, !.mapReceive = Nothing, !.mapReady = TRUE, !.has = @ \cup {d}]
    <2>1. MineSorted(e)
      BY <1>3, SortTypes DEF Mine, MineSorted
    <2> HIDE DEF e
    <2>2. MineSorted(Starts(e)) /\ SentSorted(<<Frame("MapReady", d)>>)
      BY <1>1, <2>1, OneFrameSorted, FrameTypes
    <2> QED
      BY <2>2 DEF AcceptMap, Result, Sorts, e
  <1> QED
    BY <1>2, <1>3

\* What a client sends otherwise: a request, an error, or nothing.
LEMMA PlainFrames ==
  \A d : \A kind \in {"ModRequest", "ModError", "MapRequest", "MapError", "ModChunk", "MapChunk",
                      "Join", "Leave", "Start"} :
    SentSorted(<<Frame(kind, d)>>)
  BY OneFrameSorted, FrameTypes

LEMMA ClientReadsSorted ==
  ASSUME NEW p \in Players, NEW c \in Mine, MineSorted(c), Sound(c), c.at \notin {"left", "started"},
         NEW f \in DownFrames,
         f.kind \in {"ModOffer", "ModChunk"} => f.digest \in OfMods,
         f.kind \in {"MapOffer", "MapChunk"} => f.digest \in OfMap
  PROVE  Sorts(Reads(p, c, f))
  <1>1. f.kind \in Downward \cup {"LobbyState"}
    BY DEF DownFrames
  <1>2. Sorts(ModsFail(c)) /\ Sorts(MapFailsHere(c)) /\ Sorts(Result(c, <<>>))
    <2>1. /\ MineSorted([c EXCEPT !.modReceive = Nothing, !.modSend = Nothing, !.modReady = FALSE])
          /\ MineSorted([c EXCEPT !.mapReceive = Nothing, !.mapSend = Nothing, !.mapReady = FALSE])
      BY SortTypes DEF Mine, MineSorted
    <2> QED
      BY <2>1, PlainFrames, NoneSorted DEF ModsFail, MapFailsHere, Result, Sorts
  <1>3. CASE f.kind = "LobbyState"
    BY <1>3, LobbyStateSorted DEF Reads
  <1>4. CASE f.kind = "ModOffer"
    <2> DEFINE told == [c EXCEPT !.modReceive = f.digest, !.modReady = FALSE]
    <2>1. f.digest \in Values
      BY <1>4 DEF DownFrames
    <2>2. told \in Mine /\ MineSorted(told)
      BY <1>4, <2>1 DEF Mine, MineSorted
    <2> HIDE DEF told
    <2>3. Sorts(Result(told, <<Frame("ModRequest", f.digest)>>))
      BY <2>2, PlainFrames DEF Result, Sorts
    <2> QED
      BY <1>4, <2>2, <2>3, AcceptSorted DEF Reads, ReadModOffer, told
  <1>5. CASE f.kind = "MapOffer"
    <2> DEFINE told == [c EXCEPT !.mapReady = FALSE, !.mapReceive = f.digest]
    <2>1. f.digest \in Values
      BY <1>5 DEF DownFrames
    <2>2. told \in Mine /\ MineSorted(told)
      BY <1>5, <2>1 DEF Mine, MineSorted
    <2> HIDE DEF told
    <2>3. Sorts(Result(told, <<Frame("MapRequest", Nothing)>>))
      BY <2>2, PlainFrames DEF Result, Sorts
    <2> QED
      BY <1>2, <1>5, <2>2, <2>3, AcceptSorted DEF Reads, ReadMapOffer, told
  <1>6. CASE f.kind = "ModRequest"
    <2>1. MineSorted([c EXCEPT !.modSend = c.modPackage])
      BY DEF Mine, MineSorted
    <2>2. Sorts(Result([c EXCEPT !.modSend = c.modPackage], <<>>))
      BY <2>1, NoneSorted DEF Result, Sorts
    <2> QED
      BY <1>2, <1>6, <2>2 DEF Reads, ReadModRequest
  <1>7. CASE f.kind = "MapRequest"
    <2>1. MineSorted([c EXCEPT !.mapSend = c.mapPackage])
      BY DEF Mine, MineSorted
    <2>2. Sorts(Result([c EXCEPT !.mapSend = c.mapPackage], <<>>))
      BY <2>1, NoneSorted DEF Result, Sorts
    <2> QED
      BY <1>2, <1>7, <2>2 DEF Reads, ReadMapRequest
  <1>8. CASE f.kind = "ModChunk"
    BY <1>2, <1>8, AcceptSorted DEF Reads, ReadModChunk
  <1>9. CASE f.kind = "MapChunk"
    BY <1>2, <1>9, AcceptSorted DEF Reads, ReadMapChunk
  <1>10. CASE f.kind \in {"ModError", "MapError", "GameStarting"}
    <2>1. /\ MineSorted([c EXCEPT !.modReceive = Nothing, !.modSend = Nothing, !.modReady = FALSE])
          /\ MineSorted([c EXCEPT !.startSent = FALSE])
          /\ \A at, sent : MineSorted([c EXCEPT !.at = at, !.startSent = sent])
      BY SortTypes DEF Mine, MineSorted
    <2>2. \A at, sent : Sorts(Result([c EXCEPT !.at = at, !.startSent = sent], <<>>))
      BY <2>1, NoneSorted DEF Result, Sorts
    <2>3. /\ Sorts(Result([c EXCEPT !.modReceive = Nothing, !.modSend = Nothing, !.modReady = FALSE], <<>>))
          /\ Sorts(Result([c EXCEPT !.startSent = FALSE], <<>>))
      BY <2>1, NoneSorted DEF Result, Sorts
    <2>4. f.kind = "GameStarting" => Sorts(Reads(p, c, f))
      <3>1. \E at, sent : ReadGameStarting(c) = Result([c EXCEPT !.at = at, !.startSent = sent], <<>>)
        BY DEF ReadGameStarting
      <3> QED
        BY <2>2, <3>1 DEF Reads
    <2>5. f.kind = "ModError" => Sorts(Reads(p, c, f))
      BY <2>3 DEF Reads
    <2>6. f.kind = "MapError" => Sorts(Reads(p, c, f))
      BY <2>3 DEF Reads
    <2> QED
      BY <1>10, <2>4, <2>5, <2>6
  <1> QED
    BY <1>1, <1>3, <1>4, <1>5, <1>6, <1>7, <1>8, <1>9, <1>10 DEF Downward

\* A client takes a step: its own record changes, it sends t, and it may have
\* read the frame that was next.
LEMMA ClientStepSorted ==
  ASSUME AllSorted, Typed, NEW p \in Players, UNCHANGED <<room, seen, jobs, stored>>,
         NEW c, mine' = [mine EXCEPT ![p] = c], MineSorted(c),
         NEW t \in Seq(UpFrames), SentSorted(t), up' = [up EXCEPT ![p] = up[p] \o t],
         down' = down \/ (down[p] # <<>> /\ down' = [down EXCEPT ![p] = Tail(down[p])])
  PROVE  AllSorted'
  <1>1. ServerSorted' /\ stored' \subseteq Digests
    BY DEF AllSorted, ServerSorted
  <1>2. SentSorted(up[p] \o t)
    BY SentJoined DEF AllSorted, Typed
  <1>3. down[p] # <<>> => TellsSorted(Tail(down[p]))
    BY Shorter DEF AllSorted, Typed, TellsSorted
  <1>4. ASSUME NEW q \in Players PROVE MineSorted(mine[q])' /\ SentSorted(up[q])' /\ TellsSorted(down[q])'
    <2>1. MineSorted(mine[q]) /\ SentSorted(up[q]) /\ TellsSorted(down[q])
      BY DEF AllSorted
    <2>2. mine'[q] = IF q = p THEN c ELSE mine[q]
      BY DEF Typed
    <2>3. up'[q] = IF q = p THEN up[p] \o t ELSE up[q]
      BY DEF Typed
    <2>4. down'[q] = down[q] \/ (q = p /\ down[p] # <<>> /\ down'[q] = Tail(down[p]))
      BY DEF Typed
    <2> QED
      BY <1>2, <1>3, <2>1, <2>2, <2>3, <2>4
  <1> QED
    BY <1>1, <1>4 DEF AllSorted

LEMMA OwnStepsSorted ==
  ASSUME IInv, AllSorted, NEW p \in Players,
         \/ ClientSendsMods(p) \/ ClientSendsMap(p) \/ TickPacks(p) \/ OfferTicked(p)
         \/ RequestStart(p) \/ JoinGame(p) \/ LeaveGame(p)
  PROVE  AllSorted'
  <1> DEFINE m == mine[p]
  <1>1. m \in Mine /\ MineSorted(m) /\ Typed /\ PlayerInStep(p)
    BY DEF IInv, Typed, AllSorted, PlayersInStep
  <1>2. Sound(m)
    BY <1>1 DEF PlayerInStep, ClientInStep, Sound
  <1>3. ASSUME NEW c, MineSorted(c), NEW t \in Seq(UpFrames), SentSorted(t), Sends(p, c, t) PROVE AllSorted'
    BY <1>1, <1>3, ClientStepSorted DEF Sends
  <1>4. ASSUME NEW kind \in {"ModChunk", "MapChunk", "Join", "Leave", "Start"}, NEW d \in Values
        PROVE  <<Frame(kind, d)>> \in Seq(UpFrames) /\ SentSorted(<<Frame(kind, d)>>)
    <2>1. kind \in Plain
      BY DEF Plain
    <2>2. Frame(kind, d) \in UpFrames
      BY <2>1, FrameTypes
    <2> QED
      BY <2>2, OneFrame, PlainFrames
  <1>5. m.modSend \in Values /\ m.mapSend \in Values /\ Nothing \in Values /\ m.ticks \in Packs
    BY <1>1, PieceTypes DEF Mine
  <1>6. CASE ClientSendsMods(p)
    <2> DEFINE c == [m EXCEPT !.modSend = Nothing]
    <2>1. MineSorted(c)
      BY <1>1, SortTypes DEF Mine, MineSorted
    <2> HIDE DEF c
    <2> QED
      BY <1>3, <1>4, <1>5, <1>6, <2>1 DEF ClientSendsMods, c
  <1>7. CASE ClientSendsMap(p)
    <2> DEFINE c == [m EXCEPT !.mapSend = Nothing]
    <2>1. MineSorted(c)
      BY <1>1, SortTypes DEF Mine, MineSorted
    <2> HIDE DEF c
    <2> QED
      BY <1>3, <1>4, <1>5, <1>7, <2>1 DEF ClientSendsMap, c
  <1>8. CASE TickPacks(p)
    <2>1. PICK d \in Packs :
            Sends(p, [mine[p] EXCEPT !.ticks = d, !.pending = TRUE, !.modOffered = TRUE, !.mapsReady = FALSE], <<>>)
      BY <1>8 DEF TickPacks
    <2>2. MineSorted([mine[p] EXCEPT !.ticks = d, !.pending = TRUE, !.modOffered = TRUE, !.mapsReady = FALSE])
      BY <1>1 DEF Mine, MineSorted
    <2> QED
      BY <1>3, <2>1, <2>2, NoneSorted, EmptySeq
  <1>9. CASE OfferTicked(p)
    <2> DEFINE r == OfferMods(m)
    <2>1. Sends(p, r.client, r.sends) /\ m.at \notin {"left", "started"}
      BY <1>9 DEF OfferTicked, InRoom
    <2>2. Sorts(r) /\ UpWell(r.sends)
      BY <1>1, <1>2, <2>1, OfferModsSorted, OffersMods
    <2> HIDE DEF r
    <2> QED
      BY <1>3, <2>1, <2>2 DEF Sorts, UpWell
  <1>10. CASE RequestStart(p)
    <2>1. MineSorted([mine[p] EXCEPT !.startSent = TRUE])
      BY <1>1 DEF Mine, MineSorted
    <2> QED
      BY <1>3, <1>4, <1>5, <1>10, <2>1 DEF RequestStart
  <1>11. CASE JoinGame(p)
    <2>1. MineSorted([mine[p] EXCEPT !.at = "joining"])
      BY <1>1 DEF Mine, MineSorted
    <2> QED
      BY <1>3, <1>4, <1>5, <1>11, <2>1 DEF JoinGame
  <1>12. CASE LeaveGame(p)
    <2>1. MineSorted([Offline(m.ticks) EXCEPT !.at = "left"])
      <3> DEFINE o == Offline(m.ticks)
      <3>1. MineSorted(o)
        BY <1>5, SortTypes DEF Offline, MineSorted
      <3>2. [o EXCEPT !.at = "left"] = [Offline(m.ticks) EXCEPT !.at = "left"]
        OBVIOUS
      <3> HIDE DEF o
      <3>3. MineSorted([o EXCEPT !.at = "left"])
        BY <3>1 DEF MineSorted
      <3> QED
        BY <3>2, <3>3
    <2> QED
      BY <1>3, <1>4, <1>5, <1>12, <2>1 DEF LeaveGame
  <1> QED
    BY <1>6, <1>7, <1>8, <1>9, <1>10, <1>11, <1>12

LEMMA ClientReadsKeepSorted ==
  ASSUME IInv, AllSorted, NEW p \in Players, ClientReads(p)
  PROVE  AllSorted'
  <1> DEFINE q == down[p]
             f == Head(q)
             r == Reads(p, mine[p], f)
  <1>1. /\ Typed /\ PlayerInStep(p) /\ q \in Seq(DownFrames) /\ q # <<>>
        /\ mine[p] \in Mine /\ MineSorted(mine[p]) /\ TellsSorted(q)
        /\ mine \in [Players -> Mine] /\ up \in [Players -> Seq(UpFrames)]
        /\ UNCHANGED <<room, seen, jobs, stored>> /\ down' = [down EXCEPT ![p] = Tail(q)]
    BY DEF IInv, Typed, PlayersInStep, AllSorted, ClientReads
  <1>2. CASE Followed(p)
    <2>1. f \in DownFrames /\ f = q[1] /\ 1 \in DOMAIN q
      BY <1>1, Shorter
    <2>2. /\ f.kind \in {"ModOffer", "ModChunk"} => f.digest \in OfMods
          /\ f.kind \in {"MapOffer", "MapChunk"} => f.digest \in OfMap
      BY <1>1, <2>1 DEF TellsSorted
    <2>3. Sound(mine[p]) /\ (f.kind = "MapOffer" => f.digest # Nothing)
      BY <1>1, <2>1 DEF PlayerInStep, ClientInStep, Sound
    <2>4. mine[p].at \notin {"left", "started"}
      BY <1>2 DEF Followed
    <2>5. mine' = [mine EXCEPT ![p] = r.client] /\ up' = [up EXCEPT ![p] = up[p] \o r.sends]
      BY <1>2 DEF ClientReads
    <2> HIDE DEF f
    <2>6. Sorts(r) /\ ReadsWell(mine[p], f, r)
      BY <1>1, <2>1, <2>2, <2>3, <2>4, ClientReadsSorted, ReadsAnything
    <2> HIDE DEF r
    <2>7. r.sends \in Seq(UpFrames)
      BY <2>6 DEF ReadsWell, UpWell
    <2> QED
      BY <1>1, <2>5, <2>6, <2>7, ClientStepSorted DEF Sorts
  <1>3. CASE ~Followed(p)
    <2>1. mine' = [mine EXCEPT ![p] = mine[p]] /\ UNCHANGED up
      BY <1>1, <1>3 DEF ClientReads
    <2>2. up[p] \o <<>> = up[p] /\ <<>> \in Seq(UpFrames)
      BY <1>1, ConcatEmptySeq, EmptySeq
    <2>3. up' = [up EXCEPT ![p] = up[p] \o <<>>]
      BY <1>1, <2>1, <2>2
    <2> QED
      BY <1>1, <2>1, <2>2, <2>3, ClientStepSorted, NoneSorted
  <1> QED
    BY <1>2, <1>3

-----------------------------------------------------------------------------
(* The type invariant.                                                      *)

LEMMA InitSorted == PkInit => AllSorted
  <1> SUFFICES ASSUME PkInit PROVE AllSorted
    OBVIOUS
  <1>1. ServerSorted
    <2>1. RoomSorted(room) /\ ClientsSorted(seen)
      BY SortTypes DEF PkInit, RoomSorted, ClientsSorted, Away
    <2>2. JobsSorted(jobs)
      <3>1. jobs = <<>>
        BY DEF PkInit
      <3>2. DOMAIN jobs = {}
        BY <3>1
      <3> QED
        BY <3>2 DEF JobsSorted
    <2> QED
      BY <2>1, <2>2 DEF ServerSorted
  <1>2. stored \subseteq Digests
    BY PackagesAssumption DEF PkInit
  <1>3. ASSUME NEW p \in Players PROVE MineSorted(mine[p]) /\ SentSorted(up[p]) /\ TellsSorted(down[p])
    <2> DEFINE o == Offline(FirstTicks[p])
    <2>1. FirstTicks[p] \in Packs /\ MapOf[FirstTicks[p]] \in Maps
      BY PackagesAssumption DEF Maps
    <2>2. MineSorted(o) /\ o \in Mine
      BY <2>1, PieceTypes, SortTypes DEF Offline, MineSorted, Mine, Optional
    <2>3. mine[p] = IF p = Host THEN [o EXCEPT !.at = "joining", !.mapPackage = MapOf[FirstTicks[p]]] ELSE o
      BY DEF PkInit
    <2> HIDE DEF o
    <2>4. MineSorted([o EXCEPT !.at = "joining", !.mapPackage = MapOf[FirstTicks[p]]])
      BY <2>1, <2>2, SortTypes DEF Mine, MineSorted
    <2>5. SentSorted(up[p])
      BY NoneSorted DEF PkInit, NoFrames
    <2>6. TellsSorted(down[p])
      <3>1. down[p] = IF p = Host THEN <<LobbyState(Host, FALSE)>> ELSE <<>>
        BY DEF PkInit
      <3>2. \A i \in DOMAIN down[p] : down[p][i] = LobbyState(Host, FALSE)
        <4> DEFINE f == LobbyState(Host, FALSE)
        <4> HIDE DEF f
        <4>1. p = Host => down[p] = <<f>>
          BY <3>1 DEF f
        <4>2. p # Host => DOMAIN down[p] = {}
          BY <3>1
        <4>3. \A i \in DOMAIN down[p] : down[p][i] = f
          BY <4>1, <4>2
        <4> QED
          BY <4>3 DEF f
      <3>3. LobbyState(Host, FALSE).kind = "LobbyState"
        BY DEF LobbyState
      <3> QED
        BY <3>2, <3>3 DEF TellsSorted
    <2> QED
      BY <2>2, <2>3, <2>4, <2>5, <2>6
  <1> QED
    BY <1>1, <1>2, <1>3 DEF AllSorted

LEMMA NextSorted == IInv /\ AllSorted /\ [PkNext]_pkVars => AllSorted'
  <1> SUFFICES ASSUME IInv, AllSorted, [PkNext]_pkVars PROVE AllSorted'
    OBVIOUS
  <1>1. ServerWas /\ PlayersInStep /\ Typed /\ ServerSorted /\ stored \subseteq Digests
    BY DEF IInv, ServerWas, AllSorted
  <1>2. ASSUME NEW p \in Players, ServerReads(p) PROVE AllSorted'
    <2>1. ServerDone
      BY <1>1, <1>2, ServerReadsDone
    <2>2. ServerSortedNext
      BY <1>1, <1>2, ReadsSorted DEF AllSorted
    <2>3. /\ mine' = mine /\ stored' = stored
          /\ \A q \in Players : up'[q] = up[q] \/ (up[q] # <<>> /\ up'[q] = Tail(up[q]))
      BY <1>1, <1>2 DEF ServerReads, Typed
    <2> QED
      BY <1>1, <2>1, <2>2, <2>3, ServerStepSorted
  <1>3. ASSUME NEW p \in Players, ServerSendsMods(p) \/ ServerSendsMap(p) PROVE AllSorted'
    <2>1. ServerDone /\ UNCHANGED <<room, mine, jobs, stored, up>>
      BY <1>1, <1>3, ServerSendsDone DEF ServerSendsMods, ServerSendsMap
    <2> DEFINE k == [seen[p] EXCEPT !.modSend = Nothing]
               m == [seen[p] EXCEPT !.mapSend = Nothing]
    <2>2. seen[p] \in Seen
      BY <1>1 DEF Typed
    <2>3. \A e \in {k, m} : e.modReady = seen[p].modReady /\ e.modReceive = seen[p].modReceive
                            /\ e.mapReceive = seen[p].mapReceive /\ e.deferred = seen[p].deferred
      BY <2>2 DEF Seen
    <2>4. \E e \in {k, m} : seen' = [seen EXCEPT ![p] = e]
      BY <1>3 DEF ServerSendsMods, ServerSendsMap
    <2> HIDE DEF k, m
    <2>5. ClientsSorted(seen')
      BY <1>1, <2>3, <2>4, OneSorted DEF ServerSorted, ClientsSorted
    <2> QED
      BY <1>1, <2>1, <2>5, ServerStepSorted DEF ServerSortedNext, ServerSorted
  <1>4. ASSUME NEW p \in Players, ClientReads(p) PROVE AllSorted'
    BY <1>4, ClientReadsKeepSorted
  <1>5. ASSUME NEW p \in Players,
               \/ ClientSendsMods(p) \/ ClientSendsMap(p) \/ TickPacks(p) \/ OfferTicked(p)
               \/ RequestStart(p) \/ JoinGame(p) \/ LeaveGame(p)
        PROVE  AllSorted'
    BY <1>5, OwnStepsSorted
  <1>6. CASE RunJob
    BY <1>1, <1>6, RunJobDone, WorkerSorted, ServerStepSorted DEF RunJob
  <1>7. CASE FinishValidation
    BY <1>1, <1>7, FinishValidationDone, ValidationSorted, ServerStepSorted DEF FinishValidation
  <1>8. CASE TakeDeferredOffer
    <2>1. ServerSortedNext
      BY <1>1, <1>8, DropSorted, TakeSorted DEF TakeDeferredOffer, Typed, ServerSorted, ServerSortedNext
    <2> QED
      BY <1>1, <1>8, <2>1, TakeDeferredOfferDone, ServerStepSorted DEF TakeDeferredOffer
  <1>9. CASE UNCHANGED pkVars
    BY <1>9 DEF pkVars, AllSorted, ServerSorted
  <1> QED
    BY <1>2, <1>3, <1>4, <1>5, <1>6, <1>7, <1>8, <1>9 DEF PkNext

\* Every variable holds what the code can put in it: a digest of mods and one of
\* a map are never taken for each other, on the way or at either end
\* (Server::modMsg, mapMsg, finishValidations; MpClient::modFrame, mapFrame).
THEOREM PackagesTyped == PkSpec => []PkTypeOK
  <1>1. IInv /\ AllSorted => PkTypeOK
    <2> SUFFICES ASSUME IInv, AllSorted PROVE PkTypeOK
      OBVIOUS
    <2>1. /\ room \in Rooms /\ RoomSorted(room) /\ seen \in [Players -> Seen] /\ mine \in [Players -> Mine]
          /\ Membership(room, seen) /\ Offering(room, seen)
      BY DEF IInv, Typed, ServerInStep, AllSorted, ServerSorted
    <2>2. room \in [host : Optional(Players), mods : Optional(Packs), map : Optional(Maps), running : BOOLEAN]
      BY <2>1 DEF Rooms, RoomSorted, OfMods, OfMap
    <2>3. ASSUME NEW p \in Players
          PROVE  /\ {seen[p].modReady, seen[p].modOffered, seen[p].modReceive, seen[p].modSend} \subseteq Optional(Packs)
                 /\ {seen[p].mapReceive, seen[p].mapSend, seen[p].deferred} \subseteq Optional(Maps)
      <3>1. seen[p].modReady \in OfMods /\ seen[p].modReceive \in OfMods
            /\ seen[p].mapReceive \in OfMap /\ seen[p].deferred \in OfMap
        BY DEF AllSorted, ServerSorted, ClientsSorted
      <3>2. seen[p].modOffered \in {Nothing, room.mods}
        BY <2>1 DEF Membership, Offering, Away
      <3>3. seen[p].modSend \in {Nothing, room.mods} /\ seen[p].mapSend \in {Nothing, room.map}
        BY <2>1 DEF Offering
      <3> QED
        BY <2>1, <3>1, <3>2, <3>3, SortTypes DEF RoomSorted, OfMods, OfMap
    <2>4. ASSUME NEW p \in Players
          PROVE  /\ mine[p].at \in {"lobby", "joining", "room", "held", "started", "left"}
                 /\ {mine[p].modPackage, mine[p].modReceive, mine[p].modSend} \subseteq Optional(Packs)
                 /\ {mine[p].mapPackage, mine[p].mapReceive, mine[p].mapSend} \subseteq Optional(Maps)
      BY <2>1 DEF AllSorted, MineSorted, Mine, OfMods, OfMap
    <2>5. \A i \in DOMAIN jobs : jobs[i].digest \in IF jobs[i].mods THEN Packs ELSE Maps
      BY DEF AllSorted, ServerSorted, JobsSorted, JobSorted
    <2>6. DOMAIN seen = Players /\ DOMAIN mine = Players /\ stored \subseteq Digests
      BY <2>1 DEF AllSorted
    <2> QED
      BY <2>2, <2>3, <2>4, <2>5, <2>6 DEF PkTypeOK
  <1> QED
    BY <1>1, InitInStep, NextInStep, InitSorted, NextSorted, PTL DEF PkSpec
=============================================================================
