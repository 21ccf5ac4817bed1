---------------------------- MODULE ReadyProofs -----------------------------
(***************************************************************************)
(* For any players, selections of packs, maps and store: as long as no     *)
(* host has changed its ticks or left, nobody in a room waits for a        *)
(* package that never comes.                                               *)
(*                                                                         *)
(* It is a matter of counting.  There is one package of mods and one of    *)
(* the map, and each is in exactly one place on its way from the host's    *)
(* offer to the room (ModsComing, MapComing); and once the room has it, it *)
(* is in exactly one place on its way to each player there, as the offer,  *)
(* the request, the bytes or the answer (GetsMods, GetsMap).  When nothing *)
(* is under way only the last place is left.                               *)
(***************************************************************************)
EXTENDS PackagesProofs, FiniteSetTheorems

-----------------------------------------------------------------------------
(* Counting frames.                                                         *)

Bit(x) == IF x THEN 1 ELSE 0
\* How many frames of a kind are on their way.
Num(q, kind) == Cardinality({i \in DOMAIN q : q[i].kind = kind})

LEMMA BitValue == \A x : Bit(x) \in {0, 1} /\ (x => Bit(x) = 1) /\ (~x => Bit(x) = 0)
  BY DEF Bit

LEMMA PlacesFinite ==
  ASSUME NEW S, NEW q \in Seq(S), NEW kind
  PROVE  IsFiniteSet({i \in 1 .. Len(q) : q[i].kind = kind})
  <1>1. 1 \in Int /\ Len(q) \in Int
    BY LenProperties
  <1>2. IsFiniteSet(1 .. Len(q))
    BY <1>1, FS_Interval
  <1>3. {i \in 1 .. Len(q) : q[i].kind = kind} \in SUBSET (1 .. Len(q))
    OBVIOUS
  <1> QED
    BY <1>2, <1>3, FS_Subset

LEMMA NumNat ==
  ASSUME NEW S, NEW q \in Seq(S), NEW kind
  PROVE  /\ Num(q, kind) \in Nat
         /\ Num(q, kind) = 0 <=> \A i \in DOMAIN q : q[i].kind # kind
  <1> DEFINE A == {i \in DOMAIN q : q[i].kind = kind}
  <1>1. IsFiniteSet(A)
    BY PlacesFinite, LenProperties
  <1>2. Cardinality(A) \in Nat /\ (Cardinality(A) = 0 <=> A = {})
    BY <1>1, FS_CardinalityType, FS_EmptySet
  <1> QED
    BY <1>2 DEF Num

LEMMA NumJoined ==
  ASSUME NEW S, NEW q \in Seq(S), NEW t \in Seq(S), NEW kind
  PROVE  Num(q \o t, kind) = Num(q, kind) + Num(t, kind)
  <1> DEFINE n == Len(q)
             m == Len(t)
             w == q \o t
             A == {i \in 1 .. n : q[i].kind = kind}
             B == {i \in 1 .. m : t[i].kind = kind}
             C == {i \in 1 .. n + m : w[i].kind = kind}
             D == {i \in C : i > n}
             f == [i \in B |-> n + i]
  <1>1. /\ n \in Nat /\ m \in Nat /\ DOMAIN q = 1 .. n /\ DOMAIN t = 1 .. m /\ DOMAIN w = 1 .. n + m
        /\ \A i \in 1 .. n : w[i] = q[i]
        /\ \A i \in 1 .. m : w[n + i] = t[i]
        /\ \A i \in 1 .. n + m : i > n => i - n \in 1 .. m /\ w[i] = t[i - n]
    BY Joined
  <1>2. IsFiniteSet(A) /\ IsFiniteSet(B)
    BY PlacesFinite
  <1>3. Num(q, kind) = Cardinality(A) /\ Num(t, kind) = Cardinality(B) /\ Num(w, kind) = Cardinality(C)
    BY <1>1 DEF Num
  <1> HIDE DEF n, m, w
  <1>4. C = A \cup D /\ A \cap D = {}
    <2>1. ASSUME NEW i \in A PROVE i \in C /\ i \notin D
      BY <1>1
    <2>2. ASSUME NEW i \in C PROVE i \in A \/ i \in D
      BY <1>1
    <2> QED
      BY <2>1, <2>2
  <1>5. f \in Bijection(B, D)
    <2>1. ASSUME NEW i \in B PROVE n + i \in D
      BY <1>1
    <2>2. ASSUME NEW i \in D PROVE i - n \in B /\ n + (i - n) = i
      BY <1>1
    <2>3. f \in [B -> D]
      BY <2>1
    <2>4. \A a, b \in B : f[a] = f[b] => a = b
      BY <1>1
    <2>5. \A i \in D : \E a \in B : f[a] = i
      BY <2>2
    <2> HIDE DEF f, B, D
    <2>6. f \in Injection(B, D)
      BY <2>3, <2>4 DEF Injection, IsInjective
    <2>7. f \in Surjection(B, D)
      BY <2>3, <2>5 DEF Surjection
    <2> QED
      BY <2>6, <2>7 DEF Bijection
  <1>6. IsFiniteSet(D) /\ Cardinality(D) = Cardinality(B)
    <2>1. ExistsBijection(B, D)
      BY <1>5 DEF ExistsBijection
    <2> HIDE DEF B, D
    <2> QED
      BY <1>2, <2>1, FS_Bijection
  <1>7. Cardinality(A \cup D) = Cardinality(A) + Cardinality(D) - Cardinality(A \cap D)
    <2> HIDE DEF A, D
    <2> QED
      BY <1>2, <1>6, FS_Union
  <1>8. Cardinality(A) \in Nat /\ Cardinality(D) \in Nat /\ Cardinality(A \cap D) = 0
    <2> HIDE DEF A, D
    <2> QED
      BY <1>2, <1>4, <1>6, FS_CardinalityType, FS_EmptySet
  <1> HIDE DEF A, B, C, D
  <1> QED
    BY <1>3, <1>4, <1>6, <1>7, <1>8 DEF w

LEMMA NumOne == \A f, kind : Num(<<f>>, kind) = IF f.kind = kind THEN 1 ELSE 0
  <1> SUFFICES ASSUME NEW f, NEW kind PROVE Num(<<f>>, kind) = IF f.kind = kind THEN 1 ELSE 0
    OBVIOUS
  <1>1. {i \in DOMAIN <<f>> : <<f>>[i].kind = kind} = IF f.kind = kind THEN {1} ELSE {}
    OBVIOUS
  <1> QED
    BY <1>1, FS_Singleton, FS_EmptySet DEF Num

LEMMA NumNone == \A kind : Num(<<>>, kind) = 0
  <1>1. \A kind : {i \in DOMAIN <<>> : <<>>[i].kind = kind} = {}
    OBVIOUS
  <1> QED
    BY <1>1, FS_EmptySet DEF Num

\* One frame more, or read.
LEMMA NumAdded ==
  ASSUME NEW S, NEW q \in Seq(S), NEW f \in S
  PROVE  \A kind : Num(q \o <<f>>, kind) = IF f.kind = kind THEN Num(q, kind) + 1 ELSE Num(q, kind)
  <1> SUFFICES ASSUME NEW kind
               PROVE  Num(q \o <<f>>, kind) = IF f.kind = kind THEN Num(q, kind) + 1 ELSE Num(q, kind)
    OBVIOUS
  <1>1. <<f>> \in Seq(S) /\ Num(q, kind) \in Nat
    BY OneFrame, NumNat
  <1>2. Num(q \o <<f>>, kind) = Num(q, kind) + Num(<<f>>, kind)
    BY <1>1, NumJoined
  <1> QED
    BY <1>1, <1>2, NumOne

LEMMA NumTail ==
  ASSUME NEW S, NEW q \in Seq(S), q # <<>>
  PROVE  \A kind : Num(q, kind) = IF Head(q).kind = kind THEN Num(Tail(q), kind) + 1 ELSE Num(Tail(q), kind)
  <1> SUFFICES ASSUME NEW kind
               PROVE  Num(q, kind) = IF Head(q).kind = kind THEN Num(Tail(q), kind) + 1 ELSE Num(Tail(q), kind)
    OBVIOUS
  <1>1. Tail(q) \in Seq(S) /\ Head(q) \in S
    BY Shorter
  <1>2. q = <<Head(q)>> \o Tail(q) /\ <<Head(q)>> \in Seq(S)
    BY <1>1, OneFrame, HeadTailProperties
  <1>3. Num(<<Head(q)>> \o Tail(q), kind) = Num(<<Head(q)>>, kind) + Num(Tail(q), kind)
    BY <1>1, <1>2, NumJoined
  <1>4. Num(Tail(q), kind) \in Nat
    BY <1>1, NumNat
  <1>5. Num(q, kind) = Num(<<Head(q)>> \o Tail(q), kind)
    BY <1>2
  <1>6. Num(<<Head(q)>>, kind) = IF Head(q).kind = kind THEN 1 ELSE 0
    BY NumOne
  <1> HIDE DEF Num
  <1> QED
    BY <1>3, <1>4, <1>5, <1>6

-----------------------------------------------------------------------------
(* Who owes whom what, as long as no host has changed its ticks or left.    *)

Chosen == FirstTicks[Host]
Played == MapOf[Chosen]

\* What a player may have to say, and may be told: packages are the host's to
\* send, and there is one of each sort.
UpOf(p) ==
  {f \in UpFrames :
     /\ f.kind \notin {"ModError", "MapError", "GameStarting"}
     /\ f.kind \in {"ModOffer", "ModChunk", "MapOffer", "MapChunk"} => p = Host
     /\ f.kind \in {"ModOffer", "ModRequest", "ModChunk", "ModReady"} => f.digest = Chosen
     /\ f.kind \in {"MapOffer", "MapChunk", "MapReady"} => f.digest = Played}
DownOf(p) ==
  {f \in DownFrames :
     /\ f.kind \notin {"ModError", "GameStarting"}
     /\ f.kind \in {"ModRequest", "MapRequest"} => p = Host
     /\ f.kind = "LobbyState" => f.host = Host
     /\ f.kind \in {"ModOffer", "ModChunk"} => f.digest = Chosen
     /\ f.kind \in {"MapOffer", "MapChunk"} => f.digest = Played}

(* A player p whom the server sees as s and who is m, with u and d on their *)
(* way from it and to it, in the room r.                                    *)

\* Who comes in asks for nothing before, and who leaves says so.
ComesAndGoes(u, s, m) ==
  /\ m.at = "lobby" => u = <<>> /\ ~s.here
  /\ ~s.here /\ m.at # "left" =>
       /\ \A i \in DOMAIN u : u[i].kind = "Join"
       /\ m.modReceive = Nothing /\ m.mapReceive = Nothing
  /\ Num(u, "Join") <= Bit(~s.here /\ m.at = "joining")
  /\ s.here /\ m.at = "left" => Num(u, "Leave") > 0

\* Nobody but the host has anything to offer.
Rests(p, s, m) ==
  /\ ~m.pending
  /\ p # Host => /\ m.modSend = Nothing /\ m.mapSend = Nothing /\ m.host \in {Nothing, Host}
                 /\ s.deferred = Nothing

\* Everybody in the room has what the room has, or is to be told of it, has
\* asked for it, is being sent it, or has just said that it is there.
ModsSent(u, d, s) == Num(u, "ModRequest") + Bit(s.modSend # Nothing) + Num(d, "ModChunk")
HasMods(u, s) == Num(u, "ModReady") + Bit(s.modReady # Nothing)
GetsMods(u, d, s, m, r) ==
  /\ Num(d, "ModOffer") + ModsSent(u, d, s) + HasMods(u, s) = Bit(r.mods # Nothing)
  /\ m.modReceive = IF ModsSent(u, d, s) > 0 THEN Chosen ELSE Nothing
  /\ s.modReady \in {Nothing, Chosen}
  /\ HasMods(u, s) > 0 => m.modReady
MapSent(u, d, s) == Num(u, "MapRequest") + Bit(s.mapSend # Nothing) + Num(d, "MapChunk")
HasMap(u, s) == Num(u, "MapReady") + Bit(s.mapReady)
GetsMap(u, d, s, m, r) ==
  /\ Num(d, "MapOffer") + MapSent(u, d, s) + HasMap(u, s) = Bit(r.map # Nothing)
  /\ m.mapReceive = IF MapSent(u, d, s) > 0 THEN Played ELSE Nothing

PlayerOwed(p, u, d, s, m, r) ==
  /\ u \in Seq(UpOf(p)) /\ d \in Seq(DownOf(p))
  /\ ComesAndGoes(u, s, m) /\ Rests(p, s, m)
  /\ s.here /\ m.at # "left" => GetsMods(u, d, s, m, r) /\ GetsMap(u, d, s, m, r)

(* The same of the host, with validations q under way.                      *)

\* One validation at a time, which finds what the host has sent in order.
OneCheck(q) ==
  /\ Len(q) <= 1
  /\ \A i \in DOMAIN q :
       /\ q[i].client = Host /\ q[i].current
       /\ q[i].digest = IF q[i].mods THEN Chosen ELSE Played
       /\ ~q[i].cache => q[i].bytes = q[i].digest /\ (q[i].done => q[i].found)
\* How many validations of the mods, or of the map, are under way.
ModChecks(q) == Bit(\E i \in DOMAIN q : q[i].mods)
MapChecks(q) == Bit(\E i \in DOMAIN q : ~q[i].mods)

HostsRoom(d, m, r) ==
  /\ r.host = Host /\ r.mods \in {Nothing, Chosen} /\ r.map \in {Nothing, Played}
  /\ m.at \in {"joining", "room"} /\ m.ticks = Chosen
  /\ m.at = "room" => /\ m.host = Host /\ m.modOffered /\ m.mapOffered
                      /\ m.modPackage = Chosen /\ m.mapPackage = Played
  /\ m.at = "joining" => ~m.modOffered /\ Num(d, "LobbyState") > 0
  /\ m.modSend \in {Nothing, Chosen} /\ m.mapSend \in {Nothing, Played}

\* The mods are to be offered, offered, being looked up, asked for, being sent,
\* or there, and one of these;
ModsAsked(u, d, m) == Num(d, "ModRequest") + Bit(m.modSend # Nothing) + Num(u, "ModChunk")
ModsComing(u, d, s, m, r, q) ==
  /\ Bit(m.at = "joining") + Num(u, "ModOffer") + ModChecks(q)
       + ModsAsked(u, d, m) + Bit(r.mods # Nothing) = 1
  /\ s.modReceive = IF ModsAsked(u, d, m) > 0 THEN Chosen ELSE Nothing

\* and so is the map, which comes after them and may have to wait for them.
MapAsked(u, d, m) == Num(d, "MapRequest") + Bit(m.mapSend # Nothing) + Num(u, "MapChunk")
MapComing(u, d, s, m, r, q) ==
  /\ Bit(m.at = "joining") + Num(u, "MapOffer") + Bit(s.deferred # Nothing)
       + MapChecks(q) + MapAsked(u, d, m) + Bit(r.map # Nothing) = 1
  /\ s.mapReceive = IF MapAsked(u, d, m) > 0 THEN Played ELSE Nothing
  /\ s.deferred \in {Nothing, Played}
  /\ s.deferred # Nothing => ModChecks(q) > 0 \/ s.modReceive # Nothing
OffersInOrder(u) ==
  \A i, j \in DOMAIN u : u[i].kind = "ModOffer" /\ u[j].kind = "MapOffer" => i < j
ModsFirst(u, d, m, r, q) ==
  /\ Num(u, "ModOffer") > 0 => Num(u, "MapOffer") > 0
  /\ OffersInOrder(u)
  /\ MapChecks(q) > 0 \/ MapAsked(u, d, m) > 0 \/ r.map # Nothing => r.mods # Nothing

HostOwed(u, d, s, m, r, q) ==
  /\ OneCheck(q) /\ HostsRoom(d, m, r)
  /\ ModsComing(u, d, s, m, r, q) /\ MapComing(u, d, s, m, r, q) /\ ModsFirst(u, d, m, r, q)

\* The host is told last whether the room is ready.
Lately(d, r, s) ==
  \A i \in DOMAIN d :
    /\ d[i].kind = "LobbyState"
    /\ \A j \in DOMAIN d : i < j => d[j].kind # "LobbyState"
    => d[i].ready = MapsReady(r, s)
IsTold(d, m, r, s) ==
  /\ Num(d, "LobbyState") = 0 => m.mapsReady = MapsReady(r, s)
  /\ Lately(d, r, s)

-----------------------------------------------------------------------------
(* Lemmas for these.                                                        *)

LEMMA Digested ==
  /\ Chosen \in Values \ {Nothing} /\ Played \in Values \ {Nothing} /\ Chosen \in Packs /\ Played \in Maps
  /\ Host \in Players /\ Host # Nothing
  /\ \A p \in Players : UpOf(p) \subseteq UpFrames /\ DownOf(p) \subseteq DownFrames
  <1>1. Host \in Players
    BY DEF Players
  <1>2. Chosen \in Packs
    BY <1>1, PackagesAssumption DEF Chosen
  <1>3. Played \in Maps
    BY <1>2 DEF Played, Maps
  <1> QED
    BY <1>1, <1>2, <1>3, PackagesAssumption DEF Values, Optional, Digests, UpOf, DownOf

\* What counts in a frame that is read, of a queue of any frames.
LEMMA ReadOne ==
  ASSUME NEW S, NEW q \in Seq(S), q # <<>>
  PROVE  /\ Head(q) \in S /\ Tail(q) \in Seq(S)
         /\ \A k : Num(q, k) \in Nat /\ Num(Tail(q), k) \in Nat
         /\ \A k : Num(q, k) = IF Head(q).kind = k THEN Num(Tail(q), k) + 1 ELSE Num(Tail(q), k)
  <1>1. Head(q) \in S /\ Tail(q) \in Seq(S)
    BY Shorter
  <1> QED
    BY <1>1, NumNat, NumTail

LEMMA SendNone ==
  ASSUME NEW S, NEW q \in Seq(S)
  PROVE  q \o <<>> = q
  BY ConcatEmptySeq

LEMMA SendOne ==
  ASSUME NEW S, NEW q \in Seq(S), NEW f \in S
  PROVE  /\ q \o <<f>> \in Seq(S)
         /\ \A k : Num(q, k) \in Nat /\ Num(q \o <<f>>, k) \in Nat
         /\ \A k : Num(q \o <<f>>, k) = IF f.kind = k THEN Num(q, k) + 1 ELSE Num(q, k)
  <1>1. <<f>> \in Seq(S)
    BY OneFrame
  <1>2. q \o <<f>> \in Seq(S)
    BY <1>1, Joined
  <1> QED
    BY <1>2, NumNat, NumAdded

LEMMA ChecksValue ==
  \A q : /\ ModChecks(q) \in {0, 1} /\ MapChecks(q) \in {0, 1}
         /\ ModChecks(q) > 0 <=> \E i \in DOMAIN q : q[i].mods
         /\ MapChecks(q) > 0 <=> \E i \in DOMAIN q : ~q[i].mods
  BY DEF ModChecks, MapChecks, Bit

-----------------------------------------------------------------------------
(* What a player reads and says.                                            *)

Reading(p, u, d, s, m, r) ==
  /\ p \in Players /\ m \in Mine /\ d # <<>>
  /\ s.here /\ m.at \in {"joining", "room"} /\ PlayerOwed(p, u, d, s, m, r)

LEMMA NoneSaid ==
  ASSUME NEW p, NEW u, NEW d, NEW s, NEW m, NEW r, Reading(p, u, d, s, m, r),
         NEW e, e.at \in {"joining", "room"}, Rests(p, s, e),
         GetsMods(u, Tail(d), s, e, r), GetsMap(u, Tail(d), s, e, r)
  PROVE  PlayerOwed(p, u, Tail(d), s, e, r)
  <1>1. u \in Seq(UpOf(p)) /\ d \in Seq(DownOf(p)) /\ d # <<>> /\ s.here /\ ComesAndGoes(u, s, m)
    BY DEF Reading, PlayerOwed
  <1>2. Tail(d) \in Seq(DownOf(p))
    BY <1>1, ReadOne
  <1>3. ComesAndGoes(u, s, e)
    BY <1>1 DEF ComesAndGoes, Bit
  <1> QED
    BY <1>1, <1>2, <1>3 DEF PlayerOwed

LEMMA OneSaid ==
  ASSUME NEW p, NEW u, NEW d, NEW s, NEW m, NEW r, Reading(p, u, d, s, m, r),
         NEW g, g \in UpOf(p), g.kind # "Join",
         NEW e, e.at \in {"joining", "room"}, Rests(p, s, e),
         GetsMods(u \o <<g>>, Tail(d), s, e, r), GetsMap(u \o <<g>>, Tail(d), s, e, r)
  PROVE  PlayerOwed(p, u \o <<g>>, Tail(d), s, e, r)
  <1>1. u \in Seq(UpOf(p)) /\ d \in Seq(DownOf(p)) /\ d # <<>> /\ s.here /\ ComesAndGoes(u, s, m)
    BY DEF Reading, PlayerOwed
  <1>2. Tail(d) \in Seq(DownOf(p)) /\ u \o <<g>> \in Seq(UpOf(p))
    BY <1>1, ReadOne, SendOne
  <1>3. Num(u \o <<g>>, "Join") = Num(u, "Join")
    BY <1>1, SendOne
  <1>4. ComesAndGoes(u \o <<g>>, s, e)
    BY <1>1, <1>3 DEF ComesAndGoes, Bit
  <1> QED
    BY <1>1, <1>2, <1>4 DEF PlayerOwed

LEMMA Answers ==
  ASSUME NEW p \in Players
  PROVE  /\ Frame("ModRequest", Chosen) \in UpOf(p) /\ Frame("ModReady", Chosen) \in UpOf(p)
         /\ Frame("MapRequest", Nothing) \in UpOf(p) /\ Frame("MapReady", Played) \in UpOf(p)
         /\ p = Host => /\ Frame("ModOffer", Chosen) \in UpOf(p) /\ Frame("MapOffer", Played) \in UpOf(p)
                        /\ Frame("ModChunk", Chosen) \in UpOf(p) /\ Frame("MapChunk", Played) \in UpOf(p)
  BY Digested, FrameTypes, PieceTypes DEF UpOf, Plain

LEMMA ModOfferOwed ==
  ASSUME NEW p, NEW u, NEW d, NEW s, NEW m, NEW r, Reading(p, u, d, s, m, r),
         Head(d).kind = "ModOffer"
  PROVE  LET e == ReadModOffer(m, Head(d)) IN PlayerOwed(p, u \o e.sends, Tail(d), s, e.client, r)
  <1> DEFINE f == Head(d)
             ready == Frame("ModReady", Chosen)
             asks == Frame("ModRequest", Chosen)
             told == [m EXCEPT !.modReceive = Chosen, !.modReady = FALSE]
             has == [told EXCEPT !.modPackage = Chosen, !.modReceive = Nothing, !.modReady = TRUE,
                                 !.has = @ \cup {Chosen}]
  <1>1. /\ p \in Players /\ m \in Mine /\ s.here /\ m.at \in {"joining", "room"}
        /\ u \in Seq(UpOf(p)) /\ d \in Seq(DownOf(p)) /\ d # <<>>
        /\ Rests(p, s, m) /\ GetsMods(u, d, s, m, r) /\ GetsMap(u, d, s, m, r)
    BY DEF Reading, PlayerOwed
  <1>2. f.digest = Chosen
    BY <1>1, ReadOne DEF DownOf
  <1>3. /\ told.at = m.at /\ told.modReceive = Chosen
        /\ told.mapReceive = m.mapReceive /\ Rests(p, s, told)
        /\ has.at = m.at /\ has.modReceive = Nothing /\ has.modReady
        /\ has.mapReceive = m.mapReceive /\ Rests(p, s, has)
    BY <1>1 DEF Mine, Rests
  <1>4. /\ \A k : Num(d, k) \in Nat /\ Num(Tail(d), k) \in Nat /\ Num(u, k) \in Nat
        /\ \A k : Num(d, k) = IF k = "ModOffer" THEN Num(Tail(d), k) + 1 ELSE Num(Tail(d), k)
    BY <1>1, ReadOne, NumNat
  <1>5. CASE m.modPackage = Chosen \/ Chosen \in m.has
    <2>1. ReadModOffer(m, f) = Result(has, <<ready>>)
      <3>1. Starts(has) = has
        BY <1>1, <1>3 DEF Starts
      <3> QED
        BY <1>2, <1>5, <3>1 DEF ReadModOffer, AcceptMods
    <2>2. /\ ready \in UpOf(p) /\ ready.kind = "ModReady"
          /\ \A k : Num(u \o <<ready>>, k) = IF k = "ModReady" THEN Num(u, k) + 1 ELSE Num(u, k)
      BY <1>1, Answers, FrameTypes, SendOne
    <2> HIDE DEF ready, has
    <2>3. GetsMods(u \o <<ready>>, Tail(d), s, has, r)
      <3>1. /\ Num(d, "ModOffer") = Num(Tail(d), "ModOffer") + 1 /\ Num(Tail(d), "ModOffer") \in Nat
            /\ Num(d, "ModChunk") = Num(Tail(d), "ModChunk") /\ Num(Tail(d), "ModChunk") \in Nat
            /\ Num(u \o <<ready>>, "ModRequest") = Num(u, "ModRequest") /\ Num(u, "ModRequest") \in Nat
            /\ Num(u \o <<ready>>, "ModReady") = Num(u, "ModReady") + 1 /\ Num(u, "ModReady") \in Nat
        BY <1>4, <2>2
      <3>2. GetsMods(u, d, s, m, r)
        BY <1>1
      <3> HIDE DEF Num
      <3> QED
        BY <1>3, <3>1, <3>2 DEF GetsMods, ModsSent, HasMods, Bit
    <2>4. GetsMap(u \o <<ready>>, Tail(d), s, has, r)
      BY <1>1, <1>3, <1>4, <2>2 DEF GetsMap, MapSent, HasMap
    <2>5. PlayerOwed(p, u \o <<ready>>, Tail(d), s, has, r)
      BY <1>1, <1>3, <2>2, <2>3, <2>4, OneSaid
    <2> QED
      BY <2>1, <2>5 DEF Result
  <1>6. CASE ~(m.modPackage = Chosen \/ Chosen \in m.has)
    <2>1. ReadModOffer(m, f) = Result(told, <<asks>>)
      BY <1>2, <1>6 DEF ReadModOffer
    <2>2. /\ asks \in UpOf(p) /\ asks.kind = "ModRequest"
          /\ \A k : Num(u \o <<asks>>, k) = IF k = "ModRequest" THEN Num(u, k) + 1 ELSE Num(u, k)
      BY <1>1, Answers, FrameTypes, SendOne
    <2> HIDE DEF asks, told
    <2>3. GetsMods(u \o <<asks>>, Tail(d), s, told, r)
      <3>1. /\ Num(d, "ModOffer") = Num(Tail(d), "ModOffer") + 1 /\ Num(Tail(d), "ModOffer") \in Nat
            /\ Num(d, "ModChunk") = Num(Tail(d), "ModChunk") /\ Num(Tail(d), "ModChunk") \in Nat
            /\ Num(u \o <<asks>>, "ModRequest") = Num(u, "ModRequest") + 1 /\ Num(u, "ModRequest") \in Nat
            /\ Num(u \o <<asks>>, "ModReady") = Num(u, "ModReady") /\ Num(u, "ModReady") \in Nat
        BY <1>4, <2>2
      <3>2. GetsMods(u, d, s, m, r)
        BY <1>1
      <3> HIDE DEF Num
      <3> QED
        BY <1>3, <3>1, <3>2 DEF GetsMods, ModsSent, HasMods, Bit
    <2>4. GetsMap(u \o <<asks>>, Tail(d), s, told, r)
      BY <1>1, <1>3, <1>4, <2>2 DEF GetsMap, MapSent, HasMap
    <2>5. PlayerOwed(p, u \o <<asks>>, Tail(d), s, told, r)
      BY <1>1, <1>3, <2>2, <2>3, <2>4, OneSaid
    <2> QED
      BY <2>1, <2>5 DEF Result
  <1> QED
    BY <1>5, <1>6

LEMMA ModChunkOwed ==
  ASSUME NEW p, NEW u, NEW d, NEW s, NEW m, NEW r, Reading(p, u, d, s, m, r),
         Head(d).kind = "ModChunk"
  PROVE  LET e == ReadModChunk(m, Head(d)) IN PlayerOwed(p, u \o e.sends, Tail(d), s, e.client, r)
  <1> DEFINE f == Head(d)
             ready == Frame("ModReady", Chosen)
             has == [m EXCEPT !.modPackage = Chosen, !.modReceive = Nothing, !.modReady = TRUE,
                              !.has = @ \cup {Chosen}]
  <1>1. /\ p \in Players /\ m \in Mine /\ s.here /\ m.at \in {"joining", "room"}
        /\ u \in Seq(UpOf(p)) /\ d \in Seq(DownOf(p)) /\ d # <<>>
        /\ Rests(p, s, m) /\ GetsMods(u, d, s, m, r) /\ GetsMap(u, d, s, m, r)
    BY DEF Reading, PlayerOwed
  <1>2. f.digest = Chosen
    BY <1>1, ReadOne DEF DownOf
  <1>3. /\ has.at = m.at /\ has.modReceive = Nothing /\ has.modReady
        /\ has.mapReceive = m.mapReceive /\ Rests(p, s, has)
    BY <1>1 DEF Mine, Rests
  <1>4. /\ \A k : Num(d, k) \in Nat /\ Num(Tail(d), k) \in Nat /\ Num(u, k) \in Nat
        /\ \A k : Num(d, k) = IF k = "ModChunk" THEN Num(Tail(d), k) + 1 ELSE Num(Tail(d), k)
    BY <1>1, ReadOne, NumNat
  <1>5. m.modReceive = Chosen
    <2>1. Num(d, "ModChunk") > 0 /\ Num(u, "ModRequest") \in Nat /\ Num(d, "ModChunk") \in Nat
      BY <1>4
    <2> HIDE DEF Num
    <2> QED
      BY <1>1, <2>1 DEF GetsMods, ModsSent, Bit
  <1>6. CASE TRUE
    <2>1. ReadModChunk(m, f) = Result(has, <<ready>>)
      <3>1. Starts(has) = has
        BY <1>1, <1>3 DEF Starts
      <3> QED
        BY <1>2, <1>5, <3>1, Digested DEF ReadModChunk, AcceptMods
    <2>2. /\ ready \in UpOf(p) /\ ready.kind = "ModReady"
          /\ \A k : Num(u \o <<ready>>, k) = IF k = "ModReady" THEN Num(u, k) + 1 ELSE Num(u, k)
      BY <1>1, Answers, FrameTypes, SendOne
    <2> HIDE DEF ready, has
    <2>3. GetsMods(u \o <<ready>>, Tail(d), s, has, r)
      <3>1. /\ Num(d, "ModOffer") = Num(Tail(d), "ModOffer") /\ Num(Tail(d), "ModOffer") \in Nat
            /\ Num(d, "ModChunk") = Num(Tail(d), "ModChunk") + 1 /\ Num(Tail(d), "ModChunk") \in Nat
            /\ Num(u \o <<ready>>, "ModRequest") = Num(u, "ModRequest") /\ Num(u, "ModRequest") \in Nat
            /\ Num(u \o <<ready>>, "ModReady") = Num(u, "ModReady") + 1 /\ Num(u, "ModReady") \in Nat
        BY <1>4, <2>2
      <3>2. GetsMods(u, d, s, m, r)
        BY <1>1
      <3> HIDE DEF Num
      <3> QED
        BY <1>3, <3>1, <3>2 DEF GetsMods, ModsSent, HasMods, Bit
    <2>4. GetsMap(u \o <<ready>>, Tail(d), s, has, r)
      BY <1>1, <1>3, <1>4, <2>2 DEF GetsMap, MapSent, HasMap
    <2>5. PlayerOwed(p, u \o <<ready>>, Tail(d), s, has, r)
      BY <1>1, <1>3, <2>2, <2>3, <2>4, OneSaid
    <2> QED
      BY <2>1, <2>5 DEF Result
  <1> QED
    BY <1>6

LEMMA MapOfferOwed ==
  ASSUME NEW p, NEW u, NEW d, NEW s, NEW m, NEW r, Reading(p, u, d, s, m, r),
         Head(d).kind = "MapOffer"
  PROVE  LET e == ReadMapOffer(m, Head(d)) IN PlayerOwed(p, u \o e.sends, Tail(d), s, e.client, r)
  <1> DEFINE f == Head(d)
             ready == Frame("MapReady", Played)
             asks == Frame("MapRequest", Nothing)
             told == [m EXCEPT !.mapReady = FALSE, !.mapReceive = Played]
             has == [m EXCEPT !.mapPackage = Played, !.mapReceive = Nothing, !.mapReady = TRUE,
                              !.has = @ \cup {Played}]
             got == [told EXCEPT !.mapPackage = Played, !.mapReceive = Nothing, !.mapReady = TRUE,
                                 !.has = @ \cup {Played}]
  <1>1. /\ p \in Players /\ m \in Mine /\ s.here /\ m.at \in {"joining", "room"}
        /\ u \in Seq(UpOf(p)) /\ d \in Seq(DownOf(p)) /\ d # <<>>
        /\ Rests(p, s, m) /\ GetsMods(u, d, s, m, r) /\ GetsMap(u, d, s, m, r)
    BY DEF Reading, PlayerOwed
  <1>2. f.digest = Played
    BY <1>1, ReadOne DEF DownOf
  <1>3. /\ told.at = m.at /\ told.mapReceive = Played
        /\ told.modReceive = m.modReceive /\ told.modReady = m.modReady /\ Rests(p, s, told)
        /\ has.at = m.at /\ has.mapReceive = Nothing
        /\ has.modReceive = m.modReceive /\ has.modReady = m.modReady /\ Rests(p, s, has)
    BY <1>1 DEF Mine, Rests
  <1>4. /\ \A k : Num(d, k) \in Nat /\ Num(Tail(d), k) \in Nat /\ Num(u, k) \in Nat
        /\ \A k : Num(d, k) = IF k = "MapOffer" THEN Num(Tail(d), k) + 1 ELSE Num(Tail(d), k)
    BY <1>1, ReadOne, NumNat
  <1>5. m.mapReceive = Nothing
    <2>1. /\ Num(d, "MapOffer") > 0 /\ Num(d, "MapOffer") \in Nat
          /\ Num(u, "MapRequest") \in Nat /\ Num(d, "MapChunk") \in Nat /\ Num(u, "MapReady") \in Nat
      BY <1>4
    <2> HIDE DEF Num
    <2>2. MapSent(u, d, s) \in Nat /\ HasMap(u, s) \in Nat
      BY <2>1 DEF MapSent, HasMap, Bit
    <2>3. MapSent(u, d, s) = 0
      BY <1>1, <2>1, <2>2 DEF GetsMap, Bit
    <2> QED
      BY <1>1, <2>3 DEF GetsMap
  <1>6. CASE m.mapPackage = Played \/ Played \in m.has
    <2>1. ReadMapOffer(m, f) = Result(has, <<ready>>)
      <3>1. got = has /\ Starts(has) = has
        BY <1>1, <1>3 DEF Starts
      <3> QED
        BY <1>2, <1>5, <1>6, <3>1, Digested DEF ReadMapOffer, AcceptMap
    <2>2. /\ ready \in UpOf(p) /\ ready.kind = "MapReady"
          /\ \A k : Num(u \o <<ready>>, k) = IF k = "MapReady" THEN Num(u, k) + 1 ELSE Num(u, k)
      BY <1>1, Answers, FrameTypes, SendOne
    <2> HIDE DEF ready, has
    <2>3. GetsMap(u \o <<ready>>, Tail(d), s, has, r)
      <3>1. /\ Num(d, "MapOffer") = Num(Tail(d), "MapOffer") + 1 /\ Num(Tail(d), "MapOffer") \in Nat
            /\ Num(d, "MapChunk") = Num(Tail(d), "MapChunk") /\ Num(Tail(d), "MapChunk") \in Nat
            /\ Num(u \o <<ready>>, "MapRequest") = Num(u, "MapRequest") /\ Num(u, "MapRequest") \in Nat
            /\ Num(u \o <<ready>>, "MapReady") = Num(u, "MapReady") + 1 /\ Num(u, "MapReady") \in Nat
        BY <1>4, <2>2
      <3>2. GetsMap(u, d, s, m, r)
        BY <1>1
      <3> HIDE DEF Num
      <3> QED
        BY <1>3, <3>1, <3>2 DEF GetsMap, MapSent, HasMap, Bit
    <2>4. GetsMods(u \o <<ready>>, Tail(d), s, has, r)
      BY <1>1, <1>3, <1>4, <2>2 DEF GetsMods, ModsSent, HasMods
    <2>5. PlayerOwed(p, u \o <<ready>>, Tail(d), s, has, r)
      BY <1>1, <1>3, <2>2, <2>3, <2>4, OneSaid
    <2> QED
      BY <2>1, <2>5 DEF Result
  <1>7. CASE ~(m.mapPackage = Played \/ Played \in m.has)
    <2>1. ReadMapOffer(m, f) = Result(told, <<asks>>)
      BY <1>2, <1>5, <1>7, Digested DEF ReadMapOffer
    <2>2. /\ asks \in UpOf(p) /\ asks.kind = "MapRequest"
          /\ \A k : Num(u \o <<asks>>, k) = IF k = "MapRequest" THEN Num(u, k) + 1 ELSE Num(u, k)
      BY <1>1, Answers, FrameTypes, SendOne
    <2> HIDE DEF asks, told
    <2>3. GetsMap(u \o <<asks>>, Tail(d), s, told, r)
      <3>1. /\ Num(d, "MapOffer") = Num(Tail(d), "MapOffer") + 1 /\ Num(Tail(d), "MapOffer") \in Nat
            /\ Num(d, "MapChunk") = Num(Tail(d), "MapChunk") /\ Num(Tail(d), "MapChunk") \in Nat
            /\ Num(u \o <<asks>>, "MapRequest") = Num(u, "MapRequest") + 1 /\ Num(u, "MapRequest") \in Nat
            /\ Num(u \o <<asks>>, "MapReady") = Num(u, "MapReady") /\ Num(u, "MapReady") \in Nat
        BY <1>4, <2>2
      <3>2. GetsMap(u, d, s, m, r)
        BY <1>1
      <3> HIDE DEF Num
      <3> QED
        BY <1>3, <3>1, <3>2 DEF GetsMap, MapSent, HasMap, Bit
    <2>4. GetsMods(u \o <<asks>>, Tail(d), s, told, r)
      BY <1>1, <1>3, <1>4, <2>2 DEF GetsMods, ModsSent, HasMods
    <2>5. PlayerOwed(p, u \o <<asks>>, Tail(d), s, told, r)
      BY <1>1, <1>3, <2>2, <2>3, <2>4, OneSaid
    <2> QED
      BY <2>1, <2>5 DEF Result
  <1> QED
    BY <1>6, <1>7

LEMMA MapChunkOwed ==
  ASSUME NEW p, NEW u, NEW d, NEW s, NEW m, NEW r, Reading(p, u, d, s, m, r),
         Head(d).kind = "MapChunk"
  PROVE  LET e == ReadMapChunk(m, Head(d)) IN PlayerOwed(p, u \o e.sends, Tail(d), s, e.client, r)
  <1> DEFINE f == Head(d)
             ready == Frame("MapReady", Played)
             has == [m EXCEPT !.mapPackage = Played, !.mapReceive = Nothing, !.mapReady = TRUE,
                              !.has = @ \cup {Played}]
  <1>1. /\ p \in Players /\ m \in Mine /\ s.here /\ m.at \in {"joining", "room"}
        /\ u \in Seq(UpOf(p)) /\ d \in Seq(DownOf(p)) /\ d # <<>>
        /\ Rests(p, s, m) /\ GetsMods(u, d, s, m, r) /\ GetsMap(u, d, s, m, r)
    BY DEF Reading, PlayerOwed
  <1>2. f.digest = Played
    BY <1>1, ReadOne DEF DownOf
  <1>3. /\ has.at = m.at /\ has.mapReceive = Nothing
        /\ has.modReceive = m.modReceive /\ has.modReady = m.modReady /\ Rests(p, s, has)
    BY <1>1 DEF Mine, Rests
  <1>4. /\ \A k : Num(d, k) \in Nat /\ Num(Tail(d), k) \in Nat /\ Num(u, k) \in Nat
        /\ \A k : Num(d, k) = IF k = "MapChunk" THEN Num(Tail(d), k) + 1 ELSE Num(Tail(d), k)
    BY <1>1, ReadOne, NumNat
  <1>5. m.mapReceive = Played
    <2>1. Num(d, "MapChunk") > 0 /\ Num(u, "MapRequest") \in Nat /\ Num(d, "MapChunk") \in Nat
      BY <1>4
    <2> HIDE DEF Num
    <2> QED
      BY <1>1, <2>1 DEF GetsMap, MapSent, Bit
  <1>6. CASE TRUE
    <2>1. ReadMapChunk(m, f) = Result(has, <<ready>>)
      <3>1. Starts(has) = has
        BY <1>1, <1>3 DEF Starts
      <3> QED
        BY <1>2, <1>5, <3>1, Digested DEF ReadMapChunk, AcceptMap
    <2>2. /\ ready \in UpOf(p) /\ ready.kind = "MapReady"
          /\ \A k : Num(u \o <<ready>>, k) = IF k = "MapReady" THEN Num(u, k) + 1 ELSE Num(u, k)
      BY <1>1, Answers, FrameTypes, SendOne
    <2> HIDE DEF ready, has
    <2>3. GetsMap(u \o <<ready>>, Tail(d), s, has, r)
      <3>1. /\ Num(d, "MapOffer") = Num(Tail(d), "MapOffer") /\ Num(Tail(d), "MapOffer") \in Nat
            /\ Num(d, "MapChunk") = Num(Tail(d), "MapChunk") + 1 /\ Num(Tail(d), "MapChunk") \in Nat
            /\ Num(u \o <<ready>>, "MapRequest") = Num(u, "MapRequest") /\ Num(u, "MapRequest") \in Nat
            /\ Num(u \o <<ready>>, "MapReady") = Num(u, "MapReady") + 1 /\ Num(u, "MapReady") \in Nat
        BY <1>4, <2>2
      <3>2. GetsMap(u, d, s, m, r)
        BY <1>1
      <3> HIDE DEF Num
      <3> QED
        BY <1>3, <3>1, <3>2 DEF GetsMap, MapSent, HasMap, Bit
    <2>4. GetsMods(u \o <<ready>>, Tail(d), s, has, r)
      BY <1>1, <1>3, <1>4, <2>2 DEF GetsMods, ModsSent, HasMods
    <2>5. PlayerOwed(p, u \o <<ready>>, Tail(d), s, has, r)
      BY <1>1, <1>3, <2>2, <2>3, <2>4, OneSaid
    <2> QED
      BY <2>1, <2>5 DEF Result
  <1> QED
    BY <1>6

\* A frame that is about neither package.
LEMMA IdleRead ==
  ASSUME NEW p, NEW u, NEW d, NEW s, NEW m, NEW r, Reading(p, u, d, s, m, r),
         Head(d).kind \notin {"ModOffer", "ModChunk", "MapOffer", "MapChunk"},
         NEW e, e.at \in {"joining", "room"}, Rests(p, s, e),
         e.modReceive = m.modReceive, e.modReady = m.modReady, e.mapReceive = m.mapReceive
  PROVE  PlayerOwed(p, u, Tail(d), s, e, r)
  <1>1. /\ s.here /\ m.at # "left" /\ d \in Seq(DownOf(p)) /\ d # <<>>
        /\ GetsMods(u, d, s, m, r) /\ GetsMap(u, d, s, m, r)
    BY DEF Reading, PlayerOwed
  <1>2. \A k \in {"ModOffer", "ModChunk", "MapOffer", "MapChunk"} : Num(Tail(d), k) = Num(d, k)
    BY <1>1, ReadOne
  <1>3. GetsMods(u, Tail(d), s, e, r)
    BY <1>1, <1>2 DEF GetsMods, ModsSent
  <1>4. GetsMap(u, Tail(d), s, e, r)
    BY <1>1, <1>2 DEF GetsMap, MapSent
  <1> QED
    BY <1>3, <1>4, NoneSaid

-----------------------------------------------------------------------------
(* The host.                                                                *)

\* Most of what it reads and says is neither here nor there.
LEMMA HostUnmoved ==
  ASSUME NEW u, NEW d, NEW s, NEW m, NEW r, NEW q, HostOwed(u, d, s, m, r, q),
         NEW v, \A k \in {"ModOffer", "ModChunk", "MapOffer", "MapChunk"} : Num(v, k) = Num(u, k),
         OffersInOrder(v),
         NEW e, \A k \in {"ModRequest", "MapRequest"} : Num(e, k) = Num(d, k),
         NEW t, t.modReceive = s.modReceive, t.mapReceive = s.mapReceive, t.deferred = s.deferred,
         NEW c, c.at = m.at, c.at = "joining" => Num(e, "LobbyState") > 0,
         c.host = m.host, c.ticks = m.ticks, c.modOffered = m.modOffered, c.mapOffered = m.mapOffered,
         c.modSend = m.modSend, c.mapSend = m.mapSend,
         c.modPackage \in {m.modPackage, Chosen}, c.mapPackage \in {m.mapPackage, Played}
  PROVE  HostOwed(v, e, t, c, r, q)
  <1>1. HostsRoom(e, c, r)
    BY DEF HostOwed, HostsRoom
  <1>2. ModsComing(v, e, t, c, r, q)
    BY DEF HostOwed, ModsComing, ModsAsked
  <1>3. MapComing(v, e, t, c, r, q)
    BY DEF HostOwed, MapComing, MapAsked
  <1>4. ModsFirst(v, e, c, r, q)
    BY DEF HostOwed, ModsFirst, MapAsked
  <1> QED
    BY <1>1, <1>2, <1>3, <1>4 DEF HostOwed

LEMMA OrderTail ==
  ASSUME NEW S, NEW u \in Seq(S), u # <<>>, OffersInOrder(u)
  PROVE  /\ OffersInOrder(Tail(u))
         /\ Head(u).kind = "MapOffer" => Num(Tail(u), "ModOffer") = 0
  <1> DEFINE w == Tail(u)
  <1>1. /\ Head(u) = u[1] /\ 1 \in DOMAIN u /\ w \in Seq(S)
        /\ \A i \in DOMAIN w : i \in Nat /\ i + 1 \in DOMAIN u /\ w[i] = u[i + 1]
    BY Shorter
  <1> HIDE DEF w
  <1>2. OffersInOrder(w)
    BY <1>1 DEF OffersInOrder
  <1>3. ASSUME u[1].kind = "MapOffer", NEW i \in DOMAIN w PROVE w[i].kind # "ModOffer"
    <2>1. ASSUME u[i + 1].kind = "ModOffer" PROVE i + 1 < 1
      BY <1>1, <1>3, <2>1 DEF OffersInOrder
    <2> QED
      BY <1>1, <2>1
  <1> QED
    BY <1>1, <1>2, <1>3, NumNat DEF w

LEMMA OrderJoined ==
  ASSUME NEW S, NEW u \in Seq(S), NEW f \in S, OffersInOrder(u),
         \/ f.kind \notin {"ModOffer", "MapOffer"}
         \/ f.kind = "ModOffer" /\ Num(u, "MapOffer") = 0
         \/ f.kind = "MapOffer"
  PROVE  OffersInOrder(u \o <<f>>)
  <1> DEFINE w == u \o <<f>>
             n == Len(u)
  <1>1. /\ n \in Nat /\ DOMAIN u = 1 .. n /\ DOMAIN w = 1 .. n + 1
        /\ \A i \in 1 .. n : w[i] = u[i]
        /\ w[n + 1] = f
    <2>1. <<f>> \in Seq(S) /\ Len(<<f>>) = 1 /\ <<f>>[1] = f
      BY OneFrame
    <2> QED
      BY <2>1, Joined
  <1>2. f.kind = "ModOffer" => \A i \in 1 .. n : u[i].kind # "MapOffer"
    BY <1>1, NumNat
  <1> HIDE DEF w, n
  <1> SUFFICES ASSUME NEW i \in 1 .. n + 1, NEW j \in 1 .. n + 1,
                      w[i].kind = "ModOffer", w[j].kind = "MapOffer"
               PROVE  i < j
    BY <1>1 DEF OffersInOrder, w
  <1>3. i \in 1 .. n \/ i = n + 1
    BY <1>1
  <1>4. j \in 1 .. n \/ j = n + 1
    BY <1>1
  <1>5. CASE i \in 1 .. n /\ j \in 1 .. n
    BY <1>1, <1>5 DEF OffersInOrder
  <1>6. CASE i = n + 1
    BY <1>1, <1>2, <1>4, <1>6
  <1>7. CASE i \in 1 .. n /\ j = n + 1
    BY <1>1, <1>7
  <1> QED
    BY <1>3, <1>4, <1>5, <1>6, <1>7

LEMMA ToldTail ==
  ASSUME NEW S, NEW d \in Seq(S), d # <<>>, NEW r, NEW s, NEW m, NEW c, IsTold(d, m, r, s),
         \/ Head(d).kind # "LobbyState" /\ c.mapsReady = m.mapsReady
         \/ Head(d).kind = "LobbyState" /\ c.mapsReady = Head(d).ready
         \/ c.mapsReady = MapsReady(r, s)
  PROVE  IsTold(Tail(d), c, r, s)
  <1> DEFINE w == Tail(d)
  <1>1. /\ Head(d) = d[1] /\ 1 \in DOMAIN d /\ w \in Seq(S)
        /\ \A i \in DOMAIN w : i \in Nat /\ i + 1 \in DOMAIN d /\ w[i] = d[i + 1]
        /\ \A i \in DOMAIN d : i \in Nat /\ (i # 1 => i - 1 \in DOMAIN w /\ w[i - 1] = d[i])
    BY Shorter
  <1>2. /\ Num(w, "LobbyState") \in Nat
        /\ Num(d, "LobbyState") = IF d[1].kind = "LobbyState" THEN Num(w, "LobbyState") + 1 ELSE Num(w, "LobbyState")
        /\ Num(w, "LobbyState") = 0 <=> \A i \in DOMAIN w : w[i].kind # "LobbyState"
    <2>1. /\ Num(w, "LobbyState") \in Nat
          /\ Num(w, "LobbyState") = 0 <=> \A i \in DOMAIN w : w[i].kind # "LobbyState"
      BY <1>1, NumNat
    <2> HIDE DEF Num
    <2>2. \A k : Num(d, k) = IF Head(d).kind = k THEN Num(w, k) + 1 ELSE Num(w, k)
      BY ReadOne
    <2> HIDE DEF w
    <2> QED
      BY <1>1, <2>1, <2>2
  <1> HIDE DEF w
  <1>3. Lately(w, r, s)
    <2> SUFFICES ASSUME NEW i \in DOMAIN w, w[i].kind = "LobbyState",
                        \A j \in DOMAIN w : i < j => w[j].kind # "LobbyState"
                 PROVE  w[i].ready = MapsReady(r, s)
      BY DEF Lately
    <2>1. ASSUME NEW j \in DOMAIN d, i + 1 < j PROVE d[j].kind # "LobbyState"
      <3>1. j - 1 \in DOMAIN w /\ w[j - 1] = d[j] /\ i < j - 1
        BY <1>1, <2>1
      <3> QED
        BY <3>1
    <2> QED
      BY <1>1, <2>1 DEF IsTold, Lately
  <1>4. ASSUME Num(w, "LobbyState") = 0 PROVE c.mapsReady = MapsReady(r, s)
    <2>1. CASE d[1].kind # "LobbyState"
      BY <1>1, <1>2, <1>4, <2>1 DEF IsTold
    <2>2. CASE d[1].kind = "LobbyState"
      <3>1. ASSUME NEW j \in DOMAIN d, 1 < j PROVE d[j].kind # "LobbyState"
        <4>1. j # 1 /\ j - 1 \in DOMAIN w /\ w[j - 1] = d[j]
          BY <1>1, <3>1
        <4> QED
          BY <1>2, <1>4, <4>1
      <3>2. d[1].ready = MapsReady(r, s)
        BY <1>1, <2>2, <3>1 DEF IsTold, Lately
      <3> QED
        BY <1>1, <2>2, <3>2
    <2> QED
      BY <2>1, <2>2
  <1> QED
    BY <1>3, <1>4 DEF IsTold, w

LEMMA SendTwo ==
  ASSUME NEW S, NEW q \in Seq(S), NEW f \in S, NEW g \in S
  PROVE  /\ q \o (<<f>> \o <<g>>) = (q \o <<f>>) \o <<g>>
         /\ q \o <<f>> \in Seq(S) /\ (q \o <<f>>) \o <<g>> \in Seq(S)
         /\ \A k : Num(q, k) \in Nat /\ Num(q \o <<f>>, k) \in Nat
         /\ \A k : Num(q \o <<f>>, k) = IF f.kind = k THEN Num(q, k) + 1 ELSE Num(q, k)
         /\ \A k : Num((q \o <<f>>) \o <<g>>, k) =
                     IF g.kind = k THEN Num(q \o <<f>>, k) + 1 ELSE Num(q \o <<f>>, k)
  <1>1. q \o <<f>> \in Seq(S)
    BY SendOne
  <1>2. q \o (<<f>> \o <<g>>) = (q \o <<f>>) \o <<g>>
    BY OneFrame, ConcatAssociative
  <1>3. /\ \A k : Num(q, k) \in Nat /\ Num(q \o <<f>>, k) \in Nat
        /\ \A k : Num(q \o <<f>>, k) = IF f.kind = k THEN Num(q, k) + 1 ELSE Num(q, k)
    BY SendOne
  <1>4. /\ (q \o <<f>>) \o <<g>> \in Seq(S)
        /\ \A k : Num((q \o <<f>>) \o <<g>>, k) =
                    IF g.kind = k THEN Num(q \o <<f>>, k) + 1 ELSE Num(q \o <<f>>, k)
    BY <1>1, SendOne
  <1> QED
    BY <1>1, <1>2, <1>3, <1>4

HostReading(u, d, s, m, r, q) ==
  Reading(Host, u, d, s, m, r) /\ HostOwed(u, d, s, m, r, q)

\* The host that has just come in offers what it has ticked, and its map.
LEMMA HostOffers ==
  ASSUME NEW u, NEW d, NEW s, NEW m, NEW r, NEW q, HostReading(u, d, s, m, r, q), m.at = "joining",
         Head(d).kind = "LobbyState"
  PROVE  LET e == ReadLobbyState(Host, m, Head(d))
         IN  /\ PlayerOwed(Host, u \o e.sends, Tail(d), s, e.client, r)
             /\ HostOwed(u \o e.sends, Tail(d), s, e.client, r, q)
             /\ r.mods = Nothing /\ e.client.mapsReady = FALSE
  <1> DEFINE f == Head(d)
             mods == Frame("ModOffer", Chosen)
             map == Frame("MapOffer", Played)
             told == [m EXCEPT !.at = IF @ = "held" THEN "held" ELSE "room", !.host = f.host, !.mapsReady = f.ready]
             offers == [told EXCEPT !.pending = FALSE, !.mapsReady = FALSE, !.modOffered = TRUE, !.modReady = FALSE,
                                    !.mapPackage = Nothing, !.mapOffered = FALSE, !.mapReady = FALSE,
                                    !.modPackage = told.ticks]
             c == [offers EXCEPT !.mapPackage = Played, !.mapOffered = TRUE]
             x == u \o <<mods>>
             v == x \o <<map>>
             w == Tail(d)
  <1>1. /\ Host \in Players /\ m \in Mine /\ s.here
        /\ u \in Seq(UpOf(Host)) /\ d \in Seq(DownOf(Host)) /\ d # <<>>
        /\ ComesAndGoes(u, s, m) /\ Rests(Host, s, m) /\ GetsMods(u, d, s, m, r) /\ GetsMap(u, d, s, m, r)
        /\ m.at # "left"
        /\ HostsRoom(d, m, r) /\ OneCheck(q)
        /\ ModsComing(u, d, s, m, r, q) /\ MapComing(u, d, s, m, r, q) /\ ModsFirst(u, d, m, r, q)
    BY Digested DEF HostReading, Reading, PlayerOwed, HostOwed
  <1>2. /\ f.host = Host /\ m.ticks = Chosen /\ ~m.modOffered /\ w \in Seq(DownOf(Host))
    BY <1>1, ReadOne DEF DownOf, HostsRoom
  <1>3. /\ c.at = "room" /\ c.host = Host /\ c.mapsReady = FALSE /\ c.pending = FALSE
        /\ c.modOffered /\ ~c.modReady /\ c.modPackage = Chosen
        /\ c.mapPackage = Played /\ c.mapOffered /\ ~c.mapReady
        /\ c.modReceive = m.modReceive /\ c.mapReceive = m.mapReceive
        /\ c.modSend = m.modSend /\ c.mapSend = m.mapSend /\ c.ticks = Chosen
    BY <1>1, <1>2 DEF Mine
  <1>4. /\ mods \in UpOf(Host) /\ map \in UpOf(Host) /\ mods.kind = "ModOffer" /\ map.kind = "MapOffer"
    BY <1>1, Answers, FrameTypes
  <1>5. ReadLobbyState(Host, m, f) = Result(c, <<mods>> \o <<map>>)
    <2>1. told.ticks = Chosen /\ ~told.modOffered /\ f.host = Host
      BY <1>1, <1>2 DEF Mine
    <2>2. offers.ticks = Chosen /\ offers.mapPackage = Nothing /\ ~offers.mapOffered
      BY <1>1, <2>1 DEF Mine
    <2>3. OfferMods(told) = Result(offers, <<mods>>)
      BY <2>1 DEF OfferMods
    <2>4. OfferMap(offers) = Result(c, <<map>>)
      BY <2>2 DEF OfferMap, Played
    <2> HIDE DEF c, offers, told
    <2>5. OfferMap(OfferMods(told).client) = Result(c, <<map>>) /\ ~OfferMods(told).client.mapOffered
          /\ OfferMods(told).sends = <<mods>>
      BY <2>2, <2>3, <2>4 DEF Result
    <2> HIDE DEF f, mods, map
    <2>6. ReadLobbyState(Host, m, f) =
            LET a == IF f.host = Host /\ ~m.modOffered THEN OfferMods(told) ELSE Result(told, <<>>)
                b == IF f.host = Host /\ ~a.client.mapOffered THEN OfferMap(a.client) ELSE Result(a.client, <<>>)
            IN  Result(b.client, a.sends \o b.sends)
      BY DEF ReadLobbyState, told
    <2>7. Result(c, <<map>>).client = c /\ Result(c, <<map>>).sends = <<map>>
      BY DEF Result
    <2> QED
      BY <1>2, <2>5, <2>6, <2>7
  <1> HIDE DEF c, offers, told, mods, map
  <1>6. /\ u \o (<<mods>> \o <<map>>) = v /\ x \in Seq(UpOf(Host)) /\ v \in Seq(UpOf(Host))
        /\ \A k : Num(u, k) \in Nat
        /\ \A k : Num(v, k) = IF k \in {"ModOffer", "MapOffer"} THEN Num(u, k) + 1 ELSE Num(u, k)
    <2>1. u \o (<<mods>> \o <<map>>) = v /\ x \in Seq(UpOf(Host)) /\ v \in Seq(UpOf(Host))
      BY <1>1, <1>4, SendTwo
    <2>2. \A k : Num(u, k) \in Nat /\ Num(x, k) = IF mods.kind = k THEN Num(u, k) + 1 ELSE Num(u, k)
      BY <1>1, <1>4, SendOne
    <2>3. \A k : Num(v, k) = IF map.kind = k THEN Num(x, k) + 1 ELSE Num(x, k)
      BY <1>4, <2>1, SendOne
    <2> HIDE DEF v, x
    <2>4. ASSUME NEW k PROVE Num(v, k) = IF k \in {"ModOffer", "MapOffer"} THEN Num(u, k) + 1 ELSE Num(u, k)
      <3>1. /\ Num(x, k) = IF k = "ModOffer" THEN Num(u, k) + 1 ELSE Num(u, k)
            /\ Num(v, k) = IF k = "MapOffer" THEN Num(x, k) + 1 ELSE Num(x, k)
        BY <1>4, <2>2, <2>3
      <3> HIDE DEF Num
      <3> QED
        BY <3>1
    <2> QED
      BY <2>1, <2>2, <2>4
  <1>7. /\ \A k : Num(d, k) \in Nat
        /\ \A k : k # "LobbyState" => Num(w, k) = Num(d, k)
    BY <1>1, ReadOne
  <1>11. /\ Num(u, "ModOffer") = 0 /\ ModChecks(q) = 0 /\ ModsAsked(u, d, m) = 0 /\ r.mods = Nothing
    <2>1. Bit(m.at = "joining") + Num(u, "ModOffer") + ModChecks(q)
              + ModsAsked(u, d, m) + Bit(r.mods # Nothing) = 1
      BY <1>1 DEF ModsComing
    <2>2. Num(u, "ModOffer") \in Nat /\ ModsAsked(u, d, m) \in Nat
      BY <1>6, <1>7 DEF ModsAsked, Bit
    <2>3. ModChecks(q) \in {0, 1}
      BY ChecksValue
    <2> QED
      BY <2>1, <2>2, <2>3 DEF Bit
  <1>12. /\ Num(u, "MapOffer") = 0 /\ s.deferred = Nothing /\ MapChecks(q) = 0
         /\ MapAsked(u, d, m) = 0 /\ r.map = Nothing
    <2>1. Bit(m.at = "joining") + Num(u, "MapOffer") + Bit(s.deferred # Nothing)
              + MapChecks(q) + MapAsked(u, d, m) + Bit(r.map # Nothing) = 1
      BY <1>1 DEF MapComing
    <2>2. Num(u, "MapOffer") \in Nat /\ MapAsked(u, d, m) \in Nat
      BY <1>6, <1>7 DEF MapAsked, Bit
    <2>3. MapChecks(q) \in {0, 1}
      BY ChecksValue
    <2> QED
      BY <2>1, <2>2, <2>3 DEF Bit
  <1>13. /\ Num(u, "ModOffer") = 0 /\ ModChecks(q) = 0 /\ ModsAsked(u, d, m) = 0 /\ r.mods = Nothing
         /\ Num(u, "MapOffer") = 0 /\ s.deferred = Nothing /\ MapChecks(q) = 0
         /\ MapAsked(u, d, m) = 0 /\ r.map = Nothing
    BY <1>11, <1>12
  <1>8. OffersInOrder(v)
    <2>1. OffersInOrder(x)
      BY <1>1, <1>4, <1>13, OrderJoined DEF ModsFirst
    <2> HIDE DEF x
    <2> QED
      BY <1>4, <1>6, <2>1, OrderJoined
  <1> HIDE DEF v, w, x
  <1>9. PlayerOwed(Host, v, w, s, c, r)
    <2>1. Num(u, "Join") = 0 /\ Num(v, "Join") = 0
      BY <1>1, <1>6 DEF ComesAndGoes, Bit
    <2>2. ComesAndGoes(v, s, c)
      BY <1>1, <1>3, <2>1 DEF ComesAndGoes, Bit
    <2>3. Rests(Host, s, c)
      BY <1>3 DEF Rests
    <2>4. GetsMap(v, w, s, c, r)
      BY <1>1, <1>3, <1>6, <1>7 DEF GetsMap, MapSent, HasMap
    <2>5. /\ Num(u, "ModReady") \in Nat /\ Num(u, "ModRequest") \in Nat
          /\ Num(d, "ModOffer") \in Nat /\ Num(d, "ModChunk") \in Nat
          /\ Num(d, "ModOffer") + ModsSent(u, d, s) + HasMods(u, s) = Bit(r.mods # Nothing)
      BY <1>1, <1>6, <1>7 DEF GetsMods
    <2>6. HasMods(u, s) = 0
      BY <1>13, <2>5 DEF ModsSent, HasMods, Bit
    <2>7. HasMods(v, s) = HasMods(u, s) /\ ModsSent(v, w, s) = ModsSent(u, d, s)
      BY <1>6, <1>7 DEF HasMods, ModsSent
    <2>8. GetsMods(v, w, s, c, r)
      BY <1>1, <1>3, <1>7, <2>6, <2>7 DEF GetsMods
    <2> QED
      BY <1>2, <1>3, <1>6, <2>2, <2>3, <2>4, <2>8 DEF PlayerOwed, w
  <1>10. HostOwed(v, w, s, c, r, q) /\ r.mods = Nothing
    <2>1. ModsAsked(v, w, c) = ModsAsked(u, d, m) /\ MapAsked(v, w, c) = MapAsked(u, d, m)
      BY <1>3, <1>6, <1>7 DEF ModsAsked, MapAsked
    <2>2. Num(v, "ModOffer") = 1 /\ Num(v, "MapOffer") = 1
      BY <1>6, <1>13
    <2>3. s.modReceive = Nothing /\ s.mapReceive = Nothing
      BY <1>1, <1>13 DEF ModsComing, MapComing
    <2>4. ModsComing(v, w, s, c, r, q)
      BY <1>3, <1>13, <2>1, <2>2, <2>3 DEF ModsComing, Bit
    <2>5. MapComing(v, w, s, c, r, q)
      BY <1>3, <1>13, <2>1, <2>2, <2>3 DEF MapComing, Bit
    <2>6. ModsFirst(v, w, c, r, q)
      BY <1>8, <1>13, <2>1, <2>2 DEF ModsFirst
    <2>7. HostsRoom(w, c, r)
      BY <1>1, <1>3 DEF HostsRoom
    <2> QED
      BY <1>1, <1>13, <2>4, <2>5, <2>6, <2>7 DEF HostOwed
  <1>14. Result(c, <<mods>> \o <<map>>).client = c /\ Result(c, <<mods>> \o <<map>>).sends = <<mods>> \o <<map>>
    BY DEF Result
  <1> QED
    BY <1>3, <1>5, <1>6, <1>9, <1>10, <1>14 DEF w

\* Where the mods are, they are nowhere else, and nor is the map.
LEMMA ModsStage ==
  ASSUME NEW S, NEW u \in Seq(S), NEW T, NEW d \in Seq(T),
         NEW s, NEW m, NEW r, NEW q, HostOwed(u, d, s, m, r, q)
  PROVE  /\ Num(u, "ModOffer") \in Nat /\ ModChecks(q) \in Nat /\ ModsAsked(u, d, m) \in Nat
         /\ m.at = "joining" => /\ Num(u, "ModOffer") = 0 /\ ModChecks(q) = 0 /\ ModsAsked(u, d, m) = 0
                                /\ r.mods = Nothing
         /\ Num(u, "ModOffer") > 0 => /\ m.at # "joining" /\ Num(u, "ModOffer") = 1 /\ ModChecks(q) = 0
                                      /\ ModsAsked(u, d, m) = 0 /\ r.mods = Nothing
         /\ ModChecks(q) > 0 => /\ m.at # "joining" /\ Num(u, "ModOffer") = 0 /\ ModChecks(q) = 1
                                /\ ModsAsked(u, d, m) = 0 /\ r.mods = Nothing
         /\ ModsAsked(u, d, m) > 0 => /\ m.at # "joining" /\ Num(u, "ModOffer") = 0 /\ ModChecks(q) = 0
                                      /\ ModsAsked(u, d, m) = 1 /\ r.mods = Nothing
         /\ r.mods # Nothing => /\ m.at # "joining" /\ Num(u, "ModOffer") = 0 /\ ModChecks(q) = 0
                                /\ ModsAsked(u, d, m) = 0
         /\ \/ m.at = "joining" \/ Num(u, "ModOffer") > 0 \/ ModChecks(q) > 0
            \/ ModsAsked(u, d, m) > 0 \/ r.mods # Nothing
  <1>1. /\ Num(u, "ModOffer") \in Nat /\ Num(u, "ModChunk") \in Nat /\ Num(d, "ModRequest") \in Nat
    BY NumNat
  <1>2. ModsAsked(u, d, m) \in Nat
    BY <1>1 DEF ModsAsked, Bit
  <1> DEFINE a == Bit(m.at = "joining")
             b == Num(u, "ModOffer")
             c == ModChecks(q)
             e == ModsAsked(u, d, m)
             f == Bit(r.mods # Nothing)
  <1>3. a + b + c + e + f = 1
    BY DEF HostOwed, ModsComing
  <1>4. /\ a \in {0, 1} /\ (m.at = "joining" <=> a = 1) /\ f \in {0, 1} /\ (r.mods # Nothing <=> f = 1)
        /\ b \in Nat /\ c \in {0, 1} /\ e \in Nat
    BY <1>1, <1>2, ChecksValue DEF Bit
  <1> HIDE DEF a, b, c, e, f
  <1>5. /\ a = 1 => b = 0 /\ c = 0 /\ e = 0 /\ f = 0
        /\ b > 0 => a = 0 /\ b = 1 /\ c = 0 /\ e = 0 /\ f = 0
        /\ c > 0 => a = 0 /\ b = 0 /\ c = 1 /\ e = 0 /\ f = 0
        /\ e > 0 => a = 0 /\ b = 0 /\ c = 0 /\ e = 1 /\ f = 0
        /\ f = 1 => a = 0 /\ b = 0 /\ c = 0 /\ e = 0
        /\ a = 1 \/ b > 0 \/ c > 0 \/ e > 0 \/ f = 1
    BY <1>3, <1>4
  <1> QED
    BY <1>4, <1>5 DEF b, c, e

LEMMA MapStage ==
  ASSUME NEW S, NEW u \in Seq(S), NEW T, NEW d \in Seq(T),
         NEW s, NEW m, NEW r, NEW q, HostOwed(u, d, s, m, r, q)
  PROVE  /\ Num(u, "MapOffer") \in Nat /\ MapChecks(q) \in Nat /\ MapAsked(u, d, m) \in Nat
         /\ m.at = "joining" => /\ Num(u, "MapOffer") = 0 /\ s.deferred = Nothing /\ MapChecks(q) = 0
                                /\ MapAsked(u, d, m) = 0 /\ r.map = Nothing
         /\ Num(u, "MapOffer") > 0 => /\ m.at # "joining" /\ Num(u, "MapOffer") = 1 /\ s.deferred = Nothing
                                      /\ MapChecks(q) = 0 /\ MapAsked(u, d, m) = 0 /\ r.map = Nothing
         /\ s.deferred # Nothing => /\ m.at # "joining" /\ Num(u, "MapOffer") = 0 /\ MapChecks(q) = 0
                                    /\ MapAsked(u, d, m) = 0 /\ r.map = Nothing
         /\ MapChecks(q) > 0 => /\ m.at # "joining" /\ Num(u, "MapOffer") = 0 /\ s.deferred = Nothing
                                /\ MapChecks(q) = 1 /\ MapAsked(u, d, m) = 0 /\ r.map = Nothing
         /\ MapAsked(u, d, m) > 0 => /\ m.at # "joining" /\ Num(u, "MapOffer") = 0 /\ s.deferred = Nothing
                                     /\ MapChecks(q) = 0 /\ MapAsked(u, d, m) = 1 /\ r.map = Nothing
         /\ r.map # Nothing => /\ m.at # "joining" /\ Num(u, "MapOffer") = 0 /\ s.deferred = Nothing
                               /\ MapChecks(q) = 0 /\ MapAsked(u, d, m) = 0
         /\ \/ m.at = "joining" \/ Num(u, "MapOffer") > 0 \/ s.deferred # Nothing \/ MapChecks(q) > 0
            \/ MapAsked(u, d, m) > 0 \/ r.map # Nothing
  <1>1. /\ Num(u, "MapOffer") \in Nat /\ Num(u, "MapChunk") \in Nat /\ Num(d, "MapRequest") \in Nat
    BY NumNat
  <1>2. MapAsked(u, d, m) \in Nat
    BY <1>1 DEF MapAsked, Bit
  <1> DEFINE a == Bit(m.at = "joining")
             b == Num(u, "MapOffer")
             g == Bit(s.deferred # Nothing)
             c == MapChecks(q)
             e == MapAsked(u, d, m)
             f == Bit(r.map # Nothing)
  <1>3. a + b + g + c + e + f = 1
    BY DEF HostOwed, MapComing
  <1>4. /\ a \in {0, 1} /\ (m.at = "joining" <=> a = 1) /\ f \in {0, 1} /\ (r.map # Nothing <=> f = 1)
        /\ g \in {0, 1} /\ (s.deferred # Nothing <=> g = 1)
        /\ b \in Nat /\ c \in {0, 1} /\ e \in Nat
    BY <1>1, <1>2, ChecksValue DEF Bit
  <1> HIDE DEF a, b, g, c, e, f
  <1>5. /\ a = 1 => b = 0 /\ g = 0 /\ c = 0 /\ e = 0 /\ f = 0
        /\ b > 0 => a = 0 /\ b = 1 /\ g = 0 /\ c = 0 /\ e = 0 /\ f = 0
        /\ g = 1 => a = 0 /\ b = 0 /\ c = 0 /\ e = 0 /\ f = 0
        /\ c > 0 => a = 0 /\ b = 0 /\ g = 0 /\ c = 1 /\ e = 0 /\ f = 0
        /\ e > 0 => a = 0 /\ b = 0 /\ g = 0 /\ c = 0 /\ e = 1 /\ f = 0
        /\ f = 1 => a = 0 /\ b = 0 /\ g = 0 /\ c = 0 /\ e = 0
        /\ a = 1 \/ b > 0 \/ g = 1 \/ c > 0 \/ e > 0 \/ f = 1
    BY <1>3, <1>4
  <1> QED
    BY <1>4, <1>5 DEF b, c, e

\* The host is asked for its mods once, and has them.
LEMMA ModRequestOwed ==
  ASSUME NEW u, NEW d, NEW s, NEW m, NEW r, NEW q, HostReading(u, d, s, m, r, q),
         Head(d).kind = "ModRequest"
  PROVE  LET e == ReadModRequest(Host, m)
         IN  /\ PlayerOwed(Host, u \o e.sends, Tail(d), s, e.client, r)
             /\ HostOwed(u \o e.sends, Tail(d), s, e.client, r, q)
             /\ e.client.mapsReady = m.mapsReady
  <1> DEFINE c == [m EXCEPT !.modSend = Chosen]
             w == Tail(d)
  <1>1. /\ m \in Mine /\ Reading(Host, u, d, s, m, r) /\ HostOwed(u, d, s, m, r, q)
        /\ u \in Seq(UpOf(Host)) /\ d \in Seq(DownOf(Host)) /\ d # <<>> /\ Rests(Host, s, m)
        /\ m.at \in {"joining", "room"} /\ HostsRoom(d, m, r)
    BY DEF HostReading, Reading, PlayerOwed, HostOwed
  <1>2. /\ \A k : Num(d, k) \in Nat /\ Num(w, k) \in Nat
        /\ \A k : Num(d, k) = IF k = "ModRequest" THEN Num(w, k) + 1 ELSE Num(w, k)
    BY <1>1, ReadOne
  <1>3. /\ Num(d, "ModRequest") = Num(w, "ModRequest") + 1 /\ Num(w, "ModRequest") \in Nat
        /\ Num(u, "ModChunk") \in Nat
    BY <1>1, <1>2, NumNat
  <1>4. ModsAsked(u, d, m) > 0
    BY <1>3 DEF ModsAsked, Bit
  <1>5. /\ m.at = "room" /\ Num(u, "ModOffer") = 0 /\ ModChecks(q) = 0 /\ ModsAsked(u, d, m) = 1 /\ r.mods = Nothing
    BY <1>1, <1>4, ModsStage
  <1>6. /\ m.modSend = Nothing /\ Num(w, "ModRequest") = 0 /\ Num(u, "ModChunk") = 0
    BY <1>3, <1>5 DEF ModsAsked, Bit
  <1>7. /\ c.at = "room" /\ c.host = m.host /\ c.ticks = m.ticks /\ c.modOffered = m.modOffered
        /\ c.mapOffered = m.mapOffered /\ c.modPackage = m.modPackage /\ c.mapPackage = m.mapPackage
        /\ c.modSend = Chosen /\ c.mapSend = m.mapSend /\ c.mapsReady = m.mapsReady
        /\ c.modReceive = m.modReceive /\ c.modReady = m.modReady /\ c.mapReceive = m.mapReceive
        /\ c.pending = m.pending
    BY <1>1, <1>5 DEF Mine
  <1>8. ReadModRequest(Host, m) = Result(c, <<>>)
    BY <1>1, <1>5, <1>6, Digested DEF ReadModRequest, HostsRoom
  <1> HIDE DEF c, w
  <1>9. PlayerOwed(Host, u, w, s, c, r)
    <2>1. Rests(Host, s, c)
      BY <1>1, <1>7 DEF Rests
    <2> QED
      BY <1>1, <1>7, <2>1, IdleRead DEF w
  <1>10. HostOwed(u, w, s, c, r, q)
    <2>1. ModsAsked(u, w, c) = 1
      BY <1>6, <1>7, Digested DEF ModsAsked, Bit
    <2>2. MapAsked(u, w, c) = MapAsked(u, d, m)
      BY <1>2, <1>7 DEF MapAsked
    <2>3. HostsRoom(w, c, r)
      BY <1>1, <1>5, <1>7 DEF HostsRoom
    <2>4. ModsComing(u, w, s, c, r, q)
      <3>1. s.modReceive = Chosen
        BY <1>1, <1>5 DEF HostOwed, ModsComing
      <3> QED
        BY <1>5, <1>7, <2>1, <3>1 DEF ModsComing, Bit
    <2>5. MapComing(u, w, s, c, r, q)
      BY <1>1, <1>5, <1>7, <2>2 DEF HostOwed, MapComing
    <2>6. ModsFirst(u, w, c, r, q)
      BY <1>1, <2>2 DEF HostOwed, ModsFirst
    <2> QED
      BY <1>1, <2>3, <2>4, <2>5, <2>6 DEF HostOwed
  <1>11. Result(c, <<>>).client = c /\ Result(c, <<>>).sends = <<>> /\ u \o <<>> = u
    BY <1>1, SendNone DEF Result
  <1> QED
    BY <1>7, <1>8, <1>9, <1>10, <1>11 DEF w

\* The host is asked for its map once, and has them.
LEMMA MapRequestOwed ==
  ASSUME NEW u, NEW d, NEW s, NEW m, NEW r, NEW q, HostReading(u, d, s, m, r, q),
         Head(d).kind = "MapRequest"
  PROVE  LET e == ReadMapRequest(Host, m)
         IN  /\ PlayerOwed(Host, u \o e.sends, Tail(d), s, e.client, r)
             /\ HostOwed(u \o e.sends, Tail(d), s, e.client, r, q)
             /\ e.client.mapsReady = m.mapsReady
  <1> DEFINE c == [m EXCEPT !.mapSend = Played]
             w == Tail(d)
  <1>1. /\ m \in Mine /\ Reading(Host, u, d, s, m, r) /\ HostOwed(u, d, s, m, r, q)
        /\ u \in Seq(UpOf(Host)) /\ d \in Seq(DownOf(Host)) /\ d # <<>> /\ Rests(Host, s, m)
        /\ m.at \in {"joining", "room"} /\ HostsRoom(d, m, r)
    BY DEF HostReading, Reading, PlayerOwed, HostOwed
  <1>2. /\ \A k : Num(d, k) \in Nat /\ Num(w, k) \in Nat
        /\ \A k : Num(d, k) = IF k = "MapRequest" THEN Num(w, k) + 1 ELSE Num(w, k)
    BY <1>1, ReadOne
  <1>3. /\ Num(d, "MapRequest") = Num(w, "MapRequest") + 1 /\ Num(w, "MapRequest") \in Nat
        /\ Num(u, "MapChunk") \in Nat
    BY <1>1, <1>2, NumNat
  <1>4. MapAsked(u, d, m) > 0
    BY <1>3 DEF MapAsked, Bit
  <1>5. /\ m.at = "room" /\ Num(u, "MapOffer") = 0 /\ s.deferred = Nothing /\ MapChecks(q) = 0
        /\ MapAsked(u, d, m) = 1 /\ r.map = Nothing
    BY <1>1, <1>4, MapStage
  <1>6. /\ m.mapSend = Nothing /\ Num(w, "MapRequest") = 0 /\ Num(u, "MapChunk") = 0
    BY <1>3, <1>5 DEF MapAsked, Bit
  <1>7. /\ c.at = "room" /\ c.host = m.host /\ c.ticks = m.ticks /\ c.modOffered = m.modOffered
        /\ c.mapOffered = m.mapOffered /\ c.modPackage = m.modPackage /\ c.mapPackage = m.mapPackage
        /\ c.mapSend = Played /\ c.modSend = m.modSend /\ c.mapsReady = m.mapsReady
        /\ c.modReceive = m.modReceive /\ c.modReady = m.modReady /\ c.mapReceive = m.mapReceive
        /\ c.pending = m.pending
    BY <1>1, <1>5 DEF Mine
  <1>8. ReadMapRequest(Host, m) = Result(c, <<>>)
    BY <1>1, <1>5, <1>6, Digested DEF ReadMapRequest, HostsRoom
  <1> HIDE DEF c, w
  <1>9. PlayerOwed(Host, u, w, s, c, r)
    <2>1. Rests(Host, s, c)
      BY <1>1, <1>7 DEF Rests
    <2> QED
      BY <1>1, <1>7, <2>1, IdleRead DEF w
  <1>10. HostOwed(u, w, s, c, r, q)
    <2>1. MapAsked(u, w, c) = 1
      BY <1>6, <1>7, Digested DEF MapAsked, Bit
    <2>2. ModsAsked(u, w, c) = ModsAsked(u, d, m)
      BY <1>2, <1>7 DEF ModsAsked
    <2>3. HostsRoom(w, c, r)
      BY <1>1, <1>5, <1>7 DEF HostsRoom
    <2>4. ModsComing(u, w, s, c, r, q)
      BY <1>1, <1>5, <1>7, <2>2 DEF HostOwed, ModsComing
    <2>5. MapComing(u, w, s, c, r, q)
      <3>1. s.mapReceive = Played
        BY <1>1, <1>5 DEF HostOwed, MapComing
      <3> QED
        BY <1>5, <1>7, <2>1, <3>1 DEF MapComing, Bit
    <2>6. ModsFirst(u, w, c, r, q)
      BY <1>1, <1>5, <2>1 DEF HostOwed, ModsFirst
    <2> QED
      BY <1>1, <2>3, <2>4, <2>5, <2>6 DEF HostOwed
  <1>11. Result(c, <<>>).client = c /\ Result(c, <<>>).sends = <<>> /\ u \o <<>> = u
    BY <1>1, SendNone DEF Result
  <1> QED
    BY <1>7, <1>8, <1>9, <1>10, <1>11 DEF w

\* What else anybody reads about the packages changes little for the host.
LEMMA Expected ==
  ASSUME NEW p, NEW u, NEW d, NEW s, NEW m, NEW r, Reading(p, u, d, s, m, r)
  PROVE  /\ Head(d).kind = "ModChunk" => m.modReceive = Chosen
         /\ Head(d).kind = "MapOffer" => m.mapReceive = Nothing
         /\ Head(d).kind = "MapChunk" => m.mapReceive = Played
  <1>1. /\ u \in Seq(UpOf(p)) /\ d \in Seq(DownOf(p)) /\ d # <<>>
        /\ GetsMods(u, d, s, m, r) /\ GetsMap(u, d, s, m, r)
    BY DEF Reading, PlayerOwed
  <1>2. /\ Num(d, "ModChunk") \in Nat /\ Num(d, "MapOffer") \in Nat /\ Num(d, "MapChunk") \in Nat
        /\ Num(u, "ModRequest") \in Nat /\ Num(u, "MapRequest") \in Nat /\ Num(u, "MapReady") \in Nat
    BY <1>1, NumNat
  <1>3. /\ Head(d).kind = "ModChunk" => Num(d, "ModChunk") > 0
        /\ Head(d).kind = "MapOffer" => Num(d, "MapOffer") > 0
        /\ Head(d).kind = "MapChunk" => Num(d, "MapChunk") > 0
    <2>1. \A k : Head(d).kind = k => Num(d, k) = Num(Tail(d), k) + 1 /\ Num(Tail(d), k) \in Nat
      BY <1>1, ReadOne
    <2> HIDE DEF Num
    <2> QED
      BY <2>1
  <1> HIDE DEF Num
  <1>4. ASSUME Head(d).kind = "ModChunk" PROVE m.modReceive = Chosen
    BY <1>1, <1>2, <1>3, <1>4 DEF GetsMods, ModsSent, Bit
  <1>5. ASSUME Head(d).kind = "MapChunk" PROVE m.mapReceive = Played
    BY <1>1, <1>2, <1>3, <1>5 DEF GetsMap, MapSent, Bit
  <1>6. ASSUME Head(d).kind = "MapOffer" PROVE m.mapReceive = Nothing
    <2>1. Num(d, "MapOffer") + MapSent(u, d, s) + HasMap(u, s) = Bit(r.map # Nothing)
      BY <1>1 DEF GetsMap
    <2>2. MapSent(u, d, s) = 0
      BY <1>2, <1>3, <1>6, <2>1 DEF MapSent, HasMap, Bit
    <2> QED
      BY <1>1, <2>2 DEF GetsMap
  <1> QED
    BY <1>4, <1>5, <1>6

Received == {"ModOffer", "ModChunk", "MapOffer", "MapChunk"}
SameButPackages(m, c) ==
  /\ c.at = m.at /\ c.host = m.host /\ c.ticks = m.ticks /\ c.mapsReady = m.mapsReady
  /\ c.modOffered = m.modOffered /\ c.mapOffered = m.mapOffered
  /\ c.modSend = m.modSend /\ c.mapSend = m.mapSend
  /\ c.modPackage \in {m.modPackage, Chosen} /\ c.mapPackage \in {m.mapPackage, Played}

LEMMA Receives ==
  ASSUME NEW p, NEW u, NEW d, NEW s, NEW m, NEW r, Reading(p, u, d, s, m, r), Head(d).kind \in Received
  PROVE  LET e == Reads(p, m, Head(d))
         IN  /\ SameButPackages(m, e.client)
             /\ \E g \in UpOf(p) : e.sends = <<g>> /\ g.kind \in {"ModReady", "ModRequest", "MapReady", "MapRequest"}
  <1> DEFINE f == Head(d)
             e == Reads(p, m, f)
             accepted(c) == /\ SameButPackages(m, c.client)
                            /\ \E g \in UpOf(p) : /\ c.sends = <<g>>
                                                  /\ g.kind \in {"ModReady", "ModRequest", "MapReady", "MapRequest"}
  <1>1. /\ p \in Players /\ m \in Mine /\ m.at \in {"joining", "room"} /\ f \in DownOf(p)
    BY ReadOne DEF Reading, PlayerOwed
  <1>2. /\ f.kind \in {"ModOffer", "ModChunk"} => f.digest = Chosen
        /\ f.kind \in {"MapOffer", "MapChunk"} => f.digest = Played
    BY <1>1 DEF DownOf
  <1>3. ASSUME NEW c \in Mine, SameButPackages(m, c)
        PROVE  accepted(AcceptMods(c, Chosen)) /\ accepted(AcceptMap(c, Played))
    <2> DEFINE a == [c EXCEPT !.modPackage = Chosen, !.modReceive = Nothing, !.modReady = TRUE, !.has = @ \cup {Chosen}]
               b == [c EXCEPT !.mapPackage = Played, !.mapReceive = Nothing, !.mapReady = TRUE, !.has = @ \cup {Played}]
               x == Frame("ModReady", Chosen)
               y == Frame("MapReady", Played)
    <2>1. SameButPackages(m, a) /\ SameButPackages(m, b)
      BY <1>3 DEF SameButPackages, Mine
    <2>2. a.at # "held" /\ b.at # "held"
      BY <1>1, <2>1 DEF SameButPackages
    <2>3. AcceptMods(c, Chosen).client = a /\ AcceptMods(c, Chosen).sends = <<x>>
      <3> HIDE DEF x
      <3> QED
        BY <2>2 DEF AcceptMods, Result, Starts, x
    <2>4. AcceptMap(c, Played).client = b /\ AcceptMap(c, Played).sends = <<y>>
      BY <2>2 DEF AcceptMap, Result, Starts
    <2>5. x \in UpOf(p) /\ y \in UpOf(p) /\ x.kind = "ModReady" /\ y.kind = "MapReady"
      BY <1>1, Answers, FrameTypes
    <2> HIDE DEF a, b, x, y
    <2> QED
      BY <2>1, <2>3, <2>4, <2>5
  <1>4. ASSUME NEW c \in Mine, SameButPackages(m, c), NEW k \in {"ModRequest", "MapRequest"},
               NEW x, k = "ModRequest" => x = Chosen, k = "MapRequest" => x = Nothing
        PROVE  accepted(Result(c, <<Frame(k, x)>>))
    <2>1. Frame(k, x) \in UpOf(p) /\ Frame(k, x).kind = k
      BY <1>1, <1>4, Answers, FrameTypes
    <2>2. Result(c, <<Frame(k, x)>>).client = c /\ Result(c, <<Frame(k, x)>>).sends = <<Frame(k, x)>>
      BY DEF Result
    <2> QED
      BY <1>4, <2>1, <2>2
  <1>5. SameButPackages(m, m)
    BY DEF SameButPackages
  <1> HIDE DEF accepted
  <1>6. CASE f.kind = "ModOffer"
    <2> DEFINE told == [m EXCEPT !.modReceive = f.digest, !.modReady = FALSE]
    <2>1. told \in Mine /\ SameButPackages(m, told)
      BY <1>1, <1>2, <1>6, Digested DEF Mine, SameButPackages
    <2>2. e = IF m.modPackage = f.digest \/ f.digest \in m.has THEN AcceptMods(told, f.digest)
              ELSE Result(told, <<Frame("ModRequest", f.digest)>>)
      BY <1>6 DEF Reads, ReadModOffer
    <2>3. accepted(AcceptMods(told, Chosen)) /\ accepted(Result(told, <<Frame("ModRequest", Chosen)>>))
      BY <1>3, <1>4, <2>1
    <2> QED
      BY <1>2, <1>6, <2>2, <2>3 DEF accepted
  <1>7. CASE f.kind = "ModChunk"
    <2>1. e = AcceptMods(m, Chosen)
      BY <1>2, <1>7, Expected, Digested DEF Reads, ReadModChunk
    <2> QED
      BY <1>1, <1>3, <1>5, <2>1 DEF accepted
  <1>8. CASE f.kind = "MapOffer"
    <2> DEFINE told == [m EXCEPT !.mapReady = FALSE, !.mapReceive = f.digest]
    <2>1. told \in Mine /\ SameButPackages(m, told)
      BY <1>1, <1>2, <1>8, Digested DEF Mine, SameButPackages
    <2>2. m.mapReceive # f.digest
      BY <1>2, <1>8, Expected, Digested
    <2>3. e = IF m.mapPackage = f.digest THEN AcceptMap(m, f.digest)
              ELSE IF f.digest \in m.has THEN AcceptMap(told, f.digest)
              ELSE Result(told, <<Frame("MapRequest", Nothing)>>)
      BY <1>8, <2>2 DEF Reads, ReadMapOffer
    <2>4. /\ accepted(AcceptMap(told, Played)) /\ accepted(Result(told, <<Frame("MapRequest", Nothing)>>))
          /\ accepted(AcceptMap(m, Played))
      BY <1>1, <1>3, <1>4, <1>5, <2>1
    <2> QED
      BY <1>2, <1>8, <2>3, <2>4 DEF accepted
  <1>9. CASE f.kind = "MapChunk"
    <2>1. e = AcceptMap(m, Played)
      BY <1>2, <1>9, Expected, Digested DEF Reads, ReadMapChunk
    <2> QED
      BY <1>1, <1>3, <1>5, <2>1 DEF accepted
  <1> QED
    BY <1>6, <1>7, <1>8, <1>9 DEF Received

\* A host is told where the room stands; a guest is, too, and no more.
Shown(m, f, c) ==
  /\ c.at = "room" /\ c.host = Host /\ c.mapsReady = f.ready /\ c.ticks = m.ticks
  /\ c.modOffered = m.modOffered /\ c.mapOffered = m.mapOffered
  /\ c.modPackage = m.modPackage /\ c.mapPackage = m.mapPackage
  /\ c.modSend = m.modSend /\ c.mapSend = m.mapSend

LEMMA LobbyStateOwed ==
  ASSUME NEW p, NEW u, NEW d, NEW s, NEW m, NEW r, Reading(p, u, d, s, m, r), Head(d).kind = "LobbyState",
         p = Host => m.at = "room" /\ m.modOffered /\ m.mapOffered
  PROVE  LET e == ReadLobbyState(p, m, Head(d))
         IN  /\ PlayerOwed(p, u \o e.sends, Tail(d), s, e.client, r)
             /\ u \o e.sends = u
             /\ Shown(m, Head(d), e.client)
  <1> DEFINE f == Head(d)
             c == [m EXCEPT !.at = "room", !.host = Host, !.mapsReady = f.ready]
  <1>1. /\ p \in Players /\ m \in Mine /\ f \in DownOf(p) /\ Rests(p, s, m) /\ u \in Seq(UpOf(p))
    BY ReadOne DEF Reading, PlayerOwed
  <1>2. f.host = Host
    BY <1>1 DEF DownOf
  <1>3. /\ c.at = "room" /\ c.host = Host /\ c.modOffered = m.modOffered /\ c.mapOffered = m.mapOffered
        /\ c.pending = m.pending /\ c.modSend = m.modSend /\ c.mapSend = m.mapSend
        /\ c.modReceive = m.modReceive /\ c.modReady = m.modReady /\ c.mapReceive = m.mapReceive
    BY <1>1 DEF Mine
  <1>9. Shown(m, f, c)
    BY <1>1 DEF Mine, Shown
  <1>4. ~(Host = p /\ ~m.modOffered) /\ ~(Host = p /\ ~c.mapOffered)
    BY <1>3
  <1>5. ReadLobbyState(p, m, f) = Result(c, <<>>)
    <2>1. ReadLobbyState(p, m, f) =
            LET a == IF f.host = p /\ ~m.modOffered THEN OfferMods(c) ELSE Result(c, <<>>)
                b == IF f.host = p /\ ~a.client.mapOffered THEN OfferMap(a.client) ELSE Result(a.client, <<>>)
            IN  Result(b.client, a.sends \o b.sends)
      <3>1. c = [m EXCEPT !.at = IF @ = "held" THEN "held" ELSE "room", !.host = f.host, !.mapsReady = f.ready]
        BY <1>1, <1>2 DEF Reading, Mine
      <3> HIDE DEF c
      <3> QED
        BY <3>1 DEF ReadLobbyState
    <2> HIDE DEF c, f
    <2>2. Result(c, <<>>).client = c /\ Result(c, <<>>).sends = <<>> /\ <<>> \o <<>> = <<>>
      BY DEF Result
    <2> QED
      BY <1>2, <1>4, <2>1, <2>2
  <1> HIDE DEF c
  <1>6. Rests(p, s, c)
    BY <1>1, <1>3 DEF Rests
  <1>7. PlayerOwed(p, u, Tail(d), s, c, r)
    BY <1>3, <1>6, IdleRead
  <1>8. Result(c, <<>>).client = c /\ Result(c, <<>>).sends = <<>> /\ u \o <<>> = u
    BY <1>1, SendNone DEF Result
  <1> QED
    BY <1>5, <1>7, <1>8, <1>9

LEMMA ErrorOwed ==
  ASSUME NEW p, NEW u, NEW d, NEW s, NEW m, NEW r, Reading(p, u, d, s, m, r), Head(d).kind = "MapError"
  PROVE  LET c == [m EXCEPT !.startSent = FALSE] IN PlayerOwed(p, u, Tail(d), s, c, r)
  <1> DEFINE c == [m EXCEPT !.startSent = FALSE]
  <1>1. m \in Mine /\ m.at \in {"joining", "room"} /\ Rests(p, s, m)
    BY DEF Reading, PlayerOwed
  <1>2. /\ c.at = m.at /\ c.modReceive = m.modReceive /\ c.modReady = m.modReady /\ c.mapReceive = m.mapReceive
        /\ Rests(p, s, c)
    BY <1>1 DEF Mine, Rests
  <1> HIDE DEF c
  <1>3. PlayerOwed(p, u, Tail(d), s, c, r)
    BY <1>1, <1>2, IdleRead
  <1> QED
    BY <1>3 DEF c

\* Whatever anybody reads.
LEMMA ClientReadOwed ==
  ASSUME NEW p, NEW u, NEW d, NEW s, NEW m, NEW r, Reading(p, u, d, s, m, r), p # Host
  PROVE  LET e == Reads(p, m, Head(d)) IN PlayerOwed(p, u \o e.sends, Tail(d), s, e.client, r)
  <1> DEFINE f == Head(d)
  <1>1. f \in DownOf(p) /\ u \in Seq(UpOf(p))
    BY ReadOne DEF Reading, PlayerOwed
  <1>2. f.kind \in {"LobbyState", "MapError"} \cup Received
    BY <1>1 DEF DownOf, DownFrames, Downward, Received
  <1>3. CASE f.kind = "LobbyState"
    <2>1. Reads(p, m, f) = ReadLobbyState(p, m, f)
      BY <1>3 DEF Reads
    <2>2. p = Host => m.at = "room" /\ m.modOffered /\ m.mapOffered
      OBVIOUS
    <2>3. LET e == ReadLobbyState(p, m, f) IN PlayerOwed(p, u \o e.sends, Tail(d), s, e.client, r)
      BY <1>3, <2>2, LobbyStateOwed
    <2> QED
      BY <2>1, <2>3
  <1>4. CASE f.kind = "MapError"
    <2> DEFINE c == [m EXCEPT !.startSent = FALSE]
    <2>1. Reads(p, m, f) = Result(c, <<>>)
      BY <1>4 DEF Reads
    <2>2. PlayerOwed(p, u, Tail(d), s, c, r)
      BY <1>4, ErrorOwed
    <2> HIDE DEF c
    <2>3. Result(c, <<>>).client = c /\ Result(c, <<>>).sends = <<>> /\ u \o <<>> = u
      BY <1>1, SendNone DEF Result
    <2> QED
      BY <2>1, <2>2, <2>3
  <1>5. CASE f.kind = "ModOffer"
    <2>1. Reads(p, m, f) = ReadModOffer(m, f)
      BY <1>5 DEF Reads
    <2> QED
      BY <1>5, <2>1, ModOfferOwed
  <1>6. CASE f.kind = "ModChunk"
    <2>1. Reads(p, m, f) = ReadModChunk(m, f)
      BY <1>6 DEF Reads
    <2> QED
      BY <1>6, <2>1, ModChunkOwed
  <1>7. CASE f.kind = "MapOffer"
    <2>1. Reads(p, m, f) = ReadMapOffer(m, f)
      BY <1>7 DEF Reads
    <2> QED
      BY <1>7, <2>1, MapOfferOwed
  <1>8. CASE f.kind = "MapChunk"
    <2>1. Reads(p, m, f) = ReadMapChunk(m, f)
      BY <1>8 DEF Reads
    <2> QED
      BY <1>8, <2>1, MapChunkOwed
  <1> QED
    BY <1>2, <1>3, <1>4, <1>5, <1>6, <1>7, <1>8 DEF Received

HostReadOwed(u, d, s, e, r, q, t) ==
  /\ PlayerOwed(Host, u \o e.sends, Tail(d), s, e.client, r)
  /\ HostOwed(u \o e.sends, Tail(d), s, e.client, r, q)
  /\ IsTold(Tail(d), e.client, r, t)

LEMMA HostReceives ==
  ASSUME NEW u, NEW d, NEW s, NEW m, NEW r, Reading(Host, u, d, s, m, r), Head(d).kind \in Received
  PROVE  LET e == Reads(Host, m, Head(d))
         IN  /\ SameButPackages(m, e.client)
             /\ \E g \in UpOf(Host) : e.sends = <<g>> /\ g.kind \in {"ModReady", "ModRequest", "MapReady", "MapRequest"}
  BY Receives

LEMMA HostIsTold ==
  ASSUME NEW u, NEW d, NEW s, NEW m, NEW r, Reading(Host, u, d, s, m, r), Head(d).kind = "LobbyState",
         m.at = "room", m.modOffered, m.mapOffered
  PROVE  LET e == ReadLobbyState(Host, m, Head(d))
         IN  /\ PlayerOwed(Host, u \o e.sends, Tail(d), s, e.client, r)
             /\ u \o e.sends = u
             /\ Shown(m, Head(d), e.client)
  BY LobbyStateOwed

LEMMA HostReads ==
  ASSUME NEW u, NEW d, NEW s, NEW m, NEW r, NEW q, HostReading(u, d, s, m, r, q),
         NEW t, IsTold(d, m, r, t)
  PROVE  HostReadOwed(u, d, s, Reads(Host, m, Head(d)), r, q, t)
  <1> DEFINE f == Head(d)
             w == Tail(d)
             e == Reads(Host, m, f)
  <1>1. /\ Reading(Host, u, d, s, m, r) /\ HostOwed(u, d, s, m, r, q) /\ Host \in Players
        /\ u \in Seq(UpOf(Host)) /\ d \in Seq(DownOf(Host)) /\ d # <<>>
        /\ HostsRoom(d, m, r) /\ OffersInOrder(u) /\ m.at \in {"joining", "room"} /\ m \in Mine
    BY DEF HostReading, Reading, PlayerOwed, HostOwed, ModsFirst
  <1>2. /\ f \in DownOf(Host) /\ w \in Seq(DownOf(Host))
        /\ f.kind \in {"LobbyState", "MapError", "ModRequest", "MapRequest"} \cup Received
    <2>1. f \in DownOf(Host) /\ w \in Seq(DownOf(Host))
      BY <1>1, ReadOne
    <2> QED
      BY <2>1 DEF DownOf, DownFrames, Downward, Received
  <1>3. \A k : f.kind # k => Num(w, k) = Num(d, k)
    BY <1>1, ReadOne
  <1>4. CASE f.kind = "LobbyState"
    <2>1. e = ReadLobbyState(Host, m, f)
      BY <1>4 DEF Reads
    <2>2. CASE m.at = "joining"
      <3>1. /\ PlayerOwed(Host, u \o e.sends, w, s, e.client, r)
            /\ HostOwed(u \o e.sends, w, s, e.client, r, q)
            /\ r.mods = Nothing /\ e.client.mapsReady = FALSE
        BY <1>4, <2>1, <2>2, HostOffers
      <3>2. MapsReady(r, t) = FALSE
        BY <3>1 DEF MapsReady
      <3>3. IsTold(w, e.client, r, t)
        BY <1>1, <3>1, <3>2, ToldTail
      <3> QED
        BY <3>1, <3>3 DEF HostReadOwed
    <2>3. CASE m.at = "room"
      <3>1. m.modOffered /\ m.mapOffered /\ m.host = Host
        BY <1>1, <2>3 DEF HostsRoom
      <3> DEFINE l == ReadLobbyState(Host, m, Head(d))
                 c == l.client
      <3>2. PlayerOwed(Host, u \o l.sends, Tail(d), s, c, r) /\ u \o l.sends = u /\ Shown(m, Head(d), c)
        BY <1>1, <1>4, <2>3, <3>1, HostIsTold
      <3> HIDE DEF c, l
      <3>3. HostOwed(u, w, s, c, r, q)
        <4>1. \A k \in {"ModRequest", "MapRequest"} : Num(w, k) = Num(d, k)
          BY <1>3, <1>4
        <4>2. /\ c.at = m.at /\ c.host = m.host /\ c.ticks = m.ticks
              /\ c.modOffered = m.modOffered /\ c.mapOffered = m.mapOffered
              /\ c.modSend = m.modSend /\ c.mapSend = m.mapSend
              /\ c.modPackage = m.modPackage /\ c.mapPackage = m.mapPackage
          BY <2>3, <3>1, <3>2 DEF Shown
        <4>3. c.at = "joining" => Num(w, "LobbyState") > 0
          BY <2>3, <4>2
        <4> HIDE DEF w, e, f
        <4> QED
          BY <1>1, <4>1, <4>2, <4>3, HostUnmoved
      <3>4. IsTold(w, c, r, t)
        BY <1>1, <1>4, <3>2, ToldTail DEF Shown
      <3> QED
        BY <2>1, <3>2, <3>3, <3>4 DEF HostReadOwed, c, l
    <2> QED
      BY <1>1, <2>2, <2>3
  <1>5. CASE f.kind = "MapError"
    <2> DEFINE c == [m EXCEPT !.startSent = FALSE]
    <2>1. Reads(Host, m, f) = Result(c, <<>>)
      BY <1>5 DEF Reads
    <2>2. PlayerOwed(Host, u, w, s, c, r)
      BY <1>1, <1>5, ErrorOwed
    <2>3. /\ c.at = m.at /\ c.host = m.host /\ c.ticks = m.ticks
          /\ c.modOffered = m.modOffered /\ c.mapOffered = m.mapOffered
          /\ c.modSend = m.modSend /\ c.mapSend = m.mapSend
          /\ c.modPackage = m.modPackage /\ c.mapPackage = m.mapPackage /\ c.mapsReady = m.mapsReady
      BY <1>1 DEF Mine
    <2> HIDE DEF c
    <2>4. Result(c, <<>>).client = c /\ Result(c, <<>>).sends = <<>> /\ u \o <<>> = u
      BY <1>1, SendNone DEF Result
    <2>5. HostOwed(u, w, s, c, r, q)
      <3>1. \A k \in {"ModRequest", "MapRequest", "LobbyState"} : Num(w, k) = Num(d, k)
        BY <1>3, <1>5
      <3>2. c.at = "joining" => Num(w, "LobbyState") > 0
        BY <1>1, <2>3, <3>1 DEF HostsRoom
      <3> HIDE DEF w
      <3> QED
        BY <1>1, <2>3, <3>1, <3>2, HostUnmoved
    <2>6. IsTold(w, c, r, t)
      BY <1>1, <1>5, <2>3, ToldTail
    <2> QED
      BY <2>1, <2>2, <2>4, <2>5, <2>6 DEF HostReadOwed
  <1>6. CASE f.kind \in {"ModRequest", "MapRequest"}
    <2>1. /\ PlayerOwed(Host, u \o e.sends, w, s, e.client, r)
          /\ HostOwed(u \o e.sends, w, s, e.client, r, q)
          /\ e.client.mapsReady = m.mapsReady
      <3>1. CASE f.kind = "ModRequest"
        <4>1. e = ReadModRequest(Host, m)
          BY <3>1 DEF Reads
        <4> QED
          BY <3>1, <4>1, ModRequestOwed
      <3>2. CASE f.kind = "MapRequest"
        <4>1. e = ReadMapRequest(Host, m)
          BY <3>2 DEF Reads
        <4> QED
          BY <3>2, <4>1, MapRequestOwed
      <3> QED
        BY <1>6, <3>1, <3>2
    <2> HIDE DEF e
    <2>2. IsTold(w, e.client, r, t)
      BY <1>1, <1>6, <2>1, ToldTail
    <2> QED
      BY <2>1, <2>2 DEF HostReadOwed, e
  <1>7. CASE f.kind \in Received
    <2>1. PlayerOwed(Host, u \o e.sends, w, s, e.client, r)
      <3>1. CASE f.kind = "ModOffer"
        <4>1. e = ReadModOffer(m, f)
          BY <3>1 DEF Reads
        <4> QED
          BY <1>1, <3>1, <4>1, ModOfferOwed
      <3>2. CASE f.kind = "ModChunk"
        <4>1. e = ReadModChunk(m, f)
          BY <3>2 DEF Reads
        <4> QED
          BY <1>1, <3>2, <4>1, ModChunkOwed
      <3>3. CASE f.kind = "MapOffer"
        <4>1. e = ReadMapOffer(m, f)
          BY <3>3 DEF Reads
        <4> QED
          BY <1>1, <3>3, <4>1, MapOfferOwed
      <3>4. CASE f.kind = "MapChunk"
        <4>1. e = ReadMapChunk(m, f)
          BY <3>4 DEF Reads
        <4> QED
          BY <1>1, <3>4, <4>1, MapChunkOwed
      <3> QED
        BY <1>7, <3>1, <3>2, <3>3, <3>4 DEF Received
    <2>2. /\ SameButPackages(m, e.client)
          /\ \E g \in UpOf(Host) :
               e.sends = <<g>> /\ g.kind \in {"ModReady", "ModRequest", "MapReady", "MapRequest"}
      BY <1>1, <1>7, HostReceives
    <2> HIDE DEF e
    <2>3. PICK g \in UpOf(Host) : e.sends = <<g>> /\ g.kind \in {"ModReady", "ModRequest", "MapReady", "MapRequest"}
      BY <2>2
    <2> DEFINE v == u \o <<g>>
    <2>4. HostOwed(v, w, s, e.client, r, q)
      <3>1. \A k \in {"ModOffer", "ModChunk", "MapOffer", "MapChunk"} : Num(v, k) = Num(u, k)
        BY <1>1, <2>3, SendOne
      <3>2. OffersInOrder(v)
        BY <1>1, <2>3, OrderJoined
      <3>3. \A k \in {"ModRequest", "MapRequest", "LobbyState"} : Num(w, k) = Num(d, k)
        BY <1>3, <1>7 DEF Received
      <3>4. e.client.at = "joining" => Num(w, "LobbyState") > 0
        BY <1>1, <2>2, <3>3 DEF HostsRoom, SameButPackages
      <3> HIDE DEF v, w
      <3> QED
        BY <1>1, <2>2, <3>1, <3>2, <3>3, <3>4, HostUnmoved DEF SameButPackages
    <2>5. IsTold(w, e.client, r, t)
      <3>1. f.kind # "LobbyState" /\ e.client.mapsReady = m.mapsReady
        BY <1>7, <2>2 DEF SameButPackages, Received
      <3> QED
        BY <1>1, <3>1, ToldTail
    <2> QED
      BY <2>1, <2>3, <2>4, <2>5 DEF HostReadOwed, e
  <1> QED
    BY <1>2, <1>4, <1>5, <1>6, <1>7

-----------------------------------------------------------------------------
(* The steps of the players.                                                *)

Undisturbed == changes = 0 /\ ~room.running
HostOwedNow == HostOwed(up[Host], down[Host], seen[Host], mine[Host], room, jobs)
Owed ==
  /\ \A p \in Players : PlayerOwed(p, up[p], down[p], seen[p], mine[p], room)
  /\ HostOwedNow
  /\ IsTold(down[Host], mine[Host], room, seen)

LEMMA OnlyOne ==
  ASSUME Owed, NEW p \in Players, UNCHANGED <<room, seen, jobs>>,
         \A q \in Players : q # p => up'[q] = up[q] /\ down'[q] = down[q] /\ mine'[q] = mine[q],
         PlayerOwed(p, up'[p], down'[p], seen[p], mine'[p], room),
         p = Host => /\ HostOwed(up'[Host], down'[Host], seen[Host], mine'[Host], room, jobs)
                     /\ IsTold(down'[Host], mine'[Host], room, seen)
  PROVE  Owed'
  <1>1. ASSUME NEW q \in Players PROVE PlayerOwed(q, up'[q], down'[q], seen'[q], mine'[q], room')
    BY <1>1 DEF Owed
  <1>2. Host \in Players
    BY Digested
  <1>3. HostOwedNow' /\ IsTold(down[Host], mine[Host], room, seen)'
    BY <1>2 DEF Owed, HostOwedNow
  <1> QED
    BY <1>1, <1>3 DEF Owed

\* Where a player can be as long as the room does not run.
LEMMA Whereabouts ==
  ASSUME IInv, Owed, ~room.running, NEW p \in Players
  PROVE  /\ mine[p].at \in {"lobby", "joining", "room", "left"}
         /\ p = Host => mine[p].at \in {"joining", "room"} /\ seen[p].here /\ room.host = Host
         /\ down[p] # <<>> /\ mine[p].at # "left" => seen[p].here /\ mine[p].at \in {"joining", "room"}
  <1>1. /\ mine[p] \in Mine /\ PlayerInStep(p) /\ Membership(room, seen) /\ seen[p].here \in BOOLEAN
        /\ PlayerOwed(p, up[p], down[p], seen[p], mine[p], room)
        /\ p = Host => mine[p].at \in {"joining", "room"} /\ room.host = Host
    BY DEF IInv, Typed, Seen, PlayersInStep, ServerInStep, Owed, HostOwedNow, HostOwed, HostsRoom
  <1>2. mine[p].at \in {"lobby", "joining", "room", "left"}
    BY <1>1 DEF PlayerInStep, Starting, Mine
  <1>3. p = Host => seen[p].here
    BY <1>1, Digested DEF Membership
  <1>4. down[p] # <<>> /\ mine[p].at # "left" => seen[p].here
    BY <1>1 DEF PlayerInStep, ClientInStep
  <1>5. mine[p].at = "lobby" => ~seen[p].here
    BY <1>1 DEF PlayerOwed, ComesAndGoes
  <1> QED
    BY <1>1, <1>2, <1>3, <1>4, <1>5

LEMMA ClientReadsOwed ==
  ASSUME IInv, Owed, ~room.running, NEW p \in Players, ClientReads(p)
  PROVE  Owed'
  <1> DEFINE u == up[p]
             d == down[p]
             m == mine[p]
  <1>1. /\ d # <<>> /\ down' = [down EXCEPT ![p] = Tail(d)] /\ UNCHANGED <<room, seen, jobs>>
        /\ u \in Seq(UpFrames) /\ d \in Seq(DownFrames) /\ m \in Mine
        /\ PlayerOwed(p, u, d, seen[p], m, room)
    BY DEF ClientReads, IInv, Typed, Owed
  <1>2. down'[p] = Tail(d) /\ \A q \in Players : q # p => down'[q] = down[q]
    BY <1>1 DEF IInv, Typed
  <1>3. CASE Followed(p)
    <2> DEFINE e == Reads(p, m, Head(d))
    <2>1. /\ mine' = [mine EXCEPT ![p] = e.client] /\ up' = [up EXCEPT ![p] = u \o e.sends]
      BY <1>3 DEF ClientReads
    <2>2. /\ mine'[p] = e.client /\ up'[p] = u \o e.sends
          /\ \A q \in Players : q # p => up'[q] = up[q] /\ mine'[q] = mine[q]
      BY <2>1 DEF IInv, Typed
    <2>3. Reading(p, u, d, seen[p], m, room)
      <3>1. m.at # "left" /\ seen[p].here /\ m.at \in {"joining", "room"}
        BY <1>1, <1>3, Whereabouts DEF Followed
      <3> QED
        BY <1>1, <3>1 DEF Reading
    <2> HIDE DEF u, d, m
    <2>4. CASE p # Host
      <3>1. PlayerOwed(p, u \o e.sends, Tail(d), seen[p], e.client, room)
        BY <2>3, <2>4, ClientReadOwed
      <3> HIDE DEF e
      <3> QED
        BY <1>1, <1>2, <2>2, <2>4, <3>1, OnlyOne
    <2>5. CASE p = Host
      <3>1. HostReading(u, d, seen[Host], m, room, jobs) /\ IsTold(d, m, room, seen)
        BY <2>3, <2>5 DEF HostReading, Owed, HostOwedNow, u, d, m
      <3>2. HostReadOwed(u, d, seen[Host], Reads(Host, m, Head(d)), room, jobs, seen)
        BY <3>1, HostReads
      <3>3. /\ PlayerOwed(p, u \o e.sends, Tail(d), seen[p], e.client, room)
            /\ HostOwed(u \o e.sends, Tail(d), seen[Host], e.client, room, jobs)
            /\ IsTold(Tail(d), e.client, room, seen)
        BY <2>5, <3>2 DEF HostReadOwed
      <3> HIDE DEF e
      <3> QED
        BY <1>1, <1>2, <2>2, <2>5, <3>3, OnlyOne
    <2> QED
      BY <2>4, <2>5
  <1>4. CASE ~Followed(p)
    <2>1. UNCHANGED <<mine, up>> /\ m.at = "left"
      BY <1>4, Whereabouts DEF ClientReads, Followed
    <2>2. p # Host
      BY <2>1, Whereabouts
    <2>3. Tail(d) \in Seq(DownOf(p))
      BY <1>1, ReadOne DEF PlayerOwed
    <2>4. PlayerOwed(p, u, Tail(d), seen[p], m, room)
      BY <1>1, <2>1, <2>3 DEF PlayerOwed
    <2> QED
      BY <1>1, <1>2, <2>1, <2>2, <2>4, OnlyOne
  <1> QED
    BY <1>3, <1>4

\* What a player says of its own accord.
LEMMA SaidOwed ==
  ASSUME IInv, Owed, NEW p \in Players, NEW c, NEW g, Sends(p, c, <<g>>),
         PlayerOwed(p, up[p] \o <<g>>, down[p], seen[p], c, room),
         p = Host => /\ HostOwed(up[Host] \o <<g>>, down[Host], seen[Host], c, room, jobs)
                     /\ IsTold(down[Host], c, room, seen)
  PROVE  Owed'
  <1>1. /\ mine' = [mine EXCEPT ![p] = c] /\ up' = [up EXCEPT ![p] = @ \o <<g>>]
        /\ UNCHANGED <<room, seen, jobs, down>>
    BY DEF Sends
  <1>2. /\ mine'[p] = c /\ up'[p] = up[p] \o <<g>>
        /\ \A q \in Players : q # p => up'[q] = up[q] /\ mine'[q] = mine[q]
    BY <1>1 DEF IInv, Typed
  <1> QED
    BY <1>1, <1>2, OnlyOne

LEMMA SaysOwed ==
  ASSUME NEW p, NEW u, NEW d, NEW s, NEW m, NEW r, PlayerOwed(p, u, d, s, m, r), m.at # "lobby",
         s.here, m.at # "left",
         NEW g, g \in UpOf(p), g.kind \notin {"Join", "ModRequest", "ModReady", "MapRequest", "MapReady"},
         NEW c, c.at = m.at, Rests(p, s, c),
         c.modReceive = m.modReceive, c.modReady = m.modReady, c.mapReceive = m.mapReceive
  PROVE  PlayerOwed(p, u \o <<g>>, d, s, c, r)
  <1>1. /\ u \in Seq(UpOf(p)) /\ d \in Seq(DownOf(p)) /\ ComesAndGoes(u, s, m)
        /\ GetsMods(u, d, s, m, r) /\ GetsMap(u, d, s, m, r)
    BY DEF PlayerOwed
  <1>2. /\ u \o <<g>> \in Seq(UpOf(p))
        /\ \A k \in {"Join", "ModRequest", "ModReady", "MapRequest", "MapReady"} : Num(u \o <<g>>, k) = Num(u, k)
    BY <1>1, SendOne
  <1> DEFINE v == u \o <<g>>
  <1> HIDE DEF v
  <1>3. ComesAndGoes(v, s, c)
    BY <1>1, <1>2 DEF ComesAndGoes, v
  <1>4. GetsMods(v, d, s, c, r)
    BY <1>1, <1>2 DEF GetsMods, ModsSent, HasMods, v
  <1>5. GetsMap(v, d, s, c, r)
    BY <1>1, <1>2 DEF GetsMap, MapSent, HasMap, v
  <1> QED
    BY <1>1, <1>2, <1>3, <1>4, <1>5 DEF PlayerOwed, v

\* Before the game nobody holds a GameStarting back.
LEMMA NobodyHolds ==
  ASSUME IInv, ~room.running, NEW p \in Players
  PROVE  mine[p].at # "held"
  BY DEF IInv, PlayersInStep, PlayerInStep, Starting

LEMMA StartAsked ==
  ASSUME IInv, Owed, ~room.running, NEW p \in Players, RequestStart(p)
  PROVE  Owed'
  <1> DEFINE g == Frame("Start", Nothing)
             m == mine[p]
             c == [m EXCEPT !.startSent = TRUE]
  <1>1. /\ m \in Mine /\ Sends(p, c, <<g>>) /\ m.at = "room" /\ m.host = p
        /\ PlayerOwed(p, up[p], down[p], seen[p], m, room)
    BY NobodyHolds DEF RequestStart, CanStart, InRoom, IInv, Typed, Owed
  <1>2. p = Host
    BY <1>1, PackagesAssumption DEF PlayerOwed, Rests, Players
  <1>3. /\ seen[Host].here /\ HostOwed(up[Host], down[Host], seen[Host], m, room, jobs)
        /\ up[Host] \in Seq(UpOf(Host)) /\ OffersInOrder(up[Host]) /\ IsTold(down[Host], m, room, seen)
        /\ Rests(Host, seen[Host], m)
    BY <1>1, <1>2, Whereabouts DEF Owed, HostOwedNow, PlayerOwed, HostOwed, ModsFirst
  <1>4. /\ c.at = m.at /\ c.host = m.host /\ c.ticks = m.ticks /\ c.pending = m.pending
        /\ c.modOffered = m.modOffered /\ c.mapOffered = m.mapOffered
        /\ c.modSend = m.modSend /\ c.mapSend = m.mapSend
        /\ c.modPackage = m.modPackage /\ c.mapPackage = m.mapPackage /\ c.mapsReady = m.mapsReady
        /\ c.modReceive = m.modReceive /\ c.modReady = m.modReady /\ c.mapReceive = m.mapReceive
    BY <1>1 DEF Mine
  <1>5. g \in UpOf(Host) /\ g.kind = "Start"
    BY FrameTypes, PieceTypes DEF UpOf, Plain
  <1> HIDE DEF c, g, m
  <1>6. PlayerOwed(Host, up[Host] \o <<g>>, down[Host], seen[Host], c, room)
    <2>1. Rests(Host, seen[Host], c)
      BY <1>3, <1>4 DEF Rests
    <2> QED
      BY <1>1, <1>2, <1>3, <1>4, <1>5, <2>1, SaysOwed
  <1>7. HostOwed(up[Host] \o <<g>>, down[Host], seen[Host], c, room, jobs)
    <2>1. \A k \in {"ModOffer", "ModChunk", "MapOffer", "MapChunk"} : Num(up[Host] \o <<g>>, k) = Num(up[Host], k)
      BY <1>3, <1>5, SendOne
    <2>2. OffersInOrder(up[Host] \o <<g>>)
      BY <1>3, <1>5, OrderJoined
    <2>3. c.at # "joining"
      BY <1>1, <1>4
    <2> QED
      BY <1>3, <1>4, <2>1, <2>2, <2>3, HostUnmoved
  <1>8. IsTold(down[Host], c, room, seen)
    BY <1>3, <1>4 DEF IsTold
  <1> QED
    BY <1>1, <1>2, <1>6, <1>7, <1>8, SaidOwed

LEMMA ModsSentOwed ==
  ASSUME IInv, Owed, ~room.running, NEW p \in Players, ClientSendsMods(p)
  PROVE  Owed'
  <1> DEFINE u == up[Host]
             d == down[Host]
             s == seen[Host]
             m == mine[Host]
             g == Frame("ModChunk", Chosen)
             c == [m EXCEPT !.modSend = Nothing]
             v == u \o <<g>>
  <1>1. p = Host /\ m.modSend # Nothing
    BY DEF ClientSendsMods, Owed, PlayerOwed, Rests
  <1>2. /\ s.here /\ HostOwed(u, d, s, m, room, jobs) /\ m \in Mine /\ m.at \in {"joining", "room"}
        /\ u \in Seq(UpOf(Host)) /\ d \in Seq(DownOf(Host)) /\ OffersInOrder(u) /\ IsTold(d, m, room, seen)
        /\ Rests(Host, s, m) /\ PlayerOwed(Host, u, d, s, m, room) /\ HostsRoom(d, m, room)
    BY <1>1, Whereabouts DEF IInv, Typed, Owed, HostOwedNow, PlayerOwed, HostOwed, ModsFirst
  <1>3. m.modSend = Chosen /\ Sends(Host, c, <<g>>)
    BY <1>1, <1>2 DEF HostsRoom, ClientSendsMods
  <1>4. /\ c.at = m.at /\ c.host = m.host /\ c.ticks = m.ticks /\ c.pending = m.pending
        /\ c.modOffered = m.modOffered /\ c.mapOffered = m.mapOffered
        /\ c.modSend = Nothing /\ c.mapSend = m.mapSend
        /\ c.modPackage = m.modPackage /\ c.mapPackage = m.mapPackage /\ c.mapsReady = m.mapsReady
        /\ c.modReceive = m.modReceive /\ c.modReady = m.modReady /\ c.mapReceive = m.mapReceive
    BY <1>2 DEF Mine
  <1>5. g \in UpOf(Host) /\ g.kind = "ModChunk"
    BY Answers, FrameTypes, Digested
  <1>6. /\ \A k : Num(u, k) \in Nat /\ Num(d, k) \in Nat
        /\ \A k : Num(v, k) = IF k = "ModChunk" THEN Num(u, k) + 1 ELSE Num(u, k)
    BY <1>2, <1>5, SendOne, NumNat
  <1>7. ModsAsked(u, d, m) > 0
    BY <1>1, <1>6 DEF ModsAsked, Bit
  <1> HIDE DEF c, g, m, u, d, s, v
  <1>8. PlayerOwed(Host, v, d, s, c, room)
    <2>1. Rests(Host, s, c)
      BY <1>2, <1>4 DEF Rests
    <2> QED
      BY <1>2, <1>4, <1>5, <2>1, SaysOwed DEF v
  <1>9. HostOwed(v, d, s, c, room, jobs)
    <2>1. m.at # "joining"
      BY <1>2, <1>7, ModsStage
    <2>2. ModsAsked(v, d, c) = ModsAsked(u, d, m)
      <3>1. Num(v, "ModChunk") = Num(u, "ModChunk") + 1 /\ Num(u, "ModChunk") \in Nat /\ Num(d, "ModRequest") \in Nat
        BY <1>6
      <3> QED
        BY <1>1, <1>4, <3>1 DEF ModsAsked, Bit
    <2>3. MapAsked(v, d, c) = MapAsked(u, d, m)
      BY <1>4, <1>6 DEF MapAsked
    <2>4. Num(v, "ModOffer") = Num(u, "ModOffer") /\ Num(v, "MapOffer") = Num(u, "MapOffer")
      BY <1>6
    <2>5. OffersInOrder(v)
      BY <1>2, <1>5, OrderJoined DEF v
    <2>6. HostsRoom(d, c, room)
      BY <1>2, <1>4, <2>1 DEF HostsRoom
    <2>7. ModsComing(v, d, s, c, room, jobs)
      BY <1>2, <1>4, <2>2, <2>4 DEF HostOwed, ModsComing
    <2>8. MapComing(v, d, s, c, room, jobs)
      BY <1>2, <1>4, <2>3, <2>4 DEF HostOwed, MapComing
    <2>9. ModsFirst(v, d, c, room, jobs)
      BY <1>2, <2>3, <2>4, <2>5 DEF HostOwed, ModsFirst
    <2> QED
      BY <1>2, <2>6, <2>7, <2>8, <2>9 DEF HostOwed
  <1>10. IsTold(d, c, room, seen)
    BY <1>2, <1>4 DEF IsTold
  <1> QED
    BY <1>1, <1>3, <1>8, <1>9, <1>10, SaidOwed DEF u, d, s, v

LEMMA MapSentOwed ==
  ASSUME IInv, Owed, ~room.running, NEW p \in Players, ClientSendsMap(p)
  PROVE  Owed'
  <1> DEFINE u == up[Host]
             d == down[Host]
             s == seen[Host]
             m == mine[Host]
             g == Frame("MapChunk", Played)
             c == [m EXCEPT !.mapSend = Nothing]
             v == u \o <<g>>
  <1>1. p = Host /\ m.mapSend # Nothing
    BY DEF ClientSendsMap, Owed, PlayerOwed, Rests
  <1>2. /\ s.here /\ HostOwed(u, d, s, m, room, jobs) /\ m \in Mine /\ m.at \in {"joining", "room"}
        /\ u \in Seq(UpOf(Host)) /\ d \in Seq(DownOf(Host)) /\ OffersInOrder(u) /\ IsTold(d, m, room, seen)
        /\ Rests(Host, s, m) /\ PlayerOwed(Host, u, d, s, m, room) /\ HostsRoom(d, m, room)
    BY <1>1, Whereabouts DEF IInv, Typed, Owed, HostOwedNow, PlayerOwed, HostOwed, ModsFirst
  <1>3. m.mapSend = Played /\ Sends(Host, c, <<g>>)
    BY <1>1, <1>2 DEF HostsRoom, ClientSendsMap
  <1>4. /\ c.at = m.at /\ c.host = m.host /\ c.ticks = m.ticks /\ c.pending = m.pending
        /\ c.modOffered = m.modOffered /\ c.mapOffered = m.mapOffered
        /\ c.modSend = m.modSend /\ c.mapSend = Nothing
        /\ c.modPackage = m.modPackage /\ c.mapPackage = m.mapPackage /\ c.mapsReady = m.mapsReady
        /\ c.modReceive = m.modReceive /\ c.modReady = m.modReady /\ c.mapReceive = m.mapReceive
    BY <1>2 DEF Mine
  <1>5. g \in UpOf(Host) /\ g.kind = "MapChunk"
    BY Answers, FrameTypes, Digested
  <1>6. /\ \A k : Num(u, k) \in Nat /\ Num(d, k) \in Nat
        /\ \A k : Num(v, k) = IF k = "MapChunk" THEN Num(u, k) + 1 ELSE Num(u, k)
    BY <1>2, <1>5, SendOne, NumNat
  <1>7. MapAsked(u, d, m) > 0
    BY <1>1, <1>6 DEF MapAsked, Bit
  <1> HIDE DEF c, g, m, u, d, s, v
  <1>8. PlayerOwed(Host, v, d, s, c, room)
    <2>1. Rests(Host, s, c)
      BY <1>2, <1>4 DEF Rests
    <2> QED
      BY <1>2, <1>4, <1>5, <2>1, SaysOwed DEF v
  <1>9. HostOwed(v, d, s, c, room, jobs)
    <2>1. m.at # "joining"
      BY <1>2, <1>7, MapStage
    <2>2. ModsAsked(v, d, c) = ModsAsked(u, d, m)
      BY <1>4, <1>6 DEF ModsAsked
    <2>3. MapAsked(v, d, c) = MapAsked(u, d, m)
      <3>1. Num(v, "MapChunk") = Num(u, "MapChunk") + 1 /\ Num(u, "MapChunk") \in Nat /\ Num(d, "MapRequest") \in Nat
        BY <1>6
      <3> QED
        BY <1>1, <1>4, <3>1 DEF MapAsked, Bit
    <2>4. Num(v, "ModOffer") = Num(u, "ModOffer") /\ Num(v, "MapOffer") = Num(u, "MapOffer")
      BY <1>6
    <2>5. OffersInOrder(v)
      BY <1>2, <1>5, OrderJoined DEF v
    <2>6. HostsRoom(d, c, room)
      BY <1>2, <1>4, <2>1 DEF HostsRoom
    <2>7. ModsComing(v, d, s, c, room, jobs)
      BY <1>2, <1>4, <2>2, <2>4 DEF HostOwed, ModsComing
    <2>8. MapComing(v, d, s, c, room, jobs)
      BY <1>2, <1>4, <2>3, <2>4 DEF HostOwed, MapComing
    <2>9. ModsFirst(v, d, c, room, jobs)
      BY <1>2, <2>3, <2>4, <2>5 DEF HostOwed, ModsFirst
    <2> QED
      BY <1>2, <2>6, <2>7, <2>8, <2>9 DEF HostOwed
  <1>10. IsTold(d, c, room, seen)
    BY <1>2, <1>4 DEF IsTold
  <1> QED
    BY <1>1, <1>3, <1>8, <1>9, <1>10, SaidOwed DEF u, d, s, v

LEMMA JoinsOwed ==
  ASSUME IInv, Owed, ~room.running, NEW p \in Players, JoinGame(p)
  PROVE  Owed'
  <1> DEFINE g == Frame("Join", Nothing)
             m == mine[p]
             c == [m EXCEPT !.at = "joining"]
  <1>1. /\ m \in Mine /\ Sends(p, c, <<g>>) /\ m.at = "lobby" /\ p # Host
        /\ PlayerOwed(p, up[p], down[p], seen[p], m, room)
    BY Whereabouts DEF JoinGame, IInv, Typed, Owed
  <1>2. up[p] = <<>> /\ ~seen[p].here /\ m.modReceive = Nothing /\ m.mapReceive = Nothing
    BY <1>1 DEF PlayerOwed, ComesAndGoes
  <1>3. /\ c.at = "joining" /\ c.host = m.host /\ c.pending = m.pending
        /\ c.modSend = m.modSend /\ c.mapSend = m.mapSend
        /\ c.modReceive = m.modReceive /\ c.mapReceive = m.mapReceive
    BY <1>1 DEF Mine
  <1>4. g \in UpOf(p) /\ g.kind = "Join"
    BY FrameTypes, PieceTypes DEF UpOf, Plain
  <1>5. up[p] \o <<g>> = <<g>> /\ <<g>> \in Seq(UpOf(p)) /\ <<g>>[1] = g /\ DOMAIN <<g>> = {1}
    <2>1. <<g>> \in Seq(UpOf(p)) /\ Len(<<g>>) = 1 /\ <<g>>[1] = g
      BY <1>4, OneFrame
    <2>2. <<>> \o <<g>> = <<g>>
      BY <2>1, ConcatEmptySeq
    <2> QED
      BY <1>2, <2>1, <2>2
  <1>6. Num(<<g>>, "Join") = 1
    BY <1>4, NumOne
  <1> HIDE DEF c, g, m
  <1>7. ComesAndGoes(<<g>>, seen[p], c)
    BY <1>2, <1>3, <1>4, <1>5, <1>6 DEF ComesAndGoes, Bit
  <1>8. PlayerOwed(p, up[p] \o <<g>>, down[p], seen[p], c, room)
    BY <1>1, <1>2, <1>3, <1>5, <1>7 DEF PlayerOwed, Rests
  <1> QED
    BY <1>1, <1>8, SaidOwed

LEMMA LeavesOwed ==
  ASSUME IInv, Owed, ~room.running, NEW p \in Players, LeaveGame(p), changes = 0, changes' = 0
  PROVE  Owed'
  <1> DEFINE g == Frame("Leave", Nothing)
             m == mine[p]
             c == [Offline(m.ticks) EXCEPT !.at = "left"]
  <1>1. /\ m \in Mine /\ Sends(p, c, <<g>>) /\ m.at = "room"
        /\ PlayerOwed(p, up[p], down[p], seen[p], m, room) /\ up[p] \in Seq(UpOf(p))
    BY NobodyHolds DEF LeaveGame, InRoom, IInv, Typed, Owed, PlayerOwed
  <1>2. p # Host
    <2>1. m.host # p
      BY DEF LeaveGame
    <2> QED
      BY <1>1, <2>1 DEF Owed, HostOwedNow, HostOwed, HostsRoom
  <1>3. /\ c.at = "left" /\ c.host = Nothing /\ c.pending = FALSE /\ c.modSend = Nothing /\ c.mapSend = Nothing
    BY DEF Offline
  <1>4. g \in UpOf(p) /\ g.kind = "Leave"
    BY FrameTypes, PieceTypes DEF UpOf, Plain
  <1>5. /\ up[p] \o <<g>> \in Seq(UpOf(p))
        /\ Num(up[p] \o <<g>>, "Join") = Num(up[p], "Join") /\ Num(up[p], "Leave") \in Nat
        /\ Num(up[p] \o <<g>>, "Leave") = Num(up[p], "Leave") + 1
    BY <1>1, <1>4, SendOne
  <1> HIDE DEF c, g, m
  <1>6. ComesAndGoes(up[p] \o <<g>>, seen[p], c)
    BY <1>1, <1>3, <1>5 DEF ComesAndGoes, Bit, PlayerOwed
  <1>7. Rests(p, seen[p], c)
    BY <1>1, <1>2, <1>3 DEF Rests, PlayerOwed
  <1>8. PlayerOwed(p, up[p] \o <<g>>, down[p], seen[p], c, room)
    BY <1>1, <1>3, <1>5, <1>6, <1>7 DEF PlayerOwed
  <1> QED
    BY <1>1, <1>2, <1>8, SaidOwed

\* Whatever a player does but tick other packs.
LEMMA PlayersOwe ==
  ASSUME IInv, Owed, Undisturbed, Undisturbed', NEW p \in Players,
         \/ ClientReads(p) \/ ClientSendsMods(p) \/ ClientSendsMap(p)
         \/ TickPacks(p) \/ OfferTicked(p) \/ RequestStart(p)
         \/ JoinGame(p) \/ LeaveGame(p)
  PROVE  Owed'
  <1>1. ~room.running /\ changes = 0 /\ changes' = 0
    BY DEF Undisturbed
  <1>2. ~TickPacks(p)
    BY <1>1 DEF TickPacks
  <1>3. ~OfferTicked(p)
    BY DEF OfferTicked, Owed, PlayerOwed, Rests
  <1> QED
    BY <1>1, <1>2, <1>3, ClientReadsOwed, ModsSentOwed, MapSentOwed, StartAsked, JoinsOwed, LeavesOwed

-----------------------------------------------------------------------------
(* What a broadcast tells everybody.                                        *)

Tells(d, e, x, r, c) ==
  /\ e \in Seq(DownOf(x))
  /\ \A k \in {"ModRequest", "MapRequest", "ModChunk", "MapChunk"} : Num(e, k) = Num(d, k)
  /\ Num(e, "ModOffer") = Num(d, "ModOffer") + (IF r.mods # Nothing /\ c.modOffered # r.mods THEN 1 ELSE 0)
  /\ Num(e, "MapOffer") = Num(d, "MapOffer") + (IF r.map # Nothing /\ ~c.mapOffered THEN 1 ELSE 0)
  /\ Num(e, "LobbyState") > 0

LEMMA BroadcastTells ==
  ASSUME NEW x \in Players, NEW d \in Seq(DownOf(x)), NEW r, NEW s,
         r.host = Host, r.mods \in {Nothing, Chosen}, r.map \in {Nothing, Played}
  PROVE  LET e == d \o BroadcastFrames(r, s, x)
         IN  Tells(d, e, x, r, s[x]) /\ Lately(e, r, s)
  <1> DEFINE D == DownOf(x)
             l == LobbyState(Host, MapsReady(r, s))
             a == <<l>>
             b == IF r.map # Nothing /\ ~s[x].mapOffered THEN <<Frame("MapOffer", r.map)>> ELSE <<>>
             c == IF r.mods # Nothing /\ s[x].modOffered # r.mods THEN <<Frame("ModOffer", r.mods)>> ELSE <<>>
             y == a \o b
             t == y \o c
             e == d \o t
  <1>1. /\ l \in D /\ l.kind = "LobbyState" /\ l.ready = MapsReady(r, s)
        /\ r.map # Nothing => Frame("MapOffer", r.map) \in D /\ Frame("MapOffer", r.map).kind = "MapOffer"
        /\ r.mods # Nothing => Frame("ModOffer", r.mods) \in D /\ Frame("ModOffer", r.mods).kind = "ModOffer"
    <2>1. l \in DownFrames
      BY Digested DEF LobbyState, MapsReady, DownFrames, Optional
    <2>2. l \in D /\ l.kind = "LobbyState" /\ l.ready = MapsReady(r, s)
      BY <2>1 DEF LobbyState, DownOf
    <2>3. \A k \in {"MapOffer", "ModOffer"}, v \in Values :
            Frame(k, v) \in DownFrames /\ Frame(k, v).kind = k /\ Frame(k, v).digest = v
      BY FrameTypes DEF Downward
    <2>4. \A k \in {"MapOffer", "ModOffer"}, v \in Values :
            v = (IF k = "ModOffer" THEN Chosen ELSE Played) => Frame(k, v) \in D
      BY <2>3 DEF DownOf
    <2> HIDE DEF l, D
    <2> QED
      BY <2>2, <2>3, <2>4, Digested
  <1>2. t = BroadcastFrames(r, s, x)
    BY DEF BroadcastFrames
  <1>3. /\ a \in Seq(D) /\ DOMAIN a = {1} /\ a[1] = l
        /\ b \in Seq(D) /\ \A i \in DOMAIN b : b[i].kind = "MapOffer"
        /\ c \in Seq(D) /\ \A i \in DOMAIN c : c[i].kind = "ModOffer"
    <2>1. a \in Seq(D) /\ DOMAIN a = {1} /\ a[1] = l
      BY <1>1, OneFrame
    <2>2. b \in Seq(D) /\ \A i \in DOMAIN b : b[i].kind = "MapOffer"
      BY <1>1, OneFrame
    <2>3. c \in Seq(D) /\ \A i \in DOMAIN c : c[i].kind = "ModOffer"
      BY <1>1, OneFrame
    <2> HIDE DEF a, b, c
    <2> QED
      BY <2>1, <2>2, <2>3
  <1>4. \A k : /\ Num(a, k) = IF k = "LobbyState" THEN 1 ELSE 0
               /\ Num(b, k) = IF r.map # Nothing /\ ~s[x].mapOffered /\ k = "MapOffer" THEN 1 ELSE 0
               /\ Num(c, k) = IF r.mods # Nothing /\ s[x].modOffered # r.mods /\ k = "ModOffer" THEN 1 ELSE 0
    <2>1. \A k : Num(a, k) = IF k = "LobbyState" THEN 1 ELSE 0
      <3> HIDE DEF l
      <3> QED
        BY <1>1, NumOne
    <2>2. \A k : Num(b, k) = IF r.map # Nothing /\ ~s[x].mapOffered /\ k = "MapOffer" THEN 1 ELSE 0
      <3>1. CASE r.map # Nothing /\ ~s[x].mapOffered
        <4>1. b = <<Frame("MapOffer", r.map)>>
          BY <3>1
        <4> HIDE DEF b
        <4> QED
          BY <1>1, <3>1, <4>1, NumOne
      <3>2. CASE ~(r.map # Nothing /\ ~s[x].mapOffered)
        <4>1. b = <<>>
          BY <3>2
        <4> HIDE DEF b
        <4> QED
          BY <3>2, <4>1, NumNone
      <3> QED
        BY <3>1, <3>2
    <2>3. \A k : Num(c, k) = IF r.mods # Nothing /\ s[x].modOffered # r.mods /\ k = "ModOffer" THEN 1 ELSE 0
      <3>1. CASE r.mods # Nothing /\ s[x].modOffered # r.mods
        <4>1. c = <<Frame("ModOffer", r.mods)>>
          BY <3>1
        <4> HIDE DEF c
        <4> QED
          BY <1>1, <3>1, <4>1, NumOne
      <3>2. CASE ~(r.mods # Nothing /\ s[x].modOffered # r.mods)
        <4>1. c = <<>>
          BY <3>2
        <4> HIDE DEF c
        <4> QED
          BY <3>2, <4>1, NumNone
      <3> QED
        BY <3>1, <3>2
    <2> HIDE DEF a, b, c
    <2> QED
      BY <2>1, <2>2, <2>3
  <1> HIDE DEF a, b, c
  <1>5. y \in Seq(D) /\ t \in Seq(D) /\ e \in Seq(D)
    BY <1>3, Joined
  <1>6. \A k : /\ Num(e, k) = Num(d, k) + Num(t, k) /\ Num(t, k) = Num(y, k) + Num(c, k)
               /\ Num(y, k) = Num(a, k) + Num(b, k) /\ Num(d, k) \in Nat
    <2> SUFFICES ASSUME NEW k
                 PROVE  /\ Num(e, k) = Num(d, k) + Num(t, k) /\ Num(t, k) = Num(y, k) + Num(c, k)
                        /\ Num(y, k) = Num(a, k) + Num(b, k) /\ Num(d, k) \in Nat
      OBVIOUS
    <2>1. Num(y, k) = Num(a, k) + Num(b, k)
      BY <1>3, NumJoined
    <2> HIDE DEF y
    <2>2. Num(t, k) = Num(y, k) + Num(c, k)
      BY <1>3, <1>5, NumJoined
    <2> HIDE DEF t
    <2>3. Num(e, k) = Num(d, k) + Num(t, k) /\ Num(d, k) \in Nat
      BY <1>3, <1>5, NumJoined, NumNat
    <2> QED
      BY <2>1, <2>2, <2>3
  <1>7. t[1] = l /\ 1 \in DOMAIN t /\ \A i \in DOMAIN t : i # 1 => t[i].kind # "LobbyState"
    <2>1. /\ y[1] = l /\ Len(y) \in Nat /\ 1 \in 1 .. Len(y)
          /\ \A i \in 1 .. Len(y) : i # 1 => y[i].kind # "LobbyState"
      <3>1. Len(a) = 1
        BY <1>3, LenProperties
      <3>2. /\ Len(a) \in Nat /\ Len(b) \in Nat /\ DOMAIN b = 1 .. Len(b) /\ DOMAIN y = 1 .. Len(a) + Len(b)
            /\ \A i \in 1 .. Len(a) : y[i] = a[i]
            /\ \A i \in 1 .. Len(a) + Len(b) : i > Len(a) => i - Len(a) \in 1 .. Len(b) /\ y[i] = b[i - Len(a)]
        BY <1>3, Joined
      <3>3. Len(y) = 1 + Len(b)
        BY <1>5, <3>1, <3>2, LenProperties
      <3> HIDE DEF y, l
      <3>4. ASSUME NEW i \in 1 .. Len(y), i # 1 PROVE y[i].kind # "LobbyState"
        <4>1. i - 1 \in DOMAIN b /\ y[i] = b[i - 1]
          BY <3>1, <3>2, <3>3, <3>4
        <4> QED
          BY <1>3, <4>1
      <3> QED
        BY <1>3, <3>1, <3>2, <3>3, <3>4
    <2> HIDE DEF y
    <2>2. /\ DOMAIN t = 1 .. Len(y) + Len(c) /\ Len(c) \in Nat /\ DOMAIN c = 1 .. Len(c)
          /\ \A i \in 1 .. Len(y) : t[i] = y[i]
          /\ \A i \in 1 .. Len(y) + Len(c) : i > Len(y) => i - Len(y) \in 1 .. Len(c) /\ t[i] = c[i - Len(y)]
      BY <1>3, <1>5, Joined
    <2> HIDE DEF t
    <2>3. ASSUME NEW i \in 1 .. Len(y) + Len(c), i # 1 PROVE t[i].kind # "LobbyState"
      <3>1. CASE i \in 1 .. Len(y)
        BY <2>1, <2>2, <2>3, <3>1
      <3>2. CASE i > Len(y)
        <4>1. i - Len(y) \in DOMAIN c /\ t[i] = c[i - Len(y)]
          BY <2>2, <3>2
        <4> QED
          BY <1>3, <4>1
      <3> QED
        BY <2>1, <3>1, <3>2
    <2> QED
      BY <2>1, <2>2, <2>3
  <1> HIDE DEF y, t
  <1>8. Lately(e, r, s)
    <2> DEFINE n == Len(d)
    <2>1. /\ n \in Nat /\ DOMAIN e = 1 .. n + Len(t) /\ DOMAIN t = 1 .. Len(t) /\ Len(t) \in Nat
          /\ e[n + 1] = l /\ n + 1 \in DOMAIN e
          /\ \A i \in 1 .. n + Len(t) : i > n => i - n \in DOMAIN t /\ e[i] = t[i - n]
      BY <1>5, <1>7, Joined
    <2> HIDE DEF n, e, l
    <2> SUFFICES ASSUME NEW i \in DOMAIN e, e[i].kind = "LobbyState",
                        \A j \in DOMAIN e : i < j => e[j].kind # "LobbyState"
                 PROVE  e[i].ready = MapsReady(r, s)
      BY DEF Lately
    <2>2. ~(i < n + 1)
      BY <1>1, <2>1
    <2>3. i > n /\ i - n \in DOMAIN t /\ e[i] = t[i - n]
      BY <2>1, <2>2
    <2>4. i - n = 1
      BY <1>7, <2>3
    <2> QED
      BY <1>1, <1>7, <2>3, <2>4
  <1> HIDE DEF e
  <1>9. Tells(d, e, x, r, s[x])
    <2>1. /\ Num(d, "LobbyState") \in Nat /\ Num(d, "ModOffer") \in Nat /\ Num(d, "MapOffer") \in Nat
          /\ \A k \in {"ModRequest", "MapRequest", "ModChunk", "MapChunk"} : Num(d, k) \in Nat
      BY <1>6
    <2> HIDE DEF Num
    <2>2. \A k : k \notin {"LobbyState", "ModOffer", "MapOffer"} => Num(e, k) = Num(d, k) + 0
      <3> SUFFICES ASSUME NEW k, k \notin {"LobbyState", "ModOffer", "MapOffer"} PROVE Num(e, k) = Num(d, k) + 0
        OBVIOUS
      <3>1. Num(a, k) = 0 /\ Num(b, k) = 0 /\ Num(c, k) = 0
        BY <1>4
      <3> QED
        BY <1>6, <3>1
    <2>3. /\ Num(e, "LobbyState") = Num(d, "LobbyState") + 1
      <3>1. Num(a, "LobbyState") = 1 /\ Num(b, "LobbyState") = 0 /\ Num(c, "LobbyState") = 0
        BY <1>4
      <3> QED
        BY <1>6, <3>1
    <2>4. Num(e, "ModOffer") = Num(d, "ModOffer") + (IF r.mods # Nothing /\ s[x].modOffered # r.mods THEN 1 ELSE 0)
      <3>1. /\ Num(a, "ModOffer") = 0 /\ Num(b, "ModOffer") = 0
            /\ Num(c, "ModOffer") = IF r.mods # Nothing /\ s[x].modOffered # r.mods THEN 1 ELSE 0
        BY <1>4
      <3> QED
        BY <1>6, <3>1
    <2>5. Num(e, "MapOffer") = Num(d, "MapOffer") + (IF r.map # Nothing /\ ~s[x].mapOffered THEN 1 ELSE 0)
      <3>1. /\ Num(a, "MapOffer") = 0 /\ Num(c, "MapOffer") = 0
            /\ Num(b, "MapOffer") = IF r.map # Nothing /\ ~s[x].mapOffered THEN 1 ELSE 0
        BY <1>4
      <3> QED
        BY <1>6, <3>1
    <2>6. \A k \in {"ModRequest", "MapRequest", "ModChunk", "MapChunk"} : Num(e, k) = Num(d, k)
      BY <2>1, <2>2
    <2>7. Num(e, "LobbyState") > 0
      BY <2>1, <2>3
    <2> QED
      BY <1>5, <2>4, <2>5, <2>6, <2>7 DEF Tells
  <1> QED
    BY <1>2, <1>8, <1>9 DEF e

\* What a broadcast leaves alone in whoever hears it.
SameButOffers(c, t) ==
  /\ t.here = c.here /\ t.modReady = c.modReady /\ t.modReceive = c.modReceive /\ t.modSend = c.modSend
  /\ t.mapReady = c.mapReady /\ t.mapReceive = c.mapReceive /\ t.mapSend = c.mapSend /\ t.deferred = c.deferred

LEMMA OfferedSame ==
  ASSUME NEW r, NEW s \in [Players -> Seen]
  PROVE  /\ \A x \in Players : SameButOffers(s[x], Offered(r, s)[x])
         /\ MapsReady(r, Offered(r, s)) = MapsReady(r, s)
  <1>1. ASSUME NEW x \in Players PROVE SameButOffers(s[x], Offered(r, s)[x])
    <2>1. s[x] \in Seen
      OBVIOUS
    <2>2. Offered(r, s)[x] = IF ~s[x].here THEN s[x]
                             ELSE [s[x] EXCEPT !.mapOffered = @ \/ r.map # Nothing,
                                               !.modOffered = IF r.mods # Nothing THEN r.mods ELSE @]
      BY DEF Offered
    <2> QED
      BY <2>1, <2>2 DEF SameButOffers, Seen
  <1>2. MapsReady(r, Offered(r, s)) <=> MapsReady(r, s)
    <2> DEFINE o == Offered(r, s)
    <2>1. \A x \in Players : o[x].here = s[x].here /\ o[x].modReady = s[x].modReady /\ o[x].mapReady = s[x].mapReady
      BY <1>1 DEF SameButOffers
    <2> HIDE DEF o
    <2> QED
      BY <2>1 DEF MapsReady, o
  <1> QED
    BY <1>1, <1>2 DEF MapsReady

\* Everybody who hears of what the room has got is offered it, once.
LEMMA TellsOwed ==
  ASSUME NEW x \in Players, NEW u, NEW d, NEW s, NEW m, NEW r, PlayerOwed(x, u, d, s, m, r), s.here,
         s.modOffered = r.mods, s.mapOffered <=> r.map # Nothing,
         NEW z, z.mods = r.mods \/ r.mods = Nothing, z.map = r.map \/ r.map = Nothing,
         NEW e, Tells(d, e, x, z, s), NEW t, SameButOffers(s, t)
  PROVE  PlayerOwed(x, u, e, t, m, z)
  <1>1. u \in Seq(UpOf(x)) /\ ComesAndGoes(u, s, m) /\ Rests(x, s, m) /\ d \in Seq(DownOf(x)) /\ e \in Seq(DownOf(x))
    BY DEF PlayerOwed, Tells
  <1>2. ComesAndGoes(u, t, m) /\ Rests(x, t, m)
    BY <1>1 DEF ComesAndGoes, Rests, SameButOffers
  <1>3. ASSUME m.at # "left" PROVE GetsMods(u, e, t, m, z)
    <2>1. GetsMods(u, d, s, m, r)
      BY <1>3 DEF PlayerOwed
    <2>2. ModsSent(u, e, t) = ModsSent(u, d, s) /\ HasMods(u, t) = HasMods(u, s)
      BY DEF ModsSent, HasMods, Tells, SameButOffers
    <2>3. /\ Num(d, "ModOffer") \in Nat /\ Num(d, "ModChunk") \in Nat
          /\ Num(u, "ModRequest") \in Nat /\ Num(u, "ModReady") \in Nat
      BY <1>1, NumNat
    <2>4. ModsSent(u, d, s) \in Nat /\ HasMods(u, s) \in Nat
      BY <2>3 DEF ModsSent, HasMods, Bit
    <2>5. Num(e, "ModOffer") = Num(d, "ModOffer") + (IF z.mods # Nothing /\ s.modOffered # z.mods THEN 1 ELSE 0)
      BY DEF Tells
    <2>6. Num(d, "ModOffer") + ModsSent(u, d, s) + HasMods(u, s) = Bit(r.mods # Nothing)
      BY <2>1 DEF GetsMods
    <2> HIDE DEF Num
    <2>7. Num(e, "ModOffer") + ModsSent(u, d, s) + HasMods(u, s) = Bit(z.mods # Nothing)
      BY <2>3, <2>4, <2>5, <2>6 DEF Bit
    <2> QED
      BY <2>1, <2>2, <2>7 DEF GetsMods, SameButOffers
  <1>4. ASSUME m.at # "left" PROVE GetsMap(u, e, t, m, z)
    <2>1. GetsMap(u, d, s, m, r)
      BY <1>4 DEF PlayerOwed
    <2>2. MapSent(u, e, t) = MapSent(u, d, s) /\ HasMap(u, t) = HasMap(u, s)
      BY DEF MapSent, HasMap, Tells, SameButOffers
    <2>3. /\ Num(d, "MapOffer") \in Nat /\ Num(d, "MapChunk") \in Nat
          /\ Num(u, "MapRequest") \in Nat /\ Num(u, "MapReady") \in Nat
      BY <1>1, NumNat
    <2>4. MapSent(u, d, s) \in Nat /\ HasMap(u, s) \in Nat
      BY <2>3 DEF MapSent, HasMap, Bit
    <2>5. Num(e, "MapOffer") = Num(d, "MapOffer") + (IF z.map # Nothing /\ ~s.mapOffered THEN 1 ELSE 0)
      BY DEF Tells
    <2>6. Num(d, "MapOffer") + MapSent(u, d, s) + HasMap(u, s) = Bit(r.map # Nothing)
      BY <2>1 DEF GetsMap
    <2> HIDE DEF Num
    <2>7. Num(e, "MapOffer") + MapSent(u, d, s) + HasMap(u, s) = Bit(z.map # Nothing)
      BY <2>3, <2>4, <2>5, <2>6 DEF Bit
    <2> QED
      BY <2>1, <2>2, <2>7 DEF GetsMap, SameButOffers
  <1> QED
    BY <1>1, <1>2, <1>3, <1>4 DEF PlayerOwed

\* Who is not there hears nothing, and needs nothing.
LEMMA AbsentOwed ==
  ASSUME NEW x, NEW u, NEW d, NEW s, NEW m, NEW r, PlayerOwed(x, u, d, s, m, r), ~s.here,
         NEW z, NEW t, SameButOffers(s, t)
  PROVE  PlayerOwed(x, u, d, t, m, z)
  BY DEF PlayerOwed, ComesAndGoes, Rests, SameButOffers

\* The room becomes r, its clients s, and everybody who is there is told; j may
\* have come in with this.
LEMMA BroadcastOwed ==
  ASSUME IInv, NEW r, NEW s \in [Players -> Seen], BroadcastLobby(r, s, NoFrames), UNCHANGED mine,
         r.host = Host, s[Host].here, r.mods \in {Nothing, Chosen}, r.map \in {Nothing, Played},
         r.mods = room.mods \/ room.mods = Nothing, r.map = room.map \/ room.map = Nothing,
         NEW j, j # Host,
         j \in Players => PlayerOwed(j, up'[j], down'[j], seen'[j], mine[j], r),
         \A x \in Players : x # j =>
           /\ PlayerOwed(x, up'[x], down[x], s[x], mine[x], room)
           /\ s[x].here => s[x].modOffered = room.mods /\ (s[x].mapOffered <=> room.map # Nothing),
         HostOwed(up'[Host], down[Host], s[Host], mine[Host], r, jobs')
  PROVE  Owed'
  <1>1. room' = r /\ seen' = Offered(r, s) /\ Host \in Players
    BY Digested DEF BroadcastLobby
  <1>2. \A x \in Players : SameButOffers(s[x], seen'[x])
    BY <1>1, OfferedSame
  <1>3. ASSUME NEW x \in Players
        PROVE  /\ s[x].here => down'[x] = down[x] \o BroadcastFrames(r, s, x)
               /\ ~s[x].here => down'[x] = down[x]
    <2>1. down' = [p \in Players |-> IF s[p].here THEN down[p] \o NoFrames[p] \o BroadcastFrames(r, s, p)
                                     ELSE down[p] \o NoFrames[p]]
      BY DEF BroadcastLobby
    <2>2. down[x] \in Seq(DownFrames) /\ NoFrames[x] = <<>>
      BY DEF IInv, Typed, NoFrames
    <2>3. down[x] \o <<>> = down[x]
      BY <2>2, SendNone
    <2> QED
      BY <2>1, <2>2, <2>3
  <1>4. ASSUME NEW x \in Players, x # j, s[x].here
        PROVE  Tells(down[x], down'[x], x, r, s[x]) /\ Lately(down'[x], r, s)
    <2>1. down[x] \in Seq(DownOf(x))
      BY <1>4 DEF PlayerOwed
    <2> QED
      BY <1>3, <1>4, <2>1, BroadcastTells
  <1>5. ASSUME NEW x \in Players PROVE PlayerOwed(x, up'[x], down'[x], seen'[x], mine[x], r)
    <2>1. CASE x = j
      BY <2>1
    <2>2. CASE x # j /\ s[x].here
      BY <1>2, <1>4, <2>2, TellsOwed
    <2>3. CASE x # j /\ ~s[x].here
      BY <1>2, <1>3, <2>3, AbsentOwed
    <2> QED
      BY <2>1, <2>2, <2>3
  <1>6. Tells(down[Host], down'[Host], Host, r, s[Host]) /\ Lately(down'[Host], r, s)
    BY <1>1, <1>4
  <1>7. HostOwed(up'[Host], down'[Host], seen'[Host], mine[Host], r, jobs')
    <2>1. OffersInOrder(up'[Host])
      BY DEF HostOwed, ModsFirst
    <2> QED
      BY <1>1, <1>2, <1>6, <2>1, HostUnmoved DEF Tells, SameButOffers
  <1>8. IsTold(down'[Host], mine[Host], r, seen')
    <2>1. MapsReady(r, seen') = MapsReady(r, s)
      BY <1>1, OfferedSame
    <2> QED
      BY <1>6, <2>1 DEF IsTold, Lately, Tells
  <1> QED
    BY <1>1, <1>5, <1>7, <1>8 DEF Owed, HostOwedNow

\* A step of the server that concerns one player, who stays and has not said
\* that it has anything.
LEMMA ServerOwes ==
  ASSUME IInv, Owed, NEW p \in Players, UNCHANGED <<room, mine>>,
         \A x \in Players : x # p => up'[x] = up[x] /\ down'[x] = down[x] /\ seen'[x] = seen[x],
         /\ seen'[p].here = seen[p].here /\ seen'[p].modReady = seen[p].modReady
         /\ seen'[p].mapReady = seen[p].mapReady,
         PlayerOwed(p, up'[p], down'[p], seen'[p], mine[p], room),
         HostOwed(up'[Host], down'[Host], seen'[Host], mine[Host], room, jobs'),
         Num(down'[Host], "LobbyState") = Num(down[Host], "LobbyState"),
         Lately(down'[Host], room, seen)
  PROVE  Owed'
  <1>1. \A x \in Players : PlayerOwed(x, up'[x], down'[x], seen'[x], mine'[x], room')
    BY DEF Owed
  <1>2. MapsReady(room, seen') <=> MapsReady(room, seen)
    BY DEF MapsReady
  <1>3. MapsReady(room, seen') = MapsReady(room, seen)
    BY <1>2 DEF MapsReady
  <1>4. IsTold(down'[Host], mine'[Host], room', seen')
    BY <1>3 DEF Owed, IsTold, Lately
  <1> QED
    BY <1>1, <1>4 DEF Owed, HostOwedNow

LEMMA LatelySent ==
  ASSUME NEW S, NEW d \in Seq(S), NEW f \in S, f.kind # "LobbyState", NEW r, NEW s, Lately(d, r, s)
  PROVE  Lately(d \o <<f>>, r, s) /\ Num(d \o <<f>>, "LobbyState") = Num(d, "LobbyState")
  <1> DEFINE w == d \o <<f>>
             n == Len(d)
  <1>1. /\ n \in Nat /\ DOMAIN d = 1 .. n /\ DOMAIN w = 1 .. n + 1
        /\ \A i \in 1 .. n : w[i] = d[i]
        /\ w[n + 1] = f
    <2>1. <<f>> \in Seq(S) /\ Len(<<f>>) = 1 /\ <<f>>[1] = f
      BY OneFrame
    <2> QED
      BY <2>1, Joined
  <1>2. Num(w, "LobbyState") = Num(d, "LobbyState")
    BY SendOne
  <1> HIDE DEF w, n
  <1>3. Lately(w, r, s)
    <2> SUFFICES ASSUME NEW i \in 1 .. n + 1, w[i].kind = "LobbyState",
                        \A j \in 1 .. n + 1 : i < j => w[j].kind # "LobbyState"
                 PROVE  w[i].ready = MapsReady(r, s)
      BY <1>1 DEF Lately
    <2>1. i \in 1 .. n
      BY <1>1
    <2>2. \A j \in 1 .. n : i < j => d[j].kind # "LobbyState"
      BY <1>1
    <2> QED
      BY <1>1, <2>1, <2>2 DEF Lately
  <1> QED
    BY <1>2, <1>3 DEF w

-----------------------------------------------------------------------------
(* What the server takes from a player.                                     *)

Taken(p, u, d, s, m, r) == s \in Seen /\ u # <<>> /\ s.here /\ PlayerOwed(p, u, d, s, m, r)

LEMMA TakenFrame ==
  ASSUME NEW p \in Players, NEW u, NEW d, NEW s, NEW m, NEW r, Taken(p, u, d, s, m, r)
  PROVE  /\ Head(u) \in UpOf(p) /\ u \in Seq(UpOf(p)) /\ d \in Seq(DownOf(p)) /\ Tail(u) \in Seq(UpOf(p))
         /\ \A k : Num(u, k) \in Nat /\ Num(Tail(u), k) \in Nat /\ Num(d, k) \in Nat
         /\ \A k : Num(u, k) = IF Head(u).kind = k THEN Num(Tail(u), k) + 1 ELSE Num(Tail(u), k)
         /\ Head(u).kind \in Plain \ {"Join", "ModError", "MapError", "GameStarting"}
  <1>1. u \in Seq(UpOf(p)) /\ d \in Seq(DownOf(p)) /\ Num(u, "Join") <= Bit(FALSE)
    BY DEF Taken, PlayerOwed, ComesAndGoes
  <1>2. /\ Head(u) \in UpOf(p) /\ Tail(u) \in Seq(UpOf(p))
        /\ \A k : Num(u, k) \in Nat /\ Num(Tail(u), k) \in Nat
        /\ \A k : Num(u, k) = IF Head(u).kind = k THEN Num(Tail(u), k) + 1 ELSE Num(Tail(u), k)
    BY <1>1, ReadOne DEF Taken
  <1>3. \A k : Num(d, k) \in Nat
    BY <1>1, NumNat
  <1>4. Head(u).kind # "Join"
    <2>1. Num(Tail(u), "Join") \in Nat /\ (Head(u).kind = "Join" => Num(u, "Join") = Num(Tail(u), "Join") + 1)
      BY <1>2
    <2> QED
      BY <1>1, <2>1 DEF Bit
  <1>5. Head(u).kind \in Plain \ {"ModError", "MapError", "GameStarting"}
    BY <1>2 DEF UpOf, UpFrames
  <1> QED
    BY <1>1, <1>2, <1>3, <1>4, <1>5

LEMMA PassedComes ==
  ASSUME NEW p \in Players, NEW u, NEW d, NEW s, NEW m, NEW r, Taken(p, u, d, s, m, r), Head(u).kind # "Leave",
         NEW t, t.here = s.here, p # Host => t.deferred = s.deferred
  PROVE  ComesAndGoes(Tail(u), t, m) /\ Rests(p, t, m)
  <1>1. ComesAndGoes(u, s, m) /\ Rests(p, s, m) /\ s.here
    BY DEF Taken, PlayerOwed
  <1>2. /\ Num(u, "Leave") = Num(Tail(u), "Leave") /\ Num(u, "Join") = Num(Tail(u), "Join")
    BY TakenFrame
  <1> QED
    BY <1>1, <1>2 DEF ComesAndGoes, Rests

\* Nothing else matters of who has left;
LEMMA LeftPassed ==
  ASSUME NEW p \in Players, NEW u, NEW d, NEW s, NEW m, NEW r, Taken(p, u, d, s, m, r), Head(u).kind # "Leave",
         m.at = "left", NEW t, t.here = s.here, p # Host => t.deferred = s.deferred
  PROVE  PlayerOwed(p, Tail(u), d, t, m, r)
  BY PassedComes, TakenFrame DEF PlayerOwed

\* nor of who says something else.
LEMMA PassedOwed ==
  ASSUME NEW p \in Players, NEW u, NEW d, NEW s, NEW m, NEW r, Taken(p, u, d, s, m, r),
         Head(u).kind \notin {"Leave", "ModRequest", "ModReady", "MapRequest", "MapReady"},
         NEW t, t.here = s.here, p # Host => t.deferred = s.deferred,
         t.modSend = s.modSend, t.modReady = s.modReady, t.mapSend = s.mapSend, t.mapReady = s.mapReady
  PROVE  PlayerOwed(p, Tail(u), d, t, m, r)
  <1>1. ComesAndGoes(Tail(u), t, m) /\ Rests(p, t, m)
    BY PassedComes
  <1>2. \A k \in {"ModRequest", "ModReady", "MapRequest", "MapReady"} : Num(u, k) = Num(Tail(u), k)
    BY TakenFrame
  <1>3. m.at # "left" => GetsMods(u, d, s, m, r) /\ GetsMap(u, d, s, m, r)
    BY DEF Taken, PlayerOwed
  <1>4. m.at # "left" => GetsMods(Tail(u), d, t, m, r)
    BY <1>2, <1>3 DEF GetsMods, ModsSent, HasMods
  <1>5. m.at # "left" => GetsMap(Tail(u), d, t, m, r)
    BY <1>2, <1>3 DEF GetsMap, MapSent, HasMap
  <1> QED
    BY <1>1, <1>4, <1>5, TakenFrame DEF PlayerOwed

LEMMA ModRequestTaken ==
  ASSUME NEW p \in Players, NEW u, NEW d, NEW s, NEW m, NEW r, Taken(p, u, d, s, m, r), m.at # "left",
         Head(u).kind = "ModRequest", r.mods \in {Nothing, Chosen}
  PROVE  /\ r.mods = Chosen /\ s.modSend = Nothing
         /\ LET t == [s EXCEPT !.modSend = Chosen] IN PlayerOwed(p, Tail(u), d, t, m, r)
  <1> DEFINE t == [s EXCEPT !.modSend = Chosen]
             w == Tail(u)
  <1>1. GetsMods(u, d, s, m, r) /\ GetsMap(u, d, s, m, r) /\ s \in Seen
    BY DEF Taken, PlayerOwed
  <1>2. /\ t.here = s.here /\ t.deferred = s.deferred /\ t.modSend = Chosen /\ t.modReady = s.modReady
        /\ t.mapSend = s.mapSend /\ t.mapReady = s.mapReady
    BY <1>1 DEF Seen
  <1>3. /\ Num(u, "ModRequest") = Num(w, "ModRequest") + 1 /\ Num(w, "ModRequest") \in Nat
        /\ Num(u, "ModReady") = Num(w, "ModReady") /\ Num(w, "ModReady") \in Nat
        /\ Num(u, "MapRequest") = Num(w, "MapRequest") /\ Num(u, "MapReady") = Num(w, "MapReady")
        /\ Num(d, "ModOffer") \in Nat /\ Num(d, "ModChunk") \in Nat
    BY TakenFrame
  <1> HIDE DEF t, w, Num
  <1>4. /\ r.mods = Chosen /\ s.modSend = Nothing
    BY <1>1, <1>3 DEF GetsMods, ModsSent, HasMods, Bit
  <1>5. GetsMods(w, d, t, m, r)
    BY <1>1, <1>2, <1>3, <1>4, Digested DEF GetsMods, ModsSent, HasMods, Bit
  <1>6. GetsMap(w, d, t, m, r)
    BY <1>1, <1>2, <1>3 DEF GetsMap, MapSent, HasMap
  <1>7. ComesAndGoes(w, t, m) /\ Rests(p, t, m)
    BY <1>2, PassedComes DEF w
  <1> QED
    BY <1>4, <1>5, <1>6, <1>7, TakenFrame DEF PlayerOwed, w, t

LEMMA ModRequestDue ==
  ASSUME NEW p \in Players, NEW u, NEW d, NEW s, NEW m, NEW r, Taken(p, u, d, s, m, r), m.at # "left",
         Head(u).kind = "ModRequest", r.mods \in {Nothing, Chosen}
  PROVE  r.mods = Chosen /\ s.modSend = Nothing
  BY ModRequestTaken

LEMMA MapRequestTaken ==
  ASSUME NEW p \in Players, NEW u, NEW d, NEW s, NEW m, NEW r, Taken(p, u, d, s, m, r), m.at # "left",
         Head(u).kind = "MapRequest", r.map \in {Nothing, Played}
  PROVE  /\ r.map = Played /\ s.mapSend = Nothing
         /\ LET t == [s EXCEPT !.mapSend = Played] IN PlayerOwed(p, Tail(u), d, t, m, r)
  <1> DEFINE t == [s EXCEPT !.mapSend = Played]
             w == Tail(u)
  <1>1. GetsMods(u, d, s, m, r) /\ GetsMap(u, d, s, m, r) /\ s \in Seen
    BY DEF Taken, PlayerOwed
  <1>2. /\ t.here = s.here /\ t.deferred = s.deferred /\ t.modSend = s.modSend /\ t.modReady = s.modReady
        /\ t.mapSend = Played /\ t.mapReady = s.mapReady
    BY <1>1 DEF Seen
  <1>3. /\ Num(u, "MapRequest") = Num(w, "MapRequest") + 1 /\ Num(w, "MapRequest") \in Nat
        /\ Num(u, "ModReady") = Num(w, "ModReady") /\ Num(w, "MapReady") \in Nat
        /\ Num(u, "ModRequest") = Num(w, "ModRequest") /\ Num(u, "MapReady") = Num(w, "MapReady")
        /\ Num(d, "MapOffer") \in Nat /\ Num(d, "MapChunk") \in Nat
    BY TakenFrame
  <1> HIDE DEF t, w, Num
  <1>4. /\ r.map = Played /\ s.mapSend = Nothing
    BY <1>1, <1>3 DEF GetsMap, MapSent, HasMap, Bit
  <1>5. GetsMods(w, d, t, m, r)
    BY <1>1, <1>2, <1>3 DEF GetsMods, ModsSent, HasMods
  <1>6. GetsMap(w, d, t, m, r)
    BY <1>1, <1>2, <1>3, <1>4, Digested DEF GetsMap, MapSent, HasMap, Bit
  <1>7. ComesAndGoes(w, t, m) /\ Rests(p, t, m)
    BY <1>2, PassedComes DEF w
  <1> QED
    BY <1>4, <1>5, <1>6, <1>7, TakenFrame DEF PlayerOwed, w, t

LEMMA MapRequestDue ==
  ASSUME NEW p \in Players, NEW u, NEW d, NEW s, NEW m, NEW r, Taken(p, u, d, s, m, r), m.at # "left",
         Head(u).kind = "MapRequest", r.map \in {Nothing, Played}
  PROVE  r.map = Played /\ s.mapSend = Nothing
  BY MapRequestTaken

LEMMA ModReadyTaken ==
  ASSUME NEW p \in Players, NEW u, NEW d, NEW s, NEW m, NEW r, Taken(p, u, d, s, m, r), m.at # "left",
         Head(u).kind = "ModReady", r.mods \in {Nothing, Chosen}
  PROVE  /\ r.mods = Chosen
         /\ LET t == [s EXCEPT !.modReady = Chosen] IN PlayerOwed(p, Tail(u), d, t, m, r)
  <1> DEFINE t == [s EXCEPT !.modReady = Chosen]
             w == Tail(u)
  <1>1. GetsMods(u, d, s, m, r) /\ GetsMap(u, d, s, m, r) /\ s \in Seen
    BY DEF Taken, PlayerOwed
  <1>2. /\ t.here = s.here /\ t.deferred = s.deferred /\ t.modSend = s.modSend /\ t.modReady = Chosen
        /\ t.mapSend = s.mapSend /\ t.mapReady = s.mapReady
    BY <1>1 DEF Seen
  <1>3. /\ Num(u, "ModReady") = Num(w, "ModReady") + 1 /\ Num(w, "ModReady") \in Nat
        /\ Num(u, "ModRequest") = Num(w, "ModRequest") /\ Num(w, "ModRequest") \in Nat
        /\ Num(u, "MapRequest") = Num(w, "MapRequest") /\ Num(u, "MapReady") = Num(w, "MapReady")
        /\ Num(d, "ModOffer") \in Nat /\ Num(d, "ModChunk") \in Nat
    BY TakenFrame
  <1> HIDE DEF t, w, Num
  <1>4. /\ r.mods = Chosen /\ s.modReady = Nothing
    BY <1>1, <1>3 DEF GetsMods, ModsSent, HasMods, Bit
  <1>5. GetsMods(w, d, t, m, r)
    BY <1>1, <1>2, <1>3, <1>4, Digested DEF GetsMods, ModsSent, HasMods, Bit
  <1>6. GetsMap(w, d, t, m, r)
    BY <1>1, <1>2, <1>3 DEF GetsMap, MapSent, HasMap
  <1>7. ComesAndGoes(w, t, m) /\ Rests(p, t, m)
    BY <1>2, PassedComes DEF w
  <1> QED
    BY <1>4, <1>5, <1>6, <1>7, TakenFrame DEF PlayerOwed, w, t

LEMMA MapReadyTaken ==
  ASSUME NEW p \in Players, NEW u, NEW d, NEW s, NEW m, NEW r, Taken(p, u, d, s, m, r), m.at # "left",
         Head(u).kind = "MapReady", r.map \in {Nothing, Played}
  PROVE  /\ r.map = Played
         /\ LET t == [s EXCEPT !.mapReady = TRUE] IN PlayerOwed(p, Tail(u), d, t, m, r)
  <1> DEFINE t == [s EXCEPT !.mapReady = TRUE]
             w == Tail(u)
  <1>1. GetsMods(u, d, s, m, r) /\ GetsMap(u, d, s, m, r) /\ s \in Seen
    BY DEF Taken, PlayerOwed
  <1>2. /\ t.here = s.here /\ t.deferred = s.deferred /\ t.modSend = s.modSend /\ t.modReady = s.modReady
        /\ t.mapSend = s.mapSend /\ t.mapReady
    BY <1>1 DEF Seen
  <1>3. /\ Num(u, "MapReady") = Num(w, "MapReady") + 1 /\ Num(w, "MapReady") \in Nat
        /\ Num(u, "MapRequest") = Num(w, "MapRequest") /\ Num(w, "MapRequest") \in Nat
        /\ Num(u, "ModRequest") = Num(w, "ModRequest") /\ Num(u, "ModReady") = Num(w, "ModReady")
        /\ Num(d, "MapOffer") \in Nat /\ Num(d, "MapChunk") \in Nat
    BY TakenFrame
  <1> HIDE DEF t, w, Num
  <1>4. /\ r.map = Played /\ ~s.mapReady
    BY <1>1, <1>3 DEF GetsMap, MapSent, HasMap, Bit
  <1>5. GetsMods(w, d, t, m, r)
    BY <1>1, <1>2, <1>3 DEF GetsMods, ModsSent, HasMods
  <1>6. GetsMap(w, d, t, m, r)
    BY <1>1, <1>2, <1>3, <1>4 DEF GetsMap, MapSent, HasMap, Bit
  <1>7. ComesAndGoes(w, t, m) /\ Rests(p, t, m)
    BY <1>2, PassedComes DEF w
  <1> QED
    BY <1>4, <1>5, <1>6, <1>7, TakenFrame DEF PlayerOwed, w, t

\* What the host's queue holds behind the frame read, if it is no package's.
LEMMA PassedHost ==
  ASSUME NEW d, NEW s, NEW m, NEW r, NEW q, NEW u, Taken(Host, u, d, s, m, r), HostOwed(u, d, s, m, r, q),
         Head(u).kind \notin {"ModOffer", "ModChunk", "MapOffer", "MapChunk"},
         NEW t, t.modReceive = s.modReceive, t.mapReceive = s.mapReceive, t.deferred = s.deferred
  PROVE  HostOwed(Tail(u), d, t, m, r, q)
  <1>1. \A k \in {"ModOffer", "ModChunk", "MapOffer", "MapChunk"} : Num(Tail(u), k) = Num(u, k)
    BY TakenFrame, Digested
  <1>2. OffersInOrder(Tail(u))
    BY TakenFrame, Digested, OrderTail DEF HostOwed, ModsFirst, Taken
  <1>3. m.at = "joining" => Num(d, "LobbyState") > 0
    BY DEF HostOwed, HostsRoom
  <1> QED
    BY <1>1, <1>2, <1>3, HostUnmoved

-----------------------------------------------------------------------------
(* What the server does with what it reads.                                 *)

Packaged == {"ModOffer", "ModChunk", "MapOffer", "MapChunk"}
ServerReading(p) ==
  /\ IInv /\ Owed /\ ~room.running /\ p \in Players
  /\ up[p] # <<>> /\ up' = [up EXCEPT ![p] = Tail(@)] /\ UNCHANGED mine

LEMMA ReadFrom ==
  ASSUME NEW p \in Players, ServerReading(p)
  PROVE  /\ Host \in Players /\ room.host = Host /\ seen[Host].here /\ mine[Host].at # "left"
         /\ room.mods \in {Nothing, Chosen} /\ room.map \in {Nothing, Played}
         /\ seen \in [Players -> Seen] /\ mine \in [Players -> Mine]
         /\ up'[p] = Tail(up[p]) /\ \A x \in Players : x # p => up'[x] = up[x]
         /\ seen[p].here => Taken(p, up[p], down[p], seen[p], mine[p], room)
         /\ \A x \in Players : PlayerOwed(x, up[x], down[x], seen[x], mine[x], room)
         /\ HostOwed(up[Host], down[Host], seen[Host], mine[Host], room, jobs)
         /\ Lately(down[Host], room, seen)
         /\ \A x \in Players : seen[x].here => seen[x].modOffered = room.mods
                                                /\ (seen[x].mapOffered <=> room.map # Nothing)
  <1>1. /\ Host \in Players /\ seen \in [Players -> Seen] /\ up \in [Players -> Seq(UpFrames)]
        /\ mine \in [Players -> Mine]
    BY Digested DEF ServerReading, IInv, Typed
  <1>2. /\ \A x \in Players : PlayerOwed(x, up[x], down[x], seen[x], mine[x], room)
        /\ HostOwed(up[Host], down[Host], seen[Host], mine[Host], room, jobs)
        /\ Lately(down[Host], room, seen)
    BY DEF ServerReading, Owed, HostOwedNow, IsTold
  <1>3. room.host = Host /\ seen[Host].here /\ mine[Host].at # "left"
    BY <1>1, Whereabouts DEF ServerReading
  <1>4. room.mods \in {Nothing, Chosen} /\ room.map \in {Nothing, Played}
    BY <1>2 DEF HostOwed, HostsRoom
  <1>5. \A x \in Players : seen[x].here => seen[x].modOffered = room.mods
                                             /\ (seen[x].mapOffered <=> room.map # Nothing)
    BY DEF ServerReading, IInv, ServerInStep, Offering
  <1>6. up'[p] = Tail(up[p]) /\ \A x \in Players : x # p => up'[x] = up[x]
    BY <1>1 DEF ServerReading
  <1>7. seen[p].here => Taken(p, up[p], down[p], seen[p], mine[p], room)
    BY <1>1, <1>2 DEF ServerReading, Taken
  <1> QED
    BY <1>1, <1>2, <1>3, <1>4, <1>5, <1>6, <1>7

\* What the host still owes behind a frame of no package, of any player.
LEMMA HostStillOwes ==
  ASSUME NEW p \in Players, ServerReading(p), seen[p].here, Head(up[p]).kind \notin Packaged,
         NEW t, p = Host => t.modReceive = seen[p].modReceive /\ t.mapReceive = seen[p].mapReceive
                            /\ t.deferred = seen[p].deferred,
         p # Host => t = seen[Host]
  PROVE  HostOwed(up'[Host], down[Host], t, mine[Host], room, jobs)
  <1>1. CASE p = Host
    <2>1. Taken(Host, up[Host], down[Host], seen[Host], mine[Host], room) /\ up'[Host] = Tail(up[Host])
      BY <1>1, ReadFrom
    <2> QED
      BY <1>1, <2>1, ReadFrom, PassedHost DEF Packaged
  <1>2. CASE p # Host
    BY <1>2, ReadFrom
  <1> QED
    BY <1>1, <1>2

LEMMA QuietReads ==
  ASSUME NEW p \in Players, ServerReading(p), seen[p].here, Quietly, UNCHANGED jobs, Head(up[p]).kind \notin Packaged,
         \A x \in Players : x # p => seen'[x] = seen[x],
         /\ seen'[p].here = seen[p].here /\ seen'[p].modReady = seen[p].modReady
         /\ seen'[p].mapReady = seen[p].mapReady
         /\ seen'[p].modReceive = seen[p].modReceive /\ seen'[p].mapReceive = seen[p].mapReceive
         /\ seen'[p].deferred = seen[p].deferred,
         PlayerOwed(p, up'[p], down[p], seen'[p], mine[p], room)
  PROVE  Owed'
  <1>1. HostOwed(up'[Host], down[Host], seen'[Host], mine[Host], room, jobs)
    BY HostStillOwes, ReadFrom
  <1>2. IInv /\ Owed /\ UNCHANGED <<room, down, mine>>
    BY DEF ServerReading, Quietly
  <1> QED
    BY <1>1, <1>2, ReadFrom, ServerOwes

LEMMA ReadyReads ==
  ASSUME NEW p \in Players, ServerReading(p), seen[p].here, UNCHANGED jobs, Head(up[p]).kind \notin Packaged,
         NEW s \in [Players -> Seen], BroadcastLobby(room, s, NoFrames),
         \A x \in Players : x # p => s[x] = seen[x],
         /\ s[p].here = seen[p].here /\ s[p].modOffered = seen[p].modOffered
         /\ s[p].mapOffered = seen[p].mapOffered
         /\ s[p].modReceive = seen[p].modReceive /\ s[p].mapReceive = seen[p].mapReceive
         /\ s[p].deferred = seen[p].deferred,
         PlayerOwed(p, up'[p], down[p], s[p], mine[p], room)
  PROVE  Owed'
  <1>1. HostOwed(up'[Host], down[Host], s[Host], mine[Host], room, jobs')
    BY HostStillOwes, ReadFrom
  <1>2. IInv /\ UNCHANGED mine /\ s[Host].here /\ Nothing # Host /\ Nothing \notin Players
    BY ReadFrom, PieceTypes DEF ServerReading
  <1>3. \A x \in Players : /\ PlayerOwed(x, up'[x], down[x], s[x], mine[x], room)
                           /\ s[x].here => s[x].modOffered = room.mods /\ (s[x].mapOffered <=> room.map # Nothing)
    BY ReadFrom
  <1> QED
    BY <1>1, <1>2, <1>3, ReadFrom, BroadcastOwed

LEMMA ModRequestOfPlayer ==
  ASSUME NEW p \in Players, ServerReading(p), seen[p].here, Head(up[p]).kind = "ModRequest",
         ServerModRequest(p, Head(up[p]))
  PROVE  Owed'
  <1> DEFINE f == Head(up[p])
             t == [seen[p] EXCEPT !.modSend = Chosen]
  <1>1. /\ Taken(p, up[p], down[p], seen[p], mine[p], room) /\ up'[p] = Tail(up[p])
        /\ room.mods \in {Nothing, Chosen} /\ seen[p] \in Seen /\ Quietly /\ UNCHANGED jobs
        /\ f.kind = "ModRequest" /\ f.kind \notin Packaged /\ f.kind # "Leave"
    BY ReadFrom DEF ServerModRequest, Packaged
  <1>2. f.digest = Chosen
    BY <1>1, TakenFrame DEF UpOf
  <1>3. \A x \in Players : x # p => seen'[x] = seen[x]
    BY ReadFrom DEF ServerModRequest
  <1>4. seen'[p] = IF room.mods = Chosen /\ seen[p].modSend = Nothing THEN t ELSE seen[p]
    BY <1>2, ReadFrom DEF ServerModRequest
  <1>5. /\ t.here = seen[p].here /\ t.modReady = seen[p].modReady /\ t.mapReady = seen[p].mapReady
        /\ t.modReceive = seen[p].modReceive /\ t.mapReceive = seen[p].mapReceive /\ t.deferred = seen[p].deferred
    BY <1>1 DEF Seen
  <1>8. mine[p].at # "left" => room.mods = Chosen /\ PlayerOwed(p, up'[p], down[p], t, mine[p], room)
    BY <1>1, ModRequestTaken, SMTT(30)
  <1>6. PlayerOwed(p, up'[p], down[p], seen'[p], mine[p], room)
    <2>1. CASE mine[p].at = "left"
      <3> HIDE DEF t
      <3>1. seen'[p].here = seen[p].here /\ seen'[p].deferred = seen[p].deferred
        BY <1>4, <1>5
      <3> QED
        BY <1>1, <2>1, <3>1, LeftPassed
    <2>2. CASE mine[p].at # "left"
      <3>1. room.mods = Chosen /\ seen[p].modSend = Nothing
        BY <1>1, <2>2, ModRequestDue
      <3> QED
        BY <1>4, <1>8, <2>2, <3>1
    <2> QED
      BY <2>1, <2>2
  <1> HIDE DEF t, f
  <1> QED
    BY <1>1, <1>3, <1>4, <1>5, <1>6, QuietReads DEF f

LEMMA MapRequestOfPlayer ==
  ASSUME NEW p \in Players, ServerReading(p), seen[p].here, Head(up[p]).kind = "MapRequest",
         ServerMapRequest(p, Head(up[p]))
  PROVE  Owed'
  <1> DEFINE f == Head(up[p])
             t == [seen[p] EXCEPT !.mapSend = Played]
  <1>1. /\ Taken(p, up[p], down[p], seen[p], mine[p], room) /\ up'[p] = Tail(up[p])
        /\ room.map \in {Nothing, Played} /\ seen[p] \in Seen /\ Quietly /\ UNCHANGED jobs
        /\ f.kind = "MapRequest" /\ f.kind \notin Packaged /\ f.kind # "Leave"
    BY ReadFrom DEF ServerMapRequest, Packaged
  <1>3. \A x \in Players : x # p => seen'[x] = seen[x]
    BY ReadFrom DEF ServerMapRequest
  <1>4. seen'[p] = IF room.map = Played /\ seen[p].mapSend = Nothing THEN t ELSE seen[p]
    BY <1>1, ReadFrom, Digested DEF ServerMapRequest
  <1>5. /\ t.here = seen[p].here /\ t.modReady = seen[p].modReady /\ t.mapReady = seen[p].mapReady
        /\ t.modReceive = seen[p].modReceive /\ t.mapReceive = seen[p].mapReceive /\ t.deferred = seen[p].deferred
    BY <1>1 DEF Seen
  <1>8. mine[p].at # "left" => room.map = Played /\ PlayerOwed(p, up'[p], down[p], t, mine[p], room)
    BY <1>1, MapRequestTaken
  <1>6. PlayerOwed(p, up'[p], down[p], seen'[p], mine[p], room)
    <2>1. CASE mine[p].at = "left"
      <3> HIDE DEF t
      <3>1. seen'[p].here = seen[p].here /\ seen'[p].deferred = seen[p].deferred
        BY <1>4, <1>5
      <3> QED
        BY <1>1, <2>1, <3>1, LeftPassed
    <2>2. CASE mine[p].at # "left"
      <3>1. room.map = Played /\ seen[p].mapSend = Nothing
        BY <1>1, <2>2, MapRequestDue
      <3> QED
        BY <1>4, <1>8, <2>2, <3>1
    <2> QED
      BY <2>1, <2>2
  <1> HIDE DEF t, f
  <1> QED
    BY <1>1, <1>3, <1>4, <1>5, <1>6, QuietReads DEF f

LEMMA ModReadyOfPlayer ==
  ASSUME NEW p \in Players, ServerReading(p), seen[p].here, Head(up[p]).kind = "ModReady",
         ServerModReady(p, Head(up[p]))
  PROVE  Owed'
  <1> DEFINE f == Head(up[p])
             t == [seen[p] EXCEPT !.modReady = Chosen]
             s == [seen EXCEPT ![p] = t]
  <1>1. /\ Taken(p, up[p], down[p], seen[p], mine[p], room) /\ up'[p] = Tail(up[p])
        /\ room.mods \in {Nothing, Chosen} /\ seen[p] \in Seen /\ UNCHANGED jobs
        /\ f.kind = "ModReady" /\ f.kind \notin Packaged /\ f.kind # "Leave"
    BY ReadFrom DEF ServerModReady, Packaged
  <1>2. f.digest = Chosen
    BY <1>1, TakenFrame DEF UpOf
  <1>3. /\ t.here = seen[p].here /\ t.modOffered = seen[p].modOffered /\ t.mapOffered = seen[p].mapOffered
        /\ t.modReceive = seen[p].modReceive /\ t.mapReceive = seen[p].mapReceive /\ t.deferred = seen[p].deferred
        /\ t \in Seen
    BY <1>1, Digested DEF Seen
  <1>4. s \in [Players -> Seen] /\ s[p] = t /\ \A x \in Players : x # p => s[x] = seen[x]
    <2> HIDE DEF t
    <2> QED
      BY <1>3, ReadFrom
  <1>5. \/ room.mods = Chosen /\ BroadcastLobby(room, s, NoFrames)
        \/ room.mods # Chosen /\ Quietly /\ seen' = seen
    BY <1>2, ReadFrom DEF ServerModReady, Told, ServerReading
  <1>8. mine[p].at # "left" => room.mods = Chosen /\ PlayerOwed(p, up'[p], down[p], t, mine[p], room)
    BY <1>1, ModReadyTaken
  <1>6. CASE room.mods = Chosen /\ BroadcastLobby(room, s, NoFrames)
    <2>1. PlayerOwed(p, up'[p], down[p], t, mine[p], room)
      <3>1. CASE mine[p].at = "left"
        <4> HIDE DEF t
        <4> QED
          BY <1>1, <1>3, <3>1, LeftPassed
      <3>2. CASE mine[p].at # "left"
        BY <1>8, <3>2
      <3> QED
        BY <3>1, <3>2
    <2> HIDE DEF t, s, f
    <2> QED
      BY <1>1, <1>3, <1>4, <1>6, <2>1, ReadyReads DEF f
  <1>7. CASE room.mods # Chosen /\ Quietly /\ seen' = seen
    <2>1. mine[p].at = "left"
      BY <1>7, <1>8
    <2>2. PlayerOwed(p, up'[p], down[p], seen'[p], mine[p], room)
      BY <1>1, <1>7, <2>1, LeftPassed
    <2> QED
      BY <1>1, <1>7, <2>2, QuietReads
  <1> QED
    BY <1>5, <1>6, <1>7

LEMMA MapReadyOfPlayer ==
  ASSUME NEW p \in Players, ServerReading(p), seen[p].here, Head(up[p]).kind = "MapReady",
         ServerMapReady(p, Head(up[p]))
  PROVE  Owed'
  <1> DEFINE f == Head(up[p])
             t == [seen[p] EXCEPT !.mapReady = TRUE]
             s == [seen EXCEPT ![p] = t]
  <1>1. /\ Taken(p, up[p], down[p], seen[p], mine[p], room) /\ up'[p] = Tail(up[p])
        /\ room.map \in {Nothing, Played} /\ seen[p] \in Seen /\ UNCHANGED jobs
        /\ f.kind = "MapReady" /\ f.kind \notin Packaged /\ f.kind # "Leave"
    BY ReadFrom DEF ServerMapReady, Packaged
  <1>2. f.digest = Played
    BY <1>1, TakenFrame DEF UpOf
  <1>3. /\ t.here = seen[p].here /\ t.modOffered = seen[p].modOffered /\ t.mapOffered = seen[p].mapOffered
        /\ t.modReceive = seen[p].modReceive /\ t.mapReceive = seen[p].mapReceive /\ t.deferred = seen[p].deferred
        /\ t \in Seen
    BY <1>1 DEF Seen
  <1>4. s \in [Players -> Seen] /\ s[p] = t /\ \A x \in Players : x # p => s[x] = seen[x]
    <2> HIDE DEF t
    <2> QED
      BY <1>3, ReadFrom
  <1>5. \/ room.map = Played /\ BroadcastLobby(room, s, NoFrames)
        \/ room.map # Played /\ Quietly /\ seen' = seen
    BY <1>2, ReadFrom DEF ServerMapReady, Told, ServerReading
  <1>8. mine[p].at # "left" => room.map = Played /\ PlayerOwed(p, up'[p], down[p], t, mine[p], room)
    BY <1>1, MapReadyTaken, SMTT(30)
  <1>6. CASE room.map = Played /\ BroadcastLobby(room, s, NoFrames)
    <2>1. PlayerOwed(p, up'[p], down[p], t, mine[p], room)
      <3>1. CASE mine[p].at = "left"
        <4> HIDE DEF t
        <4> QED
          BY <1>1, <1>3, <3>1, LeftPassed
      <3>2. CASE mine[p].at # "left"
        BY <1>8, <3>2
      <3> QED
        BY <3>1, <3>2
    <2> HIDE DEF t, s, f
    <2> QED
      BY <1>1, <1>3, <1>4, <1>6, <2>1, ReadyReads DEF f
  <1>7. CASE room.map # Played /\ Quietly /\ seen' = seen
    <2>1. mine[p].at = "left"
      BY <1>7, <1>8
    <2>2. PlayerOwed(p, up'[p], down[p], seen'[p], mine[p], room)
      BY <1>1, <1>7, <2>1, LeftPassed
    <2> QED
      BY <1>1, <1>7, <2>2, QuietReads
  <1> QED
    BY <1>5, <1>6, <1>7

LEMMA OutsideReads ==
  ASSUME NEW p \in Players, ServerReading(p), ~seen[p].here, Head(up[p]).kind # "Join", Quietly, UNCHANGED <<seen, jobs>>
  PROVE  Owed'
  <1> DEFINE u == up[p]
  <1>1. /\ PlayerOwed(p, u, down[p], seen[p], mine[p], room) /\ p # Host /\ up'[p] = Tail(u) /\ u # <<>>
        /\ u \in Seq(UpOf(p)) /\ ComesAndGoes(u, seen[p], mine[p])
    BY ReadFrom DEF ServerReading, PlayerOwed
  <1>2. /\ Tail(u) \in Seq(UpOf(p)) /\ Num(Tail(u), "Join") <= Num(u, "Join")
        /\ Num(u, "Join") \in Nat /\ Num(Tail(u), "Join") \in Nat
    <2>1. /\ Tail(u) \in Seq(UpOf(p)) /\ Num(u, "Join") \in Nat /\ Num(Tail(u), "Join") \in Nat
          /\ Num(u, "Join") = IF Head(u).kind = "Join" THEN Num(Tail(u), "Join") + 1 ELSE Num(Tail(u), "Join")
      BY <1>1, ReadOne
    <2> HIDE DEF Num
    <2> QED
      BY <2>1
  <1>3. mine[p].at = "left"
    <2>1. Head(u) = u[1] /\ 1 \in DOMAIN u
      BY <1>1, Shorter
    <2> QED
      BY <1>1, <2>1 DEF ComesAndGoes
  <1>4. ComesAndGoes(Tail(u), seen[p], mine[p])
    <2> HIDE DEF Num, u
    <2> QED
      BY <1>1, <1>2, <1>3 DEF ComesAndGoes, Bit
  <1>5. PlayerOwed(p, Tail(u), down[p], seen[p], mine[p], room)
    BY <1>1, <1>2, <1>3, <1>4 DEF PlayerOwed
  <1>6. IInv /\ Owed /\ UNCHANGED <<room, mine, seen, down, jobs>>
    BY DEF ServerReading, Quietly
  <1> HIDE DEF u
  <1> QED
    BY <1>1, <1>5, <1>6, ReadFrom, ServerOwes

LEMMA LeaverRead ==
  ASSUME NEW p \in Players, ServerReading(p), seen[p].here, Head(up[p]).kind = "Leave", ServerLeave(p, Head(up[p]))
  PROVE  Owed'
  <1> DEFINE s == [seen EXCEPT ![p] = Away]
  <1>1. /\ Taken(p, up[p], down[p], seen[p], mine[p], room) /\ up'[p] = Tail(up[p]) /\ room.host = Host
        /\ room \in Rooms /\ jobs \in Seq(Jobs)
        /\ PlayerOwed(p, up[p], down[p], seen[p], mine[p], room) /\ Host \in Players
    BY ReadFrom DEF ServerReading, IInv, Typed
  <1>2. mine[p].at = "left" /\ p # Host
    <2>1. Head(up[p]) = up[p][1] /\ 1 \in DOMAIN up[p]
      BY <1>1, Shorter, TakenFrame DEF Taken
    <2>2. mine[p].at = "left"
      BY <2>1 DEF ServerReading, IInv, PlayersInStep, PlayerInStep, ClientInStep
    <2> QED
      BY <2>2, ReadFrom
  <1>3. jobs' = jobs
    <2>1. jobs' = Forgotten(jobs, {p})
      BY DEF ServerLeave
    <2>2. \A i \in DOMAIN jobs : jobs[i].client = Host
      BY ReadFrom DEF HostOwed, OneCheck
    <2>3. \A i \in DOMAIN jobs : jobs[i].client \notin {p}
      BY <1>2, <2>2
    <2>4. jobs' = [i \in DOMAIN jobs |-> jobs[i]]
      BY <2>1, <2>3 DEF Forgotten
    <2>5. jobs = [i \in 1 .. Len(jobs) |-> jobs[i]] /\ DOMAIN jobs = 1 .. Len(jobs)
      BY <1>1
    <2> QED
      BY <2>4, <2>5
  <1>4. BroadcastLobby(room, s, NoFrames)
    <2>1. Host # Nothing /\ [room EXCEPT !.host = Host] = room
      BY <1>1, Digested DEF Rooms
    <2> HIDE DEF s
    <2> QED
      BY <1>1, <1>2, <2>1 DEF ServerLeave, ServerReading, s
  <1>5. s \in [Players -> Seen] /\ s[p] = Away /\ (\A x \in Players : x # p => s[x] = seen[x]) /\ ~Away.here
    BY ReadFrom, PieceTypes DEF Away
  <1> HIDE DEF s
  <1>6. PlayerOwed(p, up'[p], down[p], Away, mine[p], room)
    <2>1. /\ Tail(up[p]) \in Seq(UpOf(p)) /\ Num(Tail(up[p]), "Join") = Num(up[p], "Join")
      BY <1>1, TakenFrame
    <2>2. ComesAndGoes(Tail(up[p]), Away, mine[p])
      BY <1>1, <1>2, <1>5, <2>1 DEF PlayerOwed, ComesAndGoes, Bit, Taken
    <2>3. Rests(p, Away, mine[p])
      BY <1>1 DEF PlayerOwed, Rests, Away
    <2> QED
      BY <1>1, <1>2, <1>5, <2>1, <2>2, <2>3 DEF PlayerOwed
  <1>7. HostOwed(up'[Host], down[Host], s[Host], mine[Host], room, jobs')
    BY <1>1, <1>2, <1>3, <1>5, ReadFrom
  <1>8. IInv /\ UNCHANGED mine /\ s[Host].here /\ Nothing # Host /\ Nothing \notin Players
    BY <1>1, <1>2, <1>5, ReadFrom, PieceTypes DEF ServerReading
  <1>9. \A x \in Players : /\ PlayerOwed(x, up'[x], down[x], s[x], mine[x], room)
                           /\ s[x].here => s[x].modOffered = room.mods /\ (s[x].mapOffered <=> room.map # Nothing)
    BY <1>5, <1>6, ReadFrom
  <1> QED
    BY <1>4, <1>5, <1>7, <1>8, <1>9, ReadFrom, BroadcastOwed

LEMMA JoinerRead ==
  ASSUME NEW p \in Players, ServerReading(p), Head(up[p]).kind = "Join", ServerJoin(p, Head(up[p]))
  PROVE  Owed'
  <1> DEFINE u == up[p]
             m == mine[p]
             c == [Away EXCEPT !.here = TRUE]
             s == [seen EXCEPT ![p] = c]
  <1>1. /\ PlayerOwed(p, u, down[p], seen[p], m, room) /\ up'[p] = Tail(u) /\ room.host = Host
        /\ u # <<>> /\ u \in Seq(UpOf(p)) /\ Host \in Players /\ Host # Nothing
        /\ ComesAndGoes(u, seen[p], m) /\ Rests(p, seen[p], m)
    BY ReadFrom, Digested DEF ServerReading, PlayerOwed
  <1>2. /\ ~seen[p].here /\ m.at = "joining" /\ p # Host
    <2>1. Num(u, "Join") = Num(Tail(u), "Join") + 1 /\ Num(Tail(u), "Join") \in Nat
      BY <1>1, ReadOne
    <2>2. Num(u, "Join") <= Bit(~seen[p].here /\ m.at = "joining")
      BY <1>1 DEF ComesAndGoes
    <2>3. ~seen[p].here /\ m.at = "joining"
      <3> HIDE DEF Num, u, m
      <3> QED
        BY <2>1, <2>2 DEF Bit
    <2> QED
      BY <2>3, ReadFrom
  <1>3. /\ \A i \in DOMAIN u : u[i].kind = "Join"
        /\ m.modReceive = Nothing /\ m.mapReceive = Nothing /\ down[p] = <<>>
    BY <1>1, <1>2 DEF ComesAndGoes, ServerReading, IInv, PlayersInStep, PlayerInStep, ClientInStep
  <1>4. /\ Tail(u) \in Seq(UpOf(p)) /\ \A k : Num(Tail(u), k) = 0
    <2>1. /\ Tail(u) \in Seq(UpOf(p))
          /\ \A k : Num(u, k) = IF Head(u).kind = k THEN Num(Tail(u), k) + 1 ELSE Num(Tail(u), k)
          /\ \A k : Num(Tail(u), k) \in Nat
      BY <1>1, ReadOne
    <2>2. \A k : k # "Join" => Num(u, k) = 0
      BY <1>1, <1>3, NumNat
    <2>3. Num(u, "Join") <= 1
      <3>1. Num(u, "Join") <= Bit(~seen[p].here /\ m.at = "joining")
        BY <1>1 DEF ComesAndGoes
      <3> HIDE DEF Num, u, m
      <3> QED
        BY <1>2, <3>1 DEF Bit
    <2>4. Num(Tail(u), "Join") = 0
      <3>1. Num(u, "Join") = Num(Tail(u), "Join") + 1 /\ Num(Tail(u), "Join") \in Nat
        BY <2>1
      <3> HIDE DEF Num, u
      <3> QED
        BY <2>3, <3>1
    <2> QED
      BY <2>1, <2>2, <2>4
  <1>5. /\ c \in Seen /\ c.here /\ c.modReady = Nothing /\ c.modOffered = Nothing /\ c.modReceive = Nothing
        /\ c.modSend = Nothing /\ ~c.mapReady /\ ~c.mapOffered /\ c.mapReceive = Nothing /\ c.mapSend = Nothing
        /\ c.deferred = Nothing
    BY PieceTypes DEF Away, Seen
  <1>6. BroadcastLobby(room, s, NoFrames) /\ UNCHANGED jobs
    <2> HIDE DEF s, c
    <2> QED
      BY <1>1 DEF ServerJoin, ServerReading, s, c
  <1> HIDE DEF c
  <1>7. s \in [Players -> Seen] /\ s[p] = c /\ \A x \in Players : x # p => s[x] = seen[x]
    BY <1>5, ReadFrom
  <1> HIDE DEF s, u, m
  <1>8. seen'[p].here /\ SameButOffers(c, seen'[p])
    <2>1. seen' = Offered(room, s)
      BY <1>6 DEF BroadcastLobby
    <2>2. SameButOffers(s[p], seen'[p])
      BY <1>7, <2>1, OfferedSame
    <2> QED
      BY <1>5, <1>7, <2>2 DEF SameButOffers
  <1>9. Tells(<<>>, down'[p], p, room, c)
    <2>1. down'[p] = <<>> \o NoFrames[p] \o BroadcastFrames(room, s, p)
      BY <1>3, <1>5, <1>6, <1>7 DEF BroadcastLobby
    <2>2. NoFrames[p] = <<>> /\ <<>> \o <<>> = <<>>
      BY DEF NoFrames
    <2>3. <<>> \in Seq(DownOf(p))
      OBVIOUS
    <2>4. Tells(<<>>, <<>> \o BroadcastFrames(room, s, p), p, room, s[p])
      BY <1>1, <2>3, ReadFrom, BroadcastTells
    <2> QED
      BY <1>7, <2>1, <2>2, <2>4
  <1>10. PlayerOwed(p, up'[p], down'[p], seen'[p], m, room)
    <2>1. down'[p] \in Seq(DownOf(p)) /\ m.at # "lobby" /\ m.at # "left"
      BY <1>2, <1>9 DEF Tells
    <2>2. ComesAndGoes(Tail(u), seen'[p], m)
      BY <1>2, <1>4, <1>8 DEF ComesAndGoes, Bit
    <2>3. Rests(p, seen'[p], m)
      BY <1>1, <1>5, <1>8 DEF Rests, SameButOffers
    <2>4. /\ Num(down'[p], "ModChunk") = 0 /\ Num(down'[p], "MapChunk") = 0
          /\ Num(down'[p], "ModOffer") = (IF room.mods # Nothing THEN 1 ELSE 0)
          /\ Num(down'[p], "MapOffer") = (IF room.map # Nothing THEN 1 ELSE 0)
      <3>1. /\ Num(<<>>, "ModChunk") = 0 /\ Num(<<>>, "MapChunk") = 0
            /\ Num(<<>>, "ModOffer") = 0 /\ Num(<<>>, "MapOffer") = 0
        BY NumNone
      <3> HIDE DEF Num
      <3> QED
        BY <1>5, <1>9, <3>1 DEF Tells
    <2>5. /\ Num(Tail(u), "ModRequest") = 0 /\ Num(Tail(u), "ModReady") = 0
          /\ Num(Tail(u), "MapRequest") = 0 /\ Num(Tail(u), "MapReady") = 0
      BY <1>4
    <2> HIDE DEF Num
    <2>6. GetsMods(Tail(u), down'[p], seen'[p], m, room)
      BY <1>3, <1>5, <1>8, <2>4, <2>5 DEF GetsMods, ModsSent, HasMods, Bit, SameButOffers
    <2>7. GetsMap(Tail(u), down'[p], seen'[p], m, room)
      BY <1>3, <1>5, <1>8, <2>4, <2>5 DEF GetsMap, MapSent, HasMap, Bit, SameButOffers
    <2> QED
      BY <1>1, <1>4, <2>1, <2>2, <2>3, <2>6, <2>7 DEF PlayerOwed
  <1>11. HostOwed(up'[Host], down[Host], s[Host], mine[Host], room, jobs')
    BY <1>1, <1>2, <1>6, <1>7, ReadFrom
  <1>12. IInv /\ UNCHANGED mine /\ s[Host].here
    BY <1>1, <1>2, <1>7, ReadFrom DEF ServerReading
  <1>13. \A x \in Players : x # p =>
           /\ PlayerOwed(x, up'[x], down[x], s[x], mine[x], room)
           /\ s[x].here => s[x].modOffered = room.mods /\ (s[x].mapOffered <=> room.map # Nothing)
    BY <1>7, ReadFrom
  <1> QED
    BY <1>2, <1>6, <1>7, <1>10, <1>11, <1>12, <1>13, ReadFrom, BroadcastOwed DEF m

\* A frame for a player that is about neither package.
LEMMA SentToOwed ==
  ASSUME NEW p, NEW u, NEW d, NEW s, NEW m, NEW r, PlayerOwed(p, u, d, s, m, r),
         NEW f \in DownOf(p), f.kind \notin Packaged
  PROVE  PlayerOwed(p, u, d \o <<f>>, s, m, r)
  <1> DEFINE w == d \o <<f>>
  <1>1. d \in Seq(DownOf(p))
    BY DEF PlayerOwed
  <1>2. w \in Seq(DownOf(p)) /\ \A k \in Packaged : Num(w, k) = Num(d, k)
    BY <1>1, SendOne
  <1> HIDE DEF w
  <1>3. \A k \in {"ModOffer", "ModChunk", "MapOffer", "MapChunk"} : Num(w, k) = Num(d, k)
    BY <1>2 DEF Packaged
  <1>4. GetsMods(u, d, s, m, r) => GetsMods(u, w, s, m, r)
    BY <1>3 DEF GetsMods, ModsSent
  <1>5. GetsMap(u, d, s, m, r) => GetsMap(u, w, s, m, r)
    BY <1>3 DEF GetsMap, MapSent
  <1> QED
    BY <1>2, <1>4, <1>5 DEF PlayerOwed, w

LEMMA StarterRead ==
  ASSUME NEW p \in Players, ServerReading(p), seen[p].here, Head(up[p]).kind = "Start", ServerStart(p, Head(up[p])),
         ~room'.running
  PROVE  Owed'
  <1> DEFINE e == Frame("MapError", Nothing)
  <1>1. /\ Taken(p, up[p], down[p], seen[p], mine[p], room) /\ up'[p] = Tail(up[p]) /\ room.host = Host
        /\ room \in Rooms /\ down \in [Players -> Seq(DownFrames)] /\ UNCHANGED <<seen, jobs>>
        /\ PlayerOwed(p, up[p], down[p], seen[p], mine[p], room) /\ Head(up[p]).kind \notin Packaged
    BY ReadFrom DEF ServerReading, ServerStart, IInv, Typed, Packaged
  <1>2. PlayerOwed(p, up'[p], down[p], seen[p], mine[p], room)
    BY <1>1, PassedOwed
  <1>3. CASE room.host = p /\ ~room.running /\ MapsReady(room, seen)
    <2>1. room' = [room EXCEPT !.running = TRUE]
      BY <1>3 DEF ServerStart
    <2> QED
      BY <1>1, <2>1 DEF Rooms
  <1>4. CASE Quietly
    BY <1>1, <1>2, <1>4, QuietReads
  <1>5. CASE room.host = p /\ down' = [down EXCEPT ![p] = Append(@, e)] /\ UNCHANGED room
    <2> DEFINE d == down[Host]
    <2>1. /\ p = Host /\ d \in Seq(DownOf(Host)) /\ e \in DownOf(Host) /\ e.kind = "MapError" /\ e.kind \notin Packaged
      BY <1>1, <1>5, FrameTypes, PieceTypes DEF PlayerOwed, DownOf, Downward, Packaged
    <2>2. /\ down'[Host] = d \o <<e>> /\ \A x \in Players : x # p => down'[x] = down[x]
      <3>1. Append(d, e) = d \o <<e>>
        BY <2>1, AppendIsConcat
      <3> HIDE DEF e
      <3> QED
        BY <1>1, <1>5, <2>1, <3>1, Digested
    <2> HIDE DEF d, e
    <2>3. PlayerOwed(p, up'[p], d \o <<e>>, seen[p], mine[p], room)
      BY <1>2, <2>1, SentToOwed DEF d
    <2>4. Lately(d \o <<e>>, room, seen) /\ Num(d \o <<e>>, "LobbyState") = Num(d, "LobbyState")
      BY <2>1, LatelySent, ReadFrom DEF d
    <2>5. HostOwed(up'[Host], d \o <<e>>, seen[Host], mine[Host], room, jobs)
      <3>1. HostOwed(up'[Host], d, seen[Host], mine[Host], room, jobs)
        BY <1>1, <2>1, HostStillOwes DEF d
      <3>2. \A k \in {"ModRequest", "MapRequest"} : Num(d \o <<e>>, k) = Num(d, k)
        BY <2>1, SendOne
      <3>3. OffersInOrder(up'[Host]) /\ (mine[Host].at = "joining" => Num(d, "LobbyState") > 0)
        BY <3>1 DEF HostOwed, ModsFirst, HostsRoom
      <3> QED
        BY <2>4, <3>1, <3>2, <3>3, HostUnmoved
    <2>6. IInv /\ Owed /\ UNCHANGED <<room, mine, seen, jobs>>
      BY <1>1, <1>5 DEF ServerReading
    <2>7. \A x \in Players : x # p => up'[x] = up[x] /\ down'[x] = down[x] /\ seen'[x] = seen[x]
      BY <2>2, <2>6, ReadFrom
    <2>8. /\ PlayerOwed(p, up'[p], down'[p], seen'[p], mine[p], room)
          /\ HostOwed(up'[Host], down'[Host], seen'[Host], mine[Host], room, jobs')
          /\ Num(down'[Host], "LobbyState") = Num(down[Host], "LobbyState") /\ Lately(down'[Host], room, seen)
          /\ seen'[p] = seen[p]
      BY <2>1, <2>2, <2>3, <2>4, <2>5, <2>6 DEF d
    <2> QED
      BY <2>6, <2>7, <2>8, ServerOwes
  <1> QED
    BY <1>3, <1>4, <1>5 DEF ServerStart

-----------------------------------------------------------------------------
(* The packages the host offers and sends.                                  *)

LEMMA NothingChecked ==
  ASSUME NEW q \in Seq(Jobs), ModChecks(q) = 0, MapChecks(q) = 0
  PROVE  q = <<>>
  <1>1. DOMAIN q = {}
    BY DEF ModChecks, MapChecks, Bit
  <1> QED
    BY <1>1, LenProperties, EmptySeq

LEMMA FirstCheck ==
  ASSUME NEW job \in Jobs, NEW who
  PROVE  Validate(<<>>, job) = <<job>> /\ Validate(Forgotten(<<>>, who), job) = <<job>>
  <1>1. <<>> \in Seq(Jobs) /\ Len(<<>>) = 0
    OBVIOUS
  <1>2. \A w : Forgotten(<<>>, w) = <<>>
    <2> SUFFICES ASSUME NEW w PROVE Forgotten(<<>>, w) = <<>>
      OBVIOUS
    <2>1. Forgotten(<<>>, w) \in Seq(Jobs) /\ Len(Forgotten(<<>>, w)) = 0
      BY <1>1, ForgottenFewer
    <2> QED
      BY <2>1, EmptySeq
  <1>3. Append(<<>>, job) = <<job>>
    OBVIOUS
  <1> QED
    BY <1>2, <1>3 DEF Validate

LEMMA OneChecked ==
  ASSUME NEW job \in Jobs, job.client = Host, job.current,
         job.digest = IF job.mods THEN Chosen ELSE Played,
         ~job.cache => job.bytes = job.digest /\ (job.done => job.found)
  PROVE  /\ OneCheck(<<job>>)
         /\ job.mods => ModChecks(<<job>>) = 1 /\ MapChecks(<<job>>) = 0
         /\ ~job.mods => ModChecks(<<job>>) = 0 /\ MapChecks(<<job>>) = 1
  <1> DEFINE q == <<job>>
  <1>1. q \in Seq(Jobs) /\ DOMAIN q = {1} /\ q[1] = job /\ Len(q) = 1
    BY OneFrame
  <1> HIDE DEF q
  <1>2. OneCheck(q)
    BY <1>1 DEF OneCheck
  <1>3. /\ job.mods => ModChecks(q) = 1 /\ MapChecks(q) = 0
        /\ ~job.mods => ModChecks(q) = 0 /\ MapChecks(q) = 1
    BY <1>1 DEF ModChecks, MapChecks, Bit
  <1> QED
    BY <1>2, <1>3 DEF q

\* A new package finds nobody with anything of the old ones.
LEMMA ResetOwed ==
  ASSUME NEW x, NEW u, NEW d, NEW c, NEW m, NEW r, PlayerOwed(x, u, d, c, m, r), r.mods = Nothing, r.map = Nothing,
         NEW t, t.here = c.here, t.modReady = Nothing, t.modSend = Nothing, ~t.mapReady, t.mapSend = Nothing,
         t.deferred = Nothing
  PROVE  PlayerOwed(x, u, d, t, m, r)
  <1>1. /\ u \in Seq(UpOf(x)) /\ d \in Seq(DownOf(x)) /\ ComesAndGoes(u, t, m) /\ Rests(x, t, m)
    BY DEF PlayerOwed, ComesAndGoes, Rests
  <1>2. /\ Num(u, "ModRequest") \in Nat /\ Num(u, "ModReady") \in Nat
        /\ Num(u, "MapRequest") \in Nat /\ Num(u, "MapReady") \in Nat
        /\ Num(d, "ModOffer") \in Nat /\ Num(d, "ModChunk") \in Nat
        /\ Num(d, "MapOffer") \in Nat /\ Num(d, "MapChunk") \in Nat
    BY <1>1, NumNat
  <1> HIDE DEF Num
  <1>3. ASSUME GetsMods(u, d, c, m, r) PROVE GetsMods(u, d, t, m, r)
    <2>1. ModsSent(u, d, c) \in Nat /\ HasMods(u, c) \in Nat
      BY <1>2 DEF ModsSent, HasMods, Bit
    <2>2. Num(d, "ModOffer") = 0 /\ ModsSent(u, d, c) = 0 /\ HasMods(u, c) = 0
      BY <1>2, <1>3, <2>1 DEF GetsMods, Bit
    <2>3. ModsSent(u, d, t) = 0 /\ HasMods(u, t) = 0
      BY <1>2, <2>2 DEF ModsSent, HasMods, Bit
    <2> QED
      BY <1>3, <2>2, <2>3 DEF GetsMods, Bit
  <1>4. ASSUME GetsMap(u, d, c, m, r) PROVE GetsMap(u, d, t, m, r)
    <2>1. MapSent(u, d, c) \in Nat /\ HasMap(u, c) \in Nat
      BY <1>2 DEF MapSent, HasMap, Bit
    <2>2. Num(d, "MapOffer") = 0 /\ MapSent(u, d, c) = 0 /\ HasMap(u, c) = 0
      BY <1>2, <1>4, <2>1 DEF GetsMap, Bit
    <2>3. MapSent(u, d, t) = 0 /\ HasMap(u, t) = 0
      BY <1>2, <2>2 DEF MapSent, HasMap, Bit
    <2> QED
      BY <1>4, <2>2, <2>3 DEF GetsMap, Bit
  <1> QED
    BY <1>1, <1>3, <1>4 DEF PlayerOwed

LEMMA ModsOffered ==
  ASSUME NEW p \in Players, ServerReading(p), seen[p].here, Head(up[p]).kind = "ModOffer",
         ServerModOffer(p, Head(up[p]))
  PROVE  Owed'
  <1> DEFINE u == up[Host]
             d == down[Host]
             c == seen[Host]
             m == mine[Host]
             w == Tail(u)
             s == ResetTransfers(seen)
             job == Job(Host, TRUE, TRUE, Chosen, Nothing)
  <1>1. /\ Taken(p, up[p], down[p], seen[p], mine[p], room) /\ up'[p] = Tail(up[p]) /\ room.host = Host
        /\ room \in Rooms /\ jobs \in Seq(Jobs) /\ Host \in Players
    BY ReadFrom DEF ServerReading, IInv, Typed
  <1>2. p = Host /\ Head(u).digest = Chosen
    BY <1>1, TakenFrame DEF UpOf
  <1>3. /\ HostOwed(u, d, c, m, room, jobs) /\ Taken(Host, u, d, c, m, room) /\ up'[Host] = w
        /\ u \in Seq(UpOf(Host)) /\ d \in Seq(DownOf(Host)) /\ u # <<>> /\ OffersInOrder(u) /\ HostsRoom(d, m, room)
    BY <1>1, <1>2, ReadFrom, TakenFrame DEF HostOwed, ModsFirst, Taken
  <1>4. /\ Num(u, "ModOffer") = Num(w, "ModOffer") + 1 /\ Num(w, "ModOffer") \in Nat
        /\ Num(u, "MapOffer") = Num(w, "MapOffer") /\ Num(u, "MapOffer") \in Nat
        /\ Num(u, "ModChunk") = Num(w, "ModChunk") /\ Num(u, "MapChunk") = Num(w, "MapChunk")
    BY <1>1, <1>2, <1>3, TakenFrame
  <1>5. /\ Num(u, "ModOffer") > 0 /\ Num(u, "MapOffer") > 0
    BY <1>3, <1>4 DEF HostOwed, ModsFirst
  <1>6. /\ m.at # "joining" /\ Num(u, "ModOffer") = 1 /\ ModChecks(jobs) = 0 /\ ModsAsked(u, d, m) = 0
        /\ room.mods = Nothing
    BY <1>3, <1>5, ModsStage
  <1>7. /\ Num(u, "MapOffer") = 1 /\ c.deferred = Nothing
        /\ MapChecks(jobs) = 0 /\ MapAsked(u, d, m) = 0 /\ room.map = Nothing
    BY <1>3, <1>5, MapStage
  <1>8. jobs = <<>>
    BY <1>1, <1>6, <1>7, NothingChecked
  <1>9. c.modReceive = Nothing
    BY <1>3, <1>6 DEF HostOwed, ModsComing
  <1>10. /\ job \in Jobs /\ job.client = Host /\ job.mods /\ job.current /\ job.cache /\ job.digest = Chosen
    BY <1>1, Digested, PieceTypes DEF Job, Jobs
  <1>11. /\ BroadcastLobby(room, s, NoFrames) /\ jobs' = <<job>>
    <2>1. [room EXCEPT !.mods = Nothing, !.map = Nothing] = room
      BY <1>1, <1>6, <1>7 DEF Rooms
    <2>2. ~Validating(p) /\ ~room.running
      BY <1>8 DEF Validating, ServerReading
    <2>3. jobs' = Validate(Forgotten(<<>>, Here), job) /\ BroadcastLobby(room, s, NoFrames)
      <3> HIDE DEF job, s
      <3> QED
        BY <1>1, <1>2, <1>8, <1>9, <2>1, <2>2 DEF ServerModOffer, job, s
    <2> HIDE DEF job
    <2> QED
      BY <1>10, <2>3, FirstCheck
  <1> HIDE DEF job
  <1>12. /\ OneCheck(<<job>>) /\ ModChecks(<<job>>) = 1 /\ MapChecks(<<job>>) = 0
    BY <1>10, OneChecked
  <1>13. s \in [Players -> Seen] /\ \A x \in Players :
           /\ s[x].here = seen[x].here /\ s[x].modReady = Nothing /\ s[x].modSend = Nothing
           /\ ~s[x].mapReady /\ s[x].mapSend = Nothing /\ s[x].deferred = Nothing
           /\ s[x].modReceive = Nothing /\ s[x].mapReceive = Nothing
           /\ s[x].modOffered = Nothing /\ ~s[x].mapOffered
    <2>1. \A x \in Players : s[x] = [Away EXCEPT !.here = seen[x].here]
      BY DEF ResetTransfers
    <2>2. \A x \in Players : seen[x].here \in BOOLEAN
      BY ReadFrom DEF Seen
    <2>3. \A x \in Players : s[x] \in Seen
      <3>1. \A b \in BOOLEAN : [Away EXCEPT !.here = b] \in Seen
        BY PieceTypes DEF Seen
      <3> HIDE DEF s
      <3> QED
        BY <2>1, <2>2, <3>1
    <2> QED
      BY <2>1, <2>3, PieceTypes DEF ResetTransfers, Away
  <1> HIDE DEF s
  <1>14. \A x \in Players : PlayerOwed(x, up'[x], down[x], s[x], mine[x], room)
    <2> SUFFICES ASSUME NEW x \in Players PROVE PlayerOwed(x, up'[x], down[x], s[x], mine[x], room)
      OBVIOUS
    <2>1. PlayerOwed(x, up'[x], down[x], seen[x], mine[x], room)
      <3>1. CASE x = p
        BY <1>1, <3>1, PassedOwed
      <3>2. CASE x # p
        BY <3>2, ReadFrom
      <3> QED
        BY <3>1, <3>2
    <2> QED
      BY <1>6, <1>7, <1>13, <2>1, ResetOwed
  <1>15. HostOwed(w, d, s[Host], m, room, <<job>>)
    <2>1. ModsAsked(w, d, m) = 0 /\ MapAsked(w, d, m) = 0
      BY <1>4, <1>6, <1>7 DEF ModsAsked, MapAsked
    <2>2. Num(w, "ModOffer") = 0 /\ Num(w, "MapOffer") = 1
      BY <1>4, <1>6, <1>7
    <2>3. OffersInOrder(w)
      BY <1>3, OrderTail
    <2>4. /\ s[Host].modReceive = Nothing /\ s[Host].mapReceive = Nothing /\ s[Host].deferred = Nothing
      BY <1>1, <1>13
    <2> HIDE DEF w, m, d, u
    <2>5. ModsComing(w, d, s[Host], m, room, <<job>>)
      BY <1>6, <1>12, <2>1, <2>2, <2>4 DEF ModsComing, Bit
    <2>6. MapComing(w, d, s[Host], m, room, <<job>>)
      BY <1>6, <1>7, <1>12, <2>1, <2>2, <2>4 DEF MapComing, Bit
    <2>7. ModsFirst(w, d, m, room, <<job>>)
      BY <1>7, <1>12, <2>1, <2>2, <2>3 DEF ModsFirst
    <2> QED
      BY <1>3, <1>12, <2>5, <2>6, <2>7 DEF HostOwed
  <1>16. IInv /\ UNCHANGED mine /\ s[Host].here /\ Nothing # Host /\ Nothing \notin Players
    BY <1>13, ReadFrom, PieceTypes DEF ServerReading
  <1>17. HostOwed(up'[Host], down[Host], s[Host], mine[Host], room, jobs')
    BY <1>3, <1>11, <1>15
  <1>18. \A x \in Players : s[x].here => s[x].modOffered = room.mods /\ (s[x].mapOffered <=> room.map # Nothing)
    BY <1>6, <1>7, <1>13
  <1> HIDE DEF u, d, c, m, w
  <1> QED
    BY <1>1, <1>6, <1>7, <1>11, <1>13, <1>14, <1>16, <1>17, <1>18, BroadcastOwed

LEMMA ModsUploaded ==
  ASSUME NEW p \in Players, ServerReading(p), seen[p].here, Head(up[p]).kind = "ModChunk",
         ServerModChunk(p, Head(up[p]))
  PROVE  Owed'
  <1> DEFINE u == up[Host]
             d == down[Host]
             c == seen[Host]
             m == mine[Host]
             w == Tail(u)
             t == [c EXCEPT !.modReceive = Nothing]
             job == Job(Host, TRUE, FALSE, Chosen, Chosen)
  <1>1. /\ Taken(p, up[p], down[p], seen[p], mine[p], room) /\ up'[p] = Tail(up[p]) /\ room.host = Host
        /\ room \in Rooms /\ jobs \in Seq(Jobs) /\ Host \in Players /\ c \in Seen
    BY ReadFrom DEF ServerReading, IInv, Typed
  <1>2. p = Host /\ Head(u).digest = Chosen
    BY <1>1, TakenFrame DEF UpOf
  <1>3. /\ HostOwed(u, d, c, m, room, jobs) /\ Taken(Host, u, d, c, m, room) /\ up'[Host] = w
        /\ u \in Seq(UpOf(Host)) /\ d \in Seq(DownOf(Host)) /\ u # <<>> /\ OffersInOrder(u) /\ HostsRoom(d, m, room)
    BY <1>1, <1>2, ReadFrom, TakenFrame DEF HostOwed, ModsFirst, Taken
  <1>4. /\ Num(u, "ModChunk") = Num(w, "ModChunk") + 1 /\ Num(w, "ModChunk") \in Nat
        /\ Num(u, "MapOffer") = Num(w, "MapOffer") /\ Num(u, "ModOffer") = Num(w, "ModOffer")
        /\ Num(u, "MapChunk") = Num(w, "MapChunk") /\ Num(d, "ModRequest") \in Nat
    BY <1>1, <1>2, <1>3, TakenFrame
  <1>5. ModsAsked(u, d, m) > 0
    BY <1>4 DEF ModsAsked, Bit
  <1>6. /\ m.at # "joining" /\ Num(u, "ModOffer") = 0 /\ ModChecks(jobs) = 0 /\ ModsAsked(u, d, m) = 1
        /\ room.mods = Nothing
    BY <1>3, <1>5, ModsStage
  <1>7. MapChecks(jobs) = 0 /\ MapAsked(u, d, m) = 0 /\ room.map = Nothing
    <2>1. MapChecks(jobs) \in Nat /\ MapAsked(u, d, m) \in Nat
      BY <1>3, MapStage
    <2> QED
      BY <1>3, <1>6, <2>1 DEF HostOwed, ModsFirst
  <1>8. jobs = <<>> /\ c.modReceive = Chosen /\ c.mapReceive = Nothing
    BY <1>1, <1>3, <1>6, <1>7, NothingChecked DEF HostOwed, ModsComing, MapComing
  <1>9. /\ job \in Jobs /\ job.client = Host /\ job.mods /\ job.current /\ job.digest = Chosen
        /\ job.bytes = Chosen /\ ~job.done
    BY <1>1, Digested DEF Job, Jobs
  <1>10. /\ seen' = [seen EXCEPT ![Host] = t] /\ jobs' = <<job>> /\ Quietly
    <2>1. /\ seen' = [seen EXCEPT ![Host].modReceive = Nothing] /\ jobs' = Validate(<<>>, job) /\ Quietly
      BY <1>1, <1>2, <1>8, Digested DEF ServerModChunk, ServerReading
    <2> HIDE DEF job
    <2> QED
      BY <1>9, <2>1, FirstCheck
  <1>11. /\ t.here = c.here /\ t.modReady = c.modReady /\ t.mapReady = c.mapReady /\ t.modSend = c.modSend
         /\ t.mapSend = c.mapSend /\ t.modReceive = Nothing /\ t.mapReceive = c.mapReceive /\ t.deferred = c.deferred
    BY <1>1 DEF Seen
  <1> HIDE DEF job, t
  <1>12. seen'[Host] = t /\ (\A x \in Players : x # Host => seen'[x] = seen[x]) /\ down' = down /\ room' = room
    BY <1>10, ReadFrom DEF Quietly
  <1>13. /\ OneCheck(<<job>>) /\ ModChecks(<<job>>) = 1 /\ MapChecks(<<job>>) = 0
    BY <1>9, OneChecked
  <1>14. PlayerOwed(Host, w, d, t, m, room)
    BY <1>2, <1>3, <1>11, PassedOwed
  <1>15. HostOwed(w, d, t, m, room, <<job>>)
    <2>1. ModsAsked(w, d, m) = 0 /\ MapAsked(w, d, m) = 0
      <3>1. MapAsked(w, d, m) = MapAsked(u, d, m)
        BY <1>4 DEF MapAsked
      <3> HIDE DEF Num, u, d, m, w
      <3>2. ModsAsked(w, d, m) = 0
        BY <1>4, <1>6 DEF ModsAsked, Bit
      <3> QED
        BY <1>7, <3>1, <3>2
    <2>2. OffersInOrder(w)
      BY <1>3, OrderTail
    <2>3. HostOwed(u, d, c, m, room, jobs)
      BY <1>3
    <2> HIDE DEF w, m, d, u, c, Num
    <2>4. ModsComing(w, d, t, m, room, <<job>>)
      BY <1>4, <1>6, <1>11, <1>13, <2>1 DEF ModsComing, Bit
    <2>5. MapComing(w, d, t, m, room, <<job>>)
      BY <1>4, <1>6, <1>7, <1>11, <1>13, <2>1, <2>3 DEF HostOwed, MapComing
    <2>6. ModsFirst(w, d, m, room, <<job>>)
      BY <1>4, <1>6, <1>7, <1>13, <2>1, <2>2 DEF ModsFirst
    <2> QED
      BY <1>3, <1>13, <2>4, <2>5, <2>6 DEF HostOwed
  <1>16. IInv /\ Owed /\ UNCHANGED <<room, mine>> /\ Lately(d, room, seen)
    BY <1>12, ReadFrom DEF ServerReading
  <1>17. \A x \in Players : x # Host => up'[x] = up[x] /\ down'[x] = down[x] /\ seen'[x] = seen[x]
    BY <1>2, <1>12, ReadFrom
  <1>18. /\ PlayerOwed(Host, up'[Host], down'[Host], seen'[Host], mine[Host], room)
         /\ HostOwed(up'[Host], down'[Host], seen'[Host], mine[Host], room, jobs')
    BY <1>3, <1>10, <1>12, <1>14, <1>15
  <1> QED
    BY <1>1, <1>11, <1>12, <1>16, <1>17, <1>18, ServerOwes

LEMMA MapUploaded ==
  ASSUME NEW p \in Players, ServerReading(p), seen[p].here, Head(up[p]).kind = "MapChunk",
         ServerMapChunk(p, Head(up[p]))
  PROVE  Owed'
  <1> DEFINE u == up[Host]
             d == down[Host]
             c == seen[Host]
             m == mine[Host]
             w == Tail(u)
             t == [c EXCEPT !.mapReceive = Nothing]
             job == Job(Host, FALSE, FALSE, Played, Played)
  <1>1. /\ Taken(p, up[p], down[p], seen[p], mine[p], room) /\ up'[p] = Tail(up[p]) /\ room.host = Host
        /\ room \in Rooms /\ jobs \in Seq(Jobs) /\ Host \in Players /\ c \in Seen
    BY ReadFrom DEF ServerReading, IInv, Typed
  <1>2. p = Host /\ Head(u).digest = Played
    BY <1>1, TakenFrame DEF UpOf
  <1>3. /\ HostOwed(u, d, c, m, room, jobs) /\ Taken(Host, u, d, c, m, room) /\ up'[Host] = w
        /\ u \in Seq(UpOf(Host)) /\ d \in Seq(DownOf(Host)) /\ u # <<>> /\ OffersInOrder(u) /\ HostsRoom(d, m, room)
    BY <1>1, <1>2, ReadFrom, TakenFrame DEF HostOwed, ModsFirst, Taken
  <1>4. /\ Num(u, "MapChunk") = Num(w, "MapChunk") + 1 /\ Num(w, "MapChunk") \in Nat
        /\ Num(u, "MapOffer") = Num(w, "MapOffer") /\ Num(u, "ModOffer") = Num(w, "ModOffer")
        /\ Num(u, "ModChunk") = Num(w, "ModChunk") /\ Num(d, "MapRequest") \in Nat
    BY <1>1, <1>2, <1>3, TakenFrame
  <1>5. MapAsked(u, d, m) > 0
    BY <1>4 DEF MapAsked, Bit
  <1>6. /\ m.at # "joining" /\ Num(u, "MapOffer") = 0 /\ MapChecks(jobs) = 0 /\ MapAsked(u, d, m) = 1
        /\ room.map = Nothing /\ c.deferred = Nothing
    BY <1>3, <1>5, MapStage
  <1>7. /\ ModChecks(jobs) = 0 /\ ModsAsked(u, d, m) = 0 /\ room.mods # Nothing /\ Num(u, "ModOffer") = 0
    <2>1. room.mods # Nothing
      BY <1>3, <1>5 DEF HostOwed, ModsFirst
    <2> QED
      BY <1>3, <2>1, ModsStage
  <1>8. jobs = <<>> /\ c.modReceive = Nothing /\ c.mapReceive = Played
    BY <1>1, <1>3, <1>6, <1>7, NothingChecked DEF HostOwed, ModsComing, MapComing
  <1>9. /\ job \in Jobs /\ job.client = Host /\ ~job.mods /\ job.current /\ job.digest = Played
        /\ job.bytes = Played /\ ~job.done
    BY <1>1, Digested DEF Job, Jobs
  <1>10. /\ seen' = [seen EXCEPT ![Host] = t] /\ jobs' = <<job>> /\ Quietly
    <2>1. /\ seen' = [seen EXCEPT ![Host].mapReceive = Nothing] /\ jobs' = Validate(<<>>, job) /\ Quietly
      BY <1>1, <1>2, <1>6, <1>8, Digested DEF ServerMapChunk, ServerReading
    <2> HIDE DEF job
    <2> QED
      BY <1>9, <2>1, FirstCheck
  <1>11. /\ t.here = c.here /\ t.modReady = c.modReady /\ t.mapReady = c.mapReady /\ t.modSend = c.modSend
         /\ t.mapSend = c.mapSend /\ t.modReceive = c.modReceive /\ t.mapReceive = Nothing /\ t.deferred = c.deferred
    BY <1>1 DEF Seen
  <1> HIDE DEF job, t
  <1>12. seen'[Host] = t /\ (\A x \in Players : x # Host => seen'[x] = seen[x]) /\ down' = down /\ room' = room
    BY <1>10, ReadFrom DEF Quietly
  <1>13. /\ OneCheck(<<job>>) /\ ModChecks(<<job>>) = 0 /\ MapChecks(<<job>>) = 1
    BY <1>9, OneChecked
  <1>14. PlayerOwed(Host, w, d, t, m, room)
    BY <1>2, <1>3, <1>11, PassedOwed
  <1>15. HostOwed(w, d, t, m, room, <<job>>)
    <2>1. ModsAsked(w, d, m) = 0 /\ MapAsked(w, d, m) = 0
      <3>1. ModsAsked(w, d, m) = ModsAsked(u, d, m)
        BY <1>4 DEF ModsAsked
      <3> HIDE DEF Num, u, d, m, w
      <3>2. MapAsked(w, d, m) = 0
        BY <1>4, <1>6 DEF MapAsked, Bit
      <3> QED
        BY <1>7, <3>1, <3>2
    <2>2. OffersInOrder(w)
      BY <1>3, OrderTail
    <2> HIDE DEF w, m, d, u, c, Num
    <2>4. ModsComing(w, d, t, m, room, <<job>>)
      BY <1>4, <1>6, <1>7, <1>8, <1>11, <1>13, <2>1 DEF ModsComing, Bit
    <2>5. MapComing(w, d, t, m, room, <<job>>)
      BY <1>4, <1>6, <1>11, <1>13, <2>1 DEF MapComing, Bit
    <2>6. ModsFirst(w, d, m, room, <<job>>)
      BY <1>4, <1>7, <2>2 DEF ModsFirst
    <2> QED
      BY <1>3, <1>13, <2>4, <2>5, <2>6 DEF HostOwed
  <1>16. IInv /\ Owed /\ UNCHANGED <<room, mine>> /\ Lately(d, room, seen)
    BY <1>12, ReadFrom DEF ServerReading
  <1>17. \A x \in Players : x # Host => up'[x] = up[x] /\ down'[x] = down[x] /\ seen'[x] = seen[x]
    BY <1>2, <1>12, ReadFrom
  <1>18. /\ PlayerOwed(Host, up'[Host], down'[Host], seen'[Host], mine[Host], room)
         /\ HostOwed(up'[Host], down'[Host], seen'[Host], mine[Host], room, jobs')
    BY <1>3, <1>10, <1>12, <1>14, <1>15
  <1> QED
    BY <1>1, <1>11, <1>12, <1>16, <1>17, <1>18, ServerOwes

LEMMA MapOffered ==
  ASSUME NEW p \in Players, ServerReading(p), seen[p].here, Head(up[p]).kind = "MapOffer",
         ServerMapOffer(p, Head(up[p]))
  PROVE  Owed'
  <1> DEFINE u == up[Host]
             d == down[Host]
             c == seen[Host]
             m == mine[Host]
             w == Tail(u)
             t == [c EXCEPT !.deferred = Played]
             job == Job(Host, FALSE, TRUE, Played, Nothing)
  <1>1. /\ Taken(p, up[p], down[p], seen[p], mine[p], room) /\ up'[p] = Tail(up[p]) /\ room.host = Host
        /\ room \in Rooms /\ jobs \in Seq(Jobs) /\ Host \in Players /\ c \in Seen
    BY ReadFrom DEF ServerReading, IInv, Typed
  <1>2. p = Host /\ Head(u).digest = Played
    BY <1>1, TakenFrame DEF UpOf
  <1>3. /\ HostOwed(u, d, c, m, room, jobs) /\ Taken(Host, u, d, c, m, room) /\ up'[Host] = w
        /\ u \in Seq(UpOf(Host)) /\ d \in Seq(DownOf(Host)) /\ u # <<>> /\ OffersInOrder(u) /\ HostsRoom(d, m, room)
        /\ OneCheck(jobs)
    BY <1>1, <1>2, ReadFrom, TakenFrame DEF HostOwed, ModsFirst, Taken
  <1>4. /\ Num(u, "MapOffer") = Num(w, "MapOffer") + 1 /\ Num(w, "MapOffer") \in Nat
        /\ Num(u, "ModOffer") = Num(w, "ModOffer")
        /\ Num(u, "ModChunk") = Num(w, "ModChunk") /\ Num(u, "MapChunk") = Num(w, "MapChunk")
    BY <1>1, <1>2, <1>3, TakenFrame
  <1>5. Num(u, "MapOffer") > 0
    BY <1>4
  <1>6. /\ m.at # "joining" /\ Num(u, "MapOffer") = 1 /\ c.deferred = Nothing /\ MapChecks(jobs) = 0
        /\ MapAsked(u, d, m) = 0 /\ room.map = Nothing
    BY <1>3, <1>5, MapStage
  <1>7. OffersInOrder(w) /\ Num(u, "ModOffer") = 0 /\ Num(w, "ModOffer") = 0
    BY <1>2, <1>3, <1>4, OrderTail
  <1>8. c.mapReceive = Nothing
    BY <1>3, <1>6 DEF HostOwed, MapComing
  <1>9. ModsAsked(w, d, m) = ModsAsked(u, d, m) /\ MapAsked(w, d, m) = 0
    BY <1>4, <1>6 DEF ModsAsked, MapAsked
  <1>10. TakesMapOffer(room, seen, p) /\ Quietly
    BY <1>1, <1>2, <1>6, <1>8 DEF TakesMapOffer, ServerReading, ServerMapOffer
  <1>11. down' = down /\ room' = room
    BY <1>10 DEF Quietly
  <1>12. IInv /\ Owed /\ UNCHANGED <<room, mine>> /\ Lately(d, room, seen)
    BY <1>11, ReadFrom DEF ServerReading
  <1>13. CASE Validating(p) \/ seen[p].modReceive # Nothing
    <2>1. seen' = [seen EXCEPT ![Host] = t] /\ jobs' = jobs
      <3>1. seen' = [seen EXCEPT ![Host].deferred = Played] /\ jobs' = jobs
        BY <1>2, <1>10, <1>13 DEF ServerMapOffer
      <3> QED
        BY <3>1
    <2>2. /\ t.here = c.here /\ t.modReady = c.modReady /\ t.mapReady = c.mapReady /\ t.modSend = c.modSend
          /\ t.mapSend = c.mapSend /\ t.modReceive = c.modReceive /\ t.mapReceive = c.mapReceive /\ t.deferred = Played
      BY <1>1 DEF Seen
    <2> HIDE DEF t
    <2>3. seen'[Host] = t /\ (\A x \in Players : x # Host => seen'[x] = seen[x])
      BY <2>1, ReadFrom
    <2>4. PlayerOwed(Host, w, d, t, m, room)
      BY <1>2, <1>3, <2>2, PassedOwed
    <2>5. HostOwed(w, d, t, m, room, jobs)
      <3>1. ModChecks(jobs) > 0 \/ c.modReceive # Nothing
        <4>1. Validating(p) => ModChecks(jobs) > 0
          BY <1>6, ChecksValue DEF Validating
        <4> QED
          BY <1>2, <1>13, <4>1
      <3>2. HostOwed(u, d, c, m, room, jobs)
        BY <1>3
      <3>3. Num(w, "MapOffer") = 0
        BY <1>4, <1>6
      <3> HIDE DEF w, m, d, u, c, Num
      <3>4. ModsComing(w, d, t, m, room, jobs)
        BY <1>4, <1>9, <2>2, <3>2 DEF HostOwed, ModsComing
      <3>5. MapComing(w, d, t, m, room, jobs)
        BY <1>6, <1>8, <1>9, <2>2, <3>1, <3>3, Digested DEF MapComing, Bit
      <3>6. ModsFirst(w, d, m, room, jobs)
        BY <1>6, <1>7, <1>9 DEF ModsFirst
      <3> QED
        BY <1>3, <3>4, <3>5, <3>6 DEF HostOwed
    <2>6. \A x \in Players : x # Host => up'[x] = up[x] /\ down'[x] = down[x] /\ seen'[x] = seen[x]
      BY <1>2, <1>11, <2>3, ReadFrom
    <2>7. /\ PlayerOwed(Host, up'[Host], down'[Host], seen'[Host], mine[Host], room)
          /\ HostOwed(up'[Host], down'[Host], seen'[Host], mine[Host], room, jobs')
      BY <1>3, <1>11, <2>1, <2>3, <2>4, <2>5
    <2> QED
      BY <1>1, <1>11, <1>12, <2>2, <2>3, <2>6, <2>7, ServerOwes
  <1>14. CASE ~(Validating(p) \/ seen[p].modReceive # Nothing)
    <2>1. jobs = <<>>
      <3>1. ModChecks(jobs) = 0
        BY <1>2, <1>3, <1>14 DEF Validating, OneCheck, ModChecks, Bit
      <3> QED
        BY <1>1, <1>6, <3>1, NothingChecked
    <2>2. /\ job \in Jobs /\ job.client = Host /\ ~job.mods /\ job.current /\ job.cache /\ job.digest = Played
      BY <1>1, Digested, PieceTypes DEF Job, Jobs
    <2>3. seen' = seen /\ jobs' = <<job>>
      <3>1. seen' = seen /\ jobs' = Validate(<<>>, job)
        BY <1>2, <1>10, <1>14, <2>1 DEF ServerMapOffer
      <3> HIDE DEF job
      <3> QED
        BY <2>2, <3>1, FirstCheck
    <2> HIDE DEF job
    <2>4. /\ OneCheck(<<job>>) /\ ModChecks(<<job>>) = 0 /\ MapChecks(<<job>>) = 1
      BY <2>2, OneChecked
    <2>5. PlayerOwed(Host, w, d, c, m, room)
      BY <1>2, <1>3, PassedOwed
    <2>6. HostOwed(w, d, c, m, room, <<job>>)
      <3>1. c.modReceive = Nothing /\ ModsAsked(u, d, m) \in Nat /\ ModChecks(jobs) = 0
        <4>1. ModChecks(jobs) = 0
          BY <2>1 DEF ModChecks, Bit
        <4> QED
          BY <1>2, <1>3, <1>14, <4>1, ModsStage
      <3>2. ModsAsked(u, d, m) = 0
        BY <1>3, <3>1, Digested DEF HostOwed, ModsComing
      <3>3. room.mods # Nothing
        BY <1>3, <1>6, <1>7, <3>1, <3>2, ModsStage
      <3>4. Num(w, "MapOffer") = 0
        BY <1>4, <1>6
      <3> HIDE DEF w, m, d, u, c, Num
      <3>5. ModsComing(w, d, c, m, room, <<job>>)
        BY <1>6, <1>7, <1>9, <2>4, <3>1, <3>2, <3>3 DEF ModsComing, Bit
      <3>6. MapComing(w, d, c, m, room, <<job>>)
        BY <1>6, <1>8, <1>9, <2>4, <3>4 DEF MapComing, Bit
      <3>7. ModsFirst(w, d, m, room, <<job>>)
        BY <1>7, <3>3 DEF ModsFirst
      <3> QED
        BY <1>3, <2>4, <3>5, <3>6, <3>7 DEF HostOwed
    <2>7. \A x \in Players : x # Host => up'[x] = up[x] /\ down'[x] = down[x] /\ seen'[x] = seen[x]
      BY <1>2, <1>11, <2>3, ReadFrom
    <2>8. /\ PlayerOwed(Host, up'[Host], down'[Host], seen'[Host], mine[Host], room)
          /\ HostOwed(up'[Host], down'[Host], seen'[Host], mine[Host], room, jobs')
      BY <1>3, <1>11, <2>3, <2>5, <2>6
    <2> QED
      BY <1>1, <1>11, <1>12, <2>3, <2>7, <2>8, ServerOwes
  <1> QED
    BY <1>13, <1>14

LEMMA ServerReadsOwed ==
  ASSUME IInv, Owed, Undisturbed, Undisturbed', NEW p \in Players, ServerReads(p)
  PROVE  Owed'
  <1> DEFINE f == Head(up[p])
  <1>1. ServerReading(p) /\ ~room'.running
    BY DEF ServerReads, ServerReading, Undisturbed
  <1>2. CASE ~seen[p].here /\ f.kind # "Join" /\ Quietly /\ UNCHANGED <<seen, jobs>>
    BY <1>1, <1>2, OutsideReads
  <1>3. CASE f.kind = "Join" /\ ServerJoin(p, f)
    BY <1>1, <1>3, JoinerRead
  <1>4. CASE seen[p].here /\ f.kind \notin {"Join", "ModError", "MapError"}
    <2>1. \/ f.kind = "ModOffer" /\ ServerModOffer(p, f)
          \/ f.kind = "ModChunk" /\ ServerModChunk(p, f)
          \/ f.kind = "ModRequest" /\ ServerModRequest(p, f)
          \/ f.kind = "ModReady" /\ ServerModReady(p, f)
          \/ f.kind = "MapOffer" /\ ServerMapOffer(p, f)
          \/ f.kind = "MapChunk" /\ ServerMapChunk(p, f)
          \/ f.kind = "MapRequest" /\ ServerMapRequest(p, f)
          \/ f.kind = "MapReady" /\ ServerMapReady(p, f)
          \/ f.kind = "Leave" /\ ServerLeave(p, f)
          \/ f.kind = "Start" /\ ServerStart(p, f)
      BY <1>4 DEF ServerReads
    <2> HIDE DEF f
    <2> QED
      BY <1>1, <1>4, <2>1, ModsOffered, ModsUploaded, ModRequestOfPlayer, ModReadyOfPlayer,
         MapOffered, MapUploaded, MapRequestOfPlayer, MapReadyOfPlayer, LeaverRead, StarterRead DEF f
  <1>5. seen[p].here => f.kind \notin {"Join", "ModError", "MapError"}
    BY <1>1, ReadFrom, TakenFrame
  <1> QED
    BY <1>2, <1>3, <1>4, <1>5 DEF ServerReads

-----------------------------------------------------------------------------
(* Validations.                                                             *)

LEMMA HostAlone ==
  ASSUME IInv, Owed, ~room.running
  PROVE  /\ Host \in Players /\ room.host = Host /\ seen[Host].here
         /\ room \in Rooms /\ room.mods \in {Nothing, Chosen} /\ room.map \in {Nothing, Played}
         /\ seen \in [Players -> Seen] /\ mine \in [Players -> Mine] /\ jobs \in Seq(Jobs)
         /\ \A x \in Players : PlayerOwed(x, up[x], down[x], seen[x], mine[x], room) /\ down[x] \in Seq(DownOf(x))
         /\ \A x \in Players : x # Host => seen[x].deferred = Nothing
         /\ up[Host] \in Seq(UpOf(Host)) /\ down[Host] \in Seq(DownOf(Host))
         /\ HostOwed(up[Host], down[Host], seen[Host], mine[Host], room, jobs)
         /\ HostsRoom(down[Host], mine[Host], room) /\ OffersInOrder(up[Host])
         /\ Lately(down[Host], room, seen)
         /\ \A x \in Players : seen[x].here => seen[x].modOffered = room.mods
                                                /\ (seen[x].mapOffered <=> room.map # Nothing)
  <1>1. /\ Host \in Players /\ seen \in [Players -> Seen] /\ room \in Rooms /\ mine \in [Players -> Mine]
        /\ jobs \in Seq(Jobs)
    BY Digested DEF IInv, Typed
  <1>2. \A x \in Players : PlayerOwed(x, up[x], down[x], seen[x], mine[x], room)
    BY DEF Owed
  <1>3. /\ HostOwed(up[Host], down[Host], seen[Host], mine[Host], room, jobs)
        /\ HostsRoom(down[Host], mine[Host], room) /\ OffersInOrder(up[Host])
        /\ Lately(down[Host], room, seen)
    BY DEF Owed, HostOwedNow, IsTold, HostOwed, ModsFirst
  <1>4. room.host = Host /\ seen[Host].here
    BY <1>1, Whereabouts
  <1>5. room.mods \in {Nothing, Chosen} /\ room.map \in {Nothing, Played}
    BY <1>3 DEF HostsRoom
  <1>6. \A x \in Players : seen[x].here => seen[x].modOffered = room.mods
                                             /\ (seen[x].mapOffered <=> room.map # Nothing)
    BY DEF IInv, ServerInStep, Offering
  <1>7. \A x \in Players : /\ up[x] \in Seq(UpOf(x)) /\ down[x] \in Seq(DownOf(x))
                           /\ x # Host => seen[x].deferred = Nothing
    BY <1>2 DEF PlayerOwed, Rests
  <1> QED
    BY <1>1, <1>2, <1>3, <1>4, <1>5, <1>6, <1>7

LEMMA SameChecks ==
  ASSUME NEW u, NEW d, NEW s, NEW m, NEW r, NEW q, HostOwed(u, d, s, m, r, q),
         NEW z, OneCheck(z), ModChecks(z) = ModChecks(q), MapChecks(z) = MapChecks(q)
  PROVE  HostOwed(u, d, s, m, r, z)
  BY DEF HostOwed, ModsComing, MapComing, ModsFirst

LEMMA RunJobOwed ==
  ASSUME IInv, Owed, ~room.running, RunJob
  PROVE  Owed'
  <1>1. PICK i, stopped :
          /\ i \in DOMAIN jobs /\ stopped \in BOOLEAN
          /\ stopped => ~jobs[i].current
          /\ LET found == /\ ~stopped
                          /\ IF jobs[i].cache THEN jobs[i].digest \in stored ELSE jobs[i].bytes = jobs[i].digest
             IN  jobs' = [jobs EXCEPT ![i].done = TRUE, ![i].found = found]
    BY DEF RunJob
  <1> DEFINE job == jobs[i]
             found == ~stopped /\ IF job.cache THEN job.digest \in stored ELSE job.bytes = job.digest
             new == [job EXCEPT !.done = TRUE, !.found = found]
  <1>2. /\ jobs \in Seq(Jobs) /\ HostOwed(up[Host], down[Host], seen[Host], mine[Host], room, jobs) /\ OneCheck(jobs)
    BY HostAlone DEF HostOwed
  <1>3. job \in Jobs
    BY <1>1, <1>2, JobElements
  <1>4. /\ new.client = job.client /\ new.mods = job.mods /\ new.cache = job.cache /\ new.digest = job.digest
        /\ new.bytes = job.bytes /\ new.current = job.current /\ (~job.cache => new.found)
    <2>1. ~stopped /\ (~job.cache => job.bytes = job.digest)
      BY <1>1, <1>2 DEF OneCheck
    <2>2. ~job.cache => found
      BY <2>1
    <2>3. new.found = found
      BY <1>3 DEF Jobs
    <2> HIDE DEF found
    <2> QED
      BY <1>3, <2>2, <2>3 DEF Jobs
  <1>5. jobs' = [jobs EXCEPT ![i] = new]
    BY <1>1
  <1> HIDE DEF new
  <1>6. /\ DOMAIN jobs' = DOMAIN jobs /\ Len(jobs') = Len(jobs) /\ jobs'[i] = new
        /\ \A k \in DOMAIN jobs : k # i => jobs'[k] = jobs[k]
    BY <1>1, <1>2, <1>5
  <1>7. OneCheck(jobs')
    BY <1>2, <1>4, <1>6 DEF OneCheck
  <1>8. \A k \in DOMAIN jobs : jobs'[k].mods = jobs[k].mods
    BY <1>4, <1>6
  <1>9. ModChecks(jobs') = ModChecks(jobs) /\ MapChecks(jobs') = MapChecks(jobs)
    BY <1>6, <1>8 DEF ModChecks, MapChecks
  <1>10. HostOwed(up[Host], down[Host], seen[Host], mine[Host], room, jobs')
    BY <1>2, <1>7, <1>9, SameChecks
  <1>11. UNCHANGED <<room, seen, mine, up, down>>
    BY DEF RunJob
  <1> QED
    BY <1>10, <1>11 DEF Owed, HostOwedNow

LEMMA TakeDeferredNever ==
  ASSUME IInv, Owed, ~room.running
  PROVE  ~TakeDeferredOffer
  <1> SUFFICES ASSUME NEW p \in Ripe(seen, jobs) PROVE FALSE
    BY DEF TakeDeferredOffer
  <1>1. /\ p \in Players /\ seen[p].deferred # Nothing /\ seen[p].modReceive = Nothing
        /\ ~\E i \in DOMAIN jobs : jobs[i].client = p /\ jobs[i].current
    BY DEF Ripe
  <1>2. p = Host
    BY <1>1, HostAlone
  <1>3. OneCheck(jobs) /\ ModChecks(jobs) > 0
    BY <1>1, <1>2, HostAlone DEF HostOwed, MapComing
  <1>4. PICK i \in DOMAIN jobs : jobs[i].mods
    BY <1>3, ChecksValue
  <1> QED
    BY <1>1, <1>2, <1>3, <1>4 DEF OneCheck

-----------------------------------------------------------------------------
(* Packages on their way from the server.                                   *)

LEMMA ServerSendsOwed ==
  ASSUME IInv, Owed, ~room.running, NEW p \in Players, ServerSendsMods(p) \/ ServerSendsMap(p)
  PROVE  Owed'
  <1> DEFINE u == up[p]
             d == down[p]
             c == seen[p]
             m == mine[p]
  <1>1. /\ c \in Seen /\ d \in Seq(DownOf(p)) /\ u \in Seq(UpOf(p)) /\ PlayerOwed(p, u, d, c, m, room)
        /\ c.modSend \in {Nothing, room.mods} /\ c.mapSend \in {Nothing, room.map}
        /\ down \in [Players -> Seq(DownFrames)]
    BY HostAlone DEF IInv, ServerInStep, Offering, PlayerOwed, Typed
  <1>2. c.here
    <2>1. Away.modSend = Nothing /\ Away.mapSend = Nothing
      BY DEF Away
    <2> QED
      BY <2>1 DEF IInv, ServerInStep, Membership, ServerSendsMods, ServerSendsMap
  <1>3. /\ \A k \in {"Join", "ModRequest", "ModReady", "MapRequest", "MapReady"} : Num(u, k) \in Nat
        /\ \A k \in Packaged : Num(d, k) \in Nat
    BY <1>1, NumNat
  <1> DEFINE Gone(kind, v, t) == /\ seen' = [seen EXCEPT ![p] = t]
                                 /\ down' = [down EXCEPT ![p] = Append(@, Frame(kind, v))]
  <1>4. PICK kind, v, t :
          /\ kind \in {"ModChunk", "MapChunk"} /\ Gone(kind, v, t)
          /\ kind = "ModChunk" => c.modSend = Chosen /\ v = Chosen /\ t = [c EXCEPT !.modSend = Nothing]
          /\ kind = "MapChunk" => c.mapSend = Played /\ v = Played /\ t = [c EXCEPT !.mapSend = Nothing]
    <2>1. CASE ServerSendsMods(p)
      <3> DEFINE t == [c EXCEPT !.modSend = Nothing]
      <3>1. c.modSend = Chosen
        BY <1>1, <2>1, HostAlone DEF ServerSendsMods
      <3>2. Gone("ModChunk", Chosen, t)
        BY <2>1, <3>1 DEF ServerSendsMods
      <3>3. t = [c EXCEPT !.modSend = Nothing]
        OBVIOUS
      <3> HIDE DEF t, Gone, c
      <3> WITNESS "ModChunk", Chosen, t
      <3> QED
        BY <3>1, <3>2, <3>3
    <2>2. CASE ServerSendsMap(p)
      <3> DEFINE t == [c EXCEPT !.mapSend = Nothing]
      <3>1. c.mapSend = Played
        BY <1>1, <2>2, HostAlone DEF ServerSendsMap
      <3>2. Gone("MapChunk", Played, t)
        BY <2>2, <3>1 DEF ServerSendsMap
      <3>3. t = [c EXCEPT !.mapSend = Nothing]
        OBVIOUS
      <3> HIDE DEF t, Gone, c
      <3> WITNESS "MapChunk", Played, t
      <3> QED
        BY <3>1, <3>2, <3>3
    <2> QED
      BY <2>1, <2>2
  <1> DEFINE f == Frame(kind, v)
  <1>5. UNCHANGED <<room, mine, jobs, up>>
    BY DEF ServerSendsMods, ServerSendsMap
  <1>6. /\ t.here = c.here /\ t.modReady = c.modReady /\ t.modReceive = c.modReceive
        /\ t.mapReady = c.mapReady /\ t.mapReceive = c.mapReceive /\ t.deferred = c.deferred
        /\ t.modSend = IF kind = "ModChunk" THEN Nothing ELSE c.modSend
        /\ t.mapSend = IF kind = "MapChunk" THEN Nothing ELSE c.mapSend
    BY <1>1, <1>4 DEF Seen
  <1>7. f \in DownOf(p) /\ f.kind = kind
    BY <1>4, FrameTypes, Digested DEF DownOf, Downward
  <1> DEFINE w == d \o <<f>>
  <1>8. /\ seen'[p] = t /\ down'[p] = w
        /\ \A x \in Players : x # p => seen'[x] = seen[x] /\ down'[x] = down[x]
    <2>1. Append(d, f) = w
      BY <1>1, <1>7, AppendIsConcat
    <2> QED
      BY <1>1, <1>4, <2>1, HostAlone
  <1>9. /\ w \in Seq(DownOf(p)) /\ \A k \in Packaged : Num(w, k) = IF k = kind THEN Num(d, k) + 1 ELSE Num(d, k)
        /\ \A k : k # kind => Num(w, k) = Num(d, k)
    BY <1>1, <1>7, SendOne
  <1> HIDE DEF w, u, d, c, m
  <1>10. PlayerOwed(p, u, w, t, m, room)
    <2>1. ComesAndGoes(u, t, m) /\ Rests(p, t, m)
      BY <1>1, <1>6 DEF PlayerOwed, ComesAndGoes, Rests
    <2>2. ModsSent(u, w, t) = ModsSent(u, d, c) /\ HasMods(u, t) = HasMods(u, c)
          /\ Num(w, "ModOffer") = Num(d, "ModOffer")
      <3>1. /\ Num(w, "ModChunk") = (IF kind = "ModChunk" THEN Num(d, "ModChunk") + 1 ELSE Num(d, "ModChunk"))
            /\ Num(d, "ModChunk") \in Nat /\ Num(u, "ModRequest") \in Nat /\ Num(w, "ModOffer") = Num(d, "ModOffer")
        BY <1>3, <1>4, <1>9 DEF Packaged
      <3> HIDE DEF Num
      <3> QED
        BY <1>4, <1>6, <3>1, Digested DEF ModsSent, HasMods, Bit
    <2>3. MapSent(u, w, t) = MapSent(u, d, c) /\ HasMap(u, t) = HasMap(u, c)
          /\ Num(w, "MapOffer") = Num(d, "MapOffer")
      <3>1. /\ Num(w, "MapChunk") = (IF kind = "MapChunk" THEN Num(d, "MapChunk") + 1 ELSE Num(d, "MapChunk"))
            /\ Num(d, "MapChunk") \in Nat /\ Num(u, "MapRequest") \in Nat /\ Num(w, "MapOffer") = Num(d, "MapOffer")
        BY <1>3, <1>4, <1>9 DEF Packaged
      <3> HIDE DEF Num
      <3> QED
        BY <1>4, <1>6, <3>1, Digested DEF MapSent, HasMap, Bit
    <2>4. GetsMods(u, d, c, m, room) => GetsMods(u, w, t, m, room)
      BY <1>6, <2>2 DEF GetsMods
    <2>5. GetsMap(u, d, c, m, room) => GetsMap(u, w, t, m, room)
      BY <2>3 DEF GetsMap
    <2> QED
      BY <1>1, <1>6, <1>9, <2>1, <2>4, <2>5 DEF PlayerOwed
  <1>11. /\ HostOwed(up[Host], down'[Host], seen'[Host], mine[Host], room, jobs)
         /\ Num(down'[Host], "LobbyState") = Num(down[Host], "LobbyState") /\ Lately(down'[Host], room, seen)
    <2>1. CASE p # Host
      BY <1>8, <2>1, HostAlone
    <2>2. CASE p = Host
      <3>0. Lately(d, room, seen) /\ f \in DownFrames /\ d \in Seq(DownFrames) /\ f.kind # "LobbyState"
        BY <1>1, <1>4, <1>7, <2>2, HostAlone DEF d, DownOf
      <3>1. Lately(w, room, seen) /\ Num(w, "LobbyState") = Num(d, "LobbyState")
        BY <3>0, LatelySent DEF w
      <3>2. \A k \in {"ModRequest", "MapRequest"} : Num(w, k) = Num(d, k)
        BY <1>4, <1>9
      <3>3. m.at = "joining" => Num(w, "LobbyState") > 0
        BY <2>2, <3>1, HostAlone DEF HostsRoom, d, m
      <3>4. HostOwed(u, d, c, m, room, jobs) /\ OffersInOrder(u)
        BY <2>2, HostAlone DEF u, d, c, m
      <3>5. HostOwed(u, w, t, m, room, jobs)
        BY <1>6, <3>2, <3>3, <3>4, HostUnmoved
      <3> QED
        BY <1>8, <2>2, <3>1, <3>5 DEF u, d, m
    <2> QED
      BY <2>1, <2>2
  <1>12. \A x \in Players : x # p => up'[x] = up[x] /\ down'[x] = down[x] /\ seen'[x] = seen[x]
    BY <1>5, <1>8
  <1>13. /\ PlayerOwed(p, up'[p], down'[p], seen'[p], mine[p], room)
         /\ HostOwed(up'[Host], down'[Host], seen'[Host], mine[Host], room, jobs')
         /\ seen'[p].here = seen[p].here /\ seen'[p].modReady = seen[p].modReady
         /\ seen'[p].mapReady = seen[p].mapReady
    BY <1>5, <1>6, <1>8, <1>10, <1>11 DEF u, c, m
  <1> QED
    BY <1>5, <1>11, <1>12, <1>13, ServerOwes

-----------------------------------------------------------------------------
(* What a validation that is over leads to.                                 *)

LEMMA NoneChecked == /\ OneCheck(<<>>) /\ ModChecks(<<>>) = 0 /\ MapChecks(<<>>) = 0 /\ <<>> \in Seq(Jobs)
  BY DEF OneCheck, ModChecks, MapChecks, Bit

\* The only validation is over, of what the host has sent.
LEMMA CheckOver ==
  ASSUME IInv, Owed, ~room.running, jobs # <<>>
  PROVE  /\ Head(jobs) \in Jobs /\ Head(jobs).client = Host /\ Tail(jobs) = <<>> /\ Valid(Head(jobs))
         /\ Head(jobs).digest = (IF Head(jobs).mods THEN Chosen ELSE Played)
         /\ Head(jobs).done /\ ~Head(jobs).cache => Head(jobs).found
         /\ Head(jobs).mods => ModChecks(jobs) = 1 /\ MapChecks(jobs) = 0
         /\ ~Head(jobs).mods => ModChecks(jobs) = 0 /\ MapChecks(jobs) = 1
  <1>1. jobs \in Seq(Jobs) /\ OneCheck(jobs) /\ room.host = Host
    BY HostAlone DEF HostOwed
  <1>2. Len(jobs) = 1
    <2>1. Len(jobs) \in Nat /\ Len(jobs) # 0
      BY <1>1, EmptySeq, LenProperties
    <2> QED
      BY <1>1, <2>1 DEF OneCheck
  <1>3. /\ Head(jobs) = jobs[1] /\ DOMAIN jobs = {1} /\ Head(jobs) \in Jobs
        /\ Tail(jobs) \in Seq(Jobs) /\ Len(Tail(jobs)) = 0
    BY <1>1, <1>2
  <1>4. Tail(jobs) = <<>>
    BY <1>3, EmptySeq
  <1>5. /\ Head(jobs).mods => ModChecks(jobs) = 1 /\ MapChecks(jobs) = 0
        /\ ~Head(jobs).mods => ModChecks(jobs) = 0 /\ MapChecks(jobs) = 1
    BY <1>3 DEF ModChecks, MapChecks, Bit
  <1> QED
    BY <1>1, <1>3, <1>4, <1>5 DEF OneCheck, Valid

LEMMA NoneRipe ==
  ASSUME NEW s \in [Players -> Seen], NEW q, NEW r,
         \A x \in Players : s[x].deferred # Nothing => s[x].modReceive # Nothing
  PROVE  DropRipe(s, q) = s /\ TakeDeferred(r, s, q) = q
  <1>1. Ripe(s, q) = {}
    BY DEF Ripe
  <1> QED
    BY <1>1 DEF DropRipe, TakeDeferred

LEMMA HostRipe ==
  ASSUME NEW s \in [Players -> Seen], NEW r, s[Host].deferred = Played, s[Host].modReceive = Nothing,
         \A x \in Players : x # Host => s[x].deferred = Nothing, TakesMapOffer(r, s, Host)
  PROVE  /\ DropRipe(s, <<>>) = [s EXCEPT ![Host] = [s[Host] EXCEPT !.deferred = Nothing]]
         /\ TakeDeferred(r, s, <<>>) = <<Job(Host, FALSE, TRUE, Played, Nothing)>>
  <1> DEFINE job == Job(Host, FALSE, TRUE, Played, Nothing)
  <1>1. Host \in Players /\ Played \in Values /\ Played # Nothing /\ Nothing \in Values
    BY Digested, PieceTypes
  <1>2. Ripe(s, <<>>) = {Host}
    BY <1>1 DEF Ripe
  <1>3. DropRipe(s, <<>>) = [s EXCEPT ![Host] = [s[Host] EXCEPT !.deferred = Nothing]]
    BY <1>1, <1>2 DEF DropRipe
  <1>4. job \in Jobs
    BY <1>1 DEF Job, Jobs
  <1>5. TakeDeferred(r, s, <<>>) = Validate(<<>>, job)
    <2>1. Ripe(s, <<>>) # {} /\ (CHOOSE p \in Ripe(s, <<>>) : TRUE) = Host
      BY <1>2
    <2> HIDE DEF TakesMapOffer, Job
    <2> QED
      BY <2>1 DEF TakeDeferred
  <1> HIDE DEF job
  <1> QED
    BY <1>3, <1>4, <1>5, FirstCheck DEF job

(* The mods are checked: the room has them, and the map's turn comes.       *)

LEMMA ModsChecked ==
  ASSUME NEW u \in Seq(UpOf(Host)), NEW d \in Seq(DownOf(Host)), NEW c, NEW m, NEW r, NEW q,
         HostOwed(u, d, c, m, r, q), ModChecks(q) = 1, MapChecks(q) = 0,
         NEW z, z.host = r.host, z.mods = Chosen, z.map = r.map,
         NEW t, t.modReceive = c.modReceive, t.mapReceive = c.mapReceive, t.deferred = Nothing,
         NEW k, OneCheck(k), ModChecks(k) = 0, MapChecks(k) = IF c.deferred = Nothing THEN 0 ELSE 1
  PROVE  HostOwed(u, d, t, m, z, k)
  <1>1. /\ m.at # "joining" /\ Num(u, "ModOffer") = 0 /\ ModsAsked(u, d, m) = 0 /\ r.mods = Nothing
    BY ModsStage
  <1>2. Num(u, "MapOffer") \in Nat /\ MapAsked(u, d, m) \in Nat
    BY MapStage
  <1>3. HostsRoom(d, m, r) /\ MapComing(u, d, c, m, r, q) /\ ModsComing(u, d, c, m, r, q) /\ OffersInOrder(u)
    BY DEF HostOwed, ModsFirst
  <1>4. HostsRoom(d, m, z)
    BY <1>3 DEF HostsRoom
  <1> HIDE DEF Num
  <1>5. ModsComing(u, d, t, m, z, k)
    BY <1>1, <1>3, Digested DEF ModsComing, Bit
  <1>6. Num(u, "MapOffer") + Bit(c.deferred # Nothing) + MapAsked(u, d, m) + Bit(r.map # Nothing) = 1
    BY <1>1, <1>2, <1>3 DEF MapComing, Bit
  <1>7. Num(u, "MapOffer") + MapChecks(k) + MapAsked(u, d, m) + Bit(r.map # Nothing) = 1
    BY <1>2, <1>6 DEF Bit
  <1>8. MapComing(u, d, t, m, z, k)
    <2>1. Bit(m.at = "joining") = 0 /\ Bit(t.deferred # Nothing) = 0 /\ Bit(z.map # Nothing) = Bit(r.map # Nothing)
      BY <1>1 DEF Bit
    <2>2. Bit(r.map # Nothing) \in Nat /\ MapChecks(k) \in Nat
      BY DEF Bit
    <2>3. Bit(m.at = "joining") + Num(u, "MapOffer") + Bit(t.deferred # Nothing)
            + MapChecks(k) + MapAsked(u, d, m) + Bit(z.map # Nothing) = 1
      BY <1>2, <1>7, <2>1, <2>2
    <2> QED
      BY <1>3, <2>3 DEF MapComing
  <1>9. ModsFirst(u, d, m, z, k)
    BY <1>1, <1>3, Digested DEF ModsFirst
  <1> QED
    BY <1>4, <1>5, <1>8, <1>9 DEF HostOwed

LEMMA MapChecked ==
  ASSUME NEW u \in Seq(UpOf(Host)), NEW d \in Seq(DownOf(Host)), NEW c, NEW m, NEW r, NEW q,
         HostOwed(u, d, c, m, r, q), ModChecks(q) = 0, MapChecks(q) = 1,
         NEW z, z.host = r.host, z.mods = r.mods, z.map = Played
  PROVE  HostOwed(u, d, c, m, z, <<>>)
  <1>1. /\ m.at # "joining" /\ Num(u, "MapOffer") = 0 /\ MapAsked(u, d, m) = 0 /\ c.deferred = Nothing
    BY MapStage
  <1>2. HostsRoom(d, m, r) /\ MapComing(u, d, c, m, r, q) /\ ModsComing(u, d, c, m, r, q) /\ OffersInOrder(u)
        /\ r.mods # Nothing
    BY DEF HostOwed, ModsFirst
  <1>3. Num(u, "ModOffer") = 0 /\ ModsAsked(u, d, m) = 0
    BY <1>2, ModsStage
  <1>4. HostsRoom(d, m, z)
    BY <1>2 DEF HostsRoom
  <1> HIDE DEF Num
  <1>5. ModsComing(u, d, c, m, z, <<>>)
    BY <1>1, <1>2, <1>3, NoneChecked DEF ModsComing, Bit
  <1>6. MapComing(u, d, c, m, z, <<>>)
    BY <1>1, <1>2, NoneChecked, Digested DEF MapComing, Bit
  <1>7. ModsFirst(u, d, m, z, <<>>)
    BY <1>2, <1>3 DEF ModsFirst
  <1> QED
    BY <1>4, <1>5, <1>6, <1>7, NoneChecked DEF HostOwed

(* The server does not have the package, and asks for it.                   *)

LEMMA ModsWanted ==
  ASSUME NEW u \in Seq(UpOf(Host)), NEW d \in Seq(DownOf(Host)), NEW c, NEW m, NEW r, NEW q,
         HostOwed(u, d, c, m, r, q), ModChecks(q) = 1, MapChecks(q) = 0,
         NEW w, Num(w, "ModRequest") = Num(d, "ModRequest") + 1, Num(w, "MapRequest") = Num(d, "MapRequest"),
         NEW t, t.modReceive = Chosen, t.mapReceive = c.mapReceive, t.deferred = c.deferred
  PROVE  HostOwed(u, w, t, m, r, <<>>)
  <1>1. /\ m.at # "joining" /\ Num(u, "ModOffer") = 0 /\ ModsAsked(u, d, m) = 0 /\ r.mods = Nothing
    BY ModsStage
  <1>2. HostsRoom(d, m, r) /\ MapComing(u, d, c, m, r, q) /\ ModsFirst(u, d, m, r, q)
    BY DEF HostOwed
  <1>3. Num(d, "ModRequest") \in Nat /\ Num(u, "ModChunk") \in Nat
    BY NumNat
  <1>4. HostsRoom(w, m, r)
    BY <1>1, <1>2 DEF HostsRoom
  <1>5. MapAsked(u, w, m) = MapAsked(u, d, m)
    BY DEF MapAsked
  <1> HIDE DEF Num
  <1>6. ModsAsked(u, w, m) = 1
    BY <1>1, <1>3 DEF ModsAsked, Bit
  <1>7. ModsComing(u, w, t, m, r, <<>>)
    BY <1>1, <1>6, NoneChecked DEF ModsComing, Bit
  <1>8. MapComing(u, w, t, m, r, <<>>)
    BY <1>2, <1>5, NoneChecked, Digested DEF MapComing
  <1>9. ModsFirst(u, w, m, r, <<>>)
    BY <1>2, <1>5, NoneChecked DEF ModsFirst
  <1> QED
    BY <1>4, <1>7, <1>8, <1>9, NoneChecked DEF HostOwed

LEMMA MapWanted ==
  ASSUME NEW u \in Seq(UpOf(Host)), NEW d \in Seq(DownOf(Host)), NEW c, NEW m, NEW r, NEW q,
         HostOwed(u, d, c, m, r, q), ModChecks(q) = 0, MapChecks(q) = 1,
         NEW w, Num(w, "MapRequest") = Num(d, "MapRequest") + 1, Num(w, "ModRequest") = Num(d, "ModRequest"),
         NEW t, t.modReceive = c.modReceive, t.mapReceive = Played, t.deferred = c.deferred
  PROVE  HostOwed(u, w, t, m, r, <<>>)
  <1>1. /\ m.at # "joining" /\ Num(u, "MapOffer") = 0 /\ MapAsked(u, d, m) = 0 /\ r.map = Nothing
        /\ c.deferred = Nothing
    BY MapStage
  <1>2. HostsRoom(d, m, r) /\ ModsComing(u, d, c, m, r, q) /\ ModsFirst(u, d, m, r, q) /\ r.mods # Nothing
    BY DEF HostOwed, ModsFirst
  <1>3. Num(d, "MapRequest") \in Nat /\ Num(u, "MapChunk") \in Nat
    BY NumNat
  <1>4. HostsRoom(w, m, r)
    BY <1>1, <1>2 DEF HostsRoom
  <1>5. ModsAsked(u, w, m) = ModsAsked(u, d, m)
    BY DEF ModsAsked
  <1> HIDE DEF Num
  <1>6. MapAsked(u, w, m) = 1
    BY <1>1, <1>3 DEF MapAsked, Bit
  <1>7. ModsComing(u, w, t, m, r, <<>>)
    BY <1>2, <1>5, NoneChecked DEF ModsComing
  <1>8. MapComing(u, w, t, m, r, <<>>)
    BY <1>1, <1>6, NoneChecked DEF MapComing, Bit
  <1>9. ModsFirst(u, w, m, r, <<>>)
    BY <1>2 DEF ModsFirst
  <1> QED
    BY <1>4, <1>7, <1>8, <1>9, NoneChecked DEF HostOwed

-----------------------------------------------------------------------------
(* finishValidations.                                                       *)

FinishedWas == IInv /\ Owed /\ ~room.running /\ jobs # <<>> /\ UNCHANGED <<mine, up>>

LEMMA ModsAccepted ==
  ASSUME FinishedWas, Head(jobs).mods,
         BroadcastLobby([room EXCEPT !.mods = Chosen], DropRipe(seen, <<>>), NoFrames),
         jobs' = TakeDeferred([room EXCEPT !.mods = Chosen], seen, <<>>)
  PROVE  Owed'
  <1> DEFINE u == up[Host]
             d == down[Host]
             c == seen[Host]
             m == mine[Host]
             z == [room EXCEPT !.mods = Chosen]
             s == DropRipe(seen, <<>>)
             k == TakeDeferred(z, seen, <<>>)
             t == [c EXCEPT !.deferred = Nothing]
             job == Job(Host, FALSE, TRUE, Played, Nothing)
  <1>1. /\ Host \in Players /\ room.host = Host /\ room \in Rooms /\ seen \in [Players -> Seen] /\ c.here
        /\ room.map \in {Nothing, Played} /\ u \in Seq(UpOf(Host)) /\ d \in Seq(DownOf(Host))
        /\ HostOwed(u, d, c, m, room, jobs) /\ ~room.running
        /\ \A x \in Players : PlayerOwed(x, up[x], down[x], seen[x], mine[x], room)
        /\ \A x \in Players : x # Host => seen[x].deferred = Nothing
        /\ \A x \in Players : seen[x].here => seen[x].modOffered = room.mods
                                               /\ (seen[x].mapOffered <=> room.map # Nothing)
    BY HostAlone DEF FinishedWas
  <1>2. ModChecks(jobs) = 1 /\ MapChecks(jobs) = 0
    BY CheckOver DEF FinishedWas
  <1>3. ModsAsked(u, d, m) = 0 /\ room.mods = Nothing
    BY <1>1, <1>2, ModsStage
  <1>4. c.modReceive = Nothing /\ c.deferred \in {Nothing, Played}
    BY <1>1, <1>3 DEF HostOwed, ModsComing, MapComing
  <1>5. c.deferred # Nothing => MapAsked(u, d, m) = 0 /\ room.map = Nothing /\ c.mapReceive = Nothing
    <2>1. c.deferred # Nothing => MapAsked(u, d, m) = 0 /\ room.map = Nothing
      BY <1>1, MapStage
    <2> QED
      BY <1>1, <2>1 DEF HostOwed, MapComing
  <1>6. z.host = Host /\ z.mods = Chosen /\ z.map = room.map /\ ~z.running
    BY <1>1 DEF Rooms
  <1>7. /\ t.here = c.here /\ t.modReceive = c.modReceive /\ t.mapReceive = c.mapReceive /\ t.deferred = Nothing
        /\ t.modReady = c.modReady /\ t.mapReady = c.mapReady /\ t.modSend = c.modSend /\ t.mapSend = c.mapSend
        /\ t.modOffered = c.modOffered /\ t.mapOffered = c.mapOffered /\ t \in Seen
    <2>1. c \in Seen /\ Nothing \in Values
      BY <1>1, PieceTypes
    <2> QED
      BY <2>1 DEF Seen
  <1>8. job \in Jobs /\ job.client = Host /\ job.current /\ ~job.mods /\ job.cache /\ job.digest = Played
    BY <1>1, Digested, PieceTypes DEF Job, Jobs
  <1> HIDE DEF z, t, job
  \* Its map's turn, if it was waiting for that.
  <1>9. /\ s \in [Players -> Seen] /\ \A x \in Players : x # Host => s[x] = seen[x]
        /\ s[Host] = IF c.deferred = Nothing THEN c ELSE t
        /\ k = IF c.deferred = Nothing THEN <<>> ELSE <<job>>
    <2>1. CASE c.deferred = Nothing
      <3>1. \A x \in Players : seen[x].deferred = Nothing
        BY <1>1, <2>1
      <3>2. s = seen /\ k = <<>>
        BY <1>1, <3>1, NoneRipe
      <3> QED
        BY <1>1, <2>1, <3>2
    <2>2. CASE c.deferred # Nothing
      <3>1. TakesMapOffer(z, seen, Host)
        BY <1>5, <1>6, <2>2 DEF TakesMapOffer
      <3>2. s = [seen EXCEPT ![Host] = t] /\ k = <<job>>
        BY <1>1, <1>4, <2>2, <3>1, HostRipe DEF t, job
      <3> HIDE DEF s, k
      <3> QED
        BY <1>1, <1>7, <2>2, <3>2
    <2> QED
      BY <2>1, <2>2
  <1>10. OneCheck(k) /\ ModChecks(k) = 0 /\ MapChecks(k) = IF c.deferred = Nothing THEN 0 ELSE 1
    <2>1. OneCheck(<<job>>) /\ ModChecks(<<job>>) = 0 /\ MapChecks(<<job>>) = 1
      BY <1>8, OneChecked
    <2> HIDE DEF k
    <2> QED
      BY <1>9, <2>1, NoneChecked
  <1>11. jobs' = k /\ BroadcastLobby(z, s, NoFrames) /\ mine' = mine /\ up' = up
    BY DEF z, FinishedWas
  <1> HIDE DEF s, k
  <1> DEFINE e == s[Host]
  <1>12. /\ e.here = c.here /\ e.modReceive = c.modReceive /\ e.mapReceive = c.mapReceive /\ e.deferred = Nothing
         /\ e.modReady = c.modReady /\ e.mapReady = c.mapReady /\ e.modSend = c.modSend /\ e.mapSend = c.mapSend
         /\ e.modOffered = c.modOffered /\ e.mapOffered = c.mapOffered
    BY <1>7, <1>9
  <1> HIDE DEF e
  <1>13. HostOwed(u, d, e, m, z, k)
    BY <1>1, <1>2, <1>6, <1>10, <1>12, ModsChecked
  <1>14. PlayerOwed(Host, u, d, e, m, room)
    <2>1. PlayerOwed(Host, u, d, c, m, room)
      BY <1>1
    <2> HIDE DEF u, d, c, m
    <2>2. ComesAndGoes(u, e, m) /\ Rests(Host, e, m)
      BY <1>12, <2>1 DEF PlayerOwed, ComesAndGoes, Rests
    <2>3. ModsSent(u, d, e) = ModsSent(u, d, c) /\ HasMods(u, e) = HasMods(u, c)
          /\ MapSent(u, d, e) = MapSent(u, d, c) /\ HasMap(u, e) = HasMap(u, c)
      BY <1>12 DEF ModsSent, HasMods, MapSent, HasMap
    <2> QED
      BY <1>12, <2>1, <2>2, <2>3 DEF PlayerOwed, GetsMods, GetsMap
  <1>15. \A x \in Players : /\ PlayerOwed(x, up'[x], down[x], s[x], mine[x], room)
                            /\ s[x].here => s[x].modOffered = room.mods /\ (s[x].mapOffered <=> room.map # Nothing)
    BY <1>1, <1>9, <1>11, <1>12, <1>14 DEF e
  <1>16. Nothing \notin Players /\ Nothing # Host /\ IInv
    BY PieceTypes, Digested DEF FinishedWas
  <1>17. HostOwed(up'[Host], down[Host], s[Host], mine[Host], z, jobs')
    BY <1>11, <1>13 DEF e, u, d, m
  <1>18. /\ s[Host].here /\ z.mods \in {Nothing, Chosen} /\ z.map \in {Nothing, Played}
         /\ z.mods = room.mods \/ room.mods = Nothing
         /\ z.map = room.map \/ room.map = Nothing
    BY <1>1, <1>3, <1>6, <1>12 DEF e
  <1>19. \A x \in Players : x # Nothing =>
           /\ PlayerOwed(x, up'[x], down[x], s[x], mine[x], room)
           /\ s[x].here => s[x].modOffered = room.mods /\ (s[x].mapOffered <=> room.map # Nothing)
    BY <1>15
  <1> HIDE DEF u, d, c, m
  <1> QED
    BY <1>6, <1>9, <1>11, <1>16, <1>17, <1>18, <1>19, BroadcastOwed

LEMMA MapAccepted ==
  ASSUME FinishedWas, ~Head(jobs).mods,
         BroadcastLobby([room EXCEPT !.map = Played], DropRipe(seen, <<>>), NoFrames),
         jobs' = TakeDeferred([room EXCEPT !.map = Played], seen, <<>>)
  PROVE  Owed'
  <1> DEFINE u == up[Host]
             d == down[Host]
             c == seen[Host]
             m == mine[Host]
             z == [room EXCEPT !.map = Played]
  <1>1. /\ Host \in Players /\ room.host = Host /\ room \in Rooms /\ seen \in [Players -> Seen] /\ c.here
        /\ room.mods \in {Nothing, Chosen} /\ u \in Seq(UpOf(Host)) /\ d \in Seq(DownOf(Host))
        /\ HostOwed(u, d, c, m, room, jobs)
        /\ \A x \in Players : PlayerOwed(x, up[x], down[x], seen[x], mine[x], room)
        /\ \A x \in Players : x # Host => seen[x].deferred = Nothing
        /\ \A x \in Players : seen[x].here => seen[x].modOffered = room.mods
                                               /\ (seen[x].mapOffered <=> room.map # Nothing)
    BY HostAlone DEF FinishedWas
  <1>2. ModChecks(jobs) = 0 /\ MapChecks(jobs) = 1
    BY CheckOver DEF FinishedWas
  <1>3. c.deferred = Nothing /\ room.map = Nothing
    BY <1>1, <1>2, MapStage
  <1>4. DropRipe(seen, <<>>) = seen /\ jobs' = <<>>
    BY <1>1, <1>3, NoneRipe
  <1>5. z.host = Host /\ z.mods = room.mods /\ z.map = Played
    BY <1>1 DEF Rooms
  <1>6. BroadcastLobby(z, seen, NoFrames) /\ mine' = mine /\ up' = up
    BY <1>4 DEF FinishedWas
  <1> HIDE DEF z
  <1>7. HostOwed(u, d, c, m, z, <<>>)
    BY <1>1, <1>2, <1>5, MapChecked
  <1>8. Nothing \notin Players /\ Nothing # Host /\ IInv
    BY PieceTypes, Digested DEF FinishedWas
  <1> QED
    BY <1>1, <1>3, <1>4, <1>5, <1>6, <1>7, <1>8, BroadcastOwed

\* What is sent to the host, and to nobody else.
LEMMA AskedOwed ==
  ASSUME FinishedWas, NEW f \in DownOf(Host), f.kind \in {"ModRequest", "MapRequest"},
         down' = [down EXCEPT ![Host] = Append(@, f)], UNCHANGED room,
         NEW t, seen' = [seen EXCEPT ![Host] = t],
         /\ t.here = seen[Host].here /\ t.modReady = seen[Host].modReady /\ t.modSend = seen[Host].modSend
         /\ t.mapReady = seen[Host].mapReady /\ t.mapSend = seen[Host].mapSend,
         HostOwed(up[Host], down[Host] \o <<f>>, t, mine[Host], room, jobs')
  PROVE  Owed'
  <1> DEFINE u == up[Host]
             d == down[Host]
             c == seen[Host]
             m == mine[Host]
             w == d \o <<f>>
  <1>1. /\ Host \in Players /\ seen \in [Players -> Seen] /\ d \in Seq(DownOf(Host)) /\ d \in Seq(DownFrames)
        /\ f \in DownFrames /\ f.kind \notin Packaged /\ f.kind # "LobbyState"
        /\ PlayerOwed(Host, u, d, c, m, room) /\ Lately(d, room, seen) /\ down \in [Players -> Seq(DownFrames)]
    BY HostAlone, Digested DEF FinishedWas, IInv, Typed, Packaged
  <1>2. /\ down'[Host] = w /\ seen'[Host] = t
        /\ \A x \in Players : x # Host => up'[x] = up[x] /\ down'[x] = down[x] /\ seen'[x] = seen[x]
    <2>1. Append(d, f) = w
      BY <1>1, AppendIsConcat
    <2> QED
      BY <1>1, <2>1 DEF FinishedWas
  <1>3. Lately(w, room, seen) /\ Num(w, "LobbyState") = Num(d, "LobbyState")
    BY <1>1, LatelySent
  <1>4. PlayerOwed(Host, u, w, c, m, room)
    BY <1>1, SentToOwed
  <1> HIDE DEF u, d, c, m, w
  <1>5. PlayerOwed(Host, u, w, t, m, room)
    <2>1. /\ t.here = c.here /\ t.modReady = c.modReady /\ t.modSend = c.modSend
          /\ t.mapReady = c.mapReady /\ t.mapSend = c.mapSend
      BY DEF c
    <2>2. ComesAndGoes(u, t, m) /\ Rests(Host, t, m)
      BY <1>4, <2>1 DEF PlayerOwed, ComesAndGoes, Rests
    <2>3. ModsSent(u, w, t) = ModsSent(u, w, c) /\ HasMods(u, t) = HasMods(u, c)
          /\ MapSent(u, w, t) = MapSent(u, w, c) /\ HasMap(u, t) = HasMap(u, c)
      BY <2>1 DEF ModsSent, HasMods, MapSent, HasMap
    <2> QED
      BY <1>4, <2>1, <2>2, <2>3 DEF PlayerOwed, GetsMods, GetsMap
  <1>6. IInv /\ Owed /\ UNCHANGED <<room, mine>> /\ up' = up
    BY DEF FinishedWas
  <1>7. /\ PlayerOwed(Host, up'[Host], down'[Host], seen'[Host], mine[Host], room)
        /\ HostOwed(up'[Host], down'[Host], seen'[Host], mine[Host], room, jobs')
        /\ Lately(down'[Host], room, seen) /\ Num(down'[Host], "LobbyState") = Num(down[Host], "LobbyState")
        /\ seen'[Host].here = seen[Host].here /\ seen'[Host].modReady = seen[Host].modReady
        /\ seen'[Host].mapReady = seen[Host].mapReady
    BY <1>2, <1>3, <1>5, <1>6 DEF u, d, c, m, w
  <1> QED
    BY <1>1, <1>2, <1>6, <1>7, ServerOwes

LEMMA ModsNotFound ==
  ASSUME FinishedWas, Head(jobs).mods, UNCHANGED room,
         down' = [down EXCEPT ![Host] = Append(@, Frame("ModRequest", Nothing))],
         NEW s, s = [seen EXCEPT ![Host].modReceive = Chosen],
         seen' = DropRipe(s, <<>>), jobs' = TakeDeferred(room, s, <<>>)
  PROVE  Owed'
  <1> DEFINE u == up[Host]
             d == down[Host]
             c == seen[Host]
             m == mine[Host]
             f == Frame("ModRequest", Nothing)
             w == d \o <<f>>
             t == [c EXCEPT !.modReceive = Chosen]
  <1>1. /\ Host \in Players /\ seen \in [Players -> Seen] /\ u \in Seq(UpOf(Host)) /\ d \in Seq(DownOf(Host))
        /\ HostOwed(u, d, c, m, room, jobs) /\ \A x \in Players : x # Host => seen[x].deferred = Nothing
        /\ Chosen \in Values /\ Chosen # Nothing
    BY HostAlone, Digested DEF FinishedWas
  <1>2. ModChecks(jobs) = 1 /\ MapChecks(jobs) = 0
    BY CheckOver DEF FinishedWas
  <1>3. f \in DownOf(Host) /\ f.kind = "ModRequest"
    BY FrameTypes, PieceTypes DEF DownOf, Downward
  <1>4. /\ t.here = c.here /\ t.modReady = c.modReady /\ t.modSend = c.modSend
        /\ t.mapReady = c.mapReady /\ t.mapSend = c.mapSend
        /\ t.modReceive = Chosen /\ t.mapReceive = c.mapReceive /\ t.deferred = c.deferred /\ t \in Seen
    <2>1. c \in Seen
      BY <1>1
    <2> QED
      BY <1>1, <2>1 DEF Seen
  <1>5. s = [seen EXCEPT ![Host] = t]
    OBVIOUS
  <1> HIDE DEF t, f
  <1>6. /\ s \in [Players -> Seen] /\ s[Host] = t /\ \A x \in Players : x # Host => s[x] = seen[x]
    BY <1>1, <1>4, <1>5
  <1>7. seen' = s /\ jobs' = <<>>
    <2>1. \A x \in Players : s[x].deferred # Nothing => s[x].modReceive # Nothing
      BY <1>1, <1>4, <1>6
    <2>2. DropRipe(s, <<>>) = s /\ TakeDeferred(room, s, <<>>) = <<>>
      BY ONLY <1>6, <2>1, NoneRipe
    <2> QED
      BY <2>2
  <1>8. HostOwed(u, w, t, m, room, <<>>)
    <2>1. Num(w, "ModRequest") = Num(d, "ModRequest") + 1 /\ Num(w, "MapRequest") = Num(d, "MapRequest")
      BY <1>1, <1>3, SendOne
    <2> HIDE DEF u, d, c, m, w
    <2> QED
      BY <1>1, <1>2, <1>4, <2>1, ModsWanted
  <1>9. down' = [down EXCEPT ![Host] = Append(@, f)]
    BY DEF f
  <1>10. seen' = [seen EXCEPT ![Host] = t] /\ HostOwed(up[Host], down[Host] \o <<f>>, t, mine[Host], room, jobs')
    BY <1>5, <1>7, <1>8
  <1>11. f.kind \in {"ModRequest", "MapRequest"} /\ UNCHANGED room
    BY <1>3
  <1> QED
    BY <1>3, <1>4, <1>9, <1>10, <1>11, AskedOwed

LEMMA MapNotFound ==
  ASSUME FinishedWas, ~Head(jobs).mods, UNCHANGED room,
         down' = [down EXCEPT ![Host] = Append(@, Frame("MapRequest", Nothing))],
         NEW s, s = [seen EXCEPT ![Host].mapReceive = Played],
         seen' = DropRipe(s, <<>>), jobs' = TakeDeferred(room, s, <<>>)
  PROVE  Owed'
  <1> DEFINE u == up[Host]
             d == down[Host]
             c == seen[Host]
             m == mine[Host]
             f == Frame("MapRequest", Nothing)
             w == d \o <<f>>
             t == [c EXCEPT !.mapReceive = Played]
  <1>1. /\ Host \in Players /\ seen \in [Players -> Seen] /\ u \in Seq(UpOf(Host)) /\ d \in Seq(DownOf(Host))
        /\ HostOwed(u, d, c, m, room, jobs) /\ \A x \in Players : x # Host => seen[x].deferred = Nothing
        /\ Played \in Values /\ Played # Nothing
    BY HostAlone, Digested DEF FinishedWas
  <1>2. ModChecks(jobs) = 0 /\ MapChecks(jobs) = 1
    BY CheckOver DEF FinishedWas
  <1>3. f \in DownOf(Host) /\ f.kind = "MapRequest"
    BY FrameTypes, PieceTypes DEF DownOf, Downward
  <1>4. /\ t.here = c.here /\ t.modReady = c.modReady /\ t.modSend = c.modSend
        /\ t.mapReady = c.mapReady /\ t.mapSend = c.mapSend
        /\ t.modReceive = c.modReceive /\ t.mapReceive = Played /\ t.deferred = c.deferred /\ t \in Seen
    <2>1. c \in Seen
      BY <1>1
    <2> QED
      BY <1>1, <2>1 DEF Seen
  <1>5. s = [seen EXCEPT ![Host] = t]
    OBVIOUS
  <1> HIDE DEF t, f
  <1>6. /\ s \in [Players -> Seen] /\ s[Host] = t /\ \A x \in Players : x # Host => s[x] = seen[x]
    BY <1>1, <1>4, <1>5
  <1>7. seen' = s /\ jobs' = <<>>
    <2>1. c.deferred = Nothing
      BY <1>1, <1>2, MapStage
    <2>2. \A x \in Players : s[x].deferred # Nothing => s[x].modReceive # Nothing
      BY <1>1, <1>4, <1>6, <2>1
    <2> QED
      BY <1>6, <2>2, NoneRipe
  <1>8. HostOwed(u, w, t, m, room, <<>>)
    <2>1. Num(w, "MapRequest") = Num(d, "MapRequest") + 1 /\ Num(w, "ModRequest") = Num(d, "ModRequest")
      BY <1>1, <1>3, SendOne
    <2> HIDE DEF u, d, c, m, w
    <2> QED
      BY <1>1, <1>2, <1>4, <2>1, MapWanted
  <1>9. down' = [down EXCEPT ![Host] = Append(@, f)]
    BY DEF f
  <1>10. seen' = [seen EXCEPT ![Host] = t] /\ HostOwed(up[Host], down[Host] \o <<f>>, t, mine[Host], room, jobs')
    BY <1>5, <1>7, <1>8
  <1>11. f.kind \in {"ModRequest", "MapRequest"} /\ UNCHANGED room
    BY <1>3
  <1> QED
    BY <1>3, <1>4, <1>9, <1>10, <1>11, AskedOwed

LEMMA FinishOwed ==
  ASSUME IInv, Owed, ~room.running, FinishValidation
  PROVE  Owed'
  <1> DEFINE job == Head(jobs)
  <1>1. FinishedWas /\ job.done
    BY DEF FinishValidation, FinishedWas
  <1>2. /\ job.client = Host /\ Tail(jobs) = <<>> /\ Valid(job)
        /\ job.digest = (IF job.mods THEN Chosen ELSE Played)
        /\ ~job.found => job.cache
    BY <1>1, CheckOver DEF FinishedWas
  <1>3. CASE job.found /\ job.mods
    <2>1. /\ BroadcastLobby([room EXCEPT !.mods = Chosen], DropRipe(seen, <<>>), NoFrames)
          /\ jobs' = TakeDeferred([room EXCEPT !.mods = Chosen], seen, <<>>)
      BY <1>2, <1>3 DEF FinishValidation
    <2> QED
      BY <1>1, <1>3, <2>1, ModsAccepted
  <1>4. CASE job.found /\ ~job.mods
    <2>1. /\ BroadcastLobby([room EXCEPT !.map = Played], DropRipe(seen, <<>>), NoFrames)
          /\ jobs' = TakeDeferred([room EXCEPT !.map = Played], seen, <<>>)
      BY <1>2, <1>4 DEF FinishValidation
    <2> QED
      BY <1>1, <1>4, <2>1, MapAccepted
  <1>5. CASE ~job.found /\ job.mods
    <2> DEFINE s == [seen EXCEPT ![Host].modReceive = Chosen]
    <2>1. /\ down' = [down EXCEPT ![Host] = Append(@, Frame("ModRequest", Nothing))] /\ UNCHANGED room
          /\ seen' = DropRipe(s, <<>>) /\ jobs' = TakeDeferred(room, s, <<>>)
      BY <1>2, <1>5 DEF FinishValidation
    <2> QED
      BY <1>1, <1>5, <2>1, ModsNotFound
  <1>6. CASE ~job.found /\ ~job.mods
    <2> DEFINE s == [seen EXCEPT ![Host].mapReceive = Played]
    <2>1. /\ down' = [down EXCEPT ![Host] = Append(@, Frame("MapRequest", Nothing))] /\ UNCHANGED room
          /\ seen' = DropRipe(s, <<>>) /\ jobs' = TakeDeferred(room, s, <<>>)
      BY <1>2, <1>6 DEF FinishValidation
    <2> QED
      BY <1>1, <1>6, <2>1, MapNotFound
  <1> QED
    BY <1>3, <1>4, <1>5, <1>6

-----------------------------------------------------------------------------
(* The invariant: as long as nobody has disturbed the room.                 *)

LEMMA NextOwed ==
  ASSUME IInv, Owed, Undisturbed, Undisturbed', [PkNext]_pkVars
  PROVE  Owed'
  <1>1. ~room.running
    BY DEF Undisturbed
  <1>2. ASSUME NEW p \in Players, ServerReads(p) PROVE Owed'
    BY <1>2, ServerReadsOwed
  <1>3. ASSUME NEW p \in Players, ServerSendsMods(p) \/ ServerSendsMap(p) PROVE Owed'
    BY <1>1, <1>3, ServerSendsOwed
  <1>4. ASSUME NEW p \in Players,
               \/ ClientReads(p) \/ ClientSendsMods(p) \/ ClientSendsMap(p)
               \/ TickPacks(p) \/ OfferTicked(p) \/ RequestStart(p)
               \/ JoinGame(p) \/ LeaveGame(p)
        PROVE  Owed'
    BY <1>4, PlayersOwe
  <1>5. CASE RunJob
    BY <1>1, <1>5, RunJobOwed
  <1>6. CASE FinishValidation
    BY <1>1, <1>6, FinishOwed
  <1>7. CASE TakeDeferredOffer
    BY <1>1, <1>7, TakeDeferredNever
  <1>8. CASE UNCHANGED pkVars
    <2>1. UNCHANGED <<room, seen, mine, jobs, up, down>>
      BY <1>8 DEF pkVars
    <2> QED
      BY <2>1 DEF Owed, HostOwedNow
  <1> QED
    BY <1>2, <1>3, <1>4, <1>5, <1>6, <1>7, <1>8 DEF PkNext

\* A room that has been disturbed, or runs, stays so.
LEMMA StaysDisturbed ==
  ASSUME IInv, changes \in Nat, [PkNext]_pkVars
  PROVE  changes' \in Nat /\ (Undisturbed' => Undisturbed)
  <1>1. ServerWas
    BY DEF IInv, ServerWas
  <1>2. ServerDone => (room.running => room'.running)
    BY DEF ServerDone, RoomStays
  <1>3. ASSUME NEW p \in Players, ServerReads(p) PROVE UNCHANGED changes /\ (room.running => room'.running)
    <2>1. ServerDone
      BY <1>1, <1>3, ServerReadsDone DEF ServerWas, IInv
    <2> QED
      BY <1>2, <1>3, <2>1 DEF ServerReads
  <1>4. ASSUME NEW p \in Players, ServerSendsMods(p) \/ ServerSendsMap(p) PROVE UNCHANGED <<changes, room>>
    BY <1>4 DEF ServerSendsMods, ServerSendsMap
  <1>5. ASSUME NEW p \in Players,
               \/ ClientReads(p) \/ ClientSendsMods(p) \/ ClientSendsMap(p)
               \/ TickPacks(p) \/ OfferTicked(p) \/ RequestStart(p)
               \/ JoinGame(p) \/ LeaveGame(p)
        PROVE  UNCHANGED room /\ changes' \in {changes, changes + 1}
    BY <1>5 DEF ClientReads, ClientSendsMods, ClientSendsMap, TickPacks, OfferTicked, RequestStart, JoinGame,
                LeaveGame, Sends
  <1>6. CASE RunJob
    BY <1>6 DEF RunJob, Undisturbed
  <1>7. CASE FinishValidation
    <2>1. ServerDone
      BY <1>1, <1>7, FinishValidationDone
    <2> QED
      BY <1>2, <1>7, <2>1 DEF FinishValidation, Undisturbed
  <1>8. CASE TakeDeferredOffer
    BY <1>8 DEF TakeDeferredOffer, Undisturbed
  <1>9. CASE UNCHANGED pkVars
    BY <1>9 DEF pkVars, Undisturbed
  <1> QED
    BY <1>3, <1>4, <1>5, <1>6, <1>7, <1>8, <1>9 DEF PkNext, Undisturbed

LEMMA InitOwed == PkInit => Owed
  <1> SUFFICES ASSUME PkInit PROVE Owed
    OBVIOUS
  <1> DEFINE l == LobbyState(Host, FALSE)
             o == Offline(Chosen)
             c == [Away EXCEPT !.here = TRUE]
  <1>1. /\ Host \in Players /\ Host # Nothing /\ Chosen # Nothing /\ Played # Nothing
        /\ Chosen \in Packs
    BY Digested
  <1>2. IInv
    BY InitInStep
  <1>3. /\ seen[Host] = c /\ jobs = <<>> /\ up[Host] = <<>> /\ down[Host] = <<l>>
        /\ mine[Host] = [o EXCEPT !.at = "joining", !.mapPackage = Played]
        /\ room = [host |-> Host, mods |-> Nothing, map |-> Nothing, running |-> FALSE]
    BY <1>1 DEF PkInit, NoFrames, Chosen, Played
  <1>4. ASSUME NEW p \in Players, p # Host
        PROVE  /\ seen[p] = Away /\ up[p] = <<>> /\ down[p] = <<>> /\ mine[p] = Offline(FirstTicks[p])
    BY <1>4 DEF PkInit, NoFrames
  <1>5. /\ l \in DownOf(Host) /\ l.kind = "LobbyState" /\ l.ready = FALSE
        /\ <<l>> \in Seq(DownOf(Host)) /\ DOMAIN <<l>> = {1} /\ <<l>>[1] = l
    <2>1. l \in DownOf(Host) /\ l.kind = "LobbyState" /\ l.ready = FALSE
      BY <1>1 DEF LobbyState, DownOf, DownFrames, Optional
    <2> HIDE DEF l
    <2> QED
      BY <2>1, OneFrame
  <1>6. /\ c.here /\ c.modReady = Nothing /\ c.modSend = Nothing /\ c.modReceive = Nothing
        /\ ~c.mapReady /\ c.mapSend = Nothing /\ c.mapReceive = Nothing /\ c.deferred = Nothing
        /\ ~Away.here /\ Away.deferred = Nothing
    BY DEF Away
  <1> DEFINE m == mine[Host]
  <1>7. /\ m.at = "joining" /\ m.ticks = Chosen /\ m.modSend = Nothing /\ m.mapSend = Nothing
        /\ ~m.modOffered /\ ~m.mapsReady /\ ~m.pending /\ m.modReceive = Nothing /\ m.mapReceive = Nothing
    BY <1>3 DEF Offline
  <1>8. /\ \A k : Num(<<>>, k) = 0
        /\ \A k : Num(<<l>>, k) = IF k = "LobbyState" THEN 1 ELSE 0
    <2> HIDE DEF l
    <2> QED
      BY <1>5, NumNone, NumOne
  <1>9. ASSUME NEW p \in Players, p # Host PROVE PlayerOwed(p, up[p], down[p], seen[p], mine[p], room)
    <2> DEFINE n == mine[p]
    <2>1. n.at = "lobby" /\ ~n.pending /\ n.modSend = Nothing /\ n.mapSend = Nothing /\ n.host = Nothing
          /\ n.modReceive = Nothing /\ n.mapReceive = Nothing
      <3> DEFINE t == FirstTicks[p]
      <3>1. /\ Offline(t).at = "lobby" /\ ~Offline(t).pending /\ Offline(t).modSend = Nothing
            /\ Offline(t).mapSend = Nothing /\ Offline(t).host = Nothing
            /\ Offline(t).modReceive = Nothing /\ Offline(t).mapReceive = Nothing
        BY DEF Offline
      <3> QED
        BY <1>4, <1>9, <3>1
    <2>2. up[p] = <<>> /\ down[p] = <<>> /\ seen[p] = Away
      BY <1>4, <1>9
    <2> HIDE DEF n
    <2>3. ComesAndGoes(<<>>, Away, n) /\ Rests(p, Away, n)
      BY <1>6, <1>8, <1>9, <2>1 DEF ComesAndGoes, Rests, Bit
    <2>4. <<>> \in Seq(UpOf(p)) /\ <<>> \in Seq(DownOf(p))
      BY EmptySeq
    <2> QED
      BY <1>6, <2>2, <2>3, <2>4 DEF PlayerOwed, n
  <1> HIDE DEF m, l, c
  <1>10. PlayerOwed(Host, <<>>, <<l>>, c, m, room)
    <2>1. ComesAndGoes(<<>>, c, m) /\ Rests(Host, c, m)
      BY <1>6, <1>7, <1>8 DEF ComesAndGoes, Rests, Bit
    <2>2. GetsMods(<<>>, <<l>>, c, m, room)
      BY <1>3, <1>6, <1>7, <1>8 DEF GetsMods, ModsSent, HasMods, Bit
    <2>3. GetsMap(<<>>, <<l>>, c, m, room)
      BY <1>3, <1>6, <1>7, <1>8 DEF GetsMap, MapSent, HasMap, Bit
    <2>4. <<>> \in Seq(UpOf(Host))
      BY EmptySeq
    <2> QED
      BY <1>5, <2>1, <2>2, <2>3, <2>4 DEF PlayerOwed
  <1>11. HostOwed(<<>>, <<l>>, c, m, room, <<>>)
    <2>1. HostsRoom(<<l>>, m, room)
      BY <1>3, <1>7, <1>8 DEF HostsRoom
    <2>2. ModsAsked(<<>>, <<l>>, m) = 0 /\ MapAsked(<<>>, <<l>>, m) = 0
      BY <1>7, <1>8 DEF ModsAsked, MapAsked, Bit
    <2>3. ModsComing(<<>>, <<l>>, c, m, room, <<>>)
      BY <1>3, <1>6, <1>7, <1>8, <2>2, NoneChecked DEF ModsComing, Bit
    <2>4. MapComing(<<>>, <<l>>, c, m, room, <<>>)
      BY <1>3, <1>6, <1>7, <1>8, <2>2, NoneChecked DEF MapComing, Bit
    <2>5. OffersInOrder(<<>>)
      BY EmptySeq DEF OffersInOrder
    <2>6. ModsFirst(<<>>, <<l>>, m, room, <<>>)
      BY <1>3, <1>8, <2>2, <2>5, NoneChecked DEF ModsFirst
    <2> QED
      BY <2>1, <2>3, <2>4, <2>6, NoneChecked DEF HostOwed
  <1>12. IsTold(<<l>>, m, room, seen)
    <2>1. MapsReady(room, seen) = FALSE
      BY <1>3 DEF MapsReady
    <2>2. Num(<<l>>, "LobbyState") = 1
      BY <1>8
    <2>3. Lately(<<l>>, room, seen)
      <3> SUFFICES ASSUME NEW i \in DOMAIN <<l>> PROVE <<l>>[i].ready = MapsReady(room, seen)
        BY DEF Lately
      <3> QED
        BY <1>5, <2>1
    <2> QED
      BY <2>2, <2>3 DEF IsTold
  <1>13. ASSUME NEW p \in Players PROVE PlayerOwed(p, up[p], down[p], seen[p], mine[p], room)
    BY <1>3, <1>9, <1>10 DEF m
  <1> QED
    BY <1>3, <1>11, <1>12, <1>13 DEF Owed, HostOwedNow, m

-----------------------------------------------------------------------------
(* When nothing is under way, nothing is owed any more.                     *)

LEMMA QuietSettled ==
  ASSUME IInv, Owed, Quiet, ~room.running
  PROVE  Settled
  <1> DEFINE c == seen[Host]
             m == mine[Host]
  <1>1. /\ Host \in Players /\ room.host = Host /\ c.here
        /\ HostOwed(<<>>, <<>>, c, m, room, <<>>) /\ IsTold(<<>>, m, room, seen)
        /\ \A x \in Players : PlayerOwed(x, <<>>, <<>>, seen[x], mine[x], room)
        /\ m.modSend = Nothing /\ m.mapSend = Nothing /\ ~m.pending
    BY HostAlone DEF Quiet, Owed, HostOwedNow
  <1>2. \A k : Num(<<>>, k) = 0
    BY NumNone
  <1>3. HostsRoom(<<>>, m, room) /\ ModsComing(<<>>, <<>>, c, m, room, <<>>)
        /\ MapComing(<<>>, <<>>, c, m, room, <<>>)
    BY <1>1 DEF HostOwed
  <1>4. /\ m.at = "room" /\ m.host = Host /\ m.ticks = Chosen /\ m.modPackage = Chosen
        /\ room.mods \in {Nothing, Chosen} /\ room.map \in {Nothing, Played}
    <2>1. ~(Num(<<>>, "LobbyState") > 0)
      BY <1>2
    <2> HIDE DEF Num
    <2> QED
      BY <1>3, <2>1 DEF HostsRoom
  <1>5. ModsAsked(<<>>, <<>>, m) = 0 /\ MapAsked(<<>>, <<>>, m) = 0
    BY <1>1, <1>2 DEF ModsAsked, MapAsked, Bit
  <1>6. room.mods = Chosen /\ room.map # Nothing
    <2>1. Bit(m.at = "joining") = 0
      BY <1>4 DEF Bit
    <2>2. Bit(room.mods # Nothing) = 1
      BY <1>2, <1>3, <1>5, <2>1, NoneChecked DEF ModsComing, Bit
    <2>3. room.mods # Nothing
      BY <2>2 DEF Bit
    <2>4. c.modReceive = Nothing
      BY <1>3, <1>5 DEF ModsComing
    <2>5. c.deferred = Nothing
      BY <1>3, <2>4, NoneChecked DEF MapComing
    <2>6. Bit(room.map # Nothing) = 1
      BY <1>2, <1>3, <1>5, <2>1, <2>5, NoneChecked DEF MapComing, Bit
    <2> QED
      BY <1>4, <2>3, <2>6 DEF Bit
  \* Everybody who is there has both.
  <1>7. ASSUME NEW x \in Players, seen[x].here
        PROVE  /\ seen[x].modReady = Chosen /\ seen[x].mapReady
               /\ HasMods(<<>>, seen[x]) > 0 /\ mine[x].at # "left"
    <2> DEFINE s == seen[x]
               n == mine[x]
    <2>1. PlayerOwed(x, <<>>, <<>>, s, n, room) /\ s.modSend = Nothing /\ s.mapSend = Nothing /\ s.here
      BY <1>1, <1>7 DEF Quiet, Here
    <2> HIDE DEF s, n
    <2>2. n.at # "left"
      BY <1>2, <2>1 DEF PlayerOwed, ComesAndGoes
    <2>3. GetsMods(<<>>, <<>>, s, n, room) /\ GetsMap(<<>>, <<>>, s, n, room)
      BY <2>1, <2>2 DEF PlayerOwed
    <2>4. ModsSent(<<>>, <<>>, s) = 0 /\ MapSent(<<>>, <<>>, s) = 0
      BY <1>2, <2>1 DEF ModsSent, MapSent, Bit
    <2>5. HasMods(<<>>, s) = Bit(s.modReady # Nothing) /\ HasMap(<<>>, s) = Bit(s.mapReady)
      BY <1>2 DEF HasMods, HasMap, Bit
    <2>6. Bit(room.mods # Nothing) = 1 /\ Bit(room.map # Nothing) = 1
      BY <1>6, Digested DEF Bit
    <2>7. HasMods(<<>>, s) = 1
      BY <1>2, <2>3, <2>4, <2>5, <2>6 DEF GetsMods, Bit
    <2>8. HasMap(<<>>, s) = 1
      BY <1>2, <2>3, <2>4, <2>5, <2>6 DEF GetsMap, Bit
    <2>9. s.modReady # Nothing /\ s.mapReady
      BY <2>5, <2>7, <2>8 DEF Bit
    <2>10. s.modReady = Chosen
      BY <2>3, <2>9 DEF GetsMods
    <2> QED
      BY <2>2, <2>7, <2>9, <2>10 DEF s, n
  <1>8. MapsReady(room, seen)
    BY <1>6, <1>7, Digested DEF MapsReady
  <1>9. m.mapsReady
    BY <1>1, <1>2, <1>8 DEF IsTold
  <1>10. m.modReady
    <2>1. GetsMods(<<>>, <<>>, c, m, room)
      BY <1>1, <1>7 DEF PlayerOwed
    <2> QED
      BY <1>1, <1>7, <2>1 DEF GetsMods
  <1>11. CanStart(Host)
    BY <1>1, <1>4, <1>9, <1>10, Digested DEF CanStart, InRoom
  <1> QED
    BY <1>1, <1>4, <1>6, <1>8, <1>11 DEF Settled

\* As long as no host has changed its ticks or left: once nothing is under way
\* the room can start, with the packs the host has ticked.  Nobody waits for a
\* package that will never come, and the host does not wait to be told
\* (Server::modMsg, mapMsg, finishValidations; MpClient::modFrame, mapFrame).
THEOREM RoomsGetReady == PkSpec => []QuietMeansReady
  <1> DEFINE Kept == IInv /\ changes \in Nat /\ (Undisturbed => Owed)
  <1>1. PkInit => Kept
    <2>1. PkInit => changes = 0
      BY DEF PkInit
    <2>2. 0 \in Nat
      OBVIOUS
    <2> QED
      BY <2>1, <2>2, InitInStep, InitOwed
  <1>2. Kept /\ [PkNext]_pkVars => Kept'
    BY NextInStep, StaysDisturbed, NextOwed
  <1>3. Kept => QuietMeansReady
    BY QuietSettled DEF QuietMeansReady, Undisturbed
  <1> HIDE DEF Kept
  <1> QED
    BY <1>1, <1>2, <1>3, PTL DEF PkSpec
===============================================================================
