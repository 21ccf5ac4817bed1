------------------------- MODULE CommandWindowProofs -------------------------
(***************************************************************************)
(* One player's input comes out in the order of issue, and the client's    *)
(* windows say what is outstanding: proofs for CommandWindow.              *)
(***************************************************************************)
EXTENDS CommandWindow, SequenceTheorems, FiniteSetTheorems, WellFoundedInduction, TLAPS

USE WindowAssumption

-----------------------------------------------------------------------------
(* The inductive invariant.                                                *)

Input == [n : Nat, bytes : {0} \cup OrderSizes, serial : Nat]
UpFrame == [kind : {"commands", "begin", "members", "commit"}, items : Seq(Input)]
DownFrame == [kind : {"bundle", "dropped"}, items : SUBSET Input]
Inbox == [queued : Nat, bytes : Nat, last : Nat, stage : [serial : Nat, dropped : BOOLEAN]]

Typed ==
  /\ issued \in 0 .. MaxIssued /\ breaks \in 0 .. MaxBreaks
  /\ credit \in 0 .. QueueCap /\ unsettled \in 0 .. Lead /\ inFlight \in 0 .. QueueCap
  /\ serial \in Nat \ {0} /\ floor \in 0 .. serial - 1 /\ played \in 0 .. issued
  /\ link \in BOOLEAN /\ attached \in BOOLEAN
  /\ outbox \in Seq(Input) /\ queue \in Seq(Input)
  /\ unplayed \in Seq(Seq(Input)) /\ frozen \in Seq(Seq(Input))
  /\ up \in Seq(UpFrame) /\ down \in Seq(DownFrame)
  /\ sent \in SUBSET Input /\ IsFiniteSet(sent)
  /\ inbox \in Inbox /\ inbox.last \in 0 .. serial - 1
  /\ got \in Nat /\ history \in 0 .. Len(unplayed)

BundlesOf(d, n) == Cardinality({i \in 1 .. n : d[i].kind = "bundle"})
NewsOf(d, n) == UNION {d[i].items : i \in 1 .. n}

\* The ticks the client has to play, and who has what of them.
TicksInStep ==
  /\ got + BundlesOf(down, Len(down)) <= Len(unplayed)
  /\ Len(frozen) <= 1 /\ Len(unplayed) + Len(frozen) <= Lead

\* What is on its way to being played, and all that is known of outside the
\* outbox.
OnItsWay == AllOf(Streamed) \cup Range(queue) \cup AllOf(Uplink)
News == NewsOf(down, Len(down))
Told == OnItsWay \cup News \cup sent

\* The order of issue, within a run of items and along several runs.
Sorted(s) == \A i, j \in DOMAIN s : i < j => s[i].n < s[j].n
Before(S, T) == \A x \in S, y \in T : x.n < y.n
Rising(runs) ==
  /\ \A i \in DOMAIN runs : Sorted(runs[i])
  /\ \A i, j \in DOMAIN runs : i < j => Before(Range(runs[i]), Range(runs[j]))

\* The order of issue is the order of the serials.
InSeries(S, last, next) ==
  /\ \A x \in S : x.n \in 1 .. last
  /\ \A x \in S : IF IsOrder(x) THEN x.serial \in 1 .. next - 1 ELSE x.serial = 0
  /\ \A x, y \in S : x.n = y.n => x = y
  /\ \A x, y \in S : IsOrder(x) /\ IsOrder(y) /\ x.n < y.n => x.serial < y.serial

\* What is in the outbox comes after everything else.
Numbering ==
  /\ InSeries(Told, issued, serial)
  /\ \A x \in Range(outbox) : x.n \in 1 .. issued /\ x.serial = 0
  /\ Sorted(outbox) /\ Before(Told, Range(outbox))
  /\ serial + Orders(Range(outbox)) <= issued + 1

Ordering ==
  /\ Rising(Streamed) /\ Sorted(queue) /\ Rising(Uplink)
  /\ Before(AllOf(Streamed), Range(queue) \cup AllOf(Uplink))
  /\ Before(Range(queue), AllOf(Uplink))
  /\ \A x \in OnItsWay \cup Range(outbox) : played < x.n

\* What was dropped is told once and is on its way no more.
ToldOnce(d) ==
  /\ \A i \in DOMAIN d : IsFiniteSet(d[i].items)
  /\ \A i \in DOMAIN d : d[i].kind = "bundle" => d[i].items = {}
  /\ \A i, j \in DOMAIN d : i # j => d[i].items \cap d[j].items = {}

Apart == ToldOnce(down) /\ News \cap OnItsWay = {}

\* An order's frames follow one another.
InTransaction(fs, i) ==
  LET f == fs[i]
      Next1(kind) == i + 1 \in DOMAIN fs /\ fs[i + 1] = Frame(kind, f.items)
      Last1(kind) == i > 1 => fs[i - 1] = Frame(kind, f.items)
  IN  /\ f.kind # "commands" => Len(f.items) = 1 /\ IsOrder(f.items[1])
      /\ f.kind = "commands" => f.items # <<>> /\ \A x \in Range(f.items) : IsCommand(x)
      /\ f.kind = "begin" => Next1("members")
      /\ f.kind = "members" => Last1("begin") /\ Next1("commit")
      /\ f.kind = "commit" => Last1("members")

Shaped(fs) == \A i \in DOMAIN fs : InTransaction(fs, i)

\* The stage is of the order whose frames are under way, and no order under way
\* was staged or drained before.
Staged ==
  /\ inbox.stage # NoStage <=> up # <<>> /\ up[1].kind \in {"members", "commit"}
  /\ inbox.stage # NoStage => inbox.stage.serial = up[1].items[1].serial
  /\ \A i \in DOMAIN up : up[i].kind = "begin" => up[i].items[1].serial > inbox.last

\* The server's books, and the client's.
Counted == inbox.queued = Orders(Range(queue)) /\ inbox.bytes = Bytes(Range(queue))

Windows ==
  /\ Cardinality(sent) <= OrderWindow /\ Bytes(sent) <= WindowBytes
  /\ \A x \in sent : IsOrder(x)
  /\ \A x \in Range(queue) \cup AllOf(Uplink) : IsOrder(x) => x \in sent /\ x.serial > floor

\* Nothing of this connection's is under way before it is whole, and of the
\* last one's only what the tick in flight held.
Late == AllOf(Behind(unplayed, history)) \cup AllOf(frozen)

Quiet ==
  /\ ~attached => up = <<>> /\ queue = <<>>
  /\ CatchingUp => /\ up = <<>> /\ queue = <<>> /\ News = {}
                   /\ inFlight = 0 /\ sent = {}
                   /\ Commands(Late) <= CapPerTick
  /\ Commands(AllOf(frozen)) <= CapPerTick
  /\ breaks = 0 => link /\ ~CatchingUp

IInv ==
  /\ Typed /\ TicksInStep /\ Numbering /\ Ordering /\ Apart /\ Shaped(up) /\ Staged
  /\ Counted /\ Windows /\ Quiet /\ WindowCovers /\ NothingLeaks

-----------------------------------------------------------------------------
(* Natural numbers: the least of a set, the greatest of a bounded one, and *)
(* induction, for a set instead of a property.                             *)

LEMMA LeastOf ==
  ASSUME NEW S \in SUBSET Nat, S # {}
  PROVE  \E n \in S : \A m \in S : n <= m
  <1> DEFINE R == OpToRel(<, Nat)
  <1>1. PICK n \in S : \A m \in S : ~(<<m, n>> \in R)
    <2> HIDE DEF R
    <2>1. IsWellFoundedOn(R, Nat)
      BY NatLessThanWellFounded DEF R
    <2> QED
      BY <2>1, WFMin
  <1>2. \A m \in S : ~(m < n)
    BY <1>1 DEF OpToRel
  <1> QED
    BY <1>2

LEMMA Induction ==
  ASSUME NEW S, 0 \in S, \A n \in Nat : n \in S => n + 1 \in S
  PROVE  Nat \subseteq S
  <1> SUFFICES ASSUME NEW k \in Nat, k \notin S PROVE FALSE
    OBVIOUS
  <1> DEFINE Out == Nat \ S
  <1>1. PICK n \in Out : \A m \in Out : n <= m
    <2>1. Out \in SUBSET Nat /\ Out # {}
      OBVIOUS
    <2> QED
      BY <2>1, LeastOf
  <1>2. n # 0 /\ n - 1 \in Nat /\ n - 1 \in S
    BY <1>1
  <1> QED
    BY <1>1, <1>2

LEMMA MaxOf ==
  ASSUME NEW N \in Nat, NEW S \in SUBSET (0 .. N), S # {}
  PROVE  Max(S) \in S /\ \A m \in S : m <= Max(S)
  <1> DEFINE Bounds == {b \in Nat : \A m \in S : m <= b}
  <1>1. PICK b \in Bounds : \A c \in Bounds : b <= c
    <2>1. Bounds \in SUBSET Nat /\ N \in Bounds
      OBVIOUS
    <2> HIDE DEF Bounds
    <2> QED
      BY <2>1, LeastOf
  <1>2. b \in S
    <2> SUFFICES ASSUME b \notin S PROVE FALSE
      OBVIOUS
    <2>1. PICK m \in S : TRUE
      OBVIOUS
    <2>2. m < b
      BY <1>1
    <2>3. b - 1 \in Bounds
      BY <1>1, <2>2
    <2> QED
      BY <1>1, <2>3
  <1>3. \E x \in S : \A m \in S : x >= m
    BY <1>1, <1>2
  <1> QED
    BY <1>3 DEF Max

LEMMA MinOfTwo ==
  ASSUME NEW a \in Int, NEW b \in Int
  PROVE  Min({a, b}) = IF a <= b THEN a ELSE b
  <1>1. \E x \in {a, b} : \A y \in {a, b} : x <= y
    OBVIOUS
  <1> QED
    BY <1>1 DEF Min

-----------------------------------------------------------------------------
(* Counts.                                                                 *)

LEMMA SeqElements ==
  ASSUME NEW T, NEW s \in Seq(T)
  PROVE  /\ Len(s) \in Nat /\ DOMAIN s = 1 .. Len(s)
         /\ \A i \in DOMAIN s : s[i] \in T
         /\ Range(s) \subseteq T /\ \A i \in DOMAIN s : s[i] \in Range(s)
         /\ \A x \in Range(s) : \E i \in DOMAIN s : x = s[i]
  BY DEF Range

LEMMA SeqSurjection ==
  ASSUME NEW T, NEW s \in Seq(T)
  PROVE  /\ s \in Surjection(1 .. Len(s), Range(s))
         /\ IsFiniteSet(1 .. Len(s)) /\ Cardinality(1 .. Len(s)) = Len(s)
  <1>1. s \in [1 .. Len(s) -> T]
    BY LenProperties
  <1>2. s \in [1 .. Len(s) -> Range(s)]
    BY <1>1, SeqElements
  <1>3. \A x \in Range(s) : \E i \in 1 .. Len(s) : s[i] = x
    BY SeqElements
  <1>4. IsFiniteSet(1 .. Len(s)) /\ Cardinality(1 .. Len(s)) = Len(s)
    <2>1. 1 \in Int /\ Len(s) \in Int /\ Len(s) \in Nat
      OBVIOUS
    <2>2. /\ IsFiniteSet(1 .. Len(s))
          /\ Cardinality(1 .. Len(s)) = IF 1 > Len(s) THEN 0 ELSE Len(s) - 1 + 1
      BY <2>1, FS_Interval
    <2> QED
      BY <2>1, <2>2
  <1> QED
    BY <1>2, <1>3, <1>4 DEF Surjection

LEMMA RangeFinite ==
  ASSUME NEW T, NEW s \in Seq(T)
  PROVE  IsFiniteSet(Range(s)) /\ Cardinality(Range(s)) <= Len(s)
  BY SeqSurjection, FS_Surjection

LEMMA RangeCardinality ==
  ASSUME NEW T, NEW s \in Seq(T), \A i, j \in DOMAIN s : i # j => s[i] # s[j]
  PROVE  Cardinality(Range(s)) = Len(s)
  <1>1. s \in Injection(1 .. Len(s), Range(s))
    <2>1. s \in [1 .. Len(s) -> Range(s)]
      BY SeqSurjection DEF Surjection
    <2> QED
      BY <2>1, SeqElements DEF Injection, IsInjective
  <1> QED
    BY <1>1, SeqSurjection, FS_Surjection

\* The units of the items' sizes, which Bytes counts.
Units(S) == UNION {{x} \X (1 .. x.bytes) : x \in S}

LEMMA UnitsFinite ==
  ASSUME NEW S, IsFiniteSet(S), \A x \in S : x.bytes \in Nat
  PROVE  IsFiniteSet(Units(S))
  <1> DEFINE P == {{x} \X (1 .. x.bytes) : x \in S}
             f == [x \in S |-> {x} \X (1 .. x.bytes)]
  <1>1. f \in Surjection(S, P)
    BY DEF Surjection
  <1>2. IsFiniteSet(P)
    <2> HIDE DEF P, f
    <2> QED
      BY <1>1, FS_Surjection
  <1>3. ASSUME NEW x \in S PROVE IsFiniteSet({x} \X (1 .. x.bytes))
    <2>1. IsFiniteSet({x}) /\ IsFiniteSet(1 .. x.bytes)
      <3>1. 1 \in Int /\ x.bytes \in Int
        OBVIOUS
      <3> QED
        BY <3>1, FS_Singleton, FS_Interval
    <2> QED
      BY <2>1, FS_Product
  <1>4. \A p \in P : IsFiniteSet(p)
    BY <1>3
  <1> QED
    <2> HIDE DEF P, f
    <2>1. IsFiniteSet(UNION P)
      BY <1>2, <1>4, FS_UNION
    <2> QED
      BY <2>1 DEF Units, P

Sized(S) == IsFiniteSet(S) /\ \A x \in S : x.bytes \in Nat

LEMMA CountTypes ==
  ASSUME NEW S, Sized(S)
  PROVE  /\ Commands(S) \in Nat /\ Orders(S) \in Nat /\ Bytes(S) \in Nat
         /\ Commands({}) = 0 /\ Orders({}) = 0 /\ Bytes({}) = 0
         /\ Cardinality(S) = Commands(S) + Orders(S)
  <1>1. IsFiniteSet({x \in S : IsCommand(x)}) /\ IsFiniteSet({x \in S : IsOrder(x)})
    BY FS_Subset DEF Sized
  <1>2. Commands(S) \in Nat /\ Orders(S) \in Nat
    BY <1>1, FS_CardinalityType DEF Commands, Orders
  <1>3. Bytes(S) \in Nat
    BY UnitsFinite, FS_CardinalityType DEF Bytes, Units, Sized
  <1>4. {x \in {} : IsCommand(x)} = {} /\ {x \in {} : IsOrder(x)} = {} /\ Units({}) = {}
    BY DEF Units
  <1>5. Commands({}) = 0 /\ Orders({}) = 0 /\ Bytes({}) = 0
    BY <1>4, FS_EmptySet DEF Commands, Orders, Bytes, Units
  <1>6. Cardinality(S) = Commands(S) + Orders(S)
    <2> DEFINE A == {x \in S : IsCommand(x)}
               B == {x \in S : IsOrder(x)}
    <2>1. S = A \cup B /\ A \cap B = {}
      BY DEF Sized, IsCommand, IsOrder
    <2> HIDE DEF A, B
    <2>2. Cardinality(A \cup B) = Cardinality(A) + Cardinality(B)
      <3>1. IsFiniteSet(A) /\ IsFiniteSet(B)
        BY <1>1 DEF A, B
      <3>2. Cardinality(A) \in Nat /\ Cardinality(B) \in Nat
        BY <3>1, FS_CardinalityType
      <3> QED
        BY <2>1, <3>1, <3>2, FS_Union, FS_EmptySet
    <2> QED
      BY <2>1, <2>2 DEF A, B, Commands, Orders
  <1> QED
    BY <1>2, <1>3, <1>5, <1>6

LEMMA CountSplit ==
  ASSUME NEW S, NEW T, Sized(S), Sized(T), S \cap T = {}
  PROVE  /\ Sized(S \cup T)
         /\ Commands(S \cup T) = Commands(S) + Commands(T)
         /\ Orders(S \cup T) = Orders(S) + Orders(T)
         /\ Bytes(S \cup T) = Bytes(S) + Bytes(T)
  <1>1. ASSUME NEW A, NEW B, NEW C, IsFiniteSet(A), IsFiniteSet(B), A \cap B = {}, C = A \cup B
        PROVE  Cardinality(C) = Cardinality(A) + Cardinality(B)
    BY <1>1, FS_Union, FS_EmptySet, FS_CardinalityType, SMTT(30)
  <1>2. Sized(S \cup T)
    BY FS_Union DEF Sized
  <1>3. Commands(S \cup T) = Commands(S) + Commands(T)
    <2> DEFINE A == {x \in S : IsCommand(x)}
               B == {x \in T : IsCommand(x)}
               C == {x \in S \cup T : IsCommand(x)}
    <2>1. A \cap B = {} /\ C = A \cup B
      OBVIOUS
    <2>2. IsFiniteSet(A) /\ IsFiniteSet(B)
      BY FS_Subset DEF Sized
    <2> HIDE DEF A, B, C
    <2>3. Cardinality(C) = Cardinality(A) + Cardinality(B)
      BY <1>1, <2>1, <2>2
    <2> QED
      BY <2>3 DEF A, B, C, Commands
  <1>4. Orders(S \cup T) = Orders(S) + Orders(T)
    <2> DEFINE A == {x \in S : IsOrder(x)}
               B == {x \in T : IsOrder(x)}
               C == {x \in S \cup T : IsOrder(x)}
    <2>1. A \cap B = {} /\ C = A \cup B
      OBVIOUS
    <2>2. IsFiniteSet(A) /\ IsFiniteSet(B)
      BY FS_Subset DEF Sized
    <2> HIDE DEF A, B, C
    <2>3. Cardinality(C) = Cardinality(A) + Cardinality(B)
      BY <1>1, <2>1, <2>2
    <2> QED
      BY <2>3 DEF A, B, C, Orders
  <1>5. Bytes(S \cup T) = Bytes(S) + Bytes(T)
    <2>1. Units(S) \cap Units(T) = {} /\ Units(S \cup T) = Units(S) \cup Units(T)
      BY DEF Units
    <2>2. IsFiniteSet(Units(S)) /\ IsFiniteSet(Units(T))
      BY UnitsFinite DEF Sized
    <2>3. Cardinality(Units(S \cup T)) = Cardinality(Units(S)) + Cardinality(Units(T))
      BY <1>1, <2>1, <2>2
    <2> QED
      BY <2>3 DEF Units, Bytes
  <1> QED
    BY <1>2, <1>3, <1>4, <1>5

LEMMA CountFewer ==
  ASSUME NEW S, NEW T, Sized(T), S \subseteq T
  PROVE  /\ Sized(S)
         /\ Commands(S) <= Commands(T) /\ Orders(S) <= Orders(T) /\ Bytes(S) <= Bytes(T)
         /\ Cardinality(S) <= Cardinality(T)
         /\ Commands(T \ S) = Commands(T) - Commands(S)
         /\ Orders(T \ S) = Orders(T) - Orders(S)
         /\ Bytes(T \ S) = Bytes(T) - Bytes(S)
  <1>1. Sized(S) /\ Sized(T \ S) /\ Cardinality(S) <= Cardinality(T)
    BY FS_Subset DEF Sized
  <1>2. S \cap (T \ S) = {} /\ S \cup (T \ S) = T
    OBVIOUS
  <1>3. /\ Commands(T) = Commands(S) + Commands(T \ S)
        /\ Orders(T) = Orders(S) + Orders(T \ S)
        /\ Bytes(T) = Bytes(S) + Bytes(T \ S)
    BY <1>1, <1>2, CountSplit
  <1> QED
    BY <1>1, <1>3, CountTypes

\* One item more.
LEMMA CountOne ==
  ASSUME NEW x, x.bytes \in Nat
  PROVE  /\ Sized({x})
         /\ Commands({x}) = IF IsCommand(x) THEN 1 ELSE 0
         /\ Orders({x}) = IF IsOrder(x) THEN 1 ELSE 0
         /\ Bytes({x}) = x.bytes
  <1>1. Sized({x})
    BY FS_Singleton DEF Sized
  <1>2. {y \in {x} : IsCommand(y)} = IF IsCommand(x) THEN {x} ELSE {}
    OBVIOUS
  <1>3. {y \in {x} : IsOrder(y)} = IF IsOrder(x) THEN {x} ELSE {}
    OBVIOUS
  <1>4. Bytes({x}) = x.bytes
    <2> DEFINE f == [b \in 1 .. x.bytes |-> <<x, b>>]
    <2>1. Units({x}) = {x} \X (1 .. x.bytes)
      BY DEF Units
    <2>2. f \in Bijection(1 .. x.bytes, Units({x}))
      <3>1. f \in [1 .. x.bytes -> Units({x})]
        BY <2>1
      <3>2. \A a, b \in 1 .. x.bytes : f[a] = f[b] => a = b
        OBVIOUS
      <3>3. \A u \in Units({x}) : \E b \in 1 .. x.bytes : f[b] = u
        BY <2>1
      <3> HIDE DEF f
      <3> QED
        BY <3>1, <3>2, <3>3 DEF Bijection, Injection, Surjection, IsInjective
    <2>3. Cardinality(1 .. x.bytes) = x.bytes /\ IsFiniteSet(1 .. x.bytes)
      BY FS_Interval, SMTT(30)
    <2>4. Cardinality(Units({x})) = x.bytes
      <3> HIDE DEF f
      <3> QED
        BY <2>2, <2>3, FS_Bijection DEF ExistsBijection
    <2> QED
      BY <2>4 DEF Bytes, Units
  <1> QED
    BY <1>1, <1>2, <1>3, <1>4, FS_Singleton, FS_EmptySet DEF Commands, Orders

-----------------------------------------------------------------------------
(* Runs of items, and several of them.                                     *)

LEMMA PartsOf ==
  ASSUME NEW T, NEW s \in Seq(T), NEW n \in 0 .. Len(s)
  PROVE  /\ First(s, n) \in Seq(T) /\ Len(First(s, n)) = n
         /\ \A i \in 1 .. n : First(s, n)[i] = s[i]
         /\ Behind(s, n) \in Seq(T) /\ Len(Behind(s, n)) = Len(s) - n
         /\ \A i \in 1 .. Len(s) - n : Behind(s, n)[i] = s[i + n]
  <1>1. Len(s) \in Nat /\ n \in Nat /\ \A i \in 1 .. Len(s) : s[i] \in T
    BY SeqElements
  <1>2. /\ SubSeq(s, 1, n) \in Seq(T) /\ Len(SubSeq(s, 1, n)) = n
        /\ \A i \in 1 .. n : SubSeq(s, 1, n)[i] = s[i]
    <2>1. \A i \in 1 .. n : s[i] \in T
      BY <1>1
    <2>2. /\ SubSeq(s, 1, n) \in Seq(T) /\ Len(SubSeq(s, 1, n)) = IF 1 <= n THEN n - 1 + 1 ELSE 0
          /\ \A i \in 1 .. n - 1 + 1 : SubSeq(s, 1, n)[i] = s[1 + i - 1]
      BY <2>1, <1>1, SubSeqProperties
    <2> QED
      BY <2>2, <1>1
  <1>3. /\ SubSeq(s, n + 1, Len(s)) \in Seq(T) /\ Len(SubSeq(s, n + 1, Len(s))) = Len(s) - n
        /\ \A i \in 1 .. Len(s) - n : SubSeq(s, n + 1, Len(s))[i] = s[i + n]
    <2>1. \A i \in n + 1 .. Len(s) : s[i] \in T
      BY <1>1
    <2>2. n + 1 \in Int /\ Len(s) \in Int
      BY <1>1
    <2>3. /\ SubSeq(s, n + 1, Len(s)) \in Seq(T)
          /\ Len(SubSeq(s, n + 1, Len(s))) = IF n + 1 <= Len(s) THEN Len(s) - (n + 1) + 1 ELSE 0
          /\ \A i \in 1 .. Len(s) - (n + 1) + 1 : SubSeq(s, n + 1, Len(s))[i] = s[n + 1 + i - 1]
      BY <2>1, <2>2, SubSeqProperties
    <2> QED
      BY <2>3, <1>1
  <1> QED
    BY <1>2, <1>3 DEF First, Behind

LEMMA PartRanges ==
  ASSUME NEW T, NEW s \in Seq(T), NEW n \in 0 .. Len(s)
  PROVE  /\ Range(s) = Range(First(s, n)) \cup Range(Behind(s, n))
         /\ Sorted(s) => /\ Sorted(First(s, n)) /\ Sorted(Behind(s, n))
                         /\ Before(Range(First(s, n)), Range(Behind(s, n)))
  <1> DEFINE f == First(s, n)
             b == Behind(s, n)
  <1>1. /\ f \in Seq(T) /\ Len(f) = n /\ b \in Seq(T) /\ Len(b) = Len(s) - n
        /\ \A i \in 1 .. n : f[i] = s[i]
        /\ \A i \in 1 .. Len(s) - n : b[i] = s[i + n]
    BY PartsOf
  <1> HIDE DEF f, b
  <1>2. /\ DOMAIN s = 1 .. Len(s) /\ DOMAIN f = 1 .. n /\ DOMAIN b = 1 .. Len(s) - n
        /\ Len(s) \in Nat /\ n \in Nat
    BY <1>1, SeqElements
  <1>3. ASSUME NEW x \in Range(s) PROVE x \in Range(f) \cup Range(b)
    <2>1. PICK i \in 1 .. Len(s) : x = s[i]
      BY <1>2, SeqElements
    <2>2. CASE i <= n
      BY <1>1, <1>2, <2>1, <2>2, SMTT(30) DEF Range
    <2>3. CASE i > n
      <3>1. i - n \in 1 .. Len(s) - n /\ b[i - n] = x
        BY <1>1, <1>2, <2>1, <2>3
      <3> QED
        BY <1>2, <3>1 DEF Range
    <2> QED
      BY <2>2, <2>3, <1>2
  <1>4. \A x \in Range(f) : x \in Range(s)
    BY <1>1, <1>2 DEF Range
  <1>5. ASSUME NEW x \in Range(b) PROVE x \in Range(s)
    <2>1. PICK i \in 1 .. Len(s) - n : x = b[i]
      BY <1>2 DEF Range
    <2>2. i + n \in 1 .. Len(s) /\ x = s[i + n]
      BY <1>1, <1>2, <2>1
    <2> QED
      BY <1>2, <2>2 DEF Range
  <1>6. ASSUME Sorted(s) PROVE Sorted(f) /\ Sorted(b) /\ Before(Range(f), Range(b))
    <2>1. Sorted(f)
      <3> SUFFICES ASSUME NEW i \in 1 .. n, NEW j \in 1 .. n, i < j PROVE f[i].n < f[j].n
        BY <1>2 DEF Sorted
      <3>1. i \in DOMAIN s /\ j \in DOMAIN s
        BY <1>2
      <3> QED
        BY <1>1, <1>6, <3>1 DEF Sorted
    <2>2. Sorted(b)
      <3> SUFFICES ASSUME NEW i \in 1 .. Len(s) - n, NEW j \in 1 .. Len(s) - n, i < j
                   PROVE  b[i].n < b[j].n
        BY <1>2 DEF Sorted
      <3>1. i + n \in DOMAIN s /\ j + n \in DOMAIN s /\ i + n < j + n
        BY <1>2
      <3> QED
        BY <1>1, <1>6, <3>1 DEF Sorted
    <2>3. ASSUME NEW i \in 1 .. n, NEW j \in 1 .. Len(s) - n PROVE f[i].n < b[j].n
      <3>1. i \in DOMAIN s /\ j + n \in DOMAIN s /\ i < j + n
        BY <1>2
      <3> QED
        BY <1>1, <1>6, <3>1 DEF Sorted
    <2>4. Before(Range(f), Range(b))
      BY <2>3, <1>2 DEF Before, Range
    <2> QED
      BY <2>1, <2>2, <2>4
  <1> QED
    BY <1>3, <1>4, <1>5, <1>6 DEF f, b

LEMMA AppendRange ==
  ASSUME NEW T, NEW s \in Seq(T), NEW x \in T
  PROVE  /\ Append(s, x) \in Seq(T)
         /\ Range(Append(s, x)) = Range(s) \cup {x}
         /\ Sorted(s) /\ (\A y \in Range(s) : y.n < x.n) => Sorted(Append(s, x))
  <1>1. /\ Append(s, x) \in Seq(T) /\ Len(Append(s, x)) = Len(s) + 1
        /\ \A i \in 1 .. Len(s) : Append(s, x)[i] = s[i]
        /\ Append(s, x)[Len(s) + 1] = x
    BY AppendProperties
  <1>2. /\ DOMAIN Append(s, x) = 1 .. Len(s) + 1 /\ DOMAIN s = 1 .. Len(s) /\ Len(s) \in Nat
    BY <1>1, SeqElements
  <1>3. Range(Append(s, x)) = Range(s) \cup {x}
    BY <1>1, <1>2 DEF Range
  <1>4. ASSUME Sorted(s), \A y \in Range(s) : y.n < x.n
        PROVE  Sorted(Append(s, x))
    <2> SUFFICES ASSUME NEW i \in 1 .. Len(s) + 1, NEW j \in 1 .. Len(s) + 1, i < j
                 PROVE  Append(s, x)[i].n < Append(s, x)[j].n
      BY <1>2 DEF Sorted
    <2>1. CASE j <= Len(s)
      BY <1>1, <1>2, <1>4, <2>1 DEF Sorted
    <2>2. CASE j = Len(s) + 1
      <3>1. s[i] \in Range(s) /\ Append(s, x)[i] = s[i]
        BY <1>1, <1>2, <2>2 DEF Range
      <3> QED
        BY <1>1, <1>4, <2>2, <3>1
    <2> QED
      BY <1>2, <2>1, <2>2
  <1> QED
    BY <1>1, <1>3, <1>4

LEMMA JoinSorted ==
  ASSUME NEW T, NEW s \in Seq(T), NEW t \in Seq(T)
  PROVE  /\ s \o t \in Seq(T)
         /\ Range(s \o t) = Range(s) \cup Range(t)
         /\ Sorted(s) /\ Sorted(t) /\ Before(Range(s), Range(t)) => Sorted(s \o t)
  <1>1. /\ s \o t \in Seq(T) /\ Len(s \o t) = Len(s) + Len(t)
        /\ \A i \in 1 .. Len(s) + Len(t) : (s \o t)[i] = IF i <= Len(s) THEN s[i] ELSE t[i - Len(s)]
    BY ConcatProperties
  <1>2. /\ DOMAIN (s \o t) = 1 .. Len(s) + Len(t) /\ DOMAIN s = 1 .. Len(s) /\ DOMAIN t = 1 .. Len(t)
        /\ Len(s) \in Nat /\ Len(t) \in Nat
    BY <1>1, SeqElements
  <1>3. ASSUME Sorted(s), Sorted(t), Before(Range(s), Range(t))
        PROVE  Sorted(s \o t)
    <2> SUFFICES ASSUME NEW i \in 1 .. Len(s) + Len(t), NEW j \in 1 .. Len(s) + Len(t), i < j
                 PROVE  (s \o t)[i].n < (s \o t)[j].n
      BY <1>2 DEF Sorted
    <2>1. CASE j <= Len(s)
      BY <1>1, <1>2, <1>3, <2>1 DEF Sorted
    <2>2. CASE i > Len(s)
      <3>1. /\ i - Len(s) \in DOMAIN t /\ j - Len(s) \in DOMAIN t /\ i - Len(s) < j - Len(s)
            /\ (s \o t)[i] = t[i - Len(s)] /\ (s \o t)[j] = t[j - Len(s)]
        BY <1>1, <1>2, <2>2
      <3> QED
        BY <1>3, <3>1 DEF Sorted
    <2>3. CASE i <= Len(s) /\ j > Len(s)
      <3>1. /\ (s \o t)[i] = s[i] /\ (s \o t)[j] = t[j - Len(s)]
            /\ i \in DOMAIN s /\ j - Len(s) \in DOMAIN t
        BY <1>1, <1>2, <2>3
      <3>2. s[i] \in Range(s) /\ t[j - Len(s)] \in Range(t)
        BY <3>1 DEF Range
      <3> QED
        BY <1>3, <3>1, <3>2 DEF Before
    <2> QED
      BY <1>2, <2>1, <2>2, <2>3
  <1> QED
    BY <1>1, <1>3, RangeConcatenation

\* The items of several runs, taken apart and put together as the runs are.
LEMMA AllOfElements ==
  ASSUME NEW T, NEW r \in Seq(Seq(T))
  PROVE  /\ AllOf(r) = UNION {Range(q) : q \in Range(r)}
         /\ AllOf(r) \subseteq T
         /\ \A x : x \in AllOf(r) <=> \E i \in DOMAIN r : x \in Range(r[i])
         /\ IsFiniteSet(AllOf(r))
  <1>1. AllOf(r) = UNION {Range(q) : q \in Range(r)}
    <2>1. {Range(r[i]) : i \in DOMAIN r} = {Range(q) : q \in Range(r)}
      <3>1. \A i \in DOMAIN r : r[i] \in Range(r)
        BY DEF Range
      <3>2. \A q \in Range(r) : \E i \in DOMAIN r : q = r[i]
        BY DEF Range
      <3> QED
        BY <3>1, <3>2
    <2> QED
      BY <2>1 DEF AllOf
  <1>2. \A i \in DOMAIN r : r[i] \in Seq(T) /\ Range(r[i]) \subseteq T
    <2>1. \A i \in DOMAIN r : r[i] \in Seq(T)
      BY SeqElements
    <2> QED
      BY <2>1, SeqElements
  <1>3. AllOf(r) \subseteq T /\ \A x : x \in AllOf(r) <=> \E i \in DOMAIN r : x \in Range(r[i])
    BY <1>2 DEF AllOf
  <1>4. IsFiniteSet(AllOf(r))
    <2> DEFINE P == {Range(r[i]) : i \in DOMAIN r}
               f == [i \in DOMAIN r |-> Range(r[i])]
    <2>1. f \in Surjection(DOMAIN r, P)
      BY DEF Surjection
    <2>2. IsFiniteSet(DOMAIN r)
      BY SeqElements, SeqSurjection
    <2>3. IsFiniteSet(P)
      <3> HIDE DEF P, f
      <3> QED
        BY <2>1, <2>2, FS_Surjection
    <2>4. \A p \in P : IsFiniteSet(p)
      BY <1>2, RangeFinite
    <2>5. IsFiniteSet(UNION P)
      <3> HIDE DEF P, f
      <3> QED
        BY <2>3, <2>4, FS_UNION
    <2> QED
      BY <2>5 DEF AllOf, P
  <1> QED
    BY <1>1, <1>3, <1>4

LEMMA AllOfParts ==
  ASSUME NEW T, NEW r \in Seq(Seq(T)), NEW n \in 0 .. Len(r)
  PROVE  AllOf(r) = AllOf(First(r, n)) \cup AllOf(Behind(r, n))
  <1>1. First(r, n) \in Seq(Seq(T)) /\ Behind(r, n) \in Seq(Seq(T))
    BY PartsOf
  <1>2. Range(r) = Range(First(r, n)) \cup Range(Behind(r, n))
    BY PartRanges
  <1> QED
    BY <1>1, <1>2, AllOfElements

LEMMA AllOfJoined ==
  ASSUME NEW T, NEW r \in Seq(Seq(T)), NEW q \in Seq(Seq(T))
  PROVE  AllOf(r \o q) = AllOf(r) \cup AllOf(q)
  <1>1. r \o q \in Seq(Seq(T)) /\ Range(r \o q) = Range(r) \cup Range(q)
    BY JoinSorted
  <1>2. /\ AllOf(r \o q) = UNION {Range(s) : s \in Range(r \o q)}
        /\ AllOf(r) = UNION {Range(s) : s \in Range(r)}
        /\ AllOf(q) = UNION {Range(s) : s \in Range(q)}
    BY <1>1, AllOfElements
  <1> QED
    BY <1>1, <1>2

LEMMA AllOfFew ==
  ASSUME NEW T, NEW s \in Seq(T)
  PROVE  AllOf(<<>>) = {} /\ AllOf(<<s>>) = Range(s)
  BY DEF AllOf

LEMMA RisingParts ==
  ASSUME NEW T, NEW r \in Seq(Seq(T)), NEW n \in 0 .. Len(r), Rising(r)
  PROVE  /\ Rising(First(r, n)) /\ Rising(Behind(r, n))
         /\ Before(AllOf(First(r, n)), AllOf(Behind(r, n)))
  <1> DEFINE f == First(r, n)
             b == Behind(r, n)
  <1>1. /\ f \in Seq(Seq(T)) /\ Len(f) = n /\ b \in Seq(Seq(T)) /\ Len(b) = Len(r) - n
        /\ \A i \in 1 .. n : f[i] = r[i]
        /\ \A i \in 1 .. Len(r) - n : b[i] = r[i + n]
    BY PartsOf
  <1> HIDE DEF f, b
  <1>2. /\ DOMAIN r = 1 .. Len(r) /\ DOMAIN f = 1 .. n /\ DOMAIN b = 1 .. Len(r) - n
        /\ Len(r) \in Nat /\ n \in Nat
    BY <1>1, SeqElements
  <1>3. /\ \A i \in 1 .. n : i \in DOMAIN r
        /\ \A i \in 1 .. Len(r) - n : i + n \in DOMAIN r
        /\ \A i, j \in 1 .. Len(r) - n : i < j => i + n < j + n
        /\ \A i \in 1 .. n, j \in 1 .. Len(r) - n : i < j + n
    BY <1>2
  <1>4. Rising(f)
    <2>1. \A i \in 1 .. n : Sorted(f[i])
      BY <1>1, <1>3 DEF Rising
    <2>2. ASSUME NEW i \in 1 .. n, NEW j \in 1 .. n, i < j
          PROVE  Before(Range(f[i]), Range(f[j]))
      BY <1>1, <1>3, <2>2 DEF Rising
    <2> QED
      BY <1>2, <2>1, <2>2 DEF Rising
  <1>5. Rising(b)
    <2>1. ASSUME NEW i \in 1 .. Len(r) - n PROVE Sorted(b[i])
      BY <1>1, <1>3 DEF Rising
    <2>2. ASSUME NEW i \in 1 .. Len(r) - n, NEW j \in 1 .. Len(r) - n, i < j
          PROVE  Before(Range(b[i]), Range(b[j]))
      <3>1. Before(Range(r[i + n]), Range(r[j + n]))
        BY <1>3, <2>2 DEF Rising
      <3> QED
        BY <1>1, <3>1
    <2> QED
      BY <1>2, <2>1, <2>2 DEF Rising
  <1>6. ASSUME NEW x \in AllOf(f), NEW y \in AllOf(b) PROVE x.n < y.n
    <2>1. PICK i \in 1 .. n : x \in Range(f[i])
      BY <1>2 DEF AllOf
    <2>2. PICK j \in 1 .. Len(r) - n : y \in Range(b[j])
      BY <1>2 DEF AllOf
    <2>3. Before(Range(r[i]), Range(r[j + n]))
      BY <1>3 DEF Rising
    <2>4. x \in Range(r[i]) /\ y \in Range(r[j + n])
      BY <1>1, <2>1, <2>2
    <2> QED
      BY <2>3, <2>4 DEF Before
  <1> QED
    BY <1>4, <1>5, <1>6 DEF Before, f, b

LEMMA RisingJoined ==
  ASSUME NEW T, NEW r \in Seq(Seq(T)), NEW q \in Seq(Seq(T)),
         Rising(r), Rising(q), Before(AllOf(r), AllOf(q))
  PROVE  Rising(r \o q)
  <1>1. /\ r \o q \in Seq(Seq(T)) /\ Len(r \o q) = Len(r) + Len(q)
        /\ \A i \in 1 .. Len(r) + Len(q) : (r \o q)[i] = IF i <= Len(r) THEN r[i] ELSE q[i - Len(r)]
    BY ConcatProperties
  <1>2. /\ DOMAIN (r \o q) = 1 .. Len(r) + Len(q) /\ DOMAIN r = 1 .. Len(r) /\ DOMAIN q = 1 .. Len(q)
        /\ Len(r) \in Nat /\ Len(q) \in Nat
    BY <1>1, SeqElements
  <1>3. ASSUME NEW i \in 1 .. Len(r) + Len(q) PROVE Sorted((r \o q)[i])
    <2>1. CASE i <= Len(r)
      <3>1. i \in DOMAIN r /\ (r \o q)[i] = r[i]
        BY <1>1, <1>2, <2>1
      <3> QED
        BY <3>1 DEF Rising
    <2>2. CASE i > Len(r)
      <3>1. i - Len(r) \in DOMAIN q /\ (r \o q)[i] = q[i - Len(r)]
        BY <1>1, <1>2, <2>2
      <3> QED
        BY <3>1 DEF Rising
    <2> QED
      BY <1>2, <2>1, <2>2
  <1>4. ASSUME NEW i \in 1 .. Len(r) + Len(q), NEW j \in 1 .. Len(r) + Len(q), i < j
        PROVE  Before(Range((r \o q)[i]), Range((r \o q)[j]))
    <2>1. CASE j <= Len(r)
      <3>1. i \in DOMAIN r /\ j \in DOMAIN r /\ (r \o q)[i] = r[i] /\ (r \o q)[j] = r[j]
        BY <1>1, <1>2, <1>4, <2>1
      <3> QED
        BY <1>4, <3>1 DEF Rising
    <2>2. CASE i > Len(r)
      <3>1. /\ i - Len(r) \in DOMAIN q /\ j - Len(r) \in DOMAIN q /\ i - Len(r) < j - Len(r)
            /\ (r \o q)[i] = q[i - Len(r)] /\ (r \o q)[j] = q[j - Len(r)]
        BY <1>1, <1>2, <1>4, <2>2
      <3> QED
        BY <3>1 DEF Rising
    <2>3. CASE i <= Len(r) /\ j > Len(r)
      <3>1. /\ (r \o q)[i] = r[i] /\ (r \o q)[j] = q[j - Len(r)]
            /\ i \in DOMAIN r /\ j - Len(r) \in DOMAIN q
        BY <1>1, <1>2, <2>3
      <3>2. Range(r[i]) \subseteq AllOf(r) /\ Range(q[j - Len(r)]) \subseteq AllOf(q)
        BY <3>1 DEF AllOf
      <3> QED
        BY <3>1, <3>2 DEF Before
    <2> QED
      BY <1>2, <2>1, <2>2, <2>3
  <1> QED
    BY <1>2, <1>3, <1>4 DEF Rising

LEMMA RisingOne ==
  ASSUME NEW T, NEW s \in Seq(T), Sorted(s)
  PROVE  Rising(<<s>>) /\ Rising(<<>>)
  BY DEF Rising

\* Runs apart in the order of issue share no item.
LEMMA BeforeApart ==
  ASSUME NEW S, NEW T, Before(S, T), \A x \in S : x.n \in Nat
  PROVE  S \cap T = {}
  BY DEF Before

LEMMA BeforePart ==
  ASSUME NEW S, NEW T, NEW U, NEW V, Before(S, T), U \subseteq S, V \subseteq T
  PROVE  Before(U, V)
  BY DEF Before

\* A queue of sorted items holds no item twice.
LEMMA SortedLen ==
  ASSUME NEW T, NEW s \in Seq(T), Sorted(s), \A x \in T : x.n \in Nat
  PROVE  Cardinality(Range(s)) = Len(s)
  <1>1. ASSUME NEW i \in DOMAIN s, NEW j \in DOMAIN s, i # j PROVE s[i] # s[j]
    <2>1. i \in Nat /\ j \in Nat /\ s[i].n \in Nat
      BY SeqElements
    <2> QED
      BY <1>1, <2>1 DEF Sorted
  <1> QED
    BY <1>1, RangeCardinality

-----------------------------------------------------------------------------
(* The operators of the model.                                             *)

LEMMA InputSized ==
  ASSUME NEW S \in SUBSET Input, IsFiniteSet(S)
  PROVE  Sized(S) /\ \A x \in S : x.n \in Nat /\ x.serial \in Nat /\ x.bytes \in Nat
  <1>1. \A b \in {0} \cup OrderSizes : b \in Nat
    OBVIOUS
  <1>2. ASSUME NEW x \in S PROVE x.n \in Nat /\ x.serial \in Nat /\ x.bytes \in Nat
    <2>1. x \in Input
      OBVIOUS
    <2>2. x.n \in Nat /\ x.serial \in Nat /\ x.bytes \in {0} \cup OrderSizes
      BY <2>1 DEF Input
    <2> QED
      BY <1>1, <2>2
  <1> QED
    BY <1>2 DEF Sized

LEMMA RunSized ==
  ASSUME NEW s \in Seq(Input)
  PROVE  Sized(Range(s)) /\ Range(s) \in SUBSET Input
  <1>1. Range(s) \in SUBSET Input /\ IsFiniteSet(Range(s))
    BY SeqElements, RangeFinite
  <1> QED
    BY <1>1, InputSized

LEMMA RunsSized ==
  ASSUME NEW r \in Seq(Seq(Input))
  PROVE  Sized(AllOf(r)) /\ AllOf(r) \in SUBSET Input
  <1>1. AllOf(r) \in SUBSET Input /\ IsFiniteSet(AllOf(r))
    BY AllOfElements
  <1> QED
    BY <1>1, InputSized

LEMMA LongestRun ==
  ASSUME NEW N \in Nat, NEW G \in SUBSET (0 .. N), 0 \in G
  PROVE  Max({n \in 0 .. N : \A m \in 0 .. n : m \in G}) \in G
  <1> DEFINE S == {n \in 0 .. N : \A m \in 0 .. n : m \in G}
  <1>1. S \in SUBSET (0 .. N) /\ 0 \in S
    OBVIOUS
  <1>2. Max(S) \in S
    <2> HIDE DEF S
    <2> QED
      BY <1>1, MaxOf
  <1> QED
    BY <1>2

LEMMA EmptyRun ==
  ASSUME NEW s
  PROVE  First(s, 0) = <<>> /\ Range(<<>>) = {} /\ <<>> \in Seq(Input) /\ Sorted(<<>>)
  BY SubSeqEmpty DEF First, Range, Sorted

LEMMA DrainedFits ==
  ASSUME queue \in Seq(Input), NEW room \in Nat
  PROVE  /\ Drained(room) \in 0 .. Len(queue)
         /\ Commands(Range(First(queue, Drained(room)))) <= CapPerTick
  <1> DEFINE Fits(m) == /\ Commands(Range(First(queue, m))) <= CapPerTick
                        /\ Bytes(Range(First(queue, m))) <= room
             G == {m \in 0 .. Len(queue) : Fits(m)}
  <1>1. Len(queue) \in Nat
    BY SeqElements
  <1>2. Commands({}) = 0 /\ Bytes({}) = 0
    BY EmptyRun, RunSized, CountTypes
  <1>3. 0 \in G
    <2>1. Range(First(queue, 0)) = {}
      BY EmptyRun
    <2>2. Fits(0)
      BY <1>2, <2>1, SMTT(30)
    <2> QED
      BY <1>1, <2>2
  <1>4. Drained(room) = Max({n \in 0 .. Len(queue) : \A m \in 0 .. n : Fits(m)})
    BY DEF Drained, LongestPrefix
  <1>5. {n \in 0 .. Len(queue) : \A m \in 0 .. n : Fits(m)} = {n \in 0 .. Len(queue) : \A m \in 0 .. n : m \in G}
    <2> HIDE DEF Fits
    <2> QED
      BY <1>1
  <1>6. Drained(room) \in G
    <2> HIDE DEF Fits, G
    <2>1. G \in SUBSET (0 .. Len(queue))
      BY DEF G
    <2> QED
      BY <1>1, <1>3, <1>4, <1>5, <2>1, LongestRun
  <1> QED
    BY <1>6

LEMMA SendableFits ==
  ASSUME outbox \in Seq(Input), NEW n,
         CreditNow \in Nat, InFlightAfter(n) \in 0 .. QueueCap,
         Cardinality(SentAfter(n)) \in 0 .. OrderWindow, Bytes(SentAfter(n)) \in 0 .. WindowBytes
  PROVE  LET k == Sendable(n)
             items == Range(First(outbox, k))
         IN  /\ k \in 0 .. Len(outbox)
             /\ CatchingUp => k = 0
             /\ Commands(items) <= CreditNow /\ InFlightAfter(n) + Commands(items) <= QueueCap
             /\ Orders(items) + Cardinality(SentAfter(n)) <= OrderWindow
             /\ Bytes(items) + Bytes(SentAfter(n)) <= WindowBytes
  <1> DEFINE Fits(m) == LET items == Range(First(outbox, m))
                        IN  /\ Commands(items) <= Min({CreditNow, Less(QueueCap, InFlightAfter(n))})
                            /\ Orders(items) + Cardinality(SentAfter(n)) <= OrderWindow
                            /\ Bytes(items) + Bytes(SentAfter(n)) <= WindowBytes
             G == {m \in 0 .. Len(outbox) : Fits(m)}
  <1>1. Len(outbox) \in Nat
    BY SeqElements
  <1>2. /\ Less(QueueCap, InFlightAfter(n)) = QueueCap - InFlightAfter(n)
        /\ Min({CreditNow, Less(QueueCap, InFlightAfter(n))})
             = IF CreditNow <= QueueCap - InFlightAfter(n) THEN CreditNow ELSE QueueCap - InFlightAfter(n)
    <2>1. Less(QueueCap, InFlightAfter(n)) = QueueCap - InFlightAfter(n)
      BY DEF Less
    <2> QED
      BY <2>1, MinOfTwo
  <1>3. Commands({}) = 0 /\ Orders({}) = 0 /\ Bytes({}) = 0
    BY EmptyRun, RunSized, CountTypes
  <1>4. Fits(0) /\ 0 \in G
    <2> DEFINE items == Range(First(outbox, 0))
    <2>1. Commands(items) = 0 /\ Orders(items) = 0 /\ Bytes(items) = 0
      BY <1>3, EmptyRun
    <2>2. 0 <= Min({CreditNow, Less(QueueCap, InFlightAfter(n))})
      BY <1>2
    <2>3. Fits(0)
      <3> HIDE DEF items
      <3> SUFFICES /\ Commands(items) <= Min({CreditNow, Less(QueueCap, InFlightAfter(n))})
                   /\ Orders(items) + Cardinality(SentAfter(n)) <= OrderWindow
                   /\ Bytes(items) + Bytes(SentAfter(n)) <= WindowBytes
        BY DEF items
      <3> QED
        BY <2>1, <2>2
    <2> QED
      BY <1>1, <2>3
  <1>5. CASE CatchingUp
    <2>1. Sendable(n) = 0
      BY <1>5 DEF Sendable
    <2> DEFINE items == Range(First(outbox, Sendable(n)))
    <2>2. Commands(items) = 0 /\ Orders(items) = 0 /\ Bytes(items) = 0
      BY <1>3, <2>1, EmptyRun
    <2> QED
      <3> HIDE DEF items
      <3> SUFFICES /\ Sendable(n) \in 0 .. Len(outbox)
                   /\ CatchingUp => Sendable(n) = 0
                   /\ Commands(items) <= CreditNow /\ InFlightAfter(n) + Commands(items) <= QueueCap
                   /\ Orders(items) + Cardinality(SentAfter(n)) <= OrderWindow
                   /\ Bytes(items) + Bytes(SentAfter(n)) <= WindowBytes
        BY DEF items
      <3> QED
        BY <1>1, <2>1, <2>2
  <1>6. CASE ~CatchingUp
    <2>1. Sendable(n) = Max({j \in 0 .. Len(outbox) : \A m \in 0 .. j : Fits(m)})
      BY <1>6 DEF Sendable, LongestPrefix
    <2>2. {j \in 0 .. Len(outbox) : \A m \in 0 .. j : Fits(m)} = {j \in 0 .. Len(outbox) : \A m \in 0 .. j : m \in G}
      <3> HIDE DEF Fits
      <3> QED
        BY <1>1
    <2>3. Sendable(n) \in G
      <3> HIDE DEF Fits, G
      <3>1. G \in SUBSET (0 .. Len(outbox))
        BY DEF G
      <3> QED
        BY <1>1, <1>4, <2>1, <2>2, <3>1, LongestRun, ZenonT(60)
    <2>4. First(outbox, Sendable(n)) \in Seq(Input)
      BY <2>3, PartsOf
    <2>5. Commands(Range(First(outbox, Sendable(n)))) \in Nat
      BY <2>4, RunSized, CountTypes
    <2> QED
      BY <1>2, <1>6, <2>3, <2>5
  <1> QED
    BY <1>5, <1>6

\* The same items by another serial count as much.
LEMMA CountsByPlace ==
  ASSUME NEW s \in Seq(Input), NEW t \in Seq(Input), Sorted(s), Len(t) = Len(s),
         \A i \in 1 .. Len(s) : t[i].n = s[i].n /\ t[i].bytes = s[i].bytes
  PROVE  /\ Sorted(t)
         /\ Commands(Range(t)) = Commands(Range(s)) /\ Orders(Range(t)) = Orders(Range(s))
         /\ Bytes(Range(t)) = Bytes(Range(s))
  <1> DEFINE D == 1 .. Len(s)
  <1>1. /\ DOMAIN s = D /\ DOMAIN t = D /\ Len(s) \in Nat
        /\ \A i \in D : s[i] \in Input /\ t[i] \in Input
    BY SeqElements
  <1>2. Sorted(t)
    BY <1>1 DEF Sorted
  <1> DEFINE f == [x \in Range(s) |-> t[CHOOSE i \in D : s[i] = x]]
  <1>3. \A i, j \in D : (s[i] = s[j] => i = j) /\ (t[i] = t[j] => i = j)
    <2>1. \A i, j \in D : s[i].n \in Nat /\ t[i].n \in Nat /\ (i < j \/ j < i \/ i = j)
      BY <1>1 DEF Input
    <2> QED
      BY <1>1, <1>2, <2>1 DEF Sorted
  <1>4. \A i \in D : f[s[i]] = t[i]
    <2> SUFFICES ASSUME NEW i \in D PROVE f[s[i]] = t[i]
      OBVIOUS
    <2>1. s[i] \in Range(s)
      BY <1>1 DEF Range
    <2>2. (CHOOSE j \in D : s[j] = s[i]) = i
      BY <1>3
    <2> QED
      BY <2>1, <2>2
  <1> HIDE DEF f
  <1>5. ASSUME NEW A, NEW B, A \subseteq Range(s),
               \A i \in D : s[i] \in A <=> t[i] \in B, B \subseteq Range(t)
        PROVE  Cardinality(B) = Cardinality(A)
    <2> DEFINE g == [x \in A |-> f[x]]
    <2>1. g \in [A -> B]
      <3> SUFFICES ASSUME NEW x \in A PROVE f[x] \in B
        OBVIOUS
      <3>1. PICK i \in D : x = s[i]
        BY <1>1, <1>5 DEF Range
      <3> QED
        BY <1>4, <1>5, <3>1
    <2>2. ASSUME NEW x \in A, NEW y \in A, g[x] = g[y] PROVE x = y
      <3>1. PICK i \in D : x = s[i]
        BY <1>1, <1>5 DEF Range
      <3>2. PICK j \in D : y = s[j]
        BY <1>1, <1>5 DEF Range
      <3> QED
        BY <1>3, <1>4, <2>2, <3>1, <3>2
    <2>3. ASSUME NEW y \in B PROVE \E x \in A : g[x] = y
      <3>1. PICK i \in D : y = t[i]
        BY <1>1, <1>5 DEF Range
      <3>2. s[i] \in A /\ g[s[i]] = y
        BY <1>4, <1>5, <3>1
      <3> QED
        BY <3>2
    <2>4. g \in Surjection(A, B)
      <3> HIDE DEF g
      <3> QED
        BY <2>1, <2>3 DEF Surjection
    <2>5. g \in Injection(A, B)
      <3> HIDE DEF g
      <3>1. DOMAIN g = A
        BY <2>1
      <3> QED
        BY <2>1, <2>2, <3>1 DEF Injection, IsInjective
    <2>6. IsFiniteSet(A)
      BY <1>5, RangeFinite, FS_Subset
    <2> QED
      <3> HIDE DEF g
      <3> QED
        BY <2>4, <2>5, <2>6, FS_Surjection
  <1>6. Commands(Range(t)) = Commands(Range(s))
    <2> DEFINE A == {x \in Range(s) : IsCommand(x)}
               B == {x \in Range(t) : IsCommand(x)}
    <2>1. \A i \in D : s[i] \in A <=> t[i] \in B
      BY <1>1 DEF Range, IsCommand
    <2>2. A \subseteq Range(s) /\ B \subseteq Range(t)
      OBVIOUS
    <2> HIDE DEF A, B
    <2>3. Cardinality(B) = Cardinality(A)
      BY <1>5, <2>1, <2>2
    <2> QED
      BY <2>3 DEF A, B, Commands
  <1>7. Orders(Range(t)) = Orders(Range(s))
    <2> DEFINE A == {x \in Range(s) : IsOrder(x)}
               B == {x \in Range(t) : IsOrder(x)}
    <2>1. \A i \in D : s[i] \in A <=> t[i] \in B
      BY <1>1 DEF Range, IsOrder
    <2>2. A \subseteq Range(s) /\ B \subseteq Range(t)
      OBVIOUS
    <2> HIDE DEF A, B
    <2>3. Cardinality(B) = Cardinality(A)
      BY <1>5, <2>1, <2>2
    <2> QED
      BY <2>3 DEF A, B, Orders
  <1>8. Bytes(Range(t)) = Bytes(Range(s))
    <2> DEFINE g == [u \in Units(Range(s)) |-> <<f[u[1]], u[2]>>]
    <2>1. /\ \A u \in Units(Range(s)) : \E i \in D : \E b \in 1 .. s[i].bytes : u = <<s[i], b>>
          /\ \A i \in D : \A b \in 1 .. s[i].bytes : <<s[i], b>> \in Units(Range(s))
      BY <1>1, SMTT(30) DEF Units, Range
    <2>2. /\ \A u \in Units(Range(t)) : \E i \in D : \E b \in 1 .. t[i].bytes : u = <<t[i], b>>
          /\ \A i \in D : \A b \in 1 .. t[i].bytes : <<t[i], b>> \in Units(Range(t))
      BY <1>1 DEF Units, Range
    <2>3. \A i \in D : \A b \in 1 .. s[i].bytes : g[<<s[i], b>>] = <<t[i], b>>
      BY <1>4, <2>1
    <2> HIDE DEF g
    <2>4. g \in [Units(Range(s)) -> Units(Range(t))]
      <3>1. ASSUME NEW u \in Units(Range(s)) PROVE g[u] \in Units(Range(t))
        <4>1. PICK i \in D : \E b \in 1 .. s[i].bytes : u = <<s[i], b>>
          BY <2>1
        <4>2. PICK b \in 1 .. s[i].bytes : u = <<s[i], b>>
          BY <4>1
        <4>3. s[i].bytes = t[i].bytes
          OBVIOUS
        <4> QED
          BY <2>2, <2>3, <4>2, <4>3, ZenonT(60)
      <3> QED
        BY <3>1 DEF g
    <2>5. ASSUME NEW u \in Units(Range(s)), NEW v \in Units(Range(s)), g[u] = g[v] PROVE u = v
      <3>1. PICK i \in D : \E b \in 1 .. s[i].bytes : u = <<s[i], b>>
        BY <2>1
      <3>2. PICK b \in 1 .. s[i].bytes : u = <<s[i], b>>
        BY <3>1
      <3>3. PICK j \in D : \E c \in 1 .. s[j].bytes : v = <<s[j], c>>
        BY <2>1
      <3>4. PICK c \in 1 .. s[j].bytes : v = <<s[j], c>>
        BY <3>3
      <3>5. <<t[i], b>> = <<t[j], c>>
        BY <2>3, <2>5, <3>2, <3>4
      <3>6. t[i] = t[j] /\ b = c
        BY <3>5
      <3> QED
        BY <1>3, <3>2, <3>4, <3>6
    <2>6. ASSUME NEW v \in Units(Range(t)) PROVE \E u \in Units(Range(s)) : g[u] = v
      <3>1. PICK i \in D : \E b \in 1 .. t[i].bytes : v = <<t[i], b>>
        BY <2>2
      <3>2. PICK b \in 1 .. t[i].bytes : v = <<t[i], b>>
        BY <3>1
      <3>3. b \in 1 .. s[i].bytes
        OBVIOUS
      <3>4. <<s[i], b>> \in Units(Range(s)) /\ g[<<s[i], b>>] = v
        BY <2>1, <2>3, <3>2, <3>3
      <3> QED
        BY <3>4
    <2>7. g \in Surjection(Units(Range(s)), Units(Range(t))) /\ g \in Injection(Units(Range(s)), Units(Range(t)))
      <3>1. DOMAIN g = Units(Range(s))
        BY <2>4
      <3> QED
        BY <2>4, <2>5, <2>6, <3>1 DEF Surjection, Injection, IsInjective
    <2>8. IsFiniteSet(Units(Range(s)))
      BY RunSized, UnitsFinite DEF Sized
    <2>9. Cardinality(Units(Range(t))) = Cardinality(Units(Range(s)))
      BY <2>7, <2>8, FS_Surjection
    <2> QED
      BY <2>9 DEF Units, Bytes
  <1> QED
    BY <1>2, <1>6, <1>7, <1>8

-----------------------------------------------------------------------------
(* The frames of the uplink.                                               *)

LEMMA HeadApart ==
  ASSUME NEW T, NEW s \in Seq(T), s # <<>>
  PROVE  /\ Len(s) \in Nat \ {0} /\ 1 \in 0 .. Len(s) /\ s[1] \in T /\ Head(s) = s[1]
         /\ Tail(s) = Behind(s, 1) /\ First(s, 1) = <<s[1]>>
         /\ Tail(s) \in Seq(T) /\ Len(Tail(s)) = Len(s) - 1
         /\ \A i \in 1 .. Len(s) - 1 : Tail(s)[i] = s[i + 1]
  <1>1. Len(s) \in Nat \ {0} /\ s[1] \in T /\ Head(s) = s[1]
    BY EmptySeq, SeqElements, LenProperties
  <1>2. /\ Tail(s) \in Seq(T) /\ Len(Tail(s)) = Len(s) - 1
        /\ \A i \in 1 .. Len(s) - 1 : Tail(s)[i] = s[i + 1]
    BY HeadTailProperties
  <1>3. Tail(s) = Behind(s, 1)
    BY TailIsSubSeq DEF Behind
  <1>4. First(s, 1) = <<s[1]>>
    <2>1. /\ First(s, 1) \in Seq(T) /\ Len(First(s, 1)) = 1 /\ First(s, 1)[1] = s[1]
      <3>1. 1 \in 0 .. Len(s) /\ 1 \in 1 .. 1
        BY <1>1
      <3>2. /\ First(s, 1) \in Seq(T) /\ Len(First(s, 1)) = 1
            /\ \A i \in 1 .. 1 : First(s, 1)[i] = s[i]
        BY <3>1, PartsOf, ZenonT(60)
      <3> QED
        BY <3>1, <3>2
    <2>2. <<s[1]>> \in Seq(T) /\ Len(<<s[1]>>) = 1 /\ <<s[1]>>[1] = s[1]
      BY <1>1
    <2> HIDE DEF First
    <2> QED
      BY <2>1, <2>2, SeqEqual
  <1> QED
    BY <1>1, <1>2, <1>3, <1>4

LEMMA HeadRun ==
  ASSUME NEW T, NEW r \in Seq(Seq(T)), r # <<>>
  PROVE  /\ AllOf(r) = Range(r[1]) \cup AllOf(Tail(r))
         /\ Rising(r) => Rising(Tail(r)) /\ Sorted(r[1]) /\ Before(Range(r[1]), AllOf(Tail(r)))
  <1>1. /\ 1 \in 0 .. Len(r) /\ 1 \in DOMAIN r /\ r[1] \in Seq(T)
        /\ Tail(r) = Behind(r, 1) /\ First(r, 1) = <<r[1]>>
    BY HeadApart, SeqElements
  <1>2. AllOf(<<r[1]>>) = Range(r[1])
    BY <1>1, AllOfFew
  <1>3. AllOf(r) = Range(r[1]) \cup AllOf(Tail(r))
    <2>1. AllOf(r) = AllOf(First(r, 1)) \cup AllOf(Behind(r, 1))
      BY <1>1, AllOfParts
    <2> QED
      BY <1>1, <1>2, <2>1
  <1>4. ASSUME Rising(r)
        PROVE  Rising(Tail(r)) /\ Sorted(r[1]) /\ Before(Range(r[1]), AllOf(Tail(r)))
    <2>1. Rising(Behind(r, 1)) /\ Before(AllOf(First(r, 1)), AllOf(Behind(r, 1)))
      BY <1>1, <1>4, RisingParts
    <2>2. Sorted(r[1])
      BY <1>1, <1>4 DEF Rising
    <2> QED
      BY <1>1, <1>2, <2>1, <2>2
  <1> QED
    BY <1>3, <1>4

Carriers(fs) == [i \in DOMAIN fs |-> Carried(fs[i])]
Opening(fs) == fs # <<>> => fs[1].kind \in {"commands", "begin"}

LEMMA CarriersType ==
  ASSUME NEW fs \in Seq(UpFrame)
  PROVE  /\ Carriers(fs) \in Seq(Seq(Input)) /\ Len(Carriers(fs)) = Len(fs)
         /\ DOMAIN Carriers(fs) = 1 .. Len(fs)
         /\ \A i \in 1 .. Len(fs) : Carriers(fs)[i] = Carried(fs[i])
  <1>1. ASSUME NEW i \in 1 .. Len(fs) PROVE Carried(fs[i]) \in Seq(Input)
    <2>1. fs[i] \in UpFrame
      BY SeqElements
    <2> QED
      BY <2>1 DEF Carried, UpFrame
  <1>2. Carriers(fs) = [i \in 1 .. Len(fs) |-> Carried(fs[i])] /\ Len(fs) \in Nat
    BY SeqElements DEF Carriers
  <1>3. [i \in 1 .. Len(fs) |-> Carried(fs[i])] \in Seq(Seq(Input))
    BY <1>1, <1>2, IsASeq
  <1>4. DOMAIN Carriers(fs) = 1 .. Len(fs) /\ \A i \in 1 .. Len(fs) : Carriers(fs)[i] = Carried(fs[i])
    BY <1>2
  <1>5. Len(Carriers(fs)) = Len(fs)
    BY <1>2, <1>3, <1>4, LenProperties
  <1> QED
    BY <1>2, <1>3, <1>4, <1>5

LEMMA CarriersTail ==
  ASSUME NEW fs \in Seq(UpFrame), fs # <<>>
  PROVE  /\ Tail(fs) \in Seq(UpFrame) /\ fs[1] \in UpFrame /\ Head(fs) = fs[1]
         /\ Carriers(Tail(fs)) = Tail(Carriers(fs)) /\ Carriers(fs) # <<>>
         /\ AllOf(Carriers(fs)) = Range(Carried(fs[1])) \cup AllOf(Carriers(Tail(fs)))
         /\ Rising(Carriers(fs)) =>
              /\ Rising(Carriers(Tail(fs))) /\ Sorted(Carried(fs[1]))
              /\ Before(Range(Carried(fs[1])), AllOf(Carriers(Tail(fs))))
         /\ Shaped(fs) => Shaped(Tail(fs))
  <1>1. /\ Len(fs) \in Nat \ {0} /\ fs[1] \in UpFrame /\ Head(fs) = fs[1] /\ Tail(fs) \in Seq(UpFrame)
        /\ Len(Tail(fs)) = Len(fs) - 1 /\ \A i \in 1 .. Len(fs) - 1 : Tail(fs)[i] = fs[i + 1]
    BY HeadApart
  <1>2. /\ Carriers(fs) \in Seq(Seq(Input)) /\ Len(Carriers(fs)) = Len(fs)
        /\ \A i \in 1 .. Len(fs) : Carriers(fs)[i] = Carried(fs[i])
        /\ Carriers(Tail(fs)) \in Seq(Seq(Input)) /\ Len(Carriers(Tail(fs))) = Len(fs) - 1
        /\ \A i \in 1 .. Len(fs) - 1 : Carriers(Tail(fs))[i] = Carried(Tail(fs)[i])
    BY <1>1, CarriersType
  <1>3. Carriers(fs) # <<>>
    BY <1>1, <1>2, EmptySeq
  <1>4. /\ Tail(Carriers(fs)) \in Seq(Seq(Input)) /\ Len(Tail(Carriers(fs))) = Len(fs) - 1
        /\ \A i \in 1 .. Len(fs) - 1 : Tail(Carriers(fs))[i] = Carriers(fs)[i + 1]
    BY <1>2, <1>3, HeadApart
  <1>5. Carriers(Tail(fs)) = Tail(Carriers(fs))
    <2>1. ASSUME NEW i \in 1 .. Len(fs) - 1 PROVE Carriers(Tail(fs))[i] = Tail(Carriers(fs))[i]
      <3>1. i + 1 \in 1 .. Len(fs)
        BY <1>1
      <3> QED
        BY <1>1, <1>2, <1>4, <3>1
    <2> QED
      BY <1>2, <1>4, <2>1, SeqEqual
  <1>6. Carriers(fs)[1] = Carried(fs[1])
    BY <1>1, <1>2
  <1>7. /\ AllOf(Carriers(fs)) = Range(Carried(fs[1])) \cup AllOf(Carriers(Tail(fs)))
        /\ Rising(Carriers(fs)) =>
             /\ Rising(Carriers(Tail(fs))) /\ Sorted(Carried(fs[1]))
             /\ Before(Range(Carried(fs[1])), AllOf(Carriers(Tail(fs))))
    BY <1>2, <1>3, <1>5, <1>6, HeadRun
  <1>8. ASSUME Shaped(fs) PROVE Shaped(Tail(fs))
    <2> DEFINE gs == Tail(fs)
    <2>1. DOMAIN gs = 1 .. Len(fs) - 1 /\ DOMAIN fs = 1 .. Len(fs)
      BY <1>1, SeqElements
    <2> SUFFICES ASSUME NEW i \in 1 .. Len(fs) - 1 PROVE InTransaction(gs, i)
      BY <2>1 DEF Shaped
    <2>2. /\ gs[i] = fs[i + 1] /\ i + 1 \in DOMAIN fs
          /\ i > 1 => gs[i - 1] = fs[i] /\ i + 1 - 1 = i
          /\ i + 1 + 1 \in DOMAIN fs => i + 1 \in DOMAIN gs /\ gs[i + 1] = fs[i + 1 + 1]
      BY <1>1, <2>1
    <2>3. InTransaction(fs, i + 1)
      BY <1>8, <2>2 DEF Shaped
    <2> HIDE DEF gs
    <2>4. i + 1 > 1 /\ i + 1 - 1 = i
      OBVIOUS
    <2> QED
      BY <2>2, <2>3, <2>4 DEF InTransaction
  <1> QED
    BY <1>1, <1>3, <1>5, <1>7, <1>8

LEMMA CarriersJoin ==
  ASSUME NEW fs \in Seq(UpFrame), NEW gs \in Seq(UpFrame)
  PROVE  /\ fs \o gs \in Seq(UpFrame)
         /\ Carriers(fs \o gs) = Carriers(fs) \o Carriers(gs)
         /\ AllOf(Carriers(fs \o gs)) = AllOf(Carriers(fs)) \cup AllOf(Carriers(gs))
         /\ Rising(Carriers(fs)) /\ Rising(Carriers(gs)) /\ Before(AllOf(Carriers(fs)), AllOf(Carriers(gs)))
              => Rising(Carriers(fs \o gs))
         /\ Shaped(fs) /\ Shaped(gs) /\ Opening(gs) => Shaped(fs \o gs)
         /\ Opening(fs) /\ Opening(gs) => Opening(fs \o gs)
         /\ fs # <<>> => fs \o gs # <<>> /\ (fs \o gs)[1] = fs[1]
         /\ fs = <<>> => fs \o gs = gs
  <1> DEFINE hs == fs \o gs
             n == Len(fs)
             m == Len(gs)
  <1>1. /\ hs \in Seq(UpFrame) /\ Len(hs) = n + m /\ n \in Nat /\ m \in Nat
        /\ \A i \in 1 .. n + m : hs[i] = IF i <= n THEN fs[i] ELSE gs[i - n]
    BY ConcatProperties
  <1>2. /\ Carriers(fs) \in Seq(Seq(Input)) /\ Len(Carriers(fs)) = n
        /\ \A i \in 1 .. n : Carriers(fs)[i] = Carried(fs[i])
        /\ Carriers(gs) \in Seq(Seq(Input)) /\ Len(Carriers(gs)) = m
        /\ \A i \in 1 .. m : Carriers(gs)[i] = Carried(gs[i])
    BY CarriersType
  <1>3. /\ Carriers(hs) \in Seq(Seq(Input)) /\ Len(Carriers(hs)) = n + m
        /\ \A i \in 1 .. n + m : Carriers(hs)[i] = Carried(hs[i])
    BY <1>1, CarriersType
  <1>4. DOMAIN fs = 1 .. n /\ DOMAIN gs = 1 .. m /\ DOMAIN hs = 1 .. n + m
    BY <1>1, SeqElements
  <1>5. Carriers(hs) = Carriers(fs) \o Carriers(gs)
    <2> DEFINE cs == Carriers(fs) \o Carriers(gs)
    <2> HIDE DEF hs, n, m
    <2>1. /\ cs \in Seq(Seq(Input)) /\ Len(cs) = n + m
          /\ \A i \in 1 .. n + m : cs[i] = IF i <= n THEN Carriers(fs)[i] ELSE Carriers(gs)[i - n]
      <3> DEFINE a == Carriers(fs)
                 b == Carriers(gs)
      <3> HIDE DEF a, b
      <3>1. a \in Seq(Seq(Input)) /\ b \in Seq(Seq(Input)) /\ Len(a) = n /\ Len(b) = m
        BY <1>2 DEF a, b
      <3>2. /\ a \o b \in Seq(Seq(Input)) /\ Len(a \o b) = Len(a) + Len(b)
            /\ \A i \in 1 .. Len(a) + Len(b) : (a \o b)[i] = IF i <= Len(a) THEN a[i] ELSE b[i - Len(a)]
        BY <3>1, ConcatProperties
      <3> QED
        BY <3>1, <3>2 DEF a, b
    <2> HIDE DEF cs
    <2>2. ASSUME NEW i \in 1 .. n + m PROVE Carriers(hs)[i] = cs[i]
      <3>1. CASE i <= n
        <4>1. i \in 1 .. n
          BY <1>1, <3>1
        <4>2. hs[i] = fs[i]
          BY <1>1, <3>1
        <4>3. Carriers(hs)[i] = Carried(hs[i])
          BY <1>3
        <4>4. cs[i] = Carriers(fs)[i]
          BY <2>1, <3>1
        <4>5. Carriers(fs)[i] = Carried(fs[i])
          BY <1>2, <4>1
        <4> QED
          BY <4>2, <4>3, <4>4, <4>5
      <3>2. CASE i > n
        <4>1. i - n \in 1 .. m
          BY <1>1, <3>2
        <4>2. hs[i] = gs[i - n]
          BY <1>1, <3>2
        <4>3. Carriers(hs)[i] = Carried(hs[i])
          BY <1>3
        <4>4. cs[i] = Carriers(gs)[i - n]
          <5>1. ~(i <= n)
            BY <1>1, <3>2
          <5> QED
            BY <2>1, <5>1
        <4>5. Carriers(gs)[i - n] = Carried(gs[i - n])
          BY <1>2, <4>1
        <4> QED
          BY <4>2, <4>3, <4>4, <4>5
      <3> QED
        BY <1>1, <3>1, <3>2
    <2>3. Carriers(hs) = cs
      BY <1>3, <2>1, <2>2, SeqEqual
    <2> QED
      BY <2>3 DEF cs
  <1>6. /\ AllOf(Carriers(hs)) = AllOf(Carriers(fs)) \cup AllOf(Carriers(gs))
        /\ Rising(Carriers(fs)) /\ Rising(Carriers(gs)) /\ Before(AllOf(Carriers(fs)), AllOf(Carriers(gs)))
              => Rising(Carriers(hs))
    BY <1>2, <1>5, AllOfJoined, RisingJoined
  <1>7. ASSUME Shaped(fs), Shaped(gs), Opening(gs) PROVE Shaped(hs)
    <2> SUFFICES ASSUME NEW i \in 1 .. n + m PROVE InTransaction(hs, i)
      BY <1>4 DEF Shaped
    <2> HIDE DEF hs, n, m
    <2>1. CASE i <= n
      <3>1. InTransaction(fs, i)
        BY <1>4, <1>7, <2>1 DEF Shaped
      <3>2. /\ hs[i] = fs[i]
            /\ i > 1 => hs[i - 1] = fs[i - 1]
            /\ i + 1 \in DOMAIN fs => i + 1 \in DOMAIN hs /\ hs[i + 1] = fs[i + 1]
        <4>1. hs[i] = fs[i]
          BY <1>1, <2>1
        <4>2. ASSUME i > 1 PROVE hs[i - 1] = fs[i - 1]
          <5>1. i - 1 \in 1 .. n + m /\ i - 1 <= n
            BY <1>1, <2>1, <4>2
          <5> QED
            BY <1>1, <5>1
        <4>3. ASSUME i + 1 \in DOMAIN fs PROVE i + 1 \in DOMAIN hs /\ hs[i + 1] = fs[i + 1]
          <5>1. i + 1 \in 1 .. n + m /\ i + 1 <= n
            BY <1>1, <1>4, <4>3
          <5> QED
            BY <1>1, <1>4, <5>1
        <4> QED
          BY <4>1, <4>2, <4>3
      <3> QED
        BY <3>1, <3>2 DEF InTransaction
    <2>2. CASE i > n
      <3> DEFINE j == i - n
      <3>1. /\ j \in 1 .. m /\ hs[i] = gs[j]
            /\ j > 1 => hs[i - 1] = gs[j - 1]
            /\ j + 1 \in DOMAIN gs => i + 1 \in DOMAIN hs /\ hs[i + 1] = gs[j + 1]
        <4>1. j \in 1 .. m /\ hs[i] = gs[j]
          <5>1. hs[i] = gs[i - n]
            BY <1>1, <2>2
          <5> QED
            BY <1>1, <2>2, <5>1
        <4>2. ASSUME j > 1 PROVE hs[i - 1] = gs[j - 1]
          <5>1. i - 1 \in 1 .. n + m /\ i - 1 > n /\ (i - 1) - n = j - 1
            BY <1>1, <2>2, <4>2
          <5>2. hs[i - 1] = gs[(i - 1) - n]
            BY <1>1, <5>1
          <5> QED
            BY <5>1, <5>2
        <4>3. ASSUME j + 1 \in DOMAIN gs PROVE i + 1 \in DOMAIN hs /\ hs[i + 1] = gs[j + 1]
          <5>1. i + 1 \in 1 .. n + m /\ i + 1 > n /\ (i + 1) - n = j + 1
            BY <1>1, <1>4, <2>2, <4>3
          <5>2. hs[i + 1] = gs[(i + 1) - n]
            BY <1>1, <5>1
          <5> QED
            BY <1>4, <5>1, <5>2
        <4> QED
          BY <4>1, <4>2, <4>3
      <3>2. InTransaction(gs, j)
        BY <1>4, <1>7, <3>1 DEF Shaped
      <3>3. j = 1 => gs[j].kind \in {"commands", "begin"}
        BY <1>1, <1>4, <1>7, <3>1 DEF Opening, m
      <3> HIDE DEF j
      <3>4. ~(j > 1) => j = 1
        BY <1>1, <3>1
      <3> QED
        BY <3>1, <3>2, <3>3, <3>4 DEF InTransaction
    <2> QED
      BY <1>1, <2>1, <2>2
  <1>8. fs # <<>> => hs # <<>> /\ hs[1] = fs[1]
    <2> SUFFICES ASSUME fs # <<>> PROVE hs # <<>> /\ hs[1] = fs[1]
      OBVIOUS
    <2>1. n # 0
      BY EmptySeq
    <2>2. hs # <<>>
      BY <1>1, <2>1, EmptySeq
    <2>3. hs[1] = fs[1]
      BY <1>1, <2>1
    <2> QED
      BY <2>2, <2>3
  <1>9. fs = <<>> => hs = gs
    BY ConcatEmptySeq
  <1>10. Opening(fs) /\ Opening(gs) => Opening(hs)
    <2> HIDE DEF hs
    <2> QED
      BY <1>8, <1>9 DEF Opening
  <1> QED
    BY <1>1, <1>5, <1>6, <1>7, <1>8, <1>9, <1>10

\* What the frame at the head, and the frames behind it, hold.
LEMMA HeadFrame ==
  ASSUME NEW fs \in Seq(UpFrame), Shaped(fs), fs # <<>>
  PROVE  LET f == fs[1] IN
         /\ f \in UpFrame /\ f.items \in Seq(Input) /\ f.items # <<>>
         /\ f.kind # "commands" => Len(f.items) = 1 /\ f.items[1] \in Input /\ IsOrder(f.items[1])
                                   /\ Range(f.items) = {f.items[1]} /\ f.items = <<f.items[1]>>
         /\ f.kind = "commands" => \A x \in Range(f.items) : IsCommand(x)
         /\ f.kind = "begin" => Tail(fs) # <<>> /\ Tail(fs)[1] = Frame("members", f.items)
         /\ f.kind = "members" => Tail(fs) # <<>> /\ Tail(fs)[1] = Frame("commit", f.items)
         /\ f.kind \in {"commands", "commit"} => Opening(Tail(fs))
  <1> DEFINE f == fs[1]
             gs == Tail(fs)
  <1>1. /\ Len(fs) \in Nat \ {0} /\ f \in UpFrame /\ gs \in Seq(UpFrame)
        /\ Len(gs) = Len(fs) - 1 /\ \A i \in 1 .. Len(fs) - 1 : gs[i] = fs[i + 1]
        /\ DOMAIN fs = 1 .. Len(fs)
    BY HeadApart, SeqElements
  <1>2. InTransaction(fs, 1)
    BY <1>1 DEF Shaped
  <1>3. f.items \in Seq(Input) /\ f.kind \in {"commands", "begin", "members", "commit"}
    BY <1>1 DEF UpFrame
  <1>4. ASSUME f.kind # "commands"
        PROVE  /\ Len(f.items) = 1 /\ f.items[1] \in Input /\ IsOrder(f.items[1])
               /\ Range(f.items) = {f.items[1]} /\ f.items # <<>> /\ f.items = <<f.items[1]>>
    <2>1. Len(f.items) = 1 /\ IsOrder(f.items[1])
      BY <1>2, <1>4 DEF InTransaction
    <2>2. f.items[1] \in Input /\ Range(f.items) = {f.items[1]}
      BY <1>3, <2>1, SeqElements DEF Range
    <2>3. <<f.items[1]>> \in Seq(Input) /\ Len(<<f.items[1]>>) = 1 /\ <<f.items[1]>>[1] = f.items[1]
      BY <2>2
    <2>4. f.items = <<f.items[1]>>
      BY <1>3, <2>1, <2>3, SeqEqual
    <2> QED
      BY <1>3, <2>1, <2>2, <2>4, EmptySeq
  <1>5. f.kind = "commands" => f.items # <<>> /\ \A x \in Range(f.items) : IsCommand(x)
    BY <1>2 DEF InTransaction
  <1>6. ASSUME 2 \in DOMAIN fs PROVE gs # <<>> /\ gs[1] = fs[2]
    <2>1. Len(gs) # 0 /\ 1 \in 1 .. Len(fs) - 1
      BY <1>1, <1>6
    <2>2. gs[1] = fs[1 + 1]
      BY <1>1, <2>1
    <2> QED
      BY <1>1, <2>1, <2>2, EmptySeq
  <1>7. /\ f.kind = "begin" => gs # <<>> /\ gs[1] = Frame("members", f.items)
        /\ f.kind = "members" => gs # <<>> /\ gs[1] = Frame("commit", f.items)
    BY <1>2, <1>6 DEF InTransaction
  <1>8. ASSUME f.kind \in {"commands", "commit"}, gs # <<>> PROVE gs[1].kind \in {"commands", "begin"}
    <2>1. 2 \in DOMAIN fs /\ gs[1] = fs[2] /\ fs[2] \in UpFrame
      BY <1>1, <1>8, EmptySeq, SeqElements
    <2>2. InTransaction(fs, 2)
      BY <2>1 DEF Shaped
    <2>3. fs[2].kind = "members" => f = Frame("begin", fs[2].items)
      BY <2>2 DEF InTransaction
    <2>4. fs[2].kind = "commit" => f = Frame("members", fs[2].items)
      BY <2>2 DEF InTransaction
    <2> QED
      BY <1>8, <2>1, <2>3, <2>4 DEF UpFrame, Frame
  <1> QED
    BY <1>1, <1>3, <1>4, <1>5, <1>7, <1>8 DEF Opening

\* The order of a frame is committed in the frames under way.
LEMMA FramesOrder ==
  ASSUME NEW fs \in Seq(UpFrame), Shaped(fs), NEW i \in DOMAIN fs, fs[i].kind # "commands"
  PROVE  fs[i].items[1] \in AllOf(Carriers(fs))
  <1>1. DOMAIN fs = 1 .. Len(fs) /\ Len(fs) \in Nat /\ \A j \in DOMAIN fs : fs[j] \in UpFrame
    BY SeqElements
  <1>2. ASSUME NEW j \in DOMAIN fs, fs[j].kind = "commit"
        PROVE  fs[j].items[1] \in AllOf(Carriers(fs))
    <2>1. Len(fs[j].items) = 1 /\ fs[j].items \in Seq(Input)
      BY <1>1, <1>2 DEF Shaped, InTransaction, UpFrame
    <2>2. Carriers(fs)[j] = fs[j].items /\ j \in DOMAIN Carriers(fs)
      BY <1>1, <1>2, CarriersType DEF Carried
    <2>3. fs[j].items[1] \in Range(Carriers(fs)[j])
      BY <2>1, <2>2, SeqElements
    <2> QED
      BY <2>2, <2>3 DEF AllOf
  <1>3. ASSUME NEW j \in DOMAIN fs, fs[j].kind = "members"
        PROVE  fs[j].items[1] \in AllOf(Carriers(fs))
    <2>1. j + 1 \in DOMAIN fs /\ fs[j + 1] = Frame("commit", fs[j].items)
      BY <1>3 DEF Shaped, InTransaction
    <2>2. fs[j + 1].kind = "commit" /\ fs[j + 1].items = fs[j].items
      BY <2>1 DEF Frame
    <2>3. fs[j + 1].items[1] \in AllOf(Carriers(fs))
      BY <1>2, <2>1, <2>2
    <2> QED
      BY <2>2, <2>3
  <1>4. ASSUME fs[i].kind = "begin"
        PROVE  fs[i].items[1] \in AllOf(Carriers(fs))
    <2>1. i + 1 \in DOMAIN fs /\ fs[i + 1] = Frame("members", fs[i].items)
      BY <1>4 DEF Shaped, InTransaction
    <2>2. fs[i + 1].kind = "members" /\ fs[i + 1].items = fs[i].items
      BY <2>1 DEF Frame
    <2>3. fs[i + 1].items[1] \in AllOf(Carriers(fs))
      BY <1>3, <2>1, <2>2
    <2> QED
      BY <2>2, <2>3
  <1>5. fs[i].kind \in {"begin", "members", "commit"}
    BY <1>1 DEF UpFrame
  <1> QED
    BY <1>2, <1>3, <1>4, <1>5

LEMMA CommandOrOrder ==
  ASSUME NEW x \in Input
  PROVE  IsCommand(x) <=> ~IsOrder(x)
  <1>1. \A b \in {0} \cup OrderSizes : b \in Nat
    OBVIOUS
  <1>2. x.bytes \in {0} \cup OrderSizes
    BY DEF Input
  <1>3. x.bytes \in Nat
    BY <1>1, <1>2
  <1> QED
    BY <1>3 DEF IsOrder, IsCommand

\* One item more in the frames of a batch.
Fit(fs, items) ==
  /\ fs \in Seq(UpFrame) /\ Shaped(fs) /\ Opening(fs)
  /\ Rising(Carriers(fs)) /\ AllOf(Carriers(fs)) = items

LEMMA OneFrame ==
  ASSUME NEW x \in Input
  PROVE  /\ IsOrder(x) => Fit(Transaction(x), {x})
         /\ IsCommand(x) => Fit(<<Frame("commands", <<x>>)>>, {x})
         /\ Fit(<<>>, {})
  <1>1. Sorted(<<x>>) /\ Sorted(<<>>) /\ Range(<<x>>) = {x} /\ Range(<<>>) = {}
    BY DEF Sorted, Range
  <1>2. ASSUME IsOrder(x) PROVE Fit(Transaction(x), {x})
    <2> DEFINE fs == Transaction(x)
    <2>1. /\ fs \in Seq(UpFrame) /\ Len(fs) = 3 /\ DOMAIN fs = {1, 2, 3}
          /\ fs[1] = Frame("begin", <<x>>) /\ fs[2] = Frame("members", <<x>>) /\ fs[3] = Frame("commit", <<x>>)
      BY DEF Transaction, Frame, UpFrame
    <2> HIDE DEF fs
    <2>2. Shaped(fs)
      <3>1. InTransaction(fs, 1)
        BY <1>2, <2>1 DEF InTransaction, Frame
      <3>2. InTransaction(fs, 2)
        BY <1>2, <2>1 DEF InTransaction, Frame
      <3>3. InTransaction(fs, 3)
        BY <1>2, <2>1 DEF InTransaction, Frame
      <3> QED
        BY <2>1, <3>1, <3>2, <3>3 DEF Shaped
    <2>3. /\ DOMAIN Carriers(fs) = {1, 2, 3}
          /\ Carriers(fs)[1] = <<>> /\ Carriers(fs)[2] = <<>> /\ Carriers(fs)[3] = <<x>>
      BY <2>1 DEF Carriers, Carried, Frame
    <2>4. AllOf(Carriers(fs)) = {x}
      BY <1>1, <2>3 DEF AllOf
    <2>5. Rising(Carriers(fs))
      BY <1>1, <2>3 DEF Rising, Before
    <2> QED
      BY <2>1, <2>2, <2>4, <2>5 DEF Fit, Opening, Frame, fs
  <1>3. ASSUME IsCommand(x) PROVE Fit(<<Frame("commands", <<x>>)>>, {x})
    <2> DEFINE fs == <<Frame("commands", <<x>>)>>
    <2>1. /\ fs \in Seq(UpFrame) /\ DOMAIN fs = {1} /\ fs[1] = Frame("commands", <<x>>)
      BY DEF Frame, UpFrame
    <2> HIDE DEF fs
    <2>2. Shaped(fs)
      <3>1. InTransaction(fs, 1)
        BY <1>1, <1>3, <2>1 DEF InTransaction, Frame
      <3> QED
        BY <2>1, <3>1 DEF Shaped
    <2>3. DOMAIN Carriers(fs) = {1} /\ Carriers(fs)[1] = <<x>>
      BY <2>1 DEF Carriers, Carried, Frame
    <2>4. AllOf(Carriers(fs)) = {x} /\ Rising(Carriers(fs))
      BY <1>1, <2>3 DEF AllOf, Rising
    <2> QED
      BY <2>1, <2>2, <2>4 DEF Fit, Opening, Frame, fs
  <1>4. Fit(<<>>, {})
    <2>1. DOMAIN <<>> = {} /\ <<>> \in Seq(UpFrame)
      OBVIOUS
    <2>2. Carriers(<<>>) = <<>>
      BY <2>1 DEF Carriers
    <2> QED
      BY <2>1, <2>2 DEF Fit, Shaped, Opening, AllOf, Rising
  <1> QED
    BY <1>2, <1>3, <1>4

LEMMA FramedFits ==
  ASSUME NEW fs, NEW items, Fit(fs, items), NEW x \in Input, Before(items, {x})
  PROVE  Fit(Framed(fs, x), items \cup {x})
  <1>1. ASSUME NEW gs, Fit(gs, {x}) PROVE Fit(fs \o gs, items \cup {x})
    <2>1. fs \in Seq(UpFrame) /\ gs \in Seq(UpFrame)
      BY <1>1 DEF Fit
    <2>2. /\ Shaped(fs) /\ Opening(fs) /\ Rising(Carriers(fs)) /\ AllOf(Carriers(fs)) = items
          /\ Shaped(gs) /\ Opening(gs) /\ Rising(Carriers(gs)) /\ AllOf(Carriers(gs)) = {x}
      BY <1>1 DEF Fit
    <2>3. /\ fs \o gs \in Seq(UpFrame)
          /\ AllOf(Carriers(fs \o gs)) = AllOf(Carriers(fs)) \cup AllOf(Carriers(gs))
          /\ Before(AllOf(Carriers(fs)), AllOf(Carriers(gs))) => Rising(Carriers(fs \o gs))
          /\ Shaped(fs \o gs) /\ Opening(fs \o gs)
      BY <2>1, <2>2, CarriersJoin
    <2> QED
      BY <2>2, <2>3 DEF Fit
  <1>2. CASE IsOrder(x)
    BY <1>1, <1>2, OneFrame DEF Framed
  <1>3. CASE ~IsOrder(x) /\ ~(fs # <<>> /\ fs[Len(fs)].kind = "commands")
    <2>1. IsCommand(x)
      BY <1>3, CommandOrOrder
    <2>2. Framed(fs, x) = fs \o <<Frame("commands", <<x>>)>>
      <3>1. Framed(fs, x) = Append(fs, Frame("commands", <<x>>))
        BY <1>3 DEF Framed
      <3>2. fs \in Seq(UpFrame) /\ Frame("commands", <<x>>) \in UpFrame
        BY DEF Fit, Frame, UpFrame
      <3> QED
        BY <3>1, <3>2, AppendIsConcat
    <2> QED
      BY <1>1, <2>1, <2>2, OneFrame
  <1>4. CASE ~IsOrder(x) /\ fs # <<>> /\ fs[Len(fs)].kind = "commands"
    <2> DEFINE N == Len(fs)
               more == Append(fs[N].items, x)
               gs == [fs EXCEPT ![N] = Frame("commands", more)]
    <2>1. fs \in Seq(UpFrame) /\ N \in Nat \ {0} /\ DOMAIN fs = 1 .. N
      BY <1>4, EmptySeq, SeqElements, LenProperties DEF Fit
    <2>2. fs[N] \in UpFrame /\ fs[N].items \in Seq(Input) /\ N \in DOMAIN fs
      <3>1. N \in DOMAIN fs
        BY <2>1
      <3>2. fs[N] \in UpFrame
        BY <2>1, <3>1, SeqElements
      <3> QED
        BY <3>1, <3>2 DEF UpFrame
    <2>3. Framed(fs, x) = gs
      <3>1. Framed(fs, x) = [fs EXCEPT ![N].items = Append(@, x)]
        BY <1>4 DEF Framed
      <3>2. [fs[N] EXCEPT !.items = Append(@, x)] = Frame("commands", more)
        <4>1. \A r \in UpFrame : r.kind = "commands" =>
                [r EXCEPT !.items = Append(@, x)] = Frame("commands", Append(r.items, x))
          <5> SUFFICES ASSUME NEW r \in UpFrame, NEW v
                       PROVE  [r EXCEPT !.items = v] = [kind |-> r.kind, items |-> v]
            BY DEF Frame
          <5> QED
            BY DEF UpFrame
        <4> QED
          BY <1>4, <2>2, <4>1
      <3> QED
        BY <3>1, <3>2
    <2>4. more \in Seq(Input) /\ Frame("commands", more) \in UpFrame
      <3>1. more \in Seq(Input)
        BY <2>2, AppendProperties
      <3> QED
        BY <3>1 DEF Frame, UpFrame
    <2>5. gs \in Seq(UpFrame) /\ Len(gs) = N /\ DOMAIN gs = 1 .. N
      BY <2>1, <2>2, <2>4, ExceptSeq
    <2>6. gs[N] = Frame("commands", more) /\ \A i \in 1 .. N : i # N => gs[i] = fs[i]
      BY <2>1
    <2>7. IsCommand(x)
      BY <1>4, CommandOrOrder
    <2>8. /\ Range(more) = Range(fs[N].items) \cup {x} /\ more # <<>>
          /\ Sorted(fs[N].items) /\ Before(Range(fs[N].items), {x}) => Sorted(more)
      <3>1. Range(more) = Range(fs[N].items) \cup {x}
        BY <2>2, AppendRange
      <3>2. Sorted(fs[N].items) /\ Before(Range(fs[N].items), {x}) => Sorted(more)
        BY <2>2, AppendRange DEF Before
      <3>3. more # <<>>
        BY <2>2, AppendProperties, EmptySeq
      <3> QED
        BY <3>1, <3>2, <3>3
    <2> HIDE DEF gs, more, N
    <2>9. Shaped(gs)
      <3> SUFFICES ASSUME NEW i \in 1 .. N PROVE InTransaction(gs, i)
        BY <2>5 DEF Shaped
      <3>1. InTransaction(fs, i) /\ InTransaction(fs, N)
        BY <2>1 DEF Fit, Shaped
      <3>2. CASE i = N
        <4>1. \A y \in Range(more) : IsCommand(y)
          BY <1>4, <2>7, <2>8, <3>1 DEF InTransaction, N
        <4> QED
          BY <2>6, <2>8, <3>2, <4>1 DEF InTransaction, Frame
      <3>3. CASE i # N
        <4>1. gs[i] = fs[i] /\ fs[i] \in UpFrame
          BY <2>1, <2>6, <3>3, SeqElements
        <4>2. /\ i > 1 => gs[i - 1] = fs[i - 1]
              /\ i + 1 # N => (i + 1 \in DOMAIN gs <=> i + 1 \in DOMAIN fs) /\ (i + 1 \in DOMAIN fs => gs[i + 1] = fs[i + 1])
          <5>1. i > 1 => i - 1 \in 1 .. N /\ i - 1 # N
            BY <2>1
          <5>2. DOMAIN gs = DOMAIN fs /\ (i + 1 \in DOMAIN fs => i + 1 \in 1 .. N)
            BY <2>1, <2>5
          <5> QED
            BY <2>6, <5>1, <5>2
        <4>3. i + 1 = N => fs[i].kind \in {"commands", "commit"}
          <5>1. i + 1 = N => fs[i + 1].kind = "commands"
            BY <1>4 DEF N
          <5> QED
            BY <3>1, <4>1, <5>1 DEF InTransaction, Frame, UpFrame
        <4>4. CASE i + 1 = N
          BY <3>1, <4>1, <4>2, <4>3, <4>4 DEF InTransaction
        <4>5. CASE i + 1 # N
          BY <3>1, <4>1, <4>2, <4>5 DEF InTransaction
        <4> QED
          BY <4>4, <4>5
      <3> QED
        BY <3>2, <3>3
    <2>10. /\ DOMAIN Carriers(fs) = 1 .. N /\ DOMAIN Carriers(gs) = 1 .. N
           /\ Carriers(fs)[N] = fs[N].items /\ Carriers(gs)[N] = more
           /\ \A i \in 1 .. N : i # N => Carriers(gs)[i] = Carriers(fs)[i]
      <3>1. Carried(fs[N]) = fs[N].items /\ Carried(gs[N]) = more
        BY <1>4, <2>6 DEF Carried, Frame, N
      <3> QED
        BY <2>1, <2>5, <2>6, <3>1 DEF Carriers
    <2>11. AllOf(Carriers(gs)) = items \cup {x}
      <3>1. AllOf(Carriers(fs)) = items
        BY DEF Fit
      <3>2. \A i \in 1 .. N : Range(Carriers(gs)[i]) \subseteq items \cup {x}
        <4> SUFFICES ASSUME NEW i \in 1 .. N PROVE Range(Carriers(gs)[i]) \subseteq items \cup {x}
          OBVIOUS
        <4>1. Range(Carriers(fs)[i]) \subseteq items
          BY <2>10, <3>1 DEF AllOf
        <4> QED
          BY <2>8, <2>10, <4>1
      <3>3. \A i \in 1 .. N : Range(Carriers(fs)[i]) \subseteq Range(Carriers(gs)[i])
        BY <2>8, <2>10
      <3>4. x \in Range(Carriers(gs)[N]) /\ N \in 1 .. N
        BY <2>1, <2>8, <2>10
      <3> QED
        BY <2>10, <3>1, <3>2, <3>3, <3>4 DEF AllOf
    <2>12. Rising(Carriers(gs))
      <3>1. /\ \A i \in 1 .. N : Sorted(Carriers(fs)[i]) /\ Range(Carriers(fs)[i]) \subseteq items
            /\ \A i, j \in 1 .. N : i < j => Before(Range(Carriers(fs)[i]), Range(Carriers(fs)[j]))
        BY <2>10 DEF Fit, Rising, AllOf
      <3>2. N \in 1 .. N
        BY <2>1
      <3>3. Before(Range(fs[N].items), {x})
        <4>1. Range(fs[N].items) \subseteq items
          BY <2>10, <3>1, <3>2
        <4> QED
          BY <4>1 DEF Before
      <3>4. ASSUME NEW i \in 1 .. N PROVE Sorted(Carriers(gs)[i])
        <4>1. CASE i = N
          BY <2>8, <2>10, <3>1, <3>2, <3>3, <4>1
        <4>2. CASE i # N
          BY <2>10, <3>1, <4>2
        <4> QED
          BY <4>1, <4>2
      <3>5. ASSUME NEW i \in 1 .. N, NEW j \in 1 .. N, i < j
            PROVE  Before(Range(Carriers(gs)[i]), Range(Carriers(gs)[j]))
        <4>1. i # N /\ Carriers(gs)[i] = Carriers(fs)[i] /\ Range(Carriers(fs)[i]) \subseteq items
          <5>1. i # N
            BY <2>1, <3>5
          <5> QED
            BY <2>10, <3>1, <5>1
        <4>2. Before(Range(Carriers(fs)[i]), Range(Carriers(fs)[j]))
          BY <3>1, <3>5
        <4>3. CASE j = N
          <5>1. Range(Carriers(gs)[j]) = Range(Carriers(fs)[j]) \cup {x}
            BY <2>8, <2>10, <4>3
          <5> QED
            BY <4>1, <4>2, <5>1 DEF Before
        <4>4. CASE j # N
          BY <2>10, <4>1, <4>2, <4>4
        <4> QED
          BY <4>3, <4>4
      <3> QED
        BY <2>10, <3>4, <3>5 DEF Rising
    <2>13. Opening(gs)
      <3>1. CASE N = 1
        BY <2>6, <3>1 DEF Opening, Frame
      <3>2. CASE N # 1
        <4>1. gs[1] = fs[1]
          BY <2>1, <2>6, <3>2
        <4> QED
          BY <1>4, <4>1 DEF Opening, Fit
      <3> QED
        BY <3>1, <3>2
    <2> QED
      BY <2>3, <2>5, <2>9, <2>11, <2>12, <2>13 DEF Fit
  <1> QED
    BY <1>2, <1>3, <1>4

LEMMA FramesFit ==
  ASSUME NEW batch \in Seq(Input), Sorted(batch)
  PROVE  Fit(Frames(batch), Range(batch)) /\ (batch = <<>> => Frames(batch) = <<>>)
  <1> DEFINE N == Len(batch)
             f == CHOOSE g : g = [n \in 0 .. N |-> IF n = 0 THEN <<>> ELSE Framed(g[n - 1], batch[n])]
             S == {k \in Nat : \E g : g = [n \in 0 .. k |-> IF n = 0 THEN <<>> ELSE Framed(g[n - 1], batch[n])]}
             Items(n) == {batch[i] : i \in 1 .. n}
             Good == {k \in Nat : k <= N => Fit(f[k], Items(k))}
  <1>1. N \in Nat /\ DOMAIN batch = 1 .. N /\ \A i \in 1 .. N : batch[i] \in Input
    BY SeqElements
  <1>2. f = [n \in 0 .. N |-> IF n = 0 THEN <<>> ELSE Framed(f[n - 1], batch[n])]
    <2>1. 0 \in S
      <3> DEFINE g == [n \in 0 .. 0 |-> <<>>]
      <3>1. g = [n \in 0 .. 0 |-> IF n = 0 THEN <<>> ELSE Framed(g[n - 1], batch[n])]
        OBVIOUS
      <3> QED
        BY <3>1
    <2>2. ASSUME NEW k \in Nat, k \in S PROVE k + 1 \in S
      <3>1. PICK g : g = [n \in 0 .. k |-> IF n = 0 THEN <<>> ELSE Framed(g[n - 1], batch[n])]
        BY <2>2
      <3> DEFINE h == [n \in 0 .. k + 1 |-> IF n \in 0 .. k THEN g[n] ELSE Framed(g[k], batch[k + 1])]
      <3>2. h = [n \in 0 .. k + 1 |-> IF n = 0 THEN <<>> ELSE Framed(h[n - 1], batch[n])]
        BY <3>1
      <3> HIDE DEF h
      <3> QED
        BY <3>2
    <2>3. Nat \subseteq S
      <3> HIDE DEF S
      <3> QED
        BY <2>1, <2>2, Induction
    <2>4. \E g : g = [n \in 0 .. N |-> IF n = 0 THEN <<>> ELSE Framed(g[n - 1], batch[n])]
      BY <1>1, <2>3
    <2> QED
      BY <2>4
  <1>3. Frames(batch) = f[N]
    BY DEF Frames
  <1> HIDE DEF f
  <1>4. 0 \in Good
    <2>1. f[0] = <<>>
      BY <1>1, <1>2
    <2>2. Items(0) = {}
      OBVIOUS
    <2>3. Fit(<<>>, {})
      <3>1. [n |-> 0, bytes |-> 0, serial |-> 0] \in Input
        BY DEF Input
      <3> QED
        BY <3>1, OneFrame
    <2> QED
      BY <2>1, <2>2, <2>3
  <1>5. ASSUME NEW k \in Nat, k \in Good PROVE k + 1 \in Good
    <2> SUFFICES ASSUME k + 1 <= N PROVE Fit(f[k + 1], Items(k + 1))
      OBVIOUS
    <2>1. k + 1 \in 1 .. N /\ k + 1 \in 0 .. N /\ k + 1 # 0 /\ (k + 1) - 1 = k
      BY <1>1
    <2>2. f[k + 1] = Framed(f[k], batch[k + 1])
      BY <1>2, <2>1
    <2>3. Fit(f[k], Items(k))
      BY <1>1, <1>5
    <2>4. Items(k + 1) = Items(k) \cup {batch[k + 1]}
      OBVIOUS
    <2>5. Before(Items(k), {batch[k + 1]})
      <3> SUFFICES ASSUME NEW i \in 1 .. k PROVE batch[i].n < batch[k + 1].n
        BY DEF Before
      <3>1. i \in DOMAIN batch /\ k + 1 \in DOMAIN batch /\ i < k + 1
        BY <1>1, <2>1
      <3> QED
        BY <3>1 DEF Sorted
    <2>6. batch[k + 1] \in Input
      BY <1>1, <2>1
    <2> HIDE DEF Items
    <2> QED
      BY <2>2, <2>3, <2>4, <2>5, <2>6, FramedFits
  <1>6. Nat \subseteq Good
    <2> HIDE DEF Good
    <2> QED
      BY <1>4, <1>5, Induction
  <1>7. Fit(f[N], Items(N))
    <2>1. N \in Good
      BY <1>1, <1>6
    <2> HIDE DEF Items
    <2> QED
      BY <1>1, <2>1
  <1>8. Items(N) = Range(batch)
    BY <1>1 DEF Range
  <1>9. batch = <<>> => f[N] = <<>>
    BY <1>1, <1>2
  <1> QED
    BY <1>3, <1>7, <1>8, <1>9

\* The items of a prefix.
LEMMA FirstItems ==
  ASSUME NEW T, NEW s \in Seq(T), NEW n \in 0 .. Len(s)
  PROVE  /\ Range(First(s, n)) = {s[i] : i \in 1 .. n}
         /\ Range(First(s, n)) \subseteq Range(s)
  <1>1. /\ First(s, n) \in Seq(T) /\ Len(First(s, n)) = n
        /\ \A i \in 1 .. n : First(s, n)[i] = s[i]
    BY PartsOf
  <1>2. DOMAIN First(s, n) = 1 .. n /\ DOMAIN s = 1 .. Len(s) /\ Len(s) \in Nat
    BY <1>1, SeqElements
  <1>3. Range(First(s, n)) = {s[i] : i \in 1 .. n}
    BY <1>1, <1>2 DEF Range
  <1>4. \A i \in 1 .. n : i \in DOMAIN s
    BY <1>2
  <1> QED
    BY <1>3, <1>4 DEF Range

\* The serials of a batch follow the order of issue and leave no gap.
LEMMA NumberedFits ==
  ASSUME NEW run \in Seq(Input), Sorted(run), NEW s \in Nat \ {0}, \A x \in Range(run) : x.serial = 0
  PROVE  LET batch == Numbered(run, s)
             items == Range(batch)
         IN  /\ batch \in Seq(Input) /\ Sorted(batch)
             /\ Commands(items) = Commands(Range(run)) /\ Orders(items) = Orders(Range(run))
             /\ Bytes(items) = Bytes(Range(run)) /\ Orders(items) \in Nat
             /\ \A x \in items : \E y \in Range(run) : x.n = y.n
             /\ \A x \in items : IF IsOrder(x) THEN x.serial \in s .. s + Orders(items) - 1
                                 ELSE x.serial = 0
             /\ \A x, y \in items : IsOrder(x) /\ IsOrder(y) /\ x.n < y.n => x.serial < y.serial
             /\ \A x, y \in items : x.n = y.n => x = y
  <1> DEFINE batch == Numbered(run, s)
             D == 1 .. Len(run)
             c(i) == Orders(Range(First(run, i - 1)))
  <1>1. Len(run) \in Nat /\ DOMAIN run = D /\ \A i \in D : run[i] \in Input
    BY SeqElements
  <1>2. Sized(Range(run))
    BY RunSized
  <1>3. ASSUME NEW i \in D PROVE c(i) \in Nat
    <2>1. i - 1 \in 0 .. Len(run)
      BY <1>1
    <2>2. Range(First(run, i - 1)) \subseteq Range(run)
      BY <2>1, FirstItems
    <2> QED
      BY <1>2, <2>2, CountFewer, CountTypes
  <1>4. ASSUME NEW i \in D, IsOrder(run[i]), NEW S, Sized(S),
               Range(First(run, i - 1)) \subseteq S, run[i] \in S
        PROVE  c(i) + 1 <= Orders(S)
    <2> DEFINE R == Range(First(run, i - 1))
    <2>1. i - 1 \in 0 .. Len(run)
      BY <1>1
    <2>2. R = {run[j] : j \in 1 .. i - 1}
      BY <2>1, FirstItems
    <2>3. run[i] \notin R
      <3> SUFFICES ASSUME NEW j \in 1 .. i - 1, run[j] = run[i] PROVE FALSE
        BY <2>2
      <3>1. j \in DOMAIN run /\ i \in DOMAIN run /\ j < i
        BY <1>1
      <3>2. run[j].n < run[i].n /\ run[i].n \in Nat
        BY <1>1, <3>1 DEF Sorted, Input
      <3> QED
        BY <3>2
    <2>4. run[i].bytes \in Nat
      BY <1>4 DEF Sized
    <2> HIDE DEF R
    <2>5. Sized(R) /\ Sized({run[i]}) /\ Orders({run[i]}) = 1
      BY <1>4, <2>4, CountFewer, CountOne DEF R
    <2>6. Orders(R \cup {run[i]}) = Orders(R) + 1
      BY <2>3, <2>5, CountSplit
    <2>7. Orders(R \cup {run[i]}) <= Orders(S)
      BY <1>4, CountFewer DEF R
    <2> QED
      BY <2>6, <2>7 DEF R
  <1>5. /\ DOMAIN batch = D
        /\ \A i \in D : batch[i] = IF IsOrder(run[i]) THEN [run[i] EXCEPT !.serial = s + c(i)] ELSE run[i]
    BY <1>1 DEF Numbered
  <1> HIDE DEF batch
  <1>6. ASSUME NEW i \in D
        PROVE  /\ batch[i] \in Input /\ batch[i].n = run[i].n /\ batch[i].bytes = run[i].bytes
               /\ IsOrder(batch[i]) <=> IsOrder(run[i])
               /\ batch[i].serial = IF IsOrder(run[i]) THEN s + c(i) ELSE 0
    <2>1. run[i] \in Input /\ run[i].serial = 0 /\ s + c(i) \in Nat
      BY <1>1, <1>3 DEF Range
    <2> HIDE DEF c
    <2>2. CASE IsOrder(run[i])
      <3>1. batch[i] = [run[i] EXCEPT !.serial = s + c(i)]
        BY <1>5, <2>2
      <3> QED
        BY <2>1, <2>2, <3>1 DEF Input, IsOrder
    <2>3. CASE ~IsOrder(run[i])
      BY <1>5, <2>1, <2>3
    <2> QED
      BY <2>2, <2>3
  <1>7. batch \in Seq(Input) /\ Len(batch) = Len(run)
    <2>1. batch = [i \in 1 .. Len(run) |-> batch[i]]
      BY <1>5 DEF batch, Numbered
    <2>2. [i \in 1 .. Len(run) |-> batch[i]] \in Seq(Input)
      BY <1>1, <1>6, IsASeq
    <2>3. batch \in Seq(Input)
      BY <2>1, <2>2
    <2> QED
      BY <1>1, <1>5, <2>3, LenProperties
  <1>8. /\ Sorted(batch)
        /\ Commands(Range(batch)) = Commands(Range(run)) /\ Orders(Range(batch)) = Orders(Range(run))
        /\ Bytes(Range(batch)) = Bytes(Range(run))
    BY <1>6, <1>7, CountsByPlace
  <1>9. Orders(Range(batch)) \in Nat
    BY <1>2, <1>8, CountTypes
  <1>10. \A x \in Range(batch) : \E i \in D : x = batch[i]
    BY <1>5 DEF Range
  <1>11. ASSUME NEW x \in Range(batch) PROVE \E y \in Range(run) : x.n = y.n
    <2>1. PICK i \in D : x = batch[i]
      BY <1>10
    <2> QED
      BY <1>1, <1>6, <2>1 DEF Range
  <1>12. ASSUME NEW x \in Range(batch)
         PROVE  IF IsOrder(x) THEN x.serial \in s .. s + Orders(Range(batch)) - 1 ELSE x.serial = 0
    <2>1. PICK i \in D : x = batch[i]
      BY <1>10
    <2>2. CASE IsOrder(run[i])
      <3>1. i - 1 \in 0 .. Len(run)
        BY <1>1
      <3>2. Range(First(run, i - 1)) \subseteq Range(run) /\ run[i] \in Range(run)
        BY <1>1, <3>1, FirstItems DEF Range
      <3>3. c(i) + 1 <= Orders(Range(run))
        BY <1>2, <1>4, <2>2, <3>2
      <3>4. x.serial = s + c(i) /\ c(i) \in Nat /\ IsOrder(x)
        BY <1>3, <1>6, <2>1, <2>2
      <3> HIDE DEF c
      <3> QED
        BY <1>8, <1>9, <3>3, <3>4
    <2>3. CASE ~IsOrder(run[i])
      BY <1>6, <2>1, <2>3
    <2> QED
      BY <2>2, <2>3
  <1>13. ASSUME NEW x \in Range(batch), NEW y \in Range(batch), IsOrder(x), IsOrder(y), x.n < y.n
         PROVE  x.serial < y.serial
    <2>1. PICK i \in D : x = batch[i]
      BY <1>10
    <2>2. PICK j \in D : y = batch[j]
      BY <1>10
    <2>3. /\ IsOrder(run[i]) /\ IsOrder(run[j]) /\ run[i].n < run[j].n
          /\ x.serial = s + c(i) /\ y.serial = s + c(j)
      BY <1>6, <1>13, <2>1, <2>2
    <2>4. i < j
      <3>1. run[i].n \in Nat /\ run[j].n \in Nat
        BY <1>1 DEF Input
      <3>2. ~(j < i)
        BY <1>1, <2>3, <3>1 DEF Sorted
      <3>3. i # j
        BY <2>3, <3>1
      <3> QED
        BY <3>2, <3>3
    <2>5. c(i) + 1 <= c(j)
      <3> DEFINE S == Range(First(run, j - 1))
      <3>1. i - 1 \in 0 .. Len(run) /\ j - 1 \in 0 .. Len(run)
        BY <1>1
      <3>2. /\ Range(First(run, i - 1)) = {run[k] : k \in 1 .. i - 1}
            /\ S = {run[k] : k \in 1 .. j - 1} /\ S \subseteq Range(run)
        BY <3>1, FirstItems, SMTT(30)
      <3>3. Range(First(run, i - 1)) \subseteq S /\ run[i] \in S
        BY <2>4, <3>2
      <3>4. Sized(S)
        BY <1>2, <3>2, CountFewer
      <3> HIDE DEF S
      <3>5. c(i) + 1 <= Orders(S)
        BY <1>4, <2>3, <3>3, <3>4
      <3> QED
        BY <3>5 DEF S
    <2>6. c(i) \in Nat /\ c(j) \in Nat
      BY <1>3
    <2> HIDE DEF c
    <2> QED
      BY <2>3, <2>5, <2>6
  <1>14. ASSUME NEW x \in Range(batch), NEW y \in Range(batch), x.n = y.n PROVE x = y
    <2>1. PICK i \in D : x = batch[i]
      BY <1>10
    <2>2. PICK j \in D : y = batch[j]
      BY <1>10
    <2>3. run[i].n = run[j].n /\ run[i].n \in Nat
      BY <1>1, <1>6, <1>14, <2>1, <2>2 DEF Input
    <2>4. ~(i < j) /\ ~(j < i)
      BY <1>1, <2>3 DEF Sorted
    <2>5. i = j
      BY <2>4
    <2> QED
      BY <2>1, <2>2, <2>5
  <1> QED
    BY <1>7, <1>8, <1>9, <1>11, <1>12, <1>13, <1>14 DEF batch

-----------------------------------------------------------------------------
(* The frames to the client.                                               *)

LEMMA BundlesType ==
  ASSUME NEW d, NEW n \in Nat
  PROVE  BundlesOf(d, n) \in Nat /\ BundlesOf(d, n) <= n /\ BundlesOf(d, 0) = 0
  <1>1. IsFiniteSet(1 .. n) /\ Cardinality(1 .. n) = n
    <2>1. 1 \in Int /\ n \in Int
      OBVIOUS
    <2> QED
      BY <2>1, FS_Interval
  <1>2. {i \in 1 .. n : d[i].kind = "bundle"} \subseteq 1 .. n
    OBVIOUS
  <1>3. {i \in 1 .. 0 : d[i].kind = "bundle"} = {}
    OBVIOUS
  <1> QED
    BY <1>1, <1>2, <1>3, FS_Subset, FS_CardinalityType, FS_EmptySet DEF BundlesOf

LEMMA NewsType ==
  ASSUME NEW d \in Seq(DownFrame), NEW n \in 0 .. Len(d), ToldOnce(d)
  PROVE  NewsOf(d, n) \in SUBSET Input /\ Sized(NewsOf(d, n)) /\ NewsOf(d, 0) = {}
  <1> DEFINE P == {d[i].items : i \in 1 .. n}
             f == [i \in 1 .. n |-> d[i].items]
  <1>1. Len(d) \in Nat /\ DOMAIN d = 1 .. Len(d) /\ \A i \in 1 .. Len(d) : d[i] \in DownFrame
    BY SeqElements
  <1>2. \A i \in 1 .. n : i \in DOMAIN d /\ d[i].items \in SUBSET Input /\ IsFiniteSet(d[i].items)
    BY <1>1 DEF ToldOnce, DownFrame
  <1>3. f \in Surjection(1 .. n, P)
    BY DEF Surjection
  <1>4. IsFiniteSet(1 .. n)
    <2>1. 1 \in Int /\ n \in Int
      OBVIOUS
    <2> QED
      BY <2>1, FS_Interval
  <1>5. IsFiniteSet(P)
    <2> HIDE DEF P, f
    <2> QED
      BY <1>3, <1>4, FS_Surjection
  <1>6. \A p \in P : IsFiniteSet(p) /\ p \in SUBSET Input
    BY <1>2
  <1>7. IsFiniteSet(UNION P) /\ UNION P \in SUBSET Input
    <2> HIDE DEF P, f
    <2> QED
      BY <1>5, <1>6, FS_UNION
  <1>8. NewsOf(d, n) = UNION P
    BY DEF NewsOf
  <1>9. NewsOf(d, 0) = {}
    BY DEF NewsOf
  <1> HIDE DEF P, f
  <1> QED
    BY <1>7, <1>8, <1>9, InputSized

LEMMA NewsAppend ==
  ASSUME NEW d \in Seq(DownFrame), NEW f \in DownFrame
  PROVE  LET e == Append(d, f) IN
         /\ e \in Seq(DownFrame) /\ Len(e) = Len(d) + 1
         /\ NewsOf(e, Len(e)) = NewsOf(d, Len(d)) \cup f.items
         /\ BundlesOf(e, Len(e)) = BundlesOf(d, Len(d)) + IF f.kind = "bundle" THEN 1 ELSE 0
         /\ ToldOnce(d) /\ IsFiniteSet(f.items) /\ (f.kind = "bundle" => f.items = {})
              /\ f.items \cap NewsOf(d, Len(d)) = {} => ToldOnce(e)
  <1> DEFINE e == Append(d, f)
             N == Len(d)
  <1>1. /\ e \in Seq(DownFrame) /\ Len(e) = N + 1 /\ N \in Nat
        /\ \A i \in 1 .. N : e[i] = d[i]
        /\ e[N + 1] = f
    BY AppendProperties
  <1>2. DOMAIN e = 1 .. N + 1 /\ DOMAIN d = 1 .. N
    BY <1>1, SeqElements
  <1> HIDE DEF e, N
  <1>3. 1 .. N + 1 = 1 .. N \cup {N + 1} /\ N + 1 \notin 1 .. N
    BY <1>1
  <1>4. NewsOf(e, N + 1) = NewsOf(d, N) \cup f.items
    <2>1. {e[i].items : i \in 1 .. N + 1} = {d[i].items : i \in 1 .. N} \cup {f.items}
      BY <1>1, <1>3
    <2> QED
      BY <2>1 DEF NewsOf
  <1>5. BundlesOf(e, N + 1) = BundlesOf(d, N) + IF f.kind = "bundle" THEN 1 ELSE 0
    <2> DEFINE A == {i \in 1 .. N : d[i].kind = "bundle"}
               B == {i \in 1 .. N + 1 : e[i].kind = "bundle"}
    <2>1. B = IF f.kind = "bundle" THEN A \cup {N + 1} ELSE A
      BY <1>1, <1>3
    <2>2. IsFiniteSet(A) /\ N + 1 \notin A
      <3>1. IsFiniteSet(1 .. N)
        <4>1. 1 \in Int /\ N \in Int
          BY <1>1
        <4> QED
          BY <4>1, FS_Interval
      <3> QED
        BY <1>3, <3>1, FS_Subset
    <2> HIDE DEF A, B
    <2>3. Cardinality(B) = Cardinality(A) + IF f.kind = "bundle" THEN 1 ELSE 0
      BY <2>1, <2>2, FS_AddElement, FS_CardinalityType
    <2> QED
      BY <2>3 DEF A, B, BundlesOf
  <1>6. ASSUME ToldOnce(d), IsFiniteSet(f.items), f.kind = "bundle" => f.items = {},
               f.items \cap NewsOf(d, N) = {}
        PROVE  ToldOnce(e)
    <2>1. ASSUME NEW i \in 1 .. N + 1
          PROVE  IsFiniteSet(e[i].items) /\ (e[i].kind = "bundle" => e[i].items = {})
      <3>1. CASE i = N + 1
        BY <1>1, <1>6, <3>1
      <3>2. CASE i # N + 1
        <4>1. i \in DOMAIN d /\ e[i] = d[i]
          BY <1>1, <1>2, <1>3, <3>2
        <4> QED
          BY <1>6, <4>1 DEF ToldOnce
      <3> QED
        BY <3>1, <3>2
    <2>2. \A i \in 1 .. N : d[i].items \cap f.items = {}
      BY <1>6 DEF NewsOf
    <2>3. ASSUME NEW i \in 1 .. N + 1, NEW j \in 1 .. N + 1, i # j PROVE e[i].items \cap e[j].items = {}
      <3>1. CASE i \in 1 .. N /\ j \in 1 .. N
        BY <1>1, <1>2, <1>6, <2>3, <3>1 DEF ToldOnce
      <3>2. CASE i = N + 1
        <4>1. e[i] = f /\ j \in 1 .. N /\ e[j] = d[j]
          BY <1>1, <1>3, <2>3, <3>2
        <4> QED
          BY <2>2, <4>1
      <3>3. CASE j = N + 1
        <4>1. e[j] = f /\ i \in 1 .. N /\ e[i] = d[i]
          BY <1>1, <1>3, <2>3, <3>3
        <4> QED
          BY <2>2, <4>1
      <3> QED
        BY <1>3, <3>1, <3>2, <3>3
    <2> QED
      BY <1>2, <2>1, <2>3 DEF ToldOnce
  <1> QED
    BY <1>1, <1>4, <1>5, <1>6 DEF e, N

LEMMA NewsBehind ==
  ASSUME NEW d \in Seq(DownFrame), NEW n \in 0 .. Len(d), ToldOnce(d)
  PROVE  LET e == Behind(d, n) IN
         /\ e \in Seq(DownFrame) /\ Len(e) = Len(d) - n /\ ToldOnce(e)
         /\ NewsOf(d, Len(d)) = NewsOf(d, n) \cup NewsOf(e, Len(e))
         /\ NewsOf(d, n) \cap NewsOf(e, Len(e)) = {}
         /\ BundlesOf(d, Len(d)) = BundlesOf(d, n) + BundlesOf(e, Len(e))
  <1> DEFINE e == Behind(d, n)
             N == Len(d)
  <1>1. /\ e \in Seq(DownFrame) /\ Len(e) = N - n /\ N \in Nat /\ n \in 0 .. N
        /\ \A i \in 1 .. N - n : e[i] = d[i + n]
    BY PartsOf, SeqElements
  <1>2. DOMAIN e = 1 .. N - n /\ DOMAIN d = 1 .. N
    BY <1>1, SeqElements
  <1> HIDE DEF e, N
  <1>3. /\ \A i \in 1 .. n : i \in 1 .. N
        /\ \A i \in 1 .. N - n : i + n \in 1 .. N /\ i + n \notin 1 .. n
        /\ \A i \in 1 .. N : i \in 1 .. n \/ (i - n \in 1 .. N - n /\ i = (i - n) + n)
        /\ \A i, j \in 1 .. N - n : i # j => i + n # j + n
    BY <1>1
  <1>4. NewsOf(d, N) = NewsOf(d, n) \cup NewsOf(e, N - n)
    <2>1. {d[i].items : i \in 1 .. N} = {d[i].items : i \in 1 .. n} \cup {e[i].items : i \in 1 .. N - n}
      <3>1. \A i \in 1 .. N : d[i].items \in {d[j].items : j \in 1 .. n} \cup {e[j].items : j \in 1 .. N - n}
        <4> SUFFICES ASSUME NEW i \in 1 .. N, i \notin 1 .. n
                     PROVE  \E j \in 1 .. N - n : d[i].items = e[j].items
          OBVIOUS
        <4>1. i - n \in 1 .. N - n /\ i = (i - n) + n
          BY <1>3
        <4>2. e[i - n] = d[i]
          BY <1>1, <4>1
        <4> QED
          BY <4>1, <4>2
      <3>2. \A i \in 1 .. N - n : e[i].items \in {d[j].items : j \in 1 .. N}
        BY <1>1, <1>3
      <3>3. \A i \in 1 .. n : d[i].items \in {d[j].items : j \in 1 .. N}
        BY <1>3
      <3> DEFINE P == {d[j].items : j \in 1 .. N}
                 Q == {d[j].items : j \in 1 .. n}
                 R == {e[j].items : j \in 1 .. N - n}
      <3>4. (\A p \in P : p \in Q \cup R) /\ (\A p \in Q : p \in P) /\ (\A p \in R : p \in P)
        BY <3>1, <3>2, <3>3
      <3> HIDE DEF P, Q, R
      <3>5. P = Q \cup R
        BY <3>4
      <3> QED
        BY <3>5 DEF P, Q, R
    <2> QED
      BY <2>1 DEF NewsOf
  <1>5. NewsOf(d, n) \cap NewsOf(e, N - n) = {}
    <2> SUFFICES ASSUME NEW i \in 1 .. n, NEW j \in 1 .. N - n PROVE d[i].items \cap e[j].items = {}
      BY DEF NewsOf
    <2>1. i \in DOMAIN d /\ j + n \in DOMAIN d /\ i # j + n /\ e[j] = d[j + n]
      BY <1>1, <1>2, <1>3
    <2> QED
      BY <2>1 DEF ToldOnce
  <1>6. ToldOnce(e)
    <2>1. \A i \in 1 .. N - n : i + n \in DOMAIN d /\ e[i] = d[i + n]
      BY <1>1, <1>2, <1>3
    <2> QED
      BY <1>2, <1>3, <2>1 DEF ToldOnce
  <1>7. BundlesOf(d, N) = BundlesOf(d, n) + BundlesOf(e, N - n)
    <2> DEFINE A == {i \in 1 .. n : d[i].kind = "bundle"}
               B == {i \in 1 .. N : d[i].kind = "bundle"}
               C == {i \in 1 .. N - n : e[i].kind = "bundle"}
               E == B \ A
               f == [i \in C |-> i + n]
    <2>1. f \in Bijection(C, E)
      <3>1. \A i \in C : i + n \in E
        BY <1>1, <1>3
      <3>2. ASSUME NEW k \in E PROVE \E i \in C : i + n = k
        <4>1. k \in 1 .. N /\ k \notin 1 .. n /\ d[k].kind = "bundle"
          BY <1>3
        <4>2. k - n \in 1 .. N - n /\ k = (k - n) + n
          BY <1>3, <4>1
        <4>3. e[k - n] = d[k]
          BY <1>1, <4>2
        <4> QED
          BY <4>1, <4>2, <4>3
      <3>3. \A i, j \in C : i + n = j + n => i = j
        BY <1>3
      <3> HIDE DEF C, E
      <3> QED
        BY <3>1, <3>2, <3>3 DEF Bijection, Injection, Surjection, IsInjective
    <2>2. IsFiniteSet(B) /\ IsFiniteSet(A) /\ IsFiniteSet(C)
      <3>1. IsFiniteSet(1 .. n) /\ IsFiniteSet(1 .. N) /\ IsFiniteSet(1 .. N - n)
        <4>1. 1 \in Int /\ n \in Int /\ N \in Int /\ N - n \in Int
          BY <1>1
        <4> QED
          BY <4>1, FS_Interval
      <3> QED
        BY <3>1, FS_Subset
    <2>3. A \subseteq B
      BY <1>3
    <2> HIDE DEF A, B, C, f
    <2>4. Cardinality(E) = Cardinality(C)
      BY <2>1, <2>2, FS_Bijection DEF ExistsBijection
    <2>5. Cardinality(B) = Cardinality(A) + Cardinality(E)
      <3>1. IsFiniteSet(E) /\ A \cap E = {} /\ A \cup E = B
        BY <2>2, <2>3, FS_Difference
      <3>2. Cardinality(A \cup E) = Cardinality(A) + Cardinality(E) - Cardinality(A \cap E)
        BY <2>2, <3>1, FS_Union
      <3>3. Cardinality({}) = 0 /\ Cardinality(A) \in Nat /\ Cardinality(E) \in Nat
        BY <2>2, <3>1, FS_EmptySet, FS_CardinalityType
      <3> HIDE DEF E
      <3>4. Cardinality(A \cap E) = 0
        BY <3>1, <3>3
      <3>5. Cardinality(B) = Cardinality(A \cup E)
        BY <3>1
      <3> QED
        BY <3>2, <3>3, <3>4, <3>5
    <2> HIDE DEF E
    <2> QED
      BY <2>4, <2>5 DEF A, B, C, BundlesOf
  <1> QED
    BY <1>1, <1>4, <1>5, <1>6, <1>7 DEF e, N

LEMMA NoNews ==
  ASSUME NEW k \in Nat
  PROVE  LET d == [i \in 1 .. k |-> Bundle] IN
         /\ d \in Seq(DownFrame) /\ Len(d) = k /\ ToldOnce(d)
         /\ NewsOf(d, Len(d)) = {} /\ BundlesOf(d, Len(d)) = k
         /\ <<>> \in Seq(DownFrame) /\ ToldOnce(<<>>) /\ NewsOf(<<>>, Len(<<>>)) = {} /\ BundlesOf(<<>>, Len(<<>>)) = 0
  <1> DEFINE d == [i \in 1 .. k |-> Bundle]
  <1>1. Bundle \in DownFrame /\ Bundle.kind = "bundle" /\ Bundle.items = {}
    BY DEF Bundle, Frame, DownFrame
  <1>2. d \in Seq(DownFrame) /\ Len(d) = k /\ DOMAIN d = 1 .. k /\ \A i \in 1 .. k : d[i] = Bundle
    <2>1. d \in Seq(DownFrame)
      BY <1>1, IsASeq
    <2>2. DOMAIN d = 1 .. k /\ \A i \in 1 .. k : d[i] = Bundle
      OBVIOUS
    <2> HIDE DEF d
    <2> QED
      BY <2>1, <2>2, LenProperties
  <1> HIDE DEF d
  <1>3. ToldOnce(d)
    BY <1>1, <1>2, FS_EmptySet DEF ToldOnce
  <1>4. NewsOf(d, k) = {}
    BY <1>1, <1>2 DEF NewsOf
  <1>5. BundlesOf(d, k) = k
    <2>1. {i \in 1 .. k : d[i].kind = "bundle"} = 1 .. k
      BY <1>1, <1>2
    <2>2. Cardinality(1 .. k) = k
      <3>1. 1 \in Int /\ k \in Int
        OBVIOUS
      <3> QED
        BY <3>1, FS_Interval
    <2> QED
      BY <2>1, <2>2 DEF BundlesOf
  <1>6. <<>> \in Seq(DownFrame) /\ ToldOnce(<<>>) /\ NewsOf(<<>>, 0) = {} /\ Len(<<>>) = 0
    BY DEF ToldOnce, NewsOf
  <1> QED
    BY <1>2, <1>3, <1>4, <1>5, <1>6, BundlesType DEF d

-----------------------------------------------------------------------------
(* Where the items are.                                                    *)

Places ==
  /\ Streamed \in Seq(Seq(Input)) /\ AllOf(Streamed) = AllOf(unplayed) \cup AllOf(frozen)
  /\ Uplink = Carriers(up) /\ Uplink \in Seq(Seq(Input))
  /\ Sized(AllOf(unplayed)) /\ Sized(AllOf(frozen)) /\ Sized(Range(queue)) /\ Sized(AllOf(Uplink))
  /\ Sized(Range(outbox)) /\ Range(outbox) \in SUBSET Input /\ Sized(sent)
  /\ Range(queue) \in SUBSET Input /\ AllOf(Uplink) \in SUBSET Input
  /\ Sized(OnItsWay) /\ OnItsWay \in SUBSET Input

LEMMA PlacesOf == Typed => Places
  <1> SUFFICES ASSUME Typed PROVE Places
    OBVIOUS
  <1>1. /\ unplayed \in Seq(Seq(Input)) /\ frozen \in Seq(Seq(Input))
        /\ queue \in Seq(Input) /\ outbox \in Seq(Input) /\ up \in Seq(UpFrame)
        /\ sent \in SUBSET Input /\ IsFiniteSet(sent)
    BY DEF Typed
  <1>2. Streamed \in Seq(Seq(Input)) /\ AllOf(Streamed) = AllOf(unplayed) \cup AllOf(frozen)
    BY <1>1, JoinSorted, AllOfJoined DEF Streamed
  <1>3. Uplink = Carriers(up) /\ Uplink \in Seq(Seq(Input))
    BY <1>1, CarriersType DEF Uplink, Carriers
  <1>4. /\ Sized(AllOf(unplayed)) /\ AllOf(unplayed) \in SUBSET Input
        /\ Sized(AllOf(frozen)) /\ AllOf(frozen) \in SUBSET Input
        /\ Sized(AllOf(Uplink)) /\ AllOf(Uplink) \in SUBSET Input
    BY <1>1, <1>3, RunsSized
  <1>5. /\ Sized(Range(queue)) /\ Range(queue) \in SUBSET Input
        /\ Sized(Range(outbox)) /\ Range(outbox) \in SUBSET Input
    BY <1>1, RunSized
  <1>6. Sized(sent)
    BY <1>1, InputSized
  <1>7. OnItsWay \in SUBSET Input
    BY <1>2, <1>4, <1>5 DEF OnItsWay
  <1>8. IsFiniteSet(OnItsWay)
    <2>1. IsFiniteSet(AllOf(Streamed)) /\ IsFiniteSet(Range(queue)) /\ IsFiniteSet(AllOf(Uplink))
      BY <1>2, <1>4, <1>5, FS_Union DEF Sized
    <2>2. IsFiniteSet(AllOf(Streamed) \cup Range(queue))
      BY <2>1, FS_Union
    <2> QED
      BY <2>1, <2>2, FS_Union DEF OnItsWay
  <1> QED
    BY <1>2, <1>3, <1>4, <1>5, <1>6, <1>7, <1>8, InputSized DEF Places

LEMMA PlacesNext == Typed' => Places'
  BY PlacesOf, PTL

NewsPlaced ==
  /\ News \in SUBSET Input /\ Sized(News) /\ Sized(Told) /\ Told \in SUBSET Input
  /\ Outstanding = OnItsWay \cup News /\ Sized(Outstanding)

LEMMA NewsPlacedOf == Typed /\ ToldOnce(down) => NewsPlaced
  <1> SUFFICES ASSUME Typed, ToldOnce(down) PROVE NewsPlaced
    OBVIOUS
  <1>1. down \in Seq(DownFrame) /\ Len(down) \in 0 .. Len(down) /\ sent \in SUBSET Input
    <2>1. down \in Seq(DownFrame) /\ sent \in SUBSET Input
      BY DEF Typed
    <2>2. Len(down) \in Nat
      BY <2>1, SeqElements
    <2> QED
      BY <2>1, <2>2
  <1>2. News \in SUBSET Input /\ Sized(News)
    BY <1>1, NewsType DEF News
  <1>3. /\ Sized(OnItsWay) /\ OnItsWay \in SUBSET Input /\ Sized(sent)
    BY PlacesOf DEF Places
  <1>4. Outstanding = OnItsWay \cup News
    BY DEF Outstanding, OnItsWay, News, NewsIn, NewsOf
  <1>5. Sized(OnItsWay \cup News)
    <2>1. IsFiniteSet(OnItsWay \cup News) /\ OnItsWay \cup News \in SUBSET Input
      BY <1>2, <1>3, FS_Union DEF Sized
    <2> QED
      BY <2>1, InputSized
  <1>6. Sized(Told) /\ Told \in SUBSET Input
    <2>1. IsFiniteSet(Told) /\ Told \in SUBSET Input
      BY <1>1, <1>2, <1>3, <1>5, FS_Union DEF Sized, Told
    <2> QED
      BY <2>1, InputSized
  <1> QED
    BY <1>2, <1>4, <1>5, <1>6 DEF NewsPlaced

LEMMA NewsPlacedNext == Typed' /\ ToldOnce(down') => NewsPlaced'
  <1>1. (Typed /\ ToldOnce(down) => NewsPlaced)'
    BY NewsPlacedOf, PTL
  <1>2. ToldOnce(down)' <=> ToldOnce(down')
    BY DEF ToldOnce
  <1> QED
    BY <1>1, <1>2

LEMMA SeriesPart ==
  ASSUME NEW S, NEW T, NEW a, NEW b, InSeries(S, a, b), T \subseteq S
  PROVE  InSeries(T, a, b)
  BY DEF InSeries

LEMMA NumberingKept ==
  ASSUME Numbering, Told' \subseteq Told, UNCHANGED <<outbox, serial, issued>>
  PROVE  Numbering'
  <1>1. InSeries(Told', issued, serial)
    BY SeriesPart DEF Numbering
  <1>2. Before(Told', Range(outbox))
    BY DEF Numbering, Before
  <1> QED
    BY <1>1, <1>2 DEF Numbering, InSeries

\* The frames of a connection that is gone leave nothing behind.
LEMMA EmptyPlaces ==
  /\ Range(<<>>) = {} /\ AllOf(<<>>) = {} /\ Rising(<<>>) /\ Sorted(<<>>) /\ Shaped(<<>>)
  /\ Carriers(<<>>) = <<>> /\ <<>> \in Seq(Input) /\ <<>> \in Seq(UpFrame)
  /\ EmptyInbox \in Inbox /\ EmptyInbox.stage = NoStage /\ EmptyInbox.last = 0
  /\ EmptyInbox.queued = 0 /\ EmptyInbox.bytes = 0
  /\ Commands({}) = 0 /\ Orders({}) = 0 /\ Bytes({}) = 0
  <1>1. DOMAIN <<>> = {} /\ Range(<<>>) = {}
    BY DEF Range
  <1>2. Commands({}) = 0 /\ Orders({}) = 0 /\ Bytes({}) = 0
    BY EmptyRun, RunSized, CountTypes
  <1>3. EmptyInbox \in Inbox /\ EmptyInbox.stage = NoStage
    BY DEF EmptyInbox, NoStage, Inbox
  <1>4. EmptyInbox.queued = 0 /\ EmptyInbox.bytes = 0 /\ EmptyInbox.last = 0
    BY DEF EmptyInbox
  <1>5. AllOf(<<>>) = {} /\ Rising(<<>>) /\ Sorted(<<>>) /\ Shaped(<<>>) /\ Carriers(<<>>) = <<>>
    BY <1>1 DEF AllOf, Rising, Sorted, Shaped, Carriers
  <1> QED
    BY <1>1, <1>2, <1>3, <1>4, <1>5

LEMMA InitHolds == Init => IInv
  <1> SUFFICES ASSUME Init PROVE IInv
    OBVIOUS
  <1>1. /\ outbox = <<>> /\ up = <<>> /\ down = <<>> /\ queue = <<>> /\ frozen = <<>> /\ unplayed = <<>>
        /\ sent = {} /\ inbox = EmptyInbox
        /\ issued = 0 /\ breaks = 0 /\ credit = CapPerTick /\ unsettled = 0 /\ inFlight = 0 /\ serial = 1
        /\ floor = 0 /\ played = 0 /\ link = TRUE /\ attached = TRUE /\ got = 0 /\ history = 0
    BY DEF Init
  <1>2. IsFiniteSet({}) /\ Cardinality({}) = 0
    BY FS_EmptySet
  <1>3. Len(<<>>) = 0 /\ <<>> \in Seq(Seq(Input)) /\ <<>> \in Seq(DownFrame)
    OBVIOUS
  <1>4. Typed
    BY <1>1, <1>2, <1>3, EmptyPlaces DEF Typed
  <1>5. Streamed = <<>> /\ Uplink = <<>> /\ NewsOf(down, Len(down)) = {} /\ BundlesOf(down, Len(down)) = 0 /\ ToldOnce(down)
    <2>1. Streamed = <<>>
      BY <1>1 DEF Streamed
    <2>2. Uplink = <<>>
      BY <1>1, EmptyPlaces DEF Uplink, Carriers
    <2> QED
      BY <1>1, <2>1, <2>2, NoNews
  <1>6. OnItsWay = {} /\ News = {} /\ Told = {} /\ Outstanding = {}
    BY <1>1, <1>5, EmptyPlaces DEF OnItsWay, News, Told, Outstanding, NewsIn, NewsOf
  <1>7. TicksInStep
    BY <1>1, <1>3, <1>5 DEF TicksInStep
  <1>8. Numbering
    <2>1. Range(outbox) = {} /\ Orders(Range(outbox)) = 0 /\ Sorted(outbox)
      BY <1>1, EmptyPlaces
    <2>2. serial + Orders(Range(outbox)) <= issued + 1
      BY <1>1, <2>1
    <2> QED
      BY <1>6, <2>1, <2>2 DEF Numbering, InSeries, Before
  <1>9. Ordering
    BY <1>1, <1>5, <1>6, EmptyPlaces DEF Ordering, Before
  <1>10. Apart
    BY <1>5, <1>6 DEF Apart
  <1>11. Shaped(up) /\ Staged
    BY <1>1, EmptyPlaces DEF Staged
  <1>12. Counted
    BY <1>1, EmptyPlaces DEF Counted
  <1>13. Windows
    BY <1>1, <1>2, <1>5, EmptyPlaces DEF Windows
  <1>14. Quiet
    <2>1. ~CatchingUp
      BY <1>1 DEF CatchingUp
    <2>2. Commands(AllOf(frozen)) = 0
      BY <1>1, EmptyPlaces
    <2> QED
      BY <1>1, <2>1, <2>2 DEF Quiet
  <1>15. WindowCovers /\ NothingLeaks
    BY <1>1, <1>6, EmptyPlaces DEF WindowCovers, NothingLeaks
  <1> QED
    BY <1>4, <1>7, <1>8, <1>9, <1>10, <1>11, <1>12, <1>13, <1>14, <1>15 DEF IInv

LEMMA IssueKeeps ==
  ASSUME IInv, NEW bytes \in {0} \cup OrderSizes, Issue(bytes)
  PROVE  IInv'
  <1> DEFINE x == Item(issued + 1, bytes)
  <1>1. /\ issued < MaxIssued /\ issued' = issued + 1 /\ outbox' = Append(outbox, x)
        /\ UNCHANGED <<credit, unsettled, inFlight, sent, serial, link, got, history, unplayed, played>>
        /\ UNCHANGED <<breaks, up, down, attached, queue, inbox, floor, frozen>>
    BY DEF Issue, stream, server
  <1>2. Typed /\ Places /\ Numbering /\ Ordering
    BY PlacesOf DEF IInv
  <1>3. x \in Input /\ x.n = issued + 1 /\ x.serial = 0 /\ issued \in Nat
    BY <1>2 DEF Typed, Item, Input
  <1>4. /\ outbox \in Seq(Input) /\ outbox' \in Seq(Input)
        /\ Range(outbox') = Range(outbox) \cup {x}
        /\ Sorted(outbox) /\ (\A y \in Range(outbox) : y.n < x.n) => Sorted(outbox')
    BY <1>1, <1>2, <1>3, AppendRange DEF Typed
  <1> HIDE DEF x
  <1>5. Typed'
    BY <1>1, <1>2, <1>4 DEF Typed
  <1>6. /\ OnItsWay' = OnItsWay /\ News' = News /\ Told' = Told /\ Outstanding' = Outstanding
        /\ Late' = Late /\ Streamed' = Streamed /\ Uplink' = Uplink
    BY <1>1 DEF OnItsWay, News, Told, Outstanding, NewsIn, Late, Streamed, Uplink
  <1>7. TicksInStep' /\ Apart' /\ Shaped(up)' /\ Staged' /\ Counted'
    BY <1>1, <1>6 DEF IInv, TicksInStep, Apart, ToldOnce, Shaped, InTransaction, Staged, Counted
  <1>8. Windows' /\ Quiet' /\ WindowCovers' /\ NothingLeaks'
    BY <1>1, <1>6 DEF IInv, Windows, Quiet, CatchingUp, WindowCovers, NothingLeaks, Conversing
  <1>9. Numbering'
    <2>1. \A y \in Range(outbox) \cup Told : y.n \in 1 .. issued
      BY <1>2 DEF Numbering, InSeries
    <2>2. \A y \in Range(outbox) \cup Told : y.n < x.n /\ y.n \in 1 .. issued + 1
      BY <1>3, <2>1
    <2>3. Sorted(outbox')
      BY <1>2, <1>4, <2>2 DEF Numbering
    <2>4. Before(Told, Range(outbox'))
      BY <1>2, <1>4, <2>2 DEF Numbering, Before
    <2>5. InSeries(Told, issued + 1, serial)
      BY <1>2, <2>2 DEF Numbering, InSeries
    <2>6. Orders(Range(outbox')) <= Orders(Range(outbox)) + 1 /\ Orders(Range(outbox')) \in Nat
      <3>1. x.bytes \in Nat /\ x \notin Range(outbox)
        <4>1. {x} \in SUBSET Input /\ IsFiniteSet({x})
          BY <1>3, FS_Singleton
        <4>2. x.bytes \in Nat
          BY <4>1, InputSized
        <4>3. x \notin Range(outbox)
          BY <1>3, <2>2
        <4> QED
          BY <4>2, <4>3
      <3>2. Sized({x}) /\ Orders({x}) <= 1 /\ Orders({x}) \in Nat
        BY <3>1, CountOne
      <3>3. Sized(Range(outbox))
        BY <1>2 DEF Places
      <3>4. Orders(Range(outbox) \cup {x}) = Orders(Range(outbox)) + Orders({x})
        BY <3>1, <3>2, <3>3, CountSplit, ZenonT(60)
      <3> QED
        BY <1>4, <3>2, <3>3, <3>4, CountTypes
    <2>7. \A y \in Range(outbox') : y.n \in 1 .. issued + 1 /\ y.serial = 0
      BY <1>2, <1>3, <1>4, <2>2 DEF Numbering
    <2>8. serial + Orders(Range(outbox')) <= issued + 1 + 1
      <3>1. serial + Orders(Range(outbox)) <= issued + 1 /\ serial \in Nat /\ Orders(Range(outbox)) \in Nat
        BY <1>2, CountTypes DEF Numbering, Typed, Places
      <3> QED
        BY <1>3, <2>6, <3>1
    <2> QED
      BY <1>1, <1>6, <2>3, <2>4, <2>5, <2>7, <2>8 DEF Numbering, InSeries
  <1>10. Ordering'
    <2>1. played < x.n
      BY <1>2, <1>3 DEF Typed
    <2>2. \A y \in OnItsWay' \cup Range(outbox') : played < y.n
      BY <1>2, <1>4, <1>6, <2>1 DEF Ordering
    <2> QED
      BY <1>1, <1>2, <1>6, <2>2 DEF Ordering, Rising, Sorted
  <1> QED
    BY <1>5, <1>7, <1>8, <1>9, <1>10 DEF IInv

LEMMA LinkBreaksKeeps ==
  ASSUME IInv, LinkBreaks
  PROVE  IInv'
  <1>1. /\ breaks < MaxBreaks /\ link' = FALSE /\ breaks' = breaks + 1 /\ down' = <<>>
        /\ UNCHANGED <<issued, outbox, credit, unsettled, inFlight, sent, serial>>
        /\ UNCHANGED <<got, history, unplayed, played, up, attached, queue, inbox, floor, frozen>>
    BY DEF LinkBreaks, client, stream, server
  <1>2. Typed /\ TicksInStep /\ Numbering /\ Ordering /\ Quiet
    BY DEF IInv
  <1>3. /\ down' \in Seq(DownFrame) /\ ToldOnce(down')
        /\ NewsOf(down', Len(down')) = {} /\ BundlesOf(down', Len(down')) = 0
    BY <1>1, NoNews
  <1>4. Typed'
    <2>1. breaks' \in 0 .. MaxBreaks
      BY <1>1, <1>2 DEF Typed
    <2>2. inbox' \in Inbox /\ inbox'.last \in 0 .. serial' - 1
      BY <1>1, <1>2 DEF Typed
    <2>3. history' \in 0 .. Len(unplayed')
      BY <1>1, <1>2 DEF Typed
    <2>4. /\ UNCHANGED <<issued, outbox, credit, unsettled, inFlight, sent, serial>>
          /\ UNCHANGED <<got, unplayed, played, up, attached, queue, floor, frozen>>
          /\ link' \in BOOLEAN
      BY <1>1
    <2> QED
      BY <1>2, <1>3, <2>1, <2>2, <2>3, <2>4 DEF Typed
  <1>5. /\ OnItsWay' = OnItsWay /\ Late' = Late /\ Streamed' = Streamed /\ Uplink' = Uplink
        /\ News' = {} /\ Told' \subseteq Told
    BY <1>1, <1>3 DEF OnItsWay, Late, Streamed, Uplink, News, Told
  <1>6. TicksInStep'
    <2>1. BundlesOf(down, Len(down)) \in Nat
      <3>1. Len(down) \in Nat
        BY <1>2, SeqElements DEF Typed
      <3> QED
        BY <3>1, BundlesType
    <2>2. got \in Nat /\ Len(unplayed) \in Nat
      BY <1>2, SeqElements DEF Typed
    <2> QED
      BY <1>1, <1>2, <1>3, <2>1, <2>2 DEF TicksInStep
  <1>7. Numbering'
    BY <1>1, <1>2, <1>5, NumberingKept
  <1>8. Ordering'
    BY <1>1, <1>2, <1>5 DEF Ordering, Rising, Sorted
  <1>9. Apart' /\ Shaped(up)' /\ Staged' /\ Counted' /\ Windows'
    BY <1>1, <1>3, <1>5 DEF IInv, Apart, ToldOnce, Shaped, InTransaction, Staged, Counted, Windows
  <1>10. Quiet'
    <2>1. breaks' # 0
      BY <1>1, <1>2 DEF Typed
    <2> QED
      BY <1>1, <1>2, <1>5, <2>1 DEF Quiet, CatchingUp
  <1>11. WindowCovers' /\ NothingLeaks'
    BY <1>1 DEF WindowCovers, NothingLeaks, Conversing
  <1> QED
    BY <1>4, <1>6, <1>7, <1>8, <1>9, <1>10, <1>11 DEF IInv

\* What is left when the server forgets the connection.
LEMMA ForgottenPlaces ==
  ASSUME Typed, Ordering, Forgotten, UNCHANGED <<unplayed, frozen, played, outbox, floor>>
  PROVE  /\ queue' = <<>> /\ inbox' = EmptyInbox /\ up' = <<>>
         /\ Streamed' = Streamed /\ Uplink' = <<>> /\ Range(queue') = {} /\ AllOf(Uplink') = {}
         /\ OnItsWay' = AllOf(Streamed) /\ OnItsWay' \subseteq OnItsWay
         /\ Ordering' /\ Shaped(up)' /\ Staged' /\ Counted'
         /\ inbox' \in Inbox /\ inbox'.last = 0 /\ queue' \in Seq(Input) /\ up' \in Seq(UpFrame)
  <1>1. queue' = <<>> /\ inbox' = EmptyInbox /\ up' = <<>>
    BY DEF Forgotten
  <1>2. Streamed' = Streamed
    BY DEF Streamed
  <1>3. Uplink' = <<>>
    BY <1>1, EmptyPlaces DEF Uplink, Carriers
  <1>4. Range(queue') = {} /\ AllOf(Uplink') = {} /\ OnItsWay' = AllOf(Streamed) /\ OnItsWay' \subseteq OnItsWay
    BY <1>1, <1>2, <1>3, EmptyPlaces DEF OnItsWay
  <1>5. Ordering'
    BY <1>1, <1>2, <1>3, <1>4, EmptyPlaces DEF Ordering, Before, Rising, Sorted
  <1>6. Shaped(up)' /\ Staged' /\ Counted'
    <2>1. Shaped(up)'
      BY <1>1, EmptyPlaces DEF Shaped
    <2>2. Staged'
      BY <1>1, EmptyPlaces DEF Staged
    <2>3. Counted'
      BY <1>1, <1>4, EmptyPlaces DEF Counted
    <2> QED
      BY <2>1, <2>2, <2>3
  <1> QED
    BY <1>1, <1>2, <1>3, <1>4, <1>5, <1>6, EmptyPlaces

LEMMA DropClientKeeps ==
  ASSUME IInv, DropClient
  PROVE  IInv'
  <1>1. /\ attached' = FALSE /\ Forgotten
        /\ UNCHANGED <<issued, outbox, credit, unsettled, inFlight, sent, serial, link>>
        /\ UNCHANGED <<got, history, unplayed, played, breaks, down, floor, frozen>>
    BY DEF DropClient, client, stream
  <1>2. Typed /\ TicksInStep /\ Numbering /\ Ordering /\ Apart /\ Windows /\ Quiet
    BY DEF IInv
  <1>3. /\ queue' = <<>> /\ inbox' = EmptyInbox /\ up' = <<>>
        /\ Streamed' = Streamed /\ Range(queue') = {} /\ AllOf(Uplink') = {}
        /\ OnItsWay' \subseteq OnItsWay
        /\ Ordering' /\ Shaped(up)' /\ Staged' /\ Counted'
        /\ inbox' \in Inbox /\ inbox'.last = 0 /\ queue' \in Seq(Input) /\ up' \in Seq(UpFrame)
    BY <1>1, <1>2, ForgottenPlaces
  <1>4. Typed'
    <2>1. inbox'.last \in 0 .. serial' - 1
      BY <1>1, <1>2, <1>3 DEF Typed
    <2>2. history' \in 0 .. Len(unplayed')
      BY <1>1, <1>2 DEF Typed
    <2> QED
      BY <1>1, <1>2, <1>3, <2>1, <2>2 DEF Typed
  <1>5. News' = News /\ Told' \subseteq Told /\ Late' = Late
    BY <1>1, <1>3 DEF News, Told, Late
  <1>6. TicksInStep' /\ Apart'
    BY <1>1, <1>2, <1>3, <1>5 DEF TicksInStep, Apart, ToldOnce
  <1>7. Numbering'
    BY <1>1, <1>2, <1>5, NumberingKept
  <1>8. Windows' /\ Quiet'
    BY <1>1, <1>2, <1>3, <1>5 DEF Windows, Quiet, CatchingUp
  <1>9. WindowCovers' /\ NothingLeaks'
    BY <1>1 DEF WindowCovers, NothingLeaks, Conversing
  <1> QED
    BY <1>3, <1>4, <1>6, <1>7, <1>8, <1>9 DEF IInv

LEMMA BehindAll ==
  ASSUME NEW T, NEW s \in Seq(T)
  PROVE  Behind(s, Len(s)) = <<>> /\ First(s, 0) = <<>> /\ Behind(s, 0) = s
  <1>1. Len(s) \in Nat
    BY SeqElements
  <1> QED
    BY <1>1, SubSeqEmpty, SubSeqFull DEF Behind, First

LEMMA RejoinKeeps ==
  ASSUME IInv, Rejoin
  PROVE  IInv'
  <1>1. /\ ~link /\ link' = TRUE /\ attached' = TRUE /\ Forgotten
        /\ down' = [i \in 1 .. Len(unplayed) - got |-> Bundle]
        /\ history' = Len(unplayed) /\ inFlight' = 0 /\ sent' = {}
        /\ UNCHANGED <<issued, outbox, credit, unsettled, serial, got, unplayed, played>>
        /\ UNCHANGED <<breaks, floor, frozen>>
    BY DEF Rejoin
  <1>2. Typed /\ TicksInStep /\ Numbering /\ Ordering /\ Quiet /\ Places
    BY PlacesOf DEF IInv
  <1>3. /\ queue' = <<>> /\ inbox' = EmptyInbox /\ up' = <<>>
        /\ Streamed' = Streamed /\ Range(queue') = {} /\ AllOf(Uplink') = {}
        /\ OnItsWay' = AllOf(Streamed) /\ OnItsWay' \subseteq OnItsWay
        /\ Ordering' /\ Shaped(up)' /\ Staged' /\ Counted'
        /\ inbox' \in Inbox /\ inbox'.last = 0 /\ queue' \in Seq(Input) /\ up' \in Seq(UpFrame)
    BY <1>1, <1>2, ForgottenPlaces
  <1>4. /\ Len(unplayed) \in Nat /\ got \in Nat /\ Len(unplayed) - got \in Nat
    <2>1. Len(unplayed) \in Nat /\ Len(down) \in Nat /\ got \in Nat
      BY <1>2, SeqElements DEF Typed
    <2>2. BundlesOf(down, Len(down)) \in Nat
      BY <2>1, BundlesType
    <2> QED
      BY <1>2, <2>1, <2>2 DEF TicksInStep
  <1>5. /\ down' \in Seq(DownFrame) /\ ToldOnce(down') /\ NewsOf(down', Len(down')) = {}
        /\ BundlesOf(down', Len(down')) = Len(unplayed) - got
    BY <1>1, <1>4, NoNews
  <1>6. Typed'
    <2>1. IsFiniteSet({})
      BY FS_EmptySet
    <2> QED
      BY <1>1, <1>2, <1>3, <1>4, <1>5, <2>1 DEF Typed
  <1>7. News' = {} /\ Told' \subseteq Told
    BY <1>1, <1>3, <1>5 DEF News, Told
  <1>8. Late' = AllOf(frozen)
    <2>1. Behind(unplayed, Len(unplayed)) = <<>>
      BY <1>2, BehindAll DEF Typed
    <2> QED
      BY <1>1, <2>1, EmptyPlaces DEF Late
  <1>9. TicksInStep'
    BY <1>1, <1>2, <1>4, <1>5 DEF TicksInStep
  <1>10. Numbering'
    BY <1>1, <1>2, <1>7, NumberingKept
  <1>11. Apart'
    BY <1>5, <1>7 DEF Apart, ToldOnce
  <1>12. Windows'
    <2>1. Cardinality({}) = 0
      BY FS_EmptySet
    <2> QED
      BY <1>1, <1>3, <2>1, EmptyPlaces DEF Windows
  <1>13. Quiet'
    <2>1. breaks' # 0
      BY <1>1, <1>2 DEF Quiet
    <2> QED
      BY <1>1, <1>2, <1>3, <1>7, <1>8, <2>1 DEF Quiet, CatchingUp
  <1>14. WindowCovers' /\ NothingLeaks'
    <2> SUFFICES ASSUME Conversing' PROVE WindowCovers' /\ NothingLeaks'
      BY DEF WindowCovers, NothingLeaks
    <2>1. Len(unplayed) = 0
      BY <1>1, <1>4 DEF Conversing, CatchingUp
    <2>2. AllOf(unplayed) = {}
      BY <1>2, <2>1, EmptySeq, EmptyPlaces DEF Typed
    <2>3. NewsPlaced'
      BY <1>5, <1>6, NewsPlacedNext
    <2>4. Outstanding' = AllOf(frozen)
      BY <1>2, <1>3, <1>7, <2>2, <2>3 DEF NewsPlaced, Places
    <2>5. Commands(AllOf(frozen)) <= CapPerTick /\ Commands(AllOf(frozen)) \in Nat
      BY <1>2, CountTypes DEF Quiet, Places
    <2>6. breaks' # 0
      BY <1>1, <1>2 DEF Quiet
    <2> QED
      BY <1>1, <2>4, <2>5, <2>6 DEF WindowCovers, NothingLeaks
  <1> QED
    BY <1>3, <1>6, <1>9, <1>10, <1>11, <1>12, <1>13, <1>14 DEF IInv

-----------------------------------------------------------------------------
(* The server reads a frame.                                               *)

\* What the frame at the head carries, and what is behind it.
LEMMA HeadPlaces ==
  ASSUME IInv, up # <<>>
  PROVE  LET f == up[1]
             items == Range(Carried(f))
             rest == AllOf(Carriers(Tail(up)))
         IN  /\ Head(up) = f /\ f \in UpFrame /\ Tail(up) \in Seq(UpFrame) /\ Shaped(Tail(up))
             /\ Carried(f) \in Seq(Input) /\ Sorted(Carried(f))
             /\ Sized(items) /\ items \in SUBSET Input
             /\ AllOf(Uplink) = items \cup rest /\ items \subseteq OnItsWay
             /\ Rising(Carriers(Tail(up))) /\ Before(items, rest)
             /\ Before(Range(queue), items) /\ Before(AllOf(Streamed), items)
             /\ items \cap (AllOf(Streamed) \cup Range(queue) \cup rest \cup News) = {}
             /\ attached /\ ~CatchingUp
  <1> DEFINE f == up[1]
             items == Range(Carried(f))
             rest == AllOf(Carriers(Tail(up)))
  <1>1. Typed /\ Places /\ Ordering /\ Shaped(up) /\ Apart /\ Quiet
    BY PlacesOf DEF IInv
  <1>2. up \in Seq(UpFrame)
    BY <1>1 DEF Typed
  <1>3. Uplink = Carriers(up) /\ Rising(Carriers(up))
    BY <1>1 DEF Places, Ordering
  <1>4. /\ Tail(up) \in Seq(UpFrame) /\ f \in UpFrame /\ Head(up) = f
        /\ AllOf(Uplink) = items \cup rest /\ Rising(Carriers(Tail(up))) /\ Sorted(Carried(f))
        /\ Before(items, rest) /\ Shaped(Tail(up))
    BY <1>1, <1>2, <1>3, CarriersTail
  <1>5. Carried(f) \in Seq(Input)
    BY <1>4 DEF Carried, UpFrame
  <1>6. Sized(items) /\ items \in SUBSET Input
    BY <1>5, RunSized
  <1> HIDE DEF f, items, rest
  <1>7. Before(Range(queue), items) /\ Before(AllOf(Streamed), items) /\ items \subseteq OnItsWay
    BY <1>1, <1>4 DEF Ordering, Before, OnItsWay
  <1>8. items \cap (AllOf(Streamed) \cup Range(queue) \cup rest \cup News) = {}
    <2>1. \A x \in items : x.n \in Nat
      BY <1>6 DEF Input
    <2>2. \A x \in items : ~(x.n < x.n)
      BY <2>1
    <2> QED
      BY <1>1, <1>4, <1>7, <2>2 DEF Apart, Before
  <1>9. attached /\ ~CatchingUp
    BY <1>1 DEF Quiet
  <1> QED
    BY <1>4, <1>5, <1>6, <1>7, <1>8, <1>9 DEF f, items, rest

Kept ==
  /\ Typed /\ TicksInStep /\ Numbering /\ Ordering /\ Apart /\ Shaped(up)
  /\ Windows /\ Quiet /\ WindowCovers /\ NothingLeaks

\* What the frame carries goes into the queue.
LEMMA Arrival ==
  ASSUME IInv, up # <<>>, up' = Tail(up), queue' = queue \o Carried(up[1]),
         UNCHANGED <<client, link, stream, breaks, attached, floor, frozen, down>>,
         inbox' \in Inbox, inbox'.last \in 0 .. serial - 1
  PROVE  /\ Kept' /\ Range(queue') = Range(queue) \cup Range(Carried(up[1]))
         /\ Range(queue) \cap Range(Carried(up[1])) = {}
         /\ Sized(Range(queue)) /\ Sized(Range(Carried(up[1])))
  <1> DEFINE items == Range(Carried(up[1]))
             rest == AllOf(Carriers(Tail(up)))
  <1>1. /\ UNCHANGED <<issued, outbox, credit, unsettled, inFlight, sent, serial, link>>
        /\ UNCHANGED <<got, history, unplayed, played, breaks, attached, floor, frozen, down>>
    BY DEF client, stream
  <1>2. Typed /\ Places /\ TicksInStep /\ Numbering /\ Ordering /\ Apart /\ Shaped(up) /\ Windows /\ Quiet
    BY PlacesOf DEF IInv
  <1>3. /\ Tail(up) \in Seq(UpFrame) /\ Shaped(Tail(up))
        /\ Carried(up[1]) \in Seq(Input) /\ Sorted(Carried(up[1])) /\ Sized(items)
        /\ AllOf(Uplink) = items \cup rest /\ items \subseteq OnItsWay
        /\ Rising(Carriers(Tail(up))) /\ Before(items, rest)
        /\ Before(Range(queue), items) /\ Before(AllOf(Streamed), items)
        /\ items \cap (AllOf(Streamed) \cup Range(queue) \cup rest \cup News) = {}
        /\ attached /\ ~CatchingUp
    BY HeadPlaces
  <1>4. /\ queue' \in Seq(Input) /\ Range(queue') = Range(queue) \cup items
        /\ Sorted(queue')
    <2>1. queue \in Seq(Input) /\ Sorted(queue)
      BY <1>2 DEF Typed, Ordering
    <2> QED
      BY <1>3, <2>1, JoinSorted
  <1> HIDE DEF items, rest
  <1>5. Typed'
    BY <1>1, <1>2, <1>3, <1>4 DEF Typed
  <1>6. Places'
    BY <1>5, PlacesNext
  <1>7. Streamed' = Streamed /\ Uplink' = Carriers(Tail(up)) /\ AllOf(Uplink') = rest
    BY <1>1, <1>6 DEF Streamed, Places, rest
  <1>8. OnItsWay' = OnItsWay /\ News' = News /\ Told' = Told /\ Late' = Late /\ Outstanding' = Outstanding
    <2>1. OnItsWay' = OnItsWay
      BY <1>3, <1>4, <1>7 DEF OnItsWay
    <2>2. News' = News /\ Told' = Told /\ Late' = Late
      BY <1>1, <2>1 DEF News, Told, Late
    <2>3. Outstanding' = Outstanding
      BY <1>1, <1>3, <1>4, <1>7 DEF Outstanding, NewsIn
    <2> QED
      BY <2>1, <2>2, <2>3
  <1>9. TicksInStep' /\ Apart' /\ Shaped(up)'
    BY <1>1, <1>2, <1>3, <1>8 DEF TicksInStep, Apart, ToldOnce, Shaped, InTransaction
  <1>10. Numbering'
    BY <1>1, <1>2, <1>8, NumberingKept
  <1>11. Ordering'
    <2>1. Rising(Streamed)' /\ Rising(Uplink)' /\ Sorted(queue)'
      BY <1>2, <1>3, <1>4, <1>7 DEF Ordering, Rising, Sorted
    <2>2. Before(AllOf(Streamed), Range(queue') \cup rest) /\ Before(Range(queue'), rest)
      BY <1>2, <1>3, <1>4 DEF Ordering, Before
    <2> QED
      BY <1>1, <1>2, <1>7, <1>8, <2>1, <2>2 DEF Ordering
  <1>12. Windows'
    <2>1. Range(queue') \cup AllOf(Uplink') = Range(queue) \cup AllOf(Uplink)
      BY <1>3, <1>4, <1>7
    <2> QED
      BY <1>1, <1>2, <2>1 DEF Windows
  <1>13. Quiet'
    BY <1>1, <1>2, <1>3, <1>8 DEF Quiet, CatchingUp
  <1>14. WindowCovers' /\ NothingLeaks'
    BY <1>1, <1>8 DEF IInv, WindowCovers, NothingLeaks, Conversing, CatchingUp
  <1> QED
    <2>1. Range(queue) \cap items = {} /\ Sized(Range(queue))
      BY <1>2, <1>3 DEF Places
    <2> QED
      BY <1>3, <1>4, <1>5, <1>9, <1>10, <1>11, <1>12, <1>13, <1>14, <2>1 DEF Kept, items

\* What the frame carries is dropped, and the client is told of it.
LEMMA Refusal ==
  ASSUME IInv, up # <<>>, up' = Tail(up), queue' = queue,
         down' = IF link THEN Append(down, InputDropped(Range(Carried(up[1])))) ELSE down,
         UNCHANGED <<client, link, stream, breaks, attached, floor, frozen>>,
         inbox' \in Inbox, inbox'.last \in 0 .. serial - 1
  PROVE  Kept'
  <1> DEFINE items == Range(Carried(up[1]))
             rest == AllOf(Carriers(Tail(up)))
  <1>1. /\ UNCHANGED <<issued, outbox, credit, unsettled, inFlight, sent, serial, link>>
        /\ UNCHANGED <<got, history, unplayed, played, breaks, attached, floor, frozen, queue>>
    BY DEF client, stream
  <1>2. Typed /\ Places /\ TicksInStep /\ Numbering /\ Ordering /\ Apart /\ Shaped(up) /\ Windows /\ Quiet
    BY PlacesOf DEF IInv
  <1>3. /\ Tail(up) \in Seq(UpFrame) /\ Shaped(Tail(up))
        /\ Sized(items) /\ items \in SUBSET Input
        /\ AllOf(Uplink) = items \cup rest /\ items \subseteq OnItsWay
        /\ Rising(Carriers(Tail(up))) /\ Before(items, rest)
        /\ items \cap (AllOf(Streamed) \cup Range(queue) \cup rest \cup News) = {}
        /\ attached /\ ~CatchingUp
    BY HeadPlaces
  <1>4. /\ down' \in Seq(DownFrame) /\ ToldOnce(down')
        /\ NewsOf(down', Len(down')) = IF link THEN News \cup items ELSE News
        /\ BundlesOf(down', Len(down')) = BundlesOf(down, Len(down))
    <2>1. down \in Seq(DownFrame) /\ ToldOnce(down) /\ News = NewsOf(down, Len(down))
      BY <1>2 DEF Typed, Apart, News
    <2>2. CASE ~link
      BY <2>1, <2>2
    <2>3. CASE link
      <3> DEFINE f == InputDropped(items)
      <3>1. f \in DownFrame /\ f.kind = "dropped" /\ f.items = items /\ IsFiniteSet(items)
        BY <1>3 DEF InputDropped, Frame, DownFrame, Sized
      <3>2. down' = Append(down, f) /\ f.kind # "bundle" /\ f.items \cap NewsOf(down, Len(down)) = {}
        BY <1>3, <2>1, <2>3, <3>1
      <3> HIDE DEF f, items
      <3>3. BundlesOf(down, Len(down)) + 0 = BundlesOf(down, Len(down))
        <4>1. Len(down) \in Nat
          BY <2>1, SeqElements
        <4>2. BundlesOf(down, Len(down)) \in Nat
          BY <4>1, BundlesType
        <4> QED
          BY <4>2
      <3>4. /\ Append(down, f) \in Seq(DownFrame)
            /\ NewsOf(Append(down, f), Len(Append(down, f))) = NewsOf(down, Len(down)) \cup f.items
            /\ BundlesOf(Append(down, f), Len(Append(down, f))) = BundlesOf(down, Len(down)) + 0
            /\ ToldOnce(Append(down, f))
        BY <2>1, <3>1, <3>2, NewsAppend
      <3> QED
        BY <2>1, <2>3, <3>1, <3>2, <3>3, <3>4
    <2> QED
      BY <2>2, <2>3
  <1> HIDE DEF items, rest
  <1>5. Typed'
    BY <1>1, <1>2, <1>3, <1>4 DEF Typed
  <1>6. Places' /\ NewsPlaced' /\ NewsPlaced
    BY <1>2, <1>4, <1>5, PlacesNext, NewsPlacedNext, NewsPlacedOf DEF Apart
  <1>7. Streamed' = Streamed /\ Uplink' = Carriers(Tail(up)) /\ AllOf(Uplink') = rest
    BY <1>1, <1>6 DEF Streamed, Places, rest
  <1>8. /\ OnItsWay = OnItsWay' \cup items /\ OnItsWay' \cap items = {}
        /\ News' = IF link THEN News \cup items ELSE News
        /\ Told' \subseteq Told /\ Late' = Late
    <2>1. OnItsWay = OnItsWay' \cup items /\ OnItsWay' \cap items = {}
      BY <1>1, <1>3, <1>7 DEF OnItsWay
    <2>2. News' = IF link THEN News \cup items ELSE News
      BY <1>4 DEF News
    <2>3. Told' \subseteq Told /\ Late' = Late
      BY <1>1, <2>1, <2>2 DEF Told, Late
    <2> QED
      BY <2>1, <2>2, <2>3
  <1>9. TicksInStep' /\ Shaped(up)'
    BY <1>1, <1>2, <1>3, <1>4 DEF TicksInStep, Shaped, InTransaction
  <1>10. Apart'
    <2>1. News' \cap OnItsWay' = {}
      BY <1>2, <1>3, <1>8 DEF Apart
    <2>2. ToldOnce(down)'
      BY <1>4 DEF ToldOnce
    <2> QED
      BY <2>1, <2>2 DEF Apart
  <1>11. Numbering'
    BY <1>1, <1>2, <1>8, NumberingKept
  <1>12. Ordering'
    <2>1. Rising(Streamed)' /\ Rising(Uplink)' /\ Sorted(queue)'
      BY <1>1, <1>2, <1>3, <1>7 DEF Ordering, Rising, Sorted
    <2>2. Before(AllOf(Streamed), Range(queue) \cup rest) /\ Before(Range(queue), rest)
      BY <1>2, <1>3 DEF Ordering, Before
    <2> QED
      BY <1>1, <1>2, <1>7, <1>8, <2>1, <2>2 DEF Ordering
  <1>13. Windows'
    <2>1. Range(queue') \cup AllOf(Uplink') \subseteq Range(queue) \cup AllOf(Uplink)
      BY <1>1, <1>3, <1>7
    <2> QED
      BY <1>1, <1>2, <2>1 DEF Windows
  <1>14. Quiet'
    BY <1>1, <1>2, <1>3, <1>8 DEF Quiet, CatchingUp
  <1>15. WindowCovers' /\ NothingLeaks'
    <2> SUFFICES ASSUME Conversing' PROVE WindowCovers' /\ NothingLeaks'
      BY DEF WindowCovers, NothingLeaks
    <2>1. link /\ Conversing
      BY <1>1 DEF Conversing, CatchingUp
    <2>2. Outstanding' = Outstanding
      BY <1>6, <1>8, <2>1 DEF NewsPlaced
    <2> QED
      BY <1>1, <2>1, <2>2 DEF IInv, WindowCovers, NothingLeaks
  <1> QED
    BY <1>5, <1>9, <1>10, <1>11, <1>12, <1>13, <1>14, <1>15 DEF Kept

\* Commands take nothing of the windows for orders.
LEMMA OnlyCommands ==
  ASSUME NEW S, Sized(S), \A x \in S : IsCommand(x)
  PROVE  Orders(S) = 0 /\ Bytes(S) = 0 /\ Commands(S) = Cardinality(S)
  <1>1. {x \in S : IsOrder(x)} = {} /\ {x \in S : IsCommand(x)} = S
    BY DEF IsCommand, IsOrder
  <1>2. Units(S) = {}
    BY DEF Units, IsCommand
  <1> QED
    BY <1>1, <1>2, FS_EmptySet DEF Orders, Commands, Bytes, Units

LEMMA TakeCommandsKeeps ==
  ASSUME IInv, NEW refused, TakeCommands(refused)
  PROVE  IInv'
  <1>1. /\ up # <<>> /\ Head(up).kind = "commands" /\ up' = Tail(up)
        /\ UNCHANGED <<client, link, stream, breaks, attached, inbox, floor, frozen>>
        /\ \/ queue' = queue \o Head(up).items /\ UNCHANGED down
           \/ /\ down' = IF link THEN Append(down, InputDropped(Range(Head(up).items))) ELSE down
              /\ UNCHANGED queue
    BY DEF TakeCommands
  <1>2. Typed /\ Shaped(up) /\ Staged /\ Counted /\ Places
    BY PlacesOf DEF IInv
  <1>3. up \in Seq(UpFrame) /\ inbox' \in Inbox /\ inbox'.last \in 0 .. serial - 1 /\ Head(up) = up[1]
    BY <1>1, <1>2, HeadApart DEF Typed
  <1>4. Carried(up[1]) = up[1].items /\ up[1].kind = "commands"
    BY <1>1, <1>3 DEF Carried
  <1>5. (\A x \in Range(up[1].items) : IsCommand(x)) /\ Opening(Tail(up))
    BY <1>1, <1>2, <1>3, <1>4, HeadFrame
  <1>6. Kept' /\ Counted'
    <2>1. CASE queue' = queue \o Head(up).items /\ UNCHANGED down
      <3>1. /\ Kept' /\ Range(queue') = Range(queue) \cup Range(up[1].items)
            /\ Range(queue) \cap Range(up[1].items) = {}
            /\ Sized(Range(queue)) /\ Sized(Range(up[1].items))
        <4>1. queue' = queue \o Carried(up[1])
          BY <1>3, <1>4, <2>1
        <4>2. UNCHANGED <<client, link, stream, breaks, attached, floor, frozen, down>>
          BY <1>1, <2>1
        <4> QED
          BY <1>1, <1>3, <1>4, <4>1, <4>2, Arrival
      <3>2. /\ Orders(Range(queue')) = Orders(Range(queue)) + Orders(Range(up[1].items))
            /\ Bytes(Range(queue')) = Bytes(Range(queue)) + Bytes(Range(up[1].items))
        BY <3>1, CountSplit
      <3>3. Orders(Range(up[1].items)) = 0 /\ Bytes(Range(up[1].items)) = 0
        BY <1>5, <3>1, OnlyCommands
      <3>4. Orders(Range(queue)) \in Nat /\ Bytes(Range(queue)) \in Nat
        BY <3>1, CountTypes
      <3>5. Orders(Range(queue')) = Orders(Range(queue)) /\ Bytes(Range(queue')) = Bytes(Range(queue))
        BY <3>2, <3>3, <3>4
      <3> QED
        BY <1>1, <1>2, <3>1, <3>5 DEF Counted
    <2>2. CASE /\ down' = IF link THEN Append(down, InputDropped(Range(Head(up).items))) ELSE down
               /\ UNCHANGED queue
      <3>1. Kept'
        <4>1. down' = IF link THEN Append(down, InputDropped(Range(Carried(up[1])))) ELSE down
          BY <1>3, <1>4, <2>2
        <4>2. UNCHANGED <<client, link, stream, breaks, attached, floor, frozen>> /\ queue' = queue
          BY <1>1, <2>2
        <4> QED
          BY <1>1, <1>3, <4>1, <4>2, Refusal
      <3>2. Counted'
        BY <1>1, <1>2, <2>2 DEF Counted
      <3> QED
        BY <3>1, <3>2
    <2> QED
      BY <1>1, <2>1, <2>2
  <1>7. Staged'
    <2>1. inbox.stage = NoStage
      BY <1>2, <1>4 DEF Staged
    <2>2. Tail(up) # <<>> => Tail(up)[1].kind \in {"commands", "begin"}
      BY <1>5 DEF Opening
    <2>3. \A i \in DOMAIN Tail(up) : Tail(up)[i].kind = "begin" => Tail(up)[i].items[1].serial > inbox.last
      <3>1. /\ DOMAIN up = 1 .. Len(up) /\ DOMAIN Tail(up) = 1 .. Len(up) - 1 /\ Len(up) \in Nat
            /\ \A i \in 1 .. Len(up) - 1 : Tail(up)[i] = up[i + 1]
        BY <1>1, <1>3, HeadApart, SeqElements
      <3>2. \A i \in DOMAIN Tail(up) : i + 1 \in DOMAIN up /\ Tail(up)[i] = up[i + 1]
        BY <3>1
      <3> QED
        BY <1>2, <3>2 DEF Staged
    <2> QED
      BY <1>1, <2>1, <2>2, <2>3 DEF Staged
  <1> QED
    BY <1>6, <1>7 DEF Kept, IInv

\* Orders are staged in the order of their serials.
LEMMA NextBegins ==
  ASSUME IInv, up # <<>>, up[1].kind = "begin"
  PROVE  LET order == up[1].items[1] IN
         /\ order.serial \in 1 .. serial - 1 /\ order.serial > inbox.last
         /\ Tail(up) # <<>> /\ Tail(up)[1] = Frame("members", up[1].items)
         /\ \A i \in DOMAIN Tail(up) :
              Tail(up)[i].kind = "begin" => Tail(up)[i].items[1].serial > order.serial
  <1> DEFINE order == up[1].items[1]
             fs == Tail(up)
             gs == Tail(fs)
             hs == Tail(gs)
  <1>1. Typed /\ Shaped(up) /\ Staged /\ Numbering /\ Ordering /\ Places
    BY PlacesOf DEF IInv
  <1>2. /\ up \in Seq(UpFrame) /\ Rising(Carriers(up)) /\ AllOf(Carriers(up)) \subseteq Told
    BY <1>1 DEF Typed, Places, Ordering, Told, OnItsWay
  <1>3. /\ fs \in Seq(UpFrame) /\ Shaped(fs) /\ Rising(Carriers(fs)) /\ 1 \in DOMAIN up
        /\ AllOf(Carriers(fs)) \subseteq AllOf(Carriers(up))
        /\ fs # <<>> /\ fs[1] = Frame("members", up[1].items)
        /\ order \in Input /\ IsOrder(order) /\ up[1].items = <<order>>
    <2>1. /\ fs \in Seq(UpFrame) /\ Shaped(fs) /\ Rising(Carriers(fs))
          /\ AllOf(Carriers(fs)) \subseteq AllOf(Carriers(up))
      BY <1>1, <1>2, CarriersTail
    <2>2. 1 \in DOMAIN up
      BY <1>2, HeadApart, SeqElements
    <2>3. up[1].kind # "commands"
      OBVIOUS
    <2>4. /\ fs # <<>> /\ fs[1] = Frame("members", up[1].items)
          /\ order \in Input /\ IsOrder(order) /\ up[1].items = <<order>>
      BY <1>1, <1>2, <2>3, HeadFrame
    <2> QED
      BY <2>1, <2>2, <2>4
  <1> HIDE DEF fs, order
  <1>4. fs[1].kind = "members" /\ fs[1].items = <<order>>
    BY <1>3 DEF Frame
  <1>5. /\ gs \in Seq(UpFrame) /\ Shaped(gs) /\ Rising(Carriers(gs))
        /\ gs # <<>> /\ gs[1] = Frame("commit", <<order>>)
    BY <1>3, <1>4, CarriersTail, HeadFrame
  <1> HIDE DEF gs
  <1>6. gs[1].kind = "commit" /\ gs[1].items = <<order>> /\ Carried(gs[1]) = <<order>>
    BY <1>5 DEF Frame, Carried
  <1>7. /\ hs \in Seq(UpFrame) /\ Shaped(hs)
        /\ Before(Range(<<order>>), AllOf(Carriers(hs)))
        /\ AllOf(Carriers(hs)) \subseteq AllOf(Carriers(gs))
    BY <1>5, <1>6, CarriersTail
  <1>8. AllOf(Carriers(gs)) \subseteq AllOf(Carriers(fs))
    BY <1>3, CarriersTail DEF gs
  <1> HIDE DEF hs
  <1>9. order \in Range(<<order>>)
    BY DEF Range
  <1>10. order \in AllOf(Carriers(up))
    <2>1. up[1].items[1] \in AllOf(Carriers(up))
      BY <1>1, <1>2, <1>3, FramesOrder
    <2> QED
      BY <2>1 DEF order
  <1>11. order.serial \in 1 .. serial - 1
    BY <1>1, <1>2, <1>3, <1>10 DEF Numbering, InSeries
  <1>12. order.serial > inbox.last
    BY <1>1, <1>3 DEF Staged, order
  <1>13. ASSUME NEW i \in DOMAIN fs, fs[i].kind = "begin" PROVE fs[i].items[1].serial > order.serial
    <2>1. /\ Len(fs) \in Nat /\ DOMAIN fs = 1 .. Len(fs) /\ DOMAIN gs = 1 .. Len(fs) - 1
          /\ \A j \in 1 .. Len(fs) - 1 : gs[j] = fs[j + 1]
          /\ DOMAIN hs = 1 .. Len(fs) - 1 - 1
          /\ \A j \in 1 .. Len(fs) - 1 - 1 : hs[j] = gs[j + 1]
      <3>1. /\ Len(gs) = Len(fs) - 1 /\ \A j \in 1 .. Len(fs) - 1 : gs[j] = fs[j + 1]
        BY <1>3, HeadApart DEF gs
      <3>2. /\ Len(hs) = Len(gs) - 1 /\ \A j \in 1 .. Len(gs) - 1 : hs[j] = gs[j + 1]
        BY <1>5, HeadApart DEF hs
      <3> QED
        BY <1>3, <1>5, <1>7, <3>1, <3>2, SeqElements
    <2>2. i # 1
      BY <1>4, <1>13
    <2>3. i - 1 \in 1 .. Len(fs) - 1 /\ gs[i - 1] = fs[i]
      <3>1. i - 1 \in 1 .. Len(fs) - 1 /\ (i - 1) + 1 = i
        BY <2>1, <2>2
      <3> QED
        BY <2>1, <3>1
    <2>4. i - 1 # 1
      BY <1>6, <1>13, <2>3
    <2>5. i - 2 \in DOMAIN hs /\ hs[i - 2] = fs[i]
      <3>1. i - 2 \in 1 .. Len(fs) - 1 - 1 /\ (i - 2) + 1 = i - 1
        BY <2>1, <2>3, <2>4
      <3> QED
        BY <2>1, <2>3, <3>1
    <2> DEFINE y == fs[i].items[1]
    <2>6. y \in AllOf(Carriers(hs))
      <3>1. hs[i - 2].kind # "commands"
        BY <1>13, <2>5
      <3>2. hs[i - 2].items[1] \in AllOf(Carriers(hs))
        BY <1>7, <2>5, <3>1, FramesOrder
      <3> QED
        BY <2>5, <3>2
    <2>7. IsOrder(y)
      BY <1>3, <1>13 DEF Shaped, InTransaction
    <2> HIDE DEF y
    <2>8. order.n < y.n
      BY <1>7, <1>9, <2>6 DEF Before
    <2>9. y \in Told /\ order \in Told
      BY <1>2, <1>3, <1>7, <1>8, <1>10, <2>6
    <2>10. order.serial < y.serial
      BY <1>1, <1>3, <2>7, <2>8, <2>9 DEF Numbering, InSeries
    <2>11. y.serial \in Nat /\ order.serial \in Nat
      BY <1>1, <2>7, <2>9, <1>3 DEF Numbering, InSeries
    <2> QED
      BY <2>10, <2>11 DEF y
  <1> QED
    BY <1>3, <1>11, <1>12, <1>13 DEF order, fs

LEMMA LaterBegins ==
  ASSUME IInv, up # <<>>
  PROVE  \A i \in DOMAIN Tail(up) : Tail(up)[i].kind = "begin" => Tail(up)[i].items[1].serial > inbox.last
  <1>1. up \in Seq(UpFrame) /\ Staged
    BY DEF IInv, Typed
  <1>2. /\ DOMAIN up = 1 .. Len(up) /\ DOMAIN Tail(up) = 1 .. Len(up) - 1 /\ Len(up) \in Nat
        /\ \A i \in 1 .. Len(up) - 1 : Tail(up)[i] = up[i + 1]
    BY <1>1, HeadApart, SeqElements
  <1>3. \A i \in DOMAIN Tail(up) : i + 1 \in DOMAIN up /\ Tail(up)[i] = up[i + 1]
    BY <1>2
  <1> QED
    BY <1>1, <1>3 DEF Staged

LEMMA TakeOrderFrameKeeps ==
  ASSUME IInv, NEW refused \in BOOLEAN, TakeOrderFrame(refused)
  PROVE  IInv'
  <1> DEFINE order == up[1].items[1]
  <1>1. /\ up # <<>> /\ Head(up).kind # "commands" /\ up' = Tail(up)
        /\ UNCHANGED <<client, link, stream, breaks, attached, floor, frozen>>
        /\ OrderBegin(refused) \/ OrderMembers(refused) \/ OrderCommit
    BY DEF TakeOrderFrame
  <1>2. Typed /\ Shaped(up) /\ Staged /\ Counted /\ Places
    BY PlacesOf DEF IInv
  <1>3. /\ up \in Seq(UpFrame) /\ Head(up) = up[1] /\ up[1] \in UpFrame /\ queue \in Seq(Input)
        /\ inbox \in Inbox /\ inbox.last \in 0 .. serial - 1
    BY <1>1, <1>2, HeadApart DEF Typed
  <1>4. /\ order \in Input /\ IsOrder(order) /\ up[1].items = <<order>>
        /\ up[1].kind = "begin" => Tail(up) # <<>> /\ Tail(up)[1] = Frame("members", up[1].items)
        /\ up[1].kind = "members" => Tail(up) # <<>> /\ Tail(up)[1] = Frame("commit", up[1].items)
        /\ up[1].kind = "commit" => Opening(Tail(up))
    BY <1>1, <1>2, <1>3, HeadFrame
  <1> HIDE DEF order
  <1>5. \A i \in DOMAIN Tail(up) : Tail(up)[i].kind = "begin" => Tail(up)[i].items[1].serial > inbox.last
    BY <1>1, LaterBegins
  <1>6. /\ queue \o <<>> = queue
        /\ inbox.queued \in Nat /\ inbox.bytes \in Nat /\ inbox.stage.serial \in Nat /\ inbox.stage.dropped \in BOOLEAN
    BY <1>3, ConcatEmptySeq DEF Inbox
  <1>7. CASE OrderBegin(refused)
    <2> DEFINE stage == [serial |-> order.serial, dropped |-> refused \/ inbox.queued >= OrderWindow]
    <2>1. /\ up[1].kind = "begin" /\ UNCHANGED <<queue, down>>
          /\ inbox' = [inbox EXCEPT !.last = order.serial, !.stage = stage]
      BY <1>3, <1>7 DEF OrderBegin, order
    <2>2. /\ order.serial \in 1 .. serial - 1
          /\ \A i \in DOMAIN Tail(up) : Tail(up)[i].kind = "begin" => Tail(up)[i].items[1].serial > order.serial
      BY <1>1, <2>1, NextBegins DEF order
    <2>3. /\ inbox' \in Inbox /\ inbox'.last = order.serial /\ inbox'.stage = stage
          /\ inbox'.queued = inbox.queued /\ inbox'.bytes = inbox.bytes
      <3>1. order.serial \in Nat
        BY <1>4 DEF Input
      <3>2. stage \in [serial : Nat, dropped : BOOLEAN]
        BY <3>1
      <3> HIDE DEF stage
      <3> QED
        BY <1>3, <2>1, <3>1, <3>2 DEF Inbox
    <2>4. stage.serial = order.serial /\ stage # NoStage
      BY <2>2 DEF NoStage
    <2> HIDE DEF stage
    <2>5. Kept'
      <3>1. Carried(up[1]) = <<>> /\ queue' = queue \o Carried(up[1])
        BY <1>6, <2>1 DEF Carried
      <3>2. inbox'.last \in 0 .. serial - 1
        BY <2>2, <2>3
      <3> QED
        BY <1>1, <2>1, <2>3, <3>1, <3>2, Arrival
    <2>6. Staged'
      <3>1. Tail(up)[1].kind = "members" /\ Tail(up)[1].items = <<order>> /\ Tail(up) # <<>>
        <4>1. Tail(up)[1] = Frame("members", <<order>>) /\ Tail(up) # <<>>
          BY <1>4, <2>1
        <4> QED
          BY <4>1 DEF Frame
      <3> QED
        BY <1>1, <2>2, <2>3, <2>4, <3>1 DEF Staged
    <2>7. Counted'
      BY <1>2, <2>1, <2>3 DEF Counted
    <2> QED
      BY <2>5, <2>6, <2>7 DEF Kept, IInv
  <1>8. CASE OrderMembers(refused)
    <2> DEFINE dropped == inbox.stage.dropped \/ refused \/ WindowFull(Head(up).items[1].bytes)
    <2>1. /\ up[1].kind = "members" /\ UNCHANGED <<queue, down>>
          /\ inbox' = [inbox EXCEPT !.stage.dropped = dropped]
      BY <1>3, <1>8 DEF OrderMembers
    <2>2. dropped \in BOOLEAN
      BY <1>6
    <2> HIDE DEF dropped
    <2>3. /\ inbox' \in Inbox /\ inbox'.last = inbox.last /\ inbox'.stage.serial = inbox.stage.serial
          /\ inbox'.queued = inbox.queued /\ inbox'.bytes = inbox.bytes
      BY <1>3, <2>1, <2>2 DEF Inbox
    <2>4. inbox.stage.serial = order.serial /\ order.serial \in 1 .. serial - 1
      <3>1. inbox.stage.serial = order.serial
        BY <1>1, <1>2, <2>1 DEF Staged, order
      <3>2. order \in AllOf(Carriers(up))
        <4>1. 1 \in DOMAIN up /\ up[1].kind # "commands"
          BY <1>1, <1>3, <2>1, HeadApart, SeqElements
        <4> QED
          BY <1>2, <1>3, <4>1, FramesOrder DEF order
      <3>3. order \in Told
        BY <1>2, <3>2 DEF Places, Told, OnItsWay
      <3> QED
        BY <1>4, <3>1, <3>3 DEF IInv, Numbering, InSeries
    <2>5. inbox'.stage # NoStage
      BY <2>3, <2>4 DEF NoStage
    <2>6. Kept'
      <3>1. Carried(up[1]) = <<>> /\ queue' = queue \o Carried(up[1])
        BY <1>6, <2>1 DEF Carried
      <3> QED
        BY <1>1, <1>3, <2>1, <2>3, <3>1, Arrival
    <2>7. Staged'
      <3>1. Tail(up)[1].kind = "commit" /\ Tail(up)[1].items = <<order>> /\ Tail(up) # <<>>
        BY <1>4, <2>1, SMTT(30) DEF Frame
      <3> QED
        BY <1>1, <1>5, <2>3, <2>4, <2>5, <3>1 DEF Staged
    <2>8. Counted'
      BY <1>2, <2>1, <2>3 DEF Counted
    <2> QED
      BY <2>6, <2>7, <2>8 DEF Kept, IInv
  <1>9. CASE OrderCommit
    <2>1. up[1].kind = "commit" /\ Carried(up[1]) = <<order>> /\ Range(<<order>>) = {order}
      BY <1>3, <1>4, <1>9 DEF OrderCommit, Carried, Range
    <2>2. \/ /\ down' = IF link THEN Append(down, InputDropped({order})) ELSE down
             /\ inbox' = [inbox EXCEPT !.stage = NoStage]
             /\ UNCHANGED queue
          \/ /\ queue' = Append(queue, order)
             /\ inbox' = [inbox EXCEPT !.stage = NoStage, !.queued = inbox.queued + 1, !.bytes = inbox.bytes + order.bytes]
             /\ UNCHANGED down
      BY <1>3, <1>9 DEF OrderCommit, order
    <2>3. order.bytes \in Nat
      BY <1>4, InputSized, FS_Singleton
    <2>4. NoStage \in [serial : Nat, dropped : BOOLEAN]
      BY DEF NoStage
    <2>5. Staged'
      <3>1. inbox'.stage = NoStage /\ inbox'.last = inbox.last
        BY <1>3, <2>2 DEF Inbox
      <3>2. Tail(up) # <<>> => Tail(up)[1].kind \in {"commands", "begin"}
        BY <1>4, <2>1 DEF Opening
      <3> QED
        BY <1>1, <1>5, <3>1, <3>2 DEF Staged
    <2>6. CASE /\ down' = IF link THEN Append(down, InputDropped({order})) ELSE down
               /\ inbox' = [inbox EXCEPT !.stage = NoStage]
               /\ UNCHANGED queue
      <3>1. inbox' \in Inbox /\ inbox'.last = inbox.last /\ inbox'.queued = inbox.queued /\ inbox'.bytes = inbox.bytes
        BY <1>3, <2>4, <2>6 DEF Inbox
      <3>2. Kept'
        <4>1. down' = IF link THEN Append(down, InputDropped(Range(Carried(up[1])))) ELSE down
          BY <2>1, <2>6
        <4> QED
          BY <1>1, <1>3, <2>6, <3>1, <4>1, Refusal
      <3>3. Counted'
        BY <1>2, <2>6, <3>1 DEF Counted
      <3> QED
        BY <2>5, <3>2, <3>3 DEF Kept, IInv
    <2>7. CASE /\ queue' = Append(queue, order)
               /\ inbox' = [inbox EXCEPT !.stage = NoStage, !.queued = inbox.queued + 1, !.bytes = inbox.bytes + order.bytes]
               /\ UNCHANGED down
      <3>1. /\ inbox' \in Inbox /\ inbox'.last = inbox.last
            /\ inbox'.queued = inbox.queued + 1 /\ inbox'.bytes = inbox.bytes + order.bytes
        <4>1. inbox.queued + 1 \in Nat /\ inbox.bytes + order.bytes \in Nat
          BY <1>6, <2>3
        <4> QED
          BY <1>3, <2>4, <2>7, <4>1 DEF Inbox
      <3>2. /\ Kept' /\ Range(queue') = Range(queue) \cup {order} /\ Range(queue) \cap {order} = {}
            /\ Sized(Range(queue)) /\ Sized({order})
        <4>1. queue' = queue \o Carried(up[1])
          BY <1>3, <1>4, <2>1, <2>7, AppendIsConcat
        <4>2. inbox' \in Inbox /\ inbox'.last \in 0 .. serial - 1
          BY <1>3, <3>1
        <4>3. UNCHANGED <<client, link, stream, breaks, attached, floor, frozen, down>>
          BY <1>1, <2>7
        <4> QED
          BY <1>1, <2>1, <4>1, <4>2, <4>3, Arrival
      <3>3. Orders({order}) = 1 /\ Bytes({order}) = order.bytes
        BY <1>4, <2>3, CountOne
      <3>4. Counted'
        <4>1. /\ Orders(Range(queue')) = Orders(Range(queue)) + 1
              /\ Bytes(Range(queue')) = Bytes(Range(queue)) + order.bytes
          BY <3>2, <3>3, CountSplit
        <4> QED
          BY <1>2, <3>1, <4>1 DEF Counted
      <3> QED
        BY <2>5, <3>2, <3>4 DEF Kept, IInv
    <2> QED
      BY <2>2, <2>6, <2>7
  <1> QED
    BY <1>1, <1>7, <1>8, <1>9

-----------------------------------------------------------------------------
(* Ticks close and land.                                                   *)

LEMMA BehindJoin ==
  ASSUME NEW T, NEW r \in Seq(T), NEW q \in Seq(T), NEW m \in 0 .. Len(r)
  PROVE  /\ m \in 0 .. Len(r \o q)
         /\ First(r \o q, m) = First(r, m)
         /\ Behind(r \o q, m) = Behind(r, m) \o q
  <1>1. /\ r \o q \in Seq(T) /\ Len(r \o q) = Len(r) + Len(q) /\ Len(r) \in Nat /\ Len(q) \in Nat
        /\ \A i \in 1 .. Len(r) + Len(q) : (r \o q)[i] = IF i <= Len(r) THEN r[i] ELSE q[i - Len(r)]
    BY ConcatProperties, SeqElements
  <1>2. m \in 0 .. Len(r \o q)
    BY <1>1
  <1>3. First(r \o q, m) = First(r, m)
    <2>1. /\ First(r \o q, m) \in Seq(T) /\ Len(First(r \o q, m)) = m
          /\ \A i \in 1 .. m : First(r \o q, m)[i] = (r \o q)[i]
      BY <1>1, <1>2, PartsOf, ZenonT(60)
    <2>2. /\ First(r, m) \in Seq(T) /\ Len(First(r, m)) = m
          /\ \A i \in 1 .. m : First(r, m)[i] = r[i]
      BY PartsOf
    <2>3. \A i \in 1 .. m : (r \o q)[i] = r[i]
      BY <1>1
    <2>4. \A i \in 1 .. m : First(r \o q, m)[i] = First(r, m)[i]
      BY <2>1, <2>2, <2>3
    <2> QED
      BY <2>1, <2>2, <2>4, SeqEqual
  <1>4. Behind(r \o q, m) = Behind(r, m) \o q
    <2> DEFINE a == Behind(r \o q, m)
               c == Behind(r, m)
               b == c \o q
               k == Len(r) - m
    <2>1. /\ a \in Seq(T) /\ Len(a) = Len(r \o q) - m
          /\ \A i \in 1 .. Len(r \o q) - m : a[i] = (r \o q)[i + m]
      <3> DEFINE w == r \o q
      <3>1. w \in Seq(T) /\ m \in 0 .. Len(w)
        BY <1>1, <1>2
      <3> HIDE DEF w, b, c, k
      <3>2. /\ Behind(w, m) \in Seq(T) /\ Len(Behind(w, m)) = Len(w) - m
            /\ \A i \in 1 .. Len(w) - m : Behind(w, m)[i] = w[i + m]
        BY <3>1, PartsOf
      <3> QED
        BY <3>2 DEF w
    <2>2. c \in Seq(T) /\ Len(c) = k /\ \A i \in 1 .. k : c[i] = r[i + m]
      BY PartsOf, ZenonT(60)
    <2> HIDE DEF a, c
    <2>3. /\ b \in Seq(T) /\ Len(b) = Len(c) + Len(q)
          /\ \A i \in 1 .. Len(c) + Len(q) : b[i] = IF i <= Len(c) THEN c[i] ELSE q[i - Len(c)]
      BY <2>2, ConcatProperties
    <2> HIDE DEF b
    <2>4. k \in Nat /\ Len(a) = k + Len(q) /\ Len(b) = k + Len(q)
      BY <1>1, <2>1, <2>2, <2>3
    <2>5. ASSUME NEW i \in 1 .. k + Len(q) PROVE a[i] = b[i]
      <3>1. i + m \in 1 .. Len(r) + Len(q) /\ i \in 1 .. Len(r \o q) - m
        BY <1>1
      <3>2. a[i] = (r \o q)[i + m]
        BY <2>1, <3>1
      <3>3. CASE i <= k
        <4>1. i + m <= Len(r) /\ i \in 1 .. k
          BY <1>1, <3>3
        <4>2. (r \o q)[i + m] = r[i + m]
          BY <1>1, <3>1, <4>1
        <4>3. b[i] = c[i]
          BY <2>2, <2>3, <3>3
        <4> QED
          BY <2>2, <3>2, <4>1, <4>2, <4>3
      <3>4. CASE i > k
        <4>1. ~(i + m <= Len(r)) /\ ~(i <= k) /\ i + m - Len(r) = i - k
          BY <1>1, <3>4
        <4>2. (r \o q)[i + m] = q[i + m - Len(r)]
          BY <1>1, <3>1, <4>1
        <4>3. b[i] = q[i - k]
          BY <2>2, <2>3, <4>1
        <4> QED
          BY <3>2, <4>1, <4>2, <4>3
      <3> QED
        BY <2>4, <3>3, <3>4
    <2>6. a = b
      BY <2>1, <2>3, <2>4, <2>5, SeqEqual
    <2> QED
      BY <2>6 DEF a, b, c
  <1> QED
    BY <1>2, <1>3, <1>4

LEMMA BehindTwice ==
  ASSUME NEW T, NEW s \in Seq(T), NEW a \in 0 .. Len(s), NEW b \in 0 .. Len(s) - a
  PROVE  Behind(Behind(s, a), b) = Behind(s, a + b)
  <1> DEFINE t == Behind(s, a)
             u == Behind(t, b)
             v == Behind(s, a + b)
  <1>1. Len(s) \in Nat /\ a + b \in 0 .. Len(s)
    BY SeqElements
  <1>2. /\ t \in Seq(T) /\ Len(t) = Len(s) - a
        /\ \A i \in 1 .. Len(s) - a : t[i] = s[i + a]
    BY PartsOf
  <1>3. /\ v \in Seq(T) /\ Len(v) = Len(s) - (a + b)
        /\ \A i \in 1 .. Len(s) - (a + b) : v[i] = s[i + (a + b)]
    BY <1>1, PartsOf
  <1> HIDE DEF t, v
  <1>4. /\ u \in Seq(T) /\ Len(u) = Len(t) - b
        /\ \A i \in 1 .. Len(t) - b : u[i] = t[i + b]
    <2>1. t \in Seq(T) /\ b \in 0 .. Len(t)
      BY <1>2
    <2> QED
      BY <2>1, PartsOf
  <1> HIDE DEF u
  <1>5. Len(u) = Len(s) - (a + b)
    BY <1>1, <1>2, <1>4
  <1>6. ASSUME NEW i \in 1 .. Len(s) - (a + b) PROVE u[i] = v[i]
    <2>1. i + b \in 1 .. Len(s) - a /\ i \in 1 .. Len(t) - b /\ (i + b) + a = i + (a + b)
      BY <1>1, <1>2
    <2>2. u[i] = t[i + b]
      BY <1>4, <2>1
    <2>3. t[i + b] = s[(i + b) + a]
      BY <1>2, <2>1
    <2> QED
      BY <1>3, <2>1, <2>2, <2>3
  <1>7. u = v
    BY <1>3, <1>4, <1>5, <1>6, SeqEqual
  <1> QED
    BY <1>7 DEF t, u, v

LEMMA OneLeft ==
  ASSUME NEW T, NEW s \in Seq(T), s # <<>>, Len(s) <= 1
  PROVE  s = <<s[1]>> /\ s[1] \in T /\ Len(s) = 1
  <1>1. Len(s) \in Nat \ {0} /\ s[1] \in T
    BY HeadApart
  <1>2. Len(s) = 1
    <2> DEFINE n == Len(s)
    <2>1. n \in Nat \ {0} /\ n <= 1
      BY <1>1
    <2> HIDE DEF n
    <2>2. n = 1
      BY <2>1
    <2> QED
      BY <2>2 DEF n
  <1>3. <<s[1]>> \in Seq(T) /\ Len(<<s[1]>>) = 1 /\ <<s[1]>>[1] = s[1]
    BY <1>1
  <1> QED
    BY <1>1, <1>2, <1>3, SeqEqual

LEMMA CloseTickKeeps ==
  ASSUME IInv, NEW room \in 0 .. TickBytes, CloseTick(room)
  PROVE  IInv'
  <1> DEFINE k == Drained(room)
             items == First(queue, k)
             taken == Range(items)
  <1>1. /\ attached /\ frozen = <<>> /\ Len(unplayed) < Lead
        /\ frozen' = <<items>> /\ queue' = Behind(queue, Len(items))
        /\ inbox' = [inbox EXCEPT !.queued = Less(inbox.queued, Orders(taken)), !.bytes = Less(inbox.bytes, Bytes(taken))]
        /\ floor' = Max({floor} \cup Serials(taken))
        /\ UNCHANGED <<issued, outbox, credit, unsettled, inFlight, sent, serial, link>>
        /\ UNCHANGED <<got, history, unplayed, played, breaks, up, down, attached>>
    BY DEF CloseTick, client, stream
  <1>2. /\ Typed /\ Places /\ TicksInStep /\ Numbering /\ Ordering /\ Apart /\ Shaped(up) /\ Staged
        /\ Counted /\ Windows /\ Quiet
    BY PlacesOf DEF IInv
  <1>3. queue \in Seq(Input) /\ unplayed \in Seq(Seq(Input)) /\ inbox \in Inbox /\ Sorted(queue)
    BY <1>2 DEF Typed, Ordering
  <1>4. k \in 0 .. Len(queue) /\ Commands(taken) <= CapPerTick
    <2>1. room \in Nat
      OBVIOUS
    <2> QED
      BY <1>3, <2>1, DrainedFits
  <1> HIDE DEF k
  <1>5. /\ items \in Seq(Input) /\ Len(items) = k
        /\ queue' = Behind(queue, k) /\ queue' \in Seq(Input)
        /\ Range(queue) = taken \cup Range(queue')
        /\ Sorted(items) /\ Sorted(queue') /\ Before(taken, Range(queue'))
    <2>1. items \in Seq(Input) /\ Len(items) = k /\ Behind(queue, k) \in Seq(Input)
      BY <1>3, <1>4, PartsOf
    <2>2. /\ Range(queue) = taken \cup Range(Behind(queue, k))
          /\ Sorted(items) /\ Sorted(Behind(queue, k)) /\ Before(taken, Range(Behind(queue, k)))
      BY <1>3, <1>4, PartRanges
    <2>3. queue' = Behind(queue, k)
      BY <1>1, <2>1
    <2> QED
      BY <2>1, <2>2, <2>3
  <1>6. Sized(taken) /\ taken \in SUBSET Input /\ Sized(Range(queue')) /\ Sized(Range(queue))
    BY <1>3, <1>5, RunSized
  <1> HIDE DEF items, taken
  <1>7. taken \cap Range(queue') = {}
    <2>1. \A x \in taken : x.n \in Nat
      BY <1>6 DEF Input
    <2> QED
      BY <1>5, <2>1, BeforeApart
  <1>8. taken \subseteq Told /\ Range(queue') \subseteq Told
    BY <1>5 DEF Told, OnItsWay
  <1>9. /\ floor' \in {floor} \cup Serials(taken) /\ floor' \in 0 .. serial - 1
        /\ \A x \in taken : x.serial \in 0 .. serial - 1
    <2>1. serial \in Nat \ {0} /\ floor \in 0 .. serial - 1
      BY <1>2 DEF Typed
    <2>2. \A x \in taken : x.serial \in 0 .. serial - 1
      <3>1. \A x \in taken : x.serial \in 1 .. serial - 1 \/ x.serial = 0
        BY <1>2, <1>8 DEF Numbering, InSeries
      <3> QED
        BY <2>1, <3>1
    <2> DEFINE S == {floor} \cup Serials(taken)
    <2>3. S \in SUBSET (0 .. serial - 1) /\ S # {} /\ serial - 1 \in Nat
      BY <2>1, <2>2 DEF Serials
    <2> HIDE DEF S
    <2>4. Max(S) \in S
      BY <2>3, MaxOf
    <2> QED
      BY <1>1, <2>2, <2>3, <2>4 DEF S
  <1>10. inbox' \in Inbox /\ inbox'.last = inbox.last /\ inbox'.stage = inbox.stage /\ Counted'
    <2>1. /\ Orders(Range(queue)) = Orders(taken) + Orders(Range(queue'))
          /\ Bytes(Range(queue)) = Bytes(taken) + Bytes(Range(queue'))
      <3>1. /\ Orders(taken \cup Range(queue')) = Orders(taken) + Orders(Range(queue'))
            /\ Bytes(taken \cup Range(queue')) = Bytes(taken) + Bytes(Range(queue'))
        BY <1>6, <1>7, CountSplit
      <3> QED
        BY <1>5, <3>1
    <2>2. /\ Orders(taken) \in Nat /\ Orders(Range(queue')) \in Nat
          /\ Bytes(taken) \in Nat /\ Bytes(Range(queue')) \in Nat
      BY <1>6, CountTypes
    <2>3. inbox.queued = Orders(Range(queue)) /\ inbox.bytes = Bytes(Range(queue))
      BY <1>2 DEF Counted
    <2>4. /\ Less(inbox.queued, Orders(taken)) = Orders(Range(queue'))
          /\ Less(inbox.bytes, Bytes(taken)) = Bytes(Range(queue'))
      BY <2>1, <2>2, <2>3 DEF Less
    <2>5. /\ inbox'.queued = Orders(Range(queue')) /\ inbox'.bytes = Bytes(Range(queue'))
          /\ inbox' \in Inbox /\ inbox'.last = inbox.last /\ inbox'.stage = inbox.stage
      BY <1>1, <1>3, <2>2, <2>4 DEF Inbox
    <2> QED
      BY <2>5 DEF Counted
  <1>11. frozen' \in Seq(Seq(Input)) /\ Len(frozen') = 1 /\ AllOf(frozen') = taken /\ AllOf(frozen) = {}
    <2>1. AllOf(<<items>>) = taken
      BY <1>5, AllOfFew DEF taken
    <2> QED
      BY <1>1, <1>5, <2>1, EmptyPlaces
  <1>12. Typed'
    BY <1>1, <1>2, <1>5, <1>9, <1>10, <1>11 DEF Typed
  <1>13. Places'
    BY <1>12, PlacesNext
  <1>14. /\ AllOf(Streamed) = AllOf(unplayed) /\ AllOf(Streamed') = AllOf(unplayed) \cup taken
         /\ Uplink' = Uplink
    <2>1. Uplink' = Uplink
      BY <1>1 DEF Uplink
    <2> QED
      BY <1>1, <1>2, <1>11, <1>13, <2>1 DEF Places
  <1>15. OnItsWay' = OnItsWay /\ News' = News /\ Told' = Told /\ Outstanding' = Outstanding
    <2>1. OnItsWay' = OnItsWay
      BY <1>5, <1>14 DEF OnItsWay
    <2>2. News' = News /\ Told' = Told
      BY <1>1, <2>1 DEF News, Told
    <2>3. NewsPlaced /\ NewsPlaced'
      <3>1. ToldOnce(down) /\ ToldOnce(down')
        BY <1>1, <1>2 DEF Apart
      <3> QED
        BY <1>2, <1>12, <3>1, NewsPlacedOf, NewsPlacedNext
    <2> QED
      BY <2>1, <2>2, <2>3 DEF NewsPlaced
  <1>16. TicksInStep'
    <2>1. Len(unplayed) \in Nat
      BY <1>3, SeqElements
    <2> QED
      BY <1>1, <1>2, <1>11, <2>1 DEF TicksInStep
  <1>17. Apart' /\ Shaped(up)' /\ Staged'
    BY <1>1, <1>2, <1>10, <1>15 DEF Apart, ToldOnce, Shaped, InTransaction, Staged
  <1>18. Numbering'
    BY <1>1, <1>2, <1>15, NumberingKept
  <1>19. Ordering'
    <2>1. Before(AllOf(Streamed), Range(queue) \cup AllOf(Uplink)) /\ Before(Range(queue), AllOf(Uplink))
      BY <1>2 DEF Ordering
    <2>2. Rising(Streamed)'
      <3>1. Streamed = unplayed
        BY <1>1, <1>3, ConcatEmptySeq DEF Streamed
      <3>2. Rising(unplayed) /\ Rising(<<items>>) /\ <<items>> \in Seq(Seq(Input)) /\ AllOf(<<items>>) = taken
        BY <1>1, <1>2, <1>5, <1>11, <3>1, RisingOne DEF Ordering
      <3>3. Before(AllOf(unplayed), taken)
        BY <1>5, <1>14, <2>1 DEF Before
      <3>4. Rising(unplayed \o <<items>>)
        BY <1>3, <3>2, <3>3, RisingJoined
      <3>5. Streamed' = unplayed \o <<items>>
        BY <1>1 DEF Streamed
      <3> QED
        BY <3>4, <3>5 DEF Rising, Sorted
    <2>3. Rising(Uplink)' /\ Sorted(queue)'
      BY <1>2, <1>5, <1>14 DEF Ordering, Rising, Sorted
    <2>4. /\ Before(AllOf(Streamed'), Range(queue') \cup AllOf(Uplink))
          /\ Before(Range(queue'), AllOf(Uplink))
      BY <1>5, <1>14, <2>1 DEF Before
    <2> QED
      BY <1>1, <1>2, <1>14, <1>15, <2>2, <2>3, <2>4 DEF Ordering
  <1>20. Windows'
    <2> SUFFICES ASSUME NEW x \in Range(queue') \cup AllOf(Uplink), IsOrder(x)
                 PROVE  x \in sent /\ x.serial > floor'
      BY <1>1, <1>2, <1>14 DEF Windows
    <2>1. x \in sent /\ x.serial > floor
      BY <1>2, <1>5 DEF Windows
    <2>2. x \in Told /\ x.serial \in 1 .. serial - 1
      <3>1. x \in Told
        BY <1>8 DEF Told, OnItsWay
      <3> QED
        BY <1>2, <3>1 DEF Numbering, InSeries
    <2>3. ASSUME NEW y \in taken PROVE y.serial < x.serial
      <3>1. y.n < x.n
        BY <1>2, <1>5 DEF Ordering, Before
      <3>2. IsOrder(y) => y.serial < x.serial
        BY <1>2, <1>8, <2>2, <3>1 DEF Numbering, InSeries
      <3>3. ~IsOrder(y) => y.serial = 0
        BY <1>2, <1>8 DEF Numbering, InSeries
      <3> QED
        BY <2>2, <3>2, <3>3
    <2>4. \A s \in Serials(taken) : s < x.serial
      BY <2>3 DEF Serials
    <2>5. serial \in Nat /\ floor \in Nat /\ floor' \in Nat
      BY <1>2, <1>9 DEF Typed
    <2> QED
      BY <1>9, <2>1, <2>2, <2>4, <2>5
  <1>21. Quiet'
    <2>1. CatchingUp => queue' = <<>> /\ taken = {}
      <3> SUFFICES ASSUME CatchingUp PROVE queue' = <<>> /\ taken = {}
        OBVIOUS
      <3>1. queue = <<>>
        BY <1>2 DEF Quiet
      <3>2. Range(queue) = {}
        BY <3>1, EmptyPlaces
      <3>3. k = 0 /\ Behind(queue, 0) = queue
        <4>1. Len(queue) = 0
          BY <3>1
        <4>2. Behind(queue, 0) = queue
          BY <1>3, BehindAll
        <4> QED
          BY <1>4, <4>1, <4>2
      <3> QED
        BY <1>5, <3>1, <3>2, <3>3
    <2>2. CatchingUp => Late' = Late
      BY <1>1, <1>11, <2>1 DEF Late
    <2> QED
      BY <1>1, <1>2, <1>4, <1>11, <1>15, <2>1, <2>2 DEF Quiet, CatchingUp
  <1>22. WindowCovers' /\ NothingLeaks'
    BY <1>1, <1>15 DEF IInv, WindowCovers, NothingLeaks, Conversing, CatchingUp
  <1> QED
    BY <1>10, <1>12, <1>16, <1>17, <1>18, <1>19, <1>20, <1>21, <1>22 DEF IInv

LEMMA FinishTickKeeps ==
  ASSUME IInv, FinishTick
  PROVE  IInv'
  <1> DEFINE t == frozen[1]
  <1>1. /\ frozen # <<>> /\ frozen' = <<>> /\ unplayed' = Append(unplayed, t)
        /\ down' = IF link /\ attached THEN Append(down, Bundle) ELSE down
        /\ UNCHANGED <<issued, outbox, credit, unsettled, inFlight, sent, serial, link>>
        /\ UNCHANGED <<got, history, played, breaks, up, attached, queue, inbox, floor>>
    BY DEF FinishTick, client
  <1>2. /\ Typed /\ Places /\ TicksInStep /\ Numbering /\ Ordering /\ Apart /\ Shaped(up) /\ Staged
        /\ Counted /\ Windows /\ Quiet
    BY PlacesOf DEF IInv
  <1>3. /\ unplayed \in Seq(Seq(Input)) /\ frozen \in Seq(Seq(Input)) /\ Len(unplayed) \in Nat
        /\ down \in Seq(DownFrame) /\ ToldOnce(down) /\ history \in 0 .. Len(unplayed)
    BY <1>2, SeqElements DEF Typed, Apart
  <1>4. frozen = <<t>> /\ t \in Seq(Input) /\ Len(frozen) = 1
    BY <1>1, <1>2, <1>3, OneLeft DEF TicksInStep
  <1> HIDE DEF t
  <1>5. unplayed' = unplayed \o frozen /\ unplayed' \in Seq(Seq(Input)) /\ Len(unplayed') = Len(unplayed) + 1
    BY <1>1, <1>3, <1>4, AppendIsConcat, AppendProperties
  <1>6. Streamed' = Streamed
    BY <1>1, <1>5, ConcatEmptySeq DEF Streamed
  <1>7. Behind(unplayed', history) = Behind(unplayed, history) \o frozen
    BY <1>3, <1>5, BehindJoin
  <1>8. Late' = Late
    <2>1. Behind(unplayed, history) \in Seq(Seq(Input))
      BY <1>3, PartsOf
    <2>2. AllOf(Behind(unplayed', history)) = AllOf(Behind(unplayed, history)) \cup AllOf(frozen)
      BY <1>3, <1>7, <2>1, AllOfJoined
    <2> QED
      BY <1>1, <2>2, EmptyPlaces DEF Late
  <1>9. /\ down' \in Seq(DownFrame) /\ ToldOnce(down')
        /\ NewsOf(down', Len(down')) = NewsOf(down, Len(down))
        /\ BundlesOf(down', Len(down')) <= BundlesOf(down, Len(down)) + 1
    <2>1. Len(down) \in Nat
      BY <1>3, SeqElements
    <2>2. BundlesOf(down, Len(down)) \in Nat
      BY <2>1, BundlesType
    <2>3. Bundle \in DownFrame /\ Bundle.kind = "bundle" /\ Bundle.items = {} /\ IsFiniteSet(Bundle.items)
      BY FS_EmptySet DEF Bundle, Frame, DownFrame
    <2>4. CASE down' = Append(down, Bundle)
      <3>1. /\ down' \in Seq(DownFrame) /\ ToldOnce(down')
            /\ NewsOf(down', Len(down')) = NewsOf(down, Len(down)) \cup Bundle.items
            /\ BundlesOf(down', Len(down')) = BundlesOf(down, Len(down)) + IF Bundle.kind = "bundle" THEN 1 ELSE 0
        BY <1>3, <2>3, <2>4, NewsAppend
      <3> QED
        BY <2>2, <2>3, <3>1
    <2>5. CASE down' = down
      BY <1>3, <2>2, <2>5
    <2> QED
      BY <1>1, <2>4, <2>5
  <1>10. Typed'
    <2>1. history' \in 0 .. Len(unplayed') /\ frozen' \in Seq(Seq(Input))
      BY <1>1, <1>3, <1>5
    <2> QED
      BY <1>1, <1>2, <1>5, <1>9, <2>1 DEF Typed
  <1>11. Uplink' = Uplink /\ OnItsWay' = OnItsWay /\ News' = News /\ Told' = Told /\ Outstanding' = Outstanding
    <2>1. Uplink' = Uplink
      BY <1>1 DEF Uplink
    <2>2. OnItsWay' = OnItsWay
      BY <1>1, <1>6, <2>1 DEF OnItsWay
    <2>3. News' = News /\ Told' = Told
      BY <1>1, <1>9, <2>2 DEF News, Told
    <2>4. NewsPlaced /\ NewsPlaced'
      BY <1>2, <1>3, <1>9, <1>10, NewsPlacedOf, NewsPlacedNext
    <2> QED
      BY <2>1, <2>2, <2>3, <2>4 DEF NewsPlaced
  <1>12. TicksInStep'
    <2>1. Len(down) \in Nat /\ Len(down') \in Nat /\ got \in Nat
      BY <1>2, <1>3, <1>9, SeqElements DEF Typed
    <2>2. BundlesOf(down, Len(down)) \in Nat /\ BundlesOf(down', Len(down')) \in Nat
      BY <2>1, BundlesType
    <2>3. Len(frozen') = 0
      BY <1>1
    <2> QED
      BY <1>1, <1>2, <1>3, <1>4, <1>5, <1>9, <2>1, <2>2, <2>3 DEF TicksInStep
  <1>13. Apart'
    <2>1. ToldOnce(down)'
      BY <1>9 DEF ToldOnce
    <2> QED
      BY <1>2, <1>11, <2>1 DEF Apart
  <1>14. Shaped(up)' /\ Staged' /\ Counted' /\ Windows'
    BY <1>1, <1>2, <1>11 DEF Shaped, InTransaction, Staged, Counted, Windows
  <1>15. Numbering'
    BY <1>1, <1>2, <1>11, NumberingKept
  <1>16. Ordering'
    BY <1>1, <1>2, <1>6, <1>11 DEF Ordering, Rising, Sorted
  <1>17. Quiet'
    <2>1. Commands(AllOf(frozen')) = 0
      BY <1>1, EmptyPlaces
    <2> QED
      BY <1>1, <1>2, <1>8, <1>11, <2>1 DEF Quiet, CatchingUp
  <1>18. WindowCovers' /\ NothingLeaks'
    BY <1>1, <1>11 DEF IInv, WindowCovers, NothingLeaks, Conversing, CatchingUp
  <1> QED
    BY <1>10, <1>12, <1>13, <1>14, <1>15, <1>16, <1>17, <1>18 DEF IInv

-----------------------------------------------------------------------------
(* The client's turn: what it sends, what it hears, what it plays.         *)

Batch(k) == Numbered(First(outbox, k), serial)
Newest(m) == AllOf(First(unplayed, m))

LEMMA Sending ==
  ASSUME IInv, NEW k \in 0 .. Len(outbox)
  PROVE  LET items == Range(Batch(k))
             rest == Behind(outbox, k)
         IN  /\ Batch(k) \in Seq(Input) /\ Sorted(Batch(k)) /\ Sized(items) /\ items \in SUBSET Input
             /\ Commands(items) = Commands(Range(First(outbox, k)))
             /\ Orders(items) = Orders(Range(First(outbox, k))) /\ Orders(items) \in Nat
             /\ Bytes(items) = Bytes(Range(First(outbox, k)))
             /\ rest \in Seq(Input) /\ Sorted(rest) /\ Before(items, Range(rest))
             /\ Range(rest) \subseteq Range(outbox) /\ Before(Told, items)
             /\ serial + Orders(items) + Orders(Range(rest)) <= issued + 1
             /\ InSeries(Told \cup items, issued, serial + Orders(items))
             /\ \A x \in items : x.n \in 1 .. issued /\ (IsOrder(x) => x.serial >= serial)
             /\ \A x \in items : \E y \in Range(outbox) : x.n = y.n
             /\ k = 0 => Batch(k) = <<>>
  <1> DEFINE run == First(outbox, k)
             rest == Behind(outbox, k)
             batch == Numbered(run, serial)
             items == Range(batch)
  <1>1. Typed /\ Numbering /\ Ordering /\ outbox \in Seq(Input) /\ Sorted(outbox) /\ serial \in Nat \ {0}
        /\ issued \in Nat
    BY DEF IInv, Typed, Numbering
  <1>2. run \in Seq(Input) /\ Len(run) = k /\ rest \in Seq(Input)
    BY <1>1, PartsOf
  <1>3. /\ Range(outbox) = Range(run) \cup Range(rest)
        /\ Sorted(run) /\ Sorted(rest) /\ Before(Range(run), Range(rest))
    BY <1>1, PartRanges
  <1> HIDE DEF run, rest
  <1>4. \A x \in Range(run) : x.n \in 1 .. issued /\ x.serial = 0
    BY <1>1, <1>3 DEF Numbering
  <1>5. /\ batch \in Seq(Input) /\ Sorted(batch)
        /\ Commands(items) = Commands(Range(run)) /\ Orders(items) = Orders(Range(run))
        /\ Bytes(items) = Bytes(Range(run)) /\ Orders(items) \in Nat
        /\ \A x \in items : \E y \in Range(run) : x.n = y.n
        /\ \A x \in items : IF IsOrder(x) THEN x.serial \in serial .. serial + Orders(items) - 1
                            ELSE x.serial = 0
        /\ \A x, y \in items : IsOrder(x) /\ IsOrder(y) /\ x.n < y.n => x.serial < y.serial
        /\ \A x, y \in items : x.n = y.n => x = y
    BY <1>1, <1>2, <1>3, <1>4, NumberedFits
  <1>6. k = 0 => batch = <<>>
    <2> SUFFICES ASSUME k = 0 PROVE batch = <<>>
      OBVIOUS
    <2>1. Len(run) = 0
      BY <1>2
    <2>2. run = <<>>
      BY <1>2, <2>1
    <2> QED
      BY <2>2 DEF Numbered
  <1> HIDE DEF batch
  <1>7. Sized(items) /\ items \in SUBSET Input
    BY <1>5, RunSized
  <1> HIDE DEF items
  <1>8. /\ Before(items, Range(rest)) /\ Before(Told, items)
        /\ \A x \in items : x.n \in 1 .. issued /\ (IsOrder(x) => x.serial >= serial)
    <2>1. Before(Told, Range(outbox))
      BY <1>1 DEF Numbering
    <2>2. Before(items, Range(rest))
      BY <1>3, <1>5 DEF Before
    <2>3. Before(Told, items)
      BY <1>3, <1>5, <2>1 DEF Before
    <2>4. \A x \in items : x.n \in 1 .. issued
      BY <1>4, <1>5
    <2>5. \A x \in items : IsOrder(x) => x.serial >= serial
      BY <1>1, <1>5
    <2> QED
      BY <2>2, <2>3, <2>4, <2>5
  <1>9. serial + Orders(items) + Orders(Range(rest)) <= issued + 1
    <2>1. Sized(Range(run)) /\ Sized(Range(rest)) /\ Range(run) \cap Range(rest) = {}
      <3>1. \A x \in Range(run) : x.n \in Nat
        BY <1>4
      <3> QED
        BY <1>2, <1>3, <3>1, RunSized, BeforeApart
    <2>2. Orders(Range(run) \cup Range(rest)) = Orders(Range(run)) + Orders(Range(rest))
      BY <2>1, CountSplit
    <2>3. Orders(Range(rest)) \in Nat
      BY <2>1, CountTypes
    <2>4. serial + Orders(Range(outbox)) <= issued + 1
      BY <1>1 DEF Numbering
    <2> QED
      BY <1>1, <1>3, <1>5, <2>2, <2>3, <2>4
  <1>10. InSeries(Told \cup items, issued, serial + Orders(items))
    <2>1. InSeries(Told, issued, serial)
      BY <1>1 DEF Numbering
    <2> DEFINE next == serial + Orders(items)
    <2>2. next \in Nat /\ serial <= next
      BY <1>1, <1>5
    <2>3. \A x \in Told \cup items : x.n \in 1 .. issued
      BY <1>8, <2>1 DEF InSeries
    <2>4. ASSUME NEW x \in Told \cup items
          PROVE  IF IsOrder(x) THEN x.serial \in 1 .. next - 1 ELSE x.serial = 0
      <3>1. CASE x \in Told
        <4>1. IF IsOrder(x) THEN x.serial \in 1 .. serial - 1 ELSE x.serial = 0
          BY <2>1, <3>1 DEF InSeries
        <4>2. 1 .. serial - 1 \subseteq 1 .. next - 1
          BY <1>1, <2>2
        <4> QED
          BY <4>1, <4>2
      <3>2. CASE x \in items
        <4>1. IF IsOrder(x) THEN x.serial \in serial .. serial + Orders(items) - 1 ELSE x.serial = 0
          <5>1. \A z \in items : IF IsOrder(z) THEN z.serial \in serial .. serial + Orders(items) - 1
                                ELSE z.serial = 0
            BY <1>5
          <5> QED
            BY <3>2, <5>1
        <4>2. serial .. serial + Orders(items) - 1 \subseteq 1 .. next - 1
          <5>1. Orders(items) \in Nat
            BY <1>5
          <5> QED
            BY <1>1, <5>1
        <4> QED
          BY <4>1, <4>2
      <3> QED
        BY <3>1, <3>2
    <2> HIDE DEF next
    <2>5. ASSUME NEW x \in Told, NEW y \in items
          PROVE  x.n < y.n /\ x.n \in Int /\ y.n \in Int /\ (IsOrder(x) /\ IsOrder(y) => x.serial < y.serial)
      <3>1. x.n < y.n
        BY <1>8 DEF Before
      <3>2. IsOrder(x) => x.serial \in 1 .. serial - 1
        BY <2>1 DEF InSeries
      <3>3. IsOrder(y) => y.serial >= serial /\ y.serial \in Int
        BY <1>8, <2>2, <2>4
      <3> QED
        BY <1>1, <2>3, <3>1, <3>2, <3>3
    <2>6. ASSUME NEW x \in Told \cup items, NEW y \in Told \cup items, x.n = y.n
          PROVE  x = y
      <3>1. CASE x \in Told /\ y \in Told
        BY <2>1, <2>6, <3>1 DEF InSeries
      <3>2. CASE x \in items /\ y \in items
        BY <1>5, <2>6, <3>2
      <3>3. CASE x \in Told /\ y \in items
        <4>1. x.n < y.n /\ x.n \in Int /\ y.n \in Int
          BY <2>5, <3>3
        <4> QED
          BY <2>6, <4>1
      <3>4. CASE x \in items /\ y \in Told
        <4>1. y.n < x.n /\ x.n \in Int /\ y.n \in Int
          BY <2>5, <3>4
        <4> QED
          BY <2>6, <4>1
      <3> QED
        BY <3>1, <3>2, <3>3, <3>4
    <2>7. ASSUME NEW x \in Told \cup items, NEW y \in Told \cup items,
                 IsOrder(x), IsOrder(y), x.n < y.n
          PROVE  x.serial < y.serial
      <3>1. CASE x \in Told /\ y \in Told
        BY <2>1, <2>7, <3>1 DEF InSeries
      <3>2. CASE x \in items /\ y \in items
        BY <1>5, <2>7, <3>2
      <3>3. CASE x \in Told /\ y \in items
        BY <2>5, <2>7, <3>3
      <3>4. CASE x \in items /\ y \in Told
        <4>1. y.n < x.n /\ x.n \in Int /\ y.n \in Int
          BY <2>5, <3>4
        <4> QED
          BY <2>7, <4>1
      <3> QED
        BY <3>1, <3>2, <3>3, <3>4
    <2>8. InSeries(Told \cup items, issued, next)
      BY <2>3, <2>4, <2>6, <2>7 DEF InSeries
    <2> QED
      BY <2>8 DEF next
  <1>11. /\ Range(rest) \subseteq Range(outbox)
         /\ \A x \in items : \E y \in Range(outbox) : x.n = y.n
    <2>1. Range(rest) \subseteq Range(outbox) /\ Range(run) \subseteq Range(outbox)
      BY <1>3
    <2>2. \A x \in items : \E y \in Range(run) : x.n = y.n
      BY <1>5
    <2> QED
      BY <2>1, <2>2
  <1> QED
    BY <1>2, <1>3, <1>5, <1>6, <1>7, <1>8, <1>9, <1>10, <1>11 DEF Batch, run, rest, batch, items

LEMMA Hearing ==
  ASSUME IInv, NEW n \in 0 .. Len(down), down' = Behind(down, n)
  PROVE  /\ NewsIn(n) \in SUBSET Input /\ Sized(NewsIn(n)) /\ BundlesIn(n) \in Nat
         /\ News = NewsIn(n) \cup News' /\ NewsIn(n) \cap News' = {}
         /\ down' \in Seq(DownFrame) /\ ToldOnce(down)'
         /\ BundlesOf(down, Len(down)) = BundlesIn(n) + BundlesOf(down', Len(down'))
         /\ BundlesOf(down', Len(down')) \in Nat
  <1>1. down \in Seq(DownFrame) /\ ToldOnce(down) /\ Len(down) \in Nat
    <2>1. down \in Seq(DownFrame) /\ ToldOnce(down)
      BY DEF IInv, Typed, Apart
    <2> QED
      BY <2>1, SeqElements
  <1>2. NewsIn(n) = NewsOf(down, n) /\ BundlesIn(n) = BundlesOf(down, n)
    BY DEF NewsIn, NewsOf, BundlesIn, BundlesOf
  <1>3. NewsOf(down, n) \in SUBSET Input /\ Sized(NewsOf(down, n))
    BY <1>1, NewsType
  <1> DEFINE e == Behind(down, n)
  <1>4. /\ e \in Seq(DownFrame) /\ Len(e) = Len(down) - n /\ ToldOnce(e)
        /\ NewsOf(down, Len(down)) = NewsOf(down, n) \cup NewsOf(e, Len(e))
        /\ NewsOf(down, n) \cap NewsOf(e, Len(e)) = {}
        /\ BundlesOf(down, Len(down)) = BundlesOf(down, n) + BundlesOf(e, Len(e))
    BY <1>1, NewsBehind
  <1>5. down' = e
    OBVIOUS
  <1> HIDE DEF e
  <1>6. BundlesOf(down, n) \in Nat /\ BundlesOf(e, Len(e)) \in Nat
    <2>1. n \in Nat /\ Len(e) \in Nat
      BY <1>1, <1>4
    <2> QED
      BY <2>1, BundlesType
  <1>7. ToldOnce(down)'
    BY <1>4, <1>5 DEF ToldOnce
  <1>8. News' = NewsOf(e, Len(e))
    BY <1>5 DEF News
  <1> QED
    BY <1>2, <1>3, <1>4, <1>5, <1>6, <1>7, <1>8 DEF News

LEMMA Playing ==
  ASSUME IInv, NEW m \in 0 .. Len(unplayed), unplayed' = Behind(unplayed, m), frozen' = frozen,
         history' = Less(history, m)
  PROVE  /\ Newest(m) \in SUBSET Input /\ Sized(Newest(m)) /\ Newest(m) \subseteq OnItsWay
         /\ unplayed' \in Seq(Seq(Input)) /\ Len(unplayed') = Len(unplayed) - m
         /\ Rising(Streamed)'
         /\ AllOf(Streamed) = Newest(m) \cup AllOf(Streamed') /\ Before(Newest(m), AllOf(Streamed'))
         /\ Newest(m) \cap AllOf(Streamed') = {}
         /\ history' \in 0 .. Len(unplayed')
         /\ m <= history => Late' = Late
         /\ m >= history => AllOf(Streamed') \subseteq Late
  <1> DEFINE rest == Behind(unplayed, m)
  <1>1. /\ Typed /\ Places /\ unplayed \in Seq(Seq(Input)) /\ frozen \in Seq(Seq(Input))
        /\ history \in 0 .. Len(unplayed) /\ Rising(Streamed) /\ Len(unplayed) \in Nat
    <2>1. Typed /\ Places /\ Ordering
      BY PlacesOf DEF IInv
    <2> QED
      BY <2>1, SeqElements DEF Typed, Ordering
  <1>2. /\ First(unplayed, m) \in Seq(Seq(Input)) /\ rest \in Seq(Seq(Input))
        /\ Len(rest) = Len(unplayed) - m
    BY <1>1, PartsOf
  <1>3. Newest(m) \in SUBSET Input /\ Sized(Newest(m))
    BY <1>2, RunsSized DEF Newest
  <1>4. /\ m \in 0 .. Len(Streamed) /\ First(Streamed, m) = First(unplayed, m)
        /\ Behind(Streamed, m) = rest \o frozen
    <2>1. /\ m \in 0 .. Len(unplayed \o frozen) /\ First(unplayed \o frozen, m) = First(unplayed, m)
          /\ Behind(unplayed \o frozen, m) = Behind(unplayed, m) \o frozen
      <3>1. unplayed \in Seq(Seq(Input)) /\ frozen \in Seq(Seq(Input))
        BY <1>1
      <3> HIDE DEF rest
      <3>2. m \in 0 .. Len(unplayed \o frozen)
        BY <3>1, BehindJoin
      <3>3. First(unplayed \o frozen, m) = First(unplayed, m)
        BY <3>1, BehindJoin
      <3>4. Behind(unplayed \o frozen, m) = Behind(unplayed, m) \o frozen
        <4>1. \A r, q \in Seq(Seq(Input)) : \A i \in 0 .. Len(r) : Behind(r \o q, i) = Behind(r, i) \o q
          <5> SUFFICES ASSUME NEW r \in Seq(Seq(Input)), NEW q \in Seq(Seq(Input)), NEW i \in 0 .. Len(r)
                       PROVE  Behind(r \o q, i) = Behind(r, i) \o q
            OBVIOUS
          <5> QED
            BY BehindJoin
        <4> QED
          BY <3>1, <4>1
      <3> QED
        BY <3>2, <3>3, <3>4
    <2> QED
      BY <2>1 DEF Streamed
  <1>5. Streamed' = Behind(Streamed, m)
    BY <1>4 DEF Streamed
  <1>6. Streamed \in Seq(Seq(Input))
    BY <1>1 DEF Places
  <1>7. /\ Rising(Behind(Streamed, m))
        /\ Before(AllOf(First(Streamed, m)), AllOf(Behind(Streamed, m)))
    BY <1>1, <1>4, <1>6, RisingParts
  <1>8. AllOf(Streamed) = AllOf(First(Streamed, m)) \cup AllOf(Behind(Streamed, m))
    BY <1>4, <1>6, AllOfParts
  <1>9. Rising(Streamed)'
    BY <1>5, <1>7 DEF Rising, Sorted
  <1>10. AllOf(Streamed) = Newest(m) \cup AllOf(Streamed') /\ Before(Newest(m), AllOf(Streamed'))
    BY <1>4, <1>5, <1>7, <1>8 DEF Newest
  <1>11. Newest(m) \subseteq OnItsWay
    BY <1>10 DEF OnItsWay
  <1>12. Newest(m) \cap AllOf(Streamed') = {}
    <2>1. \A x \in Newest(m) : x.n \in Nat
      BY <1>3 DEF Input
    <2> QED
      BY <1>10, <2>1, BeforeApart
  <1>13. history' \in 0 .. Len(unplayed')
    BY <1>1, <1>2 DEF Less
  <1> HIDE DEF rest
  <1>14. ASSUME m <= history PROVE Late' = Late
    <2>1. history' = history - m /\ history - m \in 0 .. Len(unplayed) - m /\ m + (history - m) = history
      BY <1>1, <1>14 DEF Less
    <2>2. Behind(Behind(unplayed, m), history - m) = Behind(unplayed, m + (history - m))
      BY <1>1, <2>1, BehindTwice
    <2> QED
      BY <2>1, <2>2 DEF Late
  <1>15. ASSUME m >= history PROVE AllOf(Streamed') \subseteq Late
    <2> DEFINE old == Behind(unplayed, history)
    <2>1. m - history \in 0 .. Len(unplayed) - history /\ history + (m - history) = m
      BY <1>1, <1>15
    <2>2. old \in Seq(Seq(Input)) /\ Len(old) = Len(unplayed) - history
      BY <1>1, PartsOf
    <2>3. Behind(old, m - history) = Behind(unplayed, m)
      BY <1>1, <2>1, BehindTwice
    <2> HIDE DEF old
    <2>4. AllOf(Behind(old, m - history)) \subseteq AllOf(old)
      <3>1. m - history \in 0 .. Len(old)
        BY <2>1, <2>2
      <3> QED
        BY <2>2, <3>1, AllOfParts
    <2>5. AllOf(rest \o frozen) = AllOf(rest) \cup AllOf(frozen)
      BY <1>1, <1>2, AllOfJoined
    <2> QED
      BY <1>4, <1>5, <2>3, <2>4, <2>5 DEF Late, old, rest
  <1> QED
    BY <1>2, <1>3, <1>9, <1>10, <1>11, <1>12, <1>13, <1>14, <1>15 DEF rest

LEMMA ReleasedIs ==
  ASSUME NEW S \in SUBSET Input, NEW a, NEW b \in Nat, InSeries(S, a, b),
         NEW W \in SUBSET S, NEW D \in SUBSET S, \A x \in W : IsOrder(x)
  PROVE  Released(W, D) = W \ D
  <1>1. ASSUME NEW x \in W, NEW y \in D, x.serial = y.serial PROVE x = y
    <2>1. x.n \in Nat /\ y.n \in Nat /\ x.serial \in 1 .. b - 1
      BY DEF Input, InSeries
    <2>2. IsOrder(y)
      BY <1>1, <2>1 DEF InSeries
    <2>3. ~(x.n < y.n)
      <3>1. x.n < y.n => x.serial < y.serial
        BY <2>2 DEF InSeries
      <3> QED
        BY <1>1, <2>1, <3>1
    <2>4. ~(y.n < x.n)
      <3>1. y.n < x.n => y.serial < x.serial
        BY <2>2 DEF InSeries
      <3> QED
        BY <1>1, <2>1, <3>1
    <2>5. x.n = y.n
      BY <2>1, <2>3, <2>4
    <2> QED
      BY <2>5 DEF InSeries
  <1>2. \A x \in W : x.serial \in Serials(D) <=> x \in D
    BY <1>1 DEF Serials
  <1> QED
    BY <1>2 DEF Released

Leaving(k) == {x \in Range(Batch(k)) : IsOrder(x)}
Resumes(m) == CatchingUp /\ m >= history

\* What the client's turn comes to.
Turn(n, k, m) ==
  /\ m \in 0 .. Len(unplayed) /\ (CatchingUp => k = 0)
  /\ link /\ got' \in Nat /\ got' = got + BundlesIn(n) - m
  /\ outbox' = Behind(outbox, k) /\ unplayed' = Behind(unplayed, m) /\ down' = Behind(down, n)
  /\ history' = Less(history, m) /\ unsettled' = m
  /\ serial' = serial + Orders(Range(Batch(k)))
  /\ up' = IF attached THEN up \o Frames(Batch(k)) ELSE up
  /\ played' \in {played} \cup {x.n : x \in Newest(m)}
  /\ credit' \in 0 .. QueueCap /\ inFlight' \in 0 .. QueueCap
  /\ inFlight' = IF Resumes(m) THEN 0
                 ELSE Less(Less(inFlight, Commands(NewsIn(n))) + Commands(Range(Batch(k))), Acknowledged(Newest(m)))
  /\ sent' \subseteq (sent \ NewsIn(n)) \cup Leaving(k)
  /\ ~CatchingUp => sent' = ((sent \ NewsIn(n)) \cup Leaving(k)) \ Newest(m)
  /\ Resumes(m) => sent' = {}
  /\ Sized((sent \ NewsIn(n)) \cup Leaving(k))
  /\ Cardinality((sent \ NewsIn(n)) \cup Leaving(k)) <= OrderWindow
  /\ Bytes((sent \ NewsIn(n)) \cup Leaving(k)) <= WindowBytes
  /\ UNCHANGED <<issued, link, breaks, server>>

LEMMA LessType ==
  ASSUME NEW a \in Nat, NEW b \in Nat
  PROVE  Less(a, b) \in 0 .. a
  BY DEF Less

LEMMA LeavingSized ==
  ASSUME NEW k, Sized(Range(Batch(k)))
  PROVE  /\ Sized(Leaving(k)) /\ Leaving(k) \subseteq Range(Batch(k))
         /\ Cardinality(Leaving(k)) = Orders(Range(Batch(k)))
         /\ Bytes(Leaving(k)) <= Bytes(Range(Batch(k)))
  <1>1. Leaving(k) \subseteq Range(Batch(k))
    BY DEF Leaving
  <1>2. Cardinality(Leaving(k)) = Orders(Range(Batch(k)))
    BY DEF Leaving, Orders
  <1> QED
    BY <1>1, <1>2, CountFewer

LEMMA TurnTaken ==
  ASSUME IInv, NEW n \in 0 .. Len(down), NEW k \in 0 .. Len(outbox), NEW m \in 0 .. got + n,
         Step(n, k, m)
  PROVE  Turn(n, k, m)
  <1> DEFINE items == Range(Batch(k))
             newest == Newest(m)
             D == NewsIn(n)
  <1>1. /\ link /\ k = Sendable(n) /\ got' = got + BundlesIn(n) - m /\ got' >= 0
        /\ down' = Behind(down, n) /\ outbox' = Behind(outbox, k) /\ unplayed' = Behind(unplayed, m)
        /\ unsettled' = m /\ history' = Less(history, m)
        /\ up' = IF attached THEN up \o Frames(Batch(k)) ELSE up
        /\ played' = Max({played} \cup {x.n : x \in newest})
        /\ serial' = Max({serial + Orders(items)} \cup {s + 1 : s \in Serials(newest)})
        /\ credit' = IF Resumes(m) THEN CapPerTick ELSE CreditNow - Commands(items)
        /\ inFlight' = IF Resumes(m) THEN 0
                       ELSE Less(InFlightAfter(n) + Commands(items), Acknowledged(newest))
        /\ sent' = IF Resumes(m) THEN {}
                   ELSE Unacknowledged(SentAfter(n) \cup Leaving(k), newest)
        /\ UNCHANGED <<issued, link, breaks, server>>
    BY DEF Step, Batch, Newest, Resumes, Leaving
  <1>2. /\ Typed /\ Places /\ NewsPlaced /\ TicksInStep /\ Numbering /\ Windows
    <2>1. Typed /\ ToldOnce(down)
      BY DEF IInv, Apart
    <2> QED
      BY <2>1, PlacesOf, NewsPlacedOf DEF IInv
  <1>3. /\ D \in SUBSET Input /\ Sized(D) /\ BundlesIn(n) \in Nat
        /\ D \subseteq News /\ BundlesIn(n) <= BundlesOf(down, Len(down))
    <2>1. /\ NewsIn(n) \in SUBSET Input /\ Sized(NewsIn(n)) /\ BundlesIn(n) \in Nat
          /\ News = NewsIn(n) \cup News'
          /\ BundlesOf(down, Len(down)) = BundlesIn(n) + BundlesOf(down', Len(down'))
          /\ BundlesOf(down', Len(down')) \in Nat
      BY <1>1, Hearing
    <2> QED
      BY <2>1
  <1>4. /\ got \in Nat /\ Len(unplayed) \in Nat /\ unplayed \in Seq(Seq(Input)) /\ m \in Nat
        /\ Len(down) \in Nat /\ Len(outbox) \in Nat /\ n \in Nat
    <2>1. got \in Nat /\ unplayed \in Seq(Seq(Input)) /\ down \in Seq(DownFrame) /\ outbox \in Seq(Input)
      BY <1>2 DEF Typed
    <2> QED
      BY <2>1, SeqElements
  <1>5. m \in 0 .. Len(unplayed) /\ got' \in Nat
    <2>1. got + BundlesOf(down, Len(down)) <= Len(unplayed)
      BY <1>2 DEF TicksInStep
    <2>2. BundlesOf(down, Len(down)) \in Nat
      BY <1>4, BundlesType
    <2> QED
      BY <1>1, <1>3, <1>4, <2>1, <2>2, SMTT(30)
  <1>6. /\ Batch(k) \in Seq(Input) /\ Sized(items) /\ items \in SUBSET Input
        /\ Commands(items) = Commands(Range(First(outbox, k)))
        /\ Orders(items) = Orders(Range(First(outbox, k))) /\ Orders(items) \in Nat
        /\ Bytes(items) = Bytes(Range(First(outbox, k)))
        /\ Before(Told, items)
        /\ InSeries(Told \cup items, issued, serial + Orders(items))
    BY Sending
  <1>7. newest \in SUBSET Input /\ Sized(newest) /\ newest \subseteq Told
    <2>1. Newest(m) \in SUBSET Input /\ Sized(Newest(m)) /\ Newest(m) \subseteq OnItsWay
      <3>1. frozen' = frozen
        BY <1>1 DEF server
      <3> QED
        BY <1>1, <1>5, <3>1, Playing
    <2> QED
      BY <2>1 DEF Told
  <1>8. /\ serial \in Nat \ {0} /\ issued \in Nat /\ played \in 0 .. issued /\ sent \in SUBSET Input
        /\ credit \in 0 .. QueueCap /\ unsettled \in 0 .. Lead /\ inFlight \in 0 .. QueueCap
        /\ outbox \in Seq(Input)
    BY <1>2 DEF Typed
  <1> HIDE DEF items, newest, D
  <1>9. SentAfter(n) = sent \ D /\ SentAfter(n) \subseteq sent
    <2>1. Released(sent, D) = sent \ D
      <3>1. InSeries(Told, issued, serial) /\ Told \in SUBSET Input /\ serial \in Nat
        BY <1>2, <1>8 DEF Numbering, NewsPlaced
      <3>2. sent \in SUBSET Told /\ D \in SUBSET Told /\ \A x \in sent : IsOrder(x)
        BY <1>2, <1>3 DEF Told, Windows
      <3> QED
        BY <3>1, <3>2, ReleasedIs
    <2> QED
      BY <2>1 DEF SentAfter, D
  <1>10. /\ Sized(SentAfter(n)) /\ Sized(sent)
         /\ Cardinality(SentAfter(n)) \in 0 .. OrderWindow /\ Bytes(SentAfter(n)) \in 0 .. WindowBytes
    <2>1. Sized(sent) /\ Cardinality(sent) <= OrderWindow /\ Bytes(sent) <= WindowBytes
      BY <1>2 DEF Places, Windows
    <2>2. /\ Sized(SentAfter(n)) /\ Bytes(SentAfter(n)) <= Bytes(sent)
          /\ Cardinality(SentAfter(n)) <= Cardinality(sent)
      BY <1>9, <2>1, CountFewer
    <2>3. /\ Bytes(SentAfter(n)) \in Nat /\ Cardinality(SentAfter(n)) \in Nat
          /\ Bytes(sent) \in Nat /\ Cardinality(sent) \in Nat
      BY <2>1, <2>2, CountTypes, FS_CardinalityType DEF Sized
    <2> QED
      BY <2>1, <2>2, <2>3
  <1>11. CreditNow \in 0 .. QueueCap
    <2>1. unsettled * CapPerTick \in Nat
      BY <1>8
    <2>2. credit + unsettled * CapPerTick \in Nat
      BY <1>8, <2>1
    <2> QED
      BY <1>8, <2>2, MinOfTwo DEF CreditNow
  <1>12. InFlightAfter(n) = Less(inFlight, Commands(D)) /\ InFlightAfter(n) \in 0 .. QueueCap
         /\ Commands(D) \in Nat
    <2>1. Commands(D) \in Nat
      BY <1>3, CountTypes
    <2>2. Less(inFlight, Commands(D)) \in 0 .. inFlight
      <3>1. inFlight \in Nat
        BY <1>8
      <3> QED
        BY <2>1, <3>1, LessType
    <2> QED
      BY <1>8, <2>1, <2>2 DEF InFlightAfter, D
  <1>13. /\ CatchingUp => k = 0
         /\ Commands(items) <= CreditNow /\ InFlightAfter(n) + Commands(items) <= QueueCap
         /\ Orders(items) + Cardinality(SentAfter(n)) <= OrderWindow
         /\ Bytes(items) + Bytes(SentAfter(n)) <= WindowBytes
    <2> DEFINE s == Sendable(n)
               S == Range(First(outbox, s))
    <2>1. CreditNow \in Nat
      BY <1>11
    <2>2. /\ CatchingUp => s = 0
          /\ Commands(S) <= CreditNow /\ InFlightAfter(n) + Commands(S) <= QueueCap
          /\ Orders(S) + Cardinality(SentAfter(n)) <= OrderWindow
          /\ Bytes(S) + Bytes(SentAfter(n)) <= WindowBytes
      BY <1>8, <1>10, <1>12, <2>1, SendableFits
    <2>3. s = k /\ S = Range(First(outbox, k))
      BY <1>1
    <2> HIDE DEF s, S
    <2> QED
      BY <1>6, <2>2, <2>3
  <1>14. serial' = serial + Orders(items)
    <2> DEFINE next == serial + Orders(items)
               S == {next} \cup {s + 1 : s \in Serials(newest)}
    <2>1. next \in Nat /\ serial <= next
      BY <1>6, <1>8
    <2>2. \A x \in newest : x.serial \in Nat /\ x.serial + 1 <= serial
      <3> SUFFICES ASSUME NEW x \in newest PROVE x.serial \in Nat /\ x.serial + 1 <= serial
        OBVIOUS
      <3>1. x \in Told
        BY <1>7
      <3>2. x.serial \in 1 .. serial - 1 \/ x.serial = 0
        BY <1>2, <3>1 DEF Numbering, InSeries
      <3> QED
        BY <1>8, <3>2
    <2>3. \A s \in Serials(newest) : s + 1 \in 0 .. next /\ s + 1 <= next
      <3> SUFFICES ASSUME NEW x \in newest PROVE x.serial + 1 \in 0 .. next /\ x.serial + 1 <= next
        BY DEF Serials
      <3>1. x.serial \in Nat /\ x.serial + 1 <= serial /\ serial \in Nat
        BY <1>8, <2>2
      <3> HIDE DEF next
      <3> QED
        BY <2>1, <3>1
    <2>4. S \in SUBSET (0 .. next) /\ next \in S
      BY <2>1, <2>3
    <2>5. serial' = Max(S)
      BY <1>1
    <2> HIDE DEF S, next
    <2>6. Max(S) \in S /\ \A x \in S : x <= Max(S)
      BY <2>1, <2>4, MaxOf
    <2>7. Max(S) = next
      <3>1. Max(S) \in 0 .. next /\ next <= Max(S)
        BY <2>4, <2>6
      <3> QED
        BY <2>1, <3>1
    <2> QED
      BY <2>5, <2>7 DEF next
  <1>15. played' \in {played} \cup {x.n : x \in newest}
    <2> DEFINE S == {played} \cup {x.n : x \in newest}
    <2>1. \A x \in newest : x.n \in 1 .. issued
      BY <1>2, <1>7 DEF Numbering, InSeries
    <2>2. S \in SUBSET (0 .. issued) /\ S # {}
      BY <1>8, <2>1
    <2>3. played' = Max(S)
      BY <1>1
    <2> HIDE DEF S
    <2>4. Max(S) \in S
      BY <1>8, <2>2, MaxOf
    <2>5. played' \in S
      BY <2>3, <2>4, Zenon
    <2> QED
      BY <2>5, SMTT(30) DEF S
  <1>16. Commands(items) \in Nat /\ Commands(newest) \in Nat
    BY <1>6, <1>7, CountTypes
  <1>17. credit' \in 0 .. QueueCap
    BY <1>1, <1>11, <1>13, <1>16 DEF items
  <1>18. inFlight' = IF Resumes(m) THEN 0
                     ELSE Less(Less(inFlight, Commands(D)) + Commands(items), Acknowledged(newest))
    BY <1>1, <1>12 DEF items, newest
  <1>19. inFlight' \in 0 .. QueueCap
    <2>1. Acknowledged(newest) \in Nat
      BY <1>16 DEF Acknowledged
    <2>2. InFlightAfter(n) + Commands(items) \in Nat
      BY <1>12, <1>16
    <2>3. Less(InFlightAfter(n) + Commands(items), Acknowledged(newest)) \in 0 .. InFlightAfter(n) + Commands(items)
      BY <2>1, <2>2, LessType
    <2> QED
      BY <1>12, <1>13, <1>18, <2>2, <2>3
  <1> DEFINE W == (sent \ D) \cup Leaving(k)
  <1>20. /\ Sized(Leaving(k)) /\ Leaving(k) \subseteq items
         /\ Cardinality(Leaving(k)) = Orders(items) /\ Bytes(Leaving(k)) <= Bytes(items)
    BY <1>6, LeavingSized DEF items
  <1>21. (sent \ D) \cap Leaving(k) = {}
    <2>1. \A x \in Told : x.n \in Nat
      BY <1>2 DEF NewsPlaced, Input
    <2>2. Told \cap items = {}
      BY <1>6, <2>1, BeforeApart
    <2> QED
      BY <1>20, <2>2 DEF Told
  <1>22. Sized(W) /\ Cardinality(W) <= OrderWindow /\ Bytes(W) <= WindowBytes
    <2>1. Sized(W) /\ Bytes(W) = Bytes(sent \ D) + Bytes(Leaving(k))
      BY <1>9, <1>10, <1>20, <1>21, CountSplit
    <2>2. Cardinality(W) = Cardinality(sent \ D) + Cardinality(Leaving(k))
      <3>1. IsFiniteSet(sent \ D) /\ IsFiniteSet(Leaving(k))
        BY <1>9, <1>10, <1>20 DEF Sized
      <3>2. Cardinality(sent \ D) \in Nat /\ Cardinality(Leaving(k)) \in Nat
        BY <3>1, FS_CardinalityType
      <3>3. Cardinality(W) = Cardinality(sent \ D) + Cardinality(Leaving(k)) - Cardinality((sent \ D) \cap Leaving(k))
        BY <3>1, FS_Union
      <3>4. Cardinality((sent \ D) \cap Leaving(k)) = 0
        BY <1>21, FS_EmptySet
      <3> QED
        BY <3>2, <3>3, <3>4
    <2>3. /\ Bytes(sent \ D) \in Nat /\ Bytes(Leaving(k)) \in Nat /\ Bytes(items) \in Nat
          /\ Cardinality(sent \ D) \in Nat /\ Orders(items) \in Nat
      BY <1>6, <1>9, <1>10, <1>20, CountTypes
    <2>4. /\ Orders(items) + Cardinality(sent \ D) <= OrderWindow
          /\ Bytes(items) + Bytes(sent \ D) <= WindowBytes
      BY <1>9, <1>13
    <2> HIDE DEF W
    <2> QED
      BY <1>20, <2>1, <2>2, <2>3, <2>4
  <1>23. /\ Resumes(m) => sent' = {}
         /\ ~CatchingUp => sent' = W \ newest
         /\ sent' \subseteq W
    <2>1. SentAfter(n) \cup Leaving(k) = W
      BY <1>9
    <2>2. \A x \in W : IsOrder(x)
      BY <1>2 DEF Windows, Leaving
    <2>3. Released(W, newest) = W \ newest
      <3> DEFINE S == Told \cup items
                 next == serial + Orders(items)
      <3>1. InSeries(S, issued, next) /\ S \in SUBSET Input /\ next \in Nat
        BY <1>2, <1>6, <1>8 DEF NewsPlaced
      <3>2. W \in SUBSET S /\ newest \in SUBSET S
        BY <1>7, <1>20 DEF Told
      <3> HIDE DEF S, next, W
      <3> QED
        BY <2>2, <3>1, <3>2, ReleasedIs
    <2>4. sent' = IF Resumes(m) THEN {} ELSE IF CatchingUp THEN W ELSE W \ newest
      BY <1>1, <2>1, <2>3 DEF Unacknowledged, newest
    <2>5. Resumes(m) => CatchingUp
      BY DEF Resumes
    <2> HIDE DEF W
    <2> QED
      BY <2>4, <2>5
  <1> QED
    BY <1>1, <1>5, <1>13, <1>14, <1>15, <1>17, <1>18, <1>19, <1>22, <1>23 DEF Turn, items, newest, D

LEMMA TurnUplink ==
  ASSUME IInv, NEW n \in 0 .. Len(down), NEW k \in 0 .. Len(outbox), NEW m, Turn(n, k, m)
  PROVE  /\ up' \in Seq(UpFrame) /\ Shaped(up)' /\ Staged' /\ Rising(Uplink)'
         /\ AllOf(Uplink') = AllOf(Uplink) \cup IF attached THEN Range(Batch(k)) ELSE {}
         /\ Uplink' \in Seq(Seq(Input))
         /\ k = 0 => up' = up
  <1> DEFINE fs == Frames(Batch(k))
             items == Range(Batch(k))
  <1>1. /\ Typed /\ Places /\ Ordering /\ Shaped(up) /\ Staged /\ up \in Seq(UpFrame) /\ Quiet
        /\ serial \in Nat /\ inbox.last \in 0 .. serial - 1
    <2>1. Typed /\ Places /\ Ordering /\ Shaped(up) /\ Staged /\ Quiet
      BY PlacesOf DEF IInv
    <2> QED
      BY <2>1 DEF Typed
  <1>2. /\ Batch(k) \in Seq(Input) /\ Sorted(Batch(k)) /\ Before(Told, items)
        /\ \A x \in items : IsOrder(x) => x.serial >= serial
        /\ k = 0 => Batch(k) = <<>>
    BY Sending
  <1>3. /\ fs \in Seq(UpFrame) /\ Shaped(fs) /\ Opening(fs)
        /\ Rising(Carriers(fs)) /\ AllOf(Carriers(fs)) = items
        /\ k = 0 => fs = <<>>
    BY <1>2, FramesFit DEF Fit
  <1>4. up' = (IF attached THEN up \o fs ELSE up) /\ inbox' = inbox
    BY DEF Turn, server
  <1> HIDE DEF fs, items
  <1>5. /\ up \o fs \in Seq(UpFrame)
        /\ AllOf(Carriers(up \o fs)) = AllOf(Carriers(up)) \cup items
        /\ Rising(Carriers(up \o fs)) /\ Shaped(up \o fs)
        /\ up # <<>> => up \o fs # <<>> /\ (up \o fs)[1] = up[1]
        /\ up = <<>> => up \o fs = fs
    <2>1. Rising(Carriers(up)) /\ Before(AllOf(Carriers(up)), AllOf(Carriers(fs)))
      <3>1. Uplink = Carriers(up) /\ Rising(Uplink) /\ AllOf(Uplink) \subseteq Told
        BY <1>1 DEF Places, Ordering, Told, OnItsWay
      <3> QED
        BY <1>2, <1>3, <3>1 DEF Before
    <2> QED
      BY <1>1, <1>3, <2>1, CarriersJoin
  <1>6. Uplink' = Carriers(up')
    BY DEF Uplink, Carriers
  <1>7. ASSUME attached
        PROVE  /\ up' \in Seq(UpFrame) /\ Shaped(up)' /\ Rising(Uplink)'
               /\ AllOf(Uplink') = AllOf(Uplink) \cup items
    <2>1. up' = up \o fs
      BY <1>4, <1>7
    <2>2. AllOf(Uplink') = AllOf(Uplink) \cup items
      BY <1>1, <1>5, <1>6, <2>1 DEF Places
    <2>3. Rising(Uplink)'
      <3>1. Rising(Uplink')
        BY <1>5, <1>6, <2>1
      <3> QED
        BY <3>1 DEF Rising, Sorted
    <2>4. Shaped(up)'
      <3>1. Shaped(up')
        BY <1>5, <2>1
      <3> QED
        BY <3>1 DEF Shaped, InTransaction
    <2> QED
      BY <1>5, <2>1, <2>2, <2>3, <2>4
  <1>8. ASSUME ~attached
        PROVE  /\ up' \in Seq(UpFrame) /\ Shaped(up)' /\ Rising(Uplink)'
               /\ AllOf(Uplink') = AllOf(Uplink)
    <2>1. up' = up /\ Uplink' = Uplink
      BY <1>4, <1>8 DEF Uplink
    <2> QED
      BY <1>1, <2>1 DEF Shaped, InTransaction, Ordering, Rising, Sorted
  <1>9. Uplink' \in Seq(Seq(Input))
    <2>1. up' \in Seq(UpFrame)
      BY <1>7, <1>8
    <2> QED
      BY <1>6, <2>1, CarriersType
  <1>10. k = 0 => up' = up
    BY <1>1, <1>3, <1>4, ConcatEmptySeq
  <1>11. Staged'
    <2>1. inbox.stage # NoStage <=> up' # <<>> /\ up'[1].kind \in {"members", "commit"}
      <3>1. CASE ~attached
        BY <1>1, <1>4, <3>1 DEF Staged
      <3>2. CASE attached /\ up # <<>>
        BY <1>1, <1>4, <1>5, <3>2 DEF Staged
      <3>3. CASE attached /\ up = <<>>
        BY <1>1, <1>3, <1>4, <1>5, <3>3 DEF Staged, Opening
      <3> QED
        BY <3>1, <3>2, <3>3
    <2>2. inbox.stage # NoStage => inbox.stage.serial = up'[1].items[1].serial
      <3> SUFFICES ASSUME inbox.stage # NoStage PROVE inbox.stage.serial = up'[1].items[1].serial
        OBVIOUS
      <3>1. up # <<>> /\ inbox.stage.serial = up[1].items[1].serial
        BY <1>1 DEF Staged
      <3>2. up'[1] = up[1]
        BY <1>4, <1>5, <3>1
      <3> QED
        BY <3>1, <3>2
    <2>3. ASSUME NEW i \in DOMAIN up', up'[i].kind = "begin"
          PROVE  up'[i].items[1].serial > inbox.last
      <3>1. CASE ~attached
        BY <1>1, <1>4, <2>3, <3>1 DEF Staged
      <3>2. CASE attached
        <4>1. up' = up \o fs /\ Len(up) \in Nat /\ Len(fs) \in Nat
          BY <1>1, <1>3, <1>4, <3>2, SeqElements
        <4>2. /\ Len(up') = Len(up) + Len(fs)
              /\ \A j \in 1 .. Len(up) + Len(fs) : up'[j] = IF j <= Len(up) THEN up[j] ELSE fs[j - Len(up)]
          BY <1>1, <1>3, <4>1, ConcatProperties
        <4>3. i \in 1 .. Len(up) + Len(fs) /\ DOMAIN up = 1 .. Len(up) /\ DOMAIN fs = 1 .. Len(fs)
          <5>1. DOMAIN up' = 1 .. Len(up')
            BY <1>5, <4>1
          <5> QED
            BY <1>1, <1>3, <4>2, <5>1, SeqElements
        <4>4. CASE i <= Len(up)
          <5>1. i \in DOMAIN up /\ up'[i] = up[i]
            BY <4>1, <4>2, <4>3, <4>4
          <5> QED
            BY <1>1, <2>3, <5>1 DEF Staged
        <4>5. CASE i > Len(up)
          <5> DEFINE j == i - Len(up)
          <5>1. j \in DOMAIN fs /\ up'[i] = fs[j]
            BY <4>1, <4>2, <4>3, <4>5
          <5> HIDE DEF j
          <5>2. fs[j].kind = "begin" /\ fs[j].items[1] \in items
            BY <1>3, <2>3, <5>1, FramesOrder
          <5>3. IsOrder(fs[j].items[1])
            BY <1>3, <5>1, <5>2 DEF Shaped, InTransaction
          <5>4. fs[j].items[1].serial >= serial
            BY <1>2, <5>2, <5>3 DEF items
          <5>5. fs[j].items[1] \in Input
            <6>1. items \subseteq Input
              BY <1>2, RunSized DEF items
            <6> QED
              BY <5>2, <6>1
          <5>6. fs[j].items[1].serial \in Nat
            BY <5>5 DEF Input
          <5> QED
            BY <1>1, <5>1, <5>4, <5>6
        <4> QED
          BY <4>1, <4>3, <4>4, <4>5
      <3> QED
        BY <3>1, <3>2
    <2> QED
      BY <1>4, <2>1, <2>2, <2>3 DEF Staged
  <1> QED
    BY <1>7, <1>8, <1>9, <1>10, <1>11 DEF items

LEMMA TurnPlaces ==
  ASSUME IInv, NEW n \in 0 .. Len(down), NEW k \in 0 .. Len(outbox), NEW m, Turn(n, k, m)
  PROVE  LET items == IF attached THEN Range(Batch(k)) ELSE {} IN
         /\ Newest(m) \subseteq OnItsWay
         /\ OnItsWay' = (OnItsWay \ Newest(m)) \cup items
         /\ News' = News \ NewsIn(n) /\ NewsIn(n) \subseteq News
         /\ Told' \subseteq Told \cup Range(Batch(k))
         /\ Told \cap Range(Batch(k)) = {}
         /\ Before(Newest(m), OnItsWay' \cup Range(outbox))
         /\ Newest(m) \cap (Range(queue) \cup AllOf(Uplink) \cup News) = {}
         /\ m \in 0 .. Len(unplayed) /\ unplayed' = Behind(unplayed, m) /\ frozen' = frozen
         /\ history' = Less(history, m) /\ down' = Behind(down, n)
  <1> DEFINE newest == Newest(m)
             all == Range(Batch(k))
             items == IF attached THEN all ELSE {}
             D == NewsIn(n)
  <1>1. /\ m \in 0 .. Len(unplayed) /\ unplayed' = Behind(unplayed, m) /\ frozen' = frozen
        /\ history' = Less(history, m) /\ down' = Behind(down, n) /\ queue' = queue
        /\ sent' \subseteq (sent \ NewsIn(n)) \cup Leaving(k)
    BY DEF Turn, server
  <1>2. /\ newest \in SUBSET Input /\ newest \subseteq OnItsWay
        /\ AllOf(Streamed) = newest \cup AllOf(Streamed') /\ Before(newest, AllOf(Streamed'))
        /\ newest \cap AllOf(Streamed') = {}
    BY <1>1, Playing
  <1>3. News = D \cup News' /\ D \cap News' = {}
    BY <1>1, Hearing
  <1>4. AllOf(Uplink') = AllOf(Uplink) \cup items
    BY TurnUplink
  <1>5. Before(Told, all)
    BY Sending
  <1>6. /\ Before(AllOf(Streamed), Range(queue) \cup AllOf(Uplink)) /\ Before(Told, Range(outbox))
        /\ News \cap OnItsWay = {} /\ Told \in SUBSET Input
    <2>1. NewsPlaced
      BY NewsPlacedOf DEF IInv, Apart
    <2> QED
      BY <2>1 DEF IInv, Ordering, Numbering, Apart, NewsPlaced
  <1> HIDE DEF newest, all, D, items
  <1>7. newest \subseteq Told /\ \A x \in Told : x.n \in Nat
    BY <1>2, <1>6 DEF Told, Input
  <1>8. Before(newest, Range(queue) \cup AllOf(Uplink))
    BY <1>2, <1>6 DEF Before
  <1>9. newest \cap (Range(queue) \cup AllOf(Uplink)) = {}
    BY <1>7, <1>8, BeforeApart
  <1>10. newest \cap News = {}
    BY <1>2, <1>6
  <1>11. OnItsWay = newest \cup AllOf(Streamed') \cup Range(queue) \cup AllOf(Uplink)
    BY <1>2 DEF OnItsWay
  <1>12. OnItsWay' = AllOf(Streamed') \cup Range(queue) \cup AllOf(Uplink) \cup items
    BY <1>1, <1>4 DEF OnItsWay
  <1>13. Told \cap all = {}
    BY <1>5, <1>7, BeforeApart
  <1>14. newest \cap items = {} /\ items \subseteq all
    BY <1>7, <1>13 DEF items
  <1>15. OnItsWay' = (OnItsWay \ newest) \cup items
    BY <1>2, <1>9, <1>11, <1>12, <1>14
  <1>16. News' = News \ D /\ D \subseteq News
    BY <1>3
  <1>17. Told' \subseteq Told \cup all
    <2>1. sent' \subseteq sent \cup all
      BY <1>1 DEF Leaving, all
    <2>2. Told' = OnItsWay' \cup News' \cup sent'
      BY DEF Told
    <2> QED
      BY <1>14, <1>15, <1>16, <2>1, <2>2 DEF Told
  <1>18. Before(newest, OnItsWay' \cup Range(outbox))
    <2>1. Before(newest, items) /\ Before(newest, Range(outbox))
      BY <1>5, <1>6, <1>7, <1>14 DEF Before
    <2> QED
      BY <1>2, <1>8, <1>12, <2>1 DEF Before
  <1> QED
    BY <1>1, <1>2, <1>9, <1>10, <1>13, <1>15, <1>16, <1>17, <1>18 DEF newest, all, D, items

LEMMA TurnTyped ==
  ASSUME IInv, NEW n \in 0 .. Len(down), NEW k \in 0 .. Len(outbox), NEW m, Turn(n, k, m)
  PROVE  Typed' /\ TicksInStep'
  <1>1. /\ Typed /\ TicksInStep /\ Numbering /\ Windows
    BY DEF IInv
  <1>2. /\ m \in 0 .. Len(unplayed) /\ unplayed' = Behind(unplayed, m) /\ frozen' = frozen
        /\ history' = Less(history, m) /\ down' = Behind(down, n) /\ queue' = queue /\ inbox' = inbox
        /\ floor' = floor /\ attached' = attached /\ link' = link /\ breaks' = breaks /\ issued' = issued
        /\ outbox' = Behind(outbox, k) /\ unsettled' = m
        /\ got' \in Nat /\ got' = got + BundlesIn(n) - m
        /\ serial' = serial + Orders(Range(Batch(k)))
        /\ played' \in {played} \cup {x.n : x \in Newest(m)}
        /\ credit' \in 0 .. QueueCap /\ inFlight' \in 0 .. QueueCap
        /\ sent' \subseteq (sent \ NewsIn(n)) \cup Leaving(k)
        /\ Sized((sent \ NewsIn(n)) \cup Leaving(k))
    BY DEF Turn, server
  <1>3. /\ unplayed' \in Seq(Seq(Input)) /\ Len(unplayed') = Len(unplayed) - m
        /\ history' \in 0 .. Len(unplayed') /\ Newest(m) \subseteq OnItsWay
    BY <1>2, Playing
  <1>4. /\ BundlesIn(n) \in Nat /\ down' \in Seq(DownFrame)
        /\ BundlesOf(down, Len(down)) = BundlesIn(n) + BundlesOf(down', Len(down'))
        /\ BundlesOf(down', Len(down')) \in Nat
    BY <1>2, Hearing
  <1>5. /\ Range(Batch(k)) \in SUBSET Input /\ Orders(Range(Batch(k))) \in Nat
        /\ outbox' \in Seq(Input)
    BY <1>2, Sending
  <1>6. up' \in Seq(UpFrame)
    BY TurnUplink
  <1>7. Len(unplayed) \in Nat /\ got \in Nat /\ Len(frozen) \in Nat /\ Len(unplayed) + Len(frozen) <= Lead
    BY <1>1, SeqElements DEF Typed, TicksInStep
  <1>8. played' \in 0 .. issued
    <2>1. \A x \in Newest(m) : x.n \in 1 .. issued
      <3>1. \A x \in Told : x.n \in 1 .. issued
        BY <1>1 DEF Numbering, InSeries
      <3> QED
        BY <1>3, <3>1 DEF Told
    <2>2. played \in 0 .. issued /\ issued \in Nat
      BY <1>1 DEF Typed
    <2> QED
      BY <1>2, <2>1, <2>2
  <1>9. sent' \in SUBSET Input /\ IsFiniteSet(sent')
    <2>1. sent \subseteq Input /\ Leaving(k) \subseteq Input
      BY <1>1, <1>5 DEF Typed, Leaving
    <2>2. IsFiniteSet((sent \ NewsIn(n)) \cup Leaving(k))
      BY <1>2 DEF Sized
    <2>3. IsFiniteSet(sent')
      BY <1>2, <2>2, FS_Subset
    <2> QED
      BY <1>2, <2>1, <2>3
  <1>10. /\ serial' \in Nat \ {0} /\ floor' \in 0 .. serial' - 1
         /\ inbox' \in Inbox /\ inbox'.last \in 0 .. serial' - 1
    <2>1. /\ serial \in Nat \ {0} /\ floor \in 0 .. serial - 1 /\ inbox \in Inbox
          /\ inbox.last \in 0 .. serial - 1
      BY <1>1 DEF Typed
    <2>2. serial' \in Nat \ {0} /\ serial <= serial'
      BY <1>2, <1>5, <2>1, SMTT(30)
    <2>3. 0 .. serial - 1 \subseteq 0 .. serial' - 1
      <3>1. \A a, b \in Nat : a <= b => 0 .. a - 1 \subseteq 0 .. b - 1
        OBVIOUS
      <3>2. serial \in Nat /\ serial' \in Nat /\ serial <= serial'
        BY <2>1, <2>2
      <3> QED
        BY <3>1, <3>2
    <2> QED
      BY <1>2, <2>1, <2>2, <2>3
  <1>11. unsettled' \in 0 .. Lead
    BY <1>2, <1>7
  <1>12. Typed'
    <2>1. /\ issued' \in 0 .. MaxIssued /\ breaks' \in 0 .. MaxBreaks
          /\ link' \in BOOLEAN /\ attached' \in BOOLEAN /\ queue' \in Seq(Input)
          /\ frozen' \in Seq(Seq(Input)) /\ played' \in 0 .. issued'
      BY <1>1, <1>2, <1>8 DEF Typed
    <2> QED
      BY <1>2, <1>3, <1>4, <1>5, <1>6, <1>9, <1>10, <1>11, <2>1 DEF Typed
  <1>13. TicksInStep'
    <2>1. got + BundlesOf(down, Len(down)) <= Len(unplayed) /\ Len(frozen) <= 1
      BY <1>1 DEF TicksInStep
    <2> DEFINE all == Len(unplayed)
               left == Len(unplayed')
               b == BundlesOf(down, Len(down))
               c == BundlesOf(down', Len(down'))
               read == BundlesIn(n)
    <2>4. /\ all \in Nat /\ m \in 0 .. all /\ left = all - m /\ got \in Nat /\ read \in Nat /\ c \in Nat
          /\ b = read + c /\ got + b <= all /\ got' = got + read - m
      BY <1>2, <1>3, <1>4, <1>7, <2>1
    <2>5. Len(frozen') = Len(frozen) /\ Len(frozen) \in Nat /\ all + Len(frozen) <= Lead
      BY <1>2, <1>7
    <2> HIDE DEF all, left, b, c, read
    <2>2. got' + c <= left
      BY <2>4
    <2>3. left + Len(frozen') <= Lead
      BY <2>4, <2>5
    <2> USE DEF left, c
    <2> QED
      BY <1>2, <2>1, <2>2, <2>3 DEF TicksInStep
  <1> QED
    BY <1>12, <1>13

LEMMA TurnNumbering ==
  ASSUME IInv, NEW n \in 0 .. Len(down), NEW k \in 0 .. Len(outbox), NEW m, Turn(n, k, m)
  PROVE  Numbering'
  <1> DEFINE items == Range(Batch(k))
             rest == Behind(outbox, k)
  <1>1. outbox' = rest /\ serial' = serial + Orders(items) /\ issued' = issued
    BY DEF Turn
  <1>2. /\ Sorted(rest) /\ Before(items, Range(rest)) /\ Range(rest) \subseteq Range(outbox)
        /\ serial + Orders(items) + Orders(Range(rest)) <= issued + 1
        /\ InSeries(Told \cup items, issued, serial + Orders(items))
    BY Sending
  <1>3. Told' \subseteq Told \cup items
    BY TurnPlaces
  <1>4. Numbering
    BY DEF IInv
  <1> HIDE DEF items, rest
  <1>5. InSeries(Told', issued', serial')
    <2>1. InSeries(Told', issued, serial + Orders(items))
      BY <1>2, <1>3, SeriesPart
    <2> QED
      BY <1>1, <2>1
  <1>6. \A x \in Range(outbox') : x.n \in 1 .. issued' /\ x.serial = 0
    BY <1>1, <1>2, <1>4 DEF Numbering
  <1>7. Before(Told', Range(outbox'))
    <2>1. Before(Told, Range(outbox))
      BY <1>4 DEF Numbering
    <2> QED
      BY <1>1, <1>2, <1>3, <2>1 DEF Before
  <1>8. serial' + Orders(Range(outbox')) <= issued' + 1
    BY <1>1, <1>2
  <1>9. Sorted(outbox')
    BY <1>1, <1>2
  <1> QED
    BY <1>5, <1>6, <1>7, <1>8, <1>9 DEF Numbering, InSeries, Sorted, Before

LEMMA TurnOrdering ==
  ASSUME IInv, NEW n \in 0 .. Len(down), NEW k \in 0 .. Len(outbox), NEW m, Turn(n, k, m)
  PROVE  Ordering'
  <1> DEFINE all == Range(Batch(k))
             items == IF attached THEN all ELSE {}
             newest == Newest(m)
  <1>1. /\ m \in 0 .. Len(unplayed) /\ unplayed' = Behind(unplayed, m) /\ frozen' = frozen
        /\ history' = Less(history, m) /\ queue' = queue /\ outbox' = Behind(outbox, k)
        /\ played' \in {played} \cup {x.n : x \in newest}
    BY DEF Turn, server
  <1>2. Ordering /\ Typed /\ Numbering
    BY DEF IInv
  <1>3. Rising(Streamed)' /\ AllOf(Streamed') \subseteq AllOf(Streamed)
    BY <1>1, Playing
  <1>4. Rising(Uplink)' /\ AllOf(Uplink') = AllOf(Uplink) \cup items
    BY TurnUplink
  <1>5. /\ Before(Told, all) /\ Range(outbox') \subseteq Range(outbox)
        /\ \A x \in all : x.n \in 1 .. issued
        /\ Before(all, Range(outbox'))
    BY <1>1, Sending
  <1>6. /\ Before(newest, OnItsWay' \cup Range(outbox)) /\ newest \subseteq OnItsWay
        /\ OnItsWay' = (OnItsWay \ newest) \cup items
    BY TurnPlaces
  <1> HIDE DEF all, newest
  <1>7. items \subseteq all
    OBVIOUS
  <1> HIDE DEF items
  <1>8. Before(AllOf(Streamed), items) /\ Before(Range(queue), items)
    BY <1>5, <1>7 DEF Before, Told, OnItsWay
  <1>9. /\ Before(AllOf(Streamed'), Range(queue') \cup AllOf(Uplink'))
        /\ Before(Range(queue'), AllOf(Uplink'))
    BY <1>1, <1>2, <1>3, <1>4, <1>8 DEF Before, Ordering
  <1>10. \A x \in OnItsWay' \cup Range(outbox') : played' < x.n
    <2> SUFFICES ASSUME NEW x \in OnItsWay' \cup Range(outbox') PROVE played' < x.n
      OBVIOUS
    <2>1. CASE played' \in {y.n : y \in newest}
      <3>1. PICK y \in newest : played' = y.n
        BY <2>1
      <3>2. y.n < x.n
        BY <1>5, <1>6 DEF Before
      <3> QED
        BY <3>1, <3>2
    <2>2. CASE played' = played
      <3>1. CASE x \in OnItsWay \cup Range(outbox')
        BY <1>2, <1>5, <2>2, <3>1 DEF Ordering
      <3>2. CASE x \in items
        <4>1. PICK y \in Range(outbox) : x.n = y.n
          <5>1. \A z \in all : \E y \in Range(outbox) : z.n = y.n
            BY Sending DEF all
          <5> QED
            BY <1>7, <3>2, <5>1
        <4> QED
          BY <1>2, <2>2, <4>1 DEF Ordering
      <3> QED
        BY <1>6, <3>1, <3>2
    <2> QED
      BY <1>1, <2>1, <2>2
  <1>11. Sorted(queue)'
    BY <1>1, <1>2 DEF Ordering, Sorted
  <1> QED
    BY <1>3, <1>4, <1>9, <1>10, <1>11 DEF Ordering, Before

LEMMA TurnWindows ==
  ASSUME IInv, NEW n \in 0 .. Len(down), NEW k \in 0 .. Len(outbox), NEW m, Turn(n, k, m)
  PROVE  Windows'
  <1> DEFINE W == (sent \ NewsIn(n)) \cup Leaving(k)
             items == Range(Batch(k))
  <1>1. /\ sent' \subseteq W /\ (~CatchingUp => sent' = W \ Newest(m)) /\ (CatchingUp => k = 0)
        /\ Sized(W) /\ Cardinality(W) <= OrderWindow /\ Bytes(W) <= WindowBytes
        /\ queue' = queue /\ floor' = floor
    BY DEF Turn, server
  <1>2. /\ Typed /\ Windows /\ Quiet /\ Numbering /\ Apart
    BY DEF IInv
  <1>3. /\ \A x \in items : IsOrder(x) => x.serial >= serial
        /\ k = 0 => Batch(k) = <<>>
    BY Sending
  <1>4. AllOf(Uplink') \subseteq AllOf(Uplink) \cup items
    BY TurnUplink
  <1>5. k = 0 => up' = up
    BY TurnUplink
  <1>6. /\ NewsIn(n) \subseteq News /\ Told \cap items = {} /\ Newest(m) \subseteq OnItsWay
        /\ Newest(m) \cap (Range(queue) \cup AllOf(Uplink)) = {}
    BY TurnPlaces
  <1>7. \A x \in W : IsOrder(x)
    BY <1>2 DEF Windows, Leaving
  <1>8. \A x \in items : IsOrder(x) => x \in W
    BY DEF Leaving
  <1> HIDE DEF W, items
  <1>9. Cardinality(sent') <= OrderWindow /\ Bytes(sent') <= WindowBytes
    <2>1. /\ Sized(sent') /\ Cardinality(sent') <= Cardinality(W) /\ Bytes(sent') <= Bytes(W)
      BY <1>1, CountFewer
    <2>2. /\ Cardinality(sent') \in Nat /\ Cardinality(W) \in Nat /\ Bytes(sent') \in Nat /\ Bytes(W) \in Nat
      BY <1>1, <2>1, CountTypes, FS_CardinalityType DEF Sized
    <2> QED
      BY <1>1, <2>1, <2>2
  <1>10. ASSUME NEW x \in Range(queue') \cup AllOf(Uplink'), IsOrder(x)
         PROVE  x \in sent' /\ x.serial > floor'
    <2>1. CASE CatchingUp
      <3>1. up' = <<>> /\ queue' = <<>>
        BY <1>1, <1>2, <1>5, <2>1 DEF Quiet
      <3>2. Range(queue') = {} /\ AllOf(Uplink') = {}
        BY <3>1, EmptyPlaces DEF Uplink, Carriers
      <3> QED
        BY <1>10, <3>2
    <2>2. CASE ~CatchingUp /\ x \in Range(queue) \cup AllOf(Uplink)
      <3>1. x \in sent /\ x.serial > floor
        BY <1>2, <1>10, <2>2 DEF Windows
      <3>2. x \notin NewsIn(n)
        BY <1>2, <1>6, <2>2 DEF Apart, OnItsWay
      <3>3. x \in W
        BY <3>1, <3>2 DEF W
      <3> QED
        BY <1>1, <1>6, <2>2, <3>1, <3>3
    <2>3. CASE ~CatchingUp /\ x \in items
      <3>1. x \in W /\ x \notin Newest(m)
        <4>1. x \in W
          BY <1>8, <1>10, <2>3
        <4> QED
          BY <1>6, <2>3, <4>1 DEF Told
      <3>2. x.serial > floor
        <4>1. serial \in Nat /\ floor \in 0 .. serial - 1 /\ x.serial >= serial
          BY <1>2, <1>3, <1>10, <2>3 DEF Typed
        <4>2. x.serial \in Int
          <5>1. items \in SUBSET Input
            BY Sending DEF items
          <5> QED
            BY <2>3, <5>1 DEF Input
        <4> QED
          BY <4>1, <4>2
      <3> QED
        BY <1>1, <2>3, <3>1, <3>2
    <2> QED
      BY <1>1, <1>4, <1>10, <2>1, <2>2, <2>3
  <1> QED
    BY <1>1, <1>7, <1>9, <1>10 DEF Windows

LEMMA TurnQuiet ==
  ASSUME IInv, NEW n \in 0 .. Len(down), NEW k \in 0 .. Len(outbox), NEW m, Turn(n, k, m)
  PROVE  Quiet' /\ Apart' /\ Counted'
  <1>1. /\ m \in 0 .. Len(unplayed) /\ unplayed' = Behind(unplayed, m) /\ frozen' = frozen
        /\ history' = Less(history, m) /\ down' = Behind(down, n) /\ queue' = queue /\ inbox' = inbox
        /\ attached' = attached /\ link' = link /\ breaks' = breaks
        /\ up' = (IF attached THEN up \o Frames(Batch(k)) ELSE up)
        /\ CatchingUp => k = 0
        /\ sent' \subseteq (sent \ NewsIn(n)) \cup Leaving(k)
        /\ inFlight' = IF Resumes(m) THEN 0
                       ELSE Less(Less(inFlight, Commands(NewsIn(n))) + Commands(Range(Batch(k))), Acknowledged(Newest(m)))
    BY DEF Turn, server
  <1>2. Quiet /\ Typed /\ Apart /\ Counted
    BY DEF IInv
  <1>3. /\ m <= history => Late' = Late
        /\ history' \in 0 .. Len(unplayed')
    BY <1>1, Playing
  <1>4. ToldOnce(down)' /\ Sized(NewsIn(n))
    BY <1>1, Hearing
  <1>5. /\ News' = News \ NewsIn(n)
        /\ OnItsWay' \subseteq OnItsWay \cup Range(Batch(k)) /\ Told \cap Range(Batch(k)) = {}
    BY TurnPlaces
  <1>6. k = 0 => up' = up
    BY TurnUplink
  <1>7. Counted'
    BY <1>1, <1>2 DEF Counted
  <1>8. Apart'
    <2>1. News' \cap OnItsWay' = {}
      BY <1>2, <1>5 DEF Apart, Told
    <2> QED
      BY <1>4, <2>1 DEF Apart, ToldOnce
  <1>9. history \in Nat /\ m \in Nat
    <2>1. unplayed \in Seq(Seq(Input)) /\ history \in 0 .. Len(unplayed)
      BY <1>2 DEF Typed
    <2> QED
      BY <1>1, <2>1, SeqElements
  <1>10. CatchingUp' => CatchingUp /\ m <= history /\ ~Resumes(m)
    BY <1>1, <1>9 DEF CatchingUp, Less, Resumes
  <1>11. ASSUME CatchingUp'
         PROVE  /\ up' = <<>> /\ queue' = <<>> /\ News' = {}
                /\ inFlight' = 0 /\ sent' = {}
                /\ Commands(Late') <= CapPerTick
    <2>1. CatchingUp /\ m <= history /\ ~Resumes(m) /\ k = 0
      BY <1>1, <1>10, <1>11
    <2>2. up = <<>> /\ queue = <<>> /\ News = {} /\ inFlight = 0 /\ sent = {} /\ Commands(Late) <= CapPerTick
      BY <1>2, <2>1 DEF Quiet
    <2>3. Batch(k) = <<>>
      BY <2>1, Sending
    <2>4. Range(Batch(k)) = {}
      BY <2>3, EmptyPlaces
    <2>5. Commands(Range(Batch(k))) = 0 /\ Leaving(k) = {}
      BY <2>4, EmptyPlaces DEF Leaving
    <2>6. Commands(NewsIn(n)) \in Nat
      BY <1>4, CountTypes
    <2>7. Less(0, Commands(NewsIn(n))) = 0
      BY <2>6 DEF Less
    <2>8. Acknowledged(Newest(m)) = 0
      BY <2>1 DEF Acknowledged
    <2>9. inFlight' = Less(0 + 0, 0)
      BY <1>1, <2>1, <2>2, <2>5, <2>7, <2>8
    <2>10. inFlight' = 0
      BY <2>9 DEF Less
    <2>11. sent' = {}
      BY <1>1, <2>2, <2>5
    <2> QED
      BY <1>1, <1>3, <1>5, <1>6, <2>1, <2>2, <2>10, <2>11
  <1>12. ~attached => up' = <<>> /\ queue' = <<>>
    BY <1>1, <1>2 DEF Quiet
  <1>13. Commands(AllOf(frozen')) <= CapPerTick
    BY <1>1, <1>2 DEF Quiet
  <1>14. breaks = 0 => link' /\ ~CatchingUp'
    <2>1. breaks = 0 => link /\ ~CatchingUp
      BY <1>2 DEF Quiet
    <2> QED
      BY <1>1, <1>10, <2>1
  <1>15. Quiet'
    BY <1>1, <1>11, <1>12, <1>13, <1>14 DEF Quiet
  <1> QED
    BY <1>7, <1>8, <1>15

LEMMA TurnCovers ==
  ASSUME IInv, NEW n \in 0 .. Len(down), NEW k \in 0 .. Len(outbox), NEW m, Turn(n, k, m)
  PROVE  WindowCovers' /\ NothingLeaks'
  <1> DEFINE items == Range(Batch(k))
             newest == Newest(m)
             D == NewsIn(n)
  <1>1. /\ attached' = attached /\ link' = link /\ breaks' = breaks /\ link
        /\ sent' \subseteq (sent \ D) \cup Leaving(k)
        /\ ~CatchingUp => sent' = ((sent \ D) \cup Leaving(k)) \ newest
        /\ Resumes(m) => sent' = {}
        /\ inFlight' = IF Resumes(m) THEN 0
                       ELSE Less(Less(inFlight, Commands(D)) + Commands(items), Acknowledged(newest))
        /\ m \in 0 .. Len(unplayed) /\ unplayed' = Behind(unplayed, m) /\ frozen' = frozen
        /\ history' = Less(history, m) /\ down' = Behind(down, n) /\ queue' = queue
        /\ CatchingUp => k = 0
    BY DEF Turn, server
  <1>2. Typed /\ Quiet /\ NewsPlaced /\ Apart /\ WindowCovers /\ NothingLeaks
    BY NewsPlacedOf DEF IInv, Apart
  <1>3. /\ newest \subseteq OnItsWay /\ D \subseteq News
        /\ OnItsWay' = (OnItsWay \ newest) \cup IF attached THEN items ELSE {}
        /\ News' = News \ D /\ Told \cap items = {}
    BY TurnPlaces
  <1>4. Outstanding = OnItsWay \cup News /\ Outstanding' = OnItsWay' \cup News'
    <2>1. Typed' /\ Apart'
      BY TurnTyped, TurnQuiet
    <2>2. NewsPlaced'
      BY <2>1, NewsPlacedNext DEF Apart
    <2> QED
      BY <1>2, <2>2 DEF NewsPlaced
  <1>5. Sized(items)
    BY Sending
  <1>6. Leaving(k) \subseteq items
    BY DEF Leaving
  <1> HIDE DEF items, newest, D
  <1>7. ASSUME Conversing', ~CatchingUp
        PROVE  /\ Commands(Outstanding') <= inFlight' + (IF breaks' = 0 THEN 0 ELSE CapPerTick)
               /\ inFlight' <= Commands(Outstanding') /\ sent' \subseteq Outstanding'
    <2> DEFINE R == (Outstanding \ newest) \ D
    <2>1. attached /\ Conversing
      BY <1>1, <1>7 DEF Conversing
    <2>2. Outstanding' = R \cup items /\ R \cap items = {} /\ newest \cap D = {}
      <3>1. News \cap OnItsWay = {}
        BY <1>2 DEF Apart
      <3>2. Outstanding \cap items = {}
        BY <1>3, <1>4 DEF Told
      <3> QED
        BY <1>3, <1>4, <2>1, <3>1, <3>2
    <2>3. Sized(R) /\ Sized(newest) /\ Sized(D)
      <3>1. /\ R \subseteq Outstanding /\ newest \subseteq Outstanding /\ D \subseteq Outstanding
            /\ Sized(Outstanding)
        BY <1>2, <1>3, <1>4 DEF NewsPlaced
      <3> QED
        BY <3>1, CountFewer
    <2>4. Commands(Outstanding') = Commands(R) + Commands(items)
      BY <1>5, <2>2, <2>3, CountSplit
    <2>5. Commands(Outstanding) = Commands(newest) + Commands(D) + Commands(R)
      <3> DEFINE V == newest \cup D
      <3>1. Sized(V) /\ Commands(V) = Commands(newest) + Commands(D)
        BY <2>2, <2>3, CountSplit
      <3>2. V \cap R = {} /\ V \cup R = Outstanding
        BY <1>3, <1>4
      <3> HIDE DEF V, R
      <3>3. Commands(V \cup R) = Commands(V) + Commands(R)
        BY <2>3, <3>1, <3>2, CountSplit
      <3> QED
        BY <3>1, <3>2, <3>3
    <2> HIDE DEF R
    <2>6. /\ Commands(R) \in Nat /\ Commands(items) \in Nat /\ Commands(newest) \in Nat /\ Commands(D) \in Nat
      BY <1>5, <2>3, CountTypes
    <2>7. inFlight' = Less(Less(inFlight, Commands(D)) + Commands(items), Commands(newest))
      BY <1>1, <1>7 DEF Resumes, Acknowledged
    <2>8. inFlight \in Nat
      BY <1>2 DEF Typed
    <2>9. /\ Commands(Outstanding) <= inFlight + (IF breaks = 0 THEN 0 ELSE CapPerTick)
          /\ inFlight <= Commands(Outstanding) /\ sent \subseteq Outstanding
      BY <1>2, <2>1 DEF WindowCovers, NothingLeaks
    <2>10. sent' \subseteq Outstanding'
      BY <1>1, <1>6, <1>7, <2>2, <2>9 DEF R
    <2>11. breaks' = breaks
      BY <1>1
    <2> DEFINE slack == IF breaks = 0 THEN 0 ELSE CapPerTick
    <2>12. slack \in Nat /\ Commands(Outstanding) \in Nat
      BY <2>5, <2>6
    <2> HIDE DEF slack
    <2>13. Commands(Outstanding) <= inFlight + slack
      BY <2>9 DEF slack
    <2>14. Commands(Outstanding') <= inFlight' + slack /\ inFlight' <= Commands(Outstanding')
      <3> DEFINE out == Commands(Outstanding)
                 next == Commands(Outstanding')
                 r == Commands(R)
                 b == Commands(items)
                 w == Commands(newest)
                 d == Commands(D)
      <3>1. /\ r \in Nat /\ b \in Nat /\ w \in Nat /\ d \in Nat /\ inFlight \in Nat /\ slack \in Nat
            /\ out = w + d + r /\ next = r + b /\ out <= inFlight + slack /\ inFlight <= out
            /\ inFlight' = Less(Less(inFlight, d) + b, w)
        BY <2>4, <2>5, <2>6, <2>7, <2>8, <2>9, <2>12, <2>13
      <3> HIDE DEF out, next, r, b, w, d
      <3>2. next <= inFlight' + slack /\ inFlight' <= next
        BY <3>1 DEF Less
      <3> QED
        BY <3>2 DEF next
    <2> QED
      BY <2>10, <2>11, <2>14 DEF slack
  <1>8. ASSUME Conversing', CatchingUp
        PROVE  /\ Commands(Outstanding') <= inFlight' + (IF breaks' = 0 THEN 0 ELSE CapPerTick)
               /\ inFlight' <= Commands(Outstanding') /\ sent' \subseteq Outstanding'
    <2>1. history \in Nat /\ m \in Nat /\ Len(unplayed) \in Nat
      <3>1. unplayed \in Seq(Seq(Input)) /\ history \in 0 .. Len(unplayed)
        BY <1>2 DEF Typed
      <3> QED
        BY <1>1, <3>1, SeqElements
    <2>2. m >= history
      BY <1>1, <1>8, <2>1 DEF Conversing, CatchingUp, Less
    <2>3. Resumes(m)
      BY <1>8, <2>2 DEF Resumes
    <2>4. inFlight' = 0 /\ sent' = {}
      BY <1>1, <2>3
    <2>5. /\ up = <<>> /\ queue = <<>> /\ News = {} /\ Commands(Late) <= CapPerTick /\ breaks # 0
      BY <1>2, <1>8 DEF Quiet
    <2>6. k = 0
      BY <1>1, <1>8
    <2>7. up' = <<>> /\ queue' = <<>>
      <3>1. up' = up
        BY <2>6, TurnUplink
      <3> QED
        BY <1>1, <2>5, <3>1
    <2>8. Outstanding' = AllOf(Streamed')
      <3>1. Uplink' = <<>>
        BY <2>7 DEF Uplink
      <3>2. AllOf(Uplink') = {} /\ Range(queue') = {}
        BY <2>7, <3>1, EmptyPlaces
      <3>3. OnItsWay' = AllOf(Streamed')
        BY <3>2 DEF OnItsWay
      <3> QED
        BY <1>3, <1>4, <2>5, <3>3
    <2>9. AllOf(Streamed') \subseteq Late
      BY <1>1, <2>2, Playing
    <2>10. Sized(Late)
      <3>1. /\ unplayed \in Seq(Seq(Input)) /\ history \in 0 .. Len(unplayed)
        BY <1>2 DEF Typed
      <3>2. Behind(unplayed, history) \in Seq(Seq(Input))
        BY <3>1, PartsOf
      <3>3. Sized(AllOf(Behind(unplayed, history))) /\ Sized(AllOf(frozen))
        BY <1>2, <3>2, RunsSized DEF Typed
      <3> QED
        BY <3>3, FS_Union DEF Late, Sized
    <2>11. /\ Commands(Outstanding') <= Commands(Late) /\ Sized(Outstanding')
      BY <2>8, <2>9, <2>10, CountFewer
    <2>12. Commands(Outstanding') \in Nat /\ Commands(Late) \in Nat
      BY <2>10, <2>11, CountTypes
    <2>13. breaks' # 0
      BY <1>1, <2>5
    <2> QED
      BY <2>4, <2>5, <2>11, <2>12, <2>13
  <1> QED
    BY <1>7, <1>8 DEF WindowCovers, NothingLeaks

LEMMA StepKeeps ==
  ASSUME IInv, NEW n \in 0 .. Len(down), NEW k \in 0 .. Len(outbox), NEW m \in 0 .. got + n,
         Step(n, k, m)
  PROVE  IInv'
  <1>1. Turn(n, k, m)
    BY TurnTaken
  <1>2. Typed' /\ TicksInStep'
    BY <1>1, TurnTyped
  <1>3. Numbering' /\ Ordering' /\ Windows'
    BY <1>1, TurnNumbering, TurnOrdering, TurnWindows
  <1>4. Shaped(up)' /\ Staged'
    BY <1>1, TurnUplink
  <1>5. Quiet' /\ Apart' /\ Counted'
    BY <1>1, TurnQuiet
  <1>6. WindowCovers' /\ NothingLeaks'
    BY <1>1, TurnCovers
  <1> QED
    BY <1>2, <1>3, <1>4, <1>5, <1>6 DEF IInv

-----------------------------------------------------------------------------
(* Every step keeps the invariant, and the invariant says what is claimed. *)

LEMMA StutterKeeps ==
  ASSUME IInv, UNCHANGED vars
  PROVE  IInv'
  <1>1. /\ UNCHANGED <<issued, outbox, credit, unsettled, inFlight, sent, serial, link, got, history, breaks>>
        /\ UNCHANGED <<up, down, attached, queue, inbox, floor, frozen, unplayed, played>>
    BY DEF vars, client, stream, server
  <1>2. /\ Streamed' = Streamed /\ Uplink' = Uplink
    BY <1>1 DEF Streamed, Uplink
  <1>3. OnItsWay' = OnItsWay /\ News' = News /\ Outstanding' = Outstanding /\ Late' = Late
    BY <1>1, <1>2 DEF OnItsWay, News, Outstanding, NewsIn, Late
  <1>4. Told' = Told
    BY <1>1, <1>3 DEF Told
  <1>5. Typed' /\ TicksInStep'
    BY <1>1 DEF IInv, Typed, TicksInStep
  <1>6. Numbering'
    BY <1>1, <1>4 DEF IInv, Numbering, InSeries, Sorted, Before
  <1>7. Ordering'
    BY <1>1, <1>2, <1>3 DEF IInv, Ordering, Rising, Sorted, Before
  <1>8. Apart' /\ Shaped(up)' /\ Staged' /\ Counted' /\ Windows'
    BY <1>1, <1>2, <1>3 DEF IInv, Apart, ToldOnce, Shaped, InTransaction, Staged, Counted, Windows
  <1>9. Quiet' /\ WindowCovers' /\ NothingLeaks'
    BY <1>1, <1>3 DEF IInv, Quiet, WindowCovers, NothingLeaks, Conversing, CatchingUp
  <1> QED
    BY <1>5, <1>6, <1>7, <1>8, <1>9 DEF IInv

LEMMA NextKeeps == IInv /\ [Next]_vars => IInv'
  <1> SUFFICES ASSUME IInv, [Next]_vars PROVE IInv'
    OBVIOUS
  <1>1. ASSUME NEW bytes \in {0} \cup OrderSizes, Issue(bytes) PROVE IInv'
    BY <1>1, IssueKeeps
  <1>2. ASSUME Reading PROVE IInv'
    <2>1. PICK n \in 0 .. Len(down), k \in 0 .. Len(outbox) : \E m \in 0 .. got + n : Step(n, k, m)
      BY <1>2 DEF Reading
    <2>2. PICK m \in 0 .. got + n : Step(n, k, m)
      BY <2>1
    <2> QED
      BY <2>2, StepKeeps
  <1>3. ASSUME LinkBreaks PROVE IInv'
    BY <1>3, LinkBreaksKeeps
  <1>4. ASSUME Taking PROVE IInv'
    <2>1. PICK refused \in Refusals : TakeCommands(refused) \/ TakeOrderFrame(refused)
      BY <1>4 DEF Taking
    <2>2. refused \in BOOLEAN
      BY DEF Refusals
    <2> QED
      BY <2>1, <2>2, TakeCommandsKeeps, TakeOrderFrameKeeps
  <1>5. ASSUME DropClient PROVE IInv'
    BY <1>5, DropClientKeeps
  <1>6. ASSUME Rejoin PROVE IInv'
    BY <1>6, RejoinKeeps
  <1>7. ASSUME NEW room \in 0 .. TickBytes, CloseTick(room) PROVE IInv'
    BY <1>7, CloseTickKeeps
  <1>8. ASSUME FinishTick PROVE IInv'
    BY <1>8, FinishTickKeeps
  <1>9. CASE UNCHANGED vars
    BY <1>9, StutterKeeps
  <1> QED
    BY <1>1, <1>2, <1>3, <1>4, <1>5, <1>6, <1>7, <1>8, <1>9 DEF Next

LEMMA Invariance == Spec => []IInv
  BY InitHolds, NextKeeps, PTL DEF Spec

LEMMA TypesHold == IInv => TypeOK
  <1> SUFFICES ASSUME IInv PROVE TypeOK
    OBVIOUS
  <1>1. Typed /\ TicksInStep /\ Numbering /\ Windows /\ Counted /\ Places
    BY PlacesOf DEF IInv
  <1>2. /\ unplayed \in Seq(Seq(Input)) /\ frozen \in Seq(Seq(Input)) /\ got \in Nat
        /\ serial \in Nat \ {0} /\ issued \in 0 .. MaxIssued
        /\ Len(unplayed) \in Nat /\ Len(frozen) \in Nat
    BY <1>1, SeqElements DEF Typed
  <1>3. sent \subseteq [n : 1 .. issued, bytes : OrderSizes, serial : 1 .. serial - 1]
    <2> SUFFICES ASSUME NEW x \in sent
                 PROVE  x \in [n : 1 .. issued, bytes : OrderSizes, serial : 1 .. serial - 1]
      OBVIOUS
    <2>1. IsOrder(x) /\ x \in Told /\ x \in Input
      BY <1>1 DEF Windows, Told, Typed
    <2>2. x.n \in 1 .. issued /\ x.serial \in 1 .. serial - 1
      BY <1>1, <2>1 DEF Numbering, InSeries
    <2>3. x.bytes \in OrderSizes
      BY <2>1 DEF Input, IsOrder
    <2>4. x = [n |-> x.n, bytes |-> x.bytes, serial |-> x.serial]
      BY <2>1 DEF Input
    <2> QED
      BY <2>2, <2>3, <2>4
  <1>4. serial \in 1 .. MaxIssued + 1
    <2>1. Orders(Range(outbox)) \in Nat
      BY <1>1, CountTypes DEF Places
    <2>2. serial + Orders(Range(outbox)) <= issued + 1
      BY <1>1 DEF Numbering
    <2> QED
      BY <1>2, <2>1, <2>2
  <1>5. Len(unplayed) \in 0 .. Lead /\ Len(frozen) \in 0 .. 1 /\ got \in 0 .. Len(unplayed)
    <2>1. Len(unplayed) + Len(frozen) <= Lead /\ Len(frozen) <= 1
      BY <1>1 DEF TicksInStep
    <2>2. got + BundlesOf(down, Len(down)) <= Len(unplayed)
      BY <1>1 DEF TicksInStep
    <2>3. BundlesOf(down, Len(down)) \in Nat
      <3>1. Len(down) \in Nat
        BY <1>1, SeqElements DEF Typed
      <3> QED
        BY <3>1, BundlesType
    <2> DEFINE u == Len(unplayed)
               z == Len(frozen)
               b == BundlesOf(down, Len(down))
    <2>4. u \in Nat /\ z \in Nat /\ b \in Nat /\ got \in Nat /\ u + z <= Lead /\ z <= 1 /\ got + b <= u
      BY <1>2, <2>1, <2>2, <2>3
    <2> HIDE DEF u, z, b
    <2>5. u \in 0 .. Lead /\ z \in 0 .. 1 /\ got \in 0 .. u
      BY <2>4
    <2> QED
      BY <2>5 DEF u, z
  <1> QED
    BY <1>1, <1>3, <1>4, <1>5 DEF TypeOK, Typed, Counted

LEMMA OrderHolds == IInv => InOrder
  <1> SUFFICES ASSUME IInv PROVE InOrder
    OBVIOUS
  <1>1. /\ Streamed \in Seq(Seq(Input)) /\ Uplink \in Seq(Seq(Input))
        /\ queue \in Seq(Input) /\ outbox \in Seq(Input)
        /\ Ordering /\ Numbering
    BY PlacesOf DEF IInv, Places, Typed
  <1> DEFINE q == <<queue>>
             o == <<outbox>>
             ab == Streamed \o q
             abc == ab \o Uplink
             all == abc \o o
  <1>2. /\ q \in Seq(Seq(Input)) /\ AllOf(q) = Range(queue) /\ Rising(q)
        /\ o \in Seq(Seq(Input)) /\ AllOf(o) = Range(outbox) /\ Rising(o)
    <2>1. Sorted(queue) /\ Sorted(outbox)
      BY <1>1 DEF Ordering, Numbering
    <2> QED
      BY <1>1, <2>1, AllOfFew, RisingOne
  <1> HIDE DEF q, o
  <1>3. /\ Rising(Streamed) /\ Rising(Uplink)
        /\ Before(AllOf(Streamed), Range(queue)) /\ Before(AllOf(Streamed) \cup Range(queue), AllOf(Uplink))
        /\ Before(OnItsWay, Range(outbox))
        /\ \A x \in OnItsWay \cup Range(outbox) : played < x.n
    BY <1>1 DEF Ordering, Numbering, Before, Told
  <1>4. ab \in Seq(Seq(Input)) /\ AllOf(ab) = AllOf(Streamed) \cup Range(queue) /\ Rising(ab)
    <2>1. ab \in Seq(Seq(Input))
      BY <1>1, <1>2, ConcatProperties
    <2>2. AllOf(ab) = AllOf(Streamed) \cup Range(queue)
      BY <1>1, <1>2, AllOfJoined
    <2>3. Rising(ab)
      BY <1>1, <1>2, <1>3, RisingJoined
    <2> QED
      BY <2>1, <2>2, <2>3
  <1> HIDE DEF ab
  <1>5. abc \in Seq(Seq(Input)) /\ AllOf(abc) = OnItsWay /\ Rising(abc)
    <2>1. abc \in Seq(Seq(Input))
      BY <1>1, <1>4, ConcatProperties
    <2>2. AllOf(abc) = AllOf(ab) \cup AllOf(Uplink)
      BY <1>1, <1>4, AllOfJoined
    <2>3. Rising(abc)
      BY <1>1, <1>3, <1>4, RisingJoined
    <2> QED
      BY <1>4, <2>1, <2>2, <2>3 DEF OnItsWay
  <1> HIDE DEF abc
  <1>6. all \in Seq(Seq(Input)) /\ AllOf(all) = OnItsWay \cup Range(outbox) /\ Rising(all)
    <2>1. all \in Seq(Seq(Input))
      BY <1>2, <1>5, ConcatProperties
    <2>2. AllOf(all) = AllOf(abc) \cup AllOf(o)
      BY <1>2, <1>5, AllOfJoined
    <2>3. Rising(all)
      BY <1>2, <1>3, <1>5, RisingJoined
    <2> QED
      BY <1>2, <1>5, <2>1, <2>2, <2>3
  <1>7. Pipeline = all
    BY DEF Pipeline, all, abc, ab, q, o
  <1> HIDE DEF all
  <1>8. /\ DOMAIN all = 1 .. Len(all) /\ Len(all) \in Nat
        /\ \A i \in DOMAIN all : all[i] \in Seq(Input)
    BY <1>6, SeqElements
  <1>9. ASSUME NEW i \in DOMAIN all, NEW a \in DOMAIN all[i]
        PROVE  /\ played < all[i][a].n
               /\ \A b \in 1 .. a - 1 : all[i][b].n < all[i][a].n
               /\ \A h \in 1 .. i - 1 : \A x \in Range(all[h]) : x.n < all[i][a].n
    <2>1. all[i] \in Seq(Input)
      BY <1>8
    <2>2. DOMAIN all[i] = 1 .. Len(all[i]) /\ Len(all[i]) \in Nat /\ all[i][a] \in Range(all[i])
      BY <2>1, SeqElements
    <2>3. all[i][a] \in AllOf(all)
      BY <2>2 DEF AllOf
    <2>4. played < all[i][a].n
      BY <1>3, <1>6, <2>3
    <2>5. \A b \in 1 .. a - 1 : all[i][b].n < all[i][a].n
      <3> SUFFICES ASSUME NEW b \in 1 .. a - 1 PROVE all[i][b].n < all[i][a].n
        OBVIOUS
      <3>1. b \in DOMAIN all[i] /\ b < a
        BY <2>2
      <3> QED
        BY <1>6, <3>1 DEF Rising, Sorted
    <2>6. \A h \in 1 .. i - 1 : \A x \in Range(all[h]) : x.n < all[i][a].n
      <3> SUFFICES ASSUME NEW h \in 1 .. i - 1, NEW x \in Range(all[h]) PROVE x.n < all[i][a].n
        OBVIOUS
      <3>1. h \in DOMAIN all /\ h < i
        BY <1>8
      <3> QED
        BY <1>6, <2>2, <3>1 DEF Rising, Before
    <2> QED
      BY <2>4, <2>5, <2>6
  <1> QED
    BY <1>7, <1>9 DEF InOrder

LEMMA RoomHolds == IInv => Roomy
  <1> SUFFICES ASSUME IInv, attached, up # <<>>
               PROVE  /\ Head(up).kind = "begin" =>
                           inbox.queued < OrderWindow /\ ~WindowFull(Head(up).items[1].bytes)
                      /\ Head(up).kind = "commands" /\ breaks = 0 => QueueTakes(Len(Head(up).items))
    BY DEF Roomy
  <1> DEFINE f == up[1]
  <1>1. /\ Typed /\ Places /\ Ordering /\ Shaped(up) /\ Counted /\ Windows /\ Quiet /\ NewsPlaced
        /\ WindowCovers
    BY PlacesOf, NewsPlacedOf DEF IInv, Apart
  <1>2. /\ up \in Seq(UpFrame) /\ queue \in Seq(Input) /\ inFlight \in 0 .. QueueCap
        /\ Sized(Range(queue)) /\ Sized(sent)
    BY <1>1 DEF Typed, Places
  <1>3. /\ Head(up) = f /\ f \in UpFrame /\ Carried(f) \in Seq(Input) /\ Sorted(Carried(f))
        /\ Sized(Range(Carried(f))) /\ Range(Carried(f)) \subseteq OnItsWay
        /\ Range(Carried(f)) \cap Range(queue) = {} /\ ~CatchingUp
    BY HeadPlaces
  <1>4. 1 \in DOMAIN up
    BY <1>2, HeadApart
  <1> HIDE DEF f
  <1>5. ASSUME f.kind = "begin"
        PROVE  inbox.queued < OrderWindow /\ ~WindowFull(f.items[1].bytes)
    <2> DEFINE x == f.items[1]
               A == {y \in Range(queue) : IsOrder(y)}
               B == Range(queue) \ A
    <2>1. x \in AllOf(Uplink) /\ IsOrder(x)
      <3>1. x \in AllOf(Carriers(up))
        BY <1>1, <1>2, <1>4, <1>5, FramesOrder DEF f
      <3>2. IsOrder(x)
        BY <1>1, <1>4, <1>5 DEF Shaped, InTransaction, f
      <3> QED
        BY <1>1, <3>1, <3>2 DEF Places
    <2>2. x \in Input /\ x \in sent
      BY <1>1, <2>1 DEF Windows, Places
    <2>3. x \notin Range(queue)
      <3>1. Before(Range(queue), AllOf(Uplink))
        BY <1>1 DEF Ordering
      <3>2. \A y \in Range(queue) : y.n \in Nat
        BY <1>1 DEF Places, Input
      <3> QED
        BY <2>1, <3>1, <3>2, BeforeApart
    <2> HIDE DEF x
    <2>4. A \cup {x} \subseteq sent /\ A \cap {x} = {}
      BY <1>1, <2>2, <2>3 DEF Windows
    <2>5. Sized(A) /\ Sized(B) /\ A \cap B = {} /\ A \cup B = Range(queue)
      <3>1. A \subseteq Range(queue) /\ B \subseteq Range(queue)
        OBVIOUS
      <3>2. A \cap B = {} /\ A \cup B = Range(queue)
        OBVIOUS
      <3> HIDE DEF A, B
      <3> QED
        BY <1>2, <3>1, <3>2, CountFewer
    <2>6. \A y \in B : IsCommand(y)
      <3>1. Range(queue) \subseteq Input
        BY <1>1 DEF Places
      <3> QED
        BY <3>1, CommandOrOrder
    <2>7. Cardinality(A) = Orders(Range(queue)) /\ \A y \in A : IsOrder(y)
      BY DEF Orders
    <2> HIDE DEF A, B
    <2>8. Bytes(Range(queue)) = Bytes(A)
      <3>1. Bytes(A \cup B) = Bytes(A) + Bytes(B)
        BY <2>5, CountSplit
      <3>2. Bytes(B) = 0 /\ Bytes(A) \in Nat
        BY <2>5, <2>6, OnlyCommands, CountTypes
      <3>3. Bytes(Range(queue)) = Bytes(A \cup B)
        BY <2>5
      <3> DEFINE all == Bytes(A \cup B)
                 a == Bytes(A)
      <3>4. all = a + 0 /\ a \in Nat
        BY <3>1, <3>2
      <3> HIDE DEF all, a
      <3>5. all = a
        BY <3>4
      <3> QED
        BY <3>3, <3>5 DEF all, a
    <2>9. Sized({x}) /\ Bytes({x}) = x.bytes /\ x.bytes \in Nat
      <3>1. x.bytes \in Nat
        <4>1. {x} \in SUBSET Input /\ IsFiniteSet({x})
          BY <2>2, FS_Singleton
        <4>2. \A y \in {x} : y.bytes \in Nat
          BY <4>1, InputSized
        <4> QED
          BY <4>2
      <3> QED
        BY <3>1, CountOne
    <2>10. Bytes(A) + x.bytes <= WindowBytes
      <3>1. Bytes(A \cup {x}) = Bytes(A) + Bytes({x})
        BY <2>4, <2>5, <2>9, CountSplit
      <3>2. Bytes(A \cup {x}) <= Bytes(sent)
        BY <1>2, <2>4, CountFewer
      <3>3. Bytes(sent) <= WindowBytes /\ Bytes(sent) \in Nat /\ Bytes(A) \in Nat
        BY <1>1, <1>2, <2>5, CountTypes DEF Windows
      <3> QED
        BY <2>9, <3>1, <3>2, <3>3
    <2>11. Cardinality(A) + 1 <= OrderWindow
      <3>1. IsFiniteSet(A) /\ IsFiniteSet(sent)
        BY <1>2, <2>5 DEF Sized
      <3>2. x \notin A
        BY <2>4
      <3>3. Cardinality(A \cup {x}) = Cardinality(A) + 1
        BY <3>1, <3>2, FS_AddElement
      <3>4. Cardinality(A \cup {x}) <= Cardinality(sent)
        BY <1>2, <2>4, CountFewer
      <3>5. Cardinality(sent) <= OrderWindow /\ Cardinality(sent) \in Nat /\ Cardinality(A) \in Nat
        BY <1>1, <3>1, FS_CardinalityType DEF Windows
      <3> QED
        BY <3>3, <3>4, <3>5
    <2>12. inbox.queued = Cardinality(A) /\ inbox.bytes = Bytes(A)
      BY <1>1, <2>7, <2>8 DEF Counted
    <2>13. Cardinality(A) \in Nat /\ Bytes(A) \in Nat
      BY <2>5, CountTypes, FS_CardinalityType DEF Sized
    <2> QED
      BY <2>9, <2>10, <2>11, <2>12, <2>13 DEF WindowFull, x
  <1>6. ASSUME f.kind = "commands", breaks = 0
        PROVE  QueueTakes(Len(f.items))
    <2> DEFINE Q == Range(queue)
               F == Range(f.items)
    <2>1. f.items = Carried(f)
      BY <1>6 DEF Carried
    <2>2. /\ Sized(Q) /\ Sized(F) /\ Q \cap F = {} /\ Q \cup F \subseteq Outstanding
          /\ Sized(Outstanding) /\ f.items \in Seq(Input) /\ Sorted(f.items)
      BY <1>1, <1>2, <1>3, <2>1 DEF OnItsWay, NewsPlaced
    <2>3. \A x \in F : IsCommand(x)
      BY <1>1, <1>4, <1>6 DEF Shaped, InTransaction, f
    <2>4. \A x \in Input : x.n \in Nat
      BY DEF Input
    <2>5. Len(f.items) = Commands(F) /\ Len(queue) = Cardinality(Q)
      <3>1. Cardinality(F) = Len(f.items)
        BY <2>2, <2>4, SortedLen
      <3>2. Commands(F) = Cardinality(F)
        BY <2>2, <2>3, OnlyCommands
      <3>3. Sorted(queue)
        BY <1>1 DEF Ordering
      <3>4. Cardinality(Q) = Len(queue)
        BY <1>2, <2>4, <3>3, SortedLen
      <3> QED
        BY <3>1, <3>2, <3>4
    <2> HIDE DEF Q, F
    <2>6. /\ Commands(Q) \in Nat /\ Orders(Q) \in Nat /\ Cardinality(Q) = Commands(Q) + Orders(Q)
          /\ Commands(F) \in Nat /\ Commands(Outstanding) \in Nat
      BY <2>2, CountTypes
    <2>7. Commands(Q) + Commands(F) <= Commands(Outstanding)
      <3>1. Commands(Q \cup F) = Commands(Q) + Commands(F)
        BY <2>2, CountSplit
      <3>2. Commands(Q \cup F) <= Commands(Outstanding)
        BY <2>2, CountFewer
      <3> QED
        BY <3>1, <3>2
    <2>8. Commands(Outstanding) <= inFlight
      <3>1. Conversing
        BY <1>1, <1>3, <1>6 DEF Conversing, Quiet
      <3>2. Commands(Outstanding) <= inFlight + 0
        BY <1>1, <1>6, <3>1 DEF WindowCovers
      <3> QED
        BY <1>2, <3>2
    <2>9. Ordinary = Commands(Q)
      <3>1. inbox.queued = Orders(Q)
        BY <1>1 DEF Counted, Q
      <3>2. Min({Len(queue), inbox.queued}) = Orders(Q)
        BY <2>5, <2>6, <3>1, MinOfTwo
      <3> QED
        BY <2>5, <2>6, <3>2 DEF Ordinary
    <2> QED
      BY <1>2, <2>5, <2>6, <2>7, <2>8, <2>9 DEF QueueTakes
  <1> QED
    BY <1>3, <1>5, <1>6

LEMMA FramesHold == IInv => NeverMalformed
  <1> SUFFICES ASSUME IInv, attached, up # <<>> PROVE ~Malformed(Head(up))
    BY DEF NeverMalformed
  <1> DEFINE f == up[1]
  <1>1. /\ Typed /\ Places /\ Shaped(up) /\ Staged /\ Windows
    BY PlacesOf DEF IInv
  <1>2. up \in Seq(UpFrame) /\ inbox \in Inbox /\ floor \in Nat
    BY <1>1 DEF Typed
  <1>3. Head(up) = f /\ f \in UpFrame /\ 1 \in DOMAIN up
    BY <1>2, HeadApart
  <1> HIDE DEF f
  <1>4. CASE f.kind = "begin"
    <2> DEFINE x == f.items[1]
    <2>1. inbox.stage = NoStage /\ x.serial > inbox.last
      BY <1>1, <1>3, <1>4 DEF Staged, f
    <2>2. x \in AllOf(Uplink) /\ IsOrder(x)
      <3>1. x \in AllOf(Carriers(up))
        BY <1>1, <1>2, <1>3, <1>4, FramesOrder DEF f
      <3>2. IsOrder(x)
        BY <1>1, <1>3, <1>4 DEF Shaped, InTransaction, f
      <3> QED
        BY <1>1, <3>1, <3>2 DEF Places
    <2>3. x.serial > floor /\ x.serial \in Nat
      BY <1>1, <2>2 DEF Windows, Places, Input
    <2>4. inbox.last \in Nat
      BY <1>2 DEF Inbox
    <2>5. ~(inbox.stage # NoStage \/ x.serial <= inbox.last \/ x.serial <= floor)
      BY <1>2, <2>1, <2>3, <2>4
    <2> QED
      BY <1>3, <1>4, <2>5 DEF Malformed
  <1>5. CASE f.kind \in {"members", "commit"}
    <2>1. inbox.stage.serial = f.items[1].serial
      BY <1>1, <1>5 DEF Staged, f
    <2> QED
      BY <1>3, <1>5, <2>1 DEF Malformed
  <1>6. CASE f.kind = "commands"
    BY <1>3, <1>6 DEF Malformed
  <1>7. f.kind \in {"commands", "begin", "members", "commit"}
    BY <1>3 DEF UpFrame
  <1> QED
    BY <1>4, <1>5, <1>6, <1>7

(* The client's windows, credit and serials and the server's queue and     *)
(* books keep to their bounds, whatever is dropped, drained or forgotten   *)
(* and however often the link breaks (cmdSendWindow, orderSendWindow,      *)
(* OrderInbox::queued and drained).                                        *)
THEOREM TypeCorrect == Spec => []TypeOK
  BY Invariance, TypesHold, PTL

(* A Stop never overtakes a Move: along the outbox, the frames under way,  *)
(* the player's queue and the ticks, what the player issued stays in the   *)
(* order of issue, and nothing is there twice (the outbox flush of         *)
(* gameview_net.cpp, Server::closeTick).                                   *)
THEOREM InputInOrder == Spec => []InOrder
  BY Invariance, OrderHolds, PTL

(* While the two converse, the client counts every command that is         *)
(* outstanding, except as many as one tick takes after a reconnect         *)
(* (cmdInFlight_).                                                         *)
THEOREM WindowsCover == Spec => []WindowCovers
  <1>1. IInv => WindowCovers
    BY DEF IInv
  <1> QED
    BY <1>1, Invariance, PTL

(* No window stays shut over input that is nowhere any more: what the      *)
(* client counts is on its way, or the notice that it was dropped is.      *)
THEOREM WindowsClose == Spec => []NothingLeaks
  <1>1. IInv => NothingLeaks
    BY DEF IInv
  <1> QED
    BY <1>1, Invariance, PTL

(* An order the client's window lets go finds room in the server's inbox,  *)
(* and so do commands in the queue while the first connection lasts.       *)
THEOREM RoomIsFound == Spec => []Roomy
  BY Invariance, RoomHolds, PTL

(* The server never takes an honest client's frame for a broken one, which *)
(* would cost it the connection: OrderBegin's serial is above everything   *)
(* staged and everything drained, and the frames of an order find its      *)
(* stage (OrderInbox::frame).                                              *)
THEOREM FramesWellFormed == Spec => []NeverMalformed
  BY Invariance, FramesHold, PTL
=============================================================================
