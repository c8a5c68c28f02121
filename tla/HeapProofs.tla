----------------------------- MODULE HeapProofs -----------------------------
(***************************************************************************)
(* Theorems about Heap: objects tile the heap whatever their words are,    *)
(* references lead to objects, a collection takes back the rest, and the   *)
(* words are the objects of ObjectHeap.                                    *)
(***************************************************************************)
EXTENDS HeapObjects, WellFoundedInduction, FiniteSetTheorems, SequenceTheorems, TLAPS

(***************************************************************************)
(* The shape of the heap.  A walk meets every place of a set that tiles    *)
(* the heap, each at the end of the one before.                            *)
(***************************************************************************)
Tiling(W) ==
  /\ W \subseteq Bottom .. Top
  /\ Bottom \in W
  /\ Top \in W
  /\ \A p \in W \ {Top} : /\ Extent(p) \in Nat \ {0}
                          /\ p + Extent(p) \in W
                          /\ \A q \in W : p < q => p + Extent(p) <= q

Tiled ==
  /\ memory \in [GlobalVariables .. Top - 1 -> Int]
  /\ Tiling(Walk)
  /\ \A p \in Walk : p % 2 = 0
  /\ \A o \in Objects : /\ Kind(o) \in {HashTableKind, RefArrayKind, StringKind}
                        /\ Kind(o) # HashTableKind => size_(o) \in Nat

\* The objects that are not about to be swept.
Live == IF phase = "sweep" THEN marked ELSE Objects

Tables == {GlobalVariables} \cup {o \in Live : Kind(o) = HashTableKind}

Arrays == {o \in Live : Kind(o) = RefArrayKind}

Good(v) == \/ v = Nil
           \/ v \in {INTEGER} \X Int
           \/ v \in {OBJECT} \X (Live \ Arrays)

SoundTable(t) ==
  backingArray_(t) # Null =>
    /\ backingArray_(t) \in Arrays
    /\ size_(backingArray_(t)) = size_(t)
    /\ remainingCapacity_(t) \in Nat

HeapSound ==
  /\ Tiled
  /\ Kind(GlobalVariables) = HashTableKind
  /\ \A t \in Tables : SoundTable(t)
  /\ \A t, u \in Tables :
       t # u /\ backingArray_(t) # Null => backingArray_(t) # backingArray_(u)
  /\ \A a \in Arrays : \A i \in Indices(a) : Good(Key(a, i)) /\ Good(Val(a, i))

LocalsSound ==
  /\ self \in {Null} \cup Tables
  /\ old \in {Null} \cup Arrays
  /\ Good(idx)
  /\ Good(result)
  /\ tbl \in {Null, Dangling} \cup Tables

ControlSound ==
  /\ sz \in Nat
  /\ pc \in {"run", "initialize", "rehash", "aborted"}
  /\ fault \in Faults \cup {"none"}
  /\ pc = "run" => self = Null /\ old = Null
  /\ pc \in {"initialize", "rehash"} => self # Null
  /\ pc = "initialize" => /\ backingArray_(self) = old
                          /\ old # Null => sz = 2 * size_(old)
  /\ pc = "rehash" => /\ old # Null
                      /\ backingArray_(self) # old
                      /\ sz = 2 * size_(old)
                      /\ size_(self) = sz
  /\ pc \in {"rehash", "aborted"} => phase = "idle"

CodeSound == code \in Seq(Instruction)

\* Whatever the roots are in, and what is marked refers into, has all marks.
MarksLeast ==
  \A T : Roots \subseteq T /\ (\A o \in T \cap marked : Edges(o) \subseteq T) => marked \subseteq T

MarksSound ==
  /\ phase \in {"idle", "mark", "sweep"}
  /\ collected \in BOOLEAN
  /\ phase = "idle" => marked = {} /\ work = {} /\ at = Bottom
  /\ phase # "idle" => /\ result = Nil
                       /\ Roots \subseteq marked
                       /\ marked \subseteq Objects
                       /\ work \subseteq marked
                       /\ \A o \in marked \ work : Edges(o) \subseteq marked
                       /\ MarksLeast
  /\ phase = "mark" => at = Bottom
  /\ phase = "sweep" => /\ work = {}
                        /\ at \in Walk
                        /\ \A o \in Objects : o < at => o \in marked

Inv == HeapSound /\ LocalsSound /\ ControlSound /\ CodeSound /\ MarksSound

-----------------------------------------------------------------------------
(* Sizes. *)

LEMMA Layout ==
  /\ Bottom .. Top \subseteq Nat
  /\ Bottom \in Bottom .. Top
  /\ Top \in Bottom .. Top
  /\ Bottom < Top
  /\ Bottom = 8
  /\ Top \in Nat
  /\ GlobalVariables = 2
  /\ Null = 0
BY SizesAssumption, SMT DEF Bottom, GlobalVariables, Null

LEMMA StringLayout ==
  ASSUME NEW n \in Nat
  PROVE  /\ Align(Align(SizeOfString + n, 16), 16) = StringBytes(n)
         /\ Words(StringBytes(n)) \in Nat
         /\ Words(StringBytes(n)) % 2 = 0
         /\ Words(StringBytes(n)) >= 4
         /\ Words(StringBytes(n)) >= 3 + (n + 7) \div 8
BY SMT DEF Align, StringBytes, Words, SizeOfString

LEMMA ArrayLayout ==
  ASSUME NEW n \in Nat
  PROVE  /\ Align(SizeOfRefArray + SizeOfEntry * n, 16) = ArrayBytes(n)
         /\ Words(ArrayBytes(n)) \in Nat
         /\ Words(ArrayBytes(n)) % 2 = 0
         /\ Words(ArrayBytes(n)) >= 4
         /\ Words(ArrayBytes(n)) >= 3 + 5 * n
BY SMT DEF Align, ArrayBytes, Words, SizeOfRefArray, SizeOfEntry

LEMMA TableLayout == /\ Align(SizeOfHashTable, 16) = TableBytes
                     /\ Words(TableBytes) = 6
BY SMT DEF Align, TableBytes, Words, SizeOfHashTable

LEMMA ObjectLayout ==
  \A o : /\ Kind(o) = HashTableKind => ~IsHole(o) /\ Extent(o) = 6
         /\ Kind(o) = RefArrayKind =>
              /\ ~IsHole(o)
              /\ Extent(o) = Words(ArrayBytes(size_(o)))
         /\ Kind(o) = StringKind /\ size_(o) \in Nat =>
              /\ ~IsHole(o)
              /\ Extent(o) = Words(StringBytes(size_(o)))
<1>1. ASSUME NEW o, Kind(o) = HashTableKind
      PROVE  ~IsHole(o) /\ Extent(o) = 6
  BY <1>1, TableLayout DEF Kind, HashTableKind, RefArrayKind, StringKind, IsHole, Extent, Size,
     getTotalFootprintInBytes, getObjectSizeInBytesWithHeader
<1>2. ASSUME NEW o, Kind(o) = RefArrayKind
      PROVE  ~IsHole(o) /\ Extent(o) = Words(ArrayBytes(size_(o)))
  BY <1>2 DEF Kind, HashTableKind, RefArrayKind, StringKind, IsHole, Extent, Size,
     getTotalFootprintInBytes, getObjectSizeInBytesWithHeader, ArraySize, ArrayBytes
<1>3. ASSUME NEW o, Kind(o) = StringKind, size_(o) \in Nat
      PROVE  ~IsHole(o) /\ Extent(o) = Words(StringBytes(size_(o)))
  BY <1>3, StringLayout DEF Kind, HashTableKind, RefArrayKind, StringKind, IsHole, Extent, Size,
     getTotalFootprintInBytes, getObjectSizeInBytesWithHeader, StringSize
<1> QED BY <1>1, <1>2, <1>3

LEMMA ObjectLayoutNext ==
  (\A o : /\ Kind(o) = HashTableKind => ~IsHole(o) /\ Extent(o) = 6
          /\ Kind(o) = RefArrayKind =>
               /\ ~IsHole(o)
               /\ Extent(o) = Words(ArrayBytes(size_(o)))
          /\ Kind(o) = StringKind /\ size_(o) \in Nat =>
               /\ ~IsHole(o)
               /\ Extent(o) = Words(StringBytes(size_(o))))'
BY ObjectLayout, PTL

-----------------------------------------------------------------------------
(* Walks. *)

Ends(p) == p = Top \/ p + Extent(p) \notin Bottom .. Top

LEMMA WalkUnfolds ==
  \E f : /\ Walk = f[Bottom]
         /\ f = [p \in Bottom .. Top |->
                   IF Ends(p) THEN {p} ELSE {p} \cup f[p + Extent(p)]]
<1> DEFINE Stays(S) == \A p \in S : Ends(p) \/ p + Extent(p) \in S
           F == [p \in Bottom .. Top |->
                   {q \in Bottom .. Top :
                      \A S \in SUBSET (Bottom .. Top) : p \in S /\ Stays(S) => q \in S}]
           E(g) == [p \in Bottom .. Top |->
                      IF Ends(p) THEN {p} ELSE {p} \cup g[p + Extent(p)]]
<1>1. ASSUME NEW p \in Bottom .. Top
      PROVE  F[p] = IF Ends(p) THEN {p} ELSE {p} \cup F[p + Extent(p)]
  <2>1. CASE Ends(p)
    <3>1. {p} \in SUBSET (Bottom .. Top) /\ Stays({p})
      BY <2>1
    <3>2. F[p] \subseteq {p}
      BY <3>1
    <3> QED BY <3>2, <2>1
  <2>2. CASE ~Ends(p)
    <3> DEFINE n == p + Extent(p)
    <3>1. n \in Bottom .. Top
      BY <2>2 DEF Ends
    <3>2. F[n] \subseteq F[p]
      BY <2>2, <3>1
    <3>3. ASSUME NEW q \in F[p], q # p
          PROVE  q \in F[n]
      <4>1. ASSUME NEW S \in SUBSET (Bottom .. Top), n \in S, Stays(S)
            PROVE  q \in S
        <5>1. Stays(S \cup {p}) /\ S \cup {p} \in SUBSET (Bottom .. Top)
          BY <4>1
        <5> HIDE DEF n
        <5>2. q \in S \cup {p}
          BY <5>1, <3>3
        <5> QED BY <5>2, <3>3
      <4> QED BY <4>1, <3>1, <3>3
    <3> QED BY <3>1, <3>2, <3>3, <2>2
  <2> QED BY <2>1, <2>2
<1>2. F = E(F)
  BY <1>1
<1> DEFINE c == CHOOSE g : g = E(g)
<1>3. c = E(c)
  <2> HIDE DEF E, F
  <2> QED BY <1>2
<1>4. Walk = c[Bottom]
  BY DEF Walk, Ends
<1> QED BY <1>3, <1>4

LEMMA LeastNatural ==
  ASSUME NEW S \in SUBSET Nat, S # {}
  PROVE  \E n \in S : \A m \in S : n <= m
<1>1. IsWellFoundedOn(OpToRel(<, Nat), Nat)
  BY NatLessThanWellFounded
<1>2. PICK n \in S : \A m \in S : <<m, n>> \notin OpToRel(<, Nat)
  BY <1>1, WFMin
<1>3. \A m \in S : ~(m < n)
  BY <1>2 DEF OpToRel
<1> QED BY <1>3

LEMMA TilingIsWalk == \A W : Tiling(W) => Walk = W
<1> SUFFICES ASSUME NEW W, Tiling(W)
             PROVE  Walk = W
  OBVIOUS
<1>0. W \subseteq Int /\ Bottom \in Int /\ Top \in Int /\ \A q \in W : Bottom <= q /\ q <= Top
  BY Layout DEF Tiling
<1>1. PICK f : /\ Walk = f[Bottom]
               /\ f = [p \in Bottom .. Top |->
                         IF Ends(p) THEN {p} ELSE {p} \cup f[p + Extent(p)]]
  BY WalkUnfolds
<1>2. ASSUME NEW p \in W, p # Top
      PROVE  f[p] = {p} \cup f[p + Extent(p)]
  BY <1>1, <1>2 DEF Tiling, Ends
<1>3. f[Top] = {Top}
  BY <1>1, Layout DEF Ends
<1>4. ASSUME NEW p \in W
      PROVE  f[p] = {q \in W : q >= p}
  <2> DEFINE B == {n \in Nat : \E q \in W : n = Top - q /\ f[q] # {r \in W : r >= q}}
  <2>1. SUFFICES ASSUME B # {}
                 PROVE  FALSE
    <3>1. Top - p \in Nat
      BY <1>0
    <3>2. Top - p \notin B => f[p] = {q \in W : q >= p}
      BY <3>1
    <3> HIDE DEF B
    <3> QED BY <3>2
  <2>2. PICK n \in B : \A m \in B : n <= m
    <3>1. B \subseteq Nat
      OBVIOUS
    <3> HIDE DEF B
    <3> QED BY <2>1, <3>1, LeastNatural
  <2>3. PICK q \in W : n = Top - q /\ f[q] # {r \in W : r >= q}
    BY <2>2
  <2>4. q # Top
    <3>1. {r \in W : r >= Top} = {Top}
      <4>1. ASSUME NEW r \in W
            PROVE  r >= Top <=> r = Top
        BY <1>0
      <4> QED BY <4>1 DEF Tiling
    <3> QED BY <1>3, <2>3, <3>1
  <2> DEFINE t == q + Extent(q)
  <2>5. t \in W /\ t > q /\ \A r \in W : q < r => t <= r
    BY <2>4, Layout DEF Tiling
  <2>6. f[t] = {r \in W : r >= t}
    <3>1. Top - t \notin B
      <4> HIDE DEF t, B
      <4>1. Top - t < n
        BY <2>3, <2>5, Layout DEF Tiling
      <4>2. n \in Nat /\ Top - t \in Int
        BY <2>2, <2>5, Layout DEF B, Tiling
      <4> QED BY <2>2, <4>1, <4>2
    <3>2. Top - t \in Nat
      <4> HIDE DEF t
      <4> QED BY <2>5, Layout DEF Tiling
    <3> QED BY <2>5, <3>1, <3>2
  <2>7. {r \in W : r >= q} = {q} \cup {r \in W : r >= t}
    <3>1. t \in Int /\ q \in Int
      BY <1>0, <2>5
    <3> HIDE DEF t
    <3>2. ASSUME NEW r \in W
          PROVE  r >= q <=> r = q \/ r >= t
      BY <1>0, <2>5, <3>1
    <3> QED BY <2>5, <3>2
  <2>8. f[q] = {q} \cup f[t]
    BY <1>2, <2>4
  <2> QED BY <2>3, <2>6, <2>7, <2>8
<1>5. {q \in W : q >= Bottom} = W
  BY <1>0
<1> QED BY <1>1, <1>4, <1>5 DEF Tiling

LEMMA TilingIsWalkNext == (\A W : Tiling(W) => Walk = W)'
BY TilingIsWalk, PTL

\* Nothing moves.
LEMMA WalkStays ==
  ASSUME Tiled, \A p \in Walk \ {Top} : Extent(p)' = Extent(p)
  PROVE  Walk' = Walk /\ Tiling(Walk)'
<1>1. PICK W : W = Walk
  OBVIOUS
<1>2. Tiling(W)'
  BY <1>1 DEF Tiled, Tiling
<1>3. Walk' = W
  BY <1>2, TilingIsWalkNext
<1> QED BY <1>1, <1>2, <1>3 DEF Tiling

\* What lies at p is split into its first n words and the rest.
LEMMA WalkSplit ==
  ASSUME Tiled, NEW p \in Walk \ {Top}, NEW n \in Nat \ {0}, n <= Extent(p), n % 2 = 0,
         Extent(p)' = n,
         n < Extent(p) => Extent(p + n)' = Extent(p) - n,
         \A q \in Walk \ {Top, p} : Extent(q)' = Extent(q)
  PROVE  /\ Walk' = Walk \cup {p + n}
         /\ Tiling(Walk)'
         /\ \A q \in Walk' : q % 2 = 0
<1> DEFINE e == p + n
<1>1. PICK W : W = Walk \cup {e}
  OBVIOUS
<1>2. /\ Walk \subseteq Int
      /\ e \in Int /\ p \in Int /\ Top \in Int /\ Bottom \in Int /\ Extent(p) \in Int
      /\ Extent(p) > 0
      /\ p + Extent(p) \in Walk
      /\ e > p /\ e <= p + Extent(p)
      /\ \A q \in Walk : Bottom <= q /\ q <= Top
      /\ \A q \in Walk : p < q => p + Extent(p) <= q
  BY Layout DEF Tiled, Tiling
<1>3. e = p + Extent(p) <=> n = Extent(p)
  BY <1>2
<1>4. n < Extent(p) => e \notin Walk /\ e < Top
  <2>1. ASSUME n < Extent(p)
        PROVE  e < p + Extent(p)
    BY <1>2, <2>1
  <2> HIDE DEF e
  <2> QED BY <1>2, <2>1
<1>5. ASSUME NEW q \in W \ {Top}
      PROVE  /\ Extent(q)' \in Nat \ {0}
             /\ q + Extent(q)' \in W
             /\ \A r \in W : q < r => q + Extent(q)' <= r
  <2>1. CASE q = p
    <3>1. ASSUME NEW r \in Walk, p < r
          PROVE  e <= r
      <4> HIDE DEF e
      <4> QED BY <1>2, <3>1
    <3> QED BY <1>1, <1>2, <2>1, <3>1
  <2>2. CASE q \in Walk /\ q # p
    <3>1. /\ Extent(q)' = Extent(q) /\ Extent(q) \in Nat \ {0} /\ q + Extent(q) \in Walk
          /\ \A r \in Walk : q < r => q + Extent(q) <= r
      BY <2>2, <1>5 DEF Tiled, Tiling
    <3>2. q < e => q + Extent(q) <= e
      <4>1. ASSUME q < e
            PROVE  q < p
        <5> HIDE DEF e
        <5>1. ~(p < q)
          BY <1>2, <1>3, <1>4, <2>2, <4>1
        <5> QED BY <1>2, <2>2, <5>1
      <4>2. ASSUME q < p
            PROVE  q + Extent(q) <= e
        <5> HIDE DEF e
        <5>1. q + Extent(q) <= p
          BY <3>1, <4>2
        <5>2. q + Extent(q) \in Int /\ p < e
          BY <1>2, <3>1
        <5> QED BY <1>2, <5>1, <5>2
      <4> QED BY <4>1, <4>2
    <3> QED BY <1>1, <3>1, <3>2
  <2>3. CASE q = e /\ e \notin Walk
    <3>1. n < Extent(p)
      BY <1>2, <1>3, <2>3
    <3>2. Extent(e)' = Extent(p) - n /\ Extent(e)' \in Nat \ {0}
      BY <1>2, <3>1
    <3>3. e + (Extent(p) - n) = p + Extent(p)
      BY <1>2
    <3>4. ASSUME NEW r \in Walk, e < r
          PROVE  p + Extent(p) <= r
      <4> HIDE DEF e
      <4> QED BY <1>2, <3>4
    <3> HIDE DEF e
    <3> QED BY <1>1, <1>2, <2>3, <3>2, <3>3, <3>4
  <2> QED BY <1>1, <2>1, <2>2, <2>3
<1>6. Tiling(W)'
  <2>1. e \in Bottom .. Top
    <3> HIDE DEF e
    <3> QED BY <1>2, Layout
  <2> QED BY <1>1, <1>5, <2>1 DEF Tiled, Tiling
<1>7. Walk' = W
  BY <1>6, TilingIsWalkNext
<1>8. e % 2 = 0
  <2>1. p % 2 = 0 /\ p \in Nat
    BY Layout DEF Tiled, Tiling
  <2> QED BY <2>1
<1> HIDE DEF e
<1>9. Tiling(Walk)'
  BY <1>6, <1>7 DEF Tiling
<1> QED BY <1>1, <1>7, <1>8, <1>9 DEF e, Tiled

\* What lies from one place to a later one becomes one.
LEMMA WalkJoined ==
  ASSUME Tiled, NEW from \in Walk, NEW to \in Walk, from < to,
         Extent(from)' = to - from,
         \A q \in Walk \ {Top} : q < from \/ q >= to => Extent(q)' = Extent(q)
  PROVE  /\ Walk' = {q \in Walk : q <= from \/ q >= to}
         /\ Tiling(Walk)'
<1>1. PICK W : W = {q \in Walk : q <= from \/ q >= to}
  OBVIOUS
<1>2. /\ Walk \subseteq Int
      /\ from \in Int /\ to \in Int /\ Top \in Int /\ Bottom \in Int
      /\ \A q \in Walk : Bottom <= q /\ q <= Top
      /\ Top \in Walk /\ Bottom \in Walk
  BY Layout DEF Tiled, Tiling
<1>3. ASSUME NEW q \in W \ {Top}
      PROVE  /\ Extent(q)' \in Nat \ {0}
             /\ q + Extent(q)' \in W
             /\ \A r \in W : q < r => q + Extent(q)' <= r
  <2>1. CASE q = from
    <3>1. from + (to - from) = to /\ to - from \in Nat \ {0}
      BY <1>2
    <3>2. ASSUME NEW r \in W, from < r
          PROVE  to <= r
      BY <1>1, <1>2, <3>2
    <3>3. to \in W
      BY <1>1, <1>2
    <3> QED BY <2>1, <3>1, <3>2, <3>3
  <2>2. CASE q # from
    <3>1. q \in Walk /\ (q < from \/ q >= to)
      BY <1>1, <1>2, <2>2
    <3>2. /\ Extent(q)' = Extent(q) /\ Extent(q) \in Nat \ {0} /\ q + Extent(q) \in Walk
          /\ \A r \in Walk : q < r => q + Extent(q) <= r
      BY <1>3, <3>1 DEF Tiled, Tiling
    <3>3. q + Extent(q) <= from \/ q + Extent(q) >= to
      BY <1>2, <3>1, <3>2
    <3> QED BY <1>1, <3>2, <3>3
  <2> QED BY <2>1, <2>2
<1>4. Tiling(W)'
  BY <1>1, <1>2, <1>3 DEF Tiled, Tiling
<1>5. Walk' = W
  BY <1>4, TilingIsWalkNext
<1> QED BY <1>1, <1>4, <1>5 DEF Tiling

-----------------------------------------------------------------------------
(* The words of an object. *)

\* A step leaves what an object says.
Alike(o) ==
  /\ Kind(o)' = Kind(o)
  /\ size_(o)' = size_(o)
  /\ Kind(o) = HashTableKind => /\ remainingCapacity_(o)' = remainingCapacity_(o)
                                /\ backingArray_(o)' = backingArray_(o)
  /\ Kind(o) = RefArrayKind =>
       \A i \in Indices(o) : Key(o, i)' = Key(o, i) /\ Val(o, i)' = Val(o, i)

\* What is at a place of the walk.
LEMMA Places ==
  ASSUME Tiled, NEW p \in Walk \ {Top}
  PROVE  /\ p \in Bottom .. Top - 1
         /\ p \in Nat
         /\ Extent(p) \in Nat \ {0}
         /\ p + Extent(p) <= Top
         /\ p .. p + Extent(p) - 1 \subseteq GlobalVariables .. Top - 1
         /\ \A q \in Walk \ {Top} : q # p => q + Extent(q) <= p \/ p + Extent(p) <= q
<1>1. /\ Walk \subseteq Bottom .. Top
      /\ \A q \in Walk \ {Top} : /\ Extent(q) \in Nat \ {0}
                                /\ q + Extent(q) \in Walk
                                /\ \A r \in Walk : q < r => q + Extent(q) <= r
  BY DEF Tiled, Tiling
<1>2. Bottom = 8 /\ GlobalVariables = 2 /\ Top \in Nat /\ Bottom < Top
  BY Layout
<1>3. \A q \in Walk : q \in Nat /\ Bottom <= q /\ q <= Top
  BY <1>1, <1>2
<1>4. p \in Bottom .. Top - 1 /\ p \in Nat /\ Extent(p) \in Nat \ {0}
  BY <1>1, <1>2, <1>3
<1>5. p + Extent(p) <= Top
  BY <1>1, <1>3
<1>6. p .. p + Extent(p) - 1 \subseteq GlobalVariables .. Top - 1
  BY <1>2, <1>4, <1>5
<1>7. ASSUME NEW q \in Walk \ {Top}, q # p
      PROVE  q + Extent(q) <= p \/ p + Extent(p) <= q
  <2>1. q < p \/ p < q
    BY <1>3, <1>7
  <2> QED BY <1>1, <2>1
<1> QED BY <1>4, <1>5, <1>6, <1>7

LEMMA ObjectWords ==
  ASSUME Tiled, NEW o \in Objects
  PROVE  /\ o \in Walk \ {Top}
         /\ o \in Bottom .. Top - 1
         /\ Extent(o) >= 4
         /\ Kind(o) \in {HashTableKind, RefArrayKind, StringKind}
         /\ Kind(o) = HashTableKind => Extent(o) = 6
         /\ Kind(o) = RefArrayKind => /\ size_(o) \in Nat
                                      /\ Extent(o) = Words(ArrayBytes(size_(o)))
                                      /\ Extent(o) >= 3 + 5 * size_(o)
         /\ Kind(o) = StringKind => /\ size_(o) \in Nat
                                    /\ Extent(o) = Words(StringBytes(size_(o)))
<1>1. o \in Walk \ {Top}
  BY DEF Objects
<1>2. /\ Kind(o) \in {HashTableKind, RefArrayKind, StringKind}
      /\ Kind(o) # HashTableKind => size_(o) \in Nat
  BY DEF Tiled
<1>3. ASSUME Kind(o) = RefArrayKind
      PROVE  /\ size_(o) \in Nat
             /\ Extent(o) = Words(ArrayBytes(size_(o)))
             /\ Extent(o) >= 3 + 5 * size_(o)
             /\ Extent(o) >= 4
  BY <1>2, <1>3, ArrayLayout, ObjectLayout DEF RefArrayKind, HashTableKind
<1>4. ASSUME Kind(o) = StringKind
      PROVE  /\ size_(o) \in Nat
             /\ Extent(o) = Words(StringBytes(size_(o)))
             /\ Extent(o) >= 4
  BY <1>2, <1>4, StringLayout, ObjectLayout DEF StringKind, HashTableKind
<1> QED BY <1>1, <1>2, <1>3, <1>4, ObjectLayout, Places

\* An entry lies within its array.
LEMMA EntryWords ==
  ASSUME Tiled, NEW a \in Objects, Kind(a) = RefArrayKind, NEW i \in Indices(a)
  PROVE  /\ i \in Nat
         /\ EntryAt(a, i) \in Nat
         /\ EntryAt(a, i) >= a + 3
         /\ EntryAt(a, i) + 4 <= a + Extent(a) - 1
<1>1. /\ a \in Nat /\ Extent(a) \in Nat /\ size_(a) \in Nat
      /\ Extent(a) >= 3 + 5 * size_(a)
  BY ObjectWords, Places
<1> QED BY <1>1 DEF Indices, EntryAt

LEMMA WordsAlike ==
  ASSUME Tiled, NEW o \in Objects,
         \A q \in o .. o + Extent(o) - 1 : memory'[q] = memory[q]
  PROVE  Alike(o) /\ Extent(o)' = Extent(o) /\ ~IsHole(o)'
<1>1. o \in Nat /\ Extent(o) \in Nat /\ Extent(o) >= 4
  BY ObjectWords, Places
<1>2. memory'[o] = memory[o] /\ memory'[o + 2] = memory[o + 2]
  BY <1>1
<1>3. Kind(o)' = Kind(o) /\ size_(o)' = size_(o) /\ (IsHole(o)' <=> IsHole(o)) /\ ~IsHole(o)
  BY <1>2 DEF Kind, size_, IsHole, Objects
<1>4. ASSUME Kind(o) = HashTableKind
      PROVE  /\ remainingCapacity_(o)' = remainingCapacity_(o)
             /\ backingArray_(o)' = backingArray_(o)
  <2>1. Extent(o) = 6
    BY <1>4, ObjectWords
  <2> QED BY <1>1, <2>1 DEF remainingCapacity_, backingArray_
<1>5. ASSUME Kind(o) = RefArrayKind, NEW i \in Indices(o)
      PROVE  Key(o, i)' = Key(o, i) /\ Val(o, i)' = Val(o, i)
  <2> DEFINE e == EntryAt(o, i)
  <2>1. e \in Nat /\ e >= o + 3 /\ e + 4 <= o + Extent(o) - 1
    BY <1>5, EntryWords
  <2>2. e' = e
    BY DEF EntryAt
  <2> HIDE DEF e
  <2>3. \A k \in 0 .. 4 : memory'[e + k] = memory[e + k]
    BY <1>1, <2>1
  <2>4. /\ memory'[e] = memory[e] /\ memory'[e + 1] = memory[e + 1]
        /\ memory'[e + 3] = memory[e + 3] /\ memory'[e + 4] = memory[e + 4]
    BY <2>1, <2>3
  <2> QED BY <2>2, <2>4 DEF Key, Val, e
<1>6. Extent(o)' = Extent(o)
  <2>1. CASE Kind(o) = HashTableKind
    BY <1>3, <2>1, ObjectLayout, ObjectLayoutNext
  <2>2. CASE Kind(o) = RefArrayKind
    BY <1>3, <2>2, ObjectLayout, ObjectLayoutNext
  <2>3. CASE Kind(o) = StringKind
    BY <1>3, <2>3, ObjectLayout, ObjectLayoutNext, ObjectWords
  <2> QED BY <2>1, <2>2, <2>3, ObjectWords
<1> QED BY <1>3, <1>4, <1>5, <1>6 DEF Alike

LEMMA GlobalsAlike ==
  ASSUME Kind(GlobalVariables) = HashTableKind, 
         \A q \in GlobalVariables .. Bottom - 1 : memory'[q] = memory[q]
  PROVE  Alike(GlobalVariables)
BY SMT DEF Alike, GlobalVariables, Bottom, Kind, size_, remainingCapacity_, backingArray_,
   HashTableKind, RefArrayKind

LEMMA HoleAlike ==
  ASSUME NEW p, memory'[p] = memory[p], IsHole(p)
  PROVE  Extent(p)' = Extent(p) /\ IsHole(p)'
BY DEF Extent, IsHole

LEMMA IndicesAlike ==
  ASSUME NEW a, Kind(a) = RefArrayKind, Alike(a)
  PROVE  Indices(a)' = Indices(a)
BY DEF Indices, Alike

-----------------------------------------------------------------------------
(* Allocation. *)

\* The hole that is found.
LEMMA PlaceFits ==
  ASSUME Tiled, NEW bytes, Words(bytes) \in Nat, Fits(bytes)
  PROVE  /\ Place(bytes) \in Walk \ {Top}
         /\ IsHole(Place(bytes))
         /\ Words(bytes) <= Extent(Place(bytes))
         /\ Place(bytes) \notin Objects
<1> DEFINE C == Candidates(bytes)
<1>1. C # {} /\ C \subseteq Walk \ {Top} /\ C \subseteq Nat
  BY Places DEF Fits, Candidates
<1>2. \E p \in C : \A q \in C : p <= q
  <2> HIDE DEF C
  <2> QED BY <1>1, LeastNatural
<1>3. Place(bytes) \in C
  BY <1>2 DEF Place
<1>4. \A p \in C : IsHole(p) /\ Words(bytes) <= Extent(p)
  <2>1. ASSUME NEW p \in C
        PROVE  IsHole(p) /\ Words(bytes) <= Extent(p)
    <3>1. Extent(p) \in Int /\ Extent(p) >= Words(bytes) /\ IsHole(p)
      BY <1>1, <2>1, Places DEF Candidates
    <3> QED BY <3>1
  <2> QED BY <2>1
<1> QED BY <1>1, <1>3, <1>4 DEF Objects

\* An allocation of n words at p.  Nothing else is written, except members of the
\* table t that its size does not depend on.
Allocates(p, n, t) ==
  /\ p \in Walk \ {Top} /\ IsHole(p)
  /\ n \in Nat /\ n >= 4 /\ n % 2 = 0 /\ n <= Extent(p)
  /\ memory' \in [GlobalVariables .. Top - 1 -> Int]
  /\ \A q \in GlobalVariables .. Top - 1 :
       q \notin p .. p + Extent(p) - 1 /\ q \notin {t + 2, t + 3, t + 5} =>
         memory'[q] = memory[q]
  /\ n < Extent(p) => memory'[p + n] = -(Extent(p) - n)
  /\ Extent(p)' = n
  /\ ~IsHole(p)'
  /\ Kind(p)' \in {HashTableKind, RefArrayKind, StringKind}
  /\ Kind(p)' # HashTableKind => size_(p)' \in Nat

LEMMA Allocation ==
  ASSUME Tiled, Kind(GlobalVariables) = HashTableKind, NEW p, NEW n, NEW t, Allocates(p, n, t),
         \/ t = GlobalVariables
         \/ t \in Objects /\ Kind(t) = HashTableKind
  PROVE  /\ p \notin Objects
         /\ Objects' = Objects \cup {p}
         /\ Tiled'
         /\ \A o \in Objects \cup {GlobalVariables} : o # t => Alike(o)
         /\ Kind(t)' = Kind(t)
<1>1. /\ p \in Walk \ {Top} /\ IsHole(p) /\ p \notin Objects
      /\ p \in Nat /\ p >= Bottom /\ Extent(p) \in Nat \ {0}
      /\ n \in Nat \ {0} /\ n <= Extent(p) /\ n % 2 = 0
  BY Places, Layout DEF Allocates, Objects
<1>2. /\ t \in Nat
      /\ \/ t = GlobalVariables
         \/ t + 5 < t + Extent(t) /\ t \in Walk \ {Top} /\ ~IsHole(t)
  <2>1. CASE t = GlobalVariables
    BY <2>1, Layout
  <2>2. CASE t \in Objects /\ Kind(t) = HashTableKind
    <3>1. t \in Walk \ {Top} /\ ~IsHole(t) /\ Extent(t) = 6
      BY <2>2, ObjectWords DEF Objects
    <3> QED BY <3>1, Places
  <2> QED BY <2>1, <2>2
<1>3. ASSUME NEW q \in Walk \ {Top, p}, q # t
      PROVE  \A w \in q .. q + Extent(q) - 1 : memory'[w] = memory[w]
  <2> SUFFICES ASSUME NEW w \in q .. q + Extent(q) - 1
               PROVE  memory'[w] = memory[w]
    OBVIOUS
  <2>1. /\ q \in Nat /\ Extent(q) \in Nat \ {0} /\ q >= Bottom
        /\ q + Extent(q) <= p \/ p + Extent(p) <= q
        /\ w \in GlobalVariables .. Top - 1
    BY <1>1, <1>3, Places
  <2>2. w \notin p .. p + Extent(p) - 1
    BY <1>1, <2>1
  <2>3. w \notin {t + 2, t + 3, t + 5}
    <3>1. CASE t = GlobalVariables
      BY <2>1, <3>1, Layout
    <3>2. CASE t \in Walk \ {Top} /\ t + 5 < t + Extent(t)
      <4>1. Extent(t) \in Nat /\ (q + Extent(q) <= t \/ t + Extent(t) <= q)
        BY <1>3, <3>2, Places
      <4> QED BY <1>2, <2>1, <3>2, <4>1
    <3> QED BY <1>2, <3>1, <3>2
  <2> QED BY <2>1, <2>2, <2>3 DEF Allocates
<1>4. memory'[t] = memory[t]
  <2>1. CASE t = GlobalVariables
    <3>1. t \in GlobalVariables .. Top - 1 /\ t \notin p .. p + Extent(p) - 1
          /\ t \notin {t + 2, t + 3, t + 5}
      BY <1>1, <2>1, Layout
    <3> QED BY <3>1 DEF Allocates
  <2>2. CASE t \in Walk \ {Top} /\ ~IsHole(t)
    <3>1. /\ t \in GlobalVariables .. Top - 1 /\ Extent(t) \in Nat \ {0}
          /\ t + Extent(t) <= p \/ p + Extent(p) <= t
      BY <1>1, <2>2, Places, Layout
    <3>2. t \notin p .. p + Extent(p) - 1 /\ t \notin {t + 2, t + 3, t + 5}
      BY <1>1, <1>2, <3>1
    <3> QED BY <3>1, <3>2 DEF Allocates
  <2> QED BY <1>2, <2>1, <2>2
<1>5. Kind(t) = HashTableKind /\ Kind(t)' = HashTableKind
  BY <1>4 DEF Kind
<1>6. ASSUME NEW q \in Walk \ {Top, p}
      PROVE  Extent(q)' = Extent(q) /\ (IsHole(q)' <=> IsHole(q))
  <2>1. CASE q = t
    BY <1>5, <2>1, ObjectLayout, ObjectLayoutNext
  <2>2. CASE q # t /\ IsHole(q)
    <3>1. memory'[q] = memory[q]
      BY <1>3, <1>6, <2>2, Places
    <3> QED BY <2>2, <3>1, HoleAlike
  <2>3. CASE q # t /\ ~IsHole(q)
    <3>1. q \in Objects
      BY <1>6, <2>3 DEF Objects
    <3> QED BY <1>3, <1>6, <2>3, <3>1, WordsAlike
  <2> QED BY <2>1, <2>2, <2>3
<1>7. n < Extent(p) => IsHole(p + n)' /\ Extent(p + n)' = Extent(p) - n
  BY <1>1 DEF Allocates, IsHole, Extent
<1>8. /\ Walk' = Walk \cup {p + n}
      /\ Tiling(Walk)'
      /\ \A q \in Walk' : q % 2 = 0
  BY <1>1, <1>6, <1>7, WalkSplit DEF Allocates
<1>9. Objects' = Objects \cup {p}
  <2>1. n = Extent(p) => p + n \in Walk
    BY <1>1 DEF Tiled, Tiling
  <2>2. p + n = p => FALSE
    BY <1>1
  <2>3. n # Extent(p) => IsHole(p + n)'
    BY <1>1, <1>7
  <2> QED BY <1>1, <1>6, <1>8, <2>1, <2>2, <2>3 DEF Objects, Allocates
<1>10. ASSUME NEW o \in Objects \cup {GlobalVariables}, o # t
       PROVE  Alike(o)
  <2>1. CASE o \in Objects
    BY <1>1, <1>3, <1>10, <2>1, ObjectWords, WordsAlike
  <2>2. CASE o = GlobalVariables
    <3>1. t \in Walk \ {Top} /\ t >= Bottom
      BY <1>2, <1>10, <2>2, Places, Layout
    <3>2. \A q \in GlobalVariables .. Bottom - 1 : 
             /\ q \in GlobalVariables .. Top - 1
             /\ q \notin p .. p + Extent(p) - 1
             /\ q \notin {t + 2, t + 3, t + 5}
      BY <1>1, <1>2, <3>1, Layout
    <3> QED BY <2>2, <3>2, GlobalsAlike DEF Allocates
  <2> QED BY <2>1, <2>2
<1>11. ASSUME NEW o \in Objects'
       PROVE  /\ Kind(o)' \in {HashTableKind, RefArrayKind, StringKind}
              /\ Kind(o)' # HashTableKind => size_(o)' \in Nat
  <2>1. CASE o = p
    BY <2>1 DEF Allocates
  <2>2. CASE o \in Objects /\ o = t
    BY <1>5, <2>2
  <2>3. CASE o \in Objects /\ o # t
    BY <1>10, <2>3 DEF Tiled, Alike
  <2> QED BY <1>9, <1>11, <2>1, <2>2, <2>3
<1>12. Tiled'
  BY <1>8, <1>11 DEF Tiled, Allocates
<1> QED BY <1>1, <1>5, <1>9, <1>10, <1>12

-----------------------------------------------------------------------------
(* What objects refer to. *)

LEMMA GlobalsOutside ==
  ASSUME Tiled
  PROVE  GlobalVariables \notin Objects /\ Null \notin Objects
BY ObjectWords, Layout

\* An object is added: a string, or a table without an array.
LEMMA HeapGrows ==
  ASSUME HeapSound, phase = "idle", phase' = "idle", pc # "aborted",
         NEW p, p \notin Objects, p # GlobalVariables, Objects' = Objects \cup {p}, Tiled',
         \A o \in Objects \cup {GlobalVariables} : Alike(o),
         \/ Kind(p)' = StringKind
         \/ Kind(p)' = HashTableKind /\ backingArray_(p)' = Null
  PROVE  /\ HeapSound'
         /\ Arrays' = Arrays
         /\ Tables' = Tables \cup {q \in {p} : Kind(q)' = HashTableKind}
         /\ \A t \in Tables : backingArray_(t)' = backingArray_(t)
         /\ \A v : Good(v) => Good(v)'
<1>1. Live = Objects /\ Live' = Objects \cup {p}
  BY DEF Live
<1>2. Kind(p)' # RefArrayKind
  BY DEF StringKind, HashTableKind, RefArrayKind
<1>3. \A o \in Objects \cup {GlobalVariables} : Kind(o)' = Kind(o)
  BY DEF Alike
<1>4. Kind(GlobalVariables) = HashTableKind /\ Kind(GlobalVariables)' = HashTableKind
  BY <1>3 DEF HeapSound
<1>5. Arrays' = Arrays
  BY <1>1, <1>2, <1>3 DEF Arrays
<1>6. Tables' = Tables \cup {q \in {p} : Kind(q)' = HashTableKind}
  BY <1>1, <1>3, <1>4 DEF Tables
<1>7. ASSUME NEW v, Good(v)
      PROVE  Good(v)'
  BY <1>1, <1>5, <1>7 DEF Good
<1>8. ASSUME NEW a \in Arrays
      PROVE  /\ Indices(a)' = Indices(a) /\ size_(a)' = size_(a)
             /\ \A i \in Indices(a) : Key(a, i)' = Key(a, i) /\ Val(a, i)' = Val(a, i)
  BY <1>1, IndicesAlike DEF Arrays, Alike
<1>9. ASSUME NEW t \in Tables
      PROVE  /\ backingArray_(t)' = backingArray_(t)
             /\ size_(t)' = size_(t)
             /\ remainingCapacity_(t)' = remainingCapacity_(t)
  BY <1>1, <1>4 DEF Tables, Alike
<1>10. ASSUME NEW t \in Tables
       PROVE  SoundTable(t)'
  <2>1. SoundTable(t)
    BY <1>10 DEF HeapSound
  <2> QED BY <1>5, <1>8, <1>9, <2>1 DEF SoundTable
<1>11. ASSUME NEW t \in Tables', t \notin Tables
       PROVE  backingArray_(t)' = Null
  BY <1>6, <1>11 DEF StringKind, HashTableKind
<1>12. \A t \in Tables' : SoundTable(t)'
  BY <1>10, <1>11 DEF SoundTable
<1>13. ASSUME NEW t \in Tables', NEW u \in Tables', t # u, backingArray_(t)' # Null
       PROVE  backingArray_(t)' # backingArray_(u)'
  BY <1>9, <1>11, <1>13 DEF HeapSound
<1>14. ASSUME NEW a \in Arrays', NEW i \in Indices(a)'
       PROVE  Good(Key(a, i))' /\ Good(Val(a, i))'
  <2>1. /\ i \in Indices(a) /\ a \in Arrays
        /\ Key(a, i)' = Key(a, i) /\ Val(a, i)' = Val(a, i)
    BY <1>5, <1>8, <1>14
  <2>2. Good(Key(a, i)) /\ Good(Val(a, i))
    BY <2>1 DEF HeapSound
  <2>3. \A v : Good(v)' <=> (v = Nil \/ v \in {INTEGER} \X Int \/ v \in {OBJECT} \X (Live' \ Arrays'))
    BY DEF Good
  <2>4. Good(Key(a, i)') /\ Good(Val(a, i)')
    BY <2>1, <2>2
  <2> QED BY <2>1, <2>3, <1>7, <2>2 DEF Good
<1>15. HeapSound'
  BY <1>4, <1>12, <1>13, <1>14 DEF HeapSound
<1> QED BY <1>5, <1>6, <1>7, <1>9, <1>15

\* Nothing is written.
LEMMA HeapStays ==
  ASSUME HeapSound, memory' = memory, Live' = Live, pc' # "aborted" => pc # "aborted"
  PROVE  /\ HeapSound'
         /\ Walk' = Walk
         /\ Objects' = Objects
         /\ Tables' = Tables
         /\ Arrays' = Arrays
         /\ \A o : /\ Kind(o)' = Kind(o)
                   /\ size_(o)' = size_(o)
                   /\ backingArray_(o)' = backingArray_(o)
                   /\ Edges(o)' = Edges(o)
                   /\ Extent(o)' = Extent(o)
         /\ \A v : Good(v)' <=> Good(v)
<1>1. \A o : /\ Kind(o)' = Kind(o)
             /\ size_(o)' = size_(o)
             /\ remainingCapacity_(o)' = remainingCapacity_(o)
             /\ backingArray_(o)' = backingArray_(o)
             /\ IsHole(o)' <=> IsHole(o)
             /\ Indices(o)' = Indices(o)
             /\ \A i : Key(o, i)' = Key(o, i) /\ Val(o, i)' = Val(o, i)
  BY DEF Kind, size_, remainingCapacity_, backingArray_, IsHole, Indices, Key, Val, EntryAt
<1>2. \A o : Extent(o)' = Extent(o)
  <2>1. ASSUME NEW o
        PROVE  Size(o)' = Size(o)
    BY <1>1 DEF Size, ArraySize, StringSize
  <2> QED BY <1>1, <2>1 DEF Extent, getTotalFootprintInBytes, getObjectSizeInBytesWithHeader, IsHole
<1>3. \A o : Edges(o)' = Edges(o)
  <2>1. ASSUME NEW o
        PROVE  scanRefArray(o)' = scanRefArray(o)
    BY <1>1 DEF scanRefArray
  <2>2. ASSUME NEW o
        PROVE  start(o)' = start(o)
    BY <1>1, <2>1 DEF start
  <2> QED BY <2>2 DEF Edges, resume, getIndirectObject
<1>4. Walk' = Walk /\ Tiling(Walk)'
  BY <1>2, WalkStays DEF HeapSound
<1>5. Objects' = Objects
  BY <1>1, <1>4 DEF Objects
<1>6. Tables' = Tables /\ Arrays' = Arrays
  BY <1>1 DEF Tables, Arrays
<1>7. \A v : Good(v)' <=> Good(v)
  BY <1>6 DEF Good
<1>9. Tiled'
  BY <1>1, <1>4, <1>5 DEF HeapSound, Tiled
<1>10. ASSUME NEW t \in Tables'
       PROVE  SoundTable(t)'
  <2>1. SoundTable(t)
    BY <1>6, <1>10 DEF HeapSound
  <2> QED BY <1>1, <1>6, <2>1 DEF SoundTable
<1>11. ASSUME NEW a \in Arrays', NEW i \in Indices(a)'
       PROVE  Good(Key(a, i))' /\ Good(Val(a, i))'
  <2>1. Good(Key(a, i)) /\ Good(Val(a, i)) /\ Key(a, i)' = Key(a, i) /\ Val(a, i)' = Val(a, i)
    BY <1>1, <1>6, <1>11 DEF HeapSound
  <2> QED BY <1>6, <2>1 DEF Good
<1>12. \A t, u \in Tables' :
         t # u /\ backingArray_(t)' # Null => backingArray_(t)' # backingArray_(u)'
  BY <1>1, <1>6 DEF HeapSound
<1>13. HeapSound'
  BY <1>1, <1>9, <1>10, <1>11, <1>12 DEF HeapSound
<1> QED BY <1>1, <1>2, <1>3, <1>4, <1>5, <1>6, <1>7, <1>13

-----------------------------------------------------------------------------
(* The line. *)

LEMMA Tails ==
  ASSUME NEW s \in Seq(Instruction), s # <<>>
  PROVE  /\ Tail(s) \in Seq(Instruction)
         /\ Len(s) \in Nat \ {0}
         /\ Len(Tail(s)) = Len(s) - 1
         /\ \A n \in 1 .. Len(s) - 1 : Tail(s)[n] = s[n + 1]
         /\ Head(s) = s[1]
         /\ Tail(s) # <<>> => Len(s) > 1
BY SMT

LEMMA LineContinues ==
  ASSUME CodeSound, code # <<>>, code' = Tail(code)
  PROVE  CodeSound'
BY Tails DEF CodeSound

LEMMA LineEnds ==
  ASSUME code' = <<>>
  PROVE  CodeSound'
BY EmptySeq DEF CodeSound

-----------------------------------------------------------------------------
(* Steps that write nothing. *)

LEMMA ObjectsStay ==
  ASSUME HeapSound, memory' = memory
  PROVE  Objects' = Objects
<1>1. \A o : IsHole(o)' <=> IsHole(o)
  BY DEF IsHole
<1>2. \A o : Extent(o)' = Extent(o)
  BY DEF Extent, getTotalFootprintInBytes, getObjectSizeInBytesWithHeader, IsHole, Size, Kind,
     ArraySize, StringSize, size_
<1> QED BY <1>1, <1>2, WalkStays DEF Objects, HeapSound

LEMMA LiveStays ==
  ASSUME HeapSound, memory' = memory, phase' = phase, marked' = marked
  PROVE  Live' = Live
BY ObjectsStay DEF Live

\* Between collections the collector keeps nothing.
LEMMA MarksIdle ==
  ASSUME MarksSound, phase = "idle", UNCHANGED <<phase, marked, work, at>>, collected' \in BOOLEAN
  PROVE  MarksSound'
BY DEF MarksSound

LEMMA Stops ==
  ASSUME Inv, phase = "idle", NEW f \in Faults, Abort(f)
  PROVE  Inv'
<1>1. /\ HeapSound /\ memory' = memory /\ Live' = Live
      /\ pc' = "aborted" /\ fault' = f
      /\ UNCHANGED <<self, old, idx, tbl, result, code, sz, phase, marked, work, at, collected>>
  BY LiveStays DEF Inv, Abort, collector
<1>2. LocalsSound'
  BY <1>1, HeapStays DEF Inv, LocalsSound
<1>3. ControlSound'
  BY <1>1, HeapStays DEF Inv, ControlSound
<1>4. CodeSound'
  BY <1>1 DEF Inv, CodeSound
<1>5. MarksSound'
  BY <1>1, MarksIdle DEF Inv, MarksSound
<1> QED BY <1>1, <1>2, <1>3, <1>4, <1>5, HeapStays DEF Inv

\* The program changes its own variables.
LEMMA ProgramMoves ==
  ASSUME Inv, phase = "idle", UNCHANGED <<memory, phase, marked, work, at>>,
         collected' \in BOOLEAN,
         UNCHANGED <<self, old, sz, pc, fault>>, pc = "run",
         Good(idx'), Good(result'),
         tbl' \in {Null, Dangling} \cup Tables,
         CodeSound'
  PROVE  Inv'
<1>1. HeapSound /\ Live' = Live
  BY LiveStays DEF Inv
<1>2. /\ HeapSound' /\ Tables' = Tables /\ Arrays' = Arrays
      /\ \A o : backingArray_(o)' = backingArray_(o)
  BY <1>1, HeapStays
<1>3. Good(idx)' /\ Good(result)'
  BY <1>1, <1>2 DEF Good
<1>4. LocalsSound'
  BY <1>2, <1>3 DEF Inv, LocalsSound
<1>5. ControlSound'
  BY <1>2 DEF Inv, ControlSound
<1>6. MarksSound'
  BY MarksIdle DEF Inv
<1> QED BY <1>2, <1>4, <1>5, <1>6 DEF Inv

LEMMA GoodNil == Good(Nil)
BY DEF Good

LEMMA BackAtPrompt ==
  ASSUME Inv, phase = "idle", pc = "run", UNCHANGED <<memory, self, old, sz, pc, fault>>, BackToPrompt
  PROVE  Inv'
<1>1. CodeSound'
  BY LineEnds DEF BackToPrompt
<1> QED BY <1>1, ProgramMoves, GoodNil DEF BackToPrompt, collector, Inv, MarksSound

LEMMA ReadLineKeeps ==
  ASSUME Inv, NEW l \in Lines, ReadLine(l)
  PROVE  Inv'
<1>1. CodeSound'
  BY LinesAssumption DEF ReadLine, CodeSound
<1>2. Good(idx) /\ Good(result) /\ tbl \in {Null, Dangling} \cup Tables
  BY DEF Inv, LocalsSound
<1> QED BY <1>1, <1>2, ProgramMoves DEF ReadLine, collector, Inv, MarksSound

LEMMA EvalNumberKeeps ==
  ASSUME Inv, EvalNumber
  PROVE  Inv'
<1>1. code \in Seq(Instruction) /\ code # <<>> /\ Head(code).op = "number"
  BY DEF Inv, CodeSound, EvalNumber, Runs
<1>2. Head(code) \in Instruction
  BY <1>1
<1>3. Head(code).number \in Int
  BY <1>1, <1>2 DEF Instruction
<1>4. Good(result')
  BY <1>3 DEF EvalNumber, Good
<1>5. CodeSound'
  BY <1>1, LineContinues DEF Inv, EvalNumber, Continue
<1>6. Good(idx) /\ tbl \in {Null, Dangling} \cup Tables
  BY DEF Inv, LocalsSound
<1> QED BY <1>4, <1>5, <1>6, ProgramMoves DEF EvalNumber, Continue, Runs

LEMMA CheckTableKeeps ==
  ASSUME Inv, CheckTable
  PROVE  Inv'
<1>1. code \in Seq(Instruction) /\ code # <<>> /\ Head(code).op = "table" /\ phase = "idle" /\ pc = "run"
  BY DEF Inv, CodeSound, CheckTable, Runs
<1>2. CASE BackToPrompt
  BY <1>1, <1>2, BackAtPrompt DEF CheckTable
<1>3. CASE /\ IsObject(result) /\ Kind(result[2]) = HashTableKind
           /\ tbl' = result[2]
           /\ Continue
           /\ UNCHANGED <<idx, result>>
  <2>1. Good(result) /\ Good(idx)
    BY DEF Inv, LocalsSound
  <2>2. result = <<OBJECT, result[2]>> /\ result[2] \in Live
    BY <1>3, <2>1 DEF Good, IsObject, Nil, NILL, OBJECT, INTEGER
  <2>3. result[2] \in Tables
    BY <1>3, <2>2 DEF Tables
  <2>4. CodeSound'
    BY <1>1, <1>3, LineContinues DEF Inv, Continue
  <2> QED BY <1>1, <1>3, <2>1, <2>3, <2>4, ProgramMoves DEF Continue, CheckTable
<1> QED BY <1>2, <1>3 DEF CheckTable

LEMMA TableStopsKeeps ==
  ASSUME Inv, TableStops
  PROVE  Inv'
BY Stops DEF TableStops, Runs, Faults

LEMMA RootIndexKeeps ==
  ASSUME Inv, RootIndex
  PROVE  Inv'
<1>1. CodeSound'
  BY LineContinues DEF Inv, RootIndex, Continue, Runs
<1>2. Good(result) /\ tbl \in {Null, Dangling} \cup Tables
  BY DEF Inv, LocalsSound
<1> QED BY <1>1, <1>2, ProgramMoves, GoodNil DEF RootIndex, Continue, Runs

LEMMA PrintResultKeeps ==
  ASSUME Inv, PrintResult
  PROVE  Inv'
BY BackAtPrompt DEF PrintResult, Runs

LEMMA PrintStopsKeeps ==
  ASSUME Inv, PrintStops
  PROVE  Inv'
BY Stops DEF PrintStops, Runs, Faults

LEMMA StoreStopsKeeps ==
  ASSUME Inv, StoreStops
  PROVE  Inv'
BY Stops DEF StoreStops, Runs, Faults

-----------------------------------------------------------------------------
(* The collector. *)

LEMMA LiveObjects ==
  ASSUME MarksSound
  PROVE  Live \subseteq Objects
BY DEF MarksSound, Live

\* What the scanner reports of an object are objects.
LEMMA EdgesSound ==
  ASSUME HeapSound, MarksSound, NEW o \in Live, NEW e \in Edges(o)
  PROVE  e \in Live /\ (Kind(o) = HashTableKind <=> Kind(e) = RefArrayKind)
<1>1. e \in start(o)
  BY DEF Edges, resume, getIndirectObject
<1>2. CASE Kind(o) = HashTableKind
  <2>1. o \in Tables /\ e = backingArray_(o) /\ e # Null
    BY <1>1, <1>2 DEF Tables, start, HashTableKind, RefArrayKind, StringKind
  <2>2. e \in Arrays
    BY <2>1 DEF HeapSound, SoundTable
  <2> QED BY <1>2, <2>2 DEF Arrays
<1>3. CASE Kind(o) = RefArrayKind
  <2>1. e \in scanRefArray(o)
    BY <1>1, <1>3 DEF start, HashTableKind, RefArrayKind
  <2>2. PICK i \in Indices(o) : \/ IsObject(Key(o, i)) /\ e = Key(o, i)[2]
                                \/ IsObject(Val(o, i)) /\ e = Val(o, i)[2]
    BY <2>1 DEF scanRefArray
  <2>3. Good(Key(o, i)) /\ Good(Val(o, i))
    BY <1>3 DEF Arrays, HeapSound
  <2>4. \A v : Good(v) /\ IsObject(v) => v[2] \in Live \ Arrays
    BY DEF Good, IsObject, Nil, NILL, OBJECT, INTEGER
  <2>5. e \in Live \ Arrays
    BY <2>2, <2>3, <2>4
  <2> QED BY <1>3, <2>5 DEF Arrays, HashTableKind, RefArrayKind
<1>4. CASE Kind(o) = StringKind
  BY <1>1, <1>4 DEF start, HashTableKind, RefArrayKind, StringKind
<1>5. Kind(o) \in {HashTableKind, RefArrayKind, StringKind}
  BY LiveObjects DEF HeapSound, Tiled
<1> QED BY <1>2, <1>3, <1>4, <1>5

LEMMA RootsSound ==
  ASSUME HeapSound, LocalsSound
  PROVE  Roots \ {GlobalVariables} \subseteq Live
<1>1. MarkingFn \subseteq Live
  BY DEF MarkingFn, HeapSound, Tables, SoundTable, Arrays
<1>2. IsObject(idx) => idx[2] \in Live
  BY DEF LocalsSound, Good, IsObject, Nil, NILL, OBJECT, INTEGER
<1> QED BY <1>1, <1>2 DEF Roots, StackRoots, LocalsSound, Tables, Arrays

LEMMA LeastStays ==
  ASSUME MarksLeast, marked' = marked, Roots' = Roots, \A o \in marked : Edges(o)' = Edges(o)
  PROVE  MarksLeast'
<1>1. ASSUME NEW T, Roots \subseteq T, \A o \in T \cap marked : Edges(o)' \subseteq T
      PROVE  marked \subseteq T
  <2>1. \A o \in T \cap marked : Edges(o) \subseteq T
    BY <1>1
  <2> QED BY <1>1, <2>1 DEF MarksLeast
<1> QED BY <1>1 DEF MarksLeast

LEMMA CollectKeeps ==
  ASSUME Inv, phase = "idle", pc \in {"run", "initialize"}, NEW forced \in BOOLEAN, Collect(forced),
         forced => code # <<>>
  PROVE  Inv'
<1>1. CASE Abort("root_outside_heap")
  BY <1>1, Stops DEF Faults
<1>2. CASE /\ Roots \subseteq Bottom .. Top - 1
           /\ phase' = "mark"
           /\ marked' = Roots
           /\ work' = Roots
           /\ at' = Bottom
           /\ collected' = ~forced
           /\ code' = IF forced THEN Tail(code) ELSE code
           /\ result' = Nil
           /\ memory' = memory
           /\ UNCHANGED <<self, old, idx, tbl, sz, pc, fault>>
  <2>1. Live' = Live /\ Live = Objects
    BY <1>2, ObjectsStay DEF Live, Inv
  <2>2. /\ HeapSound' /\ Objects' = Objects /\ Tables' = Tables /\ Arrays' = Arrays
        /\ \A o : /\ backingArray_(o)' = backingArray_(o) /\ size_(o)' = size_(o)
                  /\ Edges(o)' = Edges(o)
        /\ \A v : Good(v)' <=> Good(v)
    BY <1>2, <2>1, HeapStays DEF Inv
  <2>3. LocalsSound'
    <3>1. Good(idx)' /\ Good(result)'
      BY <1>2, <2>2, GoodNil DEF Inv, LocalsSound, Good
    <3> QED BY <1>2, <2>2, <3>1 DEF Inv, LocalsSound
  <2>4. ControlSound'
    BY <1>2, <2>2 DEF Inv, ControlSound
  <2>5. CodeSound'
    <3>1. CASE forced
      BY <1>2, <3>1, LineContinues DEF Inv
    <3>2. CASE ~forced
      BY <1>2, <3>2 DEF Inv, CodeSound
    <3> QED BY <3>1, <3>2
  <2>6. MarksSound'
    <3>1. Roots' = Roots
      BY <1>2, <2>2 DEF Roots, MarkingFn, StackRoots
    <3>2. GlobalVariables \notin Roots
      BY <1>2, Layout
    <3>3. Roots \subseteq Objects
      BY <2>1, <3>2, RootsSound DEF Inv
    <3>4. MarksLeast'
      BY <1>2, <3>1 DEF MarksLeast
    <3> QED BY <1>2, <2>2, <3>1, <3>3, <3>4 DEF MarksSound
  <2> QED BY <2>2, <2>3, <2>4, <2>5, <2>6 DEF Inv
<1> QED BY <1>1, <1>2 DEF Collect, flushNonAllocationCaches, masterThreadGarbageCollectStarted

LEMMA EvalForceGCKeeps ==
  ASSUME Inv, EvalForceGC
  PROVE  Inv'
BY CollectKeeps DEF EvalForceGC, Runs

\* A step of the collector that condemns no object and writes nothing.
LEMMA CollectorMoves ==
  ASSUME Inv, UNCHANGED <<memory, program>>, Live' = Live, MarksSound',
         phase # "idle"
  PROVE  Inv'
<1>1. /\ UNCHANGED <<memory, self, old, idx, tbl, result, code, sz, pc, fault>>
      /\ pc \in {"run", "initialize"}
  BY DEF program, Inv, ControlSound
<1>2. /\ HeapSound' /\ Tables' = Tables /\ Arrays' = Arrays
      /\ \A o : /\ backingArray_(o)' = backingArray_(o) /\ size_(o)' = size_(o)
      /\ \A v : Good(v)' <=> Good(v)
  BY <1>1, HeapStays DEF Inv
<1>3. LocalsSound'
  <2>1. Good(idx)' /\ Good(result)'
    BY <1>1, <1>2 DEF Inv, LocalsSound, Good
  <2> QED BY <1>1, <1>2, <2>1 DEF Inv, LocalsSound
<1>4. ControlSound'
  BY <1>1, <1>2 DEF Inv, ControlSound
<1>5. CodeSound'
  BY <1>1, <1>2 DEF Inv, CodeSound
<1> QED BY <1>2, <1>3, <1>4, <1>5 DEF Inv

LEMMA MemoryStays ==
  ASSUME HeapSound, UNCHANGED <<memory, self, old, idx>>
  PROVE  Roots' = Roots /\ Walk' = Walk /\ Objects' = Objects /\ \A o : Edges(o)' = Edges(o)
<1>1. \A o : backingArray_(o)' = backingArray_(o)
  BY DEF backingArray_
<1>2. \A o : /\ Kind(o)' = Kind(o)
             /\ Indices(o)' = Indices(o)
             /\ \A i : Key(o, i)' = Key(o, i) /\ Val(o, i)' = Val(o, i)
  BY DEF Kind, size_, Indices, Key, Val, EntryAt
<1>3. \A o : scanRefArray(o)' = scanRefArray(o)
  BY <1>2 DEF scanRefArray
<1>4. \A o : start(o)' = start(o)
  BY <1>1, <1>2, <1>3 DEF start
<1>5. \A o : Edges(o)' = Edges(o)
  BY <1>4 DEF Edges, resume, getIndirectObject
<1>6. \A o : Extent(o)' = Extent(o)
  BY DEF Extent, getTotalFootprintInBytes, getObjectSizeInBytesWithHeader, IsHole, Size, Kind,
     ArraySize, StringSize, size_
<1> QED BY <1>1, <1>5, <1>6, WalkStays, ObjectsStay DEF Roots, MarkingFn, StackRoots, HeapSound

LEMMA ScanKeeps ==
  ASSUME Inv, NEW o \in work, Scan(o)
  PROVE  Inv'
<1>1. /\ UNCHANGED <<memory, program, phase, at, collected>> /\ phase = "mark"
      /\ UNCHANGED <<self, old, idx, result>>
      /\ marked' = marked \cup Edges(o)
      /\ work' = (work \ {o}) \cup (Edges(o) \ marked)
  BY DEF Scan, complete, program
<1>2. Live' = Live /\ Live = Objects
  BY <1>1, ObjectsStay DEF Live, Inv
<1>3. Roots' = Roots /\ Objects' = Objects /\ \A x : Edges(x)' = Edges(x)
  BY <1>1, MemoryStays DEF Inv
<1>4. /\ Roots \subseteq marked /\ marked \subseteq Objects /\ work \subseteq marked
      /\ \A x \in marked \ work : Edges(x) \subseteq marked
      /\ MarksLeast
      /\ at = Bottom /\ result = Nil /\ collected \in BOOLEAN
  BY <1>1 DEF Inv, MarksSound
<1>5. Edges(o) \subseteq Objects
  BY <1>2, <1>4, EdgesSound DEF Inv
<1>6. \A x \in marked' \ work' : Edges(x) \subseteq marked'
  BY <1>1, <1>4
<1>7. MarksLeast'
  <2>1. ASSUME NEW T, Roots \subseteq T, \A x \in T \cap marked' : Edges(x) \subseteq T
        PROVE  marked' \subseteq T
    <3>1. \A x \in T \cap marked : Edges(x) \subseteq T
      BY <1>1, <2>1
    <3>2. marked \subseteq T
      BY <1>4, <2>1, <3>1 DEF MarksLeast
    <3>3. o \in T \cap marked'
      BY <1>1, <1>4, <3>2
    <3> QED BY <1>1, <2>1, <3>2, <3>3
  <2> QED BY <1>3, <2>1 DEF MarksLeast
<1>8. MarksSound'
  BY <1>1, <1>3, <1>4, <1>5, <1>6, <1>7 DEF MarksSound
<1> QED BY <1>1, <1>2, <1>8, CollectorMoves

LEMMA SkipMarkedKeeps ==
  ASSUME Inv, SkipMarked
  PROVE  Inv'
<1>1. /\ UNCHANGED <<memory, program, phase, marked, work, collected>> /\ phase = "sweep"
      /\ UNCHANGED <<self, old, idx, result>>
      /\ at \in marked /\ at' = at + Words(getTotalFootprintInBytes(at))
  BY DEF SkipMarked, program
<1>2. Live' = Live
  BY <1>1, LiveStays DEF Inv
<1>3. Roots' = Roots /\ Walk' = Walk /\ Objects' = Objects /\ \A x : Edges(x)' = Edges(x)
  BY <1>1, MemoryStays DEF Inv
<1>4. at \in Objects /\ at' = at + Extent(at)
  BY <1>1 DEF Inv, MarksSound, Extent, Objects
<1>5. at' \in Walk /\ \A p \in Walk : at < p => at' <= p
  BY <1>4 DEF Inv, HeapSound, Tiled, Tiling, Objects
<1>6. ASSUME NEW p \in Objects, p < at'
      PROVE  p \in marked
  <2>1. p \in Nat /\ at \in Nat /\ at' \in Int /\ p \in Walk
    <3>1. Walk \subseteq Nat
      BY Layout DEF Inv, HeapSound, Tiled, Tiling
    <3>2. p \in Walk /\ at \in Walk
      BY <1>4, <1>6 DEF Objects
    <3> QED BY <1>5, <3>1, <3>2
  <2>2. p <= at
    BY <1>5, <1>6, <2>1
  <2> QED BY <1>1, <2>1, <2>2 DEF Inv, MarksSound
<1>7. MarksLeast'
  BY <1>1, <1>3, LeastStays DEF Inv, MarksSound
<1>8. MarksSound'
  BY <1>1, <1>3, <1>5, <1>6, <1>7 DEF Inv, MarksSound
<1> QED BY <1>1, <1>2, <1>8, CollectorMoves

\* Once everything is swept, what is left is what was marked.
LEMMA SweptHeap ==
  ASSUME HeapSound, MarksSound, phase = "sweep", at = Top
  PROVE  Objects = marked
<1>1. ASSUME NEW o \in Objects
      PROVE  o < Top
  <2>1. o \in Bottom .. Top - 1
    BY <1>1, ObjectWords DEF HeapSound
  <2> QED BY <2>1, Layout
<1>2. Objects \subseteq marked
  BY <1>1 DEF MarksSound
<1> QED BY <1>2 DEF MarksSound

LEMMA FinishCollectionKeeps ==
  ASSUME Inv, FinishCollection
  PROVE  Inv'
<1>1. /\ UNCHANGED <<memory, program, work, collected>> /\ phase = "sweep" /\ at = Top
      /\ phase' = "idle" /\ marked' = {} /\ at' = Bottom
  BY DEF FinishCollection, postCollect
<1>2. Live' = Live
  BY <1>1, SweptHeap, ObjectsStay DEF Inv, Live
<1>3. MarksSound'
  BY <1>1 DEF Inv, MarksSound
<1> QED BY <1>1, <1>2, <1>3, CollectorMoves

-----------------------------------------------------------------------------
(* From marking to sweeping: the objects that were not reached are given up.  *)

LEMMA StartSweepKeeps ==
  ASSUME Inv, StartSweep
  PROVE  Inv'
<1>1. /\ UNCHANGED <<memory, self, old, idx, result, code, sz, pc, fault, marked, work, at, collected>>
      /\ phase = "mark" /\ work = {} /\ phase' = "sweep"
      /\ tbl' = IF tbl \in Objects \ marked THEN Dangling ELSE tbl
  BY DEF StartSweep, postMarkProcessing
<1>2. /\ Roots \subseteq marked /\ marked \subseteq Objects
      /\ \A o \in marked : Edges(o) \subseteq marked
      /\ result = Nil /\ at = Bottom
  BY <1>1 DEF Inv, MarksSound
<1>3. Live = Objects /\ Live' = marked
  BY <1>1 DEF Live
<1>4. Roots' = Roots /\ Walk' = Walk /\ Objects' = Objects /\ \A o : Edges(o)' = Edges(o)
  BY <1>1, MemoryStays DEF Inv
<1>5. \A o : /\ Kind(o)' = Kind(o)
             /\ size_(o)' = size_(o)
             /\ remainingCapacity_(o)' = remainingCapacity_(o)
             /\ backingArray_(o)' = backingArray_(o)
             /\ Indices(o)' = Indices(o)
             /\ \A i : Key(o, i)' = Key(o, i) /\ Val(o, i)' = Val(o, i)
  BY <1>1 DEF Kind, size_, remainingCapacity_, backingArray_, Indices, Key, Val, EntryAt
<1>6. Tables' = {t \in Tables : t = GlobalVariables \/ t \in marked}
  BY <1>2, <1>3, <1>5 DEF Tables
<1>7. Arrays' = {a \in Arrays : a \in marked}
  BY <1>2, <1>3, <1>5 DEF Arrays
<1>8. ASSUME NEW t \in Tables', backingArray_(t) # Null
      PROVE  backingArray_(t) \in marked
  <2>1. CASE t = GlobalVariables
    BY <1>2, <1>8, <2>1 DEF Roots, MarkingFn
  <2>2. CASE t \in marked
    <3>1. Kind(t) = HashTableKind
      BY <1>6, <1>8 DEF Tables, Inv, HeapSound
    <3>2. backingArray_(t) \in Edges(t)
      BY <1>8, <3>1 DEF Edges, start, HashTableKind, RefArrayKind, StringKind
    <3> QED BY <1>2, <2>2, <3>2
  <2> QED BY <1>6, <1>8, <2>1, <2>2
<1>9. ASSUME NEW t \in Tables'
       PROVE  SoundTable(t)'
  <2>1. SoundTable(t)
    BY <1>6, <1>9 DEF Inv, HeapSound
  <2>2. backingArray_(t) # Null => backingArray_(t) \in Arrays'
    BY <1>7, <1>8, <1>9, <2>1 DEF SoundTable
  <2> QED BY <1>1, <1>5, <2>1, <2>2 DEF SoundTable
<1>10. ASSUME NEW a \in Arrays', NEW i \in Indices(a)'
       PROVE  Good(Key(a, i))' /\ Good(Val(a, i))'
  <2>1. a \in Arrays /\ a \in marked /\ i \in Indices(a)
    BY <1>5, <1>7, <1>10
  <2>2. Good(Key(a, i)) /\ Good(Val(a, i))
    BY <2>1 DEF Inv, HeapSound
  <2>3. start(a) = scanRefArray(a)
    BY <2>1 DEF start, Arrays, HashTableKind, RefArrayKind, StringKind
  <2>4. ASSUME NEW v \in {Key(a, i), Val(a, i)}, v \in {OBJECT} \X (Objects \ Arrays)
        PROVE  v \in {OBJECT} \X (marked \ Arrays)
    <3>1. v[2] # Null /\ IsObject(v) /\ v[2] \in Objects \ Arrays
      BY <2>4, GlobalsOutside DEF IsObject, Inv, HeapSound
    <3>2. v[2] \in scanRefArray(a)
      BY <2>1, <2>4, <3>1 DEF scanRefArray
    <3>3. v[2] \in marked
      BY <1>2, <2>1, <2>3, <3>2, <3>1 DEF Edges
    <3> QED BY <2>4, <3>1, <3>3
  <2>5. \A v : Good(v) <=> \/ v = Nil
                           \/ v \in {INTEGER} \X Int
                           \/ v \in {OBJECT} \X (Objects \ Arrays)
    BY <1>3 DEF Good
  <2>6. \A v \in {Key(a, i), Val(a, i)} : \/ v = Nil
                          \/ v \in {INTEGER} \X Int
                          \/ v \in {OBJECT} \X (marked \ Arrays)
    BY <2>2, <2>4, <2>5
  <2> QED BY <1>3, <1>5, <1>7, <2>6 DEF Good
<1>11. HeapSound'
  <2>1. Tiled'
    <3>1. Tiling(Walk)'
      <4>1. \A p : Extent(p)' = Extent(p)
        BY <1>1 DEF Extent, getTotalFootprintInBytes, getObjectSizeInBytesWithHeader, IsHole, Size,
           Kind, ArraySize, StringSize, size_
      <4> QED BY <4>1, WalkStays DEF Inv, HeapSound
    <3> QED BY <1>1, <1>4, <1>5, <3>1 DEF Inv, HeapSound, Tiled
  <2>2. \A t, u \in Tables' :
          t # u /\ backingArray_(t)' # Null => backingArray_(t)' # backingArray_(u)'
    BY <1>5, <1>6 DEF Inv, HeapSound
  <2>3. Kind(GlobalVariables)' = HashTableKind
    BY <1>5 DEF Inv, HeapSound
  <2> QED BY <1>9, <1>10, <2>1, <2>2, <2>3 DEF HeapSound
<1>12. LocalsSound'
  <2>1. self \in {Null} \cup Tables'
    BY <1>2, <1>6 DEF Inv, LocalsSound, Roots, StackRoots
  <2>2. old \in {Null} \cup Arrays'
    BY <1>2, <1>7 DEF Inv, LocalsSound, Roots, StackRoots
  <2>3. Good(idx)'
    <3>1. Good(idx)
      BY DEF Inv, LocalsSound
    <3>2. ASSUME idx \in {OBJECT} \X (Objects \ Arrays)
          PROVE  idx \in {OBJECT} \X (marked \ Arrays)
      <4>1. IsObject(idx) /\ idx[2] \in Objects \ Arrays /\ idx[2] # Null
        BY <3>2, GlobalsOutside DEF IsObject, Inv, HeapSound
      <4>2. idx[2] \in Roots
        BY <4>1 DEF Roots, StackRoots
      <4> QED BY <1>2, <3>2, <4>1, <4>2
    <3> QED BY <1>1, <1>3, <1>7, <3>1, <3>2 DEF Good
  <2>4. Good(result)'
    BY <1>1, <1>2 DEF Good
  <2>5. tbl' \in {Null, Dangling} \cup Tables'
    BY <1>1, <1>3, <1>6 DEF Inv, LocalsSound, Tables
  <2> QED BY <1>1, <1>5, <2>1, <2>2, <2>3, <2>4, <2>5 DEF LocalsSound
<1>13. ControlSound'
  <2>1. pc \in {"run", "initialize"}
    BY <1>1 DEF Inv, ControlSound
  <2> QED BY <1>1, <1>5, <2>1 DEF Inv, ControlSound
<1>14. CodeSound'
  BY <1>1 DEF Inv, CodeSound
<1>15. MarksSound'
  <2>1. Bottom \in Walk
    BY DEF Inv, HeapSound, Tiled, Tiling
  <2>2. ASSUME NEW o \in Objects
        PROVE  ~(o < Bottom)
    <3>1. o \in Bottom .. Top - 1
      BY <2>2, ObjectWords DEF Inv, HeapSound
    <3> QED BY <3>1, Layout
  <2>3. MarksLeast'
    BY <1>1, <1>4, LeastStays DEF Inv, MarksSound
  <2> QED BY <1>1, <1>2, <1>4, <2>1, <2>2, <2>3 DEF Inv, MarksSound
<1> QED BY <1>11, <1>12, <1>13, <1>14, <1>15 DEF Inv

\* Of the objects that stay, nothing changes.
LEMMA HeapAlike ==
  ASSUME HeapSound, Tiled', Live' = Live, pc' # "aborted" => pc # "aborted",
         \A o \in Live \cup {GlobalVariables} : Alike(o)
  PROVE  /\ HeapSound'
         /\ Tables' = Tables
         /\ Arrays' = Arrays
         /\ \A t \in Tables : backingArray_(t)' = backingArray_(t) /\ size_(t)' = size_(t)
         /\ \A a \in Arrays : size_(a)' = size_(a)
         /\ \A v : Good(v)' <=> Good(v)
<1>1. \A o \in Live \cup {GlobalVariables} : Kind(o)' = Kind(o)
  BY DEF Alike
<1>2. Kind(GlobalVariables) = HashTableKind /\ Kind(GlobalVariables)' = HashTableKind
  BY <1>1 DEF HeapSound
<1>3. Tables' = Tables /\ Arrays' = Arrays
  BY <1>1 DEF Tables, Arrays
<1>4. \A v : Good(v)' <=> Good(v)
  BY <1>3 DEF Good
<1>5. ASSUME NEW a \in Arrays
      PROVE  /\ Indices(a)' = Indices(a) /\ size_(a)' = size_(a)
             /\ \A i \in Indices(a) : Key(a, i)' = Key(a, i) /\ Val(a, i)' = Val(a, i)
  BY IndicesAlike DEF Arrays, Alike
<1>6. ASSUME NEW t \in Tables
      PROVE  /\ backingArray_(t)' = backingArray_(t)
             /\ size_(t)' = size_(t)
             /\ remainingCapacity_(t)' = remainingCapacity_(t)
  BY <1>2 DEF Tables, Alike
<1>7. ASSUME NEW t \in Tables'
      PROVE  SoundTable(t)'
  <2>1. SoundTable(t)
    BY <1>3, <1>7 DEF HeapSound
  <2> QED BY <1>3, <1>5, <1>6, <1>7, <2>1 DEF SoundTable
<1>8. \A t, u \in Tables' :
         t # u /\ backingArray_(t)' # Null => backingArray_(t)' # backingArray_(u)'
  BY <1>3, <1>6 DEF HeapSound
<1>9. ASSUME NEW a \in Arrays', NEW i \in Indices(a)'
      PROVE  Good(Key(a, i))' /\ Good(Val(a, i))'
  <2>1. /\ Good(Key(a, i)) /\ Good(Val(a, i))
        /\ Key(a, i)' = Key(a, i) /\ Val(a, i)' = Val(a, i)
    BY <1>3, <1>5, <1>9 DEF HeapSound
  <2> QED BY <1>3, <2>1 DEF Good
<1>10. HeapSound'
  BY <1>2, <1>7, <1>8, <1>9 DEF HeapSound
<1> QED BY <1>3, <1>4, <1>5, <1>6, <1>10

\* An object that stays as it is refers to what it did.
LEMMA EdgesAlike ==
  ASSUME NEW o, Alike(o), Kind(o) \in {HashTableKind, RefArrayKind, StringKind}
  PROVE  Edges(o)' = Edges(o)
<1>1. Kind(o)' = Kind(o)
  BY DEF Alike
<1>2. CASE Kind(o) = HashTableKind
  BY <1>1, <1>2 DEF Alike, Edges, start, resume, getIndirectObject, HashTableKind, RefArrayKind, StringKind
<1>3. CASE Kind(o) = RefArrayKind
  <2>1. /\ Indices(o)' = Indices(o)
        /\ \A i \in Indices(o) : Key(o, i)' = Key(o, i) /\ Val(o, i)' = Val(o, i)
    BY <1>3 DEF Alike, Indices
  <2>2. scanRefArray(o)' = scanRefArray(o)
    BY <2>1 DEF scanRefArray
  <2> QED BY <1>1, <1>3, <2>2 DEF Edges, start, resume, getIndirectObject, HashTableKind, RefArrayKind, StringKind
<1>4. CASE Kind(o) = StringKind
  BY <1>1, <1>4 DEF Edges, start, resume, getIndirectObject, HashTableKind, RefArrayKind, StringKind
<1> QED BY <1>2, <1>3, <1>4

\* The marked object where the gap at the sweep ends, if there is one.
LEMMA GapEnds ==
  ASSUME HeapSound, MarksSound, phase = "sweep", at < Top,
         NEW next, next = CHOOSE q \in {o \in marked : o > at} \cup {Top} :
                            \A r \in {o \in marked : o > at} \cup {Top} : q <= r
  PROVE  /\ at \in Walk \ {Top}
         /\ next \in Walk
         /\ at < next
         /\ \A o \in marked : o <= at \/ next <= o
<1> DEFINE S == {o \in marked : o > at} \cup {Top}
<1>1. at \in Walk /\ marked \subseteq Objects
  BY DEF MarksSound
<1>2. marked \subseteq Walk /\ Top \in Walk /\ Walk \subseteq Nat
  BY <1>1, Layout DEF Objects, HeapSound, Tiled, Tiling
<1>3. \E q \in S : \A r \in S : q <= r
  <2>1. S \subseteq Nat /\ S # {}
    BY <1>2
  <2> HIDE DEF S
  <2> QED BY <2>1, LeastNatural
<1>4. next \in S /\ \A r \in S : next <= r
  BY <1>3
<1>5. at < next /\ next \in Walk
  BY <1>2, <1>4
<1>6. ASSUME NEW o \in marked, ~(o <= at)
      PROVE  next <= o
  <2>1. o > at
    BY <1>1, <1>2, <1>6
  <2> QED BY <1>4, <2>1
<1>7. at # Top
  BY <1>1, <1>2
<1> QED BY <1>1, <1>5, <1>6, <1>7

\* The gap from one place of the walk to another is swept.
Sweeps(g, n) == SweepGap /\ g = at /\ n = at'

\* What lies between two places of the walk becomes a hole, and no marked object
\* lies there.
LEMMA GapSwept ==
  ASSUME Inv, NEW g, NEW n, Sweeps(g, n)
  PROVE  /\ phase = "sweep" /\ g \notin marked
         /\ UNCHANGED <<self, old, idx, tbl, result, code, sz, pc, fault>>
         /\ UNCHANGED <<phase, marked, work, collected>>
         /\ n \in Int /\ n \in Walk'
         /\ Tiled'
         /\ Objects' = {o \in Objects : o < g \/ o >= n}
         /\ marked \subseteq Objects'
         /\ \A o \in Objects' \cup {GlobalVariables} : Alike(o)
<1> DEFINE next == CHOOSE q \in {o \in marked : o > at} \cup {Top} :
                     \A r \in {o \in marked : o > at} \cup {Top} : q <= r
<1>1. n = next
  BY DEF Sweeps, SweepGap
<1>2. /\ phase = "sweep" /\ g \notin marked /\ g < Top
      /\ memory' = [q \in DOMAIN memory |-> IF q \in g .. n - 1 THEN HoleWord(q, g, n) ELSE memory[q]]
      /\ UNCHANGED <<program, phase, marked, work, collected>>
  BY <1>1 DEF Sweeps, SweepGap, isAllowUserHeapWalk
<1>3. /\ g \in Walk \ {Top} /\ n \in Walk /\ g < n
      /\ \A o \in marked : o <= g \/ n <= o
  BY <1>1, <1>2, GapEnds DEF Inv, Sweeps
<1> HIDE DEF next
<1>4. UNCHANGED <<self, old, idx, tbl, result, code, sz, pc, fault>>
  BY <1>2 DEF program
<1>5. /\ Walk \subseteq Bottom .. Top /\ g \in Nat /\ n \in Nat /\ g >= Bottom /\ n <= Top
      /\ Bottom = 8 /\ GlobalVariables = 2 /\ Top \in Nat
  BY <1>3, Layout DEF Inv, HeapSound, Tiled, Tiling
<1>6. memory \in [GlobalVariables .. Top - 1 -> Int]
  BY DEF Inv, HeapSound, Tiled
<1>7. /\ memory' \in [GlobalVariables .. Top - 1 -> Int]
      /\ memory'[g] = -(n - g)
      /\ \A q \in GlobalVariables .. Top - 1 : q < g \/ n <= q => memory'[q] = memory[q]
  <2>1. \A q : HoleWord(q, g, n) \in Int
    BY <1>5, SMT DEF HoleWord, Stale, OBJECT
  <2>2. g \in GlobalVariables .. Top - 1 /\ g \in g .. n - 1
    BY <1>2, <1>3, <1>5
  <2>3. HoleWord(g, g, n) = -(n - g)
    BY DEF HoleWord
  <2>4. ASSUME NEW q \in GlobalVariables .. Top - 1, q < g \/ n <= q
        PROVE  q \notin g .. n - 1
    BY <1>5, <2>4
  <2> QED BY <1>2, <1>6, <2>1, <2>2, <2>3, <2>4
<1>8. IsHole(g)' /\ Extent(g)' = n - g
  <2>1. memory'[g] < 0 /\ -memory'[g] = n - g
    BY <1>3, <1>5, <1>7
  <2> QED BY <2>1 DEF IsHole, Extent
<1>9. ASSUME NEW p \in Walk \ {Top}, p < g \/ p >= n
      PROVE  \A q \in p .. p + Extent(p) - 1 : memory'[q] = memory[q]
  <2>1. /\ p \in Nat /\ Extent(p) \in Nat \ {0}
        /\ p .. p + Extent(p) - 1 \subseteq GlobalVariables .. Top - 1
        /\ p + Extent(p) <= g \/ g + Extent(g) <= p
        /\ Extent(g) \in Nat \ {0}
    BY <1>3, <1>5, <1>9, Places DEF Inv, HeapSound
  <2>2. p + Extent(p) <= g \/ p >= n
    BY <1>5, <1>9, <2>1
  <2>3. ASSUME NEW q \in p .. p + Extent(p) - 1
        PROVE  q < g \/ n <= q
    BY <1>5, <2>1, <2>2
  <2> QED BY <1>7, <2>1, <2>3
<1>10. ASSUME NEW p \in Walk \ {Top}, p < g \/ p >= n
       PROVE  /\ Extent(p)' = Extent(p) /\ (IsHole(p)' <=> IsHole(p))
              /\ p \in Objects => Alike(p)
  <2>1. CASE IsHole(p)
    <3>1. p \in p .. p + Extent(p) - 1
      BY <1>10, Places DEF Inv, HeapSound
    <3> QED BY <1>9, <1>10, <2>1, <3>1, HoleAlike DEF Objects
  <2>2. CASE ~IsHole(p)
    <3>1. p \in Objects
      BY <1>10, <2>2 DEF Objects
    <3> QED BY <1>9, <1>10, <2>2, <3>1, WordsAlike DEF Inv, HeapSound
  <2> QED BY <2>1, <2>2
<1>11. /\ Walk' = {q \in Walk : q <= g \/ q >= n}
       /\ Tiling(Walk)'
  BY <1>3, <1>8, <1>10, WalkJoined DEF Inv, HeapSound
<1>12. Objects' = {o \in Objects : o < g \/ o >= n}
  <2>1. ASSUME NEW q \in Walk
        PROVE  q \in Int /\ (q <= g <=> q < g \/ q = g)
    BY <1>5, <2>1
  <2> QED BY <1>3, <1>5, <1>8, <1>10, <1>11, <2>1 DEF Objects
<1>13. marked \subseteq Objects'
  <2>1. marked \subseteq Objects
    BY <1>2 DEF Inv, MarksSound
  <2>2. ASSUME NEW o \in marked
        PROVE  o < g \/ o >= n
    <3>1. o \in Int /\ (o <= g \/ n <= o) /\ o # g
      BY <1>2, <1>3, <1>5, <2>1 DEF Objects
    <3> QED BY <1>5, <3>1
  <2> QED BY <1>10, <1>12, <2>1, <2>2 DEF Objects
<1>14. Alike(GlobalVariables)
  <2>1. \A q \in GlobalVariables .. Bottom - 1 : q \in GlobalVariables .. Top - 1 /\ q < g
    BY <1>2, <1>5
  <2> QED BY <1>7, <2>1, GlobalsAlike DEF Inv, HeapSound
<1>15. Tiled'
  <2>1. ASSUME NEW o \in Objects'
        PROVE  /\ Kind(o)' \in {HashTableKind, RefArrayKind, StringKind}
               /\ Kind(o)' # HashTableKind => size_(o)' \in Nat
    <3>1. o \in Objects /\ Alike(o)
      BY <1>10, <1>12, <2>1 DEF Objects
    <3> QED BY <3>1 DEF Inv, HeapSound, Tiled, Alike
  <2> QED BY <1>7, <1>11, <2>1 DEF Inv, HeapSound, Tiled
<1>16. \A o \in Objects' : Alike(o)
  BY <1>10, <1>12 DEF Objects
<1>17. n \in Walk' /\ n \in Int
  BY <1>3, <1>5, <1>11
<1> QED BY <1>2, <1>4, <1>12, <1>13, <1>14, <1>15, <1>16, <1>17

\* What the roots are does not depend on what is swept.
LEMMA RootsUnswept ==
  ASSUME Inv, SweepGap
  PROVE  Roots' = Roots
<1>1. PICK g, n : Sweeps(g, n)
  BY DEF Sweeps
<1>2. /\ UNCHANGED <<self, old, idx, tbl, result, code, sz, pc, fault>>
      /\ Alike(GlobalVariables)
  BY <1>1, GapSwept
<1>3. backingArray_(GlobalVariables)' = backingArray_(GlobalVariables)
  BY <1>2 DEF Alike, Inv, HeapSound
<1> QED BY <1>2, <1>3 DEF Roots, MarkingFn, StackRoots

LEMMA SweepGapKeeps ==
  ASSUME Inv, SweepGap
  PROVE  Inv'
<1>1. PICK g, n : Sweeps(g, n)
  BY DEF Sweeps
<1>2. /\ phase = "sweep" /\ g \notin marked
      /\ UNCHANGED <<self, old, idx, tbl, result, code, sz, pc, fault>>
      /\ UNCHANGED <<phase, marked, work, collected>>
      /\ n \in Int /\ n \in Walk'
      /\ Tiled'
      /\ Objects' = {o \in Objects : o < g \/ o >= n}
      /\ marked \subseteq Objects'
      /\ \A o \in Objects' \cup {GlobalVariables} : Alike(o)
  BY <1>1, GapSwept
<1>3. Live' = Live /\ Live = marked
  BY <1>2 DEF Live
<1>4. /\ HeapSound' /\ Tables' = Tables /\ Arrays' = Arrays
      /\ \A t \in Tables : backingArray_(t)' = backingArray_(t) /\ size_(t)' = size_(t)
      /\ \A a \in Arrays : size_(a)' = size_(a)
      /\ \A v : Good(v)' <=> Good(v)
  BY <1>2, <1>3, HeapAlike DEF Inv
<1>5. LocalsSound'
  <2>1. Good(idx)' /\ Good(result)'
    BY <1>2, <1>4 DEF Inv, LocalsSound, Good
  <2> QED BY <1>2, <1>4, <2>1 DEF Inv, LocalsSound
<1>6. ControlSound'
  <2>1. pc \in {"run", "initialize"}
    BY <1>2 DEF Inv, ControlSound
  <2>2. self # Null => self \in Tables
    BY DEF Inv, LocalsSound
  <2>3. old # Null => old \in Arrays
    BY DEF Inv, LocalsSound
  <2> QED BY <1>2, <1>4, <2>1, <2>2, <2>3 DEF Inv, ControlSound
<1>7. CodeSound'
  BY <1>2, <1>4 DEF Inv, CodeSound
<1>8. Roots' = Roots
  BY RootsUnswept
<1>9. MarksSound'
  <2>1. \A o \in marked : Edges(o)' = Edges(o)
    <3>1. marked \subseteq Objects
      BY <1>2 DEF Inv, MarksSound
    <3> QED BY <1>2, <3>1, EdgesAlike DEF Inv, HeapSound, Tiled
  <2>2. ASSUME NEW o \in Objects', o < n
        PROVE  o \in marked
    <3>1. o \in Objects /\ o < g
      <4>1. o \in Objects
        BY <1>2
      <4>2. o \in Int
        BY <4>1, ObjectWords DEF Inv, HeapSound
      <4> QED BY <1>2, <2>2, <4>1, <4>2
    <3> QED BY <1>1, <1>2, <3>1 DEF Inv, MarksSound, Sweeps
  <2>3. MarksLeast'
    BY <1>2, <1>8, <2>1, LeastStays DEF Inv, MarksSound
  <2> QED BY <1>1, <1>2, <1>8, <2>1, <2>2, <2>3 DEF Inv, MarksSound, Sweeps
<1> QED BY <1>4, <1>5, <1>6, <1>7, <1>9 DEF Inv

-----------------------------------------------------------------------------
(* New objects. *)

LEMMA FilledIs ==
  ASSUME NEW bytes, NEW p, NEW c, NEW rest
  PROVE  Filled(p, bytes, c, rest) =
           [q \in DOMAIN memory |->
              IF q \in p .. (p + Words(bytes)) - 1
                THEN IF q - p < Len(c) THEN c[q - p + 1] ELSE rest[q]
              ELSE IF q = p + Words(bytes) /\ q < p + Extent(p)
                THEN -(Extent(p) - Words(bytes))
              ELSE memory[q]]
BY DEF Filled

\* What allocation makes of the words of the hole at p, and of all others.
Constructed(p, n, c, rest, m) ==
  /\ m \in [GlobalVariables .. Top - 1 -> Int]
  /\ p \in Walk \ {Top} /\ IsHole(p) /\ n <= Extent(p)
  /\ \A q \in p .. p + n - 1 : m[q] = IF q - p < Len(c) THEN c[q - p + 1] ELSE rest[q]
  /\ n < Extent(p) => m[p + n] = -(Extent(p) - n)
  /\ \A q \in GlobalVariables .. Top - 1 :
       q \notin p .. p + Extent(p) - 1 => m[q] = memory[q]

LEMMA FilledWords ==
  ASSUME Tiled, NEW bytes, Words(bytes) \in Nat, Fits(bytes), NEW p, p = Place(bytes),
         NEW c \in Seq(Int), NEW rest \in [GlobalVariables .. Top - 1 -> Int],
         NEW m, m = Filled(p, bytes, c, rest)
  PROVE  Constructed(p, Words(bytes), c, rest, m)
<1> DEFINE n == Words(bytes)
<1>1. /\ p \in Walk \ {Top} /\ IsHole(p) /\ n <= Extent(p)
      /\ p \in Nat /\ Extent(p) \in Nat \ {0} /\ n \in Nat
      /\ p .. p + Extent(p) - 1 \subseteq GlobalVariables .. Top - 1
  BY PlaceFits, Places
<1>2. memory \in [GlobalVariables .. Top - 1 -> Int]
  BY DEF Tiled
<1>3. m = [q \in GlobalVariables .. Top - 1 |->
             IF q \in p .. (p + n) - 1
               THEN IF q - p < Len(c) THEN c[q - p + 1] ELSE rest[q]
             ELSE IF q = p + n /\ q < p + Extent(p)
               THEN -(Extent(p) - n)
             ELSE memory[q]]
  <2>1. DOMAIN memory = GlobalVariables .. Top - 1
    BY <1>2
  <2>2. Filled(p, bytes, c, rest) =
          [q \in DOMAIN memory |->
             IF q \in p .. (p + Words(bytes)) - 1
               THEN IF q - p < Len(c) THEN c[q - p + 1] ELSE rest[q]
             ELSE IF q = p + Words(bytes) /\ q < p + Extent(p)
               THEN -(Extent(p) - Words(bytes))
             ELSE memory[q]]
    BY FilledIs
  <2> QED BY <2>1, <2>2
<1> HIDE DEF n
<1>4. ASSUME NEW q \in p .. p + n - 1
      PROVE  /\ q \in GlobalVariables .. Top - 1
             /\ m[q] = IF q - p < Len(c) THEN c[q - p + 1] ELSE rest[q]
  <2>1. q \in p .. p + Extent(p) - 1
    BY <1>1
  <2> QED BY <1>1, <1>3, <2>1
<1>5. ASSUME n < Extent(p)
      PROVE  m[p + n] = -(Extent(p) - n)
  <2>1. p + n \in p .. p + Extent(p) - 1 /\ p + n \notin p .. p + n - 1 /\ p + n < p + Extent(p)
    BY <1>1, <1>5
  <2> QED BY <1>1, <1>3, <2>1
<1>6. ASSUME NEW q \in GlobalVariables .. Top - 1, q \notin p .. p + Extent(p) - 1
      PROVE  m[q] = memory[q]
  <2>1. q \notin p .. (p + n) - 1 /\ ~(q = p + n /\ q < p + Extent(p))
    BY <1>1, <1>6
  <2> QED BY <1>3, <2>1
<1>7. ASSUME NEW q \in GlobalVariables .. Top - 1
      PROVE  m[q] \in Int
  <2>1. CASE q \in p .. p + n - 1
    <3>1. q - p \in Nat /\ (q - p < Len(c) => q - p + 1 \in 1 .. Len(c))
      BY <1>1, <2>1
    <3>2. q - p < Len(c) => c[q - p + 1] \in Int
      BY <3>1
    <3> QED BY <1>4, <2>1, <3>2
  <2>2. CASE q \notin p .. p + n - 1
    BY <1>1, <1>2, <1>3, <2>2
  <2> QED BY <2>1, <2>2
<1>8. m \in [GlobalVariables .. Top - 1 -> Int]
  BY <1>3, <1>7
<1> QED BY <1>1, <1>4, <1>5, <1>6, <1>8 DEF n, Constructed

LEMMA ObjectAdded ==
  ASSUME Inv, phase = "idle", phase' = "idle", pc # "aborted", NEW p, NEW n,
         Allocates(p, n, GlobalVariables),
         \A q \in GlobalVariables .. Bottom - 1 : memory'[q] = memory[q],
         \/ Kind(p)' = StringKind
         \/ Kind(p)' = HashTableKind /\ backingArray_(p)' = Null
  PROVE  /\ HeapSound'
         /\ p \in Live' \ Arrays'
         /\ p # Null
         /\ Tables' = Tables \cup {q \in {p} : Kind(q)' = HashTableKind}
         /\ \A t \in Tables : backingArray_(t)' = backingArray_(t)
         /\ \A v : Good(v) => Good(v)'
<1>1. /\ p \notin Objects
      /\ Objects' = Objects \cup {p}
      /\ Tiled'
      /\ \A o \in Objects \cup {GlobalVariables} : o # GlobalVariables => Alike(o)
  BY Allocation DEF Inv, HeapSound
<1>2. Alike(GlobalVariables)
  BY GlobalsAlike DEF Inv, HeapSound
<1>3. p # GlobalVariables /\ p # Null
  <2>1. p \in Bottom .. Top - 1
    BY Places DEF Allocates, Inv, HeapSound
  <2> QED BY <2>1, Layout
<1>4. /\ HeapSound' /\ Arrays' = Arrays
      /\ Tables' = Tables \cup {q \in {p} : Kind(q)' = HashTableKind}
      /\ \A t \in Tables : backingArray_(t)' = backingArray_(t)
      /\ \A v : Good(v) => Good(v)'
  <2>1. \A o \in Objects \cup {GlobalVariables} : Alike(o)
    BY <1>1, <1>2
  <2> QED BY <1>1, <1>3, <2>1, HeapGrows DEF Inv
<1>5. p \in Live' \ Arrays'
  <2>1. Arrays \subseteq Objects
    BY DEF Arrays, Live
  <2> QED BY <1>1, <1>4, <2>1 DEF Live
<1> QED BY <1>3, <1>4, <1>5

\* StringObject::Allocate.
LEMMA StringAdded ==
  ASSUME Tiled, NEW l \in Nat, Fits(StringBytes(l)), memory' = AllocateString(l),
         NEW p, p = Place(StringBytes(l))
  PROVE  /\ Allocates(p, Words(StringBytes(l)), GlobalVariables)
         /\ \A q \in GlobalVariables .. Bottom - 1 : memory'[q] = memory[q]
         /\ Kind(p)' = StringKind
<1> DEFINE n == Words(StringBytes(l))
           k == (l + 7) \div 8
           c == NewString(l)
<1>1. n \in Nat /\ n % 2 = 0 /\ n >= 4
  BY StringLayout
<1>2. /\ c \in Seq(Int) /\ Len(c) >= 3
      /\ c[1] = StringKind /\ c[3] = l
  <2>1. k \in Nat
    BY SMT
  <2>2. [i \in 1 .. k |-> Stale] \in Seq(Int) /\ Len([i \in 1 .. k |-> Stale]) = k
    <3> HIDE DEF k
    <3> QED BY <2>1, SMT DEF Stale, OBJECT
  <2>3. <<StringKind, l, l>> \in Seq(Int) /\ Len(<<StringKind, l, l>>) = 3
    BY SMT DEF StringKind
  <2>4. c = <<StringKind, l, l>> \o [i \in 1 .. k |-> Stale]
    BY DEF NewString
  <2>8. PICK F, G : F = <<StringKind, l, l>> /\ G = [i \in 1 .. k |-> Stale]
    OBVIOUS
  <2> HIDE DEF k, c
  <2>5. F \in Seq(Int) /\ G \in Seq(Int) /\ Len(F) = 3 /\ Len(G) = k /\ c = F \o G
    BY <2>8, <2>2, <2>3, <2>4
  <2>6. /\ c \in Seq(Int) /\ Len(c) = 3 + k
        /\ \A i \in 1 .. 3 + k : c[i] = IF i <= 3 THEN F[i] ELSE G[i - 3]
    <3>1. /\ F \o G \in Seq(Int)
          /\ Len(F \o G) = Len(F) + Len(G)
          /\ \A i \in 1 .. Len(F) + Len(G) :
               (F \o G)[i] = IF i <= Len(F) THEN F[i] ELSE G[i - Len(F)]
      BY <2>5, ConcatProperties
    <3> QED BY <2>5, <3>1
  <2>7. F[1] = StringKind /\ F[3] = l
    BY <2>8
  <2>9. 1 \in 1 .. 3 + k /\ 3 \in 1 .. 3 + k
    BY <2>1
  <2> QED BY <2>1, <2>6, <2>7, <2>9
<1> HIDE DEF n, k, c
<1>3. memory \in [GlobalVariables .. Top - 1 -> Int]
  BY DEF Tiled
<1>4. memory' = Filled(p, StringBytes(l), c, memory)
  BY DEF AllocateString, allocateNonZero, c
<1>5. /\ memory' \in [GlobalVariables .. Top - 1 -> Int]
      /\ p \in Walk \ {Top} /\ IsHole(p) /\ n <= Extent(p)
      /\ \A q \in p .. p + n - 1 :
           memory'[q] = IF q - p < Len(c) THEN c[q - p + 1] ELSE memory[q]
      /\ n < Extent(p) => memory'[p + n] = -(Extent(p) - n)
      /\ \A q \in GlobalVariables .. Top - 1 :
           q \notin p .. p + Extent(p) - 1 => memory'[q] = memory[q]
  <2>1. Words(StringBytes(l)) \in Nat
    BY StringLayout
  <2>2. Constructed(p, n, c, memory, memory')
    BY <1>2, <1>3, <1>4, <2>1, FilledWords DEF n
  <2> QED BY <2>2 DEF Constructed
<1>6. p \in Nat /\ p >= Bottom /\ Extent(p) \in Nat
  BY <1>5, Places, Layout
<1>7. memory'[p] = StringKind /\ memory'[p + 2] = l
  <2>1. p \in p .. p + n - 1 /\ p + 2 \in p .. p + n - 1
    BY <1>1, <1>6
  <2>2. p - p < Len(c) /\ (p + 2) - p < Len(c) /\ p - p + 1 = 1 /\ (p + 2) - p + 1 = 3
    BY <1>2, <1>6
  <2> QED BY <1>2, <1>5, <2>1, <2>2
<1>8. Kind(p)' = StringKind /\ size_(p)' = l
  BY <1>7 DEF Kind, size_
<1>9. ~IsHole(p)' /\ Extent(p)' = n
  BY <1>8, ObjectLayoutNext DEF n
<1>10. \A q \in GlobalVariables .. Bottom - 1 : memory'[q] = memory[q]
  <2>1. \A q \in GlobalVariables .. Bottom - 1 :
          q \in GlobalVariables .. Top - 1 /\ q \notin p .. p + Extent(p) - 1
    BY <1>6, Layout
  <2> QED BY <1>5, <2>1
<1> QED BY <1>1, <1>5, <1>8, <1>9, <1>10 DEF Allocates, n

\* `newtable': a table without an array.
LEMMA TableAdded ==
  ASSUME Tiled, Fits(TableBytes), memory' = allocate(TableBytes, NewTable),
         NEW p, p = Place(TableBytes)
  PROVE  /\ Allocates(p, 6, GlobalVariables)
         /\ \A q \in GlobalVariables .. Bottom - 1 : memory'[q] = memory[q]
         /\ Kind(p)' = HashTableKind /\ backingArray_(p)' = Null
<1> DEFINE c == NewTable
<1>1. Words(TableBytes) = 6
  BY TableLayout
<1>2. /\ c \in Seq(Int) /\ Len(c) = 6
      /\ c[1] = HashTableKind /\ c[6] = Null
  BY SMT DEF NewTable, HashTableKind, Null
<1> HIDE DEF c
<1>3. Zeroed \in [GlobalVariables .. Top - 1 -> Int]
  BY DEF Tiled, Zeroed
<1>4. memory' = Filled(p, TableBytes, c, Zeroed)
  BY DEF allocate, c
<1>5. /\ memory' \in [GlobalVariables .. Top - 1 -> Int]
      /\ p \in Walk \ {Top} /\ IsHole(p) /\ 6 <= Extent(p)
      /\ \A q \in p .. p + 6 - 1 :
           memory'[q] = IF q - p < Len(c) THEN c[q - p + 1] ELSE Zeroed[q]
      /\ 6 < Extent(p) => memory'[p + 6] = -(Extent(p) - 6)
      /\ \A q \in GlobalVariables .. Top - 1 :
           q \notin p .. p + Extent(p) - 1 => memory'[q] = memory[q]
  <2>1. Words(TableBytes) \in Nat
    BY <1>1
  <2>2. Constructed(p, 6, c, Zeroed, memory')
    BY <1>1, <1>2, <1>3, <1>4, <2>1, FilledWords
  <2> QED BY <2>2 DEF Constructed
<1>6. p \in Nat /\ p >= Bottom /\ Extent(p) \in Nat
  BY <1>5, Places, Layout
<1>7. memory'[p] = HashTableKind /\ memory'[p + 5] = Null
  <2>1. p \in p .. p + 6 - 1 /\ p + 5 \in p .. p + 6 - 1
    BY <1>6
  <2>2. p - p < Len(c) /\ (p + 5) - p < Len(c) /\ p - p + 1 = 1 /\ (p + 5) - p + 1 = 6
    BY <1>2, <1>6
  <2> QED BY <1>2, <1>5, <2>1, <2>2
<1>8. Kind(p)' = HashTableKind /\ backingArray_(p)' = Null
  BY <1>7 DEF Kind, backingArray_
<1>9. ~IsHole(p)' /\ Extent(p)' = 6
  BY <1>8, ObjectLayoutNext
<1>10. \A q \in GlobalVariables .. Bottom - 1 : memory'[q] = memory[q]
  <2>1. \A q \in GlobalVariables .. Bottom - 1 :
          q \in GlobalVariables .. Top - 1 /\ q \notin p .. p + Extent(p) - 1
    BY <1>6, Layout
  <2> QED BY <1>5, <2>1
<1>11. 6 \in Nat /\ 6 >= 4 /\ 6 % 2 = 0
  BY SMT
<1> QED BY <1>5, <1>8, <1>9, <1>10, <1>11 DEF Allocates

LEMMA EvalStringKeeps ==
  ASSUME Inv, EvalString
  PROVE  Inv'
<1>1. /\ code \in Seq(Instruction) /\ code # <<>> /\ Head(code).op \in {"string", "name"}
      /\ pc = "run" /\ phase = "idle"
  BY DEF Inv, CodeSound, EvalString, Runs
<1> DEFINE l == Head(code).length
<1>2. CASE Collect(FALSE)
  BY <1>1, <1>2, CollectKeeps
<1>3. CASE OutOfMemory(StringBytes(l))
  BY <1>1, <1>3, Stops DEF OutOfMemory, Faults
<1>4. CASE /\ Fits(StringBytes(l))
           /\ memory' = AllocateString(l)
           /\ result' = <<OBJECT, Place(StringBytes(l))>>
           /\ tbl' = IF Runs("name") THEN GlobalVariables ELSE tbl
           /\ Continue
           /\ UNCHANGED <<self, old, idx, sz, pc, fault>>
  <2>1. l \in Nat
    <3>1. Head(code) \in Instruction
      BY <1>1
    <3> QED BY <1>1, <3>1 DEF Instruction
  <2>2. PICK p : p = Place(StringBytes(l))
    OBVIOUS
  <2>3. /\ code' = Tail(code) /\ result' = <<OBJECT, p>>
        /\ UNCHANGED <<phase, marked, work, at>> /\ collected' \in BOOLEAN
    BY <1>4, <2>2 DEF Continue
  <2>4. /\ Allocates(p, Words(StringBytes(l)), GlobalVariables)
        /\ \A q \in GlobalVariables .. Bottom - 1 : memory'[q] = memory[q]
        /\ Kind(p)' = StringKind
    <3> HIDE DEF l
    <3> QED BY <1>4, <2>1, <2>2, StringAdded DEF Inv, HeapSound
  <2> HIDE DEF l
  <2>5. /\ HeapSound'
        /\ p \in Live' \ Arrays'
        /\ Tables' = Tables
        /\ \A t \in Tables : backingArray_(t)' = backingArray_(t)
        /\ \A v : Good(v) => Good(v)'
    <3>1. /\ HeapSound'
          /\ p \in Live' \ Arrays'
          /\ Tables' = Tables \cup {q \in {p} : Kind(q)' = HashTableKind}
          /\ \A t \in Tables : backingArray_(t)' = backingArray_(t)
          /\ \A v : Good(v) => Good(v)'
      BY <1>1, <2>3, <2>4, ObjectAdded
    <3>2. Kind(p)' # HashTableKind
      BY <2>4 DEF StringKind, HashTableKind
    <3> QED BY <3>1, <3>2
  <2>6. LocalsSound'
    <3>1. Good(result)'
      BY <2>3, <2>5 DEF Good
    <3>2. Good(idx)'
      BY <1>4, <2>5 DEF Inv, LocalsSound, Good
    <3>3. self' = Null /\ old' = Null
      BY <1>1, <1>4 DEF Inv, ControlSound
    <3>4. tbl' \in {Null, Dangling} \cup Tables'
      <4>1. tbl \in {Null, Dangling} \cup Tables
        BY DEF Inv, LocalsSound
      <4>2. GlobalVariables \in Tables
        BY DEF Tables
      <4> QED BY <1>4, <2>5, <4>1, <4>2
    <3> QED BY <2>5, <3>1, <3>2, <3>3, <3>4 DEF LocalsSound
  <2>7. ControlSound'
    BY <1>1, <1>4, <2>5 DEF Inv, ControlSound
  <2>8. CodeSound'
    BY <1>1, <2>3, LineContinues DEF Inv
  <2>9. MarksSound'
    BY <1>1, <2>3, MarksIdle DEF Inv
  <2> QED BY <2>5, <2>6, <2>7, <2>8, <2>9 DEF Inv
<1> QED BY <1>2, <1>3, <1>4 DEF EvalString

LEMMA EvalVariableKeeps ==
  ASSUME Inv, EvalVariable
  PROVE  Inv'
<1>1. /\ code \in Seq(Instruction) /\ code # <<>> /\ Head(code).op = "variable"
      /\ pc = "run" /\ phase = "idle"
  BY DEF Inv, CodeSound, EvalVariable, Runs
<1> DEFINE l == Head(code).length
           g == backingArray_(GlobalVariables)
<1>2. CASE Collect(FALSE)
  BY <1>1, <1>2, CollectKeeps
<1>3. CASE OutOfMemory(StringBytes(l))
  BY <1>1, <1>3, Stops DEF OutOfMemory, Faults
<1>5. CASE Abort("no_array")
  BY <1>1, <1>5, Stops DEF Faults
<1>4. CASE /\ Fits(StringBytes(l))
           /\ g # Null
           /\ memory' = AllocateString(l)
           /\ result' = Nil \/ \E i \in Indices(g) : result' = Val(g, i)
           /\ Continue
           /\ UNCHANGED <<self, old, idx, tbl, sz, pc, fault>>
  <2>1. l \in Nat
    <3>1. Head(code) \in Instruction
      BY <1>1
    <3> QED BY <1>1, <3>1 DEF Instruction
  <2>2. PICK p : p = Place(StringBytes(l))
    OBVIOUS
  <2>3. /\ code' = Tail(code)
        /\ UNCHANGED <<phase, marked, work, at>> /\ collected' \in BOOLEAN
    BY <1>4 DEF Continue
  <2>4. /\ Allocates(p, Words(StringBytes(l)), GlobalVariables)
        /\ \A q \in GlobalVariables .. Bottom - 1 : memory'[q] = memory[q]
        /\ Kind(p)' = StringKind
    <3> HIDE DEF l
    <3> QED BY <1>4, <2>1, <2>2, StringAdded DEF Inv, HeapSound
  <2> HIDE DEF l
  <2>5. /\ HeapSound'
        /\ Tables' = Tables
        /\ \A t \in Tables : backingArray_(t)' = backingArray_(t)
        /\ \A v : Good(v) => Good(v)'
    <3>1. /\ HeapSound'
          /\ p \in Live' \ Arrays'
          /\ Tables' = Tables \cup {q \in {p} : Kind(q)' = HashTableKind}
          /\ \A t \in Tables : backingArray_(t)' = backingArray_(t)
          /\ \A v : Good(v) => Good(v)'
      BY <1>1, <2>3, <2>4, ObjectAdded
    <3>2. Kind(p)' # HashTableKind
      BY <2>4 DEF StringKind, HashTableKind
    <3> QED BY <3>1, <3>2
  <2>6. g # Null /\ g \in Arrays
    <3>1. GlobalVariables \in Tables
      BY DEF Tables
    <3> QED BY <1>4, <3>1 DEF Inv, HeapSound, SoundTable
  <2>7. Good(result')
    BY <1>4, <2>6, GoodNil DEF Inv, HeapSound
  <2> HIDE DEF g
  <2>9. LocalsSound'
    <3>1. \A v : Good(v)' <=> (v = Nil \/ v \in {INTEGER} \X Int \/ v \in {OBJECT} \X (Live' \ Arrays'))
      BY DEF Good
    <3>2. PICK r : r = result'
      OBVIOUS
    <3>3. Good(r)'
      BY <2>5, <2>7, <3>2
    <3>4. Good(result)'
      BY <3>1, <3>2, <3>3 DEF Good
    <3>5. Good(idx)'
      BY <1>4, <2>5 DEF Inv, LocalsSound, Good
    <3>6. self' = Null /\ old' = Null
      BY <1>1, <1>4 DEF Inv, ControlSound
    <3>7. tbl \in {Null, Dangling} \cup Tables
      BY DEF Inv, LocalsSound
    <3> QED BY <1>4, <2>5, <3>4, <3>5, <3>6, <3>7 DEF LocalsSound
  <2>10. ControlSound'
    BY <1>1, <1>4, <2>5 DEF Inv, ControlSound
  <2>11. CodeSound'
    BY <1>1, <2>3, LineContinues DEF Inv
  <2>12. MarksSound'
    BY <1>1, <2>3, MarksIdle DEF Inv
  <2> QED BY <2>5, <2>9, <2>10, <2>11, <2>12 DEF Inv
<1> QED BY <1>2, <1>3, <1>4, <1>5 DEF EvalVariable

LEMMA EvalNewTableKeeps ==
  ASSUME Inv, EvalNewTable
  PROVE  Inv'
<1>1. /\ code \in Seq(Instruction) /\ code # <<>> /\ Head(code).op = "newtable"
      /\ pc = "run" /\ phase = "idle"
  BY DEF Inv, CodeSound, EvalNewTable, Runs
<1>2. CASE Collect(FALSE)
  BY <1>1, <1>2, CollectKeeps
<1>3. CASE OutOfMemory(TableBytes)
  BY <1>1, <1>3, Stops DEF OutOfMemory, Faults
<1>4. CASE /\ Fits(TableBytes)
           /\ memory' = allocate(TableBytes, NewTable)
           /\ self' = Place(TableBytes)
           /\ sz' = TableSize
           /\ pc' = "initialize"
           /\ Continue
           /\ UNCHANGED <<old, idx, tbl, result, fault>>
  <2>1. PICK p : p = Place(TableBytes)
    OBVIOUS
  <2>2. /\ code' = Tail(code) /\ self' = p
        /\ UNCHANGED <<phase, marked, work, at>> /\ collected' \in BOOLEAN
    BY <1>4, <2>1 DEF Continue
  <2>3. /\ Allocates(p, 6, GlobalVariables)
        /\ \A q \in GlobalVariables .. Bottom - 1 : memory'[q] = memory[q]
        /\ Kind(p)' = HashTableKind /\ backingArray_(p)' = Null
    BY <1>4, <2>1, TableAdded DEF Inv, HeapSound
  <2>4. /\ HeapSound'
        /\ p \in Live' \ Arrays' /\ p # Null
        /\ Tables' = Tables \cup {q \in {p} : Kind(q)' = HashTableKind}
        /\ \A t \in Tables : backingArray_(t)' = backingArray_(t)
        /\ \A v : Good(v) => Good(v)'
    BY <1>1, <2>2, <2>3, ObjectAdded
  <2>5. Tables' = Tables \cup {p}
    BY <2>3, <2>4
  <2>7. old' = Null
    BY <1>1, <1>4 DEF Inv, ControlSound
  <2>8. LocalsSound'
    <3>1. Good(idx)' /\ Good(result)'
      BY <1>4, <2>4 DEF Inv, LocalsSound, Good
    <3>2. tbl \in {Null, Dangling} \cup Tables
      BY DEF Inv, LocalsSound
    <3> QED BY <1>4, <2>2, <2>4, <2>5, <2>7, <3>1, <3>2 DEF LocalsSound
  <2>9. ControlSound'
    <3>1. backingArray_(self)' = Null
      BY <2>2, <2>3 DEF backingArray_
    <3>2. TableSize \in Nat
      BY SizesAssumption
    <3> QED BY <1>1, <1>4, <2>2, <2>4, <2>7, <3>1, <3>2 DEF Inv, ControlSound
  <2>10. CodeSound'
    BY <1>1, <1>4, <2>2, LineContinues DEF Inv
  <2>11. MarksSound'
    BY <1>1, <2>2, MarksIdle DEF Inv
  <2> QED BY <2>4, <2>8, <2>9, <2>10, <2>11 DEF Inv
<1> QED BY <1>2, <1>3, <1>4 DEF EvalNewTable

-----------------------------------------------------------------------------
(* The array of a table. *)

LEMMA ArrayAdded ==
  ASSUME Tiled, NEW n \in Nat, Fits(ArrayBytes(n)), NEW p, p = Place(ArrayBytes(n)),
         NEW t, t = GlobalVariables \/ (t \in Objects /\ Kind(t) = HashTableKind),
         memory' = [AllocateArray(n) EXCEPT ![t + 2] = n, ![t + 3] = n, ![t + 5] = p]
  PROVE  /\ Allocates(p, Words(ArrayBytes(n)), t)
         /\ Kind(p)' = RefArrayKind /\ size_(p)' = n
         /\ \A i \in 0 .. n - 1 : Key(p, i)' = Nil /\ Val(p, i)' = Nil
         /\ size_(t)' = n /\ remainingCapacity_(t)' = n /\ backingArray_(t)' = p
<1> DEFINE w == Words(ArrayBytes(n))
           c == NewArray(n)
<1>1. w \in Nat /\ w % 2 = 0 /\ w >= 4 /\ w >= 3 + 5 * n
  BY ArrayLayout
<1>2. /\ c \in Seq(Int) /\ Len(c) = 3
      /\ c[1] = RefArrayKind /\ c[3] = n
  BY SMT DEF NewArray, RefArrayKind
<1> HIDE DEF w, c
<1>3. PICK m : m = AllocateArray(n)
  OBVIOUS
<1>4. Constructed(p, w, c, Zeroed, m)
  <2>1. Zeroed \in [GlobalVariables .. Top - 1 -> Int]
    BY DEF Tiled, Zeroed
  <2>2. m = Filled(p, ArrayBytes(n), c, Zeroed)
    BY <1>3 DEF AllocateArray, allocate, c
  <2>3. Words(ArrayBytes(n)) \in Nat
    BY ArrayLayout
  <2> QED BY <1>2, <2>1, <2>2, <2>3, FilledWords DEF w
<1>5. /\ m \in [GlobalVariables .. Top - 1 -> Int]
      /\ p \in Walk \ {Top} /\ IsHole(p) /\ w <= Extent(p)
      /\ \A q \in p .. p + w - 1 :
           m[q] = IF q - p < Len(c) THEN c[q - p + 1] ELSE Zeroed[q]
      /\ w < Extent(p) => m[p + w] = -(Extent(p) - w)
      /\ \A q \in GlobalVariables .. Top - 1 : q \notin p .. p + Extent(p) - 1 => m[q] = memory[q]
  BY <1>4 DEF Constructed
<1>6. /\ p \in Nat /\ p >= Bottom /\ Extent(p) \in Nat
      /\ p .. p + Extent(p) - 1 \subseteq GlobalVariables .. Top - 1
      /\ Bottom = 8 /\ GlobalVariables = 2 /\ Top \in Nat /\ Top > Bottom
  BY <1>5, Places, Layout
<1>7. /\ t \in Nat
      /\ \A k \in {0, 2, 3, 5} : /\ t + k \in GlobalVariables .. Top - 1
                                 /\ t + k \notin p .. p + Extent(p) - 1
  <2>1. CASE t = GlobalVariables
    BY <1>6, <2>1
  <2>2. CASE t \in Objects /\ Kind(t) = HashTableKind
    <3>1. t \in Walk \ {Top} /\ Extent(t) = 6 /\ t # p
      BY <1>5, <2>2, ObjectWords DEF Objects
    <3>2. /\ t \in Nat /\ t .. t + Extent(t) - 1 \subseteq GlobalVariables .. Top - 1
          /\ t + Extent(t) <= p \/ p + Extent(p) <= t
      BY <1>5, <3>1, Places
    <3>3. \A k \in {0, 2, 3, 5} : t + k \in t .. t + 6 - 1
      BY <3>2
    <3>4. \A k \in {0, 2, 3, 5} : t + k \notin p .. p + Extent(p) - 1
      BY <1>6, <3>1, <3>2
    <3> QED BY <3>1, <3>2, <3>3, <3>4
  <2> QED BY <2>1, <2>2
<1>8. memory' = [m EXCEPT ![t + 2] = n, ![t + 3] = n, ![t + 5] = p]
  BY <1>3
<1>9. /\ memory' \in [GlobalVariables .. Top - 1 -> Int]
      /\ memory'[t + 2] = n /\ memory'[t + 3] = n /\ memory'[t + 5] = p
      /\ \A q \in GlobalVariables .. Top - 1 : q \notin {t + 2, t + 3, t + 5} => memory'[q] = m[q]
  <2>1. /\ t + 2 \in GlobalVariables .. Top - 1
        /\ t + 3 \in GlobalVariables .. Top - 1
        /\ t + 5 \in GlobalVariables .. Top - 1
    BY <1>7
  <2>2. t + 2 # t + 3 /\ t + 2 # t + 5 /\ t + 3 # t + 5
    BY <1>7
  <2>3. n \in Int /\ p \in Int
    BY <1>6
  <2>4. DOMAIN m = GlobalVariables .. Top - 1
    BY <1>5
  <2>5. memory' \in [GlobalVariables .. Top - 1 -> Int]
    BY <1>5, <1>8, <2>1, <2>3
  <2> QED BY <1>8, <2>1, <2>2, <2>4, <2>5
<1>10. \A q \in p .. p + Extent(p) - 1 : memory'[q] = m[q]
  BY <1>6, <1>7, <1>9
<1>11. ASSUME NEW q \in p .. p + w - 1
       PROVE  memory'[q] = IF q - p < 3 THEN c[q - p + 1] ELSE 0
  <2>1. q \in p .. p + Extent(p) - 1
    <3>0. w \in Nat /\ w <= Extent(p) /\ p \in Nat
      BY <1>1, <1>5, <1>6
    <3>1. q \in Int /\ p <= q /\ q <= (p + w) - 1 /\ w <= Extent(p)
      BY <3>0
    <3>2. q <= (p + Extent(p)) - 1
      BY <1>1, <1>6, <3>1
    <3> QED BY <1>6, <3>1, <3>2
  <2>2. Zeroed[q] = 0
    BY <1>6, <2>1 DEF Zeroed, Tiled
  <2>3. m[q] = IF q - p < Len(c) THEN c[q - p + 1] ELSE Zeroed[q]
    BY <1>5
  <2>4. memory'[q] = m[q]
    BY <1>10, <2>1
  <2> QED BY <1>2, <2>2, <2>3, <2>4
<1>12. memory'[p] = RefArrayKind /\ memory'[p + 2] = n
  <2>1. p \in p .. p + w - 1 /\ p + 2 \in p .. p + w - 1
    BY <1>1, <1>6
  <2>2. p - p < 3 /\ (p + 2) - p < 3 /\ p - p + 1 = 1 /\ (p + 2) - p + 1 = 3
    BY <1>6
  <2> QED BY <1>2, <1>11, <2>1, <2>2
<1>13. Kind(p)' = RefArrayKind /\ size_(p)' = n
  BY <1>12 DEF Kind, size_
<1>14. ~IsHole(p)' /\ Extent(p)' = w
  BY <1>13, ObjectLayoutNext DEF w
<1>15. w < Extent(p) => memory'[p + w] = -(Extent(p) - w)
  <2>1. ASSUME w < Extent(p)
        PROVE  p + w \in p .. p + Extent(p) - 1
    BY <1>1, <1>6, <2>1
  <2> QED BY <1>5, <1>10, <2>1
<1>16. Allocates(p, w, t)
  <2>1. \A q \in GlobalVariables .. Top - 1 :
          q \notin p .. p + Extent(p) - 1 /\ q \notin {t + 2, t + 3, t + 5} => memory'[q] = memory[q]
    BY <1>5, <1>9
  <2> QED BY <1>1, <1>5, <1>9, <1>13, <1>14, <1>15, <2>1 DEF Allocates
<1>17. ASSUME NEW i \in 0 .. n - 1
       PROVE  Key(p, i)' = Nil /\ Val(p, i)' = Nil
  <2> DEFINE e == EntryAt(p, i)
  <2>1. e \in Nat /\ e >= p + 3 /\ e + 4 <= p + (w - 1)
    BY <1>1, <1>6 DEF EntryAt
  <2>2. e' = e
    BY DEF EntryAt
  <2> HIDE DEF e
  <2>3. \A k \in 0 .. 4 : e + k \in p .. p + w - 1 /\ ~((e + k) - p < 3)
    BY <1>1, <1>6, <2>1
  <2>4. \A k \in 0 .. 4 : memory'[e + k] = 0
    BY <1>11, <2>3
  <2>5. memory'[e] = 0 /\ memory'[e + 1] = 0 /\ memory'[e + 3] = 0 /\ memory'[e + 4] = 0
    <3>1. e + 0 = e
      BY <2>1
    <3> QED BY <2>4, <3>1
  <2> QED BY <2>2, <2>5 DEF Key, Val, e, Nil, NILL, Null
<1>18. size_(t)' = n /\ remainingCapacity_(t)' = n /\ backingArray_(t)' = p
  BY <1>9 DEF size_, remainingCapacity_, backingArray_
<1> QED BY <1>13, <1>16, <1>17, <1>18 DEF w

\* A table gets a new array, in which all entries are nil.
LEMMA ArrayGiven ==
  ASSUME HeapSound, phase = "idle", phase' = "idle", pc # "aborted",
         NEW n \in Nat, NEW p, NEW t \in Tables,
         Allocates(p, Words(ArrayBytes(n)), t),
         Kind(p)' = RefArrayKind, size_(p)' = n,
         \A i \in 0 .. n - 1 : Key(p, i)' = Nil /\ Val(p, i)' = Nil,
         size_(t)' = n, remainingCapacity_(t)' = n, backingArray_(t)' = p
  PROVE  /\ HeapSound'
         /\ Tables' = Tables
         /\ Arrays' = Arrays \cup {p}
         /\ Objects \subseteq Objects'
         /\ p \notin Objects /\ p # Null
         /\ \A u \in Tables \ {t} : backingArray_(u)' = backingArray_(u)
         /\ \A a \in Arrays : size_(a)' = size_(a)
         /\ \A v : Good(v) => Good(v)'
<1>1. Live = Objects
  BY DEF Live
<1>2. t = GlobalVariables \/ (t \in Objects /\ Kind(t) = HashTableKind)
  BY <1>1 DEF Tables
<1>3. /\ p \notin Objects
      /\ Objects' = Objects \cup {p}
      /\ Tiled'
      /\ \A o \in Objects \cup {GlobalVariables} : o # t => Alike(o)
      /\ Kind(t)' = Kind(t)
  BY <1>2, Allocation DEF HeapSound
<1>4. p # Null /\ p # GlobalVariables
  <2>1. p \in Bottom .. Top - 1
    BY Places DEF Allocates, HeapSound
  <2> QED BY <2>1, Layout
<1>5. Live' = Objects \cup {p}
  BY <1>3 DEF Live
<1>6. \A o \in Objects \cup {GlobalVariables} : Kind(o)' = Kind(o)
  BY <1>3 DEF Alike
<1>7. Kind(GlobalVariables) = HashTableKind /\ Kind(GlobalVariables)' = HashTableKind
  BY <1>6 DEF HeapSound
<1>8. Tables' = Tables
  BY <1>1, <1>5, <1>6 DEF Tables, HashTableKind, RefArrayKind
<1>9. Arrays' = Arrays \cup {p}
  BY <1>1, <1>5, <1>6 DEF Arrays
<1>10. ASSUME NEW v, Good(v)
       PROVE  Good(v)'
  BY <1>1, <1>3, <1>5, <1>9, <1>10 DEF Good
<1>11. ASSUME NEW a \in Arrays
       PROVE  /\ Indices(a)' = Indices(a) /\ size_(a)' = size_(a)
              /\ \A i \in Indices(a) : Key(a, i)' = Key(a, i) /\ Val(a, i)' = Val(a, i)
  <2>1. a \in Objects /\ Kind(a) = RefArrayKind /\ a # t
    BY <1>1, <1>2, <1>7 DEF Arrays, HashTableKind, RefArrayKind
  <2> QED BY <1>3, <2>1, IndicesAlike DEF Alike
<1>12. ASSUME NEW u \in Tables, u # t
       PROVE  /\ backingArray_(u)' = backingArray_(u)
              /\ size_(u)' = size_(u)
              /\ remainingCapacity_(u)' = remainingCapacity_(u)
  <2>1. u \in Objects \cup {GlobalVariables} /\ Kind(u) = HashTableKind
    BY <1>1, <1>7 DEF Tables
  <2> QED BY <1>3, <1>12, <2>1 DEF Alike
<1>13. \A u \in Tables : backingArray_(u) # Null => backingArray_(u) \in Arrays
  BY DEF HeapSound, SoundTable
<1>15. SoundTable(t)'
  BY <1>9 DEF SoundTable
<1>16. ASSUME NEW u \in Tables, u # t
       PROVE  SoundTable(u)'
  <2>1. SoundTable(u)
    BY DEF HeapSound
  <2> QED BY <1>9, <1>11, <1>12, <1>16, <2>1 DEF SoundTable
<1>17. \A u, x \in Tables' :
          u # x /\ backingArray_(u)' # Null => backingArray_(u)' # backingArray_(x)'
  <2>1. p \notin Arrays
    BY <1>1, <1>3 DEF Arrays
  <2> QED BY <1>4, <1>8, <1>12, <1>13, <2>1 DEF HeapSound
<1>18. ASSUME NEW a \in Arrays', NEW i \in Indices(a)'
       PROVE  Good(Key(a, i))' /\ Good(Val(a, i))'
  <2>1. CASE a = p
    <3>1. i \in 0 .. n - 1
      BY <1>18, <2>1 DEF Indices
    <3> QED BY <2>1, <3>1 DEF Good
  <2>2. CASE a \in Arrays
    <3>1. /\ Good(Key(a, i)) /\ Good(Val(a, i))
          /\ Key(a, i)' = Key(a, i) /\ Val(a, i)' = Val(a, i)
      BY <1>11, <1>18, <2>2 DEF HeapSound
    <3>2. PICK k, v : k = Key(a, i) /\ v = Val(a, i)
      OBVIOUS
    <3>3. Good(k)' /\ Good(v)'
      BY <1>10, <3>1, <3>2
    <3> QED BY <3>1, <3>2, <3>3 DEF Good
  <2> QED BY <1>9, <1>18, <2>1, <2>2
<1>19. HeapSound'
  BY <1>3, <1>7, <1>8, <1>15, <1>16, <1>17, <1>18 DEF HeapSound
<1> QED BY <1>3, <1>4, <1>8, <1>9, <1>10, <1>11, <1>12, <1>19

\* A table gets the size of an array, but no array.
LEMMA ArrayRefused ==
  ASSUME HeapSound, phase = "idle", phase' = "idle", pc # "aborted",
         NEW n \in Nat, NEW t \in Tables,
         memory' = [memory EXCEPT ![t + 2] = n, ![t + 3] = n, ![t + 5] = Null]
  PROVE  /\ HeapSound'
         /\ Objects' = Objects
         /\ \A o \in Objects \cup {GlobalVariables} : o # t => Alike(o)
         /\ Kind(t)' = Kind(t) /\ size_(t)' = n /\ backingArray_(t)' = Null
         /\ Tables' = Tables
         /\ Arrays' = Arrays
         /\ \A u \in Tables \ {t} : backingArray_(u)' = backingArray_(u)
         /\ \A a \in Arrays : size_(a)' = size_(a)
         /\ \A v : Good(v)' <=> Good(v)
<1>1. /\ Live = Objects /\ Tiled
      /\ Kind(GlobalVariables) = HashTableKind
      /\ Bottom = 8 /\ GlobalVariables = 2 /\ Null = 0 /\ Top \in Nat /\ Top > Bottom
  BY Layout DEF Live, HeapSound
<1>2. /\ Kind(t) = HashTableKind
      /\ t = GlobalVariables \/ (t \in Objects /\ t \in Walk \ {Top} /\ Extent(t) = 6)
  BY <1>1, ObjectWords DEF Tables
<1>3. /\ t \in Nat
      /\ \A k \in {0, 2, 3, 5} : t + k \in GlobalVariables .. Top - 1
  <2>1. CASE t = GlobalVariables
    BY <1>1, <2>1
  <2>2. CASE t \in Walk \ {Top} /\ Extent(t) = 6
    <3>1. t \in Nat /\ t .. t + Extent(t) - 1 \subseteq GlobalVariables .. Top - 1
      BY <1>1, <2>2, Places
    <3>2. \A k \in {0, 2, 3, 5} : t + k \in t .. t + 6 - 1
      BY <3>1
    <3> QED BY <2>2, <3>1, <3>2
  <2> QED BY <1>2, <2>1, <2>2
<1>4. /\ memory' \in [GlobalVariables .. Top - 1 -> Int]
      /\ memory'[t] = memory[t] /\ memory'[t + 2] = n /\ memory'[t + 5] = Null
      /\ \A q \in GlobalVariables .. Top - 1 : q \notin {t + 2, t + 3, t + 5} => memory'[q] = memory[q]
  <2>1. /\ t \in GlobalVariables .. Top - 1
        /\ t + 2 \in GlobalVariables .. Top - 1
        /\ t + 3 \in GlobalVariables .. Top - 1
        /\ t + 5 \in GlobalVariables .. Top - 1
    <3>1. t + 0 = t
      BY <1>3
    <3> QED BY <1>3, <3>1
  <2>2. t + 2 # t + 3 /\ t + 2 # t + 5 /\ t + 3 # t + 5 /\ t \notin {t + 2, t + 3, t + 5}
    BY <1>3
  <2>3. n \in Int /\ Null \in Int /\ memory \in [GlobalVariables .. Top - 1 -> Int]
    BY <1>1 DEF Tiled
  <2> QED BY <2>1, <2>2, <2>3
<1>5. ASSUME NEW q \in Walk \ {Top}, q # t
      PROVE  /\ \A x \in q .. q + Extent(q) - 1 : memory'[x] = memory[x]
             /\ memory'[q] = memory[q]
  <2>1. /\ q \in Nat /\ q >= Bottom /\ Extent(q) \in Nat \ {0}
        /\ q .. q + Extent(q) - 1 \subseteq GlobalVariables .. Top - 1
    BY <1>1, Places
  <2>2. ASSUME NEW x \in q .. q + Extent(q) - 1
        PROVE  x \notin {t + 2, t + 3, t + 5}
    <3>1. CASE t = GlobalVariables
      BY <1>1, <2>1, <3>1
    <3>2. CASE t \in Walk \ {Top} /\ Extent(t) = 6
      <4>1. q + Extent(q) <= t \/ t + 6 <= q
        BY <1>1, <1>5, <3>2, Places
      <4> QED BY <1>3, <2>1, <4>1
    <3> QED BY <1>2, <3>1, <3>2
  <2>3. q \in q .. q + Extent(q) - 1
    BY <2>1
  <2> QED BY <1>4, <2>1, <2>2, <2>3
<1>6. ASSUME NEW o \in Objects, o # t
      PROVE  Alike(o) /\ Extent(o)' = Extent(o) /\ ~IsHole(o)'
  BY <1>1, <1>5, <1>6, WordsAlike DEF Objects
<1>7. /\ Kind(t)' = HashTableKind /\ size_(t)' = n /\ backingArray_(t)' = Null
      /\ Extent(t)' = Extent(t) /\ ~IsHole(t) /\ ~IsHole(t)'
  <2>1. Kind(t)' = HashTableKind /\ size_(t)' = n /\ backingArray_(t)' = Null
    BY <1>2, <1>4 DEF Kind, size_, backingArray_
  <2> QED BY <1>2, <2>1, ObjectLayout, ObjectLayoutNext
<1>8. GlobalVariables # t => Alike(GlobalVariables)
  <2>1. ASSUME GlobalVariables # t
        PROVE  \A q \in GlobalVariables .. Bottom - 1 : memory'[q] = memory[q]
    <3>1. t >= Bottom
      BY <1>1, <1>2, <1>3, <2>1, ObjectWords
    <3>2. \A q \in GlobalVariables .. Bottom - 1 :
            q \in GlobalVariables .. Top - 1 /\ q \notin {t + 2, t + 3, t + 5}
      BY <1>1, <1>3, <3>1
    <3> QED BY <1>4, <3>2
  <2> QED BY <1>1, <2>1, GlobalsAlike
<1>9. \A q \in Walk \ {Top} : Extent(q)' = Extent(q) /\ (IsHole(q)' <=> IsHole(q))
  <2>1. ASSUME NEW q \in Walk \ {Top}, IsHole(q), q # t
        PROVE  Extent(q)' = Extent(q) /\ IsHole(q)'
    BY <1>5, <2>1, HoleAlike
  <2>2. ASSUME NEW q \in Walk \ {Top}, ~IsHole(q)
        PROVE  Extent(q)' = Extent(q) /\ ~IsHole(q)'
    BY <1>6, <1>7, <2>2 DEF Objects
  <2> QED BY <1>7, <2>1, <2>2
<1>10. Walk' = Walk /\ Tiling(Walk)'
  BY <1>1, <1>9, WalkStays
<1>11. Objects' = Objects
  BY <1>9, <1>10 DEF Objects
<1>12. \A o \in Objects \cup {GlobalVariables} : o # t => Alike(o)
  BY <1>6, <1>8
<1>13. /\ \A o \in Objects \cup {GlobalVariables} : Kind(o)' = Kind(o)
       /\ \A o \in Objects : o # t => size_(o)' = size_(o)
  BY <1>2, <1>7, <1>12 DEF Alike
<1>14. Tiled'
  <2>1. ASSUME NEW o \in Objects'
        PROVE  /\ Kind(o)' \in {HashTableKind, RefArrayKind, StringKind}
               /\ Kind(o)' # HashTableKind => size_(o)' \in Nat
    <3>1. /\ o \in Objects
          /\ Kind(o) \in {HashTableKind, RefArrayKind, StringKind}
          /\ Kind(o) # HashTableKind => size_(o) \in Nat
      BY <1>1, <1>11, <2>1 DEF Tiled
    <3>2. Kind(o)' = Kind(o)
      BY <1>13, <3>1
    <3> QED BY <1>2, <1>13, <3>1, <3>2
  <2>2. Tiling(Walk)' /\ \A q \in Walk' : q % 2 = 0
    BY <1>1, <1>10 DEF Tiled
  <2> QED BY <1>4, <2>1, <2>2 DEF Tiled
<1>15. Live' = Live /\ Tables' = Tables /\ Arrays' = Arrays
  <2>1. Live' = Live
    BY <1>1, <1>11 DEF Live
  <2> QED BY <1>1, <1>13, <2>1 DEF Tables, Arrays
<1>16. \A v : Good(v)' <=> Good(v)
  BY <1>15 DEF Good
<1>17. ASSUME NEW u \in Tables, u # t
       PROVE  /\ backingArray_(u)' = backingArray_(u)
              /\ size_(u)' = size_(u)
              /\ remainingCapacity_(u)' = remainingCapacity_(u)
  <2>1. u \in Objects \cup {GlobalVariables} /\ Kind(u) = HashTableKind
    BY <1>1 DEF Tables
  <2> QED BY <1>12, <1>17, <2>1 DEF Alike
<1>18. ASSUME NEW a \in Arrays
       PROVE  /\ Indices(a)' = Indices(a) /\ size_(a)' = size_(a)
              /\ \A i \in Indices(a) : Key(a, i)' = Key(a, i) /\ Val(a, i)' = Val(a, i)
  <2>1. a \in Objects /\ Kind(a) = RefArrayKind /\ a # t
    BY <1>1, <1>2 DEF Arrays, HashTableKind, RefArrayKind
  <2> QED BY <1>12, <2>1, IndicesAlike DEF Alike
<1>19. ASSUME NEW u \in Tables
       PROVE  SoundTable(u)'
  <2>1. CASE u = t
    BY <1>7, <2>1 DEF SoundTable
  <2>2. CASE u # t
    <3>1. SoundTable(u)
      BY DEF HeapSound
    <3> QED BY <1>15, <1>17, <1>18, <2>2, <3>1 DEF SoundTable
  <2> QED BY <2>1, <2>2
<1>20. \A u, x \in Tables' :
         u # x /\ backingArray_(u)' # Null => backingArray_(u)' # backingArray_(x)'
  BY <1>7, <1>15, <1>17 DEF HeapSound
<1>21. ASSUME NEW a \in Arrays', NEW i \in Indices(a)'
       PROVE  Good(Key(a, i))' /\ Good(Val(a, i))'
  <2>1. /\ Good(Key(a, i)) /\ Good(Val(a, i))
        /\ Key(a, i)' = Key(a, i) /\ Val(a, i)' = Val(a, i)
    BY <1>15, <1>18, <1>21 DEF HeapSound
  <2> QED BY <1>15, <2>1 DEF Good
<1>22. HeapSound'
  BY <1>1, <1>13, <1>14, <1>15, <1>19, <1>20, <1>21 DEF HeapSound
<1> QED BY <1>2, <1>7, <1>11, <1>12, <1>15, <1>16, <1>17, <1>18, <1>22

\* HashTable::Initialize is done.
LEMMA InitializeEnds ==
  ASSUME Inv, pc = "initialize", phase = "idle", NEW t \in Tables, t = self,
         pc' = (IF old = Null THEN "run" ELSE "rehash"),
         self' = (IF old = Null THEN Null ELSE self),
         result' = (IF self \in Objects THEN <<OBJECT, self>> ELSE Nil),
         sz' = (IF old = Null THEN 0 ELSE sz),
         collected' = FALSE,
         UNCHANGED <<old, idx, tbl, code, fault, phase, marked, work, at>>,
         HeapSound', Tables' = Tables, Arrays \subseteq Arrays',
         size_(t)' = sz, backingArray_(t)' # old \/ old = Null,
         \A a \in Arrays : size_(a)' = size_(a),
         \A v : Good(v) => Good(v)'
  PROVE  Inv'
<1>1. sz \in Nat /\ self # Null /\ Live = Objects /\ old \in {Null} \cup Arrays
  BY DEF Inv, ControlSound, LocalsSound, Live
<1>2. LocalsSound'
  <2>1. Good(idx)'
    BY DEF Inv, LocalsSound, Good
  <2>2. Good(result)'
    <3>1. self \in Objects => Good(<<OBJECT, t>>)
      BY <1>1 DEF Good, Tables, Arrays, Inv, HeapSound, HashTableKind, RefArrayKind
    <3>2. self \in Objects => Good(<<OBJECT, t>>)'
      BY <3>1
    <3> QED BY <3>2 DEF Good
  <2>3. tbl \in {Null, Dangling} \cup Tables
    BY DEF Inv, LocalsSound
  <2>4. tbl' \in {Null, Dangling} \cup Tables'
    BY <2>3
  <2>5. self' \in {Null} \cup Tables' /\ old' \in {Null} \cup Arrays'
    BY <1>1
  <2> QED BY <2>1, <2>2, <2>4, <2>5 DEF LocalsSound
<1>3. ControlSound'
  <2>1. CASE old = Null
    BY <1>1, <2>1 DEF Inv, ControlSound
  <2>2. CASE old # Null
    <3>1. backingArray_(self)' # old /\ size_(self)' = sz
      BY <2>2 DEF backingArray_, size_
    <3>2. sz = 2 * size_(old) /\ size_(old)' = size_(old)
      <4>1. PICK a : a = old
        OBVIOUS
      <4>2. size_(a)' = size_(a)
        BY <1>1, <2>2, <4>1
      <4> QED BY <2>2, <4>1, <4>2 DEF Inv, ControlSound, size_
    <3> QED BY <1>1, <2>2, <3>1, <3>2 DEF Inv, ControlSound
  <2> QED BY <2>1, <2>2
<1>4. CodeSound'
  BY DEF Inv, CodeSound
<1>5. MarksSound'
  BY MarksIdle DEF Inv
<1> QED BY <1>2, <1>3, <1>4, <1>5 DEF Inv

LEMMA InitializeKeeps ==
  ASSUME Inv, Initialize
  PROVE  Inv'
<1> DEFINE bytes == ArrayBytes(sz)
           Done  == /\ pc' = IF old = Null THEN "run" ELSE "rehash"
                    /\ self' = IF old = Null THEN Null ELSE self
                    /\ result' = IF self \in Objects THEN <<OBJECT, self>> ELSE Nil
                    /\ sz' = IF old = Null THEN 0 ELSE sz
                    /\ collected' = FALSE
                    /\ UNCHANGED <<old, idx, tbl, code, fault, phase, marked, work, at>>
<1>1. /\ pc = "initialize" /\ phase = "idle" /\ sz \in Nat
      /\ self # Null /\ self \in Tables
      /\ Live = Objects
  BY DEF Initialize, Inv, ControlSound, LocalsSound, Live
<1>2. CASE Collect(FALSE)
  BY <1>1, <1>2, CollectKeeps
<1>3. PICK n, t : n = sz /\ t = self
  OBVIOUS
<1>4. CASE /\ Fits(bytes)
           /\ memory' = [AllocateArray(sz) EXCEPT
                           ![self + 2] = sz, ![self + 3] = sz, ![self + 5] = Place(bytes)]
           /\ Done
  <2>1. PICK p : p = Place(bytes)
    OBVIOUS
  <2>2. /\ Allocates(p, Words(ArrayBytes(n)), t)
        /\ Kind(p)' = RefArrayKind /\ size_(p)' = n
        /\ \A i \in 0 .. n - 1 : Key(p, i)' = Nil /\ Val(p, i)' = Nil
        /\ size_(t)' = n /\ remainingCapacity_(t)' = n /\ backingArray_(t)' = p
    <3>1. t = GlobalVariables \/ (t \in Objects /\ Kind(t) = HashTableKind)
      BY <1>1, <1>3 DEF Tables
    <3>2. memory' = [AllocateArray(n) EXCEPT ![t + 2] = n, ![t + 3] = n, ![t + 5] = p]
      BY <1>3, <1>4, <2>1
    <3>3. n \in Nat /\ Fits(ArrayBytes(n)) /\ p = Place(ArrayBytes(n)) /\ Tiled
      BY <1>1, <1>3, <1>4, <2>1 DEF Inv, HeapSound
    <3> QED BY <3>1, <3>2, <3>3, ArrayAdded
  <2>3. /\ HeapSound'
        /\ Tables' = Tables
        /\ Arrays' = Arrays \cup {p}
        /\ p \notin Objects
        /\ \A a \in Arrays : size_(a)' = size_(a)
        /\ \A v : Good(v) => Good(v)'
    <3>1. n \in Nat /\ t \in Tables /\ phase' = "idle" /\ pc # "aborted" /\ HeapSound
      BY <1>1, <1>3, <1>4 DEF Inv
    <3> QED BY <1>1, <2>2, <3>1, ArrayGiven
  <2>4. p # old \/ old = Null
    BY <1>1, <2>3 DEF Inv, LocalsSound, Arrays
  <2>5. t \in Tables /\ t = self /\ n = sz
    BY <1>1, <1>3
  <2>6. Done
    BY <1>4
  <2> QED BY <1>1, <2>2, <2>3, <2>4, <2>5, <2>6, InitializeEnds
<1>5. CASE /\ memory' = [memory EXCEPT ![self + 2] = sz, ![self + 3] = sz, ![self + 5] = Null]
           /\ Done
  <2>1. /\ HeapSound'
        /\ size_(t)' = n /\ backingArray_(t)' = Null
        /\ Tables' = Tables
        /\ Arrays' = Arrays
        /\ \A a \in Arrays : size_(a)' = size_(a)
        /\ \A v : Good(v) => Good(v)'
    <3>1. /\ n \in Nat /\ t \in Tables /\ phase' = "idle" /\ pc # "aborted" /\ HeapSound
          /\ memory' = [memory EXCEPT ![t + 2] = n, ![t + 3] = n, ![t + 5] = Null]
      BY <1>1, <1>3, <1>5 DEF Inv
    <3> QED BY <1>1, <3>1, ArrayRefused
  <2>2. t \in Tables /\ t = self /\ n = sz
    BY <1>1, <1>3
  <2>3. Done
    BY <1>5
  <2> QED BY <1>1, <2>1, <2>2, <2>3, InitializeEnds
<1>6. IF old = Null THEN (IF old = Null THEN "run" ELSE "rehash") = "run"
                    ELSE (IF old = Null THEN "run" ELSE "rehash") # "run"
  OBVIOUS
<1> QED BY <1>2, <1>4, <1>5, <1>6 DEF Initialize

-----------------------------------------------------------------------------
(* Writes into arrays. *)

\* What is good is a pair of numbers.
LEMMA GoodPair ==
  ASSUME Tiled, phase = "idle", NEW v, Good(v)
  PROVE  v = <<v[1], v[2]>> /\ v[1] \in Int /\ v[2] \in Int
<1>1. Live \subseteq Int
  BY ObjectWords, Layout DEF Live
<1> QED BY <1>1 DEF Good, Nil, NILL, OBJECT, INTEGER, Null

\* Entries of the array of a table are written, and the room that is left in it.
Writes(t, a) ==
  /\ backingArray_(t) = a
  /\ memory' \in [GlobalVariables .. Top - 1 -> Int]
  /\ \A q \in GlobalVariables .. Top - 1 :
       q \notin a + 3 .. a + Extent(a) - 1 /\ q # t + 3 => memory'[q] = memory[q]
  /\ \A i \in Indices(a) : Good(Key(a, i)') /\ Good(Val(a, i)')
  /\ remainingCapacity_(t)' \in Nat

LEMMA Written ==
  ASSUME HeapSound, phase = "idle", phase' = "idle", pc # "aborted",
         NEW t \in Tables, NEW a \in Arrays, Writes(t, a)
  PROVE  /\ HeapSound'
         /\ Objects' = Objects
         /\ \A o \in Objects : Kind(o)' = Kind(o) /\ size_(o)' = size_(o)
         /\ \A o \in Objects \ {a, t} : Alike(o)
         /\ Tables' = Tables
         /\ Arrays' = Arrays
         /\ \A u \in Tables : backingArray_(u)' = backingArray_(u) /\ size_(u)' = size_(u)
         /\ \A b \in Arrays : size_(b)' = size_(b)
         /\ \A v : Good(v) => Good(v)'
<1> USE DEF Writes
<1>1. /\ Live = Objects /\ Tiled
      /\ a \in Objects /\ Kind(a) = RefArrayKind
      /\ Kind(GlobalVariables) = HashTableKind
  BY DEF Live, Arrays, HeapSound
<1>2. /\ Kind(t) = HashTableKind
      /\ t = GlobalVariables \/ (t \in Objects /\ Extent(t) = 6)
  BY <1>1, ObjectWords DEF Tables
<1>3. a # t /\ a # GlobalVariables
  BY <1>1, <1>2 DEF HashTableKind, RefArrayKind
<1>4. /\ a \in Nat /\ Extent(a) \in Nat /\ a >= Bottom /\ a + Extent(a) <= Top
      /\ a \in Walk \ {Top} /\ Extent(a) >= 4
      /\ Bottom = 8 /\ GlobalVariables = 2 /\ Top \in Nat
  BY <1>1, Places, ObjectWords, Layout
<1>5. ASSUME NEW q \in Walk \ {Top}, q # a, q # t
      PROVE  /\ q .. q + Extent(q) - 1 \subseteq GlobalVariables .. Top - 1
             /\ \A x \in q .. q + Extent(q) - 1 : memory'[x] = memory[x]
             /\ memory'[q] = memory[q]
  <2>1. /\ q \in Nat /\ q >= Bottom /\ Extent(q) \in Nat \ {0}
        /\ q .. q + Extent(q) - 1 \subseteq GlobalVariables .. Top - 1
        /\ q + Extent(q) <= a \/ a + Extent(a) <= q
    <3>1. /\ q \in Nat /\ q \in Bottom .. Top - 1 /\ Extent(q) \in Nat \ {0}
          /\ q .. q + Extent(q) - 1 \subseteq GlobalVariables .. Top - 1
      BY <1>1, Places
    <3>2. q + Extent(q) <= a \/ a + Extent(a) <= q
      BY <1>1, <1>4, <1>5, Places
    <3>3. q >= Bottom
      BY <1>4, <3>1
    <3> QED BY <3>1, <3>2, <3>3
  <2>2. ASSUME NEW x \in q .. q + Extent(q) - 1
        PROVE  x \notin a + 3 .. a + Extent(a) - 1 /\ x # t + 3
    <3>1. x \notin a + 3 .. a + Extent(a) - 1
      <4>1. x \in Int /\ q <= x /\ x < q + Extent(q)
        BY <2>1
      <4>2. x < a \/ a + Extent(a) <= x
        BY <1>4, <2>1, <4>1
      <4> QED BY <1>4, <4>1, <4>2
    <3>2. CASE t = GlobalVariables
      BY <1>4, <2>1, <3>1, <3>2
    <3>3. CASE t \in Objects /\ Extent(t) = 6
      <4>1. t \in Nat /\ (q + Extent(q) <= t \/ t + 6 <= q)
        BY <1>1, <1>5, <3>3, Places, ObjectWords
      <4> QED BY <2>1, <3>1, <4>1
    <3> QED BY <1>2, <3>2, <3>3
  <2>3. \A x \in q .. q + Extent(q) - 1 : memory'[x] = memory[x]
    BY <2>1, <2>2
  <2>4. q \in q .. q + Extent(q) - 1
    BY <2>1
  <2> QED BY <2>1, <2>3, <2>4
<1>6. ASSUME NEW o \in Objects, o # a, o # t
      PROVE  Alike(o) /\ Extent(o)' = Extent(o) /\ ~IsHole(o)'
  BY <1>1, <1>5, <1>6, WordsAlike DEF Objects
<1>7. /\ Kind(a)' = Kind(a) /\ size_(a)' = size_(a)
      /\ Extent(a)' = Extent(a) /\ ~IsHole(a)'
  <2>1. a # t + 3 /\ a + 2 # t + 3
    <3>1. CASE t = GlobalVariables
      BY <1>4, <3>1
    <3>2. CASE t \in Objects /\ Extent(t) = 6
      <4>1. t \in Nat /\ (t + 6 <= a \/ a + Extent(a) <= t)
        BY <1>1, <1>3, <1>4, <3>2, Places, ObjectWords
      <4> QED BY <1>4, <4>1
    <3> QED BY <1>2, <3>1, <3>2
  <2>2. /\ a \in GlobalVariables .. Top - 1 /\ a + 2 \in GlobalVariables .. Top - 1
        /\ a \notin a + 3 .. a + Extent(a) - 1 /\ a + 2 \notin a + 3 .. a + Extent(a) - 1
    BY <1>4
  <2>3. memory'[a] = memory[a] /\ memory'[a + 2] = memory[a + 2]
    BY <2>1, <2>2
  <2>4. Kind(a)' = Kind(a) /\ size_(a)' = size_(a)
    BY <2>3 DEF Kind, size_
  <2> QED BY <1>1, <2>4, ObjectLayout, ObjectLayoutNext
<1>8. /\ Kind(t)' = Kind(t) /\ size_(t)' = size_(t) /\ backingArray_(t)' = backingArray_(t)
      /\ Extent(t)' = Extent(t) /\ ~IsHole(t)'
  <2>1. /\ t \in Nat
        /\ \A k \in {0, 2, 5} : t + k \in GlobalVariables .. Top - 1
                                /\ t + k \notin a + 3 .. a + Extent(a) - 1
    <3>1. CASE t = GlobalVariables
      BY <1>4, <3>1
    <3>2. CASE t \in Objects /\ Extent(t) = 6
      <4>1. t \in Walk \ {Top} /\ t # a /\ t \in Bottom .. Top - 1 /\ t + Extent(t) <= Top
        BY <1>1, <1>3, <3>2, Places, ObjectWords
      <4>2. t + 6 <= a \/ a + Extent(a) <= t
        BY <1>1, <1>4, <3>2, <4>1, Places
      <4>3. t \in Nat /\ t >= 8 /\ t + 6 <= Top
        BY <1>4, <3>2, <4>1
      <4>4. ASSUME NEW k \in {0, 2, 5}
            PROVE  t + k \in GlobalVariables .. Top - 1 /\ t + k \notin a + 3 .. a + Extent(a) - 1
        <5>1. k \in Nat /\ k < 6
          OBVIOUS
        <5>2. t + k \in Nat /\ t <= t + k /\ t + k < t + 6
          BY <4>3, <5>1
        <5>3. t + k \in GlobalVariables .. Top - 1
          BY <1>4, <4>3, <5>2
        <5>4. t + k < a \/ a + Extent(a) <= t + k
          BY <1>4, <4>2, <4>3, <5>2
        <5>5. t + k \notin a + 3 .. a + Extent(a) - 1
          <6>1. a \in Nat /\ Extent(a) \in Nat /\ t + k \in Nat
            BY <1>4, <5>2
          <6> QED BY <5>4, <6>1
        <5> QED BY <5>3, <5>5
      <4> QED BY <4>3, <4>4
    <3> QED BY <1>2, <3>1, <3>2
  <2>2. memory'[t] = memory[t] /\ memory'[t + 2] = memory[t + 2] /\ memory'[t + 5] = memory[t + 5]
    <3>1. t + 0 = t /\ t # t + 3 /\ t + 2 # t + 3 /\ t + 5 # t + 3
      BY <2>1
    <3> QED BY <2>1, <3>1
  <2>3. Kind(t)' = Kind(t) /\ size_(t)' = size_(t) /\ backingArray_(t)' = backingArray_(t)
    BY <2>2 DEF Kind, size_, backingArray_
  <2> QED BY <1>2, <2>3, ObjectLayout, ObjectLayoutNext
<1>9. GlobalVariables # t => Alike(GlobalVariables)
  <2>1. ASSUME GlobalVariables # t
        PROVE  \A q \in GlobalVariables .. Bottom - 1 : memory'[q] = memory[q]
    <3>1. t \in Nat /\ t >= Bottom
      BY <1>1, <1>2, <2>1, ObjectWords, Layout
    <3>2. \A q \in GlobalVariables .. Bottom - 1 :
            /\ q \in GlobalVariables .. Top - 1
            /\ q \notin a + 3 .. a + Extent(a) - 1 /\ q # t + 3
      BY <1>4, <3>1
    <3> QED BY <3>2
  <2> QED BY <1>1, <2>1, GlobalsAlike
<1>10. \A q \in Walk \ {Top} : Extent(q)' = Extent(q) /\ (IsHole(q)' <=> IsHole(q))
  <2>1. ASSUME NEW q \in Walk \ {Top}, IsHole(q), q # a, q # t
        PROVE  Extent(q)' = Extent(q) /\ IsHole(q)'
    BY <1>5, <2>1, HoleAlike
  <2>2. ~IsHole(a) /\ ~IsHole(t)
    BY <1>1, <1>2, ObjectLayout
  <2>3. ASSUME NEW q \in Walk \ {Top}, ~IsHole(q)
        PROVE  Extent(q)' = Extent(q) /\ ~IsHole(q)'
    BY <1>6, <1>7, <1>8, <2>3 DEF Objects
  <2> QED BY <2>1, <2>2, <2>3
<1>11. Walk' = Walk /\ Tiling(Walk)'
  BY <1>1, <1>10, WalkStays
<1>12. Objects' = Objects
  BY <1>10, <1>11 DEF Objects
<1>13. \A o \in Objects \cup {GlobalVariables} : Kind(o)' = Kind(o) /\ size_(o)' = size_(o)
  BY <1>6, <1>7, <1>8, <1>9 DEF Alike
<1>14. Tiled'
  BY <1>1, <1>11, <1>12, <1>13 DEF Tiled
<1>15. Live' = Live /\ Tables' = Tables /\ Arrays' = Arrays
  <2>1. Live' = Live
    BY <1>1, <1>12 DEF Live
  <2> QED BY <1>1, <1>13, <2>1 DEF Tables, Arrays
<1>16. \A v : Good(v)' <=> Good(v)
  BY <1>15 DEF Good
<1>17. ASSUME NEW u \in Tables, u # t
       PROVE  Alike(u) /\ Kind(u) = HashTableKind
  <2>1. Kind(u) = HashTableKind /\ u \in Objects \cup {GlobalVariables}
    BY <1>1 DEF Tables
  <2>2. u # a
    BY <1>1, <2>1 DEF HashTableKind, RefArrayKind
  <2> QED BY <1>6, <1>9, <1>17, <2>1, <2>2
<1>18. \A u \in Tables : backingArray_(u)' = backingArray_(u) /\ size_(u)' = size_(u)
  BY <1>8, <1>17 DEF Alike
<1>19. ASSUME NEW b \in Arrays, b # a
       PROVE  /\ Indices(b)' = Indices(b)
              /\ \A i \in Indices(b) : Key(b, i)' = Key(b, i) /\ Val(b, i)' = Val(b, i)
  <2>1. b \in Objects /\ Kind(b) = RefArrayKind /\ b # t
    BY <1>1, <1>2 DEF Arrays, HashTableKind, RefArrayKind
  <2>2. Alike(b)
    BY <1>6, <1>19, <2>1
  <2> QED BY <2>1, <2>2, IndicesAlike DEF Alike
<1>20. \A b \in Arrays : size_(b)' = size_(b)
  BY <1>1, <1>13 DEF Arrays
<1>21. Indices(a)' = Indices(a)
  BY <1>7 DEF Indices
<1>22. SoundTable(t)'
  <2>1. SoundTable(t)
    BY DEF HeapSound
  <2>2. backingArray_(t)' = a /\ size_(t)' = size_(t)
    BY <1>18
  <2>3. Null # a
    BY <1>4, Layout
  <2>4. size_(a) = size_(t)
    BY <2>1, <2>3 DEF SoundTable
  <2> QED BY <1>7, <1>15, <2>2, <2>4 DEF SoundTable, size_
<1>23. ASSUME NEW u \in Tables, u # t
       PROVE  SoundTable(u)'
  <2>1. SoundTable(u)
    BY DEF HeapSound
  <2>2. /\ backingArray_(u)' = backingArray_(u) /\ size_(u)' = size_(u)
        /\ remainingCapacity_(u)' = remainingCapacity_(u)
    BY <1>17, <1>23 DEF Alike
  <2>3. backingArray_(u) # Null => backingArray_(u) # a
    <3>1. Null # a
      BY <1>4, Layout
    <3> QED BY <1>23, <3>1 DEF HeapSound
  <2> QED BY <1>15, <1>19, <1>20, <2>1, <2>2, <2>3 DEF SoundTable
<1>24. \A u, x \in Tables' :
          u # x /\ backingArray_(u)' # Null => backingArray_(u)' # backingArray_(x)'
  BY <1>15, <1>18 DEF HeapSound
<1>25. ASSUME NEW b \in Arrays', NEW i \in Indices(b)'
       PROVE  Good(Key(b, i))' /\ Good(Val(b, i))'
  <2>1. CASE b = a
    <3>1. PICK k, v : k = Key(a, i)' /\ v = Val(a, i)'
      OBVIOUS
    <3>2. i \in Indices(a)
      BY <1>21, <1>25, <2>1 DEF Indices, size_
    <3>3. Good(k) /\ Good(v)
      BY <3>1, <3>2
    <3>4. Good(k)' /\ Good(v)'
      BY <1>16, <3>3
    <3> QED BY <2>1, <3>1, <3>4 DEF Good
  <2>2. CASE b # a
    <3>1. /\ Good(Key(b, i)) /\ Good(Val(b, i))
          /\ Key(b, i)' = Key(b, i) /\ Val(b, i)' = Val(b, i)
      BY <1>15, <1>19, <1>25, <2>2 DEF HeapSound
    <3>2. PICK k, v : k = Key(b, i) /\ v = Val(b, i)
      OBVIOUS
    <3>3. Good(k)' /\ Good(v)'
      BY <1>16, <3>1, <3>2
    <3> QED BY <3>1, <3>2, <3>3 DEF Good
  <2> QED BY <2>1, <2>2
<1>26. HeapSound'
  <2>1. Kind(GlobalVariables)' = HashTableKind
    BY <1>1, <1>13
  <2> QED BY <1>14, <1>15, <1>22, <1>23, <1>24, <1>25, <2>1 DEF HeapSound
<1> QED BY <1>6, <1>12, <1>13, <1>15, <1>16, <1>18, <1>20, <1>26

\* Some entries are written, with their hashes, and a word outside the array.
LEMMA EntriesWritten ==
  ASSUME Tiled, NEW a \in Objects, Kind(a) = RefArrayKind, NEW J \in SUBSET Indices(a), NEW x,
         x \notin a .. a + Extent(a) - 1,
         \A q \in GlobalVariables .. Top - 1 :
           (\A j \in J : q \notin EntryAt(a, j) .. EntryAt(a, j) + 4) /\ q # x => memory'[q] = memory[q]
  PROVE  /\ \A q \in GlobalVariables .. Top - 1 :
              q \notin a + 3 .. a + Extent(a) - 1 /\ q # x => memory'[q] = memory[q]
         /\ \A i \in Indices(a) \ J : Key(a, i)' = Key(a, i) /\ Val(a, i)' = Val(a, i)
<1>1. /\ a \in Nat /\ Extent(a) \in Nat /\ Extent(a) >= 4
      /\ a .. a + Extent(a) - 1 \subseteq GlobalVariables .. Top - 1
  BY ObjectWords, Places
<1>2. \A j \in Indices(a) :
        /\ j \in Nat /\ EntryAt(a, j) \in Nat /\ EntryAt(a, j) = a + 3 + 5 * j
        /\ EntryAt(a, j) >= a + 3 /\ EntryAt(a, j) + 4 <= a + (Extent(a) - 1)
  BY EntryWords DEF EntryAt
<1>3. \A j \in J : \A q \in EntryAt(a, j) .. EntryAt(a, j) + 4 : q \in a + 3 .. a + Extent(a) - 1
  BY <1>1, <1>2
<1>5. ASSUME NEW i \in Indices(a), i \notin J
      PROVE  Key(a, i)' = Key(a, i) /\ Val(a, i)' = Val(a, i)
  <2> DEFINE e == EntryAt(a, i)
  <2>1. /\ i \in Nat /\ e \in Nat /\ e = a + 3 + 5 * i
        /\ e >= a + 3 /\ e + 4 <= a + (Extent(a) - 1)
    BY <1>2
  <2>2. e' = e
    BY DEF EntryAt
  <2> HIDE DEF e
  <2>3. ASSUME NEW j \in J
        PROVE  e + 4 < EntryAt(a, j) \/ EntryAt(a, j) + 4 < e
    <3>1. /\ j \in Nat /\ EntryAt(a, j) \in Nat /\ EntryAt(a, j) = a + 3 + 5 * j
          /\ j # i
      BY <1>2, <1>5
    <3> QED BY <1>1, <2>1, <3>1
  <2>4. ASSUME NEW k \in 0 .. 4
        PROVE  /\ e + k \in a .. a + Extent(a) - 1
               /\ \A j \in J : e + k \notin EntryAt(a, j) .. EntryAt(a, j) + 4
    <3>1. e + k \in a .. a + Extent(a) - 1
      BY <1>1, <2>1
    <3>2. ASSUME NEW j \in J
          PROVE  e + k \notin EntryAt(a, j) .. EntryAt(a, j) + 4
      <4>1. EntryAt(a, j) \in Nat
        BY <1>2
      <4> QED BY <2>1, <2>3, <4>1
    <3> QED BY <3>1, <3>2
  <2>5. \A k \in 0 .. 4 : memory'[e + k] = memory[e + k]
    BY <1>1, <2>4
  <2>6. /\ memory'[e] = memory[e] /\ memory'[e + 1] = memory[e + 1]
        /\ memory'[e + 3] = memory[e + 3] /\ memory'[e + 4] = memory[e + 4]
    <3>1. e + 0 = e
      BY <2>1
    <3> QED BY <2>5, <3>1
  <2> QED BY <2>2, <2>6 DEF Key, Val, e
<1> QED BY <1>3, <1>5

\* The line of a store is done.
LEMMA StoreEnds ==
  ASSUME Inv, Runs("store"), BackToPrompt, UNCHANGED <<self, old, sz, pc, fault>>,
         HeapSound', Tables' = Tables
  PROVE  Inv'
<1>1. pc = "run" /\ phase = "idle" /\ self = Null /\ old = Null
  BY DEF Runs, Inv, ControlSound
<1>2. LocalsSound'
  BY <1>1, GoodNil DEF LocalsSound, BackToPrompt, Good
<1>3. ControlSound'
  BY <1>1 DEF Inv, ControlSound
<1>4. CodeSound'
  BY LineEnds DEF BackToPrompt
<1>5. MarksSound'
  BY <1>1, MarksIdle DEF Inv, BackToPrompt, collector, MarksSound
<1> QED BY <1>2, <1>3, <1>4, <1>5 DEF Inv

\* The table that an entry is written in.
LEMMA TableWithArray ==
  ASSUME Inv, phase = "idle", NEW t \in Tables, backingArray_(t) # Null
  PROVE  /\ Live = Objects /\ HeapSound /\ Tiled
         /\ memory \in [GlobalVariables .. Top - 1 -> Int]
         /\ backingArray_(t) \in Arrays
         /\ backingArray_(t) \in Objects
         /\ Kind(backingArray_(t)) = RefArrayKind
         /\ size_(backingArray_(t)) = size_(t)
         /\ size_(t) \in Nat
         /\ remainingCapacity_(t) \in Nat
<1>1. /\ Live = Objects /\ HeapSound /\ Tiled
      /\ memory \in [GlobalVariables .. Top - 1 -> Int]
      /\ backingArray_(t) \in Arrays
      /\ size_(backingArray_(t)) = size_(t)
      /\ remainingCapacity_(t) \in Nat
  BY DEF Inv, HeapSound, SoundTable, Live, Tiled
<1>2. backingArray_(t) \in Objects /\ Kind(backingArray_(t)) = RefArrayKind
  BY <1>1 DEF Arrays
<1> QED BY <1>1, <1>2, ObjectWords

\* The word for the room in a table is not part of an array.
LEMMA RoomOutside ==
  ASSUME Tiled, Kind(GlobalVariables) = HashTableKind, Live = Objects,
         NEW a \in Objects, Kind(a) = RefArrayKind, NEW t \in Tables
  PROVE  /\ t + 3 \notin a .. a + Extent(a) - 1
         /\ t + 3 \in GlobalVariables .. Top - 1
<1>1. /\ a \in Nat /\ Extent(a) \in Nat /\ a >= Bottom
      /\ a \in Walk \ {Top}
      /\ Bottom = 8 /\ GlobalVariables = 2 /\ Top \in Nat /\ Top > Bottom
  BY Places, ObjectWords, Layout
<1>2. CASE t = GlobalVariables
  BY <1>1, <1>2
<1>3. CASE t \in Objects /\ Kind(t) = HashTableKind
  <2>1. t # a /\ t \in Walk \ {Top} /\ Extent(t) = 6
    BY <1>3, ObjectWords DEF HashTableKind, RefArrayKind
  <2>2. /\ t \in Nat /\ t >= Bottom /\ t + 6 <= Top
        /\ t + 6 <= a \/ a + Extent(a) <= t
    BY <1>1, <2>1, Places, Layout
  <2> QED BY <1>1, <2>2
<1> QED BY <1>2, <1>3 DEF Tables

\* A store writes an entry, or begins to grow the table.
LEMMA StoreWrites ==
  ASSUME Inv, Store
  PROVE  \/ /\ \E t \in Tables, a \in Arrays : Writes(t, a)
            /\ BackToPrompt /\ UNCHANGED <<self, old, sz, pc, fault>>
         \/ /\ self' = tbl /\ old' = backingArray_(tbl) /\ sz' = 2 * size_(tbl)
            /\ pc' = "initialize"
            /\ UNCHANGED <<memory, idx, tbl, result, code, fault, collector>>
<1>1. /\ Runs("store") /\ idx # Nil /\ fault' = fault
      /\ pc = "run" /\ phase = "idle"
      /\ tbl \in Tables /\ backingArray_(tbl) # Null
  BY DEF Store, Runs, Inv, LocalsSound
<1>2. PICK a, t : a = backingArray_(tbl) /\ t = tbl
  OBVIOUS
<1>3. /\ HeapSound /\ Tiled /\ memory \in [GlobalVariables .. Top - 1 -> Int]
      /\ Live = Objects
      /\ a \in Arrays /\ a \in Objects /\ Kind(a) = RefArrayKind
      /\ t \in Tables /\ backingArray_(t) = a
      /\ remainingCapacity_(t) \in Nat
  BY <1>1, <1>2, TableWithArray
<1>4. /\ a \in Nat /\ Extent(a) \in Nat /\ size_(a) \in Nat
      /\ a .. a + Extent(a) - 1 \subseteq GlobalVariables .. Top - 1
  BY <1>3, ObjectWords, Places
<1>5. /\ t + 3 \notin a .. a + Extent(a) - 1
      /\ t + 3 \in GlobalVariables .. Top - 1
  BY <1>3, RoomOutside DEF HeapSound
<1>6. /\ Good(idx) /\ Good(result)
      /\ idx = <<idx[1], idx[2]>> /\ idx[1] \in Int /\ idx[2] \in Int
      /\ result = <<result[1], result[2]>> /\ result[1] \in Int /\ result[2] \in Int
  <2>1. Good(idx) /\ Good(result)
    BY DEF Inv, LocalsSound
  <2> QED BY <1>1, <1>3, <2>1, GoodPair
<1>7. ASSUME NEW j \in Holding(a, idx),
             memory' = [memory EXCEPT ![EntryAt(a, j) + 3] = result[1],
                                      ![EntryAt(a, j) + 4] = result[2]],
             BackToPrompt, UNCHANGED <<self, old, sz, pc>>
      PROVE  Writes(t, a)
  <2>1. j \in Indices(a)
    BY <1>7 DEF Holding
  <2>2. PICK e : e = EntryAt(a, j)
    OBVIOUS
  <2>3. /\ e \in Nat /\ e >= a + 3 /\ e + 4 <= a + (Extent(a) - 1)
        /\ \A k \in 0 .. 4 : e + k \in GlobalVariables .. Top - 1
    <3>1. e \in Nat /\ e >= a + 3 /\ e + 4 <= a + (Extent(a) - 1)
      BY <1>3, <2>1, <2>2, EntryWords
    <3>2. \A k \in 0 .. 4 : e + k \in a .. a + Extent(a) - 1
      BY <1>4, <3>1
    <3> QED BY <1>4, <3>1, <3>2
  <2>4. e + 3 \in GlobalVariables .. Top - 1 /\ e + 4 \in GlobalVariables .. Top - 1 /\ e + 3 # e + 4
    BY <2>3
  <2>5. memory' = [memory EXCEPT ![e + 3] = result[1], ![e + 4] = result[2]]
    BY <1>7, <2>2
  <2>6. /\ memory' \in [GlobalVariables .. Top - 1 -> Int]
        /\ memory'[e + 3] = result[1] /\ memory'[e + 4] = result[2]
        /\ \A q \in GlobalVariables .. Top - 1 : q \notin {e + 3, e + 4} => memory'[q] = memory[q]
    BY <1>3, <1>6, <2>4, <2>5
  <2>7. \A q \in GlobalVariables .. Top - 1 :
          (\A k \in {j} : q \notin EntryAt(a, k) .. EntryAt(a, k) + 4) /\ q # t + 3 => memory'[q] = memory[q]
    <3>1. e + 3 \in e .. e + 4 /\ e + 4 \in e .. e + 4
      BY <2>3
    <3> QED BY <2>2, <2>6, <3>1
  <2>8. /\ \A q \in GlobalVariables .. Top - 1 :
             q \notin a + 3 .. a + Extent(a) - 1 /\ q # t + 3 => memory'[q] = memory[q]
        /\ \A i \in Indices(a) \ {j} : Key(a, i)' = Key(a, i) /\ Val(a, i)' = Val(a, i)
    <3>1. PICK J, x : J = {j} /\ x = t + 3
      OBVIOUS
    <3>2. J \in SUBSET Indices(a)
      BY <2>1, <3>1
    <3>3. x \notin a .. a + Extent(a) - 1
      BY <1>5, <3>1
    <3>4. \A q \in GlobalVariables .. Top - 1 :
            (\A k \in J : q \notin EntryAt(a, k) .. EntryAt(a, k) + 4) /\ q # x => memory'[q] = memory[q]
      BY <2>7, <3>1
    <3>5. /\ \A q \in GlobalVariables .. Top - 1 :
                q \notin a + 3 .. a + Extent(a) - 1 /\ q # x => memory'[q] = memory[q]
          /\ \A i \in Indices(a) \ J : Key(a, i)' = Key(a, i) /\ Val(a, i)' = Val(a, i)
      BY <1>3, <3>2, <3>3, <3>4, EntriesWritten
    <3> QED BY <3>1, <3>5
  <2>9. Key(a, j)' = Key(a, j) /\ Val(a, j)' = result
    <3>1. memory'[e] = memory[e] /\ memory'[e + 1] = memory[e + 1]
      <4>1. e + 0 = e /\ e \notin {e + 3, e + 4} /\ e + 1 \notin {e + 3, e + 4}
        BY <2>3
      <4> QED BY <2>3, <2>6, <4>1
    <3>2. EntryAt(a, j)' = e
      BY <2>2 DEF EntryAt
    <3> QED BY <1>6, <2>2, <2>6, <3>1, <3>2 DEF Key, Val
  <2>10. \A i \in Indices(a) : Good(Key(a, i)') /\ Good(Val(a, i)')
    <3>1. \A i \in Indices(a) : Good(Key(a, i)) /\ Good(Val(a, i))
      BY <1>3 DEF HeapSound
    <3> QED BY <1>6, <2>8, <2>9, <3>1
  <2>12. remainingCapacity_(t)' = remainingCapacity_(t)
    <3>1. t + 3 \notin {e + 3, e + 4}
      <4>1. e + 3 \in a .. a + Extent(a) - 1 /\ e + 4 \in a .. a + Extent(a) - 1
        BY <1>4, <2>3
      <4> QED BY <1>5, <4>1
    <3> QED BY <1>5, <2>6, <3>1 DEF remainingCapacity_
  <2> QED BY <1>3, <2>6, <2>8, <2>10, <2>12 DEF Writes
<1>8. ASSUME NEW j \in Indices(a), remainingCapacity_(t) > 0,
             memory' = [WithEntry(memory, a, j, idx, result) EXCEPT ![t + 3] = @ - 1],
             BackToPrompt, UNCHANGED <<self, old, sz, pc>>
      PROVE  Writes(t, a)
  <2>4. PICK e : e = EntryAt(a, j)
    OBVIOUS
  <2>5. /\ e \in Nat /\ e >= a + 3 /\ e + 4 <= a + (Extent(a) - 1)
        /\ e \in GlobalVariables .. Top - 1 /\ e # t + 3
        /\ \A k \in 1 .. 4 : e + k \in GlobalVariables .. Top - 1 /\ e + k # t + 3
    <3>1. e \in Nat /\ e >= a + 3 /\ e + 4 <= a + (Extent(a) - 1)
      BY <1>3, <2>4, EntryWords
    <3>2. e \in a .. a + Extent(a) - 1 /\ \A k \in 1 .. 4 : e + k \in a .. a + Extent(a) - 1
      BY <1>4, <3>1
    <3> QED BY <1>4, <1>5, <3>1, <3>2
  <2>6. PICK m : m = [memory EXCEPT ![e] = idx[1], ![e + 1] = idx[2], ![e + 2] = 0,
                                    ![e + 3] = result[1], ![e + 4] = result[2]]
    OBVIOUS
  <2>7. memory' = [m EXCEPT ![t + 3] = @ - 1]
    BY <1>8, <2>4, <2>6 DEF WithEntry
  <2>8. /\ m \in [GlobalVariables .. Top - 1 -> Int]
        /\ m[e] = idx[1] /\ m[e + 1] = idx[2] /\ m[e + 3] = result[1] /\ m[e + 4] = result[2]
        /\ \A q \in GlobalVariables .. Top - 1 :
             q \notin {e, e + 1, e + 2, e + 3, e + 4} => m[q] = memory[q]
    <3>1. /\ e + 1 \in GlobalVariables .. Top - 1 /\ e + 2 \in GlobalVariables .. Top - 1
          /\ e + 3 \in GlobalVariables .. Top - 1 /\ e + 4 \in GlobalVariables .. Top - 1
      BY <2>5
    <3>2. /\ e # e + 1 /\ e # e + 2 /\ e # e + 3 /\ e # e + 4
          /\ e + 1 # e + 2 /\ e + 1 # e + 3 /\ e + 1 # e + 4
          /\ e + 3 # e + 2 /\ e + 4 # e + 2 /\ e + 3 # e + 4
      BY <2>5
    <3>3. /\ DOMAIN m = GlobalVariables .. Top - 1
          /\ \A q \in GlobalVariables .. Top - 1 :
               m[q] = IF q = e + 4 THEN result[2]
                      ELSE IF q = e + 3 THEN result[1]
                      ELSE IF q = e + 2 THEN 0
                      ELSE IF q = e + 1 THEN idx[2]
                      ELSE IF q = e THEN idx[1]
                      ELSE memory[q]
      BY <1>3, <2>5, <2>6, <3>1, <3>2
    <3>4. m \in [GlobalVariables .. Top - 1 -> Int]
      <4>1. \A q \in GlobalVariables .. Top - 1 : m[q] \in Int
        BY <1>3, <1>6, <3>3
      <4>2. m = [q \in GlobalVariables .. Top - 1 |-> m[q]]
        BY <1>3, <2>6
      <4> QED BY <4>1, <4>2
    <3> QED BY <2>5, <3>1, <3>2, <3>3, <3>4
  <2>9. /\ memory' \in [GlobalVariables .. Top - 1 -> Int]
        /\ memory'[t + 3] = m[t + 3] - 1
        /\ \A q \in GlobalVariables .. Top - 1 : q # t + 3 => memory'[q] = m[q]
    <3>1. m[t + 3] - 1 \in Int
      BY <1>5, <2>8
    <3> QED BY <1>5, <2>7, <2>8, <3>1
  <2>10. \A q \in GlobalVariables .. Top - 1 :
           (\A k \in {j} : q \notin EntryAt(a, k) .. EntryAt(a, k) + 4) /\ q # t + 3 => memory'[q] = memory[q]
    <3>1. \A q \in {e, e + 1, e + 2, e + 3, e + 4} : q \in e .. e + 4
      BY <2>5
    <3> QED BY <2>4, <2>8, <2>9, <3>1
  <2>11. /\ \A q \in GlobalVariables .. Top - 1 :
              q \notin a + 3 .. a + Extent(a) - 1 /\ q # t + 3 => memory'[q] = memory[q]
         /\ \A i \in Indices(a) \ {j} : Key(a, i)' = Key(a, i) /\ Val(a, i)' = Val(a, i)
    <3>1. PICK J, x : J = {j} /\ x = t + 3
      OBVIOUS
    <3>2. J \in SUBSET Indices(a)
      BY <1>8, <3>1
    <3>3. x \notin a .. a + Extent(a) - 1
      BY <1>5, <3>1
    <3>4. \A q \in GlobalVariables .. Top - 1 :
            (\A k \in J : q \notin EntryAt(a, k) .. EntryAt(a, k) + 4) /\ q # x => memory'[q] = memory[q]
      BY <2>10, <3>1
    <3>5. /\ \A q \in GlobalVariables .. Top - 1 :
                q \notin a + 3 .. a + Extent(a) - 1 /\ q # x => memory'[q] = memory[q]
          /\ \A i \in Indices(a) \ J : Key(a, i)' = Key(a, i) /\ Val(a, i)' = Val(a, i)
      BY <1>3, <3>2, <3>3, <3>4, EntriesWritten
    <3> QED BY <3>1, <3>5
  <2>12. Key(a, j)' = idx /\ Val(a, j)' = result
    <3>1. /\ memory'[e] = idx[1] /\ memory'[e + 1] = idx[2]
          /\ memory'[e + 3] = result[1] /\ memory'[e + 4] = result[2]
      <4>1. /\ e + 1 \in GlobalVariables .. Top - 1 /\ e + 1 # t + 3
            /\ e + 3 \in GlobalVariables .. Top - 1 /\ e + 3 # t + 3
            /\ e + 4 \in GlobalVariables .. Top - 1 /\ e + 4 # t + 3
        BY <2>5
      <4> QED BY <2>5, <2>8, <2>9, <4>1
    <3>2. EntryAt(a, j)' = e
      BY <2>4 DEF EntryAt
    <3> QED BY <1>6, <3>1, <3>2 DEF Key, Val
  <2>13. \A i \in Indices(a) : Good(Key(a, i)') /\ Good(Val(a, i)')
    <3>1. \A i \in Indices(a) : Good(Key(a, i)) /\ Good(Val(a, i))
      BY <1>3 DEF HeapSound
    <3> QED BY <1>6, <2>11, <2>12, <3>1
  <2>16. remainingCapacity_(t)' = remainingCapacity_(t) - 1
    <3>1. \A q \in {e, e + 1, e + 2, e + 3, e + 4} : q # t + 3
      BY <2>5
    <3>2. m[t + 3] = memory[t + 3]
      BY <1>5, <2>8, <3>1
    <3> QED BY <2>9, <3>2 DEF remainingCapacity_
  <2>17. remainingCapacity_(t)' \in Nat
    BY <1>3, <1>8, <2>16
  <2> QED BY <1>3, <2>9, <2>11, <2>13, <2>17 DEF Writes
<1>9. CASE \E j \in Holding(a, idx) :
             /\ memory' = [memory EXCEPT ![EntryAt(a, j) + 3] = result[1],
                                         ![EntryAt(a, j) + 4] = result[2]]
             /\ BackToPrompt
             /\ UNCHANGED <<self, old, sz, pc>>
  BY <1>1, <1>3, <1>7, <1>9
<1>10. CASE \E j \in Indices(a) :
             /\ remainingCapacity_(t) > 0
             /\ memory' = [WithEntry(memory, a, j, idx, result) EXCEPT ![t + 3] = @ - 1]
             /\ BackToPrompt
             /\ UNCHANGED <<self, old, sz, pc>>
  BY <1>1, <1>3, <1>8, <1>10
<1> QED BY <1>1, <1>2, <1>9, <1>10 DEF Store

LEMMA StoreKeeps ==
  ASSUME Inv, Store
  PROVE  Inv'
<1>1. /\ Runs("store") /\ pc = "run" /\ phase = "idle"
      /\ tbl \in Tables /\ backingArray_(tbl) # Null
  BY DEF Store, Runs, Inv, LocalsSound
<1>2. PICK c : c = backingArray_(tbl)
  OBVIOUS
<1>3. /\ HeapSound /\ Tiled /\ Live = Objects /\ c \in Arrays
      /\ size_(c) = size_(tbl) /\ size_(tbl) \in Nat
  BY <1>1, <1>2, TableWithArray
<1>4. Good(idx) /\ Good(result)
  BY DEF Inv, LocalsSound
<1>5. ASSUME NEW t \in Tables, NEW a \in Arrays, Writes(t, a),
             BackToPrompt, UNCHANGED <<self, old, sz, pc, fault>>
      PROVE  Inv'
  <2>1. phase' = "idle" /\ pc # "aborted"
    BY <1>1, <1>5 DEF BackToPrompt, collector
  <2>2. /\ HeapSound'
        /\ Tables' = Tables
    BY <1>1, <1>3, <1>5, <2>1, Written
  <2> QED BY <1>1, <1>5, <2>2, StoreEnds
<1>6. ASSUME self' = tbl, old' = c, sz' = 2 * size_(tbl), pc' = "initialize",
             UNCHANGED <<memory, idx, tbl, result, code, fault, collector>>
      PROVE  Inv'
  <2>1. UNCHANGED <<phase, marked, work, at, collected>> /\ Live' = Live
    BY <1>3, <1>6, LiveStays DEF collector
  <2>2. /\ HeapSound' /\ Tables' = Tables /\ Arrays' = Arrays
        /\ \A o : /\ size_(o)' = size_(o)
                  /\ backingArray_(o)' = backingArray_(o)
        /\ \A v : Good(v)' <=> Good(v)
    BY <1>1, <1>3, <1>6, <2>1, HeapStays
  <2>3. LocalsSound'
    <3>1. Good(idx)' /\ Good(result)'
      BY <1>4, <1>6, <2>2 DEF Good
    <3>2. tbl' \in {Null, Dangling} \cup Tables'
      BY <1>6, <2>2 DEF Inv, LocalsSound
    <3> QED BY <1>1, <1>3, <1>6, <2>2, <3>1, <3>2 DEF LocalsSound
  <2>4. ControlSound'
    <3>1. size_(tbl) \in Nat /\ sz' \in Nat
      BY <1>1, <1>2, <1>3, <1>6
    <3>2. tbl # Null
      <4>1. GlobalVariables # Null /\ Null \notin Objects
        BY <1>3, Layout, GlobalsOutside
      <4> QED BY <1>1, <4>1 DEF Tables, Live
    <3>3. backingArray_(self)' = c /\ size_(old)' = size_(tbl)
      <4>1. backingArray_(self)' = memory'[tbl + 5] /\ size_(old)' = memory'[c + 2]
        BY <1>6 DEF backingArray_, size_
      <4>2. memory'[tbl + 5] = backingArray_(tbl) /\ memory'[c + 2] = size_(c)
        BY <1>6 DEF backingArray_, size_
      <4>3. backingArray_(tbl) = c /\ size_(c) = size_(tbl)
        BY <1>1, <1>2, <1>3
      <4> QED BY <4>1, <4>2, <4>3
    <3> QED BY <1>1, <1>6, <3>1, <3>2, <3>3 DEF Inv, ControlSound
  <2>5. CodeSound'
    BY <1>1, <1>6 DEF Inv, CodeSound, Runs
  <2>6. MarksSound'
    BY <1>1, <2>1, MarksIdle DEF Inv, MarksSound
  <2> QED BY <2>2, <2>3, <2>4, <2>5, <2>6 DEF Inv
<1>7. CASE \E t \in Tables, a \in Arrays :
             Writes(t, a) /\ BackToPrompt /\ UNCHANGED <<self, old, sz, pc, fault>>
  BY <1>5, <1>7
<1> QED BY <1>2, <1>6, <1>7, StoreWrites

\* What an entry that has moved leaves behind.
LEMMA MovedWrites ==
  ASSUME Inv, phase = "idle", NEW t \in Tables, NEW a, a = backingArray_(t), a # Null,
         NEW from \in Indices(a), NEW to \in Indices(a), from # to,
         memory' = Moved(a, from, to)
  PROVE  a \in Arrays /\ Writes(t, a)
<1>1. /\ HeapSound /\ Tiled /\ Live = Objects /\ memory \in [GlobalVariables .. Top - 1 -> Int]
      /\ a \in Arrays /\ a \in Objects /\ Kind(a) = RefArrayKind
      /\ remainingCapacity_(t) \in Nat
  BY TableWithArray
<1>2. /\ a \in Nat /\ Extent(a) \in Nat
      /\ a .. a + Extent(a) - 1 \subseteq GlobalVariables .. Top - 1
  BY <1>1, ObjectWords, Places
<1>3. t + 3 \notin a .. a + Extent(a) - 1 /\ t + 3 \in GlobalVariables .. Top - 1
  BY <1>1, RoomOutside DEF HeapSound
<1>4. PICK e, f : e = EntryAt(a, from) /\ f = EntryAt(a, to)
  OBVIOUS
<1>5. /\ e \in Nat /\ e >= a + 3 /\ e + 4 <= a + (Extent(a) - 1)
      /\ f \in Nat /\ f >= a + 3 /\ f + 4 <= a + (Extent(a) - 1)
      /\ e + 4 < f \/ f + 4 < e
  <2>1. /\ e \in Nat /\ e >= a + 3 /\ e + 4 <= a + (Extent(a) - 1)
        /\ f \in Nat /\ f >= a + 3 /\ f + 4 <= a + (Extent(a) - 1)
        /\ from \in Nat /\ to \in Nat
    BY <1>1, <1>4, EntryWords
  <2>2. e = a + 3 + 5 * from /\ f = a + 3 + 5 * to
    BY <1>4 DEF EntryAt
  <2>3. from < to \/ to < from
    BY <2>1
  <2> QED BY <1>2, <2>1, <2>2, <2>3
<1>6. \A k \in 0 .. 4 : /\ e + k \in a .. a + Extent(a) - 1
                        /\ f + k \in a .. a + Extent(a) - 1
  BY <1>2, <1>5
<1>7. memory' = [q \in GlobalVariables .. Top - 1 |->
                   IF q \in f .. f + 4 THEN memory[e + (q - f)]
                   ELSE IF q \in {e, e + 1, e + 3, e + 4} THEN 0
                   ELSE memory[q]]
  <2>1. memory' = [q \in DOMAIN memory |->
                     IF q \in f .. f + 4 THEN memory[e + (q - f)]
                     ELSE IF q \in {e, e + 1, e + 3, e + 4} THEN 0
                     ELSE memory[q]]
    BY <1>4 DEF Moved
  <2> QED BY <1>1, <2>1
<1>8. ASSUME NEW k \in 0 .. 4
      PROVE  /\ f + k \in f .. f + 4 /\ e + ((f + k) - f) = e + k
             /\ f + k \in GlobalVariables .. Top - 1
             /\ e + k \in GlobalVariables .. Top - 1
             /\ e + k \notin f .. f + 4
  BY <1>2, <1>5, <1>6
<1>9. \A k \in 0 .. 4 : memory'[f + k] = memory[e + k]
  BY <1>7, <1>8
<1>10. \A k \in {0, 1, 3, 4} : memory'[e + k] = 0
  <2>1. ASSUME NEW k \in {0, 1, 3, 4}
        PROVE  k \in 0 .. 4 /\ e + k \in {e, e + 1, e + 3, e + 4}
    BY <1>5
  <2> QED BY <1>7, <1>8, <2>1
<1>11. memory' \in [GlobalVariables .. Top - 1 -> Int]
  <2>1. ASSUME NEW q \in GlobalVariables .. Top - 1
        PROVE  memory'[q] \in Int
    <3>1. CASE q \in f .. f + 4
      <4>1. q - f \in 0 .. 4 /\ f + (q - f) = q
        BY <1>5, <3>1
      <4> QED BY <1>1, <1>8, <1>9, <4>1
    <3>2. CASE q \notin f .. f + 4
      BY <1>1, <1>7, <3>2
    <3> QED BY <3>1, <3>2
  <2> QED BY <1>7, <2>1
<1>12. /\ \A q \in GlobalVariables .. Top - 1 :
            q \notin a + 3 .. a + Extent(a) - 1 /\ q # t + 3 => memory'[q] = memory[q]
       /\ \A i \in Indices(a) \ {from, to} : Key(a, i)' = Key(a, i) /\ Val(a, i)' = Val(a, i)
  <2>1. ASSUME NEW q \in GlobalVariables .. Top - 1,
               \A j \in {from, to} : q \notin EntryAt(a, j) .. EntryAt(a, j) + 4
        PROVE  memory'[q] = memory[q]
    <3>1. q \notin f .. f + 4 /\ q \notin e .. e + 4
      BY <1>4, <2>1
    <3>2. q \notin {e, e + 1, e + 3, e + 4}
      BY <1>5, <3>1
    <3> QED BY <1>7, <3>1, <3>2
  <2>2. PICK J, x : J = {from, to} /\ x = t + 3
    OBVIOUS
  <2>3. J \in SUBSET Indices(a)
    BY <2>2
  <2>4. x \notin a .. a + Extent(a) - 1
    BY <1>3, <2>2
  <2>5. \A q \in GlobalVariables .. Top - 1 :
          (\A k \in J : q \notin EntryAt(a, k) .. EntryAt(a, k) + 4) /\ q # x => memory'[q] = memory[q]
    BY <2>1, <2>2
  <2>6. /\ \A q \in GlobalVariables .. Top - 1 :
              q \notin a + 3 .. a + Extent(a) - 1 /\ q # x => memory'[q] = memory[q]
        /\ \A i \in Indices(a) \ J : Key(a, i)' = Key(a, i) /\ Val(a, i)' = Val(a, i)
    BY <1>1, <2>3, <2>4, <2>5, EntriesWritten
  <2> QED BY <2>2, <2>6
<1>13. /\ Key(a, to)' = Key(a, from) /\ Val(a, to)' = Val(a, from)
       /\ Key(a, from)' = Nil /\ Val(a, from)' = Nil
  <2>1. /\ memory'[f] = memory[e] /\ memory'[f + 1] = memory[e + 1]
        /\ memory'[f + 3] = memory[e + 3] /\ memory'[f + 4] = memory[e + 4]
        /\ memory'[e] = 0 /\ memory'[e + 1] = 0 /\ memory'[e + 3] = 0 /\ memory'[e + 4] = 0
    <3>1. e + 0 = e /\ f + 0 = f
      BY <1>5
    <3> QED BY <1>9, <1>10, <3>1
  <2>2. EntryAt(a, from)' = e /\ EntryAt(a, to)' = f
    BY <1>4 DEF EntryAt
  <2> QED BY <1>4, <2>1, <2>2 DEF Key, Val, Nil, NILL, Null
<1>14. \A i \in Indices(a) : Good(Key(a, i)') /\ Good(Val(a, i)')
  <2>1. \A i \in Indices(a) : Good(Key(a, i)) /\ Good(Val(a, i))
    BY <1>1 DEF HeapSound
  <2> QED BY <1>12, <1>13, <2>1, GoodNil
<1>15. remainingCapacity_(t)' = remainingCapacity_(t)
  <2>1. t + 3 \notin f .. f + 4 /\ t + 3 \notin {e, e + 1, e + 3, e + 4}
    <3>1. f .. f + 4 \subseteq a .. a + Extent(a) - 1 /\ e .. e + 4 \subseteq a .. a + Extent(a) - 1
      BY <1>2, <1>5
    <3>2. {e, e + 1, e + 3, e + 4} \subseteq e .. e + 4
      BY <1>5
    <3> QED BY <1>3, <3>1, <3>2
  <2> QED BY <1>3, <1>7, <2>1 DEF remainingCapacity_
<1> QED BY <1>1, <1>11, <1>12, <1>14, <1>15 DEF Writes

\* FindSlot moves an entry, or stops.
LEMMA FindSlotWrites ==
  ASSUME Inv, FindSlot
  PROVE  /\ pc = "run" /\ phase = "idle"
         /\ \/ /\ \E t \in Tables, a \in Arrays : Writes(t, a)
               /\ UNCHANGED <<program, collector>>
            \/ Abort("assertion")
<1>1. pc = "run" /\ phase = "idle"
  BY DEF FindSlot, Runs
<1>2. PICK t, a : /\ t = IF Runs("variable") THEN GlobalVariables ELSE tbl
                  /\ a = backingArray_(t)
  OBVIOUS
<1>3. t \in Tables /\ a # Null
  BY <1>2 DEF FindSlot, Inv, LocalsSound, Tables
<1>4. ASSUME NEW from \in Indices(a), NEW to \in Holding(a, Nil), from \notin Holding(a, Nil),
             memory' = Moved(a, from, to)
      PROVE  a \in Arrays /\ Writes(t, a)
  <2>1. to \in Indices(a) /\ from # to
    BY <1>4 DEF Holding
  <2> QED BY <1>1, <1>2, <1>3, <1>4, <2>1, MovedWrites
<1>5. CASE \E from \in Indices(a), to \in Holding(a, Nil) :
             /\ from \notin Holding(a, Nil)
             /\ memory' = Moved(a, from, to)
             /\ UNCHANGED <<program, collector>>
  BY <1>1, <1>3, <1>4, <1>5
<1>6. CASE Abort("assertion")
  BY <1>1, <1>6
<1> QED BY <1>2, <1>5, <1>6 DEF FindSlot

LEMMA FindSlotKeeps ==
  ASSUME Inv, FindSlot
  PROVE  Inv'
<1>1. pc = "run" /\ phase = "idle"
  BY FindSlotWrites
<1>2. CASE Abort("assertion")
  BY <1>1, <1>2, Stops DEF Faults
<1>3. ASSUME NEW t \in Tables, NEW a \in Arrays, Writes(t, a), UNCHANGED <<program, collector>>
      PROVE  Inv'
  <2>1. UNCHANGED <<self, old, idx, tbl, result, code, sz, pc, fault, phase, marked, work, at, collected>>
    BY <1>3 DEF program, collector
  <2>2. /\ HeapSound'
        /\ Tables' = Tables
        /\ \A v : Good(v) => Good(v)'
    <3>1. phase' = "idle" /\ pc # "aborted" /\ HeapSound
      BY <1>1, <2>1 DEF Inv
    <3> QED BY <1>1, <1>3, <3>1, Written
  <2>3. self = Null /\ old = Null
    BY <1>1 DEF Inv, ControlSound
  <2>4. LocalsSound'
    <3>1. Good(idx)' /\ Good(result)'
      BY <2>1, <2>2 DEF Inv, LocalsSound, Good
    <3> QED BY <2>1, <2>2, <2>3, <3>1 DEF Inv, LocalsSound
  <2>5. ControlSound'
    BY <1>1, <2>1 DEF Inv, ControlSound
  <2>6. CodeSound'
    BY <2>1 DEF Inv, CodeSound
  <2>7. MarksSound'
    BY <1>1, <2>1, MarksIdle DEF Inv, MarksSound
  <2> QED BY <2>2, <2>4, <2>5, <2>6, <2>7 DEF Inv
<1> QED BY <1>2, <1>3, FindSlotWrites

\* The entries of the old array are copied, as many as it has.
LEMMA RehashWrites ==
  ASSUME Inv, Rehash
  PROVE  \/ Abort("no_array")
         \/ /\ \E t \in Tables, a \in Arrays : t = self /\ Writes(t, a)
            /\ pc' = "aborted" /\ fault' = "grow"
            /\ UNCHANGED <<self, old, idx, tbl, result, code, sz, collector>>
<1> SUFFICES ASSUME ~Abort("no_array")
             PROVE  \E t \in Tables, a \in Arrays : t = self /\ Writes(t, a)
  BY DEF Rehash
<1>1. /\ pc = "rehash" /\ pc' = "aborted" /\ fault' = "grow"
      /\ backingArray_(self) # Null
      /\ UNCHANGED <<self, old, idx, tbl, result, code, sz, phase, marked, work, at, collected>>
  BY DEF Rehash, collector
<1>2. phase = "idle" /\ Live = Objects
  BY <1>1 DEF Inv, ControlSound, Live
<1>3. PICK a, t, n, o : a = backingArray_(self) /\ t = self /\ n = size_(old) /\ o = old
  OBVIOUS
<1>4. /\ HeapSound /\ Tiled /\ memory \in [GlobalVariables .. Top - 1 -> Int]
      /\ t \in Tables /\ backingArray_(t) = a /\ a # Null
      /\ o \in Arrays /\ o # a /\ o \in Objects /\ Kind(o) = RefArrayKind
      /\ size_(o) = n /\ sz = 2 * n /\ size_(t) = sz
  BY <1>1, <1>2, <1>3 DEF Inv, HeapSound, Tiled, Arrays, ControlSound, LocalsSound
<1>5. a \in Arrays /\ a \in Objects /\ Kind(a) = RefArrayKind /\ size_(a) = 2 * n
  BY <1>2, <1>4 DEF HeapSound, SoundTable, Arrays
<1>6. /\ n \in Nat
      /\ a \in Nat /\ Extent(a) \in Nat /\ Extent(a) >= 3 + 5 * (2 * n)
      /\ a .. a + Extent(a) - 1 \subseteq GlobalVariables .. Top - 1
      /\ o \in Nat /\ Extent(o) \in Nat /\ Extent(o) >= 3 + 5 * n
      /\ o .. o + Extent(o) - 1 \subseteq GlobalVariables .. Top - 1
  BY <1>4, <1>5, ObjectWords, Places
<1>7. /\ t + 3 \notin a .. a + Extent(a) - 1
      /\ t + 3 \in GlobalVariables .. Top - 1
  BY <1>2, <1>4, <1>5, RoomOutside DEF HeapSound
<1>8. memory' = [q \in GlobalVariables .. Top - 1 |->
                   IF q \in a + 3 .. a + 3 + 5 * n - 1
                     THEN memory[o + 3 + (q - (a + 3))]
                   ELSE IF q = t + 3 THEN n
                   ELSE memory[q]]
  <2>1. /\ EntryAt(a, 0) = a + 3 /\ EntryAt(o, 0) = o + 3
        /\ EntryAt(a, n) = a + 3 + 5 * n
    BY <1>6 DEF EntryAt
  <2>2. DOMAIN memory = GlobalVariables .. Top - 1
    BY <1>4
  <2>3. sz - n = n
    BY <1>4, <1>6
  <2>4. memory' = [q \in DOMAIN memory |->
                     IF q \in EntryAt(a, 0) .. EntryAt(a, n) - 1
                       THEN memory[EntryAt(o, 0) + (q - EntryAt(a, 0))]
                     ELSE IF q = t + 3 THEN sz - n
                     ELSE memory[q]]
    BY <1>3 DEF Rehash
  <2>5. EntryAt(a, n) - 1 = a + 3 + 5 * n - 1
    BY <1>6, <2>1
  <2> QED BY <2>1, <2>2, <2>3, <2>4, <2>5
<1>9. \A q \in a + 3 .. a + 3 + 5 * n - 1 :
        /\ q \in a + 3 .. a + Extent(a) - 1
        /\ q \in GlobalVariables .. Top - 1
        /\ o + 3 + (q - (a + 3)) \in GlobalVariables .. Top - 1
        /\ memory'[q] = memory[o + 3 + (q - (a + 3))]
  <2>1. ASSUME NEW q \in a + 3 .. a + 3 + 5 * n - 1
        PROVE  /\ q \in a + 3 .. a + Extent(a) - 1
               /\ q \in a .. a + Extent(a) - 1
               /\ o + 3 + (q - (a + 3)) \in o .. o + Extent(o) - 1
    <3>1. q \in Int /\ a + 3 <= q /\ q < a + 3 + 5 * n
      BY <1>6
    <3> QED BY <1>6, <3>1
  <2> QED BY <1>6, <1>8, <2>1
<1>10. \A q \in GlobalVariables .. Top - 1 :
         q \notin a + 3 .. a + 3 + 5 * n - 1 /\ q # t + 3 => memory'[q] = memory[q]
  BY <1>8
<1>11. memory'[t + 3] = n
  <2>1. t + 3 \notin a + 3 .. a + 3 + 5 * n - 1
    <3>1. a + 3 .. a + 3 + 5 * n - 1 \subseteq a .. a + Extent(a) - 1
      BY <1>6
    <3> QED BY <1>7, <3>1
  <2> QED BY <1>7, <1>8, <2>1
<1>12. memory' \in [GlobalVariables .. Top - 1 -> Int]
  <2>1. \A q \in GlobalVariables .. Top - 1 : memory'[q] \in Int
    <3>1. ASSUME NEW q \in GlobalVariables .. Top - 1
          PROVE  memory'[q] \in Int
      <4>1. CASE q \in a + 3 .. a + 3 + 5 * n - 1
        BY <1>4, <1>9, <4>1
      <4>2. CASE q \notin a + 3 .. a + 3 + 5 * n - 1
        BY <1>4, <1>6, <1>10, <1>11, <4>2
      <4> QED BY <4>1, <4>2
    <3> QED BY <3>1
  <2> QED BY <1>8, <2>1
<1>13. ASSUME NEW i \in Indices(a)
       PROVE  Good(Key(a, i)') /\ Good(Val(a, i)')
  <2>1. PICK e : e = EntryAt(a, i)
    OBVIOUS
  <2>2. EntryAt(a, i)' = e
    BY <2>1 DEF EntryAt
  <2>3. /\ i \in Nat /\ i < 2 * n /\ e \in Nat /\ e = a + 3 + 5 * i
        /\ \A k \in {0, 1, 3, 4} : e + k \in a .. a + Extent(a) - 1
    <3>1. i \in Nat /\ i < 2 * n
      BY <1>5, <1>6 DEF Indices
    <3>2. e \in Nat /\ e = a + 3 + 5 * i
      BY <1>6, <2>1, <3>1 DEF EntryAt
    <3>3. ASSUME NEW k \in {0, 1, 3, 4}
          PROVE  e + k \in a .. a + Extent(a) - 1
      BY <1>6, <3>1, <3>2
    <3> QED BY <3>1, <3>2, <3>3
  <2>4. CASE i < n
    <3>1. i \in Indices(o)
      BY <1>4, <1>6, <2>3, <2>4 DEF Indices
    <3>2. PICK f : f = EntryAt(o, i)
      OBVIOUS
    <3>3. f \in Nat /\ f = o + 3 + 5 * i
      BY <1>6, <2>3, <3>2 DEF EntryAt
    <3>4. ASSUME NEW k \in {0, 1, 3, 4}
          PROVE  memory'[e + k] = memory[f + k]
      <4>1. e + k \in a + 3 .. a + 3 + 5 * n - 1
        BY <1>6, <2>3, <2>4
      <4>2. o + 3 + ((e + k) - (a + 3)) = f + k
        BY <1>6, <2>3, <3>3
      <4> QED BY <1>9, <4>1, <4>2
    <3>5. /\ memory'[e] = memory[f] /\ memory'[e + 1] = memory[f + 1]
          /\ memory'[e + 3] = memory[f + 3] /\ memory'[e + 4] = memory[f + 4]
      <4>1. e + 0 = e /\ f + 0 = f
        BY <2>3, <3>3
      <4> QED BY <3>4, <4>1
    <3>6. Key(a, i)' = Key(o, i) /\ Val(a, i)' = Val(o, i)
      BY <2>2, <3>2, <3>5 DEF Key, Val
    <3> QED BY <1>4, <3>1, <3>6 DEF HeapSound
  <2>5. CASE ~(i < n)
    <3>1. ASSUME NEW k \in {0, 1, 3, 4}
          PROVE  memory'[e + k] = memory[e + k]
      <4>1. e + k \notin a + 3 .. a + 3 + 5 * n - 1
        BY <1>6, <2>3, <2>5
      <4>2. e + k \in GlobalVariables .. Top - 1 /\ e + k # t + 3
        BY <1>6, <1>7, <2>3
      <4> QED BY <1>10, <4>1, <4>2
    <3>2. /\ memory'[e] = memory[e] /\ memory'[e + 1] = memory[e + 1]
          /\ memory'[e + 3] = memory[e + 3] /\ memory'[e + 4] = memory[e + 4]
      <4>1. e + 0 = e
        BY <2>3
      <4> QED BY <3>1, <4>1
    <3>3. Key(a, i)' = Key(a, i) /\ Val(a, i)' = Val(a, i)
      BY <2>1, <2>2, <3>2 DEF Key, Val
    <3> QED BY <1>4, <1>5, <3>3 DEF HeapSound
  <2> QED BY <2>4, <2>5
<1>14. Writes(t, a)
  <2>1. \A q \in GlobalVariables .. Top - 1 :
          q \notin a + 3 .. a + Extent(a) - 1 /\ q # t + 3 => memory'[q] = memory[q]
    BY <1>9, <1>10
  <2>2. remainingCapacity_(t)' \in Nat
    BY <1>6, <1>11 DEF remainingCapacity_
  <2> QED BY <1>1, <1>4, <1>12, <1>13, <2>1, <2>2 DEF Writes
<1> QED BY <1>3, <1>4, <1>5, <1>14

LEMMA RehashKeeps ==
  ASSUME Inv, Rehash
  PROVE  Inv'
<1>0. pc = "rehash" /\ phase = "idle"
  BY DEF Rehash, Inv, ControlSound
<1> SUFFICES ASSUME ~Abort("no_array")
             PROVE  Inv'
  BY <1>0, Stops DEF Faults
<1>1. /\ pc = "rehash" /\ pc' = "aborted" /\ fault' = "grow"
      /\ UNCHANGED <<self, old, idx, tbl, result, code, sz, phase, marked, work, at, collected>>
  BY DEF Rehash, collector
<1>2. phase = "idle" /\ Live = Objects
  BY <1>0 DEF Live
<1>3. PICK t \in Tables, a \in Arrays : t = self /\ Writes(t, a)
  BY RehashWrites
<1>5. /\ HeapSound'
      /\ Tables' = Tables
      /\ Arrays' = Arrays
      /\ \A u \in Tables : backingArray_(u)' = backingArray_(u) /\ size_(u)' = size_(u)
      /\ \A b \in Arrays : size_(b)' = size_(b)
      /\ \A v : Good(v) => Good(v)'
  <2>1. phase' = "idle" /\ pc # "aborted" /\ HeapSound
    BY <1>1, <1>2 DEF Inv
  <2> QED BY <1>2, <1>3, <2>1, Written
<1>6. LocalsSound'
  <2>1. Good(idx) /\ Good(result)
    BY DEF Inv, LocalsSound
  <2>2. PICK v, w : v = idx /\ w = result
    OBVIOUS
  <2>3. Good(v)' /\ Good(w)'
    BY <1>5, <2>1, <2>2
  <2>4. Good(idx)' /\ Good(result)'
    BY <1>1, <2>2, <2>3 DEF Good
  <2>5. tbl \in {Null, Dangling} \cup Tables
    BY DEF Inv, LocalsSound
  <2>7. tbl' \in {Null, Dangling} \cup Tables'
    BY <1>1, <1>5, <2>5
  <2>8. self' \in {Null} \cup Tables' /\ old' \in {Null} \cup Arrays'
    BY <1>1, <1>5 DEF Inv, LocalsSound
  <2> QED BY <2>4, <2>7, <2>8 DEF LocalsSound
<1>7. ControlSound'
  BY <1>1, <1>2 DEF Inv, ControlSound, Faults
<1>8. CodeSound'
  BY <1>1 DEF Inv, CodeSound
<1>9. MarksSound'
  BY <1>1, <1>2, MarksIdle DEF Inv, MarksSound
<1> QED BY <1>5, <1>6, <1>7, <1>8, <1>9 DEF Inv

-----------------------------------------------------------------------------
(* The invariant. *)

\* At first the heap is a hole.
LEMMA OneHole ==
  ASSUME Init
  PROVE  /\ memory \in [2 .. Top - 1 -> Int] /\ memory[2] = 0 /\ memory[7] = 0
         /\ Walk = {8, Top} /\ Tiling(Walk)
         /\ Objects = {}
<1>1. /\ Bottom = 8 /\ GlobalVariables = 2 /\ Null = 0
      /\ Top \in Nat /\ Top > 8 /\ Top % 2 = 0 /\ GlobalSize \in Nat
  BY Layout, SizesAssumption
<1>2. /\ memory = [q \in 2 .. Top - 1 |->
                     IF q < 8 THEN 0 ELSE IF q = 8 THEN -(Top - 8) ELSE 1]
      /\ self = 2 /\ sz = GlobalSize /\ pc = "initialize" /\ old = 0
      /\ idx = Nil /\ tbl = 0 /\ result = Nil /\ code = <<>> /\ fault = "none"
      /\ phase = "idle" /\ marked = {} /\ work = {} /\ at = 8 /\ collected = FALSE
  BY <1>1 DEF Init, HoleWord, Stale, OBJECT
<1>3. memory \in [2 .. Top - 1 -> Int]
  BY <1>1, <1>2
<1>4. memory[2] = 0 /\ memory[7] = 0 /\ memory[8] = -(Top - 8)
  BY <1>1, <1>2
<1>5. IsHole(8) /\ Extent(8) = Top - 8
  BY <1>1, <1>4 DEF IsHole, Extent
<1>6. Tiling({8, Top})
  <2>1. 8 + Extent(8) = Top
    BY <1>1, <1>5
  <2> QED BY <1>1, <1>5, <2>1 DEF Tiling
<1>7. Walk = {8, Top} /\ Tiling(Walk)
  BY <1>6, TilingIsWalk
<1>8. Objects = {}
  BY <1>5, <1>7 DEF Objects
<1> QED BY <1>3, <1>4, <1>7, <1>8

LEMMA InitSound ==
  ASSUME Init
  PROVE  Inv
<1>1. /\ Bottom = 8 /\ GlobalVariables = 2 /\ Null = 0
      /\ Top \in Nat /\ Top > 8 /\ Top % 2 = 0 /\ GlobalSize \in Nat
  BY Layout, SizesAssumption
<1>2. /\ self = 2 /\ sz = GlobalSize /\ pc = "initialize" /\ old = 0
      /\ idx = Nil /\ tbl = 0 /\ result = Nil /\ code = <<>> /\ fault = "none"
      /\ phase = "idle" /\ marked = {} /\ work = {} /\ at = 8 /\ collected = FALSE
  BY <1>1 DEF Init
<1>3. /\ memory \in [2 .. Top - 1 -> Int] /\ memory[2] = 0 /\ memory[7] = 0
      /\ Walk = {8, Top} /\ Tiling(Walk)
      /\ Objects = {}
  BY OneHole
<1>4. Live = {} /\ Tables = {2} /\ Arrays = {}
  BY <1>1, <1>2, <1>3 DEF Live, Tables, Arrays
<1>5. Tiled
  <2>1. \A p \in Walk : p % 2 = 0
    BY <1>1, <1>3
  <2> QED BY <1>1, <1>3, <2>1 DEF Tiled
<1>6. Kind(2) = HashTableKind /\ backingArray_(2) = Null
  BY <1>1, <1>3 DEF Kind, backingArray_, HashTableKind
<1>7. HeapSound
  BY <1>1, <1>4, <1>5, <1>6 DEF HeapSound, SoundTable
<1>8. LocalsSound
  BY <1>1, <1>2, <1>4 DEF LocalsSound, Good
<1>9. ControlSound
  BY <1>1, <1>2, <1>4, <1>6 DEF ControlSound
<1>10. CodeSound
  BY <1>2, EmptySeq DEF CodeSound
<1>11. MarksSound
  BY <1>1, <1>2 DEF MarksSound, Bottom
<1> QED BY <1>7, <1>8, <1>9, <1>10, <1>11 DEF Inv

LEMMA Stutters ==
  ASSUME Inv, UNCHANGED vars
  PROVE  Inv'
<1>1. /\ memory' = memory
      /\ UNCHANGED <<self, old, idx, tbl, result, code, sz, pc, fault>>
      /\ UNCHANGED <<phase, marked, work, at, collected>>
  BY DEF vars, program, collector
<1>2. HeapSound /\ Live' = Live
  BY <1>1, LiveStays DEF Inv
<1>3. /\ HeapSound' /\ Tables' = Tables /\ Arrays' = Arrays
      /\ \A o : /\ size_(o)' = size_(o)
                /\ backingArray_(o)' = backingArray_(o)
      /\ \A v : Good(v)' <=> Good(v)
  BY <1>1, <1>2, HeapStays
<1>4. Roots' = Roots /\ Walk' = Walk /\ Objects' = Objects /\ \A o : Edges(o)' = Edges(o)
  BY <1>1, <1>2, MemoryStays
<1>5. LocalsSound'
  <2>1. Good(idx)' /\ Good(result)'
    BY <1>1, <1>3 DEF Inv, LocalsSound, Good
  <2> QED BY <1>1, <1>3, <2>1 DEF Inv, LocalsSound
<1>6. ControlSound'
  <2>1. backingArray_(self)' = backingArray_(self) /\ size_(self)' = size_(self)
        /\ size_(old)' = size_(old)
    BY <1>1 DEF backingArray_, size_
  <2> QED BY <1>1, <1>3, <2>1 DEF Inv, ControlSound
<1>7. CodeSound'
  BY <1>1, <1>3 DEF Inv, CodeSound
<1>8. MarksSound'
  <2>1. MarksLeast => MarksLeast'
    BY <1>1, <1>4, LeastStays
  <2> QED BY <1>1, <1>4, <2>1 DEF Inv, MarksSound
<1> QED BY <1>3, <1>5, <1>6, <1>7, <1>8 DEF Inv

LEMMA Steps ==
  ASSUME Inv, [Next]_vars
  PROVE  Inv'
<1>1. CASE CollectorStep
  BY <1>1, ScanKeeps, StartSweepKeeps, SkipMarkedKeeps, SweepGapKeeps, FinishCollectionKeeps
     DEF CollectorStep
<1>2. CASE \E l \in Lines : ReadLine(l)
  BY <1>2, ReadLineKeeps
<1>3. CASE EvalNumber \/ EvalString \/ EvalVariable \/ EvalNewTable \/ EvalForceGC
  BY <1>3, EvalNumberKeeps, EvalStringKeeps, EvalVariableKeeps, EvalNewTableKeeps, EvalForceGCKeeps
<1>4. CASE \/ CheckTable \/ TableStops \/ RootIndex \/ Initialize \/ FindSlot \/ Store \/ StoreStops
           \/ Rehash \/ PrintResult \/ PrintStops
  BY <1>4, CheckTableKeeps, TableStopsKeeps, RootIndexKeeps, InitializeKeeps, FindSlotKeeps, StoreKeeps,
     StoreStopsKeeps, RehashKeeps, PrintResultKeeps, PrintStopsKeeps
<1>5. CASE Halted \/ UNCHANGED vars
  BY <1>5, Stutters DEF Halted
<1> QED BY <1>1, <1>2, <1>3, <1>4, <1>5 DEF Next

\* The heap is sound at every moment: in the program, during the collector's
\* marking and between the steps of its sweep.
THEOREM HeapStaysSound == Spec => []Inv
<1>1. Init => Inv
  BY InitSound
<1>2. Inv /\ [Next]_vars => Inv'
  BY Steps
<1> QED BY <1>1, <1>2, PTL DEF Spec

-----------------------------------------------------------------------------
(* What follows from it. *)

LEMMA SoundIsTyped ==
  ASSUME Inv
  PROVE  TypeOK
<1>1. Objects \subseteq Bottom .. Top - 1
  BY ObjectWords DEF Inv, HeapSound
<1>2. Live \subseteq Bottom .. Top - 1
  BY <1>1, LiveObjects DEF Inv
<1>3. /\ Bottom = 8 /\ GlobalVariables = 2 /\ Null = 0 /\ Top \in Nat /\ Top > 8
  BY Layout
<1>4. Tables \subseteq GlobalVariables .. Top - 1
  <2>1. GlobalVariables \in GlobalVariables .. Top - 1
    BY <1>3
  <2>2. Bottom .. Top - 1 \subseteq GlobalVariables .. Top - 1
    BY <1>3
  <2> QED BY <1>2, <2>1, <2>2 DEF Tables
<1>5. memory \in [GlobalVariables .. Top - 1 -> Int]
  BY DEF Inv, HeapSound, Tiled
<1>6. self \in {Null} \cup GlobalVariables .. Top - 1
  BY <1>4 DEF Inv, LocalsSound
<1>7. old \in {Null} \cup Bottom .. Top - 1
  BY <1>2 DEF Inv, LocalsSound, Arrays
<1>8. \A v : Good(v) => v \in {NILL, OBJECT, INTEGER} \X Int
  <2>1. Live \subseteq Int /\ Null \in Int
    BY <1>2, <1>3
  <2>2. ASSUME NEW v, v \in {OBJECT} \X (Live \ Arrays)
        PROVE  v \in {NILL, OBJECT, INTEGER} \X Int
    BY <2>1, <2>2
  <2>3. ASSUME NEW v, v \in {INTEGER} \X Int
        PROVE  v \in {NILL, OBJECT, INTEGER} \X Int
    BY <2>3
  <2>4. Nil \in {NILL, OBJECT, INTEGER} \X Int
    BY <2>1 DEF Nil
  <2> QED BY <2>2, <2>3, <2>4 DEF Good
<1>9. tbl \in 0 .. Top - 1
  BY <1>3, <1>4 DEF Inv, LocalsSound, Dangling
<1>10. marked \subseteq Bottom .. Top - 1 /\ work \subseteq marked
  BY <1>1 DEF Inv, MarksSound
<1>11. at \in Bottom .. Top
  <2>1. Walk \subseteq Bottom .. Top
    BY DEF Inv, HeapSound, Tiled, Tiling
  <2>2. Bottom \in Bottom .. Top
    BY Layout
  <2> QED BY <2>1, <2>2 DEF Inv, MarksSound
<1>12. Good(idx) /\ Good(result)
  BY DEF Inv, LocalsSound
<1>13. idx \in {NILL, OBJECT, INTEGER} \X Int /\ result \in {NILL, OBJECT, INTEGER} \X Int
  BY <1>8, <1>12
<1> QED BY <1>5, <1>6, <1>7, <1>9, <1>10, <1>11, <1>13
        DEF TypeOK, Inv, CodeSound, ControlSound, MarksSound

\* The words stay numbers, the locals of the evaluator stay tables, arrays and
\* values, and the collector marks nothing but addresses in the heap.
THEOREM HeapTyped == Spec => []TypeOK
<1>1. Inv => TypeOK
  BY SoundIsTyped
<1> QED BY <1>1, HeapStaysSound, PTL

\* What Size answers of an object is what was allocated for it, and a hole says
\* its own size: from the bottom of the heap a walk always comes to its top, and
\* finds an object or a hole at every sixteenth byte only (Hashtable.cpp:12-24
\* against ObjectAllocator.hpp:14, 30 and AST.cpp:200).
THEOREM HeapWalkable == Spec => []Walkable
<1>1. Inv => Walkable
  BY DEF Inv, HeapSound, Tiled, Tiling, Walkable
<1> QED BY <1>1, HeapStaysSound, PTL

\* Whatever memory held before, what the scanner reports of an object is an
\* object: of a table an array, and of an array anything else
\* (ObjectScanner.hpp:19-65).
THEOREM ScannerFindsObjects == Spec => []EdgesAreObjects
<1>1. Inv => EdgesAreObjects
  <2> SUFFICES ASSUME Inv, NEW o \in Objects, phase # "sweep" \/ o \in marked, NEW e \in Edges(o)
               PROVE  /\ e \in Objects
                      /\ (Kind(o) = HashTableKind) <=> (Kind(e) = RefArrayKind)
    BY DEF EdgesAreObjects
  <2>1. o \in Live
    BY DEF Live
  <2>2. e \in Live /\ (Kind(o) = HashTableKind <=> Kind(e) = RefArrayKind)
    BY <2>1, EdgesSound DEF Inv
  <2> QED BY <2>2, LiveObjects DEF Inv
<1> QED BY <1>1, HeapStaysSound, PTL

\* When the collector of OMR is done, what is left in the heap is exactly what
\* the roots of main.cpp and AST.cpp lead to by the edges that the scanner
\* reports: not a cycle that nothing else refers to, and not what only a word
\* that is no reference any more refers to.
THEOREM CollectionIsComplete == Spec => CollectsAll
<1>1. ASSUME Inv, FinishCollection
      PROVE  Objects = marked /\ marked = Reach(Roots)
  <2>1. phase = "sweep" /\ at = Top /\ HeapSound /\ MarksSound
    BY <1>1 DEF FinishCollection, Inv
  <2>2. Objects = marked
    BY <2>1, SweptHeap
  <2>3. Roots \subseteq marked /\ (\A o \in marked : Edges(o) \subseteq marked) /\ MarksLeast
    BY <2>1 DEF MarksSound
  <2>4. ASSUME NEW T \in SUBSET Objects, Roots \subseteq T, Closed(T)
        PROVE  marked \subseteq T
    BY <2>3, <2>4 DEF MarksLeast, Closed
  <2>5. Reach(Roots) = {o \in Objects : \A T \in {U \in SUBSET Objects : Roots \subseteq U /\ Closed(U)} : o \in T}
    BY DEF Reach
  <2>6. marked \subseteq Reach(Roots)
    BY <2>2, <2>4, <2>5
  <2>7. marked \in {U \in SUBSET Objects : Roots \subseteq U /\ Closed(U)}
    BY <2>2, <2>3 DEF Closed
  <2>8. Reach(Roots) \subseteq marked
    BY <2>5, <2>7
  <2> QED BY <2>2, <2>6, <2>8
<1>2. Inv /\ [Next]_vars =>
        [FinishCollection => Objects = marked /\ marked = Reach(Roots)]_vars
  BY <1>1
<1> QED BY <1>2, HeapStaysSound, PTL DEF Spec, CollectsAll

-----------------------------------------------------------------------------
(***************************************************************************)
(* The words as objects.                                                   *)
(***************************************************************************)

\* The three kinds of objects.
LEMMA StringIn ==
  \A o : Kind(o) = StringKind =>
          ObjectIn(o) = [kind |-> StringKind, slots |-> <<<<"number", size_(o)>>>>]
BY DEF ObjectIn, StringKind, HashTableKind, RefArrayKind

LEMMA TableIn ==
  \A o : Kind(o) = HashTableKind =>
          ObjectIn(o) = [kind  |-> HashTableKind,
                         slots |-> <<IF backingArray_(o) = Null THEN <<"nothing", Null>>
                                                                ELSE <<"object", backingArray_(o)>>>>]
BY DEF ObjectIn, StringKind, HashTableKind, RefArrayKind

LEMMA ArrayIn ==
  \A o : Kind(o) = RefArrayKind =>
          ObjectIn(o) = [kind  |-> RefArrayKind,
                         slots |-> [i \in 1 .. 2 * size_(o) |->
                                      IF i % 2 = 1 THEN Slot(Key(o, (i - 1) \div 2))
                                                   ELSE Slot(Val(o, (i - 1) \div 2))]]
BY DEF ObjectIn, StringKind, HashTableKind, RefArrayKind

\* An object that says what it said is the same object.
LEMMA ObjectStays ==
  ASSUME NEW o, Kind(o) \in {HashTableKind, RefArrayKind, StringKind}, Kind(o)' = Kind(o),
         Kind(o) # HashTableKind => size_(o) \in Nat /\ size_(o)' = size_(o),
         Kind(o) = HashTableKind => backingArray_(o)' = backingArray_(o),
         Kind(o) = RefArrayKind =>
           \A i \in Indices(o) : Key(o, i)' = Key(o, i) /\ Val(o, i)' = Val(o, i)
  PROVE  ObjectIn(o)' = ObjectIn(o)
<1>1. CASE Kind(o) = StringKind
  <2>1. size_(o)' = size_(o)
    BY <1>1 DEF StringKind, HashTableKind
  <2> QED BY <1>1, <2>1 DEF ObjectIn, StringKind, HashTableKind, RefArrayKind
<1>2. CASE Kind(o) = HashTableKind
  BY <1>2 DEF ObjectIn, StringKind, HashTableKind, RefArrayKind
<1>3. CASE Kind(o) = RefArrayKind
  <2>1. size_(o) \in Nat /\ size_(o)' = size_(o)
    BY <1>3 DEF RefArrayKind, HashTableKind
  <2>2. PICK n \in Nat : n = size_(o)
    BY <2>1
  <2>3. ASSUME NEW i \in 1 .. 2 * n
        PROVE  (i - 1) \div 2 \in Indices(o)
    BY <2>2, SMT DEF Indices
  <2>4. \A i : Slot(Key(o, i))' = Slot(Key(o, i)') /\ Slot(Val(o, i))' = Slot(Val(o, i)')
    BY DEF Slot
  <2>5. [i \in 1 .. 2 * n |-> IF i % 2 = 1 THEN Slot(Key(o, (i - 1) \div 2))'
                                            ELSE Slot(Val(o, (i - 1) \div 2))']
          = [i \in 1 .. 2 * n |-> IF i % 2 = 1 THEN Slot(Key(o, (i - 1) \div 2))
                                                ELSE Slot(Val(o, (i - 1) \div 2))]
    BY <1>3, <2>3, <2>4
  <2>6. ObjectIn(o) = [kind |-> RefArrayKind,
                       slots |-> [i \in 1 .. 2 * n |-> IF i % 2 = 1 THEN Slot(Key(o, (i - 1) \div 2))
                                                        ELSE Slot(Val(o, (i - 1) \div 2))]]
    BY <1>3, <2>2 DEF ObjectIn, StringKind, HashTableKind, RefArrayKind
  <2>7. ObjectIn(o)' = [kind |-> RefArrayKind,
                       slots |-> [i \in 1 .. 2 * n |-> IF i % 2 = 1 THEN Slot(Key(o, (i - 1) \div 2))'
                                                        ELSE Slot(Val(o, (i - 1) \div 2))']]
    BY <1>3, <2>1, <2>2 DEF ObjectIn, StringKind, HashTableKind, RefArrayKind
  <2> QED BY <2>5, <2>6, <2>7
<1> QED BY <1>1, <1>2, <1>3

LEMMA AlikeStays ==
  ASSUME Tiled, NEW o \in Objects, Alike(o)
  PROVE  ObjectIn(o)' = ObjectIn(o)
<1>1. /\ Kind(o) \in {HashTableKind, RefArrayKind, StringKind}
      /\ Kind(o) # HashTableKind => size_(o) \in Nat
  BY DEF Tiled
<1> QED BY <1>1, ObjectStays DEF Alike, HashTableKind, RefArrayKind

\* The kind of an object, and of an array and a string how many slots it has.
LEMMA ObjectShape ==
  ASSUME NEW o, Kind(o) \in {HashTableKind, RefArrayKind, StringKind},
         Kind(o) = RefArrayKind => size_(o) \in Nat
  PROVE  /\ ObjectIn(o).kind = Kind(o)
         /\ Kind(o) # RefArrayKind => Len(ObjectIn(o).slots) = 1
         /\ Kind(o) = RefArrayKind => Len(ObjectIn(o).slots) = 2 * size_(o)
<1>1. CASE Kind(o) = StringKind
  BY <1>1 DEF ObjectIn, StringKind, HashTableKind, RefArrayKind
<1>2. CASE Kind(o) = HashTableKind
  BY <1>2 DEF ObjectIn, StringKind, HashTableKind, RefArrayKind
<1>3. CASE Kind(o) = RefArrayKind
  <2>0. PICK n \in Nat : n = 2 * size_(o)
    BY <1>3
  <2>1. PICK f : f = [i \in 1 .. n |-> IF i % 2 = 1 THEN Slot(Key(o, (i - 1) \div 2))
                                        ELSE Slot(Val(o, (i - 1) \div 2))]
    OBVIOUS
  <2>2. ObjectIn(o) = [kind |-> RefArrayKind, slots |-> f]
    BY <1>3, <2>0, <2>1, ArrayIn
  <2>3. Len(f) = n
    BY <2>1, LenProperties
  <2> QED BY <1>3, <2>0, <2>2, <2>3
<1> QED BY <1>1, <1>2, <1>3

LEMMA ObjectShapeNext ==
  (\A o : /\ Kind(o) \in {HashTableKind, RefArrayKind, StringKind}
          /\ Kind(o) = RefArrayKind => size_(o) \in Nat
          => /\ ObjectIn(o).kind = Kind(o)
             /\ Kind(o) # RefArrayKind => Len(ObjectIn(o).slots) = 1
             /\ Kind(o) = RefArrayKind => Len(ObjectIn(o).slots) = 2 * size_(o))'
<1>1. \A o : /\ Kind(o) \in {HashTableKind, RefArrayKind, StringKind}
             /\ Kind(o) = RefArrayKind => size_(o) \in Nat
             => /\ ObjectIn(o).kind = Kind(o)
                /\ Kind(o) # RefArrayKind => Len(ObjectIn(o).slots) = 1
                /\ Kind(o) = RefArrayKind => Len(ObjectIn(o).slots) = 2 * size_(o)
  BY ObjectShape
<1> QED BY <1>1, PTL

\* What an object refers to is what the scanner reports of its words.
LEMMA References ==
  HeapSound /\ MarksSound => \A o \in Live : Abstract!RefersTo(ObjectIn(o)) \subseteq Edges(o)
<1> SUFFICES ASSUME HeapSound, MarksSound, NEW o \in Live
             PROVE  Abstract!RefersTo(ObjectIn(o)) \subseteq Edges(o)
  OBVIOUS
<1>1. /\ o \in Objects /\ Kind(o) \in {HashTableKind, RefArrayKind, StringKind}
      /\ Kind(o) # HashTableKind => size_(o) \in Nat
  BY LiveObjects DEF HeapSound, Tiled
<1>2. CASE Kind(o) = StringKind
  <2>1. ObjectIn(o).slots = <<<<"number", size_(o)>>>>
    BY <1>2, StringIn
  <2>2. Abstract!RefersTo(ObjectIn(o)) = {}
    BY <2>1 DEF Abstract!RefersTo
  <2> QED BY <2>2
<1>3. CASE Kind(o) = HashTableKind
  <2>1. ObjectIn(o).slots = <<IF backingArray_(o) = Null THEN <<"nothing", Null>>
                                                         ELSE <<"object", backingArray_(o)>>>>
    BY <1>3, TableIn
  <2>2. Abstract!RefersTo(ObjectIn(o)) \subseteq {backingArray_(o)} \ {Null}
    <3>1. CASE backingArray_(o) = Null
      BY <2>1, <3>1 DEF Abstract!RefersTo
    <3>2. CASE backingArray_(o) # Null
      BY <2>1, <3>2 DEF Abstract!RefersTo
    <3> QED BY <3>1, <3>2
  <2>3. start(o) = {backingArray_(o)} \ {Null}
    BY <1>3 DEF start, HashTableKind, RefArrayKind, StringKind
  <2> QED BY <2>2, <2>3 DEF Edges
<1>4. CASE Kind(o) = RefArrayKind
  <2>0. PICK n \in Nat : n = size_(o)
    BY <1>1, <1>4 DEF HashTableKind, RefArrayKind
  <2>1. PICK f : f = [i \in 1 .. 2 * n |-> IF i % 2 = 1 THEN Slot(Key(o, (i - 1) \div 2))
                                            ELSE Slot(Val(o, (i - 1) \div 2))]
    OBVIOUS
  <2>2. ObjectIn(o).slots = f
    BY <1>4, <2>0, <2>1, ArrayIn
  <2>3. ASSUME NEW i \in 1 .. 2 * n, f[i][1] = "object"
        PROVE  f[i][2] \in Edges(o)
    <3>1. PICK j : j = (i - 1) \div 2
      OBVIOUS
    <3>2. j \in Indices(o)
      BY <2>0, <3>1, SMT DEF Indices
    <3>3. PICK v \in {Key(o, j), Val(o, j)} : f[i] = Slot(v)
      BY <2>1, <2>3, <3>1
    <3>4. Good(v)
      BY <1>4, <3>2, <3>3 DEF Arrays, HeapSound
    <3>5. v[1] = OBJECT /\ f[i] = <<"object", v[2]>>
      BY <2>3, <3>3, <3>4 DEF Good, Slot, Nil, NILL, OBJECT, INTEGER
    <3>6. v[2] \in Live /\ v[2] # Null
      <4>1. v[2] \in Live
        BY <3>4, <3>5 DEF Good, Nil, NILL, OBJECT, INTEGER
      <4> QED BY <4>1, LiveObjects, GlobalsOutside DEF HeapSound
    <3>7. v[2] \in scanRefArray(o)
      BY <3>2, <3>3, <3>5, <3>6 DEF scanRefArray, IsObject
    <3>8. start(o) = scanRefArray(o)
      BY <1>4 DEF start, HashTableKind, RefArrayKind, StringKind
    <3> QED BY <3>5, <3>7, <3>8 DEF Edges
  <2>4. DOMAIN f = 1 .. 2 * n
    BY <2>1
  <2> QED BY <2>2, <2>3, <2>4 DEF Abstract!RefersTo
<1> QED BY <1>1, <1>2, <1>3, <1>4

LEMMA ReferencesNext ==
  (HeapSound /\ MarksSound => \A o \in Live : Abstract!RefersTo(ObjectIn(o)) \subseteq Edges(o))'
BY References, PTL

\* The roots, but for the table that lies before the heap, are objects.
LEMMA RootsAreObjects == Inv => Roots \ {GlobalVariables} \subseteq Objects
BY RootsSound, LiveObjects DEF Inv

LEMMA RootsAreObjectsNext == (Inv => Roots \ {GlobalVariables} \subseteq Objects)'
BY RootsAreObjects, PTL

LEMMA LiveObjectsNext == (MarksSound => Live \subseteq Objects)'
BY LiveObjects, PTL

LEMMA EdgesSoundNext ==
  (HeapSound /\ MarksSound => \A o \in Live : Edges(o) \subseteq Live)'
<1>1. HeapSound /\ MarksSound => \A o \in Live : Edges(o) \subseteq Live
  BY EdgesSound
<1> QED BY <1>1, PTL

-----------------------------------------------------------------------------
(* The program makes objects and writes to them. *)

\* At most one object is made, empty, and at most one is written to.
LEMMA Mutates ==
  ASSUME Inv, Inv', NEW p, NEW a,
         Objects \subseteq Objects', Objects' \subseteq Objects \cup {p},
         p \in Objects' \ Objects => p \in Live' /\ Edges(p)' = {},
         \A o \in Objects \ {a} : ObjectIn(o)' = ObjectIn(o),
         a \in Objects => /\ a \in Live'
                          /\ Kind(a)' = Kind(a)
                          /\ Kind(a) = RefArrayKind => size_(a)' = size_(a)
  PROVE  Abstract!Mutate
<1>1. PICK f : f = [o \in Objects |-> ObjectIn(o)]
  OBVIOUS
<1>2. PICK g : g = [o \in Objects |-> ObjectIn(o)]'
  OBVIOUS
<1>3. /\ DOMAIN f = Objects /\ DOMAIN g = Objects'
      /\ \A o \in Objects : f[o] = ObjectIn(o)
      /\ \A o \in Objects' : g[o] = ObjectIn(o)'
  BY <1>1, <1>2
<1>4. \A o \in Live' : Abstract!RefersTo(g[o]) \subseteq Edges(o)' /\ Edges(o)' \subseteq Objects'
  <2>1. \A o \in Live' : Abstract!RefersTo(ObjectIn(o)') \subseteq Edges(o)'
    BY ReferencesNext DEF Inv
  <2>2. Live' \subseteq Objects' /\ \A o \in Live' : Edges(o)' \subseteq Live'
    BY LiveObjectsNext, EdgesSoundNext DEF Inv
  <2> QED BY <1>3, <2>1, <2>2
<1>5. (Roots \ {GlobalVariables})' \subseteq Objects'
  BY RootsAreObjectsNext
<1>6. \A o \in DOMAIN g \ DOMAIN f : o = p /\ Abstract!RefersTo(g[o]) = {}
  BY <1>3, <1>4
<1>7. \A o \in DOMAIN f : g[o] # f[o] => o = a
  BY <1>3
<1>8. ASSUME a \in DOMAIN f
      PROVE  /\ g[a].kind = f[a].kind
             /\ Len(g[a].slots) = Len(f[a].slots)
             /\ Abstract!RefersTo(g[a]) \subseteq DOMAIN g
  <2>1. a \in Objects /\ a \in Objects'
    BY <1>3, <1>8
  <2>2. /\ Kind(a) \in {HashTableKind, RefArrayKind, StringKind}
        /\ Kind(a) = RefArrayKind => size_(a) \in Nat
    BY <2>1 DEF Inv, HeapSound, Tiled, HashTableKind, RefArrayKind
  <2>3. /\ ObjectIn(a).kind = Kind(a)
        /\ Kind(a) # RefArrayKind => Len(ObjectIn(a).slots) = 1
        /\ Kind(a) = RefArrayKind => Len(ObjectIn(a).slots) = 2 * size_(a)
    BY <2>2, ObjectShape
  <2>4. /\ (ObjectIn(a)').kind = Kind(a)'
        /\ Kind(a)' # RefArrayKind => Len((ObjectIn(a)').slots) = 1
        /\ Kind(a)' = RefArrayKind => Len((ObjectIn(a)').slots) = 2 * size_(a)'
    BY <2>1, <2>2, ObjectShapeNext
  <2>5. g[a].kind = f[a].kind /\ Len(g[a].slots) = Len(f[a].slots)
    BY <1>3, <2>1, <2>3, <2>4
  <2> QED BY <1>3, <1>4, <2>1, <2>5
<1>9. LET new == DOMAIN g \ DOMAIN f
          written == {o \in DOMAIN f : g[o] # f[o]}
      IN  /\ DOMAIN f \subseteq DOMAIN g
          /\ \A o, b \in new : o = b
          /\ \A o, b \in written : o = b
          /\ \A o \in new : Abstract!RefersTo(g[o]) = {}
          /\ \A o \in written : /\ g[o].kind = f[o].kind
                                /\ Len(g[o].slots) = Len(f[o].slots)
                                /\ Abstract!RefersTo(g[o]) \subseteq DOMAIN g
  BY <1>3, <1>6, <1>7, <1>8
<1> QED BY <1>1, <1>2, <1>3, <1>5, <1>9 DEF Abstract!Mutate

\* Memory stays as it is.
LEMMA NothingMutates ==
  ASSUME Inv, Inv', memory' = memory
  PROVE  Abstract!Mutate
<1>1. Objects' = Objects
  BY ObjectsStay DEF Inv
<1>2. Null \notin Objects
  BY GlobalsOutside DEF Inv, HeapSound
<1>3. \A o \in Objects : ObjectIn(o)' = ObjectIn(o)
  <2>1. \A o \in Objects : Alike(o)
    BY DEF Alike, Kind, size_, backingArray_, remainingCapacity_, Indices, Key, Val, EntryAt
  <2> QED BY <2>1, AlikeStays DEF Inv, HeapSound
<1> QED BY <1>1, <1>2, <1>3, Mutates

\* A new object has no reference.
LEMMA EmptyObject ==
  ASSUME NEW p,
         \/ Kind(p)' = StringKind
         \/ Kind(p)' = HashTableKind /\ backingArray_(p)' = Null
         \/ /\ Kind(p)' = RefArrayKind
            /\ \A i \in Indices(p)' : Key(p, i)' = Nil /\ Val(p, i)' = Nil
  PROVE  Edges(p)' = {}
<1>1. CASE Kind(p)' = StringKind
  BY <1>1 DEF Edges, start, resume, getIndirectObject, HashTableKind, RefArrayKind, StringKind
<1>2. CASE Kind(p)' = HashTableKind /\ backingArray_(p)' = Null
  BY <1>2 DEF Edges, start, resume, getIndirectObject, HashTableKind, RefArrayKind, StringKind
<1>3. CASE /\ Kind(p)' = RefArrayKind
           /\ \A i \in Indices(p)' : Key(p, i)' = Nil /\ Val(p, i)' = Nil
  <2>1. scanRefArray(p)' = {}
    BY <1>3 DEF scanRefArray, IsObject, Nil, NILL, OBJECT
  <2> QED BY <1>3, <2>1 DEF Edges, start, resume, getIndirectObject, HashTableKind, RefArrayKind,
     StringKind
<1> QED BY <1>1, <1>2, <1>3

\* An object is made, and what is left of the hole is a hole.
LEMMA AllocationMutates ==
  ASSUME Inv, Inv', phase = "idle", phase' = "idle", NEW p, NEW n, NEW t \in Tables,
         Allocates(p, n, t), Edges(p)' = {},
         t # GlobalVariables => Kind(t)' = Kind(t)
  PROVE  Abstract!Mutate
<1>1. Live = Objects /\ Live' = Objects'
  BY DEF Live
<1>2. t = GlobalVariables \/ (t \in Objects /\ Kind(t) = HashTableKind)
  BY <1>1 DEF Tables
<1>3. /\ p \notin Objects
      /\ Objects' = Objects \cup {p}
      /\ \A o \in Objects \cup {GlobalVariables} : o # t => Alike(o)
  BY <1>2, Allocation DEF Inv, HeapSound
<1>4. \A o \in Objects \ {t} : ObjectIn(o)' = ObjectIn(o)
  BY <1>3, AlikeStays DEF Inv, HeapSound
<1>5. t \in Objects => Kind(t)' = Kind(t) /\ Kind(t) # RefArrayKind
  <2>1. GlobalVariables \notin Objects
    BY GlobalsOutside DEF Inv, HeapSound
  <2> QED BY <1>2, <2>1 DEF HashTableKind, RefArrayKind
<1> QED BY <1>1, <1>3, <1>4, <1>5, Mutates

LEMMA EvalStringMutates ==
  ASSUME Inv, Inv', EvalString
  PROVE  Abstract!Mutate
<1>1. /\ code \in Seq(Instruction) /\ code # <<>> /\ Head(code).op \in {"string", "name"}
      /\ phase = "idle"
  BY DEF Inv, CodeSound, EvalString, Runs
<1>2. PICK l : l = Head(code).length
  OBVIOUS
<1>3. l \in Nat
  <2>1. Head(code) \in Instruction
    BY <1>1
  <2> QED BY <1>1, <1>2, <2>1 DEF Instruction
<1>4. CASE memory' = memory
  BY <1>4, NothingMutates
<1>5. CASE Fits(StringBytes(l)) /\ memory' = AllocateString(l) /\ Continue
  <2>1. PICK p : p = Place(StringBytes(l))
    OBVIOUS
  <2>2. Allocates(p, Words(StringBytes(l)), GlobalVariables) /\ Kind(p)' = StringKind
    BY <1>3, <1>5, <2>1, StringAdded DEF Inv, HeapSound
  <2>3. phase' = "idle" /\ GlobalVariables \in Tables /\ Edges(p)' = {}
    BY <1>1, <1>5, <2>2, EmptyObject DEF Continue, Tables
  <2> QED BY <1>1, <2>2, <2>3, AllocationMutates
<1> QED BY <1>2, <1>4, <1>5 DEF EvalString, Collect, flushNonAllocationCaches, OutOfMemory, Abort

LEMMA EvalVariableMutates ==
  ASSUME Inv, Inv', EvalVariable
  PROVE  Abstract!Mutate
<1>1. /\ code \in Seq(Instruction) /\ code # <<>> /\ Head(code).op = "variable"
      /\ phase = "idle"
  BY DEF Inv, CodeSound, EvalVariable, Runs
<1>2. PICK l : l = Head(code).length
  OBVIOUS
<1>3. l \in Nat
  <2>1. Head(code) \in Instruction
    BY <1>1
  <2> QED BY <1>1, <1>2, <2>1 DEF Instruction
<1>4. CASE memory' = memory
  BY <1>4, NothingMutates
<1>5. CASE Fits(StringBytes(l)) /\ memory' = AllocateString(l) /\ Continue
  <2>1. PICK p : p = Place(StringBytes(l))
    OBVIOUS
  <2>2. Allocates(p, Words(StringBytes(l)), GlobalVariables) /\ Kind(p)' = StringKind
    BY <1>3, <1>5, <2>1, StringAdded DEF Inv, HeapSound
  <2>3. phase' = "idle" /\ GlobalVariables \in Tables /\ Edges(p)' = {}
    BY <1>1, <1>5, <2>2, EmptyObject DEF Continue, Tables
  <2> QED BY <1>1, <2>2, <2>3, AllocationMutates
<1> QED BY <1>2, <1>4, <1>5 DEF EvalVariable, Collect, flushNonAllocationCaches, OutOfMemory, Abort

LEMMA EvalNewTableMutates ==
  ASSUME Inv, Inv', EvalNewTable
  PROVE  Abstract!Mutate
<1>1. phase = "idle"
  BY DEF EvalNewTable, Runs
<1>2. CASE memory' = memory
  BY <1>2, NothingMutates
<1>3. CASE Fits(TableBytes) /\ memory' = allocate(TableBytes, NewTable) /\ Continue
  <2>1. PICK p : p = Place(TableBytes)
    OBVIOUS
  <2>2. Allocates(p, 6, GlobalVariables) /\ Kind(p)' = HashTableKind /\ backingArray_(p)' = Null
    BY <1>3, <2>1, TableAdded DEF Inv, HeapSound
  <2>3. phase' = "idle" /\ GlobalVariables \in Tables /\ Edges(p)' = {}
    BY <1>1, <1>3, <2>2, EmptyObject DEF Continue, Tables
  <2> QED BY <1>1, <2>2, <2>3, AllocationMutates
<1> QED BY <1>2, <1>3 DEF EvalNewTable, Collect, flushNonAllocationCaches, OutOfMemory, Abort

\* The table that gets the array is written to.
LEMMA InitializeMutates ==
  ASSUME Inv, Inv', Initialize
  PROVE  Abstract!Mutate
<1>1. pc = "initialize" /\ phase = "idle" /\ sz \in Nat /\ self # Null /\ self \in Tables
  BY DEF Initialize, Inv, ControlSound, LocalsSound
<1>2. PICK p, n, t : p = Place(ArrayBytes(sz)) /\ n = sz /\ t = self
  OBVIOUS
<1>3. CASE memory' = memory
  BY <1>3, NothingMutates
<1>4. CASE /\ Fits(ArrayBytes(n))
           /\ memory' = [AllocateArray(n) EXCEPT ![t + 2] = n, ![t + 3] = n, ![t + 5] = p]
           /\ phase' = phase
  <2>1. n \in Nat /\ t \in Tables /\ p = Place(ArrayBytes(n)) /\ Tiled
    BY <1>1, <1>2 DEF Inv, HeapSound
  <2>2. t = GlobalVariables \/ (t \in Objects /\ Kind(t) = HashTableKind)
    BY <1>1, <2>1 DEF Tables, Live
  <2>3. /\ Allocates(p, Words(ArrayBytes(n)), t)
        /\ Kind(p)' = RefArrayKind /\ size_(p)' = n
        /\ \A i \in 0 .. n - 1 : Key(p, i)' = Nil /\ Val(p, i)' = Nil
    BY <1>4, <2>1, <2>2, ArrayAdded
  <2>4. Edges(p)' = {}
    <3>1. Indices(p)' = 0 .. n - 1
      BY <2>3 DEF Indices
    <3> QED BY <2>3, <3>1, EmptyObject
  <2>5. t # GlobalVariables => Kind(t)' = Kind(t)
    BY <2>2, <2>3, Allocation DEF Inv, HeapSound
  <2> QED BY <1>1, <1>4, <2>1, <2>3, <2>4, <2>5, AllocationMutates
<1>5. CASE /\ memory' = [memory EXCEPT ![t + 2] = n, ![t + 3] = n, ![t + 5] = Null]
           /\ phase' = phase
  <2>1. n \in Nat /\ t \in Tables /\ HeapSound /\ pc # "aborted" /\ phase' = "idle"
    BY <1>1, <1>2, <1>5 DEF Inv
  <2>2. /\ Objects' = Objects
        /\ \A o \in Objects \cup {GlobalVariables} : o # t => Alike(o)
        /\ Kind(t)' = Kind(t)
    BY <1>1, <1>5, <2>1, ArrayRefused
  <2>3. \A o \in Objects \ {t} : ObjectIn(o)' = ObjectIn(o)
    BY <2>2, AlikeStays DEF Inv, HeapSound
  <2>4. Live = Objects /\ Live' = Objects' /\ Kind(t) = HashTableKind
    BY <1>1, <2>1 DEF Live, Tables, HeapSound
  <2>5. t \in Objects => Kind(t)' = Kind(t) /\ Kind(t) # RefArrayKind
    BY <2>2, <2>4 DEF HashTableKind, RefArrayKind
  <2> QED BY <2>2, <2>3, <2>4, <2>5, Mutates
<1> QED BY <1>2, <1>3, <1>4, <1>5 DEF Initialize, Collect, flushNonAllocationCaches, Abort

\* The array of a table is written to.
LEMMA WritesMutate ==
  ASSUME Inv, Inv', phase = "idle", phase' = "idle", pc # "aborted",
         NEW t \in Tables, NEW a \in Arrays, Writes(t, a)
  PROVE  Abstract!Mutate
<1>1. Live = Objects /\ Live' = Objects'
  BY DEF Live
<1>2. /\ Objects' = Objects
      /\ \A o \in Objects : Kind(o)' = Kind(o) /\ size_(o)' = size_(o)
      /\ \A o \in Objects \ {a, t} : Alike(o)
      /\ backingArray_(t)' = backingArray_(t)
  BY Written DEF Inv
<1>3. \A o \in Objects \ {a, t} : ObjectIn(o)' = ObjectIn(o)
  BY <1>2, AlikeStays DEF Inv, HeapSound
<1>4. t \in Objects => ObjectIn(t)' = ObjectIn(t)
  <2>1. Kind(t) = HashTableKind
    BY DEF Tables, Inv, HeapSound
  <2> QED BY <1>2, <2>1, ObjectStays DEF HashTableKind, RefArrayKind
<1>5. \A o \in Objects \ {a} : ObjectIn(o)' = ObjectIn(o)
  BY <1>3, <1>4
<1> QED BY <1>1, <1>2, <1>5, Mutates

LEMMA StoreMutates ==
  ASSUME Inv, Inv', Store
  PROVE  Abstract!Mutate
<1>1. pc = "run" /\ phase = "idle"
  BY DEF Store, Runs
<1>2. CASE (\E t \in Tables, a \in Arrays : Writes(t, a)) /\ BackToPrompt
  <2>1. phase' = "idle" /\ pc # "aborted"
    BY <1>1, <1>2 DEF BackToPrompt, collector
  <2> QED BY <1>1, <1>2, <2>1, WritesMutate
<1>3. CASE memory' = memory
  BY <1>3, NothingMutates
<1> QED BY <1>2, <1>3, StoreWrites

LEMMA FindSlotMutates ==
  ASSUME Inv, Inv', FindSlot
  PROVE  Abstract!Mutate
<1>1. pc = "run" /\ phase = "idle"
  BY FindSlotWrites
<1>2. CASE (\E t \in Tables, a \in Arrays : Writes(t, a)) /\ UNCHANGED <<program, collector>>
  <2>1. phase' = "idle" /\ pc # "aborted"
    BY <1>1, <1>2 DEF collector
  <2> QED BY <1>1, <1>2, <2>1, WritesMutate
<1>3. CASE Abort("assertion")
  BY <1>3, NothingMutates DEF Abort
<1> QED BY <1>2, <1>3, FindSlotWrites

LEMMA RehashMutates ==
  ASSUME Inv, Inv', Rehash
  PROVE  Abstract!Mutate
<1>1. pc = "rehash" /\ phase = "idle" /\ phase' = "idle" /\ pc # "aborted"
  BY DEF Rehash, Abort, collector, Inv, ControlSound
<1>2. CASE Abort("no_array")
  BY <1>2, NothingMutates DEF Abort
<1> QED BY <1>1, <1>2, RehashWrites, WritesMutate

-----------------------------------------------------------------------------
(* The collector takes objects back. *)

\* What the roots lead to is marked when the sweep begins, and stays.
LEMMA SweepGapReclaims ==
  ASSUME Inv, SweepGap
  PROVE  Abstract!Reclaim
<1>1. PICK h, n : Sweeps(h, n)
  BY DEF Sweeps
<1>2. /\ phase = "sweep"
      /\ Objects' = {o \in Objects : o < h \/ o >= n}
      /\ marked \subseteq Objects'
      /\ \A o \in Objects' : Alike(o)
  BY <1>1, GapSwept
<1>3. PICK f : f = [o \in Objects |-> ObjectIn(o)]
  OBVIOUS
<1>4. PICK g : g = [o \in Objects |-> ObjectIn(o)]'
  OBVIOUS
<1>5. /\ DOMAIN f = Objects /\ DOMAIN g = Objects'
      /\ \A o \in Objects : f[o] = ObjectIn(o)
      /\ \A o \in Objects' : g[o] = ObjectIn(o)'
  BY <1>3, <1>4
<1>6. \A o \in DOMAIN g : o \in DOMAIN f /\ g[o] = f[o]
  BY <1>2, <1>5, AlikeStays DEF Inv, HeapSound
<1>7. (Roots \ {GlobalVariables})' = Roots \ {GlobalVariables}
  BY RootsUnswept
<1>8. /\ marked \subseteq Objects
      /\ Roots \ {GlobalVariables} \subseteq marked
      /\ \A o \in marked : Edges(o) \subseteq marked
  BY <1>2 DEF Inv, MarksSound
<1>9. \A o \in marked : Abstract!RefersTo(f[o]) \subseteq marked
  <2>1. \A o \in marked : Abstract!RefersTo(ObjectIn(o)) \subseteq Edges(o)
    BY <1>2, References DEF Inv, Live
  <2> QED BY <1>5, <1>8, <2>1
<1>10. PICK r : r = Roots \ {GlobalVariables}
  OBVIOUS
<1>11. LET Stays(T) == \A a \in T : Abstract!RefersTo(f[a]) \subseteq T
           Around   == {T \in SUBSET DOMAIN f : r \subseteq T /\ Stays(T)}
       IN  {a \in DOMAIN f : \A T \in Around : a \in T} \subseteq marked
  BY <1>5, <1>8, <1>9, <1>10
<1>12. Abstract!Reached \subseteq DOMAIN g
  <2>1. Abstract!Reached \subseteq marked
    BY <1>3, <1>10, <1>11 DEF Abstract!Reached
  <2> QED BY <1>2, <1>5, <2>1
<1> QED BY <1>3, <1>4, <1>6, <1>7, <1>12 DEF Abstract!Reclaim

-----------------------------------------------------------------------------
(* The refinement. *)

LEMMA InitImplements ==
  ASSUME Init
  PROVE  Abstract!HeapInit
<1>1. /\ self = GlobalVariables /\ old = Null /\ idx = Nil /\ memory[7] = 0 /\ Objects = {}
      /\ GlobalVariables = 2 /\ Null = 0
  BY OneHole, Layout DEF Init
<1>2. backingArray_(GlobalVariables) = Null
  BY <1>1 DEF backingArray_
<1>3. Roots \ {GlobalVariables} = {}
  BY <1>1, <1>2 DEF Roots, MarkingFn, StackRoots, IsObject, Nil, NILL, OBJECT
<1>4. [o \in Objects |-> ObjectIn(o)] = <<>>
  BY <1>1
<1> QED BY <1>3, <1>4 DEF Abstract!HeapInit

LEMMA StepImplements ==
  ASSUME Inv, [Next]_vars
  PROVE  [Abstract!Mutate \/ Abstract!Reclaim]_(Abstract!heapVars)
<1>1. Inv'
  BY Steps
<1>2. CASE SweepGap
  BY <1>2, SweepGapReclaims
<1>3. CASE EvalString \/ EvalVariable \/ EvalNewTable \/ Initialize \/ FindSlot \/ Store \/ Rehash
  BY <1>1, <1>3, EvalStringMutates, EvalVariableMutates, EvalNewTableMutates, InitializeMutates,
     FindSlotMutates, StoreMutates, RehashMutates
<1>4. CASE memory' = memory
  BY <1>1, <1>4, NothingMutates
<1>5. memory' = memory \/ SweepGap \/ EvalString \/ EvalVariable \/ EvalNewTable
        \/ Initialize \/ FindSlot \/ Store \/ Rehash
  <2>1. CASE CollectorStep
    BY <2>1 DEF CollectorStep, Scan, StartSweep, postMarkProcessing, SkipMarked, FinishCollection,
       postCollect
  <2>2. CASE \E l \in Lines : ReadLine(l)
    BY <2>2 DEF ReadLine
  <2>3. CASE \/ EvalNumber \/ EvalForceGC \/ CheckTable \/ TableStops \/ RootIndex \/ StoreStops
             \/ PrintResult \/ PrintStops
    BY <2>3 DEF EvalNumber, EvalForceGC, Collect, flushNonAllocationCaches, Abort, CheckTable,
       TableStops, RootIndex, StoreStops, PrintResult, PrintStops
  <2>4. CASE Halted \/ UNCHANGED vars
    BY <2>4 DEF Halted, vars
  <2> QED BY <2>1, <2>2, <2>3, <2>4 DEF Next
<1> QED BY <1>2, <1>3, <1>4, <1>5

\* The words are a heap with a garbage collector: whatever lines are typed and
\* wherever a collection comes between two steps of them, nothing a root leads to
\* is lost or changed, a new object is empty however memory was used before, and a
\* step writes to one object at most (ObjectAllocator.hpp, ObjectScanner.hpp).
THEOREM HeapImplementsObjects == Spec => ImplementsObjectHeap
<1>1. Init => Abstract!HeapInit
  BY InitImplements
<1>2. Inv /\ [Next]_vars => [Abstract!Mutate \/ Abstract!Reclaim]_(Abstract!heapVars)
  BY StepImplements
<1> QED BY <1>1, <1>2, HeapStaysSound, PTL DEF Spec, ImplementsObjectHeap, Abstract!HeapSpec
=============================================================================
