--------------------------- MODULE DictionaryProofs ---------------------------
(***************************************************************************)
(* Theorems about HashTableDictionary: until a table is strained its       *)
(* chains are in order, nothing but a nil key and a full array stops the   *)
(* process, and the table is a dictionary; where the hash function spreads *)
(* the keys it is never strained; and whatever happens to it, it answers   *)
(* nothing that was not stored under the key it is asked for.              *)
(***************************************************************************)
EXTENDS HashTableDictionary, HashTableProofs, WellFoundedInduction

USE NilAssumption, AnswerAssumption, SetKeyAssumption, SizeAssumption,
    HashAssumption

-----------------------------------------------------------------------------
(***************************************************************************)
(* The shape of an array c, which is that of the table or the one that a   *)
(* step leaves.                                                            *)
(***************************************************************************)

Full(c, i) == c[i].key # Nil

Akin(c, i, j) == /\ Full(c, i)
                 /\ Full(c, j)
                 /\ Home(c[i].key) = Home(c[j].key)

HeadedIn(c) == \A i \in Slots : Full(c, i) =>
                 /\ Home(c[i].key) <= i
                 /\ Akin(c, Home(c[i].key), i)

LinkedIn(c) == \A i \in Slots : Full(c, i) =>
                 /\ c[i].next # 0 => /\ c[i].next > 0
                                     /\ i + c[i].next \in Slots
                                     /\ Akin(c, i, i + c[i].next)
                 /\ \A j \in i + 1 .. size - 1 : Akin(c, i, j) =>
                      /\ c[i].next # 0
                      /\ i + c[i].next <= j

UniqueIn(c) == \A i, j \in Slots : c[i].key = c[j].key /\ Full(c, i) => i = j

Shaped(c) == HeadedIn(c) /\ LinkedIn(c) /\ UniqueIn(c)

LEMMA ShapeOfTable == Shaped(cells) <=> Headed /\ Linked /\ Unique
BY DEF Shaped, HeadedIn, LinkedIn, UniqueIn, Akin, Full, Headed, Linked, Unique,
       Kin, IsEmpty

LEMMA ShapeAfterStep ==
  ASSUME Shaped(cells'), UNCHANGED <<hash, size>>
  PROVE  Shaped(cells)'
BY DEF Shaped, HeadedIn, LinkedIn, UniqueIn, Akin, Full, Home, Slots

\* What every array holds.
LEMMA ArrayFacts ==
  ASSUME TypeOK, NEW c \in [Slots -> Entry], NEW i \in Slots
  PROVE  /\ i \in Nat /\ size \in Nat
         /\ c[i].next \in Int
         /\ Full(c, i) => c[i].key \in Key /\ Home(c[i].key) \in Slots
<1>1. i \in Nat /\ size \in Nat
  BY DEF TypeOK, Slots
<1>2. c[i].next \in Int /\ c[i].key \in Key \cup {Nil}
  BY DEF Entry
<1> QED
  BY <1>1, <1>2, HomeIsSlot DEF Full

LEMMA EmptyIsShaped ==
  ASSUME NEW c, \A i \in Slots : c[i].key = Nil
  PROVE  Shaped(c)
BY DEF Shaped, HeadedIn, LinkedIn, UniqueIn, Full

-----------------------------------------------------------------------------
(***************************************************************************)
(* The updates of the array keep its shape.                                *)
(***************************************************************************)

\* From c to d, an entry that ends its chain, and that p leads to, goes from cell
\* e to the empty cell t above it.
Moved(c, d, e, t, p) ==
  /\ Akin(c, p, e) /\ p < e /\ e < t /\ ~Full(c, t)
  /\ c[e].next = 0
  /\ Home(c[e].key) # e
  /\ c[p].next # 0
  /\ p + c[p].next = e
  /\ \A m \in Slots :
       /\ d[m].key = (IF m = e THEN Nil
                      ELSE IF m = t THEN c[e].key ELSE c[m].key)
       /\ d[m].next = (IF m = p THEN t - p
                       ELSE IF m = t THEN c[e].next ELSE c[m].next)

\* A new key k becomes the head of a chain in its empty home slot h.
HeadAdded(c, d, h, k) ==
  /\ ~Full(c, h)
  /\ Home(k) = h
  /\ \A m \in Slots : c[m].key # k
  /\ \A m \in Slots :
       /\ d[m].key = (IF m = h THEN k ELSE c[m].key)
       /\ d[m].next = (IF m = h THEN 0 ELSE c[m].next)

\* A new key k is linked behind the entry e of its chain that has no successor,
\* in the empty cell t above it.
Appended(c, d, e, t, k) ==
  /\ Full(c, e)
  /\ Home(c[e].key) = Home(k)
  /\ c[e].next = 0
  /\ e < t /\ ~Full(c, t)
  /\ \A m \in Slots : c[m].key # k
  /\ \A m \in Slots :
       /\ d[m].key = (IF m = t THEN k ELSE c[m].key)
       /\ d[m].next = (IF m = e THEN t - e
                       ELSE IF m = t THEN 0 ELSE c[m].next)

LEMMA MoveKeepsShape ==
  ASSUME TypeOK, NEW c \in [Slots -> Entry], NEW d \in [Slots -> Entry],
         NEW e \in Slots, NEW t \in Slots, NEW p \in Slots,
         Shaped(c), Moved(c, d, e, t, p)
  PROVE  Shaped(d)
<1> USE DEF Full, Akin, Moved
<1>1. \A i \in Slots : /\ i \in Nat /\ size \in Nat
                       /\ c[i].next \in Int
                       /\ Full(c, i) => c[i].key \in Key /\ Home(c[i].key) \in Slots
  BY ArrayFacts
<1>n. e \in Nat /\ p \in Nat /\ t \in Nat /\ size \in Nat
  BY <1>1
<1>2. \A j \in e + 1 .. size - 1 : ~Akin(c, e, j)
  BY DEF Shaped, LinkedIn
<1>3. HeadedIn(d)
  <2> SUFFICES ASSUME NEW i \in Slots, Full(d, i)
               PROVE  /\ Home(d[i].key) <= i
                      /\ Akin(d, Home(d[i].key), i)
    BY DEF HeadedIn
  <2>1. CASE i = t
    BY <1>1, <2>1 DEF Shaped, HeadedIn
  <2>2. CASE i # t
    <3>1. i # e /\ d[i].key = c[i].key
      BY <2>2
    <3>2. /\ Home(c[i].key) <= i
          /\ Akin(c, Home(c[i].key), i)
      BY <3>1 DEF Shaped, HeadedIn
    <3>3. Home(c[i].key) # e
      BY <1>1, <3>2
    <3> QED
      BY <1>1, <3>1, <3>2, <3>3
  <2> QED
    BY <2>1, <2>2
<1>4. LinkedIn(d)
  <2> SUFFICES ASSUME NEW i \in Slots, Full(d, i)
               PROVE  /\ d[i].next # 0 => /\ d[i].next > 0
                                          /\ i + d[i].next \in Slots
                                          /\ Akin(d, i, i + d[i].next)
                      /\ \A j \in i + 1 .. size - 1 : Akin(d, i, j) =>
                           /\ d[i].next # 0
                           /\ i + d[i].next <= j
    BY DEF LinkedIn
  <2>1. CASE i = p
    <3>1. d[i].next = t - p /\ i + d[i].next = t
      BY <1>1, <2>1
    <3>2. ASSUME NEW j \in i + 1 .. size - 1, Akin(d, i, j)
          PROVE  t <= j
      <4>1. j \in Slots /\ p \in Nat
        BY <1>1 DEF Slots
      <4>2. CASE j # t
        <5>1. j # e /\ Akin(c, p, j)
          BY <2>1, <3>2, <4>1, <4>2
        <5>2. p + c[p].next <= j
          BY <2>1, <5>1 DEF Shaped, LinkedIn
        <5>3. e < j
          <6>1. e <= j /\ j # e /\ j \in Nat
            BY <1>1, <4>1, <5>1, <5>2
          <6> QED
            BY <1>n, <6>1
        <5> QED
          BY <1>1, <1>2, <4>1, <5>1, <5>3
      <4> QED
        BY <1>1, <4>1, <4>2
    <3> QED
      BY <1>1, <2>1, <3>1, <3>2
  <2>2. CASE i = t
    <3>1. d[i].next = 0
      BY <1>1, <2>2
    <3>2. ASSUME NEW j \in i + 1 .. size - 1, Akin(d, i, j)
          PROVE  FALSE
      <4>1. j \in Slots /\ j > e /\ j # t /\ j \in e + 1 .. size - 1
        BY <1>1, <2>2 DEF Slots
      <4>2. Akin(c, e, j)
        BY <1>1, <2>2, <3>2, <4>1
      <4> QED
        BY <1>2, <4>1, <4>2
    <3> QED
      BY <3>1, <3>2
  <2>3. CASE i # p /\ i # t
    <3>1. i # e /\ d[i].key = c[i].key /\ d[i].next = c[i].next /\ Full(c, i)
      BY <2>3
    <3>2. /\ c[i].next # 0 => /\ c[i].next > 0
                              /\ i + c[i].next \in Slots
                              /\ Akin(c, i, i + c[i].next)
          /\ \A j \in i + 1 .. size - 1 : Akin(c, i, j) =>
               /\ c[i].next # 0
               /\ i + c[i].next <= j
      BY <3>1 DEF Shaped, LinkedIn
    <3>3. c[i].next # 0 => i + c[i].next # e
      <4> SUFFICES ASSUME c[i].next # 0, i + c[i].next = e
                   PROVE  FALSE
        OBVIOUS
      <4>1. i < e /\ Akin(c, i, p)
        BY <1>1, <3>2
      <4>n. i \in Nat
        BY <1>1
      <4>2. CASE i < p
        <5>1. p \in i + 1 .. size - 1
          BY <1>n, <4>n, <4>2 DEF Slots
        <5>2. i + c[i].next <= p
          BY <3>2, <4>1, <5>1
        <5>3. e <= p
          BY <5>2
        <5> QED
          BY <1>n, <5>3
      <4>3. CASE p < i
        <5>1. Akin(c, p, i) /\ i \in p + 1 .. size - 1
          BY <1>1, <4>1, <4>3 DEF Slots
        <5>2. p + c[p].next <= i
          BY <5>1 DEF Shaped, LinkedIn
        <5>3. e <= i
          BY <5>2
        <5> QED
          BY <1>n, <4>n, <4>1, <5>3
      <4> QED
        BY <1>n, <4>n, <2>3, <4>2, <4>3
    <3>4. ASSUME NEW j \in i + 1 .. size - 1, Akin(d, i, j)
          PROVE  c[i].next # 0 /\ i + c[i].next <= j
      <4>1. j \in Slots /\ j # e
        BY <1>1, <3>4 DEF Slots
      <4>2. CASE j # t
        BY <3>1, <3>2, <3>4, <4>1, <4>2
      <4>3. CASE j = t
        <5>1. Akin(c, i, e) /\ Akin(c, e, i)
          BY <1>1, <3>1, <3>4, <4>1, <4>3
        <5>2. i < e
          BY <1>1, <1>2, <3>1, <5>1 DEF Slots
        <5>3. e \in i + 1 .. size - 1
          BY <1>1, <5>2 DEF Slots
        <5>4. c[i].next # 0 /\ i + c[i].next <= e
          BY <3>2, <5>1, <5>3
        <5> QED
          BY <1>1, <4>3, <5>4
      <4> QED
        BY <4>2, <4>3
    <3> QED
      BY <1>1, <3>1, <3>2, <3>3, <3>4
  <2> QED
    BY <2>1, <2>2, <2>3
<1>5. UniqueIn(d)
  <2>1. UniqueIn(c)
    BY DEF Shaped
  <2> QED
    BY <1>1, <2>1 DEF UniqueIn
<1> QED
  BY <1>3, <1>4, <1>5 DEF Shaped

LEMMA HeadKeepsShape ==
  ASSUME TypeOK, NEW c \in [Slots -> Entry], NEW d \in [Slots -> Entry],
         NEW h \in Slots, NEW k \in Key, Shaped(c), HeadAdded(c, d, h, k)
  PROVE  Shaped(d)
<1> USE DEF Full, Akin, HeadAdded
<1>1. \A i \in Slots : /\ i \in Nat /\ size \in Nat
                       /\ c[i].next \in Int
                       /\ Full(c, i) => c[i].key \in Key /\ Home(c[i].key) \in Slots
  BY ArrayFacts
<1>2. \A i \in Slots : Full(c, i) => Home(c[i].key) # h
  BY DEF Shaped, HeadedIn
<1>3. HeadedIn(d)
  BY <1>1, <1>2 DEF Shaped, HeadedIn
<1>4. LinkedIn(d)
  <2> SUFFICES ASSUME NEW i \in Slots, Full(d, i)
               PROVE  /\ d[i].next # 0 => /\ d[i].next > 0
                                          /\ i + d[i].next \in Slots
                                          /\ Akin(d, i, i + d[i].next)
                      /\ \A j \in i + 1 .. size - 1 : Akin(d, i, j) =>
                           /\ d[i].next # 0
                           /\ i + d[i].next <= j
    BY DEF LinkedIn
  <2>1. \A j \in i + 1 .. size - 1 : j \in Slots /\ j # i
    BY <1>1 DEF Slots
  <2>2. CASE i = h
    BY <1>1, <1>2, <2>1, <2>2
  <2>3. CASE i # h
    <3>1. /\ d[i].key = c[i].key /\ d[i].next = c[i].next /\ Full(c, i)
          /\ Home(c[i].key) # h
      BY <1>2, <2>3
    <3>2. /\ c[i].next # 0 => /\ c[i].next > 0
                              /\ i + c[i].next \in Slots
                              /\ Akin(c, i, i + c[i].next)
          /\ \A j \in i + 1 .. size - 1 : Akin(c, i, j) =>
               /\ c[i].next # 0
               /\ i + c[i].next <= j
      BY <3>1 DEF Shaped, LinkedIn
    <3> QED
      BY <1>1, <2>1, <3>1, <3>2
  <2> QED
    BY <2>2, <2>3
<1>5. UniqueIn(d)
  <2>1. UniqueIn(c)
    BY DEF Shaped
  <2> QED
    BY <1>1, <2>1 DEF UniqueIn
<1> QED
  BY <1>3, <1>4, <1>5 DEF Shaped

LEMMA TailKeepsShape ==
  ASSUME TypeOK, NEW c \in [Slots -> Entry], NEW d \in [Slots -> Entry],
         NEW e \in Slots, NEW t \in Slots, NEW k \in Key,
         Shaped(c), Appended(c, d, e, t, k)
  PROVE  Shaped(d)
<1> USE DEF Full, Akin, Appended
<1>1. \A i \in Slots : /\ i \in Nat /\ size \in Nat
                       /\ c[i].next \in Int
                       /\ Full(c, i) => c[i].key \in Key /\ Home(c[i].key) \in Slots
  BY ArrayFacts
<1>n. e \in Nat /\ t \in Nat /\ size \in Nat
  BY <1>1
<1>2. \A j \in e + 1 .. size - 1 : ~Akin(c, e, j)
  BY DEF Shaped, LinkedIn
<1>3. HeadedIn(d)
  <2> SUFFICES ASSUME NEW i \in Slots, Full(d, i)
               PROVE  /\ Home(d[i].key) <= i
                      /\ Akin(d, Home(d[i].key), i)
    BY DEF HeadedIn
  <2>1. /\ Home(c[e].key) <= e
        /\ Akin(c, Home(c[e].key), e)
    BY DEF Shaped, HeadedIn
  <2>2. CASE i = t
    <3>1. d[i].key = k /\ Home(d[i].key) = Home(c[e].key)
      BY <2>2
    <3>2. Home(c[e].key) \in Slots /\ Home(c[e].key) \in Nat
      BY <1>1
    <3>3. Home(c[e].key) # t /\ d[Home(c[e].key)].key = c[Home(c[e].key)].key
      BY <2>1, <3>2
    <3> QED
      BY <1>n, <2>1, <2>2, <3>1, <3>2, <3>3
  <2>3. CASE i # t
    BY <1>1, <2>3 DEF Shaped, HeadedIn
  <2> QED
    BY <2>2, <2>3
<1>4. LinkedIn(d)
  <2> SUFFICES ASSUME NEW i \in Slots, Full(d, i)
               PROVE  /\ d[i].next # 0 => /\ d[i].next > 0
                                          /\ i + d[i].next \in Slots
                                          /\ Akin(d, i, i + d[i].next)
                      /\ \A j \in i + 1 .. size - 1 : Akin(d, i, j) =>
                           /\ d[i].next # 0
                           /\ i + d[i].next <= j
    BY DEF LinkedIn
  <2>n. i \in Nat
    BY <1>1
  <2>1. \A j \in i + 1 .. size - 1 : j \in Slots /\ j # i /\ j > i
    BY <1>n, <2>n DEF Slots
  <2>2. CASE i = e
    <3>1. d[i].next = t - e /\ i + d[i].next = t /\ d[i].next > 0
      BY <1>n, <2>2
    <3>2. Akin(d, i, t)
      BY <1>1, <1>n, <2>2
    <3>3. ASSUME NEW j \in i + 1 .. size - 1, Akin(d, i, j)
          PROVE  j = t
      BY <1>2, <1>n, <2>1, <2>2, <3>3
    <3> QED
      BY <1>n, <3>1, <3>2, <3>3
  <2>3. CASE i = t
    <3>1. d[i].next = 0
      BY <1>n, <2>3
    <3>2. ASSUME NEW j \in i + 1 .. size - 1, Akin(d, i, j)
          PROVE  FALSE
      <4>1. j \in Slots /\ j # t /\ j \in e + 1 .. size - 1
        BY <1>n, <2>3, <2>1 DEF Slots
      <4>2. Akin(c, e, j)
        BY <1>n, <2>3, <3>2, <4>1
      <4> QED
        BY <1>2, <4>1, <4>2
    <3> QED
      BY <3>1, <3>2
  <2>4. CASE i # e /\ i # t
    <3>1. d[i].key = c[i].key /\ d[i].next = c[i].next /\ Full(c, i)
      BY <2>4
    <3>2. /\ c[i].next # 0 => /\ c[i].next > 0
                              /\ i + c[i].next \in Slots
                              /\ Akin(c, i, i + c[i].next)
          /\ \A j \in i + 1 .. size - 1 : Akin(c, i, j) =>
               /\ c[i].next # 0
               /\ i + c[i].next <= j
      BY <3>1 DEF Shaped, LinkedIn
    <3>3. ASSUME NEW j \in i + 1 .. size - 1, Akin(d, i, j)
          PROVE  c[i].next # 0 /\ i + c[i].next <= j
      <4>1. CASE j # t
        BY <2>1, <3>1, <3>2, <3>3, <4>1
      <4>2. CASE j = t
        <5>1. Akin(c, i, e) /\ Akin(c, e, i)
          BY <1>n, <3>1, <3>3, <4>2
        <5>2. i < e
          <6>1. ~(e < i)
            <7>1. e < i => i \in e + 1 .. size - 1
              BY <1>n, <2>n DEF Slots
            <7> QED
              BY <1>2, <5>1, <7>1
          <6> QED
            BY <1>n, <2>n, <2>4, <6>1
        <5>3. e \in i + 1 .. size - 1
          BY <1>n, <2>n, <5>2 DEF Slots
        <5>4. c[i].next # 0 /\ i + c[i].next <= e
          BY <3>2, <5>1, <5>3
        <5> QED
          BY <1>1, <1>n, <2>n, <4>2, <5>4
      <4> QED
        BY <4>1, <4>2
    <3> QED
      BY <1>1, <3>1, <3>2, <3>3
  <2> QED
    BY <2>2, <2>3, <2>4
<1>5. UniqueIn(d)
  <2>1. UniqueIn(c)
    BY DEF Shaped
  <2> QED
    BY <1>1, <2>1 DEF UniqueIn
<1> QED
  BY <1>3, <1>4, <1>5 DEF Shaped

\* An update that writes values only.
LEMMA ValuesKeepShape ==
  ASSUME NEW c, NEW d, Shaped(c),
         \A m \in Slots : d[m].key = c[m].key /\ d[m].next = c[m].next,
         TypeOK, c \in [Slots -> Entry]
  PROVE  Shaped(d)
<1>1. \A i \in Slots : /\ i \in Nat /\ size \in Nat
                       /\ c[i].next \in Int
                       /\ Full(c, i) => c[i].key \in Key /\ Home(c[i].key) \in Slots
  BY ArrayFacts
<1>2. \A i \in Slots, j \in Slots : Akin(d, i, j) <=> Akin(c, i, j)
  BY DEF Akin, Full
<1>3. \A i \in Slots : Full(d, i) <=> Full(c, i)
  BY DEF Full
<1>4. HeadedIn(d)
  BY <1>1, <1>2, <1>3 DEF Shaped, HeadedIn
<1>5. LinkedIn(d)
  <2>1. \A i \in Slots : \A j \in i + 1 .. size - 1 : j \in Slots
    BY <1>1 DEF Slots
  <2> QED
    BY <1>2, <1>3, <2>1 DEF Shaped, LinkedIn
<1>6. UniqueIn(d)
  BY <1>3 DEF Shaped, UniqueIn
<1> QED
  BY <1>4, <1>5, <1>6 DEF Shaped

-----------------------------------------------------------------------------
(***************************************************************************)
(* Where FindEmptyCell finds a cell.                                       *)
(***************************************************************************)

LEMMA LeastNumber ==
  ASSUME NEW S, S \subseteq Nat, S # {}
  PROVE  \E i \in S : \A j \in S : i <= j
<1>1. IsWellFoundedOn(OpToRel(<, Nat), Nat)
  BY NatLessThanWellFounded
<1>2. PICK i \in S : \A j \in S : <<j, i>> \notin OpToRel(<, Nat)
  BY <1>1, WFMin
<1>3. \A j \in S : ~(j < i)
  BY <1>2 DEF OpToRel
<1> QED
  BY <1>3

\* If there is an empty cell above the start, an empty cell above it is found.
LEMMA AboveIsFound ==
  ASSUME TypeOK, NEW s \in Slots, EmptyAbove(s) # {}
  PROVE  /\ FindEmptyCell(s) # {}
         /\ \A t \in FindEmptyCell(s) : t \in Slots /\ t > s /\ IsEmpty(t)
<1>1. EmptyAbove(s) \subseteq Nat
  BY DEF TypeOK, Slots, EmptyAbove
<1>2. PICK i \in EmptyAbove(s) : \A j \in EmptyAbove(s) : i <= j
  BY <1>1, LeastNumber
<1>3. i \in FindEmptyCell(s)
  BY <1>2 DEF FindEmptyCell
<1>4. FindEmptyCell(s) \subseteq EmptyAbove(s)
  BY DEF FindEmptyCell
<1>5. \A t \in EmptyAbove(s) : t \in Slots /\ t > s /\ IsEmpty(t)
  BY DEF TypeOK, Slots, EmptyAbove
<1> QED
  BY <1>3, <1>4, <1>5

-----------------------------------------------------------------------------
(***************************************************************************)
(* A table that was never strained, in the middle of an operation.         *)
(***************************************************************************)

\* The walk has passed the entries of the key's home slot up to idx.
WalkPlace == pc = "walk" =>
  /\ ~IsEmpty(idx)
  /\ Home(cells[idx].key) = Home(call.key)
  /\ \A i \in 0 .. idx : cells[i].key # call.key

\* The search for the predecessor has not passed the entry that is to give way,
\* which is the last of its chain and is to climb.
RelocatePlace == pc = "relocate" =>
  /\ idx = Home(call.key)
  /\ Home(cells[idx].key) # idx
  /\ cells[idx].next = 0
  /\ to > idx
  /\ IsEmpty(to)
  /\ Kin(cur, idx)
  /\ cur < idx

\* The key is not there, and its place is its home slot or behind the last of
\* its chain.
InsertPlace == pc = "insert" =>
  /\ \A i \in Slots : cells[i].key # call.key
  /\ IsEmpty(idx) => idx = Home(call.key)
  /\ ~IsEmpty(idx) => Home(cells[idx].key) = Home(call.key) /\ cells[idx].next = 0

SoundInv == sound =>
  /\ Shaped(cells)
  /\ WalkPlace
  /\ RelocatePlace
  /\ InsertPlace
  /\ fault \in {"none", "nil_key", "grow_returned"}

\* The key that is not in its empty home slot is nowhere.
LEMMA AbsentByHome ==
  ASSUME TypeOK, Shaped(cells), NEW k \in Key, ~Full(cells, Home(k))
  PROVE  \A i \in Slots : cells[i].key # k
BY DEF Shaped, HeadedIn, Akin, Full

\* Nor is a key whose home slot holds an entry of another chain.
LEMMA AbsentByOverflow ==
  ASSUME TypeOK, Shaped(cells), NEW k \in Key,
         Home(cells[Home(k)].key) # Home(k)
  PROVE  \A i \in Slots : cells[i].key # k
BY DEF Shaped, HeadedIn, Akin, Full

\* A walk that has come to the end of a chain has missed nothing.
LEMMA AbsentAtEnd ==
  ASSUME TypeOK, Shaped(cells), NEW k \in Key, NEW e \in Slots,
         Full(cells, e), Home(cells[e].key) = Home(k), cells[e].next = 0,
         \A i \in 0 .. e : cells[i].key # k
  PROVE  \A i \in Slots : cells[i].key # k
<1> SUFFICES ASSUME NEW i \in Slots, cells[i].key = k
             PROVE  FALSE
  OBVIOUS
<1>1. i \in Nat /\ e \in Nat /\ size \in Nat
  BY DEF TypeOK, Slots
<1>2. i \in e + 1 .. size - 1
  BY <1>1 DEF Slots
<1>3. Akin(cells, e, i)
  BY DEF Akin, Full
<1> QED
  BY <1>2, <1>3 DEF Shaped, LinkedIn

\* A turn of the walk passes no entry of the chain.
LEMMA AbsentBetween ==
  ASSUME TypeOK, Shaped(cells), NEW k \in Key, NEW e \in Slots,
         Full(cells, e), Home(cells[e].key) = Home(k), cells[e].next # 0,
         \A i \in 0 .. e : cells[i].key # k
  PROVE  /\ e + cells[e].next \in Slots
         /\ Akin(cells, e, e + cells[e].next)
         /\ \A i \in 0 .. e + cells[e].next - 1 : cells[i].key # k
<1>0. PICK n : n = e + cells[e].next
  OBVIOUS
<1>1. /\ n \in Slots /\ Akin(cells, e, n)
      /\ \A j \in e + 1 .. size - 1 : Akin(cells, e, j) => n <= j
  BY <1>0 DEF Shaped, LinkedIn
<1>5. e \in Nat /\ cells[e].next \in Int
  BY ArrayFacts DEF TypeOK
<1>2. e \in Nat /\ n \in Nat /\ size \in Nat /\ n < size
  BY <1>1 DEF TypeOK, Slots
<1>3. ASSUME NEW i \in 0 .. n - 1, cells[i].key = k
      PROVE  FALSE
  <2>1. i \in e + 1 .. size - 1 /\ i < n /\ i \in Nat
    BY <1>2, <1>3
  <2>2. Akin(cells, e, i)
    BY <1>3 DEF Akin, Full
  <2> QED
    BY <1>1, <1>2, <2>1, <2>2
<1>4. \A i \in 0 .. n - 1 : cells[i].key # k
  BY <1>3
<1> QED
  BY <1>0, <1>1, <1>4, <1>5

-----------------------------------------------------------------------------
(***************************************************************************)
(* The steps of a table that stays unstrained.                             *)
(***************************************************************************)

\* The step does not strain the table, nor did one before.
Unstrained == sound /\ (pc \in {"find", "insert"} => ~Strains)

\* A step that leaves the shape of the array, and after which no loop runs.
LEMMA SoundAtRest ==
  ASSUME Shaped(cells'), UNCHANGED <<hash, size>>,
         pc' \notin {"walk", "relocate", "insert"},
         fault' \in {"none", "nil_key", "grow_returned"}
  PROVE  SoundInv'
<1>1. Shaped(cells)'
  BY ShapeAfterStep
<1> QED
  BY <1>1 DEF SoundInv, WalkPlace, RelocatePlace, InsertPlace

LEMMA SoundFound ==
  ASSUME TypeOK, Shaped(cells), NEW i \in Slots, Found(i),
         UNCHANGED <<hash, size>>,
         fault \in {"none", "nil_key", "grow_returned"}
  PROVE  SoundInv'
<1>1. /\ pc' \notin {"walk", "relocate", "insert"}
      /\ fault' = fault
  BY DEF Found, Return
<1>2. CASE cells' = cells
  BY <1>1, <1>2, SoundAtRest
<1>3. CASE cells' = [cells EXCEPT ![i].val = call.val]
  <2>1. call.val \in Value \cup {Nil} /\ cells \in [Slots -> Entry]
    BY DEF TypeOK
  <2>2. \A m \in Slots :
          cells'[m].key = cells[m].key /\ cells'[m].next = cells[m].next
    BY <1>3, <2>1, ValueWritten
  <2>3. Shaped(cells')
    BY <2>1, <2>2, ValuesKeepShape
  <2> QED
    BY <1>1, <2>3, SoundAtRest
<1> QED
  BY <1>2, <1>3 DEF Found

\* FindSlot reports a key that is absent, at the place where Set will put it.
LEMMA SoundMissing ==
  ASSUME Shaped(cells'), NEW i, Missing(i), UNCHANGED <<hash, size, call>>,
         fault \in {"none", "nil_key", "grow_returned"},
         \A m \in Slots : cells'[m].key # call.key,
         cells'[i].key = Nil => i = Home(call.key),
         cells'[i].key # Nil => /\ Home(cells'[i].key) = Home(call.key)
                               /\ cells'[i].next = 0
  PROVE  SoundInv'
<1>1. CASE call.op = "get" /\ Return
  <2>1. pc' \in {"idle", "rehash"} /\ fault' = fault
    BY <1>1 DEF Return
  <2> QED
    BY <2>1, SoundAtRest
<1>2. CASE pc' = "insert" /\ idx' = i /\ fault' = fault
  <2>1. Shaped(cells)'
    BY ShapeAfterStep
  <2>2. InsertPlace'
    BY <1>2 DEF InsertPlace, IsEmpty, Home, Slots
  <2> QED
    BY <1>2, <2>1, <2>2 DEF SoundInv, WalkPlace, RelocatePlace
<1> QED
  BY <1>1, <1>2 DEF Missing

LEMMA SoundFindEmptySlot ==
  ASSUME TypeOK, SoundInv, sound, FindEmptySlot, UNCHANGED hash
  PROVE  SoundInv'
<1> DEFINE h == Home(call.key)
<1>1. /\ call.key \in Key /\ Missing(h) /\ IsEmpty(h)
      /\ UNCHANGED <<size, cells, call>>
  BY DEF FindEmptySlot, TypeOK
<1>2. \A m \in Slots : cells[m].key # call.key
  BY <1>1, AbsentByHome DEF SoundInv, IsEmpty, Full
<1> HIDE DEF h
<1> QED
  BY <1>1, <1>2, SoundMissing DEF SoundInv, IsEmpty, h

LEMMA SoundFindHead ==
  ASSUME TypeOK, SoundInv, sound, FindHead, UNCHANGED hash
  PROVE  SoundInv'
<1>1. /\ call.key \in Key /\ Found(Home(call.key)) /\ UNCHANGED size
  BY DEF FindHead, TypeOK
<1>2. Home(call.key) \in Slots
  BY <1>1, HomeIsSlot
<1> QED
  BY <1>1, <1>2, SoundFound DEF SoundInv

LEMMA SoundFindChain ==
  ASSUME TypeOK, SoundInv, sound, FindChain, UNCHANGED hash
  PROVE  SoundInv'
<1> DEFINE h == Home(call.key)
<1>1. /\ call.key \in Key /\ h \in Slots
      /\ cells[h].key \notin {Nil, call.key} /\ Home(cells[h].key) = h
      /\ pc' = "walk" /\ idx' = h
      /\ UNCHANGED <<size, cells, call, fault>>
  BY HomeIsSlot DEF FindChain, TypeOK
<1>2. Shaped(cells)'
  BY <1>1, ShapeAfterStep DEF SoundInv
<1>3. \A i \in 0 .. h : cells[i].key # call.key
  <2> SUFFICES ASSUME NEW i \in 0 .. h, cells[i].key = call.key
               PROVE  FALSE
    OBVIOUS
  <2>1. i \in Slots /\ i \in Nat /\ h \in Nat /\ i <= h
    BY <1>1 DEF TypeOK, Slots
  <2>2. h <= i
    BY <1>1, <2>1 DEF SoundInv, Shaped, HeadedIn, Full
  <2> QED
    BY <1>1, <2>1, <2>2
<1>4. WalkPlace'
  BY <1>1, <1>3 DEF WalkPlace, IsEmpty, Home
<1> QED
  BY <1>1, <1>2, <1>4 DEF SoundInv, RelocatePlace, InsertPlace

LEMMA SoundWalk ==
  ASSUME TypeOK, SoundInv, sound, KeyGiven, Walk, UNCHANGED hash
  PROVE  SoundInv'
<1>1. /\ pc = "walk" /\ call.key \in Key /\ idx \in Slots
      /\ UNCHANGED <<size, call>>
  BY DEF Walk, KeyGiven, TypeOK
<1>2. /\ Shaped(cells) /\ Full(cells, idx) /\ Home(cells[idx].key) = Home(call.key)
      /\ \A i \in 0 .. idx : cells[i].key # call.key
      /\ fault \in {"none", "nil_key", "grow_returned"}
  BY <1>1 DEF SoundInv, WalkPlace, IsEmpty, Full
<1>3. CASE cells[idx].next = 0
  <2>1. Missing(idx) /\ UNCHANGED cells
    BY <1>3 DEF Walk
  <2>2. \A m \in Slots : cells[m].key # call.key
    BY <1>1, <1>2, <1>3, AbsentAtEnd
  <2> QED
    BY <1>1, <1>2, <1>3, <2>1, <2>2, SoundMissing DEF Full
<1>4. CASE cells[idx].next # 0
  <2>0. PICK j : j = idx + cells[idx].next
    OBVIOUS
  <2>n. idx \in Nat /\ cells[idx].next \in Int
    BY <1>1, ArrayFacts DEF TypeOK
  <2>a. /\ idx + cells[idx].next \in Slots
        /\ Akin(cells, idx, idx + cells[idx].next)
        /\ \A i \in 0 .. idx + cells[idx].next - 1 : cells[i].key # call.key
    BY <1>1, <1>2, <1>4, AbsentBetween
  <2>1. /\ j \in Slots
        /\ Akin(cells, idx, j)
        /\ \A i \in 0 .. j - 1 : cells[i].key # call.key
    BY <2>0, <2>n, <2>a
  <2>2. CASE cells[j].key = call.key
    <3>1. Found(j)
      BY <1>4, <2>0, <2>1, <2>2 DEF Walk
    <3> QED
      BY <1>1, <1>2, <2>1, <3>1, SoundFound
  <2>3. CASE cells[j].key # call.key
    <3>1. /\ idx' = j
          /\ UNCHANGED <<cells, pc, to, cur, ret, fault>>
      BY <1>4, <2>0, <2>1, <2>3 DEF Walk
    <3>2. Shaped(cells)'
      BY <1>1, <1>2, <3>1, ShapeAfterStep
    <3>3. \A i \in 0 .. j : cells[i].key # call.key
      <4>1. j \in Nat
        BY <2>1 DEF TypeOK, Slots
      <4>2. \A i \in 0 .. j : i = j \/ i \in 0 .. j - 1
        BY <4>1
      <4> QED
        BY <2>1, <2>3, <4>2
    <3>4. WalkPlace'
      BY <1>1, <1>2, <2>1, <3>1, <3>3 DEF WalkPlace, IsEmpty, Home, Akin, Full
    <3> QED
      BY <1>1, <1>2, <3>1, <3>2, <3>4 DEF SoundInv, RelocatePlace, InsertPlace
  <2> QED
    BY <2>2, <2>3
<1> QED
  BY <1>3, <1>4

LEMMA SoundFindOverflow ==
  ASSUME TypeOK, SoundInv, Unstrained, FindOverflow, UNCHANGED hash
  PROVE  SoundInv'
<1> DEFINE h == Home(call.key)
<1>1. /\ call.key \in Key /\ h \in Slots /\ Full(cells, h)
      /\ Home(cells[h].key) # h
      /\ UNCHANGED <<size, cells, call>>
  BY HomeIsSlot DEF FindOverflow, TypeOK, Full, IsEmpty
<1>2. EmptyAbove(h) # {} /\ cells[h].next = 0
  BY <1>1 DEF Unstrained, Strains, FindOverflow, IsEmpty
<1>3. /\ FindEmptyCell(h) # {}
      /\ \A t \in FindEmptyCell(h) : t \in Slots /\ t > h /\ IsEmpty(t)
  BY <1>1, <1>2, AboveIsFound
<1>4. PICK t \in FindEmptyCell(h) :
        /\ pc' = "relocate" /\ idx' = h /\ to' = t
        /\ cur' = Home(cells[h].key)
        /\ UNCHANGED fault
  BY <1>3 DEF FindOverflow
<1>5. Shaped(cells) /\ fault \in {"none", "nil_key", "grow_returned"}
  BY DEF SoundInv, Unstrained
<1>6. /\ Home(cells[h].key) \in Slots
      /\ Home(cells[h].key) <= h
      /\ Akin(cells, Home(cells[h].key), h)
  <2>1. cells[h].key \in Key
    BY <1>1, ArrayFacts DEF TypeOK
  <2> QED
    BY <1>1, <1>5, <2>1, HomeIsSlot DEF Shaped, HeadedIn
<1>7. Home(cells[h].key) < h
  BY <1>1, <1>6 DEF Slots, TypeOK
<1>8. Shaped(cells)'
  BY <1>1, <1>5, ShapeAfterStep
<1>9. RelocatePlace'
  BY <1>1, <1>2, <1>3, <1>4, <1>6, <1>7
  DEF RelocatePlace, IsEmpty, Kin, Akin, Full, Home
<1> QED
  BY <1>1, <1>4, <1>5, <1>8, <1>9 DEF SoundInv, WalkPlace, InsertPlace

\* The search for the predecessor stays on the chain, below the entry sought.
LEMMA SearchOnChain ==
  ASSUME TypeOK, Shaped(cells), RelocatePlace, pc = "relocate"
  PROVE  /\ RelocateFault = "none"
         /\ cells[cur].next # 0
         /\ cur + cells[cur].next \in Slots
         /\ cur + cells[cur].next <= idx
         /\ Akin(cells, cur, cur + cells[cur].next)
<1>1. /\ cur \in Slots /\ idx \in Slots /\ cur \in Nat /\ idx \in Nat
      /\ size \in Nat /\ cells[cur].next \in Int
  BY ArrayFacts DEF TypeOK
<1>2. /\ cur < idx /\ Akin(cells, cur, idx) /\ IsEmpty(to)
  BY DEF RelocatePlace, Kin, Akin, Full, IsEmpty
<1>3. idx \in cur + 1 .. size - 1
  BY <1>1, <1>2 DEF Slots
<1>4. /\ cells[cur].next # 0
      /\ cur + cells[cur].next \in Slots
      /\ cur + cells[cur].next <= idx
      /\ Akin(cells, cur, cur + cells[cur].next)
  BY <1>1, <1>2, <1>3 DEF Shaped, LinkedIn, Akin
<1>5. ~IsEmpty(cur + cells[cur].next)
  BY <1>4 DEF Akin, Full, IsEmpty
<1>6. RelocateFault = "none"
  BY <1>2, <1>4, <1>5 DEF RelocateFault
<1> QED
  BY <1>4, <1>6

LEMMA SoundRelocateStep ==
  ASSUME TypeOK, SoundInv, sound, RelocateStep, UNCHANGED hash
  PROVE  SoundInv'
<1>1. /\ pc = "relocate"
      /\ cur + cells[cur].next # idx
      /\ cur' = cur + cells[cur].next
      /\ UNCHANGED <<size, cells, pc, call, idx, to, fault>>
  BY DEF RelocateStep
<1>2. Shaped(cells) /\ RelocatePlace /\ fault \in {"none", "nil_key", "grow_returned"}
  BY DEF SoundInv
<1>3. /\ cur + cells[cur].next \in Slots
      /\ cur + cells[cur].next <= idx
      /\ Akin(cells, cur, cur + cells[cur].next)
  BY <1>1, <1>2, SearchOnChain
<1>4. cur' < idx
  BY <1>1, <1>3 DEF TypeOK, Slots
<1>5. Shaped(cells)'
  BY <1>1, <1>2, ShapeAfterStep
<1>6. RelocatePlace'
  BY <1>1, <1>2, <1>3, <1>4 DEF RelocatePlace, IsEmpty, Kin, Akin, Full, Home
<1> QED
  BY <1>1, <1>2, <1>5, <1>6 DEF SoundInv, WalkPlace, InsertPlace

LEMMA SoundRelocateMove ==
  ASSUME TypeOK, SoundInv, sound, KeyGiven, RelocationPlanned, RelocateMove,
         UNCHANGED hash
  PROVE  SoundInv'
<1>1. /\ pc = "relocate" /\ Missing(idx)
      /\ cur + cells[cur].next = idx
      /\ UNCHANGED <<size, call>>
  BY DEF RelocateMove
<1>2. Shaped(cells) /\ RelocatePlace /\ fault \in {"none", "nil_key", "grow_returned"}
  BY DEF SoundInv
<1>3. /\ idx \in Slots /\ to \in Slots /\ cur \in Slots
      /\ cells \in [Slots -> Entry] /\ call.key \in Key
  BY <1>1 DEF TypeOK, KeyGiven
<1>4. cells[cur].next # 0
  BY <1>1, <1>2, SearchOnChain
<1>5. /\ idx = Home(call.key) /\ Home(cells[idx].key) # idx
      /\ cells[idx].next = 0 /\ idx < to /\ ~Full(cells, to)
      /\ Akin(cells, cur, idx) /\ cur < idx
  BY <1>1, <1>2, <1>3
  DEF RelocatePlace, IsEmpty, Kin, Akin, Full, TypeOK, Slots
<1>6. /\ cells' \in [Slots -> Entry]
      /\ \A m \in Slots :
           /\ cells'[m].key = (IF m = idx THEN Nil
                               ELSE IF m = to THEN cells[idx].key
                               ELSE cells[m].key)
           /\ cells'[m].next = (IF m = cur THEN to - cur
                                ELSE IF m = to THEN cells[idx].next
                                ELSE cells[m].next)
  BY EntryMoved
<1>7. Shaped(cells')
  <2>1. Moved(cells, cells', idx, to, cur)
    BY <1>1, <1>4, <1>5, <1>6 DEF Moved
  <2> QED
    BY <1>2, <1>3, <1>6, <2>1, MoveKeepsShape
<1>8. \A m \in Slots : cells[m].key # call.key
  BY <1>2, <1>3, <1>5, AbsentByOverflow
<1>9. /\ \A m \in Slots : cells'[m].key # call.key
      /\ cells'[idx].key = Nil
  BY <1>3, <1>6, <1>8
<1> QED
  BY <1>1, <1>2, <1>5, <1>7, <1>9, SoundMissing

LEMMA SoundInsertHome ==
  ASSUME TypeOK, SoundInv, sound, KeyGiven, InsertHome, UNCHANGED hash
  PROVE  SoundInv'
<1>1. /\ pc = "insert" /\ IsEmpty(idx) /\ Return
      /\ cells' = [cells EXCEPT ![idx] = FreshEntry(call.key, call.val)]
      /\ UNCHANGED size
  BY DEF InsertHome
<1>2. /\ Shaped(cells) /\ fault \in {"none", "nil_key", "grow_returned"}
      /\ idx = Home(call.key) /\ \A i \in Slots : cells[i].key # call.key
  BY <1>1 DEF SoundInv, InsertPlace
<1>3. /\ idx \in Slots /\ cells \in [Slots -> Entry] /\ call.key \in Key
      /\ FreshEntry(call.key, call.val) \in Entry
  BY <1>1 DEF TypeOK, KeyGiven, FreshEntry, Entry
<1>4. /\ cells' \in [Slots -> Entry]
      /\ \A m \in Slots :
           cells'[m] = (IF m = idx THEN FreshEntry(call.key, call.val) ELSE cells[m])
  BY <1>1, <1>3, EntryWritten
<1>5. \A m \in Slots :
        /\ cells'[m].key = (IF m = idx THEN call.key ELSE cells[m].key)
        /\ cells'[m].next = (IF m = idx THEN 0 ELSE cells[m].next)
  BY <1>4 DEF FreshEntry
<1>6. Shaped(cells')
  <2>1. HeadAdded(cells, cells', idx, call.key)
    BY <1>1, <1>2, <1>5 DEF HeadAdded, IsEmpty, Full
  <2> QED
    BY <1>2, <1>3, <1>4, <2>1, HeadKeepsShape
<1>7. pc' \in {"idle", "rehash"} /\ fault' = fault
  BY <1>1 DEF Return
<1> QED
  BY <1>1, <1>2, <1>6, <1>7, SoundAtRest

LEMMA SoundInsertOverflow ==
  ASSUME TypeOK, SoundInv, Unstrained, KeyGiven, InsertOverflow, UNCHANGED hash
  PROVE  SoundInv'
<1>1. /\ pc = "insert" /\ ~IsEmpty(idx) /\ EmptyAbove(idx) # {}
      /\ idx \in Slots /\ UNCHANGED size
  BY DEF InsertOverflow, Unstrained, Strains, TypeOK
<1>2. /\ FindEmptyCell(idx) # {}
      /\ \A t \in FindEmptyCell(idx) : t \in Slots /\ t > idx /\ IsEmpty(t)
  BY <1>1, AboveIsFound
<1>3. PICK t \in FindEmptyCell(idx) :
        /\ cells' = [cells EXCEPT ![t] = FreshEntry(call.key, call.val),
                                  ![idx].next = t - idx]
        /\ Return
  BY <1>2 DEF InsertOverflow, Distance
<1>4. t \in Slots /\ idx < t /\ ~Full(cells, t)
  BY <1>1, <1>2 DEF Full, IsEmpty, TypeOK, Slots
<1>5. /\ Shaped(cells) /\ fault \in {"none", "nil_key", "grow_returned"}
      /\ \A i \in Slots : cells[i].key # call.key
      /\ Full(cells, idx) /\ Home(cells[idx].key) = Home(call.key)
      /\ cells[idx].next = 0
  BY <1>1 DEF SoundInv, Unstrained, InsertPlace, Full, IsEmpty
<1>6. /\ cells \in [Slots -> Entry] /\ call.key \in Key
  BY <1>1 DEF TypeOK, KeyGiven
<1>7. PICK e \in Entry : /\ e = FreshEntry(call.key, call.val)
                         /\ e.key = call.key /\ e.next = 0
  <2>1. FreshEntry(call.key, call.val) \in Entry
    BY <1>6 DEF TypeOK, FreshEntry, Entry
  <2> QED
    BY <2>1 DEF FreshEntry
<1>8. /\ cells' \in [Slots -> Entry]
      /\ \A m \in Slots :
           /\ cells'[m].key = (IF m = t THEN e.key ELSE cells[m].key)
           /\ cells'[m].next = (IF m = idx THEN t - idx
                                ELSE IF m = t THEN e.next ELSE cells[m].next)
  <2>1. cells' = [cells EXCEPT ![t] = e, ![idx].next = t - idx]
    BY <1>3, <1>7
  <2> QED
    BY <1>4, <2>1, EntryLinked
<1>9. \A m \in Slots :
           /\ cells'[m].key = (IF m = t THEN call.key ELSE cells[m].key)
           /\ cells'[m].next = (IF m = idx THEN t - idx
                                ELSE IF m = t THEN 0 ELSE cells[m].next)
  BY <1>7, <1>8
<1>10. Shaped(cells')
  <2>1. Appended(cells, cells', idx, t, call.key)
    BY <1>4, <1>5, <1>9 DEF Appended
  <2> QED
    BY <1>1, <1>4, <1>5, <1>6, <1>8, <2>1, TailKeepsShape
<1>11. pc' \in {"idle", "rehash"} /\ fault' = fault
  BY <1>3 DEF Return
<1> QED
  BY <1>1, <1>5, <1>10, <1>11, SoundAtRest

\* A step after which the array is as it was, and no loop runs.
LEMMA SoundIdle ==
  ASSUME SoundInv, sound, UNCHANGED <<hash, size, cells>>,
         pc' \notin {"walk", "relocate", "insert"},
         fault' \in {fault, "nil_key", "grow_returned"}
  PROVE  SoundInv'
<1>1. Shaped(cells') /\ fault' \in {"none", "nil_key", "grow_returned"}
  BY DEF SoundInv
<1> QED
  BY <1>1, SoundAtRest

LEMMA SoundGrow ==
  ASSUME TypeOK, SoundInv, sound, Grow, UNCHANGED hash
  PROVE  SoundInv'
<1>1. /\ size' = 2 * size /\ cells' = FreshCells(2 * size)
      /\ pc' = "rehash" /\ fault' = fault
  BY DEF Grow, Initialize
<1>2. \A i \in Slots' : cells'[i].key = Nil
  BY <1>1 DEF Slots, FreshCells, NoEntry
<1>3. Shaped(cells)'
  BY <1>2 DEF Shaped, HeadedIn, LinkedIn, UniqueIn, Full
<1> QED
  BY <1>1, <1>3 DEF SoundInv, WalkPlace, RelocatePlace, InsertPlace

LEMMA SoundStep == LinksInv /\ SoundInv /\ [HNext]_hvars => SoundInv'
<1> SUFFICES ASSUME LinksInv, SoundInv, [HNext]_hvars, sound'
             PROVE  SoundInv'
  BY DEF SoundInv
<1>1. TypeOK /\ KeyGiven /\ RelocationPlanned
  BY DEF LinksInv
<1>2. CASE UNCHANGED hvars
  BY <1>2
  DEF hvars, vars, SoundInv, WalkPlace, RelocatePlace, InsertPlace, Shaped,
      HeadedIn, LinkedIn, UniqueIn, Akin, Full, Kin, IsEmpty, Home, Slots
<1>3. CASE HNext
  <2>1. Unstrained /\ sound /\ Next /\ UNCHANGED hash
    BY <1>3 DEF HNext, Next, Unstrained
  <2>2. CASE Call
    BY <2>1, <2>2, SoundIdle DEF Call, Get, Set
  <2>3. CASE Halted
    BY <2>1, <2>3, SoundIdle DEF Halted
  <2>4. CASE FindNilKey
    BY <2>1, <2>4, SoundIdle DEF FindNilKey, Fail
  <2>5. CASE FindEmptySlot
    BY <1>1, <2>1, <2>5, SoundFindEmptySlot
  <2>6. CASE FindOverflow
    BY <1>1, <2>1, <2>6, SoundFindOverflow
  <2>7. CASE FindHead
    BY <1>1, <2>1, <2>7, SoundFindHead
  <2>8. CASE FindChain
    BY <1>1, <2>1, <2>8, SoundFindChain
  <2>9. CASE Walk
    BY <1>1, <2>1, <2>9, SoundWalk
  <2>10. CASE RelocateAssert
    <3>1. pc = "relocate" /\ RelocateFault # "none"
      BY <2>10 DEF RelocateAssert
    <3> QED
      BY <1>1, <2>1, <3>1, SearchOnChain DEF SoundInv
  <2>11. CASE RelocateStep
    BY <1>1, <2>1, <2>11, SoundRelocateStep
  <2>12. CASE RelocateMove
    BY <1>1, <2>1, <2>12, SoundRelocateMove
  <2>13. CASE InsertHome
    BY <1>1, <2>1, <2>13, SoundInsertHome
  <2>14. CASE InsertOverflow
    BY <1>1, <2>1, <2>14, SoundInsertOverflow
  <2>15. CASE Grow
    BY <1>1, <2>1, <2>15, SoundGrow
  <2>16. CASE Rehash
    <3>1. UNCHANGED <<size, cells, fault>> /\ pc' \in {"rehash", "find"}
      BY <2>16 DEF Rehash
    <3> QED
      BY <2>1, <3>1, SoundIdle
  <2>17. CASE GrowReturns
    BY <2>1, <2>17, SoundIdle DEF GrowReturns, Fail
  <2> QED
    BY <2>1, <2>2, <2>3, <2>4, <2>5, <2>6, <2>7, <2>8, <2>9, <2>10, <2>11, <2>12,
       <2>13, <2>14, <2>15, <2>16, <2>17 DEF Next, Step
<1> QED
  BY <1>2, <1>3

LEMMA InitSound == Init => SoundInv
<1> SUFFICES ASSUME Init
             PROVE  SoundInv
  OBVIOUS
<1>1. \A i \in Slots : cells[i].key = Nil
  BY DEF Init, Slots, FreshCells, NoEntry
<1>2. Shaped(cells)
  BY <1>1, EmptyIsShaped
<1> QED
  BY <1>2 DEF Init, SoundInv, WalkPlace, RelocatePlace, InsertPlace

ShapeInv == LinksInv /\ SoundInv

LEMMA ShapeInvHolds == HSpec => []ShapeInv
<1>1. HInit => ShapeInv
  BY InitLinks, InitSound DEF HInit, ShapeInv
<1>2. ShapeInv /\ [HNext]_hvars => ShapeInv'
  <2>1. [HNext]_hvars => [Next]_vars
    BY DEF HNext, hvars
  <2> QED
    BY <2>1, LinksInvStep, SoundStep DEF ShapeInv
<1> QED
  BY <1>1, <1>2, PTL DEF HSpec

\* Until FindEmptyCell searches down or Relocate moves an entry that has a
\* successor, the entries of a home slot are one chain that climbs the array from
\* that slot, and no key is stored twice.
THEOREM ChainsStayInOrder == HSpec => []ChainsInOrder
<1>1. ShapeInv => ChainsInOrder
  BY ShapeOfTable DEF ShapeInv, SoundInv, ChainsInOrder
<1> QED
  BY <1>1, ShapeInvHolds, PTL

\* Of the assertions of the table an unstrained one meets two: those for a nil
\* key, and for having grown.
THEOREM OnlyKnownFaults == HSpec => []SoundFaults
<1>1. ShapeInv => SoundFaults
  BY DEF ShapeInv, SoundInv, SoundFaults
<1> QED
  BY <1>1, ShapeInvHolds, PTL

-----------------------------------------------------------------------------
(***************************************************************************)
(* The refinement.  Beyond the shape of the array it needs that the array  *)
(* holds what the calls so far have stored, and what is known of a call    *)
(* while it runs.                                                          *)
(***************************************************************************)

HistoryTyped == /\ latest \in [Key -> Value \cup {NotFound}]
                /\ sound \in BOOLEAN

\* What array c holds under key k is v, or it does not hold k and v says so.
HoldsIn(c, k, v) ==
  IF v = NotFound THEN \A i \in Slots : c[i].key # k
                  ELSE \E i \in Slots : c[i].key = k /\ c[i].val = v

StoreAgrees == Intact => \A k \in Key : HoldsIn(cells, k, latest[k])

DictInv == ShapeInv /\ HistoryTyped /\ CallsInOrder /\ StoreAgrees

\* What a lookup finds at a key is what was last stored there.
LEMMA FoundIsLatest ==
  ASSUME Shaped(cells), StoreAgrees, Intact, HistoryTyped,
         NEW i \in Slots, NEW k \in Key, cells[i].key = k
  PROVE  /\ latest[k] = cells[i].val
         /\ latest[k] # NotFound
<1>1. HoldsIn(cells, k, latest[k])
  BY DEF StoreAgrees
<1>2. latest[k] # NotFound
  BY <1>1 DEF HoldsIn
<1>3. PICK j \in Slots : cells[j].key = k /\ cells[j].val = latest[k]
  BY <1>1, <1>2 DEF HoldsIn
<1>4. i = j
  BY <1>3 DEF Shaped, UniqueIn, Full
<1> QED
  BY <1>2, <1>3, <1>4

LEMMA AbsentIsNotFound ==
  ASSUME StoreAgrees, Intact, NEW k \in Key, \A i \in Slots : cells[i].key # k
  PROVE  latest[k] = NotFound
BY DEF StoreAgrees, HoldsIn

\* An update of the array that leaves every pair where it finds it, or not.
LEMMA HoldsKept ==
  ASSUME StoreAgrees, Intact, NEW d,
         \A i \in Slots : cells[i].key # Nil =>
           \E j \in Slots : d[j].key = cells[i].key /\ d[j].val = cells[i].val,
         \A j \in Slots : d[j].key # Nil =>
           \E i \in Slots : d[j].key = cells[i].key
  PROVE  \A k \in Key : HoldsIn(d, k, latest[k])
<1> SUFFICES ASSUME NEW k \in Key
             PROVE  HoldsIn(d, k, latest[k])
  OBVIOUS
<1>1. HoldsIn(cells, k, latest[k])
  BY DEF StoreAgrees
<1>2. CASE latest[k] = NotFound
  BY <1>1, <1>2 DEF HoldsIn
<1>3. CASE latest[k] # NotFound
  <2>1. PICK i \in Slots : cells[i].key = k /\ cells[i].val = latest[k]
    BY <1>1, <1>3 DEF HoldsIn
  <2>2. PICK j \in Slots : d[j].key = k /\ d[j].val = latest[k]
    BY <2>1
  <2> QED
    BY <1>3, <2>2 DEF HoldsIn
<1> QED
  BY <1>2, <1>3

\* An update that puts v under key q, and leaves the other keys alone.
LEMMA HoldsPut ==
  ASSUME StoreAgrees, Intact, HistoryTyped, NEW d, NEW q \in Key,
         NEW v \in Value, NEW t \in Slots,
         d[t].key = q, d[t].val = v,
         cells[t].key \in {q, Nil},
         \A i \in Slots \ {t} : d[i].key = cells[i].key /\ d[i].val = cells[i].val
  PROVE  \A k \in Key : HoldsIn(d, k, [latest EXCEPT ![q] = v][k])
<1> SUFFICES ASSUME NEW k \in Key
             PROVE  HoldsIn(d, k, [latest EXCEPT ![q] = v][k])
  OBVIOUS
<1>1. [latest EXCEPT ![q] = v][k] = (IF k = q THEN v ELSE latest[k])
  BY DEF HistoryTyped
<1>2. CASE k = q
  <2>1. v # NotFound
    OBVIOUS
  <2> QED
    BY <1>1, <1>2, <2>1 DEF HoldsIn
<1>3. CASE k # q
  <2>1. HoldsIn(cells, k, latest[k])
    BY DEF StoreAgrees
  <2>2. \A i \in Slots : cells[i].key = k => i # t
    BY <1>3
  <2>3. \A i \in Slots : d[i].key = k => i # t
    BY <1>3
  <2>4. HoldsIn(d, k, latest[k])
    <3>1. CASE latest[k] = NotFound
      BY <2>1, <2>3, <3>1 DEF HoldsIn
    <3>2. CASE latest[k] # NotFound
      <4>1. PICK i \in Slots : cells[i].key = k /\ cells[i].val = latest[k]
        BY <2>1, <3>2 DEF HoldsIn
      <4>2. d[i].key = k /\ d[i].val = latest[k]
        BY <2>2, <4>1
      <4> QED
        BY <3>2, <4>2 DEF HoldsIn
    <3> QED
      BY <3>1, <3>2
  <2> QED
    BY <1>1, <1>3, <2>4
<1> QED
  BY <1>2, <1>3

-----------------------------------------------------------------------------
(* What the steps of a table are for the dictionary. *)

\* A call is a call.
LEMMA AskIsAsk ==
  ASSUME pc = "idle", pc' = "find", call' \in Dict!Gets \cup Dict!Sets,
         ret' = Nil, latest' = latest, Intact = TRUE, Intact' = TRUE
  PROVE  Dict!DNext
<1>1. Dict!Ask(call')
  BY DEF Dict!Ask, Dict!NoCall
<1> QED
  BY <1>1 DEF Dict!DNext

\* A step in the middle of an operation is none.
LEMMA InsideIsStutter ==
  ASSUME pc # "idle", pc' # "idle", UNCHANGED <<call, ret>>, latest' = latest,
         Intact = TRUE, Intact' = TRUE
  PROVE  UNCHANGED Dict!dvars
BY DEF Dict!dvars

\* The return of a Get is its answer.
LEMMA GetIsAnswered ==
  ASSUME pc # "idle", pc' = "idle", call.op = "get", ret' = latest[call.key],
         latest' = latest, Intact = TRUE, Intact' = TRUE
  PROVE  Dict!DNext
<1>1. Dict!AnswerGet
  BY DEF Dict!AnswerGet, Dict!NoCall
<1> QED
  BY <1>1 DEF Dict!DNext

\* The return of a Set is its answer.
LEMMA SetIsAnswered ==
  ASSUME pc # "idle", pc' = "idle", call.op = "set", call.key \in Key,
         UNCHANGED ret, latest' = [latest EXCEPT ![call.key] = call.val],
         Intact = TRUE, Intact' = TRUE
  PROVE  Dict!DNext
<1>1. Dict!AnswerSet
  BY DEF Dict!AnswerSet, Dict!NoCall
<1> QED
  BY <1>1 DEF Dict!DNext

LEMMA BrokenIsBreak ==
  ASSUME Intact' = FALSE
  PROVE  Dict!DNext
<1>1. Dict!Break
  BY DEF Dict!Break
<1> QED
  BY <1>1 DEF Dict!DNext

-----------------------------------------------------------------------------
(* The steps that keep a table intact. *)

\* The dictionary takes a step or none, and the array still agrees with it.
Follows == /\ [Dict!DNext]_(Dict!dvars)
           /\ \A k \in Key : HoldsIn(cells', k, latest'[k])

IntactStep == /\ DictInv
              /\ HNext
              /\ Intact = TRUE /\ Intact' = TRUE
              /\ depth = 0
              /\ fault = "none"
              /\ fault' = "none"

\* A process that has not failed, and does not grow, did not before.
LEMMA AliveBefore ==
  ASSUME TypeOK, Next, depth' = 0, fault' = "none"
  PROVE  depth = 0 /\ fault = "none"
<1>1. CASE Grow
  BY <1>1 DEF Grow, TypeOK
<1>2. CASE ~Grow
  <2>1. depth' = depth
    BY <1>2
    DEF Next, Call, Get, Set, Step, FindNilKey, FindEmptySlot, FindOverflow,
        FindHead, FindChain, Walk, RelocateAssert, RelocateStep, RelocateMove,
        InsertHome, InsertOverflow, Rehash, GrowReturns, Halted, growing
  <2>2. fault' \in {fault, "nil_key", "walk_range", "grow_returned",
                    "no_cell", "start_too_low"} \/ RelocateAssert
    BY <1>2
    DEF Next, Call, Get, Set, Step, FindNilKey, FindEmptySlot, FindOverflow,
        FindHead, FindChain, Walk, RelocateStep, RelocateMove, InsertHome,
        InsertOverflow, Rehash, GrowReturns, Halted, Found, Missing, Return,
        Fail, EmptyCellFault
  <2>3. RelocateAssert => fault' # "none"
    BY DEF RelocateAssert, Fail
  <2> QED
    BY <2>1, <2>2, <2>3
<1> QED
  BY <1>1, <1>2

\* A table that is intact after a step was intact before it.
LEMMA IntactBefore ==
  ASSUME DictInv, HNext, Intact'
  PROVE  IntactStep /\ Unstrained /\ UNCHANGED hash
<1>1. sound /\ sound' /\ Unstrained /\ sound' = TRUE /\ sound = TRUE
  BY DEF Intact, HNext, Unstrained, DictInv, HistoryTyped
<1>2. depth' = 0 /\ fault' = "none"
  BY DEF Intact
<1>3. Next /\ UNCHANGED hash
  BY DEF HNext, Next
<1>4. depth = 0 /\ fault = "none"
  BY <1>2, <1>3, AliveBefore DEF DictInv, ShapeInv, LinksInv
<1>5. Intact = TRUE /\ Intact' = TRUE
  BY <1>1, <1>2, <1>4 DEF Intact
<1> QED
  BY <1>1, <1>2, <1>3, <1>4, <1>5 DEF IntactStep

LEMMA FollowsInside ==
  ASSUME IntactStep, pc # "idle", pc' # "idle", UNCHANGED <<call, ret, cells>>
  PROVE  Follows
<1>1. latest' = latest
  BY DEF IntactStep, HNext, SetReturns
<1>2. \A k \in Key : HoldsIn(cells', k, latest'[k])
  BY <1>1 DEF IntactStep, DictInv, StoreAgrees
<1> QED
  BY <1>1, <1>2, InsideIsStutter DEF IntactStep, Follows

LEMMA FollowsFound ==
  ASSUME IntactStep, NEW i \in Slots, Found(i), pc # "idle", UNCHANGED call,
         call.key \in Key, cells[i].key = call.key
  PROVE  Follows
<1>1. /\ TypeOK /\ Shaped(cells) /\ StoreAgrees /\ HistoryTyped /\ Intact
  BY DEF IntactStep, DictInv, ShapeInv, LinksInv, SoundInv, Intact
<1>2. pc' = "idle"
  BY DEF IntactStep, Found, Return
<1>3. CASE call.op = "get"
  <2>1. ret' = cells[i].val /\ UNCHANGED cells
    BY <1>3 DEF Found
  <2>2. ret' = latest[call.key]
    BY <1>1, <2>1, FoundIsLatest
  <2>3. latest' = latest
    BY <1>3 DEF IntactStep, HNext, SetReturns
  <2>4. Dict!DNext
    BY <1>2, <1>3, <2>2, <2>3, GetIsAnswered DEF IntactStep
  <2>5. \A k \in Key : HoldsIn(cells', k, latest'[k])
    BY <1>1, <2>1, <2>3 DEF StoreAgrees
  <2> QED
    BY <2>4, <2>5 DEF Follows
<1>4. CASE call.op = "set"
  <2>1. cells' = [cells EXCEPT ![i].val = call.val] /\ UNCHANGED ret
    BY <1>4 DEF Found
  <2>2. call.val \in Value
    BY <1>4 DEF IntactStep, DictInv, CallsInOrder
  <2>3. \A m \in Slots :
          /\ cells'[m].key = cells[m].key
          /\ cells'[m].val = (IF m = i THEN call.val ELSE cells[m].val)
    BY <1>1, <2>1, <2>2, ValueWritten
  <2>4. latest' = [latest EXCEPT ![call.key] = call.val]
    BY <1>2, <1>4 DEF IntactStep, HNext, SetReturns
  <2>5. Dict!DNext
    BY <1>2, <1>4, <2>1, <2>4, SetIsAnswered DEF IntactStep
  <2>6. \A k \in Key : HoldsIn(cells', k, latest'[k])
    BY <1>1, <2>2, <2>3, <2>4, HoldsPut
  <2> QED
    BY <2>5, <2>6 DEF Follows
<1> QED
  BY <1>3, <1>4 DEF Found

\* The key is absent; the array is as it was, or an entry of it was moved.
LEMMA FollowsMissing ==
  ASSUME IntactStep, NEW i, Missing(i), pc # "idle", UNCHANGED call,
         call.key \in Key,
         \A m \in Slots : cells[m].key # call.key,
         \A k \in Key : HoldsIn(cells', k, latest[k])
  PROVE  Follows
<1>1. StoreAgrees /\ Intact
  BY DEF IntactStep, DictInv
<1>2. CASE call.op = "get" /\ Return /\ ret' = NotFound
  <2>1. pc' = "idle" /\ latest' = latest
    BY <1>2 DEF IntactStep, HNext, SetReturns, Return
  <2>2. ret' = latest[call.key]
    BY <1>1, <1>2, AbsentIsNotFound
  <2>3. Dict!DNext
    BY <1>2, <2>1, <2>2, GetIsAnswered DEF IntactStep
  <2> QED
    BY <2>1, <2>3 DEF Follows
<1>3. CASE pc' = "insert" /\ UNCHANGED ret
  <2>1. latest' = latest
    BY <1>3 DEF IntactStep, HNext, SetReturns
  <2> QED
    BY <1>3, <2>1, InsideIsStutter DEF IntactStep, Follows
<1> QED
  BY <1>2, <1>3 DEF Missing

\* A key that was absent has been put into cell t, which was empty.
LEMMA FollowsInserted ==
  ASSUME IntactStep, Return, pc = "insert", UNCHANGED <<call, ret>>,
         call.key \in Key, NEW t \in Slots, cells[t].key = Nil,
         \A m \in Slots :
           /\ cells'[m].key = (IF m = t THEN call.key ELSE cells[m].key)
           /\ cells'[m].val = (IF m = t THEN call.val ELSE cells[m].val)
  PROVE  Follows
<1>1. /\ StoreAgrees /\ HistoryTyped /\ Intact
      /\ call.op = "set" /\ call.val \in Value
  BY DEF IntactStep, DictInv, CallsInOrder
<1>2. pc' = "idle" /\ latest' = [latest EXCEPT ![call.key] = call.val]
  BY <1>1 DEF IntactStep, HNext, SetReturns, Return
<1>3. Dict!DNext
  BY <1>1, <1>2, SetIsAnswered DEF IntactStep
<1>4. \A k \in Key : HoldsIn(cells', k, latest'[k])
  BY <1>1, <1>2, HoldsPut
<1> QED
  BY <1>3, <1>4 DEF Follows

LEMMA FollowsMove ==
  ASSUME IntactStep, Unstrained, UNCHANGED hash, RelocateMove
  PROVE  Follows
<1>1. /\ TypeOK /\ KeyGiven /\ RelocationPlanned /\ Shaped(cells) /\ RelocatePlace
      /\ StoreAgrees /\ Intact
  BY DEF IntactStep, DictInv, ShapeInv, LinksInv, SoundInv, Intact
<1>2. /\ pc = "relocate" /\ Missing(idx) /\ UNCHANGED call /\ call.key \in Key
  BY <1>1 DEF RelocateMove, KeyGiven
<1>3. \A m \in Slots : cells[m].key # call.key
  BY <1>1, <1>2, AbsentByOverflow DEF RelocatePlace
<1>4. /\ idx \in Slots /\ to \in Slots /\ idx # to /\ cells[to].key = Nil
  BY <1>1, <1>2 DEF TypeOK, RelocatePlace, IsEmpty, Slots
<1>5. \A m \in Slots :
        /\ cells'[m].key = (IF m = idx THEN Nil
                            ELSE IF m = to THEN cells[idx].key
                            ELSE cells[m].key)
        /\ cells'[m].val = (IF m = idx THEN Nil
                            ELSE IF m = to THEN cells[idx].val
                            ELSE cells[m].val)
  BY <1>1, EntryMoved
<1>6. \A i \in Slots : cells[i].key # Nil =>
        \E j \in Slots : cells'[j].key = cells[i].key /\ cells'[j].val = cells[i].val
  BY <1>4, <1>5
<1>7. \A j \in Slots : cells'[j].key # Nil =>
        \E i \in Slots : cells'[j].key = cells[i].key
  BY <1>4, <1>5
<1>8. \A k \in Key : HoldsIn(cells', k, latest[k])
  BY <1>1, <1>6, <1>7, HoldsKept
<1> QED
  BY <1>2, <1>3, <1>8, FollowsMissing

LEMMA FollowsInsertHome ==
  ASSUME IntactStep, InsertHome
  PROVE  Follows
<1>1. TypeOK /\ KeyGiven
  BY DEF IntactStep, DictInv, ShapeInv, LinksInv
<1>2. /\ pc = "insert" /\ Return /\ UNCHANGED <<call, ret>> /\ call.key \in Key
      /\ idx \in Slots /\ cells[idx].key = Nil
      /\ cells' = [cells EXCEPT ![idx] = FreshEntry(call.key, call.val)]
  BY <1>1 DEF InsertHome, KeyGiven, IsEmpty, TypeOK
<1>3. \A m \in Slots :
        /\ cells'[m].key = (IF m = idx THEN call.key ELSE cells[m].key)
        /\ cells'[m].val = (IF m = idx THEN call.val ELSE cells[m].val)
  BY <1>1, <1>2 DEF TypeOK, FreshEntry
<1> QED
  BY <1>2, <1>3, FollowsInserted

LEMMA FollowsInsertOverflow ==
  ASSUME IntactStep, Unstrained, InsertOverflow
  PROVE  Follows
<1>1. TypeOK /\ KeyGiven
  BY DEF IntactStep, DictInv, ShapeInv, LinksInv
<1>2. /\ pc = "insert" /\ UNCHANGED <<call, ret>> /\ call.key \in Key
      /\ idx \in Slots /\ EmptyAbove(idx) # {}
  BY <1>1 DEF InsertOverflow, KeyGiven, IsEmpty, TypeOK, Unstrained, Strains
<1>3. /\ FindEmptyCell(idx) # {}
      /\ \A t \in FindEmptyCell(idx) : t \in Slots /\ t > idx /\ IsEmpty(t)
  BY <1>1, <1>2, AboveIsFound
<1>4. PICK t \in FindEmptyCell(idx) :
        /\ cells' = [cells EXCEPT ![t] = FreshEntry(call.key, call.val),
                                  ![idx].next = t - idx]
        /\ Return
  BY <1>3 DEF InsertOverflow, Distance
<1>5. t \in Slots /\ cells[t].key = Nil
  BY <1>3 DEF IsEmpty
<1>6. PICK e \in Entry : /\ e = FreshEntry(call.key, call.val)
                         /\ e.key = call.key /\ e.val = call.val
  <2>1. FreshEntry(call.key, call.val) \in Entry
    BY <1>1, <1>2 DEF TypeOK, FreshEntry, Entry
  <2> QED
    BY <2>1 DEF FreshEntry
<1>7. \A m \in Slots :
        /\ cells'[m].key = (IF m = t THEN call.key ELSE cells[m].key)
        /\ cells'[m].val = (IF m = t THEN call.val ELSE cells[m].val)
  <2>1. cells' = [cells EXCEPT ![t] = e, ![idx].next = t - idx]
    BY <1>4, <1>6
  <2>2. \A m \in Slots :
          /\ cells'[m].key = (IF m = t THEN e.key ELSE cells[m].key)
          /\ cells'[m].val = (IF m = t THEN e.val ELSE cells[m].val)
          /\ cells'[m].next = (IF m = idx THEN t - idx
                               ELSE IF m = t THEN e.next ELSE cells[m].next)
    BY <1>1, <1>5, <2>1, EntryLinked
  <2> QED
    BY <1>6, <2>2
<1> QED
  BY <1>2, <1>4, <1>5, <1>7, FollowsInserted

LEMMA FollowsWalk ==
  ASSUME IntactStep, Walk
  PROVE  Follows
<1>1. /\ TypeOK /\ KeyGiven /\ Shaped(cells) /\ WalkPlace /\ StoreAgrees /\ Intact
  BY DEF IntactStep, DictInv, ShapeInv, LinksInv, SoundInv, Intact
<1>2. /\ pc = "walk" /\ UNCHANGED call /\ call.key \in Key /\ idx \in Slots
  BY <1>1 DEF Walk, KeyGiven, TypeOK
<1>3. CASE cells[idx].next = 0 /\ Missing(idx) /\ UNCHANGED cells
  <2>1. \A m \in Slots : cells[m].key # call.key
    BY <1>1, <1>2, <1>3, AbsentAtEnd DEF WalkPlace, IsEmpty, Full
  <2>2. \A k \in Key : HoldsIn(cells', k, latest[k])
    BY <1>1, <1>3 DEF StoreAgrees
  <2> QED
    BY <1>2, <1>3, <2>1, <2>2, FollowsMissing
<1>4. CASE Fail("walk_range")
  BY <1>4 DEF IntactStep, Fail
<1>5. ASSUME NEW j \in Slots, cells[j].key = call.key, Found(j)
      PROVE  Follows
  BY <1>2, <1>5, FollowsFound
<1>6. CASE UNCHANGED <<cells, pc, to, cur, ret, fault>>
  BY <1>2, <1>6, FollowsInside
<1> QED
  BY <1>3, <1>4, <1>5, <1>6 DEF Walk

LEMMA FollowsFind ==
  ASSUME IntactStep, FindEmptySlot \/ FindOverflow \/ FindHead \/ FindChain
  PROVE  Follows
<1>1. /\ TypeOK /\ Shaped(cells) /\ StoreAgrees /\ Intact
  BY DEF IntactStep, DictInv, ShapeInv, LinksInv, SoundInv, Intact
<1>2. /\ pc = "find" /\ call.key \in Key /\ UNCHANGED call
      /\ Home(call.key) \in Slots
  BY <1>1, HomeIsSlot DEF FindEmptySlot, FindOverflow, FindHead, FindChain, TypeOK
<1>3. CASE FindEmptySlot
  <2>1. ~Full(cells, Home(call.key)) /\ Missing(Home(call.key)) /\ UNCHANGED cells
    BY <1>3 DEF FindEmptySlot, IsEmpty, Full
  <2>2. \A m \in Slots : cells[m].key # call.key
    BY <1>1, <1>2, <2>1, AbsentByHome
  <2>3. \A k \in Key : HoldsIn(cells', k, latest[k])
    BY <1>1, <2>1 DEF StoreAgrees
  <2> QED
    BY <1>2, <2>1, <2>2, <2>3, FollowsMissing
<1>4. CASE FindOverflow
  <2>1. pc' \in {"relocate", "aborted"} /\ UNCHANGED <<call, ret, cells>>
    BY <1>4 DEF FindOverflow, Fail
  <2> QED
    BY <1>2, <2>1, FollowsInside
<1>5. CASE FindHead
  BY <1>2, <1>5, FollowsFound DEF FindHead
<1>6. CASE FindChain
  <2>1. pc' = "walk" /\ UNCHANGED <<call, ret, cells>>
    BY <1>6 DEF FindChain
  <2> QED
    BY <1>2, <2>1, FollowsInside
<1> QED
  BY <1>3, <1>4, <1>5, <1>6

LEMMA FollowsCall ==
  ASSUME IntactStep, Call
  PROVE  Follows
<1>1. /\ pc = "idle" /\ pc' = "find" /\ ret' = Nil /\ UNCHANGED cells
      /\ call' \in Dict!Gets \cup Dict!Sets
  BY DEF Call, Get, Set, Dict!Gets, Dict!Sets
<1>2. latest' = latest
  BY <1>1 DEF IntactStep, HNext, SetReturns
<1>3. Dict!DNext
  BY <1>1, <1>2, AskIsAsk DEF IntactStep
<1> QED
  BY <1>1, <1>2, <1>3 DEF Follows, IntactStep, DictInv, StoreAgrees

LEMMA IntactFollows ==
  ASSUME DictInv, HNext, Intact'
  PROVE  Follows
<1>1. IntactStep /\ Unstrained /\ UNCHANGED hash
  BY IntactBefore
<1>2. Next
  BY DEF HNext
<1>3. CASE Call
  BY <1>1, <1>3, FollowsCall
<1>4. CASE FindNilKey \/ RelocateAssert \/ GrowReturns
  BY <1>1, <1>4 DEF IntactStep, FindNilKey, RelocateAssert, GrowReturns, Fail
<1>5. CASE FindEmptySlot \/ FindOverflow \/ FindHead \/ FindChain
  BY <1>1, <1>5, FollowsFind
<1>6. CASE Walk
  BY <1>1, <1>6, FollowsWalk
<1>7. CASE RelocateStep
  BY <1>1, <1>7, FollowsInside DEF RelocateStep
<1>8. CASE RelocateMove
  BY <1>1, <1>8, FollowsMove
<1>9. CASE InsertHome
  BY <1>1, <1>9, FollowsInsertHome
<1>10. CASE InsertOverflow
  BY <1>1, <1>10, FollowsInsertOverflow
<1>11. CASE Grow
  BY <1>1, <1>11 DEF Grow, IntactStep, Intact
<1>12. CASE Rehash \/ Halted
  BY <1>1, <1>12 DEF Rehash, Halted, IntactStep, DictInv, CallsInOrder
<1> QED
  BY <1>2, <1>3, <1>4, <1>5, <1>6, <1>7, <1>8, <1>9, <1>10, <1>11, <1>12
  DEF Next, Step

-----------------------------------------------------------------------------
(* The invariant of the refinement. *)

\* A call returns to the program only where no array is being rehashed.
LEMMA ReturnsAtTop ==
  ASSUME CallsInOrder, HNext, SetReturns
  PROVE  /\ depth = 0
         /\ call.val \in Value
<1>1. depth = 0
  BY DEF HNext, Next, SetReturns, Call, Get, Set, Step, FindNilKey, FindEmptySlot,
         FindOverflow, FindHead, FindChain, Walk, RelocateAssert, RelocateStep,
         RelocateMove, InsertHome, InsertOverflow, Grow, Rehash, GrowReturns,
         Halted, Found, Missing, Return, Fail
<1> QED
  BY <1>1 DEF SetReturns, CallsInOrder

LEMMA HistoryTypedStep ==
  ASSUME HistoryTyped, CallsInOrder, HNext
  PROVE  HistoryTyped'
<1>1. sound' \in BOOLEAN
  BY DEF HNext, HistoryTyped
<1>2. latest' \in [Key -> Value \cup {NotFound}]
  BY ReturnsAtTop DEF HNext, HistoryTyped
<1> QED
  BY <1>1, <1>2 DEF HistoryTyped

LEMMA DictInvStep ==
  ASSUME DictInv, [HNext]_hvars
  PROVE  DictInv' /\ [Dict!DNext]_(Dict!dvars)
<1>1. CASE UNCHANGED hvars
  <2>1. ShapeInv'
    BY LinksInvStep, SoundStep, <1>1 DEF DictInv, ShapeInv, hvars
  <2>2. UNCHANGED <<vars, latest, sound>>
    BY <1>1 DEF hvars
  <2>3. HistoryTyped' /\ CallsInOrder' /\ StoreAgrees'
    BY <2>2
    DEF vars, DictInv, HistoryTyped, CallsInOrder, StoreAgrees, HoldsIn, Intact,
        Slots
  <2>4. UNCHANGED Dict!dvars
    BY <2>2 DEF vars, Dict!dvars, Intact
  <2> QED
    BY <2>1, <2>3, <2>4 DEF DictInv
<1>2. CASE HNext
  <2>1. ShapeInv'
    <3>1. [Next]_vars
      BY <1>2 DEF HNext
    <3> QED
      BY <1>2, <3>1, LinksInvStep, SoundStep DEF DictInv, ShapeInv
  <2>2. HistoryTyped' /\ CallsInOrder'
    <3>1. TypeOK /\ Next
      BY <1>2 DEF HNext, DictInv, ShapeInv, LinksInv
    <3> QED
      BY <1>2, <3>1, HistoryTypedStep, CallsInOrderStep DEF DictInv
  <2>3. CASE Intact'
    <3>1. Follows
      BY <1>2, <2>3, IntactFollows
    <3>2. UNCHANGED <<size, hash>>
      <4>1. IntactStep
        BY <1>2, <2>3, IntactBefore
      <4>2. ~Grow
        BY <2>3, <4>1 DEF Grow, IntactStep, Intact
      <4> QED
        BY <1>2, <4>2
        DEF HNext, Next, Call, Get, Set, Step, FindNilKey, FindEmptySlot,
            FindOverflow, FindHead, FindChain, Walk, RelocateAssert, RelocateStep,
            RelocateMove, InsertHome, InsertOverflow, Rehash, GrowReturns, Halted
    <3>3. StoreAgrees'
      BY <3>1, <3>2 DEF Follows, StoreAgrees, HoldsIn, Slots
    <3> QED
      BY <2>1, <2>2, <3>1, <3>3 DEF Follows, DictInv
  <2>4. CASE ~Intact'
    <3>1. Intact' = FALSE
      BY <2>4 DEF Intact
    <3>2. Dict!DNext
      BY <3>1, BrokenIsBreak
    <3>3. StoreAgrees'
      BY <2>4 DEF StoreAgrees
    <3> QED
      BY <2>1, <2>2, <3>2, <3>3 DEF DictInv
  <2> QED
    BY <2>3, <2>4
<1> QED
  BY <1>1, <1>2

LEMMA InitDict == HInit => DictInv /\ Dict!DInit
<1> SUFFICES ASSUME HInit
             PROVE  DictInv /\ Dict!DInit
  OBVIOUS
<1>1. ShapeInv
  BY InitLinks, InitSound DEF HInit, ShapeInv
<1>2. \A i \in Slots : cells[i].key = Nil
  BY DEF HInit, Init, Slots, FreshCells, NoEntry
<1>3. HistoryTyped /\ CallsInOrder /\ StoreAgrees
  BY <1>2 DEF HInit, Init, HistoryTyped, CallsInOrder, StoreAgrees, HoldsIn
<1>4. Dict!DInit
  BY DEF HInit, Init, Dict!DInit, Dict!NoCall, Intact
<1> QED
  BY <1>1, <1>3, <1>4 DEF DictInv

\* A table is a dictionary until it is strained, grows or fails: every step of
\* Get, Set and FindSlot is a call or an answer of the dictionary or changes
\* nothing that a caller can see, and every answer is the value last stored.
THEOREM TableIsDictionary == HSpec => ImplementsDictionary
<1>1. HInit => DictInv /\ Dict!DInit
  BY InitDict
<1>2. DictInv /\ [HNext]_hvars => DictInv' /\ [Dict!DNext]_(Dict!dvars)
  BY DictInvStep
<1> QED
  BY <1>1, <1>2, PTL DEF HSpec, ImplementsDictionary, Dict!DSpec

-----------------------------------------------------------------------------
(***************************************************************************)
(* What a table does to its entries, strained or not.                      *)
(***************************************************************************)

In(c) == {[key |-> c[i].key, val |-> c[i].val] : i \in {j \in Slots : c[j].key # Nil}}

EntryAt(c, i) == [key |-> c[i].key, val |-> c[i].val]

\* Array d is c with the key and the value of a cell written.
Writes(c, d, i, k, v) ==
  /\ d[i].key = k /\ d[i].val = v
  /\ \A m \in Slots : m # i => d[m].key = c[m].key /\ d[m].val = c[m].val

InAfter(c, d, i, new) ==
  /\ c[i].key = Nil => In(d) = In(c) \cup {new}
  /\ c[i].key # Nil =>
       /\ EntryAt(c, i) \in In(c)
       /\ \/ In(d) = (In(c) \ {EntryAt(c, i)}) \cup {new}
          \/ In(d) = In(c) \cup {new}
       /\ (\A m \in Slots : c[m].key = c[i].key => m = i)
            => In(d) = (In(c) \ {EntryAt(c, i)}) \cup {new}

LEMMA InWritten ==
  ASSUME NEW c, NEW d, NEW i \in Slots, NEW k, NEW v, k # Nil,
         Writes(c, d, i, k, v)
  PROVE  InAfter(c, d, i, [key |-> k, val |-> v])
<1> DEFINE new == [key |-> k, val |-> v]
           Rest == {[key |-> c[m].key, val |-> c[m].val] :
                      m \in {j \in Slots : j # i /\ c[j].key # Nil}}
<1>1. In(d) = Rest \cup {new}
  BY DEF In, Writes
<1>2. c[i].key = Nil => In(c) = Rest
  BY DEF In
<1>3. c[i].key # Nil => In(c) = Rest \cup {EntryAt(c, i)}
  BY DEF In, EntryAt
<1>4. (\A m \in Slots : c[m].key = c[i].key => m = i) => EntryAt(c, i) \notin Rest
  BY DEF EntryAt
<1> HIDE DEF new, Rest
<1>5. c[i].key = Nil => In(d) = In(c) \cup {new}
  BY <1>1, <1>2
<1>6. c[i].key # Nil =>
         /\ EntryAt(c, i) \in In(c)
         /\ EntryAt(c, i) \in Rest => In(d) = In(c) \cup {new}
         /\ EntryAt(c, i) \notin Rest => In(d) = (In(c) \ {EntryAt(c, i)}) \cup {new}
  BY <1>1, <1>3
<1> QED
  BY <1>4, <1>5, <1>6 DEF new, InAfter

LEMMA InContents == Contents = In(cells) /\ (UNCHANGED size => Contents' = In(cells'))
BY DEF Contents, In, IsEmpty, Slots

-----------------------------------------------------------------------------
(* What the steps of a table are for TableCalls. *)

\* The table that TableCalls sees, whether it is alive, and its entries of the
\* key that is asked for.
Seen == [entries |-> Contents, room |-> remaining, strained |-> ~sound]

Alive == depth = 0 /\ fault = "none"

HeldNow == {e \in Contents : e.key = call.key}

Serves == /\ DictInv
          /\ HNext
          /\ Alive = TRUE /\ Alive' = TRUE
          /\ pc # "idle"
          /\ UNCHANGED <<call, size>>
          /\ call.key \in Key

\* An absent key is not held, and one in a cell is.
LEMMA HeldOrNot ==
  /\ (\A i \in Slots : cells[i].key # call.key) => HeldNow = {}
  /\ call.key # Nil => \A i \in Slots : cells[i].key = call.key =>
       /\ [key |-> call.key, val |-> cells[i].val] \in HeldNow
       /\ \A e \in HeldNow : e.key = call.key
BY DEF HeldNow, Contents, IsEmpty

\* A step that strains a table in order looks for a key that is not there, and
\* meets an entry of another.
LEMMA MeetsOthers ==
  ASSUME DictInv, HNext, pc # "idle", ~sound'
  PROVE  Calls!CanMeet(Seen, HeldNow)
<1>1. CASE ~sound
  BY <1>1 DEF Calls!CanMeet, Seen
<1>2. CASE sound
  <2>1. /\ TypeOK /\ Shaped(cells) /\ InsertPlace /\ Strains
    BY <1>2 DEF DictInv, ShapeInv, LinksInv, SoundInv, HNext
  <2>2. (\A i \in Slots : cells[i].key # call.key) /\ \E i \in Slots : ~IsEmpty(i)
    <3>1. CASE pc = "find"
      <4>1. /\ call.key \in Key /\ Home(call.key) \in Slots
            /\ ~IsEmpty(Home(call.key))
            /\ Home(cells[Home(call.key)].key) # Home(call.key)
        BY <2>1, <3>1, HomeIsSlot DEF Strains, TypeOK
      <4> QED
        BY <2>1, <4>1, AbsentByOverflow
    <3>2. CASE pc = "insert"
      BY <2>1, <3>2 DEF Strains, InsertPlace, TypeOK
    <3> QED
      BY <2>1, <3>1, <3>2 DEF Strains
  <2>3. HeldNow = {} /\ Contents # {}
    <3>1. PICK i \in Slots : ~IsEmpty(i)
      BY <2>2
    <3>2. [key |-> cells[i].key, val |-> cells[i].val] \in Contents
      BY <3>1 DEF Contents
    <3> QED
      BY <2>2, <3>2, HeldOrNot
  <2> QED
    BY <2>3 DEF Calls!CanMeet, Seen
<1> QED
  BY <1>1, <1>2

\* What the table may be after a step is what Table says of a search.
LEMMA StrainsAsSeen ==
  ASSUME DictInv, HNext, pc # "idle"
  PROVE  (~sound') \in Calls!Strains(Seen, HeldNow)
<1>1. sound \in BOOLEAN /\ (sound' => sound) /\ sound' \in BOOLEAN
  BY DEF DictInv, HistoryTyped, HNext
<1>2. CASE sound'
  BY <1>1, <1>2 DEF Calls!Strains, Seen
<1>3. CASE ~sound'
  <2>1. Calls!CanMeet(Seen, HeldNow) /\ (~sound') = TRUE
    BY <1>3, MeetsOthers
  <2> QED
    BY <2>1 DEF Calls!Strains
<1> QED
  BY <1>2, <1>3

LEMMA CallIsAsked ==
  ASSUME Alive = TRUE, Alive' = TRUE, HNext, Call
  PROVE  Calls!TNext
<1>1. /\ pc = "idle" /\ pc' = "find" /\ ret' = Nil /\ UNCHANGED <<cells, size, remaining>>
      /\ call' \in Calls!Gets \cup Calls!Sets
  BY DEF Call, Get, Set, Calls!Gets, Calls!Sets
<1>2. (~sound') = (~sound)
  BY <1>1 DEF HNext
<1>3. Seen' = Seen
  <2>1. Contents' = Contents
    BY <1>1, InContents
  <2> QED
    BY <1>1, <1>2, <2>1 DEF Seen
<1>4. Calls!Ask(call')
  BY <1>1, <1>3 DEF Calls!Ask, Calls!NoCall, Alive, Seen
<1> QED
  BY <1>1, <1>4 DEF Calls!TNext

LEMMA InsideIsSearch ==
  ASSUME Serves, pc' # "idle", UNCHANGED <<ret, remaining>>, Contents' = Contents
  PROVE  Calls!TNext
<1>1. (~sound') \in Calls!Strains(Seen, HeldNow)
  BY StrainsAsSeen DEF Serves
<1>2. Seen' = [Seen EXCEPT !.strained = ~sound']
  BY DEF Seen
<1>3. Seen' \in Calls!AfterGet(Seen, HeldNow)
  BY <1>1, <1>2 DEF Calls!AfterGet
<1>4. Calls!Held = HeldNow
  BY DEF Calls!Held, HeldNow, Serves, Seen
<1>5. Calls!Search
  BY <1>3, <1>4 DEF Calls!Search, Serves, Alive, Seen
<1> QED
  BY <1>5 DEF Calls!TNext

LEMMA GetAnswersAsSeen ==
  ASSUME Serves, pc' = "idle", call.op = "get", Seen' = Seen,
         ret' \in Calls!Answers(Seen, HeldNow, NotFound)
  PROVE  Calls!TNext
<1>1. Calls!Held = HeldNow
  BY DEF Calls!Held, HeldNow, Serves, Seen
<1>2. Calls!AnswerGet
  BY <1>1 DEF Calls!AnswerGet, Calls!NoCall, Serves, Alive, Seen
<1> QED
  BY <1>2 DEF Calls!TNext

LEMMA SetAnswersAsSeen ==
  ASSUME Serves, pc' = "idle", call.op = "set", UNCHANGED ret,
         Seen' \in Calls!AfterSet(Seen, HeldNow, call.key, call.val)
  PROVE  Calls!TNext
<1>1. Calls!Held = HeldNow
  BY DEF Calls!Held, HeldNow, Serves, Seen
<1>2. Calls!AnswerSet
  BY <1>1 DEF Calls!AnswerSet, Calls!NoCall, Serves, Alive, Seen
<1> QED
  BY <1>2 DEF Calls!TNext

\* A key that FindSlot found.
LEMMA FoundAsSeen ==
  ASSUME Serves, NEW i \in Slots, cells[i].key = call.key, Found(i),
         UNCHANGED remaining, pc \in {"find", "walk"}, sound' = sound
  PROVE  Calls!TNext
<1> DEFINE e   == [key |-> call.key, val |-> cells[i].val]
           new == [key |-> call.key, val |-> call.val]
<1>1. /\ pc' = "idle" /\ TypeOK /\ call.key # Nil
  BY DEF Found, Return, Serves, Alive, DictInv, ShapeInv, LinksInv
<1>2. e \in HeldNow /\ e.val = cells[i].val
  BY <1>1, HeldOrNot
<1>3. CASE call.op = "get" /\ ret' = cells[i].val /\ UNCHANGED cells
  <2>1. Seen' = Seen
    BY <1>3 DEF Seen, Contents, IsEmpty, Slots, Serves
  <2>2. ret' \in Calls!Answers(Seen, HeldNow, NotFound)
    BY <1>2, <1>3 DEF Calls!Answers
  <2> QED
    BY <1>1, <1>3, <2>1, <2>2, GetAnswersAsSeen
<1>4. CASE /\ call.op = "set" /\ UNCHANGED ret
           /\ cells' = [cells EXCEPT ![i].val = call.val]
  <2>1. \A m \in Slots :
          /\ cells'[m].key = cells[m].key
          /\ cells'[m].val = (IF m = i THEN call.val ELSE cells[m].val)
    BY <1>1, <1>4, ValueWritten DEF TypeOK
  <2>2. /\ \/ In(cells') = (In(cells) \ {e}) \cup {new}
           \/ In(cells') = In(cells) \cup {new}
        /\ (\A m \in Slots : cells[m].key = cells[i].key => m = i)
             => In(cells') = (In(cells) \ {e}) \cup {new}
    <3>1. Writes(cells, cells', i, call.key, call.val)
      BY <2>1 DEF Writes
    <3>2. InAfter(cells, cells', i, new)
      BY <1>1, <3>1, InWritten
    <3>3. e = EntryAt(cells, i)
      BY DEF EntryAt
    <3> HIDE DEF e, new
    <3> QED
      BY <1>1, <3>2, <3>3 DEF InAfter
  <2>3. sound => In(cells') = (In(cells) \ {e}) \cup {new}
    BY <1>1, <2>2 DEF Serves, DictInv, ShapeInv, SoundInv, Shaped, UniqueIn, Full
  <2>4. PICK others \in {Contents \ {e}} \cup IF ~sound THEN {Contents} ELSE {} :
          Contents' = others \cup {new}
    BY <2>2, <2>3, InContents DEF Serves
  <2>5. Seen' = [Seen EXCEPT !.entries = others \cup {new}]
    BY <2>4 DEF Seen
  <2>6. Seen.entries = Contents /\ Seen.strained = ~sound
    BY DEF Seen
  <2>7. Seen' \in Calls!Updates(Seen, HeldNow, call.val)
    <3> HIDE DEF e, new
    <3>1. Seen' \in {[Seen EXCEPT !.entries = o \cup {[key |-> e.key, val |-> call.val]}] :
                      o \in {Seen.entries \ {e}}
                            \cup IF Seen.strained THEN {Seen.entries} ELSE {}}
      BY <1>2, <2>4, <2>5, <2>6, HeldOrNot, <1>1, e.key = call.key DEF new
    <3> QED
      BY <1>2, <3>1 DEF Calls!Updates
  <2>8. Seen' \in Calls!AfterSet(Seen, HeldNow, call.key, call.val)
    BY <2>7 DEF Calls!AfterSet
  <2> QED
    BY <1>1, <1>4, <2>8, SetAnswersAsSeen
<1> QED
  BY <1>3, <1>4 DEF Found

\* A key that FindSlot did not find.
LEMMA MissingAsSeen ==
  ASSUME Serves, NEW i \in Slots, Missing(i), UNCHANGED remaining,
         Contents' = Contents, sound' = sound,
         sound => \A m \in Slots : cells[m].key # call.key
  PROVE  Calls!TNext
<1>1. CASE call.op = "get" /\ Return /\ ret' = NotFound
  <2>1. pc' = "idle" /\ Seen' = Seen
    BY <1>1 DEF Return, Serves, Alive, Seen
  <2>2. Calls!CanMiss(Seen, HeldNow)
    BY HeldOrNot DEF Calls!CanMiss, Seen
  <2>3. ret' \in Calls!Answers(Seen, HeldNow, NotFound)
    BY <1>1, <2>2 DEF Calls!Answers
  <2> QED
    BY <1>1, <2>1, <2>3, GetAnswersAsSeen
<1>2. CASE call.op = "set" /\ pc' = "insert" /\ UNCHANGED ret
  BY <1>2, InsideIsSearch
<1> QED
  BY <1>1, <1>2 DEF Missing

LEMMA InsertedIs ==
  ASSUME NEW E, NEW R, NEW S, NEW lost, NEW k, NEW v, NEW s
  PROVE  Calls!Inserted([entries |-> E, room |-> R, strained |-> S], lost, k, v, s)
           = [entries  |-> (E \ lost) \cup {[key |-> k, val |-> v]},
              room     |-> R - 1,
              strained |-> s]
<1> DEFINE t == [entries |-> E, room |-> R, strained |-> S]
           u == [entries |-> (E \ lost) \cup {[key |-> k, val |-> v]}, room |-> R, strained |-> S]
           w == [entries |-> (E \ lost) \cup {[key |-> k, val |-> v]}, room |-> R - 1, strained |-> S]
<1>1. [t EXCEPT !.entries = (t.entries \ lost) \cup {[key |-> k, val |-> v]}] = u
  OBVIOUS
<1>2. t.room = R
  OBVIOUS
<1>3. [u EXCEPT !.room = R - 1] = w
  OBVIOUS
<1>4. [w EXCEPT !.strained = s]
        = [entries  |-> (E \ lost) \cup {[key |-> k, val |-> v]},
           room     |-> R - 1,
           strained |-> s]
  <2>1. \A x, y : [[entries |-> x, room |-> y, strained |-> S] EXCEPT !.strained = s]
                   = [entries |-> x, room |-> y, strained |-> s]
    OBVIOUS
  <2> QED
    BY <2>1
<1> HIDE DEF t, u, w
<1>5. Calls!Inserted(t, lost, k, v, s) = [w EXCEPT !.strained = s]
  BY <1>1, <1>2, <1>3 DEF Calls!Inserted
<1> QED
  BY <1>4, <1>5 DEF t

\* An entry was added to the array.
LEMMA InsertedAsSeen ==
  ASSUME Serves, pc = "insert", remaining > 0, remaining' = remaining - 1,
         Return, UNCHANGED ret, NEW lost,
         lost = {} \/ (~sound' /\ \E e \in Contents : lost = {e}),
         Contents' = (Contents \ lost) \cup {[key |-> call.key, val |-> call.val]}
  PROVE  Calls!TNext
<1>1. pc' = "idle" /\ call.op = "set" /\ TypeOK
  BY DEF Return, Serves, Alive, DictInv, CallsInOrder, ShapeInv, LinksInv
<1>2. Calls!CanMiss(Seen, HeldNow) /\ Seen.room = remaining /\ Seen.entries = Contents
  <2>1. sound => \A m \in Slots : cells[m].key # call.key
    BY DEF Serves, DictInv, ShapeInv, SoundInv, InsertPlace
  <2> QED
    BY <2>1, HeldOrNot DEF Calls!CanMiss, Seen
<1>3. (~sound') \in Calls!Strains(Seen, HeldNow)
  BY StrainsAsSeen DEF Serves
<1>4. PICK s \in Calls!Strains(Seen, HeldNow) : s = ~sound'
  BY <1>3
<1>5. lost \in {{}} \cup IF s THEN {{e} : e \in Seen.entries} ELSE {}
  BY <1>2, <1>4
<1>6. Seen' = Calls!Inserted(Seen, lost, call.key, call.val, s)
  <2>1. Seen' = [entries |-> Contents', room |-> remaining', strained |-> s]
    BY <1>4 DEF Seen
  <2>2. Contents' = (Contents \ lost) \cup {[key |-> call.key, val |-> call.val]}
    OBVIOUS
  <2> QED
    BY <2>1, <2>2, InsertedIs DEF Seen
<1>7. Seen' \in Calls!Insertions(Seen, HeldNow, call.key, call.val)
  BY <1>4, <1>5, <1>6 DEF Calls!Insertions
<1>8. Seen' \in Calls!AfterSet(Seen, HeldNow, call.key, call.val)
  BY <1>2, <1>7 DEF Calls!AfterSet
<1> QED
  BY <1>1, <1>8, SetAnswersAsSeen

LEMMA InsertHomeAsSeen ==
  ASSUME Serves, InsertHome
  PROVE  Calls!TNext
<1>1. TypeOK
  BY DEF Serves, DictInv, ShapeInv, LinksInv
<1>2. idx \in Slots /\ cells[idx].key = Nil
  BY <1>1 DEF InsertHome, IsEmpty, TypeOK
<1>3. \A m \in Slots :
        /\ cells'[m].key = (IF m = idx THEN call.key ELSE cells[m].key)
        /\ cells'[m].val = (IF m = idx THEN call.val ELSE cells[m].val)
  BY <1>1, <1>2 DEF TypeOK, FreshEntry, InsertHome
<1>4. In(cells') = In(cells) \cup {[key |-> call.key, val |-> call.val]}
  <2>1. Writes(cells, cells', idx, call.key, call.val) /\ call.key # Nil
    BY <1>2, <1>3 DEF Serves, Writes
  <2>2. InAfter(cells, cells', idx, [key |-> call.key, val |-> call.val])
    BY <1>2, <2>1, InWritten
  <2> QED
    BY <1>2, <2>2 DEF InAfter
<1>5. Contents' = (Contents \ {}) \cup {[key |-> call.key, val |-> call.val]}
  BY <1>4, InContents DEF Serves
<1> QED
  BY <1>5, InsertedAsSeen DEF InsertHome

LEMMA InsertOverflowAsSeen ==
  ASSUME Serves, InsertOverflow
  PROVE  Calls!TNext
<1>1. TypeOK /\ sound \in BOOLEAN
  BY DEF Serves, DictInv, ShapeInv, LinksInv, HistoryTyped
<1>2. /\ pc = "insert" /\ remaining > 0 /\ remaining' = remaining - 1
      /\ idx \in Slots /\ ~IsEmpty(idx) /\ UNCHANGED ret
      /\ FindEmptyCell(idx) # {}
  BY <1>1 DEF InsertOverflow, TypeOK, Serves, Alive, Fail, EmptyCellFault
<1>3. PICK t \in FindEmptyCell(idx) :
        /\ cells' = [cells EXCEPT ![t] = FreshEntry(call.key, call.val),
                                  ![idx].next = t - idx]
        /\ Return
  BY <1>2 DEF InsertOverflow, Distance
<1>4. t \in Slots
  BY <1>1, <1>2, EmptyCellFacts
<1>5. ~IsEmpty(t) => EmptyAbove(idx) = {}
  <2>1. \/ t > idx /\ IsEmpty(t)
        \/ /\ t <= idx
           /\ \A j \in t .. size - 1 : ~IsEmpty(j)
    BY <1>1, <1>2, WhereCellsAre
  <2> QED
    BY <1>1, <1>2, <1>4, <2>1 DEF EmptyAbove, Slots, TypeOK
<1>6. ~IsEmpty(t) => ~sound'
  BY <1>2, <1>5 DEF Serves, HNext, Strains
<1>7. PICK e \in Entry : /\ e = FreshEntry(call.key, call.val)
                         /\ e.key = call.key /\ e.val = call.val
  <2>1. FreshEntry(call.key, call.val) \in Entry
    BY <1>1 DEF TypeOK, FreshEntry, Entry
  <2> QED
    BY <2>1 DEF FreshEntry
<1>8. \A m \in Slots :
        /\ cells'[m].key = (IF m = t THEN call.key ELSE cells[m].key)
        /\ cells'[m].val = (IF m = t THEN call.val ELSE cells[m].val)
  <2>1. cells' = [cells EXCEPT ![t] = e, ![idx].next = t - idx]
    BY <1>3, <1>7
  <2>2. \A m \in Slots :
          /\ cells'[m].key = (IF m = t THEN e.key ELSE cells[m].key)
          /\ cells'[m].val = (IF m = t THEN e.val ELSE cells[m].val)
          /\ cells'[m].next = (IF m = idx THEN t - idx
                               ELSE IF m = t THEN e.next ELSE cells[m].next)
    BY <1>1, <1>4, <2>1, EntryLinked
  <2> QED
    BY <1>7, <2>2
<1>9. PICK lost :
        /\ lost = {} \/ (~sound' /\ \E f \in Contents : lost = {f})
        /\ Contents' = (Contents \ lost) \cup {[key |-> call.key, val |-> call.val]}
  <2> DEFINE new == [key |-> call.key, val |-> call.val]
             was == EntryAt(cells, t)
  <2>1. InAfter(cells, cells', t, new)
    <3>1. Writes(cells, cells', t, call.key, call.val) /\ call.key # Nil
      BY <1>4, <1>8 DEF Serves, Writes
    <3> QED
      BY <1>4, <3>1, InWritten
  <2>2. Contents = In(cells) /\ Contents' = In(cells')
    BY InContents DEF Serves
  <2> HIDE DEF new, was
  <2>3. CASE In(cells') = In(cells) \cup {new}
    <3>1. Contents' = (Contents \ {}) \cup {new}
      BY <2>2, <2>3
    <3> QED
      BY <3>1 DEF new
  <2>4. CASE cells[t].key # Nil /\ In(cells') = (In(cells) \ {was}) \cup {new}
    <3>1. was \in Contents /\ ~sound' /\ Contents' = (Contents \ {was}) \cup {new}
      BY <1>6, <2>1, <2>2, <2>4 DEF IsEmpty, InAfter, was
    <3> QED
      BY <3>1 DEF new
  <2> QED
    BY <2>1, <2>3, <2>4 DEF InAfter, was
<1> QED
  BY <1>2, <1>3, <1>9, InsertedAsSeen

LEMMA MoveAsSeen ==
  ASSUME Serves, RelocateMove
  PROVE  Calls!TNext
<1>1. /\ LinksInv /\ TypeOK /\ SoundInv /\ pc = "relocate" /\ Missing(idx)
      /\ UNCHANGED remaining /\ sound' = sound /\ sound \in BOOLEAN
  BY DEF Serves, DictInv, ShapeInv, LinksInv, RelocateMove, HNext, HistoryTyped
<1>2. sound => \A m \in Slots : cells[m].key # call.key
  BY <1>1, AbsentByOverflow DEF Serves, SoundInv, RelocatePlace
<1>3. Contents' = Contents
  <2>1. In(cells') = In(cells)
    BY <1>1, EntryLeaves DEF In, IsEmpty
  <2> QED
    BY <2>1, InContents DEF Serves
<1>4. idx \in Slots
  BY <1>1 DEF TypeOK
<1> QED
  BY <1>1, <1>2, <1>3, <1>4, MissingAsSeen

LEMMA WalkAsSeen ==
  ASSUME Serves, Walk
  PROVE  Calls!TNext
<1>1. /\ TypeOK /\ SoundInv /\ pc = "walk" /\ UNCHANGED remaining /\ sound' = sound
      /\ idx \in Slots
  BY DEF Serves, DictInv, ShapeInv, LinksInv, HNext, HistoryTyped, Walk, TypeOK
<1>2. CASE cells[idx].next = 0 /\ Missing(idx) /\ UNCHANGED cells
  <2>1. sound => \A m \in Slots : cells[m].key # call.key
    BY <1>1, <1>2, AbsentAtEnd DEF Serves, SoundInv, WalkPlace, IsEmpty, Full
  <2>2. Contents' = Contents
    BY <1>2, InContents DEF Serves
  <2> QED
    BY <1>1, <1>2, <2>1, <2>2, MissingAsSeen
<1>3. CASE Fail("walk_range")
  BY <1>3 DEF Serves, Alive, Fail
<1>4. ASSUME NEW j \in Slots, cells[j].key = call.key, Found(j)
      PROVE  Calls!TNext
  BY <1>1, <1>4, FoundAsSeen
<1>5. CASE UNCHANGED <<cells, pc, to, cur, ret, fault>>
  <2>1. Contents' = Contents
    BY <1>5, InContents DEF Serves
  <2> QED
    BY <1>1, <1>5, <2>1, InsideIsSearch
<1> QED
  BY <1>2, <1>3, <1>4, <1>5 DEF Walk

LEMMA FindAsSeen ==
  ASSUME Serves, FindEmptySlot \/ FindOverflow \/ FindHead \/ FindChain
  PROVE  Calls!TNext
<1>1. /\ TypeOK /\ SoundInv /\ pc = "find" /\ UNCHANGED remaining
      /\ sound \in BOOLEAN /\ Home(call.key) \in Slots
      /\ ~Strains => sound' = sound
  BY HomeIsSlot
  DEF Serves, DictInv, ShapeInv, LinksInv, HNext, HistoryTyped, FindEmptySlot,
      FindOverflow, FindHead, FindChain
<1>2. CASE FindEmptySlot
  <2>1. ~Strains /\ Missing(Home(call.key)) /\ UNCHANGED cells
    BY <1>1, <1>2 DEF FindEmptySlot, Strains
  <2>2. sound => \A m \in Slots : cells[m].key # call.key
    BY <1>1, <1>2, AbsentByHome DEF FindEmptySlot, Serves, SoundInv, IsEmpty, Full
  <2>3. Contents' = Contents
    BY <2>1, InContents DEF Serves
  <2> QED
    BY <1>1, <2>1, <2>2, <2>3, MissingAsSeen
<1>3. CASE FindHead
  <2>1. ~Strains /\ Found(Home(call.key)) /\ cells[Home(call.key)].key = call.key
    BY <1>1, <1>3 DEF FindHead, Strains
  <2> QED
    BY <1>1, <2>1, FoundAsSeen
<1>4. CASE FindOverflow \/ FindChain
  <2>1. UNCHANGED <<cells, ret>> /\ pc' # "idle"
    BY <1>4 DEF FindOverflow, FindChain, Fail
  <2>2. Contents' = Contents
    BY <2>1, InContents DEF Serves
  <2> QED
    BY <1>1, <2>1, <2>2, InsideIsSearch
<1> QED
  BY <1>2, <1>3, <1>4

\* A step that an assertion stops, or that makes the table grow.
LEMMA StopsAsSeen ==
  ASSUME DictInv, HNext, SoundInv', Alive = TRUE, ~Alive'
  PROVE  Calls!TNext
<1>1. /\ TypeOK /\ CallsInOrder /\ SoundInv /\ sound \in BOOLEAN /\ Next
      /\ Alive' = FALSE
  BY DEF DictInv, ShapeInv, LinksInv, HNext, HistoryTyped, Alive
<1>2. pc # "idle" /\ pc # "rehash"
  <2>1. ~Call /\ ~Halted
    BY <1>1 DEF Call, Get, Set, Halted, Alive, CallsInOrder, growing
  <2> QED
    BY <1>1, <2>1
    DEF Next, Step, CallsInOrder, Alive, FindNilKey, FindEmptySlot, FindOverflow,
        FindHead, FindChain, Walk, RelocateAssert, RelocateStep, RelocateMove,
        InsertHome, InsertOverflow, Grow, Rehash, GrowReturns
<1>3. \/ call.key = Nil
      \/ Calls!CanFail(Seen, HeldNow)
      \/ call.op = "set" /\ Calls!CanGrow(Seen, HeldNow)
  <2>1. CASE Grow
    <3>1. sound => \A m \in Slots : cells[m].key # call.key
      BY <1>1, <2>1 DEF Grow, SoundInv, InsertPlace
    <3>2. Calls!CanMiss(Seen, HeldNow) /\ Seen.room = 0
      BY <2>1, <3>1, HeldOrNot DEF Calls!CanMiss, Seen, Grow
    <3> QED
      BY <1>1, <2>1, <3>2 DEF Calls!CanGrow, Grow, CallsInOrder
  <2>2. CASE FindNilKey
    BY <2>2 DEF FindNilKey
  <2>3. CASE ~Grow /\ ~FindNilKey
    <3>1. depth' = 0
      BY <1>1, <1>2, <2>3
      DEF Next, Call, Get, Set, Step, FindEmptySlot, FindOverflow, FindHead,
          FindChain, Walk, RelocateAssert, RelocateStep, RelocateMove, InsertHome,
          InsertOverflow, Rehash, GrowReturns, Halted, growing, Alive
    <3>2. fault' \notin {"none", "nil_key", "grow_returned"}
      <4>1. fault' # "none"
        BY <3>1 DEF Alive
      <4>2. RelocateAssert => fault' \notin {"nil_key", "grow_returned"}
        BY DEF RelocateAssert, Fail, RelocateFault
      <4>3. ~RelocateAssert => fault' \in {"none", "walk_range", "no_cell", "start_too_low"}
        BY <1>1, <1>2, <2>3
        DEF Next, Call, Get, Set, Step, FindEmptySlot, FindOverflow, FindHead,
            FindChain, Walk, RelocateStep, RelocateMove, InsertHome,
            InsertOverflow, Rehash, GrowReturns, Halted, Found, Missing, Return,
            Fail, EmptyCellFault, Alive
      <4> QED
        BY <4>1, <4>2, <4>3
    <3>3. ~sound'
      BY <3>2 DEF SoundInv
    <3> QED
      BY <1>2, <3>3, MeetsOthers DEF Calls!CanFail
  <2> QED
    BY <2>1, <2>2, <2>3
<1>4. Calls!Held = HeldNow
  BY <1>2 DEF Calls!Held, HeldNow, Seen
<1>5. call.op \in {"get", "set"}
  BY <1>1 DEF TypeOK
<1>6. Calls!Stop
  BY <1>1, <1>2, <1>3, <1>4, <1>5 DEF Calls!Stop, Calls!NoCall, Alive, Seen
<1> QED
  BY <1>6 DEF Calls!TNext

LEMMA ServesAsSeen ==
  ASSUME DictInv, HNext, Alive = TRUE, Alive' = TRUE
  PROVE  Calls!TNext
<1>1. TypeOK /\ KeyGiven /\ CallsInOrder /\ Next
  BY DEF DictInv, ShapeInv, LinksInv, HNext
<1>2. CASE Call
  BY <1>2, CallIsAsked
<1>3. CASE ~Call
  <2>1. ~FindNilKey /\ ~RelocateAssert /\ ~GrowReturns /\ ~Rehash /\ ~Halted /\ ~Grow
    BY <1>1
    DEF FindNilKey, RelocateAssert, GrowReturns, Rehash, Halted, Grow, Fail, Alive,
        CallsInOrder, TypeOK
  <2>2. Serves
    BY <1>1, <1>3, <2>1
    DEF Serves, Next, Step, FindEmptySlot, FindOverflow, FindHead, FindChain, Walk,
        RelocateStep, RelocateMove, InsertHome, InsertOverflow, KeyGiven, TypeOK
  <2>3. CASE FindEmptySlot \/ FindOverflow \/ FindHead \/ FindChain
    BY <2>2, <2>3, FindAsSeen
  <2>4. CASE Walk
    BY <2>2, <2>4, WalkAsSeen
  <2>5. CASE RelocateStep
    <3>1. /\ pc' # "idle" /\ UNCHANGED <<ret, remaining, cells>>
      BY <2>5 DEF RelocateStep
    <3>2. Contents' = Contents
      BY <2>2, <3>1, InContents DEF Serves
    <3> QED
      BY <2>2, <3>1, <3>2, InsideIsSearch
  <2>6. CASE RelocateMove
    BY <2>2, <2>6, MoveAsSeen
  <2>7. CASE InsertHome
    BY <2>2, <2>7, InsertHomeAsSeen
  <2>8. CASE InsertOverflow
    BY <2>2, <2>8, InsertOverflowAsSeen
  <2> QED
    BY <1>1, <1>3, <2>1, <2>3, <2>4, <2>5, <2>6, <2>7, <2>8 DEF Next, Step
<1> QED
  BY <1>2, <1>3

LEMMA TableStep ==
  ASSUME DictInv, [HNext]_hvars
  PROVE  [Calls!TNext]_(Calls!tvars)
<1>1. CASE UNCHANGED hvars
  <2>1. UNCHANGED Calls!tvars
    BY <1>1 DEF hvars, vars, Calls!tvars, Contents, IsEmpty, Slots
  <2> QED
    BY <2>1
<1>2. CASE HNext
  <2>1. SoundInv'
    BY <1>2, DictInvStep DEF DictInv, ShapeInv
  <2>2. CASE Alive /\ Alive'
    <3>1. Alive = TRUE /\ Alive' = TRUE
      BY <2>2 DEF Alive
    <3> QED
      BY <1>2, <3>1, ServesAsSeen
  <2>3. CASE Alive /\ ~Alive'
    <3>1. Alive = TRUE
      BY <2>3 DEF Alive
    <3> QED
      BY <1>2, <2>1, <2>3, <3>1, StopsAsSeen
  <2>4. CASE ~Alive
    <3>1. ~Alive'
      BY <1>2, <2>4, AliveBefore DEF HNext, DictInv, ShapeInv, LinksInv, Alive
    <3>2. Calls!Stopped
      BY <2>4, <3>1 DEF Calls!Stopped, Alive
    <3> QED
      BY <3>2 DEF Calls!TNext
  <2> QED
    BY <2>2, <2>3, <2>4
<1> QED
  BY <1>1, <1>2

\* Whatever becomes of a table's chains, it does to its entries what Table says:
\* it misses no key, meets no entry of another chain and loses nothing before it
\* is strained; and afterwards it answers only what it holds, loses an entry only
\* to an insertion, and never more than one.
THEOREM TableIsRefined == HSpec => ImplementsTable
<1>1. HInit => DictInv
  BY InitDict
<1>2. HInit => Calls!TInit
  <2> SUFFICES ASSUME HInit
               PROVE  Calls!TInit
    OBVIOUS
  <2>1. Contents = {}
    BY DEF HInit, Init, Contents, IsEmpty, Slots, FreshCells, NoEntry
  <2> QED
    BY <2>1 DEF HInit, Init, Calls!TInit, Calls!NoCall
<1>3. DictInv /\ [HNext]_hvars => DictInv' /\ [Calls!TNext]_(Calls!tvars)
  BY DictInvStep, TableStep
<1> QED
  BY <1>1, <1>2, <1>3, PTL DEF HSpec, ImplementsTable, Calls!TSpec

-----------------------------------------------------------------------------
(***************************************************************************)
(* What a table answers, strained or not.                                  *)
(***************************************************************************)

\* The pairs of an array were given by calls.
PairsGiven(c, n) ==
  \A i \in 0 .. n - 1 : c[i].key # Nil => <<c[i].key, c[i].val>> \in given

\* So were those of the array and of the one that is being rehashed, the pair
\* that the rehash is inserting, and the answer.
GivenInv == /\ LinksInv
            /\ CallsInOrder
            /\ PairsGiven(cells, size)
            /\ PairsGiven(frame.old, frame.sz)
            /\ depth > 0 /\ pc \in {"find", "walk", "relocate", "insert"} =>
                 <<call.key, call.val>> \in given
            /\ AnswersWereGiven

\* What a call has given is not taken back, and what a Set stores is given when
\* it returns.
LEMMA GivenGrows ==
  ASSUME HNext
  PROVE  /\ given \subseteq given'
         /\ SetReturns => <<call.key, call.val>> \in given'
BY DEF HNext

\* A step that neither calls, nor answers, nor changes the array.
LEMMA GivenKept ==
  ASSUME GivenInv, HNext, LinksInv', CallsInOrder',
         UNCHANGED <<size, frame, cells>>,
         pc' = "idle" /\ call'.op = "get" /\ ret' \notin {Nil, NotFound}
           => <<call'.key, ret'>> \in given',
         depth' > 0 /\ pc' \in {"find", "walk", "relocate", "insert"} =>
           <<call'.key, call'.val>> \in given'
  PROVE  GivenInv'
<1>1. given \subseteq given'
  BY GivenGrows
<1>2. PairsGiven(cells, size)' /\ PairsGiven(frame.old, frame.sz)'
  BY <1>1 DEF GivenInv, PairsGiven
<1> QED
  BY <1>2 DEF GivenInv, AnswersWereGiven

\* An answer of FindSlot that the key is there.
LEMMA GivenFound ==
  ASSUME GivenInv, HNext, LinksInv', CallsInOrder', NEW i \in Slots, Found(i),
         cells[i].key = call.key, call.key \in Key, pc # "idle",
         UNCHANGED <<size, frame, call, depth>>,
         pc \in {"find", "walk"}
  PROVE  GivenInv'
<1>1. given \subseteq given'
  BY GivenGrows
<1>2. <<call.key, cells[i].val>> \in given
  BY DEF GivenInv, PairsGiven, Slots
<1>3. pc' \in {"idle", "rehash"}
  BY DEF Found, Return
<1>4. CASE call.op = "get"
  <2>1. ret' = cells[i].val /\ UNCHANGED cells
    BY <1>4 DEF Found
  <2> QED
    BY <1>1, <1>2, <1>3, <2>1, GivenKept
<1>5. CASE call.op = "set"
  <2>1. cells' = [cells EXCEPT ![i].val = call.val]
    BY <1>5 DEF Found
  <2>2. \A m \in Slots :
          /\ cells'[m].key = cells[m].key
          /\ cells'[m].val = (IF m = i THEN call.val ELSE cells[m].val)
    BY <2>1, ValueWritten DEF GivenInv, LinksInv, TypeOK
  <2>3. <<call.key, call.val>> \in given'
    <3>1. CASE depth = 0
      BY <1>5, <3>1, GivenGrows DEF Found, Return, SetReturns
    <3>2. CASE depth # 0
      BY <1>1, <3>2 DEF GivenInv, LinksInv, TypeOK
    <3> QED
      BY <3>1, <3>2
  <2>4. PairsGiven(cells, size)'
    BY <1>1, <2>2, <2>3 DEF GivenInv, PairsGiven, Slots
  <2>5. PairsGiven(frame.old, frame.sz)'
    BY <1>1 DEF GivenInv, PairsGiven
  <2> QED
    BY <1>3, <1>5, <2>4, <2>5 DEF GivenInv, AnswersWereGiven
<1> QED
  BY <1>4, <1>5 DEF Found

\* The pair of the call has been put into cell t; if it overwrote another, that
\* one is gone.
LEMMA GivenInserted ==
  ASSUME GivenInv, HNext, LinksInv', CallsInOrder', NEW t \in Slots, Return,
         pc = "insert", UNCHANGED <<size, frame, call, depth, ret>>,
         \A m \in Slots :
           /\ cells'[m].key = (IF m = t THEN call.key ELSE cells[m].key)
           /\ cells'[m].val = (IF m = t THEN call.val ELSE cells[m].val)
  PROVE  GivenInv'
<1>1. given \subseteq given'
  BY GivenGrows
<1>2. call.op = "set" /\ pc' \in {"idle", "rehash"}
  BY DEF GivenInv, CallsInOrder, Return
<1>3. <<call.key, call.val>> \in given'
  <2>1. CASE depth = 0
    BY <1>2, <2>1, GivenGrows DEF Return, SetReturns
  <2>2. CASE depth # 0
    BY <1>1, <2>2 DEF GivenInv, LinksInv, TypeOK
  <2> QED
    BY <2>1, <2>2
<1>4. PairsGiven(cells, size)'
  BY <1>1, <1>3 DEF GivenInv, PairsGiven, Slots
<1>5. PairsGiven(frame.old, frame.sz)'
  BY <1>1 DEF GivenInv, PairsGiven
<1> QED
  BY <1>2, <1>4, <1>5 DEF GivenInv, AnswersWereGiven

LEMMA GivenMoved ==
  ASSUME GivenInv, HNext, LinksInv', CallsInOrder', RelocateMove
  PROVE  GivenInv'
<1>1. given \subseteq given'
  BY GivenGrows
<1>2. /\ pc = "relocate" /\ UNCHANGED <<size, call, depth, frame>>
      /\ pc' = "idle" /\ call.op = "get" => ret' = NotFound
      /\ pc' \in {"idle", "rehash", "insert"}
  BY DEF RelocateMove, Missing, Return, growing
<1>3. idx \in Slots /\ TypeOK
  BY DEF GivenInv, LinksInv, TypeOK
<1>4. \A m \in Slots :
        /\ cells'[m].key = (IF m = idx THEN Nil
                            ELSE IF m = to THEN cells[idx].key
                            ELSE cells[m].key)
        /\ cells'[m].val = (IF m = idx THEN Nil
                            ELSE IF m = to THEN cells[idx].val
                            ELSE cells[m].val)
  BY <1>3, EntryMoved
<1>5. PairsGiven(cells, size)'
  <2> SUFFICES ASSUME NEW m \in Slots, cells'[m].key # Nil
               PROVE  <<cells'[m].key, cells'[m].val>> \in given'
    BY <1>2 DEF PairsGiven, Slots
  <2>1. \A i \in Slots : cells[i].key # Nil => <<cells[i].key, cells[i].val>> \in given
    BY DEF GivenInv, PairsGiven, Slots
  <2> QED
    BY <1>1, <1>3, <1>4, <2>1
<1>6. PairsGiven(frame.old, frame.sz)'
  BY <1>1, <1>2 DEF GivenInv, PairsGiven
<1>7. depth' > 0 /\ pc' \in {"find", "walk", "relocate", "insert"} =>
        <<call'.key, call'.val>> \in given'
  BY <1>1, <1>2 DEF GivenInv
<1> QED
  BY <1>2, <1>5, <1>6, <1>7 DEF GivenInv, AnswersWereGiven

LEMMA GivenGrown ==
  ASSUME GivenInv, HNext, LinksInv', CallsInOrder', Grow
  PROVE  GivenInv'
<1>1. given \subseteq given'
  BY GivenGrows
<1>2. /\ pc' = "rehash" /\ cells' = FreshCells(2 * size) /\ size' = 2 * size
      /\ frame' = [old |-> cells, sz |-> size, i |-> 0]
  BY DEF Grow, Initialize
<1>3. PairsGiven(cells, size)'
  BY <1>2 DEF PairsGiven, FreshCells, NoEntry
<1>4. PairsGiven(frame.old, frame.sz)'
  BY <1>1, <1>2 DEF GivenInv, PairsGiven
<1> QED
  BY <1>2, <1>3, <1>4 DEF GivenInv, AnswersWereGiven

LEMMA GivenRehashed ==
  ASSUME GivenInv, HNext, LinksInv', CallsInOrder', Rehash
  PROVE  GivenInv'
<1>1. given \subseteq given'
  BY GivenGrows
<1>2. /\ pc' \in {"rehash", "find"} /\ UNCHANGED <<size, cells>>
      /\ pc' = "find" => /\ frame.old[frame.i].key # Nil
                         /\ call'.key = frame.old[frame.i].key
                         /\ call'.val = frame.old[frame.i].val
      /\ frame.i \in 0 .. frame.sz - 1
      /\ frame'.old = frame.old /\ frame'.sz = frame.sz
  BY DEF Rehash, GivenInv, LinksInv, TypeOK
<1>3. PairsGiven(cells, size)' /\ PairsGiven(frame.old, frame.sz)'
  BY <1>1, <1>2 DEF GivenInv, PairsGiven
<1>4. pc' = "find" => <<call'.key, call'.val>> \in given'
  BY <1>1, <1>2 DEF GivenInv, PairsGiven
<1> QED
  BY <1>2, <1>3, <1>4 DEF GivenInv, AnswersWereGiven

LEMMA GivenInvStep == GivenInv /\ [HNext]_hvars => GivenInv'
<1> SUFFICES ASSUME GivenInv, [HNext]_hvars
             PROVE  GivenInv'
  OBVIOUS
<1>1. CASE UNCHANGED hvars
  <2>1. LinksInv'
    BY <1>1, LinksInvStep DEF GivenInv, hvars
  <2>2. UNCHANGED <<vars, given>>
    BY <1>1 DEF hvars
  <2> QED
    BY <2>1, <2>2
    DEF vars, GivenInv, CallsInOrder, PairsGiven, AnswersWereGiven
<1>2. CASE HNext
  <2>1. Next /\ [Next]_vars
    BY <1>2 DEF HNext
  <2>2. LinksInv' /\ CallsInOrder'
    BY <2>1, LinksInvStep, CallsInOrderStep DEF GivenInv, LinksInv
  <2>3. TypeOK /\ KeyGiven
    BY DEF GivenInv, LinksInv
  <2>4. CASE Call
    <3>1. /\ pc' = "find" /\ UNCHANGED <<size, frame, cells, depth>>
          /\ depth = 0
      BY <2>4 DEF Call, Get, Set, growing, GivenInv, CallsInOrder
    <3> QED
      BY <1>2, <2>2, <3>1, GivenKept
  <2>5. CASE FindNilKey \/ RelocateAssert \/ GrowReturns
    <3>1. pc' = "aborted" /\ UNCHANGED <<size, frame, cells>>
      BY <2>5 DEF FindNilKey, RelocateAssert, GrowReturns, Fail, growing
    <3> QED
      BY <1>2, <2>2, <3>1, GivenKept
  <2>6. CASE FindEmptySlot \/ FindOverflow \/ FindChain \/ RelocateStep
    <3>1. /\ pc \in {"find", "relocate"} /\ UNCHANGED <<size, frame, cells, call, depth>>
          /\ pc' = "idle" /\ call.op = "get" => ret' = NotFound
      BY <2>6 DEF FindEmptySlot, FindOverflow, FindChain, RelocateStep, Missing,
                  Return, Fail, growing
    <3>2. given \subseteq given'
      BY <1>2, GivenGrows
    <3> QED
      BY <1>2, <2>2, <3>1, <3>2, GivenKept DEF GivenInv
  <2>7. CASE FindHead
    <3>1. /\ pc = "find" /\ call.key \in Key /\ Found(Home(call.key))
          /\ cells[Home(call.key)].key = call.key
          /\ UNCHANGED <<size, frame, call, depth>>
      BY <2>3, <2>7 DEF FindHead, TypeOK, growing
    <3>2. Home(call.key) \in Slots
      BY <2>3, <3>1, HomeIsSlot
    <3> QED
      BY <1>2, <2>2, <3>1, <3>2, GivenFound
  <2>8. CASE Walk
    <3>1. /\ pc = "walk" /\ UNCHANGED <<size, frame, call, depth>> /\ call.key \in Key
      BY <2>3, <2>8 DEF Walk, KeyGiven, growing
    <3>2. ASSUME NEW j \in Slots, cells[j].key = call.key, Found(j)
          PROVE  GivenInv'
      BY <1>2, <2>2, <3>1, <3>2, GivenFound
    <3>3. CASE /\ UNCHANGED cells
               /\ pc' = "idle" /\ call.op = "get" => ret' = NotFound
      <4>1. given \subseteq given'
        BY <1>2, GivenGrows
      <4> QED
        BY <1>2, <2>2, <3>1, <3>3, <4>1, GivenKept DEF GivenInv
    <3> QED
      BY <2>8, <3>1, <3>2, <3>3 DEF Walk, Missing, Fail, Return
  <2>9. CASE RelocateMove
    BY <1>2, <2>2, <2>9, GivenMoved
  <2>10. CASE InsertHome
    <3>1. /\ pc = "insert" /\ Return /\ UNCHANGED <<size, frame, call, depth, ret>>
          /\ idx \in Slots
          /\ cells' = [cells EXCEPT ![idx] = FreshEntry(call.key, call.val)]
      BY <2>3, <2>10 DEF InsertHome, TypeOK, growing
    <3>2. \A m \in Slots :
            /\ cells'[m].key = (IF m = idx THEN call.key ELSE cells[m].key)
            /\ cells'[m].val = (IF m = idx THEN call.val ELSE cells[m].val)
      BY <2>3, <3>1 DEF TypeOK, FreshEntry
    <3> QED
      BY <1>2, <2>2, <3>1, <3>2, GivenInserted
  <2>11. CASE InsertOverflow
    <3>1. /\ pc = "insert" /\ UNCHANGED <<size, frame, call, depth, ret>>
          /\ idx \in Slots /\ call.key \in Key
      BY <2>3, <2>11 DEF InsertOverflow, TypeOK, KeyGiven, growing, Slots
    <3>2. ASSUME NEW t \in FindEmptyCell(idx), Return,
                 cells' = [cells EXCEPT ![t] = FreshEntry(call.key, call.val),
                                        ![idx].next = t - idx]
          PROVE  GivenInv'
      <4>1. t \in Slots
        BY <2>3, <3>1, EmptyCellFacts
      <4>2. PICK e \in Entry : /\ e = FreshEntry(call.key, call.val)
                               /\ e.key = call.key /\ e.val = call.val
        <5>1. FreshEntry(call.key, call.val) \in Entry
          BY <2>3, <3>1 DEF TypeOK, FreshEntry, Entry
        <5> QED
          BY <5>1 DEF FreshEntry
      <4>3. \A m \in Slots :
              /\ cells'[m].key = (IF m = t THEN e.key ELSE cells[m].key)
              /\ cells'[m].val = (IF m = t THEN e.val ELSE cells[m].val)
              /\ cells'[m].next = (IF m = idx THEN t - idx
                                   ELSE IF m = t THEN e.next ELSE cells[m].next)
        <5>1. cells' = [cells EXCEPT ![t] = e, ![idx].next = t - idx]
          BY <3>2, <4>2
        <5> QED
          BY <2>3, <4>1, <5>1, EntryLinked
      <4>4. \A m \in Slots :
              /\ cells'[m].key = (IF m = t THEN call.key ELSE cells[m].key)
              /\ cells'[m].val = (IF m = t THEN call.val ELSE cells[m].val)
        BY <4>2, <4>3
      <4> QED
        BY <1>2, <2>2, <3>1, <3>2, <4>1, <4>4, GivenInserted
    <3>3. CASE Fail(EmptyCellFault(idx)) /\ UNCHANGED cells
      BY <1>2, <2>2, <3>1, <3>3, GivenKept DEF Fail
    <3> QED
      BY <2>11, <3>2, <3>3 DEF InsertOverflow, Distance
  <2>12. CASE Grow
    BY <1>2, <2>2, <2>12, GivenGrown
  <2>13. CASE Rehash
    BY <1>2, <2>2, <2>13, GivenRehashed
  <2>14. CASE Halted
    <3>1. UNCHANGED <<size, frame, cells, pc, call, depth, ret>> /\ pc = "aborted"
      BY <2>14 DEF Halted, growing
    <3> QED
      BY <1>2, <2>2, <3>1, GivenKept
  <2> QED
    BY <2>1, <2>4, <2>5, <2>6, <2>7, <2>8, <2>9, <2>10, <2>11, <2>12, <2>13, <2>14
    DEF Next, Step
<1> QED
  BY <1>1, <1>2

\* Whatever has become of its chains, a table answers a lookup with nothing, or
\* with a value that a Set stored under that key: no step of Set, Relocate or
\* Grow parts a value from its key.
THEOREM AnswersAreGiven == HSpec => []AnswersWereGiven
<1>1. HInit => GivenInv
  BY InitLinks
  DEF HInit, Init, GivenInv, CallsInOrder, PairsGiven, AnswersWereGiven,
      FreshCells, NoEntry
<1>2. GivenInv /\ [HNext]_hvars => GivenInv'
  BY GivenInvStep
<1>3. GivenInv => AnswersWereGiven
  BY DEF GivenInv
<1> QED
  BY <1>1, <1>2, <1>3, PTL DEF HSpec

-----------------------------------------------------------------------------
(***************************************************************************)
(* A table with room.  Where the hash function spreads the keys, none of   *)
(* what strains a table happens, and the array never fills up.             *)
(***************************************************************************)

SpreadKeys == /\ IsFiniteSet(Key)
              /\ SetKey \subseteq Key
              /\ \A f \in Hashes : Spreads(f)

\* The cells that are counted as empty are those that are, the array is the
\* first one, and nobody asks for nil.
Roomy == /\ size = InitSize
         /\ remaining = Cardinality(Empties)
         /\ pc \notin {"rehash", "aborted"}
         /\ pc # "idle" => call.key \in Key

IntactInv == ShapeInv /\ CallsInOrder /\ Intact /\ Roomy

LEMMA NoThreeAtHome ==
  ASSUME SpreadKeys, TypeOK, size = InitSize,
         NEW k \in Key, NEW l \in Key, NEW m \in Key,
         Home(k) = Home(l), Home(l) = Home(m)
  PROVE  k = l \/ l = m \/ k = m
BY DEF SpreadKeys, Spreads, TypeOK, Home

\* No key is stored twice, so full cells are no more than the keys they hold.
LEMMA CellsWithinKeys ==
  ASSUME Shaped(cells), NEW S \in SUBSET Slots, IsFiniteSet(S), NEW K, IsFiniteSet(K),
         \A i \in S : Full(cells, i) /\ cells[i].key \in K
  PROVE  ~(Cardinality(K) < Cardinality(S))
<1> SUFFICES ASSUME Cardinality(K) < Cardinality(S)
             PROVE  FALSE
  OBVIOUS
<1> DEFINE f == [i \in S |-> cells[i].key]
<1>1. f \in [S -> K]
  OBVIOUS
<1>2. PICK i, j \in S : i # j /\ f[i] = f[j]
  <2> HIDE DEF f
  <2> QED
    BY <1>1, FS_PigeonHole
<1>3. cells[i].key = cells[j].key /\ Full(cells, i)
  BY <1>2
<1> QED
  BY <1>2, <1>3 DEF Shaped, UniqueIn

\* As long as a key is missing, there is an empty cell among any that are as
\* many as the keys.
LEMMA RoomFrom ==
  ASSUME SpreadKeys, TypeOK, Shaped(cells),
         NEW k \in Key, \A i \in Slots : cells[i].key # k,
         NEW h \in Slots, h + Cardinality(Key) <= size
  PROVE  \E i \in h .. size - 1 : IsEmpty(i)
<1> SUFFICES ASSUME \A i \in h .. size - 1 : ~IsEmpty(i)
             PROVE  FALSE
  OBVIOUS
<1>1. h \in Nat /\ size \in Nat /\ h < size
  BY DEF TypeOK, Slots
<1>2. /\ IsFiniteSet(Key \ {k})
      /\ Cardinality(Key \ {k}) = Cardinality(Key) - 1
      /\ Cardinality(Key) \in Nat
  BY FS_RemoveElement, FS_CardinalityType DEF SpreadKeys
<1>3. /\ IsFiniteSet(h .. size - 1)
      /\ Cardinality(h .. size - 1) = size - h
  <2>1. h \in Int /\ size - 1 \in Int /\ ~(h > size - 1)
    BY <1>1
  <2>2. /\ IsFiniteSet(h .. size - 1)
        /\ Cardinality(h .. size - 1) = size - 1 - h + 1
    BY <2>1, FS_Interval
  <2> QED
    BY <1>1, <2>2
<1>4. h .. size - 1 \in SUBSET Slots
  BY <1>1 DEF Slots
<1>5. \A i \in h .. size - 1 : Full(cells, i) /\ cells[i].key \in Key \ {k}
  BY <1>4 DEF TypeOK, Entry, Full, IsEmpty
<1>6. ~(Cardinality(Key \ {k}) < Cardinality(h .. size - 1))
  BY <1>2, <1>3, <1>4, <1>5, CellsWithinKeys
<1> QED
  BY <1>1, <1>2, <1>3, <1>6

\* Above the home slot of a missing key there is room.
LEMMA RoomAboveHome ==
  ASSUME SpreadKeys, TypeOK, Shaped(cells), size = InitSize,
         NEW k \in Key, \A i \in Slots : cells[i].key # k,
         Full(cells, Home(k))
  PROVE  EmptyAbove(Home(k)) # {}
<1>1. Home(k) \in Slots /\ Home(k) \in Nat /\ size \in Nat
  BY HomeIsSlot DEF TypeOK, Slots
<1>2. Home(k) + Cardinality(Key) <= size
  BY DEF SpreadKeys, Spreads, TypeOK, Home
<1>3. PICK i \in Home(k) .. size - 1 : IsEmpty(i)
  BY <1>1, <1>2, RoomFrom
<1>4. i # Home(k)
  BY <1>3 DEF Full, IsEmpty
<1>5. i \in Home(k) + 1 .. size - 1
  BY <1>1, <1>4
<1> QED
  BY <1>3, <1>5 DEF EmptyAbove

\* While a key is missing the capacity is not used up.
LEMMA RoomLeft ==
  ASSUME SpreadKeys, TypeOK, Shaped(cells), size = InitSize,
         NEW k \in Key, \A i \in Slots : cells[i].key # k
  PROVE  Cardinality(Empties) # 0
<1>1. Home(k) \in Slots
  BY HomeIsSlot
<1>2. Home(k) + Cardinality(Key) <= size
  BY DEF SpreadKeys, Spreads, TypeOK, Home
<1>3. PICK i \in Home(k) .. size - 1 : IsEmpty(i)
  BY <1>1, <1>2, RoomFrom
<1>4. i \in Empties
  BY <1>1, <1>3 DEF Empties, Slots, TypeOK
<1> QED
  BY <1>4, EmptiesCounted, FS_EmptySet

\* The entry in the way of a missing key ends its chain: it has a head below it,
\* and with a successor they would be three.
LEMMA InTheWayIsLast ==
  ASSUME SpreadKeys, TypeOK, Shaped(cells), size = InitSize, NEW h \in Slots,
         Full(cells, h), Home(cells[h].key) # h
  PROVE  cells[h].next = 0
<1> SUFFICES ASSUME cells[h].next # 0
             PROVE  FALSE
  OBVIOUS
<1>0. h \in Nat /\ cells[h].next \in Int
  BY ArrayFacts DEF TypeOK
<1>1. PICK n \in Slots : n > h /\ Akin(cells, h, n)
  BY <1>0 DEF Shaped, LinkedIn
<1>2. PICK g \in Slots : g < h /\ Akin(cells, g, h)
  <2>1. /\ Home(cells[h].key) <= h
        /\ Akin(cells, Home(cells[h].key), h)
    BY DEF Shaped, HeadedIn
  <2>2. Home(cells[h].key) \in Slots /\ Home(cells[h].key) \in Nat
    BY ArrayFacts DEF TypeOK, Slots
  <2> QED
    BY <1>0, <2>1, <2>2
<1>3. n # h /\ g # h /\ n # g
  BY <1>0, <1>1, <1>2 DEF Slots, TypeOK
<1>4. /\ cells[n].key \in Key /\ cells[h].key \in Key /\ cells[g].key \in Key
      /\ Full(cells, n) /\ Full(cells, h) /\ Full(cells, g)
  BY <1>1, <1>2, ArrayFacts DEF TypeOK, Akin
<1>5. \/ cells[g].key = cells[h].key \/ cells[h].key = cells[n].key
      \/ cells[g].key = cells[n].key
  BY <1>1, <1>2, <1>4, NoThreeAtHome DEF Akin
<1> QED
  BY <1>3, <1>4, <1>5 DEF Shaped, UniqueIn

\* The entry that a missing key is linked behind is the head of their chain.
LEMMA BehindTheHead ==
  ASSUME SpreadKeys, TypeOK, Shaped(cells), size = InitSize,
         NEW k \in Key, \A i \in Slots : cells[i].key # k,
         NEW e \in Slots, Full(cells, e), Home(cells[e].key) = Home(k)
  PROVE  e = Home(k)
<1>1. Home(k) \in Slots /\ Akin(cells, Home(k), e)
  BY HomeIsSlot DEF Shaped, HeadedIn
<1>2. /\ cells[Home(k)].key \in Key /\ cells[e].key \in Key
      /\ Home(cells[Home(k)].key) = Home(cells[e].key)
  BY <1>1, ArrayFacts DEF TypeOK, Akin
<1>3. cells[Home(k)].key = cells[e].key
  BY <1>1, <1>2, NoThreeAtHome
<1> QED
  BY <1>1, <1>3 DEF Shaped, UniqueIn, Akin

LEMMA NeverStrains ==
  ASSUME SpreadKeys, IntactInv
  PROVE  ~Strains
<1>1. /\ TypeOK /\ Shaped(cells) /\ InsertPlace /\ size = InitSize
      /\ pc # "idle" => call.key \in Key
  BY DEF IntactInv, Intact, Roomy, ShapeInv, LinksInv, SoundInv
<1>2. ASSUME pc = "find", ~IsEmpty(Home(call.key)),
             Home(cells[Home(call.key)].key) # Home(call.key)
      PROVE  /\ EmptyAbove(Home(call.key)) # {}
             /\ cells[Home(call.key)].next = 0
  <2>1. /\ call.key \in Key /\ Home(call.key) \in Slots
        /\ Full(cells, Home(call.key))
    BY <1>1, <1>2, HomeIsSlot DEF IsEmpty, Full
  <2>2. \A i \in Slots : cells[i].key # call.key
    BY <1>1, <1>2, <2>1, AbsentByOverflow
  <2> QED
    BY <1>1, <1>2, <2>1, <2>2, RoomAboveHome, InTheWayIsLast
<1>3. ASSUME pc = "insert", ~IsEmpty(idx)
      PROVE  EmptyAbove(idx) # {}
  <2>1. /\ call.key \in Key /\ idx \in Slots /\ Full(cells, idx)
        /\ \A i \in Slots : cells[i].key # call.key
        /\ Home(cells[idx].key) = Home(call.key)
    BY <1>1, <1>3 DEF TypeOK, InsertPlace, IsEmpty, Full
  <2>2. idx = Home(call.key)
    BY <1>1, <2>1, BehindTheHead
  <2> QED
    BY <1>1, <2>1, <2>2, RoomAboveHome
<1> QED
  BY <1>2, <1>3 DEF Strains

\* Hence it does not grow either.
LEMMA NeverGrows ==
  ASSUME SpreadKeys, IntactInv
  PROVE  ~Grow
<1> SUFFICES ASSUME pc = "insert", remaining = 0
             PROVE  FALSE
  BY DEF Grow
<1>1. /\ TypeOK /\ Shaped(cells) /\ size = InitSize /\ call.key \in Key
      /\ \A i \in Slots : cells[i].key # call.key
      /\ remaining = Cardinality(Empties)
  BY DEF IntactInv, Intact, Roomy, ShapeInv, LinksInv, SoundInv, InsertPlace
<1> QED
  BY <1>1, RoomLeft

\* Filling an empty cell costs an empty cell.
LEMMA FillingCounts ==
  ASSUME TypeOK, UNCHANGED size, NEW t \in Slots, IsEmpty(t),
         \A m \in Slots : m # t => cells'[m].key = cells[m].key,
         cells'[t].key # Nil
  PROVE  Cardinality(Empties') = Cardinality(Empties) - 1
<1>1. Empties' = Empties \ {t} /\ t \in Empties
  BY DEF Empties, IsEmpty, Slots
<1>2. IsFiniteSet(Empties)
  BY EmptiesCounted
<1> QED
  BY <1>1, <1>2, FS_RemoveElement

\* A step that leaves every key where it is.
LEMMA CountKept ==
  ASSUME TypeOK, Roomy, UNCHANGED <<size, remaining>>,
         \A m \in Slots : cells'[m].key = cells[m].key
  PROVE  size' = InitSize /\ remaining' = Cardinality(Empties')
<1>1. Empties' = Empties
  BY DEF Empties, IsEmpty, Slots
<1> QED
  BY <1>1 DEF Roomy

LEMMA CountFound ==
  ASSUME TypeOK, Roomy, UNCHANGED <<size, remaining>>, NEW i \in Slots, Found(i)
  PROVE  size' = InitSize /\ remaining' = Cardinality(Empties')
<1>1. CASE UNCHANGED cells
  BY <1>1, CountKept
<1>2. CASE cells' = [cells EXCEPT ![i].val = call.val]
  <2>1. \A m \in Slots : cells'[m].key = cells[m].key
    BY <1>2, ValueWritten DEF TypeOK
  <2> QED
    BY <2>1, CountKept
<1> QED
  BY <1>1, <1>2 DEF Found

LEMMA CountInsertHome ==
  ASSUME TypeOK, KeyGiven, Roomy, InsertHome
  PROVE  size' = InitSize /\ remaining' = Cardinality(Empties')
<1>1. /\ idx \in Slots /\ IsEmpty(idx) /\ call.key # Nil /\ UNCHANGED size
      /\ remaining' = remaining - 1
  BY DEF InsertHome, TypeOK, KeyGiven
<1>2. /\ \A m \in Slots : m # idx => cells'[m].key = cells[m].key
      /\ cells'[idx].key = call.key
  BY <1>1 DEF InsertHome, TypeOK, FreshEntry
<1> QED
  BY <1>1, <1>2, FillingCounts DEF Roomy

LEMMA CountInsertOverflow ==
  ASSUME TypeOK, KeyGiven, Roomy, Unstrained, InsertOverflow
  PROVE  size' = InitSize /\ remaining' = Cardinality(Empties')
<1>1. /\ pc = "insert" /\ EmptyAbove(idx) # {}
      /\ idx \in Slots /\ UNCHANGED size /\ call.key \in Key
      /\ remaining' = remaining - 1
  BY DEF InsertOverflow, Unstrained, Strains, TypeOK, KeyGiven
<1>2. /\ FindEmptyCell(idx) # {}
      /\ \A t \in FindEmptyCell(idx) : t \in Slots /\ t > idx /\ IsEmpty(t)
  BY <1>1, AboveIsFound
<1>3. PICK t \in FindEmptyCell(idx) :
        cells' = [cells EXCEPT ![t] = FreshEntry(call.key, call.val),
                               ![idx].next = t - idx]
  BY <1>2 DEF InsertOverflow, Distance
<1>4. t \in Slots /\ IsEmpty(t)
  BY <1>2
<1>5. PICK e \in Entry : e = FreshEntry(call.key, call.val) /\ e.key = call.key
  <2>1. FreshEntry(call.key, call.val) \in Entry
    BY <1>1 DEF TypeOK, FreshEntry, Entry
  <2> QED
    BY <2>1 DEF FreshEntry
<1>6. \A m \in Slots :
        /\ cells'[m].key = (IF m = t THEN e.key ELSE cells[m].key)
        /\ cells'[m].val = (IF m = t THEN e.val ELSE cells[m].val)
        /\ cells'[m].next = (IF m = idx THEN t - idx
                             ELSE IF m = t THEN e.next ELSE cells[m].next)
  <2>1. cells' = [cells EXCEPT ![t] = e, ![idx].next = t - idx]
    BY <1>3, <1>5
  <2> QED
    BY <1>4, <2>1, EntryLinked
<1> QED
  BY <1>1, <1>4, <1>5, <1>6, FillingCounts DEF Roomy

LEMMA RoomyStep ==
  ASSUME SpreadKeys, IntactInv, HNext, CallsInOrder'
  PROVE  /\ size' = InitSize
         /\ remaining' = Cardinality(Empties')
         /\ pc' # "rehash"
         /\ pc' # "idle" => call'.key \in Key
<1>1. /\ LinksInv /\ TypeOK /\ KeyGiven /\ Roomy /\ SoundInv /\ sound /\ depth = 0
      /\ pc \notin {"rehash", "aborted"}
      /\ pc # "idle" => call.key \in Key
      /\ Next
  BY DEF IntactInv, Intact, Roomy, ShapeInv, LinksInv, HNext
<1>2. ~Grow /\ ~Strains /\ Unstrained
  BY <1>1, NeverGrows, NeverStrains DEF Unstrained
<1>3. pc' # "rehash"
  BY <1>1, <1>2
  DEF Next, Call, Get, Set, Step, FindNilKey, FindEmptySlot, FindOverflow,
      FindHead, FindChain, Walk, RelocateAssert, RelocateStep, RelocateMove,
      InsertHome, InsertOverflow, Rehash, GrowReturns, Halted, Found, Missing,
      Return, Fail
<1>4. pc' # "idle" => call'.key \in Key
  <2>1. CASE Call
    BY <2>1 DEF Call, Get, Set, SpreadKeys
  <2>2. CASE ~Call
    <3>1. UNCHANGED call /\ pc # "idle"
      BY <1>1, <1>2, <2>2
      DEF Next, Step, FindNilKey, FindEmptySlot, FindOverflow,
          FindHead, FindChain, Walk, RelocateAssert, RelocateStep, RelocateMove,
          InsertHome, InsertOverflow, Rehash, GrowReturns, Halted
    <3> QED
      BY <1>1, <3>1
  <2> QED
    BY <2>1, <2>2
<1>5. size' = InitSize /\ remaining' = Cardinality(Empties')
  <2>1. CASE UNCHANGED <<size, remaining, cells>>
    BY <1>1, <2>1, CountKept
  <2>2. CASE FindHead
    <3>1. Home(call.key) \in Slots
      BY <1>1, <2>2, HomeIsSlot DEF FindHead
    <3> QED
      BY <1>1, <2>2, <3>1, CountFound DEF FindHead
  <2>3. CASE Walk
    BY <1>1, <2>1, <2>3, CountFound DEF Walk
  <2>4. CASE RelocateMove
    BY <1>1, <2>4, MoveKeepsCount DEF RelocateMove, Roomy
  <2>5. CASE InsertHome
    BY <1>1, <2>5, CountInsertHome
  <2>6. CASE InsertOverflow
    BY <1>1, <1>2, <2>6, CountInsertOverflow
  <2> QED
    BY <1>1, <1>2, <2>1, <2>2, <2>3, <2>4, <2>5, <2>6
    DEF Next, Call, Get, Set, Step, FindNilKey, FindEmptySlot, FindOverflow,
        FindChain, RelocateAssert, RelocateStep, Rehash, GrowReturns, Halted
<1> QED
  BY <1>3, <1>4, <1>5

LEMMA IntactInvStep ==
  ASSUME SpreadKeys, IntactInv, [HNext]_hvars
  PROVE  IntactInv'
<1>1. CASE UNCHANGED hvars
  <2>1. ShapeInv'
    BY <1>1, LinksInvStep, SoundStep DEF IntactInv, ShapeInv, hvars
  <2>2. UNCHANGED <<vars, sound>>
    BY <1>1 DEF hvars
  <2> QED
    BY <2>1, <2>2
    DEF vars, IntactInv, CallsInOrder, Intact, Roomy, Empties, IsEmpty, Slots
<1>2. CASE HNext
  <2>1. /\ LinksInv /\ TypeOK /\ SoundInv /\ sound /\ depth = 0 /\ fault = "none"
        /\ pc \notin {"rehash", "aborted"} /\ Next
        /\ pc # "idle" => call.key \in Key
    BY <1>2 DEF IntactInv, Intact, Roomy, ShapeInv, LinksInv, HNext
  <2>2. ShapeInv' /\ CallsInOrder'
    <3>1. [Next]_vars
      BY <2>1
    <3> QED
      BY <1>2, <2>1, <3>1, LinksInvStep, SoundStep, CallsInOrderStep
      DEF ShapeInv, IntactInv
  <2>3. ~Grow /\ sound'
    BY <1>2, <2>1, NeverGrows, NeverStrains DEF HNext
  <2>4. depth' = 0
    BY <2>1, <2>3
    DEF Next, Call, Get, Set, Step, FindNilKey, FindEmptySlot, FindOverflow,
        FindHead, FindChain, Walk, RelocateAssert, RelocateStep, RelocateMove,
        InsertHome, InsertOverflow, Rehash, GrowReturns, Halted, growing
  <2>5. fault' = "none"
    <3>1. fault' \in {"none", "nil_key", "grow_returned"}
      BY <2>2, <2>3 DEF ShapeInv, SoundInv
    <3>2. ~FindNilKey /\ ~GrowReturns
      BY <2>1 DEF FindNilKey, GrowReturns
    <3>3. CASE RelocateAssert
      BY <2>1, <3>3, SearchOnChain DEF RelocateAssert, SoundInv
    <3>4. CASE ~RelocateAssert
      BY <2>1, <2>3, <3>1, <3>2, <3>4
      DEF Next, Call, Get, Set, Step, FindEmptySlot, FindOverflow, FindHead,
          FindChain, Walk, RelocateStep, RelocateMove, InsertHome, InsertOverflow,
          Rehash, Halted, Found, Missing, Return, Fail, EmptyCellFault
    <3> QED
      BY <3>3, <3>4
  <2>6. pc' # "aborted"
    BY <2>2, <2>5 DEF CallsInOrder
  <2>7. Roomy'
    BY <1>2, <2>2, <2>6, RoomyStep DEF Roomy
  <2> QED
    BY <2>2, <2>3, <2>4, <2>5, <2>7 DEF IntactInv, Intact
<1> QED
  BY <1>1, <1>2

LEMMA InitIntact == HInit => IntactInv
<1> SUFFICES ASSUME HInit
             PROVE  IntactInv
  OBVIOUS
<1>1. ShapeInv /\ CallsInOrder
  BY InitLinks, InitSound, InitCalls DEF HInit, ShapeInv
<1>2. Empties = 0 .. InitSize - 1
  BY DEF HInit, Init, Empties, Slots, IsEmpty, FreshCells, NoEntry
<1>3. Cardinality(Empties) = InitSize
  BY <1>2, FS_Interval
<1> QED
  BY <1>1, <1>3 DEF HInit, Init, IntactInv, Intact, Roomy

\* Where the hash function sends at most two keys to a slot and leaves room for
\* all of them from each home slot up, FindEmptyCell never searches down, Relocate
\* never moves an entry that has a successor, Set never has to grow, and no
\* assertion fails, whatever is called, and however often.
THEOREM SpreadKeysStayIntact == SpreadKeys => (HSpec => []Intact)
<1> SUFFICES ASSUME SpreadKeys
             PROVE  HSpec => []Intact
  OBVIOUS
<1>1. HInit => IntactInv
  BY InitIntact
<1>2. IntactInv /\ [HNext]_hvars => IntactInv'
  BY IntactInvStep
<1>3. IntactInv => Intact
  BY DEF IntactInv
<1> QED
  BY <1>1, <1>2, <1>3, PTL DEF HSpec

Unbroken == \/ \E c \in Dict!Gets \cup Dict!Sets : Dict!Ask(c)
            \/ Dict!AnswerGet
            \/ Dict!AnswerSet

\* Such a table is a dictionary that never breaks: what a lookup answers is
\* what was last stored under the key, or nullptr if nothing was, for ever.
THEOREM SpreadKeysNeverBreak ==
  SpreadKeys => (HSpec => Dict!DInit /\ [][Unbroken]_(Dict!dvars))
<1> SUFFICES ASSUME SpreadKeys
             PROVE  HSpec => Dict!DInit /\ [][Unbroken]_(Dict!dvars)
  OBVIOUS
<1>1. HInit => DictInv /\ Dict!DInit /\ IntactInv
  BY InitDict, InitIntact
<1>2. DictInv /\ IntactInv /\ [HNext]_hvars => DictInv' /\ IntactInv'
  BY DictInvStep, IntactInvStep
<1>3. DictInv /\ IntactInv /\ [HNext]_hvars => [Unbroken]_(Dict!dvars)
  <2> SUFFICES ASSUME DictInv, IntactInv, [HNext]_hvars
               PROVE  [Unbroken]_(Dict!dvars)
    OBVIOUS
  <2>1. [Dict!DNext]_(Dict!dvars)
    BY DictInvStep
  <2>2. Intact' = TRUE
    BY IntactInvStep DEF IntactInv, Intact
  <2> QED
    BY <2>1, <2>2 DEF Dict!DNext, Dict!Break, Unbroken
<1> QED
  BY <1>1, <1>2, <1>3, PTL DEF HSpec

-----------------------------------------------------------------------------
(***************************************************************************)
(* How far the claims of the code are kept that do not hold of every       *)
(* table.                                                                  *)
(***************************************************************************)

\* RefArray.cpp:25, 27, 29, 30: in a table that was never strained the chain of
\* the home slot of an entry leads to that entry.
THEOREM SoundChainsLead == HSpec => [](sound => EntriesOnTheirChains)
<1>1. SoundFaults => (sound => EntriesOnTheirChains)
  BY DEF SoundFaults, EntriesOnTheirChains
<1> QED
  BY <1>1, OnlyKnownFaults, PTL

\* Hashtable.cpp:84: a Set that does not strain the table writes to a free slot.
THEOREM SoundSlotsAreFree == HSpec => [][sound' => TakesFreeSlot]_hvars
<1>1. ASSUME ShapeInv, HNext, sound', NEW i \in Slots,
             pc = "insert", pc' = "idle", ~IsEmpty(i)
      PROVE  cells'[i].key = cells[i].key
  <2>1. /\ TypeOK /\ KeyGiven /\ Unstrained /\ idx \in Slots /\ call.key \in Key
    BY <1>1 DEF ShapeInv, LinksInv, TypeOK, KeyGiven, HNext, Unstrained
  <2>2. CASE InsertHome
    BY <1>1, <2>1, <2>2 DEF InsertHome, TypeOK
  <2>3. CASE InsertOverflow
    <3>1. EmptyAbove(idx) # {}
      BY <1>1, <2>1, <2>3 DEF InsertOverflow, Unstrained, Strains
    <3>2. PICK t \in FindEmptyCell(idx) :
            cells' = [cells EXCEPT ![t] = FreshEntry(call.key, call.val),
                                   ![idx].next = t - idx]
      BY <1>1, <2>3 DEF InsertOverflow, Distance, Fail
    <3>3. t \in Slots /\ IsEmpty(t)
      BY <2>1, <3>1, AboveIsFound
    <3>4. PICK e \in Entry : e = FreshEntry(call.key, call.val)
      <4>1. FreshEntry(call.key, call.val) \in Entry
        BY <2>1 DEF TypeOK, FreshEntry, Entry
      <4> QED
        BY <4>1
    <3>5. \A m \in Slots :
            /\ cells'[m].key = (IF m = t THEN e.key ELSE cells[m].key)
            /\ cells'[m].val = (IF m = t THEN e.val ELSE cells[m].val)
            /\ cells'[m].next = (IF m = idx THEN t - idx
                                 ELSE IF m = t THEN e.next ELSE cells[m].next)
      <4>1. cells' = [cells EXCEPT ![t] = e, ![idx].next = t - idx]
        BY <3>2, <3>4
      <4> QED
        BY <2>1, <3>3, <4>1, EntryLinked
    <3> QED
      BY <1>1, <3>3, <3>5
  <2> QED
    BY <1>1, <2>2, <2>3
    DEF HNext, Next, Call, Get, Set, Step, FindNilKey, FindEmptySlot, FindOverflow,
        FindHead, FindChain, Walk, RelocateAssert, RelocateStep, RelocateMove, Grow,
        Rehash, GrowReturns, Halted
<1>2. ShapeInv /\ [HNext]_hvars => [sound' => TakesFreeSlot]_hvars
  BY <1>1 DEF TakesFreeSlot
<1> QED
  BY <1>2, ShapeInvHolds, PTL DEF HSpec

\* Where the hash function spreads the keys, every Set does.
THEOREM SpreadKeysTakeFreeSlots == SpreadKeys => (HSpec => NewSlotIsFree)
<1> SUFFICES ASSUME SpreadKeys
             PROVE  HSpec => NewSlotIsFree
  OBVIOUS
<1>1. Intact' /\ [sound' => TakesFreeSlot]_hvars => [TakesFreeSlot]_vars
  BY DEF Intact, hvars
<1> QED
  BY <1>1, SpreadKeysStayIntact, SoundSlotsAreFree, PTL DEF NewSlotIsFree
=============================================================================
