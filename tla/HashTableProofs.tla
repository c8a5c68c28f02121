--------------------------- MODULE HashTableProofs ---------------------------
(***************************************************************************)
(* Theorems about HashTable, for every set of keys and values, every hash  *)
(* function and every initial size.                                        *)
(***************************************************************************)
EXTENDS HashTable, FiniteSetTheorems, TLAPS

USE NilAssumption, AnswerAssumption, SetKeyAssumption, SizeAssumption,
    HashAssumption

-----------------------------------------------------------------------------
(* The operators the actions are built from. *)

LEMMA HomeIsSlot ==
  ASSUME TypeOK, NEW k \in Key
  PROVE  Home(k) \in Slots
BY DEF TypeOK, Home, Slots

\* What FindEmptyCell answers, and where.
LEMMA EmptyCellFacts ==
  ASSUME TypeOK, NEW s \in Slots, NEW t \in FindEmptyCell(s)
  PROVE  /\ t \in Slots
         /\ \/ t \in EmptyAbove(s)
            \/ EmptyAbove(s) = {} /\ t \in EmptyBelow(s)
BY DEF TypeOK, FindEmptyCell, EmptyAbove, EmptyBelow, Slots

\* A step of Relocate that no assertion stops stays on the array.
LEMMA RelocateStays ==
  ASSUME TypeOK, RelocateFault = "none"
  PROVE  /\ cells[cur].next # 0
         /\ cur + cells[cur].next = idx => IsEmpty(to)
         /\ cur + cells[cur].next # idx =>
              /\ cur + cells[cur].next \in Slots
              /\ ~IsEmpty(cur + cells[cur].next)
BY DEF TypeOK, RelocateFault, Slots

-----------------------------------------------------------------------------
(***************************************************************************)
(* What the four updates of the array do to every cell.                    *)
(***************************************************************************)

LEMMA ValueWritten ==
  ASSUME TypeOK, NEW i \in Slots, NEW v \in Value \cup {Nil},
         cells' = [cells EXCEPT ![i].val = v]
  PROVE  /\ cells' \in [Slots -> Entry]
         /\ \A m \in Slots :
              /\ cells'[m].key = cells[m].key
              /\ cells'[m].next = cells[m].next
              /\ cells'[m].val = (IF m = i THEN v ELSE cells[m].val)
<1>1. cells \in [Slots -> Entry]
  BY DEF TypeOK
<1> QED
  BY <1>1 DEF Entry

LEMMA EntryWritten ==
  ASSUME TypeOK, NEW i \in Slots, NEW e \in Entry,
         cells' = [cells EXCEPT ![i] = e]
  PROVE  /\ cells' \in [Slots -> Entry]
         /\ \A m \in Slots : cells'[m] = (IF m = i THEN e ELSE cells[m])
BY DEF TypeOK

LEMMA EntryLinked ==
  ASSUME TypeOK, NEW j \in Slots, NEW e \in Entry,
         cells' = [cells EXCEPT ![j] = e, ![idx].next = j - idx]
  PROVE  /\ cells' \in [Slots -> Entry]
         /\ \A m \in Slots :
              /\ cells'[m].key = (IF m = j THEN e.key ELSE cells[m].key)
              /\ cells'[m].val = (IF m = j THEN e.val ELSE cells[m].val)
              /\ cells'[m].next = (IF m = idx THEN j - idx
                                   ELSE IF m = j THEN e.next ELSE cells[m].next)
<1>1. cells \in [Slots -> Entry] /\ idx \in Slots /\ j - idx \in Int
  BY DEF TypeOK, Slots
<1> QED
  BY <1>1 DEF Entry

LEMMA EntryMoved ==
  ASSUME TypeOK, RelocateMove
  PROVE  /\ cells' \in [Slots -> Entry]
         /\ \A m \in Slots :
              /\ cells'[m].key = (IF m = idx THEN Nil
                                  ELSE IF m = to THEN cells[idx].key
                                  ELSE cells[m].key)
              /\ cells'[m].val = (IF m = idx THEN Nil
                                  ELSE IF m = to THEN cells[idx].val
                                  ELSE cells[m].val)
              /\ cells'[m].next = (IF m = cur THEN to - cur
                                   ELSE IF m = to THEN cells[idx].next
                                   ELSE cells[m].next)
<1>1. /\ cells \in [Slots -> Entry]
      /\ idx \in Slots /\ to \in Slots /\ cur \in Slots
      /\ to - cur \in Int
  BY DEF TypeOK, Slots
<1>2. PICK d : d = [cells EXCEPT ![to] = cells[idx], ![cur].next = to - cur]
  OBVIOUS
<1>3. d \in [Slots -> Entry]
  BY <1>1, <1>2 DEF Entry
<1>4. \A m \in Slots :
        /\ d[m].key = (IF m = to THEN cells[idx].key ELSE cells[m].key)
        /\ d[m].val = (IF m = to THEN cells[idx].val ELSE cells[m].val)
        /\ d[m].next = (IF m = cur THEN to - cur
                        ELSE IF m = to THEN cells[idx].next ELSE cells[m].next)
  BY <1>1, <1>2 DEF Entry
<1>5. cells' = [d EXCEPT ![idx].key = Nil, ![idx].val = Nil]
  BY <1>1, <1>2 DEF Entry, RelocateMove, Distance
<1>6. cells' \in [Slots -> Entry]
  BY <1>1, <1>3, <1>5 DEF Entry
<1>7. \A m \in Slots :
        /\ cells'[m].key = (IF m = idx THEN Nil ELSE d[m].key)
        /\ cells'[m].val = (IF m = idx THEN Nil ELSE d[m].val)
        /\ cells'[m].next = d[m].next
  BY <1>1, <1>3, <1>5 DEF Entry
<1> QED
  BY <1>4, <1>6, <1>7

-----------------------------------------------------------------------------
(***************************************************************************)
(* Types.                                                                  *)
(***************************************************************************)
LEMMA InitTyped == Init => TypeOK
BY DEF Init, TypeOK, FreshCells, NoEntry, Entry, Slots

LEMMA FoundTyped ==
  ASSUME TypeOK, NEW i \in Slots, Found(i), UNCHANGED hash,
         UNCHANGED <<size, remaining, call, growing>>
  PROVE  TypeOK'
<1> USE DEF TypeOK, Slots
<1>1. cells' \in [Slots -> Entry]
  <2>1. CASE cells' = cells
    BY <2>1
  <2>2. CASE cells' = [cells EXCEPT ![i].val = call.val]
    <3>1. call.val \in Value \cup {Nil}
      OBVIOUS
    <3> HIDE DEF Slots
    <3> QED
      BY <2>2, <3>1, ValueWritten
  <2> QED
    BY <2>1, <2>2 DEF Found
<1>2. ret' \in Value \cup {Nil, NotFound}
  BY DEF Found, Entry
<1>3. /\ pc' \in {"idle", "rehash"} /\ fault' = fault
      /\ idx' = 0 /\ to' = 0 /\ cur' = 0
  BY DEF Found, Return
<1>4. UNCHANGED <<hash, size, remaining, call, depth, frame>>
  BY DEF growing
<1> QED
  BY <1>1, <1>2, <1>3, <1>4

LEMMA NextTyped == TypeOK /\ [Next]_vars => TypeOK'
<1> SUFFICES ASSUME TypeOK, [Next]_vars
             PROVE  TypeOK'
  OBVIOUS
<1> USE DEF TypeOK, Slots
<1>1. CASE UNCHANGED vars
  BY <1>1 DEF vars, Entry, Faults
<1>2. ASSUME NEW k \in Key, Get(k), UNCHANGED hash
      PROVE  TypeOK'
  BY <1>2 DEF Get, locals, growing
<1>3. ASSUME NEW k \in SetKey, NEW v \in Value, Set(k, v), UNCHANGED hash
      PROVE  TypeOK'
  BY <1>3 DEF Set, locals, growing
<1>4. CASE FindNilKey /\ UNCHANGED hash
  BY <1>4 DEF FindNilKey, Fail, Faults, locals, growing
<1>5. CASE FindEmptySlot /\ UNCHANGED hash
  <2>1. Home(call.key) \in Slots
    BY <1>5, HomeIsSlot DEF FindEmptySlot
  <2> QED
    BY <1>5, <2>1 DEF FindEmptySlot, Missing, Return, locals, growing
<1>6. CASE FindOverflow /\ UNCHANGED hash
  <2> DEFINE h == Home(call.key)
  <2>1. h \in Slots /\ cells[h].key \in Key /\ Home(cells[h].key) \in Slots
    BY <1>6, HomeIsSlot DEF FindOverflow, IsEmpty, Entry
  <2>2. ASSUME NEW t \in FindEmptyCell(h),
               pc' = "relocate", idx' = h, to' = t, cur' = Home(cells[h].key),
               UNCHANGED fault
        PROVE  TypeOK'
    <3>1. t \in Slots
      BY <2>1, EmptyCellFacts
    <3> QED
      BY <1>6, <2>1, <2>2, <3>1 DEF FindOverflow, growing
  <2>3. CASE Fail(EmptyCellFault(h)) /\ UNCHANGED locals
    BY <1>6, <2>3
    DEF FindOverflow, Fail, EmptyCellFault, Faults, locals, growing
  <2> QED
    BY <1>6, <2>2, <2>3 DEF FindOverflow
<1>7. CASE FindHead /\ UNCHANGED hash
  <2>1. Home(call.key) \in Slots
    BY <1>7, HomeIsSlot DEF FindHead
  <2>2. Found(Home(call.key)) /\ UNCHANGED <<size, remaining, call, growing>>
    BY <1>7 DEF FindHead
  <2> QED
    BY <1>7, <2>1, <2>2, FoundTyped
<1>8. CASE FindChain /\ UNCHANGED hash
  <2>1. Home(call.key) \in Slots
    BY <1>8, HomeIsSlot DEF FindChain
  <2> QED
    BY <1>8, <2>1 DEF FindChain, growing
<1>9. CASE Walk /\ UNCHANGED hash
  <2> DEFINE j == idx + cells[idx].next
  <2>1. CASE Missing(idx) /\ UNCHANGED cells
    BY <1>9, <2>1 DEF Walk, Missing, Return, growing
  <2>2. CASE Fail("walk_range") /\ UNCHANGED <<cells, locals, ret>>
    BY <1>9, <2>2 DEF Walk, Fail, Faults, locals, growing
  <2>3. CASE j \in Slots /\ Found(j)
    <3>1. UNCHANGED <<size, remaining, call, growing>>
      BY <1>9 DEF Walk
    <3> QED
      BY <1>9, <2>3, <3>1, FoundTyped
  <2>4. CASE j \in Slots /\ idx' = j /\ UNCHANGED <<cells, pc, to, cur, ret, fault>>
    BY <1>9, <2>4 DEF Walk, growing
  <2> QED
    BY <1>9, <2>1, <2>2, <2>3, <2>4 DEF Walk
<1>10. CASE RelocateAssert /\ UNCHANGED hash
  <2>1. RelocateFault \in Faults
    BY <1>10, Zenon DEF RelocateAssert, RelocateFault, Faults
  <2> QED
    BY <1>10, <2>1 DEF RelocateAssert, Fail, locals, growing
<1>11. CASE RelocateStep /\ UNCHANGED hash
  BY <1>11, RelocateStays DEF RelocateStep, growing
<1>12. CASE RelocateMove /\ UNCHANGED hash
  <2>1. cells' \in [Slots -> Entry]
    BY <1>12, EntryMoved
  <2>2. /\ Missing(idx) /\ UNCHANGED <<size, remaining, call, growing>>
    BY <1>12 DEF RelocateMove
  <2>3. UNCHANGED <<hash, size, remaining, call, depth, frame>>
    BY <1>12, <2>2 DEF growing
  <2>4. /\ pc' \in {"idle", "rehash", "insert"} /\ fault' = fault
        /\ idx' \in {0, idx} /\ to' = 0 /\ cur' = 0 /\ ret' \in {ret, NotFound}
    BY <2>2 DEF Missing, Return
  <2> HIDE DEF Missing
  <2> QED
    BY <2>1, <2>3, <2>4
<1>13. CASE InsertHome /\ UNCHANGED hash
  BY <1>13 DEF InsertHome, FreshEntry, Entry, Return, growing
<1>14. CASE InsertOverflow /\ UNCHANGED hash
  <2>1. ASSUME NEW j \in FindEmptyCell(idx), Return,
               cells' = [cells EXCEPT ![j] = FreshEntry(call.key, call.val),
                                      ![idx].next = j - idx]
        PROVE  TypeOK'
    <3>1. j \in Slots
      BY EmptyCellFacts
    <3>2. cells' \in [Slots -> Entry]
      <4>1. FreshEntry(call.key, call.val) \in Entry
        BY DEF FreshEntry, Entry
      <4> HIDE DEF TypeOK, Slots
      <4> QED
        BY <2>1, <3>1, <4>1, EntryLinked
    <3>3. /\ remaining > 0 /\ remaining' = remaining - 1
          /\ UNCHANGED <<hash, size, call, depth, frame, ret>>
      BY <1>14 DEF InsertOverflow, growing
    <3> QED
      BY <2>1, <3>2, <3>3 DEF Return
  <2>2. CASE Fail(EmptyCellFault(idx)) /\ UNCHANGED <<cells, locals>>
    BY <1>14, <2>2
    DEF InsertOverflow, Fail, EmptyCellFault, Faults, locals, growing
  <2> QED
    BY <1>14, <2>1, <2>2 DEF InsertOverflow, Distance
<1>15. CASE Grow /\ UNCHANGED hash
  <2>1. FreshCells(2 * size) \in [0 .. 2 * size - 1 -> Entry]
    BY DEF FreshCells, NoEntry, Entry
  <2>2. 2 * size \in Nat \ {0} /\ 0 \in 0 .. 2 * size - 1
    OBVIOUS
  <2>3. /\ frame'.old = cells /\ frame'.sz = size /\ frame'.i = 0
        /\ frame' = [old |-> frame'.old, sz |-> frame'.sz, i |-> frame'.i]
    BY <1>15 DEF Grow
  <2> QED
    BY <1>15, <2>1, <2>2, <2>3 DEF Grow, Initialize
<1>16. CASE Rehash /\ UNCHANGED hash
  <2>1. /\ frame'.old = frame.old /\ frame'.sz = frame.sz
        /\ frame'.i = frame.i + 1
        /\ frame' = [old |-> frame'.old, sz |-> frame'.sz, i |-> frame'.i]
    BY <1>16 DEF Rehash
  <2>2. frame.old[frame.i] \in Entry
    BY <1>16 DEF Rehash
  <2>3. call' \in {call, [op |-> "set", key |-> frame.old[frame.i].key,
                          val |-> frame.old[frame.i].val]}
    BY <1>16 DEF Rehash
  <2>4. call' \in [op : {"get", "set"}, key : Key \cup {Nil},
                   val : Value \cup {Nil}]
    <3>1. call \in [op : {"get", "set"}, key : Key \cup {Nil},
                    val : Value \cup {Nil}]
      OBVIOUS
    <3>2. /\ frame.old[frame.i].key \in Key \cup {Nil}
          /\ frame.old[frame.i].val \in Value \cup {Nil}
      <4> HIDE DEF TypeOK, Slots
      <4> QED
        BY <2>2 DEF Entry
    <3> HIDE DEF TypeOK, Slots
    <3>3. CASE call' = call
      BY <3>1, <3>3
    <3>4. CASE call' = [op |-> "set", key |-> frame.old[frame.i].key,
                        val |-> frame.old[frame.i].val]
      BY <3>2, <3>4
    <3> QED
      BY <2>3, <3>3, <3>4
  <2>5. frame'.i \in 0 .. frame'.sz
    BY <1>16, <2>1 DEF Rehash
  <2>6. pc' \in {pc, "find"} /\ UNCHANGED <<hash, size, remaining, cells, idx, to,
                                           cur, depth, ret, fault>>
    BY <1>16 DEF Rehash, locals
  <2> QED
    BY <2>1, <2>4, <2>5, <2>6
<1>17. CASE GrowReturns /\ UNCHANGED hash
  BY <1>17 DEF GrowReturns, Fail, Faults, locals, growing
<1>18. CASE Halted /\ UNCHANGED hash
  BY <1>18 DEF Halted, Faults, locals, growing
<1> QED
  BY <1>1, <1>2, <1>3, <1>4, <1>5, <1>6, <1>7, <1>8, <1>9, <1>10, <1>11,
     <1>12, <1>13, <1>14, <1>15, <1>16, <1>17, <1>18
  DEF Next, Call, Step

THEOREM Typed == Spec => []TypeOK
<1>1. Init => TypeOK
  BY InitTyped
<1>2. TypeOK /\ [Next]_vars => TypeOK'
  BY NextTyped
<1> QED
  BY <1>1, <1>2, PTL DEF Spec

-----------------------------------------------------------------------------
(***************************************************************************)
(* Links that point down the array.                                        *)
(***************************************************************************)

\* FindEmptyCell answers an empty cell above the start, or a taken one from
\* which on there is no empty cell.
LEMMA WhereCellsAre ==
  ASSUME TypeOK, NEW s \in Slots, ~IsEmpty(s), NEW t \in FindEmptyCell(s)
  PROVE  \/ t > s /\ IsEmpty(t)
         \/ /\ t <= s
            /\ \A j \in t .. size - 1 : ~IsEmpty(j)
<1>1. CASE EmptyAbove(s) # {}
  BY <1>1 DEF FindEmptyCell, EmptyAbove, Slots, TypeOK
<1>2. CASE EmptyAbove(s) = {}
  <2>1. /\ t \in 1 .. s
        /\ \A j \in EmptyBelow(s) : j <= t
    BY <1>2 DEF FindEmptyCell, EmptyBelow
  <2>2. ASSUME NEW j \in t .. size - 1, IsEmpty(j)
        PROVE  FALSE
    <3>1. j < s
      BY <1>2, <2>1, <2>2 DEF EmptyAbove, Slots, TypeOK
    <3>2. j + 1 \in EmptyBelow(s)
      BY <2>1, <2>2, <3>1 DEF EmptyBelow, Slots, TypeOK
    <3> QED
      BY <2>1, <2>2, <3>2 DEF Slots, TypeOK
  <2> QED
    BY <2>1, <2>2 DEF Slots
<1> QED
  BY <1>1, <1>2

\* The target that FindSlot chose is still the one FindEmptyCell would answer
\* when Relocate, after its search for the predecessor, writes to it.
RelocationPlanned ==
  pc = "relocate" => ~IsEmpty(idx) /\ to \in FindEmptyCell(idx)

\* FindSlot rejects a nil key before it touches the array (Hashtable.cpp:141).
KeyGiven == pc \in {"walk", "relocate", "insert"} => call.key \in Key

LinksInv == TypeOK /\ BackwardLinks /\ RelocationPlanned /\ KeyGiven

\* A step that leaves the array as it is.
LEMMA LinksKept ==
  ASSUME LinksInv, UNCHANGED <<cells, size>>
  PROVE  BackwardLinks'
BY DEF LinksInv, BackwardLinks, IsEmpty, Slots

LEMMA LinksKeptPointwise ==
  ASSUME LinksInv, UNCHANGED size,
         \A m \in Slots : cells'[m].next = cells[m].next,
         \A m \in Slots : ~IsEmpty(m) => cells'[m].key # Nil
  PROVE  BackwardLinks'
<1>1. size \in Nat /\ \A i \in Slots : cells[i].next \in Int
  BY DEF LinksInv, TypeOK, Entry
<1> SUFFICES ASSUME NEW i \in Slots, cells'[i].next < 0
             PROVE  /\ i + cells'[i].next \in Slots
                    /\ \A j \in i + cells'[i].next .. size - 1 : cells'[j].key # Nil
                    /\ cells'[i + cells'[i].next].next <= 0
  BY DEF BackwardLinks, IsEmpty, Slots
<1> QED
  BY <1>1 DEF LinksInv, BackwardLinks, Slots

\* A step that only changes a value.
LEMMA LinksKeptByFound ==
  ASSUME LinksInv, NEW i \in Slots, Found(i), UNCHANGED size
  PROVE  BackwardLinks'
<1>1. CASE UNCHANGED cells
  BY <1>1, LinksKept
<1>2. CASE cells' = [cells EXCEPT ![i].val = call.val]
  <2>1. call.val \in Value \cup {Nil}
    BY DEF LinksInv, TypeOK
  <2>2. \A m \in Slots : cells'[m].key = cells[m].key /\ cells'[m].next = cells[m].next
    BY <1>2, <2>1, ValueWritten DEF LinksInv
  <2>3. \A m \in Slots : cells[m].next \in Int
    BY DEF LinksInv, TypeOK, Entry
  <2> QED
    BY <2>2, <2>3, LinksKeptPointwise DEF IsEmpty
<1> QED
  BY <1>1, <1>2 DEF Found

LEMMA LinksKeptByMove ==
  ASSUME LinksInv, RelocateMove
  PROVE  BackwardLinks'
<1>1. /\ idx \in Slots /\ to \in Slots /\ cur \in Slots
      /\ size \in Nat /\ size' = size
      /\ \A i \in Slots : cells[i].next \in Int
  BY DEF LinksInv, TypeOK, Entry, RelocateMove
<1>2. /\ cur + cells[cur].next = idx
      /\ IsEmpty(to) /\ ~IsEmpty(idx) /\ idx < to
  BY RelocateStays, WhereCellsAre, <1>1
  DEF LinksInv, RelocateMove, RelocationPlanned, Slots
<1>3. \A m \in Slots :
        /\ cells'[m].key = (IF m = idx THEN Nil
                            ELSE IF m = to THEN cells[idx].key
                            ELSE cells[m].key)
        /\ cells'[m].next = (IF m = cur THEN to - cur
                             ELSE IF m = to THEN cells[idx].next
                             ELSE cells[m].next)
  BY EntryMoved DEF LinksInv
<1>4. \A i \in Slots : cells[i].next < 0 =>
        /\ i + cells[i].next \in Slots
        /\ i + cells[i].next > to
        /\ \A j \in i + cells[i].next .. size - 1 : ~IsEmpty(j)
        /\ cells[i + cells[i].next].next <= 0
  BY <1>1, <1>2 DEF LinksInv, BackwardLinks, Slots
<1>5. cells[idx].next >= 0 /\ cur <= to
  BY <1>1, <1>2, <1>4 DEF Slots
<1> SUFFICES ASSUME NEW i \in Slots, cells'[i].next < 0
             PROVE  /\ i + cells'[i].next \in Slots
                    /\ \A j \in i + cells'[i].next .. size - 1 : cells'[j].key # Nil
                    /\ cells'[i + cells'[i].next].next <= 0
  BY <1>1 DEF BackwardLinks, IsEmpty, Slots
<1>6. cells'[i].next = cells[i].next /\ i # cur /\ i # to
  BY <1>1, <1>3, <1>5 DEF Slots
<1> QED
  BY <1>1, <1>2, <1>3, <1>4, <1>6 DEF Slots, IsEmpty


LEMMA LinksKeptByInsertHome ==
  ASSUME LinksInv, InsertHome
  PROVE  BackwardLinks'
<1>1. /\ idx \in Slots /\ IsEmpty(idx)
      /\ size \in Nat /\ size' = size
      /\ \A i \in Slots : cells[i].next \in Int
  BY DEF LinksInv, TypeOK, Entry, InsertHome
<1>2. \A m \in Slots : cells'[m] = (IF m = idx THEN FreshEntry(call.key, call.val)
                                    ELSE cells[m])
  BY DEF LinksInv, TypeOK, InsertHome
<1>3. \A m \in Slots :
        /\ cells'[m].next = (IF m = idx THEN 0 ELSE cells[m].next)
        /\ m # idx => cells'[m].key = cells[m].key
  BY <1>2 DEF FreshEntry
<1> SUFFICES ASSUME NEW i \in Slots, cells'[i].next < 0
             PROVE  /\ i + cells'[i].next \in Slots
                    /\ \A j \in i + cells'[i].next .. size - 1 : cells'[j].key # Nil
                    /\ cells'[i + cells'[i].next].next <= 0
  BY <1>1 DEF BackwardLinks, IsEmpty, Slots
<1>4. cells'[i].next = cells[i].next
  BY <1>3
<1>5. /\ i + cells[i].next \in Slots
      /\ \A j \in i + cells[i].next .. size - 1 : ~IsEmpty(j)
      /\ cells[i + cells[i].next].next <= 0
  BY <1>4 DEF LinksInv, BackwardLinks
<1> QED
  BY <1>1, <1>3, <1>4, <1>5 DEF Slots, IsEmpty

LEMMA LinksKeptByInsertOverflow ==
  ASSUME LinksInv, InsertOverflow
  PROVE  BackwardLinks'
<1>1. /\ idx \in Slots /\ ~IsEmpty(idx)
      /\ size \in Nat /\ size' = size
      /\ \A i \in Slots : cells[i].next \in Int
  BY DEF LinksInv, TypeOK, Entry, InsertOverflow
<1>2. CASE UNCHANGED cells
  BY <1>1, <1>2, LinksKept
<1>3. ASSUME NEW t \in FindEmptyCell(idx),
             cells' = [cells EXCEPT ![t] = FreshEntry(call.key, call.val),
                                    ![idx].next = t - idx]
      PROVE  BackwardLinks'
  <2>1. t \in Slots
    BY <1>1, EmptyCellFacts DEF LinksInv
  <2>2. PICK e \in Entry :
          /\ e = FreshEntry(call.key, call.val)
          /\ e.next = 0
          /\ e.key = call.key
    <3>1. FreshEntry(call.key, call.val) \in Entry
      BY DEF LinksInv, TypeOK, FreshEntry, Entry
    <3> QED
      BY <3>1 DEF FreshEntry
  <2>3. call.key # Nil
    BY DEF LinksInv, KeyGiven, InsertOverflow
  <2>4. \A m \in Slots :
          /\ cells'[m].key = (IF m = t THEN call.key ELSE cells[m].key)
          /\ cells'[m].next = (IF m = idx THEN t - idx
                               ELSE IF m = t THEN 0 ELSE cells[m].next)
    <3>1. cells' = [cells EXCEPT ![t] = e, ![idx].next = t - idx]
      BY <1>3, <2>2
    <3>2. \A m \in Slots :
            /\ cells'[m].key = (IF m = t THEN e.key ELSE cells[m].key)
            /\ cells'[m].next = (IF m = idx THEN t - idx
                                 ELSE IF m = t THEN e.next ELSE cells[m].next)
      <4>1. TypeOK /\ e \in Entry
        BY DEF LinksInv
      <4> QED
        BY <2>1, <3>1, <4>1, EntryLinked
    <3> QED
      BY <2>2, <3>2
  <2> SUFFICES ASSUME NEW i \in Slots, cells'[i].next < 0
               PROVE  /\ i + cells'[i].next \in Slots
                      /\ \A j \in i + cells'[i].next .. size - 1 : cells'[j].key # Nil
                      /\ cells'[i + cells'[i].next].next <= 0
    BY <1>1 DEF BackwardLinks, IsEmpty, Slots
  <2>5. \A j \in Slots : ~IsEmpty(j) => cells'[j].key # Nil
    BY <2>3, <2>4 DEF IsEmpty
  <2>6. CASE i = idx
    <3>1. /\ t < idx
          /\ \A j \in t .. size - 1 : ~IsEmpty(j)
      BY <1>1, <2>1, <2>4, <2>6, WhereCellsAre DEF LinksInv, Slots
    <3> QED
      BY <1>1, <2>1, <2>4, <2>5, <2>6, <3>1 DEF Slots
  <2>7. CASE i # idx
    <3>1. cells'[i].next = cells[i].next
      BY <2>4, <2>7
    <3>2. /\ i + cells[i].next \in Slots
          /\ \A j \in i + cells[i].next .. size - 1 : ~IsEmpty(j)
          /\ cells[i + cells[i].next].next <= 0
      BY <3>1 DEF LinksInv, BackwardLinks
    <3>3. i + cells[i].next = idx => t <= idx
      BY <1>1, <2>1, <3>2, WhereCellsAre DEF LinksInv, Slots
    <3> QED
      BY <1>1, <2>1, <2>4, <2>5, <3>1, <3>2, <3>3 DEF Slots
  <2> QED
    BY <2>6, <2>7
<1> QED
  BY <1>2, <1>3 DEF InsertOverflow, Distance

LEMMA LinksInvStep == LinksInv /\ [Next]_vars => LinksInv'
<1> SUFFICES ASSUME LinksInv, [Next]_vars
             PROVE  BackwardLinks' /\ RelocationPlanned' /\ KeyGiven'
  BY NextTyped DEF LinksInv
<1>1. CASE UNCHANGED vars
  BY <1>1, LinksKept
  DEF vars, LinksInv, RelocationPlanned, KeyGiven, IsEmpty, FindEmptyCell,
      EmptyAbove, EmptyBelow
<1>2. CASE Call
  <2>1. pc' = "find" /\ UNCHANGED <<cells, size>>
    BY <1>2 DEF Call, Get, Set
  <2> QED
    BY <2>1, LinksKept DEF RelocationPlanned, KeyGiven
<1>3. CASE FindOverflow /\ UNCHANGED hash
  <2>1. UNCHANGED <<cells, size, hash, call>> /\ call.key \in Key
    BY <1>3 DEF FindOverflow, LinksInv, TypeOK
  <2>2. CASE pc' = "relocate"
    <3>1. /\ idx' = Home(call.key) /\ ~IsEmpty(idx')
          /\ to' \in FindEmptyCell(Home(call.key))
      BY <1>3, <2>2 DEF FindOverflow, Fail
    <3>2. (idx' = Home(call.key) /\ ~IsEmpty(idx')
            /\ to' \in FindEmptyCell(Home(call.key))) => RelocationPlanned'
      BY <2>1
      DEF RelocationPlanned, FindEmptyCell, EmptyAbove, EmptyBelow, IsEmpty
    <3> QED
      BY <2>1, <3>1, <3>2, LinksKept DEF KeyGiven
  <2>3. CASE pc' = "aborted"
    BY <2>1, <2>3, LinksKept DEF RelocationPlanned, KeyGiven
  <2> QED
    BY <1>3, <2>2, <2>3 DEF FindOverflow, Fail
<1>4. CASE RelocateStep
  <2>1. UNCHANGED <<cells, size, pc, idx, to, call>>
    BY <1>4 DEF RelocateStep
  <2> QED
    BY <2>1, LinksKept
    DEF LinksInv, RelocationPlanned, KeyGiven, FindEmptyCell, EmptyAbove,
        EmptyBelow, IsEmpty
<1>5. CASE \/ FindNilKey \/ FindEmptySlot \/ FindChain
           \/ RelocateAssert \/ Rehash \/ GrowReturns \/ Halted
  <2>1. /\ UNCHANGED <<cells, size>>
        /\ pc' # "relocate"
        /\ pc' \in {"walk", "insert"} => call'.key \in Key
    BY <1>5
    DEF LinksInv, TypeOK, FindNilKey, FindEmptySlot, FindChain, RelocateAssert,
        Rehash, GrowReturns, Halted, Missing, Return, Fail
  <2> QED
    BY <2>1, LinksKept DEF RelocationPlanned, KeyGiven
<1>6. CASE FindHead
  <2>1. Found(Home(call.key)) /\ UNCHANGED size /\ Home(call.key) \in Slots
    BY <1>6, HomeIsSlot DEF FindHead, LinksInv, TypeOK
  <2> QED
    BY <2>1, LinksKeptByFound DEF RelocationPlanned, KeyGiven, Found, Return
<1>7. CASE Walk
  <2> DEFINE j == idx + cells[idx].next
  <2>1. CASE j \in Slots /\ Found(j)
    <3>1. UNCHANGED size
      BY <1>7 DEF Walk
    <3> QED
      BY <2>1, <3>1, LinksKeptByFound
      DEF RelocationPlanned, KeyGiven, Found, Return
  <2>2. CASE UNCHANGED cells
    <3>1. UNCHANGED <<size, call>> /\ pc = "walk" /\ pc' # "relocate"
      BY <1>7, <2>2 DEF Walk, Missing, Found, Return, Fail
    <3> QED
      BY <2>2, <3>1, LinksKept DEF LinksInv, RelocationPlanned, KeyGiven
  <2> QED
    BY <1>7, <2>1, <2>2 DEF Walk
<1>8. CASE RelocateMove
  <2>1. pc = "relocate" /\ pc' # "relocate" /\ UNCHANGED call
    BY <1>8 DEF RelocateMove, Missing, Return
  <2> QED
    BY <1>8, <2>1, LinksKeptByMove DEF LinksInv, RelocationPlanned, KeyGiven
<1>9. CASE InsertHome
  BY <1>9, LinksKeptByInsertHome
  DEF InsertHome, Return, RelocationPlanned, KeyGiven
<1>10. CASE InsertOverflow
  BY <1>10, LinksKeptByInsertOverflow
  DEF InsertOverflow, Return, Fail, RelocationPlanned, KeyGiven
<1>11. CASE Grow
  <2>1. \A m \in Slots' : cells'[m].next = 0
    BY <1>11 DEF Grow, Initialize, FreshCells, NoEntry, Slots
  <2> QED
    BY <1>11, <2>1 DEF Grow, Initialize, BackwardLinks, RelocationPlanned, KeyGiven
<1> QED
  BY <1>1, <1>2, <1>3, <1>4, <1>5, <1>6, <1>7, <1>8, <1>9, <1>10, <1>11
  DEF Next, Step

LEMMA InitLinks == Init => LinksInv
<1>1. Init => BackwardLinks /\ RelocationPlanned /\ KeyGiven
  BY DEF Init, FreshCells, NoEntry, Slots, BackwardLinks, RelocationPlanned,
         KeyGiven
<1> QED
  BY <1>1, InitTyped DEF LinksInv

\* The array's backward links, for every table: the invariant that the end of
\* FindSlot's and Relocate's loops rests on.
THEOREM LinksBackward == Spec => []BackwardLinks
<1>1. Init => LinksInv
  BY InitLinks
<1>2. LinksInv /\ [Next]_vars => LinksInv'
  BY LinksInvStep
<1>3. LinksInv => BackwardLinks
  BY DEF LinksInv
<1> QED
  BY <1>1, <1>2, <1>3, PTL DEF Spec

-----------------------------------------------------------------------------
(***************************************************************************)
(* The loops of FindSlot and Relocate come to an end.                      *)
(***************************************************************************)

\* Following a link of a table whose backward links are in order leads nearer
\* to the end of the chain.
LEMMA LinksDescend ==
  ASSUME LinksInv, NEW i \in Slots, cells[i].next # 0,
         i + cells[i].next \in Slots
  PROVE  Rank(i + cells[i].next) < Rank(i)
<1>1. /\ size \in Nat
      /\ cells[i].next \in Int
      /\ cells[i + cells[i].next].next \in Int
  BY DEF LinksInv, TypeOK, Entry
<1>2. CASE cells[i].next > 0
  BY <1>1, <1>2 DEF Rank, Slots
<1>3. CASE cells[i].next < 0
  <2>1. cells[i + cells[i].next].next <= 0
    BY <1>3 DEF LinksInv, BackwardLinks
  <2> QED
    BY <1>1, <1>3, <2>1 DEF Rank, Slots
<1> QED
  BY <1>1, <1>2, <1>3

\* Whatever the table holds, each turn of the chain walk and of the search for a
\* predecessor lowers a number that is never negative: neither loop, which count
\* nothing themselves, can run for ever.
THEOREM LoopsEnd == Spec => LoopsAdvance
<1> DEFINE A == /\ pc = "walk" /\ pc' = "walk" => Rank(idx)' < Rank(idx)
                /\ pc = "relocate" /\ pc' = "relocate" => Rank(cur)' < Rank(cur)
<1>1. LinksInv /\ [Next]_vars => [A]_vars
  <2> SUFFICES ASSUME LinksInv, Next
               PROVE  A
    OBVIOUS
  <2>1. ASSUME pc = "walk", pc' = "walk"
        PROVE  Rank(idx)' < Rank(idx)
    <3>1. Walk
      BY <2>1
      DEF Next, Call, Get, Set, Step, FindNilKey, FindEmptySlot, FindOverflow,
          FindHead, FindChain, RelocateAssert, RelocateStep, RelocateMove,
          InsertHome, InsertOverflow, Grow, Rehash, GrowReturns, Halted
    <3>2. /\ cells[idx].next # 0 /\ idx + cells[idx].next \in Slots
          /\ idx' = idx + cells[idx].next
          /\ UNCHANGED <<cells, size>>
      BY <2>1, <3>1 DEF Walk, Missing, Found, Return, Fail
    <3>3. Rank(idx + cells[idx].next) < Rank(idx) /\ idx \in Slots
      BY <3>2, LinksDescend DEF LinksInv, TypeOK
    <3> QED
      BY <3>2, <3>3 DEF Rank
  <2>2. ASSUME pc = "relocate", pc' = "relocate"
        PROVE  Rank(cur)' < Rank(cur)
    <3>1. RelocateStep
      BY <2>2
      DEF Next, Call, Get, Set, Step, FindNilKey, FindEmptySlot, FindOverflow,
          FindHead, FindChain, Walk, RelocateAssert, RelocateMove, Missing,
          Return, Fail, InsertHome, InsertOverflow, Grow, Rehash, GrowReturns,
          Halted
    <3>2. /\ cells[cur].next # 0 /\ cur + cells[cur].next \in Slots
          /\ cur' = cur + cells[cur].next
          /\ UNCHANGED <<cells, size>>
      BY <3>1, RelocateStays DEF RelocateStep, LinksInv
    <3>3. Rank(cur + cells[cur].next) < Rank(cur) /\ cur \in Slots
      BY <3>2, LinksDescend DEF LinksInv, TypeOK
    <3> QED
      BY <3>2, <3>3 DEF Rank
  <2> QED
    BY <2>1, <2>2
<1>2. Init => LinksInv
  BY InitLinks
<1>3. LinksInv /\ [Next]_vars => LinksInv'
  BY LinksInvStep
<1> QED
  BY <1>1, <1>2, <1>3, PTL DEF Spec, LoopsAdvance

-----------------------------------------------------------------------------
(***************************************************************************)
(* A table grows at most once.                                             *)
(***************************************************************************)

\* While the larger array is filled it has room for every entry of the old one
\* that Grow has not passed yet, and for as many again.
GrowRoom ==
  /\ depth <= 1
  /\ pc = "rehash" => depth = 1
  /\ depth = 1 =>
       /\ pc # "idle"
       /\ size = 2 * frame.sz
       /\ pc = "rehash" => remaining >= size - frame.i
       /\ pc \in {"find", "walk", "relocate", "insert"} =>
            remaining >= size - frame.i + 1

GrowInv == TypeOK /\ GrowRoom

LEMMA GrowInvStep == GrowInv /\ [Next]_vars => GrowInv'
<1> SUFFICES ASSUME GrowInv, [Next]_vars
             PROVE  GrowRoom'
  BY NextTyped DEF GrowInv
<1>1. /\ size \in Nat \ {0} /\ remaining \in Nat /\ depth \in Nat
      /\ frame.sz \in Nat /\ frame.i \in 0 .. frame.sz
      /\ frame = [old |-> frame.old, sz |-> frame.sz, i |-> frame.i]
  BY DEF GrowInv, TypeOK
<1> USE DEF GrowInv, GrowRoom
<1>2. CASE UNCHANGED vars
  BY <1>2 DEF vars
<1>3. CASE Call
  BY <1>1, <1>3 DEF Call, Get, Set, growing
<1>4. CASE FindNilKey \/ RelocateAssert \/ GrowReturns \/ Halted
  BY <1>1, <1>4
  DEF FindNilKey, RelocateAssert, GrowReturns, Halted, Fail, growing
<1>5. CASE FindEmptySlot \/ FindHead \/ FindChain \/ FindOverflow
  <2>1. /\ pc = "find"
        /\ pc' \in {"aborted", "walk", "relocate", "insert",
                    IF depth = 0 THEN "idle" ELSE "rehash"}
        /\ UNCHANGED <<size, remaining, depth, frame>>
    BY <1>5 DEF FindEmptySlot, FindHead, FindChain, FindOverflow, Found, Missing,
                Return, Fail, growing
  <2> QED
    BY <1>1, <2>1
<1>6. CASE Walk \/ RelocateStep \/ RelocateMove
  <2>1. /\ pc \in {"walk", "relocate"}
        /\ pc' \in {"aborted", "walk", "relocate", "insert",
                    IF depth = 0 THEN "idle" ELSE "rehash"}
        /\ UNCHANGED <<size, remaining, depth, frame>>
    BY <1>6 DEF Walk, RelocateStep, RelocateMove, Found, Missing, Return, Fail,
                growing
  <2> QED
    BY <1>1, <2>1
<1>7. CASE InsertHome \/ InsertOverflow
  <2>1. /\ pc = "insert"
        /\ pc' \in {"aborted", IF depth = 0 THEN "idle" ELSE "rehash"}
        /\ remaining' = remaining - 1
        /\ UNCHANGED <<size, depth, frame>>
    BY <1>7 DEF InsertHome, InsertOverflow, Return, Fail, growing
  <2> QED
    BY <1>1, <2>1
<1>8. CASE Grow
  <2>1. depth = 0
    BY <1>1, <1>8 DEF Grow
  <2>2. frame'.sz = size /\ frame'.i = 0
    BY <1>8 DEF Grow
  <2> QED
    BY <1>1, <1>8, <2>1, <2>2 DEF Grow, Initialize
<1>9. CASE Rehash
  <2>1. /\ frame'.sz = frame.sz
        /\ frame'.i = frame.i + 1
        /\ pc = "rehash" /\ pc' \in {"rehash", "find"}
        /\ UNCHANGED <<size, remaining, depth>>
    BY <1>1, <1>9 DEF Rehash
  <2> QED
    BY <1>1, <2>1
<1> QED
  BY <1>2, <1>3, <1>4, <1>5, <1>6, <1>7, <1>8, <1>9 DEF Next, Step

\* Grow is never entered from the Set calls of its own loop.
THEOREM GrowOnce == Spec => []GrowNeverNests
<1>1. Init => GrowInv
  BY InitTyped DEF Init, GrowInv, GrowRoom
<1>2. GrowInv /\ [Next]_vars => GrowInv'
  BY GrowInvStep
<1>3. GrowInv => GrowNeverNests
  BY DEF GrowInv, GrowRoom, GrowNeverNests
<1> QED
  BY <1>1, <1>2, <1>3, PTL DEF Spec

-----------------------------------------------------------------------------
(***************************************************************************)
(* What is known of a call while it runs.                                  *)
(***************************************************************************)

\* No answer is given before its call returns; only a Set inserts, and makes the
\* table grow.
CallsInOrder ==
  /\ call.op = "get" /\ pc \notin {"idle", "aborted"} => ret = Nil
  /\ pc = "insert" => call.op = "set"
  /\ pc = "rehash" => depth > 0
  /\ pc = "idle" => depth = 0
  /\ depth > 0 => call.op = "set"
  /\ pc = "aborted" => fault # "none"
  /\ call.op = "set" => call.val \in Value \/ depth > 0

LEMMA CallsInOrderStep ==
  ASSUME TypeOK, CallsInOrder, Next
  PROVE  CallsInOrder'
<1> USE DEF CallsInOrder
<1>1. depth \in Nat
  BY DEF TypeOK
<1>2. CASE Call
  <2>1. /\ pc = "idle" /\ pc' = "find" /\ ret' = Nil /\ UNCHANGED depth
        /\ call'.op = "set" => call'.val \in Value
    BY <1>2 DEF Call, Get, Set, growing
  <2> QED
    BY <2>1
<1>3. CASE FindNilKey \/ RelocateAssert \/ GrowReturns
  <2>1. pc' = "aborted" /\ fault' # "none" /\ UNCHANGED <<call, depth>> /\ pc # "idle"
    BY <1>3 DEF FindNilKey, RelocateAssert, GrowReturns, Fail, growing
  <2> QED
    BY <2>1
<1>4. CASE FindEmptySlot \/ FindHead \/ FindChain \/ FindOverflow \/ Walk
           \/ RelocateStep \/ RelocateMove \/ InsertHome \/ InsertOverflow
  <2>1. /\ pc \in {"find", "walk", "relocate", "insert"}
        /\ UNCHANGED <<call, depth>>
        /\ pc' \in {"idle", "rehash", "aborted", "walk", "relocate", "insert"}
        /\ pc' = "rehash" => depth # 0
        /\ pc' = "idle" => depth = 0
        /\ pc' = "aborted" => fault' # "none"
        /\ pc' = "insert" => call.op = "set"
        /\ call.op = "get" /\ pc' \notin {"idle", "aborted", "rehash"} => ret' = ret
    BY <1>4
    DEF FindEmptySlot, FindOverflow, FindHead, FindChain, Walk, RelocateStep,
        RelocateMove, InsertHome, InsertOverflow, Found, Missing, Return, Fail,
        EmptyCellFault, growing
  <2> QED
    BY <1>1, <2>1
<1>5. CASE Grow
  <2>1. /\ pc = "insert" /\ pc' = "rehash" /\ depth' = depth + 1
        /\ UNCHANGED <<call, ret>>
    BY <1>5 DEF Grow
  <2> QED
    BY <1>1, <2>1
<1>6. CASE Rehash
  <2>1. /\ pc = "rehash" /\ pc' \in {"rehash", "find"} /\ UNCHANGED <<depth, ret>>
        /\ call'.op = "set"
    BY <1>1, <1>6 DEF Rehash
  <2> QED
    BY <1>1, <2>1
<1>7. CASE Halted
  BY <1>7 DEF Halted, growing
<1> QED
  BY <1>2, <1>3, <1>4, <1>5, <1>6, <1>7 DEF Next, Step

LEMMA InitCalls == Init => CallsInOrder
BY DEF Init, CallsInOrder

-----------------------------------------------------------------------------
(***************************************************************************)
(* A lookup keeps the entries.                                             *)
(***************************************************************************)

LEMMA EntryLeaves ==
  ASSUME LinksInv, RelocateMove
  PROVE  /\ TypeOK /\ idx \in Slots /\ to \in Slots /\ UNCHANGED size
         /\ ~IsEmpty(idx) /\ IsEmpty(to) /\ to # idx
         /\ \A m \in Slots :
              /\ cells'[m].key = (IF m = idx THEN Nil
                                  ELSE IF m = to THEN cells[idx].key
                                  ELSE cells[m].key)
              /\ cells'[m].val = (IF m = idx THEN Nil
                                  ELSE IF m = to THEN cells[idx].val
                                  ELSE cells[m].val)
<1>1. /\ TypeOK /\ idx \in Slots /\ to \in Slots /\ UNCHANGED size
      /\ ~IsEmpty(idx)
  BY DEF LinksInv, TypeOK, RelocationPlanned, RelocateMove
<1>2. IsEmpty(to) /\ to # idx
  BY <1>1, RelocateStays DEF RelocateMove
<1>3. \A m \in Slots :
        /\ cells'[m].key = (IF m = idx THEN Nil
                            ELSE IF m = to THEN cells[idx].key
                            ELSE cells[m].key)
        /\ cells'[m].val = (IF m = idx THEN Nil
                            ELSE IF m = to THEN cells[idx].val
                            ELSE cells[m].val)
  BY <1>1, EntryMoved
<1> QED
  BY <1>1, <1>2, <1>3

LEMMA MoveKeepsEntries ==
  ASSUME LinksInv, RelocateMove
  PROVE  Stored' = Stored
<1> DEFINE At(p) == {i \in Slots : <<cells[i].key, cells[i].val>> = p}
           Later(p) == {i \in Slots : <<cells'[i].key, cells'[i].val>> = p}
           moved == <<cells[idx].key, cells[idx].val>>
<1>1. \A p \in Key \X (Value \cup {Nil}) : p # moved => Later(p) = At(p)
  BY EntryLeaves DEF IsEmpty
<1>2. /\ Later(moved) = (At(moved) \ {idx}) \cup {to}
      /\ idx \in At(moved)
      /\ to \notin At(moved) \ {idx}
  BY EntryLeaves DEF IsEmpty
<1>3. IsFiniteSet(At(moved))
  <2>1. 0 \in Int /\ size - 1 \in Int
    BY EntryLeaves DEF TypeOK
  <2>2. IsFiniteSet(Slots)
    BY <2>1, FS_Interval DEF Slots
  <2> QED
    BY <2>2, FS_Subset
<1>4. Cardinality(Later(moved)) = Cardinality(At(moved))
  <2>1. /\ IsFiniteSet(At(moved) \ {idx})
        /\ Cardinality(At(moved) \ {idx}) = Cardinality(At(moved)) - 1
    BY <1>2, <1>3, FS_RemoveElement
  <2>2. Cardinality((At(moved) \ {idx}) \cup {to}) = Cardinality(At(moved) \ {idx}) + 1
    BY <1>2, <2>1, FS_AddElement
  <2>3. Cardinality(At(moved)) \in Nat
    BY <1>3, FS_CardinalityType
  <2>4. Later(moved) = (At(moved) \ {idx}) \cup {to}
    BY <1>2
  <2> HIDE DEF At, Later, moved
  <2> QED
    BY <2>1, <2>2, <2>3, <2>4
<1>5. \A p \in Key \X (Value \cup {Nil}) : Cardinality(Later(p)) = Cardinality(At(p))
  BY <1>1, <1>4
<1>6. Stored' = [p \in Key \X (Value \cup {Nil}) |-> Cardinality(Later(p))]
  BY EntryLeaves DEF Stored, Slots
<1> HIDE DEF At, Later
<1> QED
  BY <1>5, <1>6 DEF Stored, At

\* FindSlot, run for a lookup, may move the entry in its way (Hashtable.cpp:156),
\* and so it does in tables with broken chains too; but after each of its steps
\* as many cells of the array hold a key with a value as before.
THEOREM LookupsKeep == Spec => LookupsKeepEntries
<1> DEFINE A == call.op = "get" /\ pc # "idle" => Stored' = Stored
<1>1. LinksInv /\ CallsInOrder /\ [Next]_vars => [A]_vars
  <2> SUFFICES ASSUME LinksInv, CallsInOrder, Next, call.op = "get", pc # "idle"
               PROVE  Stored' = Stored
    OBVIOUS
  <2>1. CASE UNCHANGED <<size, cells>>
    BY <2>1 DEF Stored, Slots, IsEmpty
  <2>2. CASE RelocateMove
    BY <2>2, MoveKeepsEntries
  <2>3. CASE ~RelocateMove
    <3>1. pc # "insert" /\ pc # "rehash"
      BY DEF CallsInOrder, LinksInv, TypeOK
    <3>2. UNCHANGED <<size, cells>>
      BY <2>3, <3>1
      DEF Next, Call, Get, Set, Step, FindNilKey, FindEmptySlot, FindOverflow,
          FindHead, FindChain, Walk, RelocateAssert, RelocateStep, InsertHome,
          InsertOverflow, Grow, Rehash, GrowReturns, Halted, Found
    <3> QED
      BY <2>1, <3>2
  <2> QED
    BY <2>2, <2>3
<1>2. Init => LinksInv /\ CallsInOrder
  BY InitLinks, InitCalls
<1>3. LinksInv /\ CallsInOrder /\ [Next]_vars => LinksInv' /\ CallsInOrder'
  <2> SUFFICES ASSUME LinksInv, CallsInOrder, [Next]_vars
               PROVE  LinksInv' /\ CallsInOrder'
    OBVIOUS
  <2>1. CASE Next
    BY <2>1, LinksInvStep, CallsInOrderStep DEF LinksInv
  <2>2. CASE UNCHANGED vars
    BY <2>2, LinksInvStep DEF vars, CallsInOrder
  <2> QED
    BY <2>1, <2>2
<1> QED
  BY <1>1, <1>2, <1>3, PTL DEF Spec, LookupsKeepEntries

-----------------------------------------------------------------------------
(***************************************************************************)
(* The capacity that is counted is there.                                  *)
(***************************************************************************)

Empties == {i \in Slots : IsEmpty(i)}

LEMMA EmptiesCounted ==
  ASSUME TypeOK
  PROVE  IsFiniteSet(Empties) /\ Cardinality(Empties) \in Nat
<1>0. 0 \in Int /\ size - 1 \in Int
  BY DEF TypeOK
<1>1. IsFiniteSet(Slots)
  BY <1>0, FS_Interval DEF Slots
<1>2. IsFiniteSet(Empties)
  BY <1>1, FS_Subset DEF Empties
<1> QED
  BY <1>2, FS_CardinalityType

\* Filling one cell, whether it was empty or not, costs one empty cell at most.
LEMMA FillingCostsOne ==
  ASSUME TypeOK, UNCHANGED size, NEW t \in Slots,
         \A m \in Slots : m # t => cells'[m].key = cells[m].key,
         cells'[t].key # Nil
  PROVE  /\ Cardinality(Empties') \in Nat
         /\ Cardinality(Empties') >= Cardinality(Empties) - 1
<1>1. Empties' = Empties \ {t}
  BY DEF Empties, IsEmpty, Slots
<1>2. IsFiniteSet(Empties) /\ Cardinality(Empties) \in Nat
  BY EmptiesCounted
<1>3. /\ IsFiniteSet(Empties \ {t})
      /\ \/ Cardinality(Empties \ {t}) = Cardinality(Empties)
         \/ Cardinality(Empties \ {t}) = Cardinality(Empties) - 1
  BY <1>2, FS_RemoveElement
<1>4. Cardinality(Empties \ {t}) \in Nat
  BY <1>3, FS_CardinalityType
<1> QED
  BY <1>1, <1>2, <1>3, <1>4

LEMMA MoveKeepsCount ==
  ASSUME LinksInv, RelocateMove
  PROVE  Cardinality(Empties') = Cardinality(Empties)
<1>1. /\ TypeOK /\ idx \in Slots /\ to \in Slots /\ UNCHANGED size
      /\ ~IsEmpty(idx)
  BY DEF LinksInv, TypeOK, RelocationPlanned, RelocateMove
<1>2. IsEmpty(to) /\ to # idx
  BY <1>1, RelocateStays DEF RelocateMove
<1>3. \A m \in Slots :
        cells'[m].key = (IF m = idx THEN Nil
                         ELSE IF m = to THEN cells[idx].key ELSE cells[m].key)
  BY <1>1, EntryMoved
<1>4. Empties' = (Empties \ {to}) \cup {idx}
  BY <1>1, <1>2, <1>3 DEF Empties, IsEmpty, Slots
<1>5. to \in Empties /\ idx \notin Empties \ {to}
  BY <1>1, <1>2 DEF Empties
<1>6. /\ IsFiniteSet(Empties \ {to})
      /\ Cardinality(Empties \ {to}) = Cardinality(Empties) - 1
  BY <1>1, <1>5, EmptiesCounted, FS_RemoveElement
<1>7. Cardinality((Empties \ {to}) \cup {idx}) = Cardinality(Empties \ {to}) + 1
  BY <1>5, <1>6, FS_AddElement
<1> QED
  BY <1>1, <1>4, <1>6, <1>7, EmptiesCounted

CountInv == LinksInv /\ CapacityBacked

LEMMA CountInvStep == CountInv /\ [Next]_vars => CountInv'
<1> SUFFICES ASSUME CountInv, [Next]_vars
             PROVE  CapacityBacked'
  BY LinksInvStep DEF CountInv
<1>1. /\ LinksInv /\ TypeOK /\ remaining <= Cardinality(Empties)
      /\ remaining \in Nat /\ Cardinality(Empties) \in Nat
  BY EmptiesCounted DEF CountInv, LinksInv, TypeOK, CapacityBacked, Empties
<1> SUFFICES remaining' <= Cardinality(Empties')
  BY DEF CapacityBacked, Empties
<1>2. CASE UNCHANGED <<size, remaining>> /\ Empties' = Empties
  BY <1>1, <1>2
<1>3. CASE UNCHANGED <<size, remaining, cells>>
  BY <1>2, <1>3 DEF Empties, IsEmpty, Slots
<1>4. ASSUME NEW i \in Slots, Found(i), UNCHANGED <<size, remaining>>
      PROVE  remaining' <= Cardinality(Empties')
  <2>1. CASE UNCHANGED cells
    BY <1>3, <1>4, <2>1
  <2>2. CASE cells' = [cells EXCEPT ![i].val = call.val]
    <3>1. \A m \in Slots : cells'[m].key = cells[m].key
      BY <1>1, <2>2, ValueWritten DEF TypeOK
    <3> QED
      BY <1>2, <1>4, <3>1 DEF Empties, IsEmpty, Slots
  <2> QED
    BY <1>4, <2>1, <2>2 DEF Found
<1>5. CASE FindHead
  <2>1. Home(call.key) \in Slots
    BY <1>1, <1>5, HomeIsSlot DEF FindHead, TypeOK
  <2> QED
    BY <1>4, <1>5, <2>1 DEF FindHead
<1>6. CASE Walk
  BY <1>3, <1>4, <1>6 DEF Walk
<1>7. CASE RelocateMove
  BY <1>1, <1>7, MoveKeepsCount DEF RelocateMove
<1>8. CASE InsertHome
  <2>1. /\ idx \in Slots /\ call.key # Nil /\ UNCHANGED size
        /\ remaining' = remaining - 1
    BY <1>1, <1>8 DEF InsertHome, TypeOK, LinksInv, KeyGiven
  <2>2. /\ \A m \in Slots : m # idx => cells'[m].key = cells[m].key
        /\ cells'[idx].key = call.key
    BY <1>1, <1>8 DEF InsertHome, TypeOK, FreshEntry
  <2>3. /\ Cardinality(Empties') \in Nat
        /\ Cardinality(Empties') >= Cardinality(Empties) - 1
    BY <1>1, <2>1, <2>2, FillingCostsOne
  <2> QED
    BY <1>1, <2>1, <2>3
<1>9. CASE InsertOverflow
  <2>1. /\ idx \in Slots /\ call.key \in Key /\ UNCHANGED size
        /\ remaining' = remaining - 1
    BY <1>1, <1>9 DEF InsertOverflow, TypeOK, LinksInv, KeyGiven
  <2>2. ASSUME NEW t \in FindEmptyCell(idx),
               cells' = [cells EXCEPT ![t] = FreshEntry(call.key, call.val),
                                      ![idx].next = t - idx]
        PROVE  remaining' <= Cardinality(Empties')
    <3>1. t \in Slots
      BY <1>1, <2>1, EmptyCellFacts
    <3>2. PICK e \in Entry : e = FreshEntry(call.key, call.val) /\ e.key = call.key
      <4>1. FreshEntry(call.key, call.val) \in Entry
        BY <1>1, <2>1 DEF TypeOK, FreshEntry, Entry
      <4> QED
        BY <4>1 DEF FreshEntry
    <3>3. \A m \in Slots :
            /\ cells'[m].key = (IF m = t THEN e.key ELSE cells[m].key)
            /\ cells'[m].val = (IF m = t THEN e.val ELSE cells[m].val)
            /\ cells'[m].next = (IF m = idx THEN t - idx
                                 ELSE IF m = t THEN e.next ELSE cells[m].next)
      <4>1. cells' = [cells EXCEPT ![t] = e, ![idx].next = t - idx]
        BY <2>2, <3>2
      <4> QED
        BY <1>1, <3>1, <4>1, EntryLinked
    <3>4. /\ Cardinality(Empties') \in Nat
          /\ Cardinality(Empties') >= Cardinality(Empties) - 1
      BY <1>1, <2>1, <3>1, <3>2, <3>3, FillingCostsOne
    <3> QED
      BY <1>1, <2>1, <3>4
  <2>3. CASE UNCHANGED cells
    <3>1. Empties' = Empties
      BY <2>1, <2>3 DEF Empties, IsEmpty, Slots
    <3> QED
      BY <1>1, <2>1, <3>1
  <2> QED
    BY <1>9, <2>2, <2>3 DEF InsertOverflow, Distance
<1>10. CASE Grow
  <2>1. size' = 2 * size /\ remaining' = 2 * size /\ cells' = FreshCells(2 * size)
    BY <1>10 DEF Grow, Initialize
  <2>2. Empties' = 0 .. 2 * size - 1
    BY <2>1 DEF Empties, Slots, IsEmpty, FreshCells, NoEntry
  <2>3. 0 \in Int /\ 2 * size - 1 \in Int /\ ~(0 > 2 * size - 1) /\ size \in Nat
    BY <1>1 DEF TypeOK
  <2>4. Cardinality(Empties') = 2 * size - 1 - 0 + 1
    BY <2>2, <2>3, FS_Interval
  <2> QED
    BY <2>1, <2>3, <2>4
<1> QED
  BY <1>3, <1>5, <1>6, <1>7, <1>8, <1>9, <1>10
  DEF Next, Call, Get, Set, Step, FindNilKey, FindEmptySlot, FindOverflow, FindChain,
      RelocateAssert, RelocateStep, Rehash, GrowReturns, Halted, vars

\* Whatever state a table is in, an insertion that passes Set's test of the
\* capacity (Hashtable.cpp:71) has an empty cell somewhere in the array.
THEOREM CapacityIsBacked == Spec => []CapacityBacked
<1>1. Init => CountInv
  <2> SUFFICES ASSUME Init
               PROVE  CountInv
    OBVIOUS
  <2>1. Empties = 0 .. InitSize - 1
    BY DEF Init, Empties, Slots, IsEmpty, FreshCells, NoEntry
  <2>2. Cardinality(Empties) = InitSize
    BY <2>1, FS_Interval
  <2> QED
    BY <2>2, InitLinks DEF Init, CountInv, CapacityBacked, Empties
<1>2. CountInv /\ [Next]_vars => CountInv'
  BY CountInvStep
<1>3. CountInv => CapacityBacked
  BY DEF CountInv
<1> QED
  BY <1>1, <1>2, <1>3, PTL DEF Spec

-----------------------------------------------------------------------------
(***************************************************************************)
(* What becomes of the cell that FindEmptyCell finds below its start.      *)
(***************************************************************************)

LEMMA LinksAlways == Spec => []LinksInv
BY InitLinks, LinksInvStep, PTL DEF Spec

\* The second loop of FindEmptyCell (RefArray.cpp:14) finds no room: a Set that
\* uses it writes over an entry, and counts one cell less all the same.
THEOREM DownwardOverwrites ==
  Spec => [][InsertOverflow /\ EmptyAbove(idx) = {} /\ pc' # "aborted"
               => Empties' = Empties /\ remaining' = remaining - 1]_vars
<1>1. ASSUME LinksInv, InsertOverflow, EmptyAbove(idx) = {}, pc' # "aborted"
      PROVE  Empties' = Empties /\ remaining' = remaining - 1
  <2>1. /\ TypeOK /\ idx \in Slots /\ ~IsEmpty(idx) /\ call.key \in Key
        /\ UNCHANGED size /\ remaining' = remaining - 1
    BY <1>1 DEF InsertOverflow, LinksInv, TypeOK, KeyGiven
  <2>2. PICK t \in FindEmptyCell(idx) :
          cells' = [cells EXCEPT ![t] = FreshEntry(call.key, call.val),
                                 ![idx].next = t - idx]
    BY <1>1 DEF InsertOverflow, Distance, Fail
  <2>3. t \in Slots
    BY <2>1, EmptyCellFacts
  <2>4. ~IsEmpty(t)
    <3>1. CASE t > idx
      BY <1>1, <2>1, <2>3, <3>1 DEF EmptyAbove, Slots, TypeOK
    <3>2. CASE \A j \in t .. size - 1 : ~IsEmpty(j)
      BY <2>1, <2>3, <3>2 DEF Slots, TypeOK
    <3> QED
      BY <2>1, <3>1, <3>2, WhereCellsAre
  <2>5. PICK e \in Entry : e = FreshEntry(call.key, call.val) /\ e.key = call.key
    <3>1. FreshEntry(call.key, call.val) \in Entry
      BY <2>1 DEF TypeOK, FreshEntry, Entry
    <3> QED
      BY <3>1 DEF FreshEntry
  <2>6. \A m \in Slots :
          /\ cells'[m].key = (IF m = t THEN e.key ELSE cells[m].key)
          /\ cells'[m].val = (IF m = t THEN e.val ELSE cells[m].val)
          /\ cells'[m].next = (IF m = idx THEN t - idx
                               ELSE IF m = t THEN e.next ELSE cells[m].next)
    <3>1. cells' = [cells EXCEPT ![t] = e, ![idx].next = t - idx]
      BY <2>2, <2>5
    <3> QED
      BY <2>1, <2>3, <3>1, EntryLinked
  <2>7. \A m \in Slots : cells'[m].key = Nil <=> cells[m].key = Nil
    BY <2>1, <2>4, <2>5, <2>6 DEF IsEmpty
  <2> QED
    BY <2>1, <2>7 DEF Empties, IsEmpty, Slots
<1> QED
  BY <1>1, LinksAlways, PTL DEF Spec

\* Nor does Relocate ever use it: the assertion at RefArray.cpp:32, that the
\* target is empty, lets entries climb only.
THEOREM EntriesMoveUp == Spec => [][RelocateMove => idx < to]_vars
<1>1. ASSUME LinksInv, RelocateMove
      PROVE  idx < to
  <2>1. /\ TypeOK /\ idx \in Slots /\ to \in Slots /\ ~IsEmpty(idx)
        /\ to \in FindEmptyCell(idx)
    BY <1>1 DEF RelocateMove, LinksInv, TypeOK, RelocationPlanned
  <2>2. IsEmpty(to)
    BY <1>1, <2>1, RelocateStays DEF RelocateMove
  <2>3. to \in to .. size - 1
    BY <2>1 DEF Slots, TypeOK
  <2> QED
    BY <2>1, <2>2, <2>3, WhereCellsAre
<1> QED
  BY <1>1, LinksAlways, PTL DEF Spec
=============================================================================
