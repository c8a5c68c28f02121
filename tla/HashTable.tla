------------------------------ MODULE HashTable ------------------------------
(***************************************************************************)
(* The open-addressed, chained hash table of Hashtable.cpp, HashTable.hpp  *)
(* and RefArray.cpp.  A table owns one backing array of entries; every     *)
(* entry carries its key, its value and `next', the distance to the next   *)
(* entry of its chain (0 ends the chain).  The first entry of a chain sits *)
(* in the home slot of its keys; the others sit in whatever cell           *)
(* RefArray::FindEmptyCell offered when they were inserted.                *)
(*                                                                         *)
(* HashTable::Get and HashTable::Set run one at a time (the interpreter is *)
(* single threaded), so an operation is a sequence of steps of one         *)
(* program counter: a call, HashTable::FindSlot's probe of the home slot,  *)
(* one step per turn of each of its two unbounded loops (the chain walk    *)
(* and the predecessor search of RefArray::Relocate), Set's insertion, and *)
(* one step per entry that HashTable::Grow rehashes.                       *)
(*                                                                         *)
(* Assertions are live: CMakeLists.txt selects no build type, so NDEBUG is *)
(* not defined and a failed assert() stops the process.  The variable      *)
(* `fault' names the assertion that failed.                                *)
(***************************************************************************)
EXTENDS Integers, FiniteSets

CONSTANTS
  Key,        \* the non-nil key values, up to Value::operator==
  Value,      \* the values stored under them
  Nil,        \* Value::Kind::NILL
  NotFound,   \* the nullptr HashTable::Get answers
  SetKey,     \* the keys callers pass to Set: Key, and Nil where nothing guards
  InitSize,   \* the size given to Initialize when the table is created
  Hashes      \* the hash functions a run may have (std::hash is unspecified)

ASSUME NilAssumption    == Nil \notin Key
ASSUME AnswerAssumption == NotFound \notin Value \cup {Nil}
ASSUME SetKeyAssumption == SetKey \subseteq Key \cup {Nil}
ASSUME SizeAssumption   == InitSize \in Nat \ {0}
ASSUME HashAssumption   == Hashes \subseteq [Key -> Nat]

VARIABLES
  hash,       \* Value::Hash of every key, fixed for the life of the process
  size,       \* HashTable::size_ (and RefArray::size_ of the backing array)
  remaining,  \* HashTable::remainingCapacity_
  cells,      \* HashTable::backingArray_->entries_
  pc,         \* where the running operation is; "idle" when none is running
  call,       \* the operation being run, or the last one that was run
  idx,        \* FindSlot's and Set's idx
  to,         \* Relocate's target cell
  cur,        \* Relocate's walking index
  depth,      \* the number of activations of Grow on the stack
  frame,      \* the innermost of them: its old array, and its loop index
  ret,        \* the answer of the last Get
  fault       \* the assertion that stopped the process

vars == <<hash, size, remaining, cells, pc, call, idx, to, cur, depth, frame,
          ret, fault>>

locals == <<idx, to, cur>>

growing == <<depth, frame>>

-----------------------------------------------------------------------------
(* Entries and slots. *)

Entry == [key : Key \cup {Nil}, next : Int, val : Value \cup {Nil}]

NoEntry == [key |-> Nil, next |-> 0, val |-> Nil]

FreshEntry(k, v) == [key |-> k, next |-> 0, val |-> v]

\* RefArray::Allocate hands out zeroed memory, and Kind::NILL is 0.
FreshCells(sz) == [i \in 0 .. sz - 1 |-> NoEntry]

Slots == 0 .. size - 1

Home(k) == hash[k] % size

IsEmpty(i) == cells[i].key = Nil

\* Mutant: the link is the index of the target, not its offset.
DistanceFromOrigin(i, j) == j

\* What an entry in cell i holds as its next when the next one is in cell j.
Distance(i, j) == j - i

-----------------------------------------------------------------------------
(***************************************************************************)
(* RefArray::FindEmptyCell(start).  The first loop answers the first empty *)
(* cell above start.  The second one tests cell i - 1 and answers i.  The  *)
(* set is empty exactly when one of the two assertions fails.              *)
(***************************************************************************)
EmptyAbove(start) == {i \in start + 1 .. size - 1 : IsEmpty(i)}

EmptyBelow(start) == {i \in 1 .. start : IsEmpty(i - 1)}

\* Mutant: the lower part of the array is searched first.
FindEmptyCellDown(start) ==
  IF EmptyBelow(start) # {} /\ start > 1
    THEN {i \in EmptyBelow(start) : \A j \in EmptyBelow(start) : j <= i}
    ELSE {i \in EmptyAbove(start) : \A j \in EmptyAbove(start) : i <= j}

FindEmptyCell(start) ==
  IF EmptyAbove(start) # {}
    THEN {i \in EmptyAbove(start) : \A j \in EmptyAbove(start) : i <= j}
    ELSE {i \in EmptyBelow(start) : /\ start > 1
                                    /\ \A j \in EmptyBelow(start) : j <= i}

EmptyCellFault(start) == IF start > 1 THEN "no_cell" ELSE "start_too_low"

-----------------------------------------------------------------------------
(* Ways for a step of an operation to end. *)

Fail(f) == /\ pc' = "aborted"
           /\ fault' = f

\* The operation returns: to its caller, or to the Grow loop that called Set.
Return == /\ pc' = IF depth = 0 THEN "idle" ELSE "rehash"
          /\ idx' = 0 /\ to' = 0 /\ cur' = 0
          /\ UNCHANGED fault

\* Mutant: Set leaves the old value of a key that is there.
FoundUnwritten(i) ==
  /\ Return
  /\ UNCHANGED cells
  /\ ret' = IF call.op = "get" THEN cells[i].val ELSE ret

\* FindSlot answers true with *index = i.
Found(i) ==
  /\ Return
  /\ \/ /\ call.op = "get"
        /\ ret' = cells[i].val
        /\ UNCHANGED cells
     \/ /\ call.op = "set"
        /\ cells' = [cells EXCEPT ![i].val = call.val]
        /\ UNCHANGED ret

\* Mutant: the head of the chain is reported, not its end.
MissingAtHead(i) ==
  \/ /\ call.op = "get"
     /\ Return
     /\ ret' = NotFound
  \/ /\ call.op = "set"
     /\ pc' = "insert"
     /\ idx' = Home(call.key) /\ to' = 0 /\ cur' = 0
     /\ UNCHANGED <<ret, fault>>

\* Mutant: a lookup answers what is in the slot, without looking at the key.
MissingAnswersSlot(i) ==
  \/ /\ call.op = "get"
     /\ Return
     /\ ret' = cells[i].val
  \/ /\ call.op = "set"
     /\ pc' = "insert"
     /\ idx' = i /\ to' = 0 /\ cur' = 0
     /\ UNCHANGED <<ret, fault>>

\* FindSlot answers false with *index = i.
Missing(i) ==
  \/ /\ call.op = "get"
     /\ Return
     /\ ret' = NotFound
  \/ /\ call.op = "set"
     /\ pc' = "insert"
     /\ idx' = i /\ to' = 0 /\ cur' = 0
     /\ UNCHANGED <<ret, fault>>

-----------------------------------------------------------------------------
(* Calls. *)

Init ==
  /\ hash \in Hashes
  /\ size = InitSize
  /\ remaining = InitSize
  /\ cells = FreshCells(InitSize)
  /\ pc = "idle"
  /\ call = [op |-> "get", key |-> Nil, val |-> Nil]
  /\ idx = 0 /\ to = 0 /\ cur = 0
  /\ depth = 0
  /\ frame = [old |-> FreshCells(0), sz |-> 0, i |-> 0]
  /\ ret = Nil
  /\ fault = "none"

Get(k) ==
  /\ pc = "idle"
  /\ pc' = "find"
  /\ call' = [op |-> "get", key |-> k, val |-> Nil]
  /\ ret' = Nil
  /\ UNCHANGED <<size, remaining, cells, locals, growing, fault>>

Set(k, v) ==
  /\ pc = "idle"
  /\ pc' = "find"
  /\ call' = [op |-> "set", key |-> k, val |-> v]
  /\ ret' = Nil
  /\ UNCHANGED <<size, remaining, cells, locals, growing, fault>>

-----------------------------------------------------------------------------
(***************************************************************************)
(* HashTable::FindSlot.  Its first part looks at the home slot of the key: *)
(* the slot is empty, or holds an entry of another chain that must give    *)
(* way (even when the caller only looks a key up), or starts the chain to  *)
(* be walked.                                                              *)
(***************************************************************************)
FindNilKey ==
  /\ pc = "find"
  /\ call.key = Nil
  /\ Fail("nil_key")
  /\ UNCHANGED <<size, remaining, cells, call, locals, growing, ret>>

FindEmptySlot ==
  /\ pc = "find"
  /\ call.key # Nil
  /\ IsEmpty(Home(call.key))
  /\ Missing(Home(call.key))
  /\ UNCHANGED <<size, remaining, cells, call, growing>>

FindOverflow ==
  LET h == Home(call.key) IN
  /\ pc = "find"
  /\ call.key # Nil
  /\ ~IsEmpty(h)
  /\ Home(cells[h].key) # h
  /\ \/ \E t \in FindEmptyCell(h) :
          /\ pc' = "relocate"
          /\ idx' = h
          /\ to' = t
          /\ cur' = Home(cells[h].key)
          /\ UNCHANGED fault
     \/ /\ FindEmptyCell(h) = {}
        /\ Fail(EmptyCellFault(h))
        /\ UNCHANGED locals
  /\ UNCHANGED <<size, remaining, cells, call, growing, ret>>

FindHead ==
  LET h == Home(call.key) IN
  /\ pc = "find"
  /\ call.key # Nil
  /\ cells[h].key = call.key
  /\ Found(h)
  /\ UNCHANGED <<size, remaining, call, growing>>

FindChain ==
  LET h == Home(call.key) IN
  /\ pc = "find"
  /\ call.key # Nil
  /\ cells[h].key \notin {Nil, call.key}
  /\ Home(cells[h].key) = h
  /\ pc' = "walk"
  /\ idx' = h
  /\ UNCHANGED <<size, remaining, cells, call, to, cur, growing, ret, fault>>

\* One turn of FindSlot's while loop.  An offset that leaves the array wraps
\* idx, an unsigned number, around or past the end: the same assertion fails.
Walk ==
  LET n == cells[idx].next
      j == idx + n
  IN
  /\ pc = "walk"
  /\ \/ /\ n = 0
        /\ Missing(idx)
        /\ UNCHANGED cells
     \/ /\ n # 0
        /\ j \notin Slots
        /\ Fail("walk_range")
        /\ UNCHANGED <<cells, locals, ret>>
     \/ /\ n # 0
        /\ j \in Slots
        /\ cells[j].key = call.key
        /\ Found(j)
     \/ /\ n # 0
        /\ j \in Slots
        /\ cells[j].key # call.key
        /\ idx' = j
        /\ UNCHANGED <<cells, pc, to, cur, ret, fault>>
  /\ UNCHANGED <<size, remaining, call, growing>>

-----------------------------------------------------------------------------
(***************************************************************************)
(* RefArray::Relocate(idx, to): find the predecessor of cell idx on the    *)
(* chain that starts at the home of the key stored there, then move the    *)
(* entry.  The entry keeps its own `next' although its place changes.      *)
(***************************************************************************)
\* Mutant: nothing asserts that the target is empty.
RelocateFaultUnchecked ==
  LET n == cells[cur].next
      j == cur + n
  IN CASE n = 0                             -> "no_successor"
       [] j \notin Slots                    -> "relocate_range"
       [] j \in Slots \ {idx} /\ IsEmpty(j) -> "relocate_hole"
       [] OTHER                             -> "none"

\* Mutant: nothing asserts that the chain goes on.
RelocateFaultEndless ==
  LET n == cells[cur].next
      j == cur + n
  IN CASE j = idx /\ ~IsEmpty(to)           -> "target_taken"
       [] j \notin Slots                    -> "relocate_range"
       [] j \in Slots \ {idx} /\ IsEmpty(j) -> "relocate_hole"
       [] OTHER                             -> "none"

RelocateFault ==
  LET n == cells[cur].next
      j == cur + n
  IN CASE n = 0                             -> "no_successor"
       [] j = idx /\ ~IsEmpty(to)           -> "target_taken"
       [] j \notin Slots                    -> "relocate_range"
       [] j \in Slots \ {idx} /\ IsEmpty(j) -> "relocate_hole"
       [] OTHER                             -> "none"

RelocateAssert ==
  /\ pc = "relocate"
  /\ RelocateFault # "none"
  /\ Fail(RelocateFault)
  /\ UNCHANGED <<size, remaining, cells, call, locals, growing, ret>>

RelocateStep ==
  /\ pc = "relocate"
  /\ RelocateFault = "none"
  /\ cur + cells[cur].next # idx
  /\ cur' = cur + cells[cur].next
  /\ UNCHANGED <<size, remaining, cells, pc, call, idx, to, growing, ret, fault>>

\* The three assignments happen in this order; cur and to may be one cell.
RelocateMove ==
  /\ pc = "relocate"
  /\ RelocateFault = "none"
  /\ cur + cells[cur].next = idx
  /\ cells' = [cells EXCEPT ![to]       = cells[idx],
                            ![cur].next = Distance(cur, to),
                            ![idx].key  = Nil,
                            ![idx].val  = Nil]
  /\ Missing(idx)
  /\ UNCHANGED <<size, remaining, call, growing>>

-----------------------------------------------------------------------------
(* HashTable::Set, from the test of the capacity on; the key is not there. *)

\* Mutant: the early return leaves the capacity as it was.
InsertHomeUncounted ==
  /\ pc = "insert"
  /\ remaining > 0
  /\ IsEmpty(idx)
  /\ cells' = [cells EXCEPT ![idx] = FreshEntry(call.key, call.val)]
  /\ Return
  /\ UNCHANGED <<size, remaining, call, growing, ret>>

InsertHome ==
  /\ pc = "insert"
  /\ remaining > 0
  /\ IsEmpty(idx)
  /\ remaining' = remaining - 1
  /\ cells' = [cells EXCEPT ![idx] = FreshEntry(call.key, call.val)]
  /\ Return
  /\ UNCHANGED <<size, call, growing, ret>>

\* The entry is written before the link to it: when FindEmptyCell answers idx
\* itself the link overwrites the new entry's own `next' with 0.
InsertOverflow ==
  /\ pc = "insert"
  /\ remaining > 0
  /\ ~IsEmpty(idx)
  /\ remaining' = remaining - 1
  /\ \/ \E j \in FindEmptyCell(idx) :
          /\ cells' = [cells EXCEPT ![j] = FreshEntry(call.key, call.val),
                                    ![idx].next = Distance(idx, j)]
          /\ Return
     \/ /\ FindEmptyCell(idx) = {}
        /\ Fail(EmptyCellFault(idx))
        /\ UNCHANGED <<cells, locals>>
  /\ UNCHANGED <<size, call, growing, ret>>

-----------------------------------------------------------------------------
(***************************************************************************)
(* HashTable::Grow(size_ * 2), called by Set when no capacity remains: a   *)
(* fresh array by Initialize, then one Set per entry of the old one.  When *)
(* Grow returns, Set's assert(false) stops the process.  So the arguments  *)
(* of an interrupted Set and the frames of outer activations are never     *)
(* read again, and only the innermost frame is kept.                       *)
(***************************************************************************)
\* Mutant: the new array is used with the old size.
InitializeOldSize(sz) == /\ cells' = FreshCells(sz)
                         /\ remaining' = sz
                         /\ UNCHANGED size

\* Mutant: the capacity is not reset.
InitializeOldCapacity(sz) == /\ cells' = FreshCells(sz)
                             /\ size' = sz
                             /\ UNCHANGED remaining

Initialize(sz) == /\ cells' = FreshCells(sz)
                  /\ size' = sz
                  /\ remaining' = sz

Grow ==
  /\ pc = "insert"
  /\ remaining = 0
  /\ depth' = depth + 1
  /\ frame' = [old |-> cells, sz |-> size, i |-> 0]
  /\ Initialize(2 * size)
  /\ pc' = "rehash"
  /\ idx' = 0 /\ to' = 0 /\ cur' = 0
  /\ UNCHANGED <<call, ret, fault>>

Rehash ==
  LET e == frame.old[frame.i] IN
  /\ pc = "rehash"
  /\ frame.i < frame.sz
  /\ frame' = [frame EXCEPT !.i = @ + 1]
  /\ \/ /\ e.key = Nil
        /\ UNCHANGED <<pc, call>>
     \/ /\ e.key # Nil
        /\ pc' = "find"
        /\ call' = [op |-> "set", key |-> e.key, val |-> e.val]
  /\ UNCHANGED <<size, remaining, cells, locals, depth, ret, fault>>

GrowReturns ==
  /\ pc = "rehash"
  /\ frame.i = frame.sz
  /\ Fail("grow_returned")
  /\ UNCHANGED <<size, remaining, cells, call, locals, growing, ret>>

-----------------------------------------------------------------------------
Halted == /\ pc = "aborted"
          /\ UNCHANGED <<size, remaining, cells, pc, call, locals, growing, ret,
                         fault>>

\* The steps the program takes on its own once an operation has been called.
Step ==
  \/ FindNilKey \/ FindEmptySlot \/ FindOverflow \/ FindHead \/ FindChain
  \/ Walk
  \/ RelocateAssert \/ RelocateStep \/ RelocateMove
  \/ InsertHome \/ InsertOverflow
  \/ Grow \/ Rehash \/ GrowReturns

Call == \/ \E k \in Key : Get(k)
        \/ \E k \in SetKey, v \in Value : Set(k, v)

Next == /\ Call \/ Step \/ Halted
        /\ UNCHANGED hash

Spec == Init /\ [][Next]_vars

\* Nothing blocks the one thread inside an operation.
FairSpec == Spec /\ WF_vars(Step /\ UNCHANGED hash)

-----------------------------------------------------------------------------
Faults == {"nil_key", "start_too_low", "no_cell", "walk_range",
           "no_successor", "target_taken", "relocate_range", "relocate_hole",
           "grow_returned"}

TypeOK ==
  /\ hash \in Hashes
  /\ size \in Nat \ {0}
  /\ remaining \in 0 .. size
  /\ cells \in [Slots -> Entry]
  /\ pc \in {"idle", "find", "walk", "relocate", "insert", "rehash", "aborted"}
  /\ call \in [op : {"get", "set"}, key : Key \cup {Nil}, val : Value \cup {Nil}]
  /\ idx \in Slots
  /\ to \in Slots
  /\ cur \in Slots
  /\ depth \in Nat
  /\ frame.sz \in Nat
  /\ frame = [old |-> frame.old, sz |-> frame.sz, i |-> frame.i]
  /\ frame.i \in 0 .. frame.sz
  /\ frame.old \in [0 .. frame.sz - 1 -> Entry]
  /\ ret \in Value \cup {Nil, NotFound}
  /\ fault \in Faults \cup {"none"}

-----------------------------------------------------------------------------
(***************************************************************************)
(* What holds of every table, whatever the hash function: the two loops    *)
(* come to an end, and the table grows at most once.                       *)
(***************************************************************************)

\* Links that point down the array.  They appear only where FindEmptyCell
\* searched down, hence only when all the cells from the target up are taken;
\* and from the target of one, a chain never turns upwards again.
BackwardLinks ==
  \A i \in Slots : cells[i].next < 0 =>
    /\ i + cells[i].next \in Slots
    /\ \A j \in i + cells[i].next .. size - 1 : ~IsEmpty(j)
    /\ cells[i + cells[i].next].next <= 0

\* How far from its end a loop that follows links is when it stands at cell i:
\* it climbs to the highest cell it will reach, and then descends.
Rank(i) == IF cells[i].next > 0 THEN 2 * size - i ELSE i

\* Every turn of FindSlot's while loop (Hashtable.cpp:169) and of Relocate's
\* (RefArray.cpp:26) brings the loop nearer to its end.  Neither loop counts
\* its turns, and nothing in the code says that a chain has no cycle.
LoopsAdvance ==
  [][/\ pc = "walk" /\ pc' = "walk" => Rank(idx)' < Rank(idx)
     /\ pc = "relocate" /\ pc' = "relocate" => Rank(cur)' < Rank(cur)]_vars

\* The Set calls of Grow's loop (Hashtable.cpp:45) never exhaust the larger
\* array, although Set counts an entry every time FindSlot misses it: Grow,
\* which keeps the old array in a local, is not entered from inside itself.
GrowNeverNests == depth <= 1

\* remainingCapacity_ never promises more cells than are empty, so an insertion
\* that passes the test of Hashtable.cpp:71 has an empty cell somewhere.
CapacityBacked ==
  remaining <= Cardinality({i \in Slots : IsEmpty(i)})

\* How many cells hold the entry of a key and a value.
Stored == [p \in Key \X (Value \cup {Nil}) |->
             Cardinality({i \in Slots : <<cells[i].key, cells[i].val>> = p})]

\* A lookup moves entries (Hashtable.cpp:151-156) but neither drops, adds,
\* doubles nor changes one, even where the chains it moves them on are broken.
LookupsKeepEntries == [][call.op = "get" /\ pc # "idle" => Stored' = Stored]_vars

\* Every operation answers, or an assertion stops the process.
OperationsEnd == pc # "idle" ~> pc \in {"idle", "aborted"}

-----------------------------------------------------------------------------
(***************************************************************************)
(* What the assertions and the comments of the code claim and the code     *)
(* does not keep.                                                          *)
(***************************************************************************)

\* The cell that a returning insertion writes to held no other entry.
TakesFreeSlot ==
  \A i \in Slots : pc = "insert" /\ pc' = "idle" /\ ~IsEmpty(i)
                      => cells'[i].key = cells[i].key

\* "otherwise get a new free slot" (Hashtable.cpp:84): the cell the new entry
\* is written to, and linked from idx, held no other entry.
NewSlotIsFree == [][TakesFreeSlot]_vars

\* The assertions of Relocate at RefArray.cpp:25, 27, 29 and 30: the chain of the
\* home slot of an entry leads to that entry.
EntriesOnTheirChains ==
  fault \notin {"no_successor", "relocate_range", "relocate_hole"}
=============================================================================
