-------------------------------- MODULE Heap --------------------------------
(***************************************************************************)
(* The heap in memory: how objects are laid out, what their constructors   *)
(* write and what they leave as it was, and what the collector makes of    *)
(* the words it finds (Object.hpp, HashTable.hpp, Value.hpp,               *)
(* ObjectAllocator.hpp, ObjectScanner.hpp, and the delegates of the glue). *)
(*                                                                         *)
(* Memory is a function from the indices of words of eight bytes.  An      *)
(* address is the index of a word, which makes it a number like any        *)
(* other: nothing but the kinds in the words themselves tells the scanner  *)
(* which words are references.  The collector of OMR is external: it       *)
(* marks what the scanner reports, one object at a time, and then walks    *)
(* the heap, which it can do only as long as Size says of every object     *)
(* what was allocated for it.  Its own header of a hole of n words is -n.  *)
(***************************************************************************)
EXTENDS Integers, Sequences

CONSTANTS
  Top,          \* the words 8 .. Top - 1 are the heap
  Lines,        \* the lines that may be typed, as the steps they evaluate in
  GlobalSize,   \* 32 in main.cpp
  TableSize,    \* HashTable::DEFAULT_SIZE
  MinimumFree   \* the least hole that the collector gives out, in words

ASSUME SizesAssumption == /\ Top \in Nat /\ Top > 8 /\ Top % 2 = 0
                          /\ GlobalSize \in Nat \ {0}
                          /\ TableSize \in Nat \ {0}
                          /\ MinimumFree \in Nat \ {0}

\* A string is known by the length of its text, in bytes.
Instruction == [op : {"string", "name", "variable"}, length : Nat]
                 \cup [op : {"number"}, number : Int]
                 \cup [op : {"newtable", "forcegc", "table", "root", "store", "print"}]

ASSUME LinesAssumption == Lines \subseteq Seq(Instruction)

VARIABLES
  memory,     \* the words
  self,       \* StackRoots: the table being initialised,
  old,        \* the array being replaced (Grow),
  idx,        \* the key of an assignment, which is rooted if it is an object
  tbl,        \* the table assigned to, not rooted, or Dangling
  result,     \* what the last Eval returned, not rooted
  code,       \* what is left of the line to do
  sz,         \* HashTable::Initialize: its argument
  pc,         \* "run" (a line), "initialize", "rehash", or "aborted"
  fault,      \* what stopped the process
  phase,      \* of the collector: "idle", "mark" or "sweep"
  marked,     \* its marks
  work,       \* marked objects that are still to be scanned
  at,         \* how far it has swept
  collected   \* the allocation under way has had its collection

program == <<self, old, idx, tbl, result, code, sz, pc, fault>>

collector == <<phase, marked, work, at, collected>>

vars == <<memory, program, collector>>

-----------------------------------------------------------------------------
(* Layout, in bytes and words. *)

Null == 0

\* What a pointer is taken for once the collector took its object back.
Dangling == 1

\* The table of that name lies before the heap.
GlobalVariables == 2

Bottom == 8

\* Object::Kind.
HashTableKind == 0
RefArrayKind  == 1
StringKind    == 2

\* Value::Kind.
NILL    == 0
OBJECT  == 1
INTEGER == 2

Nil == <<NILL, Null>>

SizeOfHashTable == 48
SizeOfString    == 24
SizeOfRefArray  == 24
SizeOfEntry     == 40

Words(bytes) == bytes \div 8

Align(size, alignment) == ((size + alignment - 1) \div alignment) * alignment

\* What is allocated for an object.
StringBytes(length) == Align(SizeOfString + length, 16)

ArrayBytes(n) == Align(SizeOfRefArray + SizeOfEntry * n, 16)

TableBytes == Align(SizeOfHashTable, 16)

\* The members.
Kind(o) == memory[o]

size_(o) == memory[o + 2]

remainingCapacity_(t) == memory[t + 3]

backingArray_(t) == memory[t + 5]

EntryAt(a, i) == a + 3 + 5 * i

Key(a, i) == <<memory[EntryAt(a, i)], memory[EntryAt(a, i) + 1]>>

Val(a, i) == <<memory[EntryAt(a, i) + 3], memory[EntryAt(a, i) + 4]>>

Indices(a) == 0 .. size_(a) - 1

IsObject(v) == v[1] = OBJECT

\* RefArray::size and StringObject::size.
ArraySize(a) == SizeOfRefArray + SizeOfEntry * size_(a)

StringSize(s) == Align(SizeOfString + size_(s), 16)

\* Mutant: the entries of an array fill it.
UnpaddedSize(o) ==
  CASE Kind(o) = HashTableKind -> Align(SizeOfHashTable, 16)
    [] Kind(o) = RefArrayKind -> ArraySize(o)
    [] Kind(o) = StringKind    -> Align(StringSize(o), 16)

Size(o) ==
  CASE Kind(o) = HashTableKind -> Align(SizeOfHashTable, 16)
    [] Kind(o) = RefArrayKind -> Align(ArraySize(o), 16)
    [] Kind(o) = StringKind    -> Align(StringSize(o), 16)

-----------------------------------------------------------------------------
(* What the glue tells the collector of an object. *)

getObjectSizeInBytesWithHeader(o) == Size(o)

isIndexable(o) == FALSE

\* Asserts that the object is not indexable.
getTotalFootprintInBytes(o) == getObjectSizeInBytesWithHeader(o)

getIndirectObject(o) == Null

\* Mutant: a payload is taken for a reference whatever its kind.
ScanWords(a) ==
  {memory[EntryAt(a, i) + 1] : i \in Indices(a)}
    \cup {memory[EntryAt(a, i) + 4] : i \in Indices(a)}

\* scanRefArray: what the entries hold that is an object, and not null.
scanRefArray(a) ==
  {v[2] : v \in {w \in {Key(a, i) : i \in Indices(a)}
                         \cup {Val(a, i) : i \in Indices(a)} : IsObject(w)}}
    \ {Null}

\* ObjectScanner::start, which scans an object to its end.  A table has no array
\* while that is allocated.
start(o) ==
  CASE Kind(o) = HashTableKind -> {backingArray_(o)} \ {Null}
    [] Kind(o) = RefArrayKind -> scanRefArray(o)
    [] Kind(o) = StringKind    -> {}

\* Nothing is left to resume.
resume(o) == {}

\* Mutant: a table is not told to be done while it has no array.
completeWithArray(o) == Kind(o) = HashTableKind => backingArray_(o) # Null

\* ScanResult: an object that is not complete is scanned again later.
complete(o) == TRUE

Edges(o) == start(o) \cup resume(o) \cup ({getIndirectObject(o)} \ {Null})

\* Mutant: the key of an assignment has no root.
StackRootsButIdx == {self, old} \ {Null}

StackRoots ==
  ({self, old} \cup (IF IsObject(idx) THEN {idx[2]} ELSE {})) \ {Null}

\* The marking function of main.cpp.
MarkingFn == {backingArray_(GlobalVariables)} \ {Null}

Roots == MarkingFn \cup StackRoots

-----------------------------------------------------------------------------
(* A walk over the heap. *)

IsHole(p) == memory[p] < 0

\* The words of a hole hold what was there before.  They are all taken for the
\* same one, which as a kind says that a reference follows, and as a reference
\* refers to nothing.
Stale == OBJECT

HoleWord(q, from, to) == IF q = from THEN -(to - from) ELSE Stale

Extent(p) == IF IsHole(p) THEN -memory[p] ELSE Words(getTotalFootprintInBytes(p))

\* Where the objects and holes begin, and where the walk ends.
Walk ==
  LET from[p \in Bottom .. Top] ==
        IF p = Top \/ p + Extent(p) \notin Bottom .. Top
          THEN {p}
          ELSE {p} \cup from[p + Extent(p)]
  IN  from[Bottom]

Objects == {p \in Walk \ {Top} : ~IsHole(p)}

Closed(T) == \A o \in T : Edges(o) \subseteq T

\* The objects that those of S lead to, and no others.
Reach(S) ==
  LET around == {T \in SUBSET Objects : S \subseteq T /\ Closed(T)}
  IN  {o \in Objects : \A T \in around : o \in T}

-----------------------------------------------------------------------------
(***************************************************************************)
(* Allocation: from the first hole that is large enough.  What is left of  *)
(* it is a hole.  The constructor then runs on the words, in the words     *)
(* after it the memory is zeroed (allocate) or as it was                   *)
(* (allocateNonZero).                                                      *)
(***************************************************************************)
Candidates(bytes) == {p \in Walk \ {Top} : /\ IsHole(p)
                                           /\ Extent(p) >= MinimumFree
                                           /\ Extent(p) >= Words(bytes)}

Fits(bytes) == Candidates(bytes) # {}

Place(bytes) == CHOOSE p \in Candidates(bytes) :
                  \A q \in Candidates(bytes) : p <= q

\* The memory once the object constructed has been put in it.
Filled(p, bytes, constructed, rest) ==
  LET end == p + Words(bytes) IN
  [q \in DOMAIN memory |->
     IF q \in p .. end - 1
       THEN IF q - p < Len(constructed) THEN constructed[q - p + 1] ELSE rest[q]
     ELSE IF q = end /\ q < p + Extent(p)
       THEN -(Extent(p) - Words(bytes))
     ELSE memory[q]]

Zeroed == [q \in DOMAIN memory |-> 0]

allocateNonZero(bytes, constructed) ==
  Filled(Place(bytes), bytes, constructed, memory)

allocate(bytes, constructed) == Filled(Place(bytes), bytes, constructed, Zeroed)

\* The hash of a string stands for its text, those of other objects are not
\* told apart.
NewString(length) ==
  <<StringKind, length, length>> \o [i \in 1 .. (length + 7) \div 8 |-> Stale]

NewTable == <<HashTableKind, 0, 0, 0, 0, Null>>

\* The constructor of RefArray leaves the entries alone.
NewArray(n) == <<RefArrayKind, 0, n>>

\* StringObject::Allocate and RefArray::Allocate.
AllocateString(length) == allocateNonZero(StringBytes(length), NewString(length))

\* Mutant: the memory of an array is not zeroed either.
AllocateArrayNonZero(n) == allocateNonZero(ArrayBytes(n), NewArray(n))

AllocateArray(n) == allocate(ArrayBytes(n), NewArray(n))

-----------------------------------------------------------------------------
Init ==
  /\ memory = [q \in GlobalVariables .. Top - 1 |->
                 IF q < Bottom THEN 0 ELSE HoleWord(q, Bottom, Top)]
  /\ self = GlobalVariables
  /\ sz = GlobalSize
  /\ pc = "initialize"
  /\ old = Null
  /\ idx = Nil
  /\ tbl = Null
  /\ result = Nil
  /\ code = <<>>
  /\ fault = "none"
  /\ phase = "idle"
  /\ marked = {}
  /\ work = {}
  /\ at = Bottom
  /\ collected = FALSE

Faults == {"out_of_memory", "root_outside_heap", "no_table", "no_array", "reclaimed",
           "nil_key", "assertion", "grow", "endless_print"}

Runs(o) == /\ pc = "run"
           /\ phase = "idle"
           /\ code # <<>>
           /\ Head(code).op = o

Continue == /\ code' = Tail(code)
            /\ collected' = FALSE
            /\ UNCHANGED <<phase, marked, work, at>>

Abort(f) == /\ pc' = "aborted"
            /\ fault' = f
            /\ UNCHANGED <<memory, self, old, idx, tbl, result, code, sz, collector>>

\* The collector ran, and its caller still finds no hole: a null pointer is
\* answered, through which a string and a table are constructed.
OutOfMemory(bytes) == /\ collected
                      /\ ~Fits(bytes)
                      /\ Abort("out_of_memory")

-----------------------------------------------------------------------------
(* The collector. *)

(* The delegates are told how far it is, and do nothing. *)

masterThreadGarbageCollectStarted == UNCHANGED memory

flushNonAllocationCaches == UNCHANGED memory

postMarkProcessing == UNCHANGED <<memory, marked>>

postCollect == UNCHANGED memory

\* Mutant: the delegate gives up walks, and small holes keep what they held.
DenyUserHeapWalk == FALSE

isAllowUserHeapWalk == TRUE

\* A root that is no object of the heap is taken to stop the process.  The
\* value of the last expression has no root, and is not used any more.
Collect(forced) ==
  \/ /\ Roots \subseteq Bottom .. Top - 1
     /\ phase' = "mark"
     /\ marked' = Roots
     /\ work' = Roots
     /\ at' = Bottom
     /\ collected' = ~forced
     /\ code' = IF forced THEN Tail(code) ELSE code
     /\ result' = Nil
     /\ flushNonAllocationCaches
     /\ masterThreadGarbageCollectStarted
     /\ UNCHANGED <<self, old, idx, tbl, sz, pc, fault>>
  \/ /\ ~(Roots \subseteq Bottom .. Top - 1)
     /\ Abort("root_outside_heap")

Scan(o) ==
  /\ phase = "mark"
  /\ marked' = marked \cup Edges(o)
  /\ work' = (IF complete(o) THEN work \ {o} ELSE work) \cup (Edges(o) \ marked)
  /\ UNCHANGED <<memory, program, phase, at, collected>>

StartSweep ==
  /\ phase = "mark"
  /\ work = {}
  /\ phase' = "sweep"
  /\ tbl' = IF tbl \in Objects \ marked THEN Dangling ELSE tbl
  /\ postMarkProcessing
  /\ UNCHANGED <<self, old, idx, result, code, sz, pc, fault, work, at, collected>>

SkipMarked ==
  /\ phase = "sweep"
  /\ at \in marked
  /\ at' = at + Words(getTotalFootprintInBytes(at))
  /\ UNCHANGED <<memory, program, phase, marked, work, collected>>

\* What lies before the next marked object becomes a hole.  One that is too
\* small to be given out is left as it is unless heap walks are allowed.
SweepGap ==
  LET after == {q \in marked : q > at} \cup {Top}
      next  == CHOOSE q \in after : \A r \in after : q <= r
  IN
  /\ phase = "sweep"
  /\ at \notin marked
  /\ at < Top
  /\ at' = next
  /\ memory' = IF next - at >= MinimumFree \/ isAllowUserHeapWalk
                 THEN [q \in DOMAIN memory |-> IF q \in at .. next - 1
                                                THEN HoleWord(q, at, next)
                                                ELSE memory[q]]
                 ELSE memory
  /\ UNCHANGED <<program, phase, marked, work, collected>>

FinishCollection ==
  /\ phase = "sweep"
  /\ at = Top
  /\ phase' = "idle"
  /\ marked' = {}
  /\ at' = Bottom
  /\ postCollect
  /\ UNCHANGED <<program, work, collected>>

-----------------------------------------------------------------------------
(* The evaluation of primaries. *)

ReadLine(l) ==
  /\ pc = "run" /\ phase = "idle"
  /\ code = <<>>
  /\ code' = l
  /\ UNCHANGED <<memory, self, old, idx, tbl, result, sz, pc, fault, collector>>

\* The end of a line, or an error in it.
BackToPrompt ==
  /\ code' = <<>>
  /\ idx' = Nil
  /\ tbl' = Null
  /\ result' = Nil
  /\ UNCHANGED collector

EvalNumber ==
  /\ Runs("number")
  /\ result' = <<INTEGER, Head(code).number>>
  /\ Continue
  /\ UNCHANGED <<memory, self, old, idx, tbl, sz, pc, fault>>

\* StringObject::Allocate, for a string or a name.
EvalString ==
  LET bytes == StringBytes(Head(code).length) IN
  /\ Runs("string") \/ Runs("name")
  /\ \/ /\ Fits(bytes)
        /\ memory' = AllocateString(Head(code).length)
        /\ result' = <<OBJECT, Place(bytes)>>
        /\ tbl' = IF Runs("name") THEN GlobalVariables ELSE tbl
        /\ Continue
        /\ UNCHANGED <<self, old, idx, sz, pc, fault>>
     \/ /\ ~Fits(bytes) /\ ~collected
        /\ Collect(FALSE)
     \/ OutOfMemory(bytes)

\* The string made of the name is left to the collector.  A strained table may
\* miss a name that is there.
EvalVariable ==
  LET bytes == StringBytes(Head(code).length)
      a     == backingArray_(GlobalVariables)
      named == {i \in Indices(a) :
                  IsObject(Key(a, i)) /\ memory[Key(a, i)[2] + 1] = Head(code).length}
  IN
  /\ Runs("variable")
  /\ \/ /\ Fits(bytes)
        /\ a # Null
        /\ memory' = AllocateString(Head(code).length)
        /\ result' \in {Nil} \cup {Val(a, i) : i \in named}
        /\ Continue
        /\ UNCHANGED <<self, old, idx, tbl, sz, pc, fault>>
     \/ /\ Fits(bytes)
        /\ a = Null
        /\ Abort("no_array")
     \/ /\ ~Fits(bytes) /\ ~collected
        /\ Collect(FALSE)
     \/ OutOfMemory(bytes)

EvalNewTable ==
  /\ Runs("newtable")
  /\ \/ /\ Fits(TableBytes)
        /\ memory' = allocate(TableBytes, NewTable)
        /\ self' = Place(TableBytes)
        /\ sz' = TableSize
        /\ pc' = "initialize"
        /\ Continue
        /\ UNCHANGED <<old, idx, tbl, result, fault>>
     \/ /\ ~Fits(TableBytes) /\ ~collected
        /\ Collect(FALSE)
     \/ OutOfMemory(TableBytes)

EvalForceGC ==
  /\ Runs("forcegc")
  /\ Collect(TRUE)

-----------------------------------------------------------------------------
(* Assignment. *)

\* The table to assign to.
CheckTable ==
  /\ Runs("table")
  /\ \/ /\ IsObject(result) /\ Kind(result[2]) = HashTableKind
        /\ tbl' = result[2]
        /\ Continue
        /\ UNCHANGED <<idx, result>>
     \/ /\ ~(IsObject(result) /\ Kind(result[2]) = HashTableKind)
        /\ BackToPrompt
  /\ UNCHANGED <<memory, self, old, sz, pc, fault>>

\* The table is looked at before the right-hand side is evaluated, and after.
\* What becomes of a program that writes to one taken back is not followed.
TableStops ==
  /\ Runs("root") \/ Runs("store")
  /\ \/ tbl = Null     /\ Abort("no_table")
     \/ tbl = Dangling /\ Abort("reclaimed")

RootIndex ==
  /\ Runs("root")
  /\ tbl \notin {Null, Dangling}
  /\ idx' = result
  /\ result' = Nil
  /\ Continue
  /\ UNCHANGED <<memory, self, old, tbl, sz, pc, fault>>

\* HashTable::Initialize, for main, for `newtable' and for Grow.  A null array
\* is stored with the size that it does not have.
Initialize ==
  LET bytes == ArrayBytes(sz)
      done  == IF old = Null THEN "run" ELSE "rehash"
  IN
  /\ pc = "initialize" /\ phase = "idle"
  /\ \/ /\ \/ /\ Fits(bytes)
              /\ memory' = [AllocateArray(sz) EXCEPT
                              ![self + 2] = sz, ![self + 3] = sz,
                              ![self + 5] = Place(bytes)]
           \/ /\ ~Fits(bytes) /\ collected
              /\ memory' = [memory EXCEPT
                              ![self + 2] = sz, ![self + 3] = sz,
                              ![self + 5] = Null]
        /\ pc' = done
        /\ self' = IF done = "run" THEN Null ELSE self
        /\ result' = IF self \in Objects THEN <<OBJECT, self>> ELSE Nil
        /\ sz' = IF done = "run" THEN 0 ELSE sz
        /\ collected' = FALSE
        /\ UNCHANGED <<old, idx, tbl, code, fault, phase, marked, work, at>>
     \/ /\ ~Fits(bytes) /\ ~collected
        /\ Collect(FALSE)

\* Value::operator==
Equal(v, w) ==
  \/ v = w
  \/ /\ IsObject(v) /\ IsObject(w)
     /\ Kind(v[2]) = StringKind /\ Kind(w[2]) = StringKind
     /\ memory[v[2] + 1] = memory[w[2] + 1]

Holding(a, k) == {i \in Indices(a) : Equal(Key(a, i), k)}

WithEntry(m, a, i, k, v) ==
  LET e == EntryAt(a, i) IN
  [m EXCEPT ![e] = k[1], ![e + 1] = k[2], ![e + 2] = 0,
            ![e + 3] = v[1], ![e + 4] = v[2]]

\* HashTable::Set of a key that it finds; of another, for which it takes a free
\* cell or overwrites an entry; and of one that there is no room for, which calls
\* Grow.  Which of these it is, HashTable says.
Store ==
  LET a == backingArray_(tbl) IN
  /\ Runs("store")
  /\ tbl \notin {Null, Dangling}
  /\ idx # Nil
  /\ a # Null
  /\ \/ \E j \in Holding(a, idx) :
          /\ memory' = [memory EXCEPT ![EntryAt(a, j) + 3] = result[1],
                                      ![EntryAt(a, j) + 4] = result[2]]
          /\ BackToPrompt
          /\ UNCHANGED <<self, old, sz, pc>>
     \/ \E i \in Indices(a) :
          /\ remainingCapacity_(tbl) > 0
          /\ memory' = [WithEntry(memory, a, i, idx, result) EXCEPT ![tbl + 3] = @ - 1]
          /\ BackToPrompt
          /\ UNCHANGED <<self, old, sz, pc>>
     \/ /\ remainingCapacity_(tbl) = 0
        /\ self' = tbl
        /\ old' = a
        /\ sz' = 2 * size_(tbl)
        /\ pc' = "initialize"
        /\ UNCHANGED <<memory, idx, tbl, result, code, collector>>
  /\ UNCHANGED fault

\* FindSlot reads the first entry of the table, and asserts that the key is not
\* nil.
StoreStops ==
  /\ Runs("store")
  /\ tbl \notin {Null, Dangling}
  /\ \/ idx = Nil /\ Abort("nil_key")
     \/ idx # Nil /\ backingArray_(tbl) = Null /\ Abort("no_array")

\* The memory once RefArray::Relocate has moved an entry.
Moved(a, from, to) ==
  LET e == EntryAt(a, from)
      f == EntryAt(a, to)
  IN
  [q \in DOMAIN memory |-> IF q \in f .. f + 4 THEN memory[e + (q - f)]
                           ELSE IF q \in {e, e + 1, e + 3, e + 4} THEN 0
                           ELSE memory[q]]

\* A Get or a Set may begin by this: FindSlot, which moves an entry that is not
\* on its own chain.
FindSlot ==
  LET t == IF Runs("variable") THEN GlobalVariables ELSE tbl
      a == backingArray_(t)
  IN
  /\ Runs("variable") \/ (Runs("store") /\ tbl \notin {Null, Dangling})
  /\ a # Null
  /\ \/ \E from \in Indices(a), to \in Holding(a, Nil) :
          /\ from \notin Holding(a, Nil)
          /\ memory' = Moved(a, from, to)
          /\ UNCHANGED <<program, collector>>
     \/ Abort("assertion")

(* operator<<, which prints the tables inside a table in full. *)

Endless(v) == /\ IsObject(v)
              /\ \E o \in Reach({v[2]}) : o \in Reach(Edges(o))

Arrayless(v) == /\ IsObject(v)
                /\ \E o \in Reach({v[2]}) : Kind(o) = HashTableKind
                                           /\ backingArray_(o) = Null

PrintResult ==
  /\ Runs("print")
  /\ ~Endless(result)
  /\ ~Arrayless(result)
  /\ BackToPrompt
  /\ UNCHANGED <<memory, self, old, sz, pc, fault>>

\* Where both may happen, which one does is up to the order of the entries.
PrintStops ==
  /\ Runs("print")
  /\ \/ Endless(result)   /\ Abort("endless_print")
     \/ Arrayless(result) /\ Abort("no_array")

\* The loop of Grow, and the assertion that follows its call.
Rehash ==
  LET a == backingArray_(self) IN
  /\ pc = "rehash"
  /\ \/ /\ a # Null
        /\ memory' = [q \in DOMAIN memory |->
                        IF q \in EntryAt(a, 0) .. EntryAt(a, size_(old)) - 1
                          THEN memory[EntryAt(old, 0) + (q - EntryAt(a, 0))]
                        ELSE IF q = self + 3 THEN sz - size_(old)
                        ELSE memory[q]]
        /\ pc' = "aborted"
        /\ fault' = "grow"
        /\ UNCHANGED <<self, old, idx, tbl, result, code, sz, collector>>
     \/ /\ a = Null
        /\ Abort("no_array")

Halted == pc = "aborted" /\ UNCHANGED vars

CollectorStep ==
  \/ \E o \in work : Scan(o)
  \/ StartSweep \/ SkipMarked \/ SweepGap \/ FinishCollection

Next ==
  \/ CollectorStep
  \/ \E l \in Lines : ReadLine(l)
  \/ EvalNumber \/ EvalString \/ EvalVariable \/ EvalNewTable \/ EvalForceGC
  \/ CheckTable \/ TableStops \/ RootIndex \/ Initialize
  \/ FindSlot \/ Store \/ StoreStops \/ Rehash
  \/ PrintResult \/ PrintStops
  \/ Halted

Spec == Init /\ [][Next]_vars

FairSpec == Spec /\ WF_vars(CollectorStep)

-----------------------------------------------------------------------------
TypeOK ==
  /\ memory \in [GlobalVariables .. Top - 1 -> Int]
  /\ self \in {Null} \cup GlobalVariables .. Top - 1
  /\ old \in {Null} \cup Bottom .. Top - 1
  /\ idx \in {NILL, OBJECT, INTEGER} \X Int
  /\ tbl \in 0 .. Top - 1
  /\ result \in {NILL, OBJECT, INTEGER} \X Int
  /\ code \in Seq(Instruction)
  /\ sz \in Nat
  /\ pc \in {"run", "initialize", "rehash", "aborted"}
  /\ fault \in Faults \cup {"none"}
  /\ phase \in {"idle", "mark", "sweep"}
  /\ marked \subseteq Bottom .. Top - 1
  /\ work \subseteq marked
  /\ at \in Bottom .. Top
  /\ collected \in BOOLEAN

\* At every moment the heap can be walked from end to end, by what the objects
\* say of their own sizes, and objects are aligned to sixteen bytes
\* (Hashtable.cpp:12-24 against ObjectAllocator.hpp:14, 30 and AST.cpp:200).
Walkable == Top \in Walk /\ \A p \in Walk : p % 2 = 0

\* Of every object that a walk meets, the scanner reports objects only, and of
\* the right kinds: no word left over from an earlier object, no integer, no
\* array that a table does not have yet (ObjectScanner.hpp:19-65).
EdgesAreObjects ==
  \A o \in Objects : phase # "sweep" \/ o \in marked =>
    \A e \in Edges(o) : /\ e \in Objects
                        /\ (Kind(o) = HashTableKind) <=> (Kind(e) = RefArrayKind)

\* A collection leaves the objects that the roots lead to and takes back all
\* others: none is kept by a word that is not a reference any more, and none by
\* other objects that are kept for nothing.
CollectsAll ==
  [][FinishCollection => Objects = marked /\ marked = Reach(Roots)]_vars

\* A collection ends, whatever refers to what.
CollectionsEnd == phase # "idle" ~> phase = "idle"
=============================================================================
