# A model of the hashmap interpreter

The repository is a small interpreter for a language of integers, strings and hash tables. A line such as

    t = newtable
    t["a"] = newtable
    t["b"] = t["a"]
    t["a"]

(an expression takes one index, which may be an expression with an index itself: `t[t["a"]]`, but not `t["a"][3]`)
is parsed, evaluated, and printed. Strings, tables and the arrays behind tables are objects of a heap that the
garbage collector of Eclipse OMR manages. What is difficult in it is in three places: the hash table, whose entries
move and whose chains are linked by relative offsets; the evaluator, in whose C++ locals addresses of objects live
across collections; and the parser, whose two functions call each other and leave tokens to one another. Beside these the repository holds
the glue that OMR asks of a language: what starts a VM, binds its threads, names its log, describes its objects to the
collector and answers the collector's questions.

This directory holds TLA+ modules of these parts, TLC configurations that check them on small instances, and proofs
of theorems about them that TLAPS checks for instances of any size.

    tlc -workers 2 -config MCHashTableDictionary_all.cfg MCHashTableDictionary.tla
    tlapm HashTableProofs.tla


## 1. The system

| part | source | state | operations | modelled in |
|---|---|---|---|---|
| hash table | `HashTable.hpp`, `Hashtable.cpp`, `RefArray.cpp` | `size_`, `remainingCapacity_`, the backing array of entries (key, next, value) | `Get`, `Set`, `FindSlot`, `Initialize`, `Grow`, `FindEmptyCell`, `Relocate` | `HashTable`; what its callers see of it, `Table` |
| values, hashing | `Value.hpp`, `Hash.hpp`, `Object.hpp` | none (a counter that numbers objects) | `operator==`, `Hash` | the hash function of `HashTable`, `Identity` of `Interpreter` |
| parser | `AST.hpp`, `AST.cpp:1-191`, `include/AST/` | a cursor in the line | `Parse`, `ParseExpression`, `ParseIndexExpression`, ... | `Parser` |
| evaluator | `AST.cpp:192-291` | the locals of nested `Eval` calls, the `StackRoot`s among them | `Eval` of each kind of expression | `Interpreter` |
| read-eval-print loop | `main.cpp`, `Environ.hpp` | `globalVariables` | read a line, evaluate, report an error, end | `Interpreter` |
| heap and its scanner | `Object.hpp`, `HashTable.hpp`, `ObjectAllocator.hpp`, `OMRClient/GC/ObjectScanner.hpp`, marking function in `main.cpp` | the words of the heap | allocate, construct, report sizes, edges and roots | `Heap` (words), `Interpreter` (objects) |
| printing | `Hashtable.cpp:90-134` | none | `operator<<`, `DumpHashTable` | `Interpreter`, `Heap` (whether it ends) |
| glue: binding of threads | `glue/src/LanguageVMGlue.c` | attach counts | bind, unbind | `ThreadBinding` |
| glue: profiling | `glue/src/Profiling.c` | a countdown per thread, the method dictionary | check, insert | `Profiling` |
| glue: concurrent marking | `glue/src/ConcurrentMarkingDelegate.cpp` and its header | none of its own; it names modes of the collector | next mode, collect roots, hooks | `ConcurrentMarking` |
| glue: verbose log | `glue/src/VerboseManagerImpl.cpp` | the file name it owns | create, configure, reconfigure, tear down | `VerboseManager` |
| glue: startup | `glue/src/StartupManagerImpl.cpp`, `CollectorLanguageInterfaceImpl.cpp` | which policy is asked for, which parts exist | handle an option, create and kill parts | `Startup` |
| glue: delegates | `ConfigurationDelegate`, `GlobalCollectorDelegate`, `EnvironmentDelegate`, `ObjectModelDelegate` | none | questions of OMR | `Startup` (while it starts), `Heap` (during a collection) |
| glue: the rest | `glue/` | none, or filled by OMR | constant answers | no (section 8) |

The garbage collector itself, and linenoise, are git submodules and not in the repository. The models take the
collector to do what `omr_config.cmake` selects: mark and sweep, with compaction and the scavenger off, so objects do
not move; and not concurrently with the program. Everything the program tells the collector (roots and edges) is
modelled from the program; what the collector then does (`Reach`, `Swept`, `Survivor` of `Interpreter`; the order of
marking, the walk that sweeps and the choice of holes in `Heap`) is external.

### How the parts interact

`main` reads a line and calls `Parse`; the tree it answers is evaluated by one recursive `Eval`. `Eval` allocates
objects, reads and writes tables, and throws `EvalError`, which `main` catches. Every allocation may run a
collection, which marks from `globalVariables`' array and from the `StackRoot`s in scope, and takes back every other
object, whatever plain pointers to it there are. The evaluation of the name `forcegc` always runs one.
`globalVariables` is a table like the others but not a heap object: only its backing array is.

The glue is called by OMR. At the start OMR reads the options of the VM, asks for a configuration, a collector interface
and a verbose manager, asks the delegates whether all is well, and kills what it was handed when it is not. Threads bind
themselves to the VM and unbind themselves; while they are bound their stacks may be sampled and they may be asked to
pay a tax of tracing. A process that was forked has its log reconfigured. The collector asks the object model for sizes
and scanners. The glue shares no state with the interpreter except the heap.

The interpreter runs in one thread. What interleaves there is the evaluation with the collector, and the effects of a
long sequence of calls on one table; in the glue, threads with each other and processes with each other. `assert` is live in the only build there is
(`CMakeLists.txt` sets no build type), so a failed assertion stops the process; the models keep these as outcomes.

### What makes each part correct, and what is hard

* **Hash table.** Promise: a finite map, every call answered. Hard: a lookup moves entries; the links are distances,
  which change meaning when an entry moves; the two loops that follow links have no bound; the count of free cells
  stands in for an empty cell; growing inserts by the operation that may grow.
* **Evaluator and heap.** Promise: no object is used after it was reclaimed; no line changes what the variables hold except
  by its assignment. Hard: each allocation may collect; which locals are rooted when; a table takes two allocations, and is
  there without an array when the second fails; reading a variable moves entries of the table it is read from.
* **Words of the heap.** Promise: the objects of the heap above, whatever the words held before. Hard: constructors do
  not write all words of an object, and only some allocations zero them; an integer may equal an address; the
  collector walks the heap by the sizes objects report, which must be the sizes allocated, padding included.
* **Parser.** Promise: the tree is the line, and every line of the grammar is taken. Hard: `ParseExpression` returns
  after one index, and closing brackets are consumed by callers at other depths.
* **Binding of threads.** Promise: native attachments match bindings. Hard: each of several steps may fail, and undoes
  only some of those before it; bindings nest.
* **Profiling.** Promise: a sample in each interval. Hard: an unsigned countdown whose step need not divide its start.
* **Concurrent marking.** Promise: the roots are marked once per cycle. Hard: a thread reads the mode, asks what follows
  it, and by then others may have moved on; the delegate asserts that it is asked in its own modes only.
* **Verbose log.** Promise: processes that fork write to files of their own, and names are freed. Hard: names derive from
  names over generations, process numbers are used again, memory runs out halfway.
* **Startup.** Promise: the policy that was asked for; nothing left of a VM that did not start. Hard: any part may fail to
  be allocated or to be initialised, in any order, and is taken apart then by its own maker; options are seen by the base
  class first.

`PROJECT.json` lists the hazards one by one, each with its line and the properties about it.


## 2. The modules

| module | what it is |
|---|---|
| `HashTable` | one table, every step of every operation on it |
| `HashTableHistory` | `HashTable` with three history variables, and the properties that need them |
| `Dictionary` | the abstract specification: a map whose calls are answered until it breaks |
| `Table`, `TableCalls` | the abstract specification for callers: what `Get` and `Set` may do to the entries of a table, in order or not; and a machine of such calls |
| `HashTableDictionary` | the refinement mappings from `HashTableHistory` to `Dictionary` and to `TableCalls` |
| `Interpreter` | loop, evaluator, heap, collector, over tables as `Table` has them |
| `Parser` | the parser, on tokens |
| `Heap` | the words of the heap, the evaluation of lines in them, marking and sweeping |
| `ObjectHeap` | the abstract specification: objects that stay as they are while a root leads to them |
| `HeapObjects` | the refinement mapping from `Heap` to `ObjectHeap` |
| `ThreadBinding` | binding native threads to the VM |
| `Profiling`, `ConcurrentMarking` | the countdown of samples; the modes of marking |
| `VM` | the composition of these three, over the same threads (`Threads`) |
| `VerboseManager` | names of logs in processes that fork |
| `Startup` | what starts and ends a VM, over `VerboseManager` |
| `HashTableProofs`, `DictionaryProofs`, `InterpreterProofs`, `ParserProofs`, `HeapProofs`, `ThreadBindingProofs`, `VMProofs`, `StartupProofs` | theorems |
| `MC...` | the constants of the TLC runs |

### HashTable

An operation is called only when none runs, so a program counter `pc` suffices. The steps are

| action | code |
|---|---|
| `Get`, `Set` | the calls |
| `FindNilKey`, `FindEmptySlot`, `FindOverflow`, `FindHead`, `FindChain` | `FindSlot` up to its loop: which of its returns and branches the home slot leads to |
| `Walk` | one turn of the `while` of `FindSlot` |
| `RelocateAssert`, `RelocateStep`, `RelocateMove` | `RefArray::Relocate`: a failing assertion, one turn of its loop, its three assignments |
| `InsertHome`, `InsertOverflow` | the rest of `Set` for a key that was not found |
| `Grow`, `Rehash`, `GrowReturns` | `Grow`, one entry at a time; the `assert(false)` after it in `Set` |

`Found` and `Missing` are the two answers of `FindSlot`, with what `Get` or `Set` makes of them. `fault` names the
assertion that stopped the process. Keys and values are model values; the hash function is a variable that never
changes, chosen by `Init` from `Hashes`: `std::hash` is not specified, so the runs try all functions. `Grow` allocates
through the heap; an array that cannot be had is left to `Interpreter` and `Heap`. Because `Set` never goes on after `Grow`, outer
activations of `Grow` need no memory: only their number (`depth`) and the innermost (`frame`) are kept. The offsets
`next` are integers, without a width: an offset is bounded by the size of an array that fits in memory.

### HashTableHistory, Dictionary, Table, TableCalls, HashTableDictionary

`latest` is what a map would hold after the calls that returned, `given` all that was ever stored by them. `sound` becomes false at the first of the two steps
that damage a table (section 4). `Dictionary` is a map with request and answer steps and a step `Break` after which
nothing is promised; the table implements it with `intact` mapped to *sound, not growing, no fault*.

`Dictionary` promises nothing of a strained table, and a program goes on using one. `Table` is what is left: the cells are
forgotten, the entries, the room that is counted and whether the table is strained are kept. A lookup answers an entry of the
key, or misses it if the table is strained, and drops none; it may strain the table and it may stop at an assertion, but not
before an entry is in the way of another. A `Set` of a strained table may add a second entry for a key, and write over an
entry of another one. `TableCalls` makes a machine of this, call by call, and `ImplementsTable` says that `HashTable` is one,
whatever happened to it. Everything in `Interpreter` that reads or writes a table is an instance of the operators of `Table`.

### Interpreter

The recursion of `Eval` is flattened. A line `p1[p2[..]] = q1[q2[..]]` compiles (`Compile`) to the sequence of steps
its evaluation consists of, in the order of the code: a primary is evaluated (`EvalNumber`, `EvalString`,
`EvalVariable`, `EvalNewTable` with `Initialize`, `EvalForceGC`), a result is tested for being a table (`CheckTable`),
looked up in (`Index`), rooted (`RootIndex`), stored (`Store`), printed (`PrintResult`). The variables `newTable`,
`objects`, `result`, `tbl`, `idx` and `root` are the locals of the C++ functions that are alive at that point. An
`EvalError` is `BackToPrompt`; a failed assertion or a use of a reclaimed object is `Abort`.

A collection (`Collect`, before any allocation, or `EvalForceGC`) clears the cells it does not reach and leaves
`Dangling` in the locals that pointed there. `Collect` is optional before every allocation. An allocation that finds no cell
even after one answers a null pointer: of a string or a table that is written through at once (`OutOfMemory`); an array is not
touched, so `Initialize` stores the null pointer and the size, the table is returned, stored and scanned like any other, and
the process stops when its entries are first used (fault `no_array` of `Index`, `StoreStops` and `PrintStops`). `TableStops`
is what the assertions on the table meet before the right-hand side is evaluated, `StoreStops` what `Set` meets after it.

`heap` has the entries of each array and its room; `strained` the arrays that are out of order. `Lookup` takes one of the
answers that `Table` allows, and may strain the table: a read of a variable that relocates an entry of `globalVariables` is a
step that changes the state, and later reads may miss a name because of it. Which cell an entry is in, and so when exactly a
table is strained, is left to `HashTable`: a table with entries may be strained, by a search for a key that it has not got.
The texts of strings are taken up to their hash, as `Value::operator==` does.

### Heap, ObjectHeap, HeapObjects

`Interpreter` takes the heap for a set of objects. `Heap` is the level below: `memory` is a function from word indices to
integers, an object is the words that the offsets of its members name (`Kind`, `size_`, `backingArray_`, `Key`, `Val`),
and an address is a number like any other. `allocate` zeroes the words it gives out, `allocateNonZero` leaves in them
what was there; either is followed by what the constructor writes, and only that. The evaluator's steps are those of
`Interpreter` without the reading index expressions, and `Rehash` is the whole of `Grow`'s copying into an array that was
allocated. What `Set` and `Get` write is stated for any table: `Store` puts an entry into any cell there is room for, whether
`FindEmptyCell` would find that cell or write over it, and `FindSlot` moves any entry to any cell that is empty, which covers
what `HashTable` says about where they go. A table without an array has a null pointer at its offset, which `start` passes over.
A table assigned to that is not marked becomes `Dangling` when the sweep begins, and a line that writes to it stops there
(fault `reclaimed`): the memory it would write to is anyone's.
The scanner (`start`, `scanRefArray`) reads the kinds in the words, as does `Size`, which is all that
sweeping (`SkipMarked`, `SweepGap`) has to find the next object by. A collection is many steps: one per object scanned,
one per object or gap swept. What is stale in a gap that has been swept is abstracted to one word that looks like a
reference (`Stale`): the worst that a constructor can leave.

`ObjectHeap` is what a program relies on: an object is made referring to nothing, changes only when it is written to,
and is not taken back while a root leads to it. Reachability is stated there as the least closed set, not as a
traversal, and so it is in `Heap.Reach`, which the marks of a collection are held against. `HeapObjects` reads the words as objects (`ObjectIn`) at the addresses a walk meets.

### Parser

The input is a sequence of tokens; white space, which `SkipWS` passes over, is left out, and the characters of one
token are one token, with the digits of a number standing for its value. `open` counts the activations of
`ParseIndexExpression`, `chain` the primaries they hold: the two functions build nothing but p1[p2[...pn]]. `Literal`
is `std::from_chars` with the test that follows it.


### ThreadBinding

One process counter per thread; a step for each call that can fail (`Attach`, `FirstInit`, `LastFree`), and for the
detachment that ends an unbinding (`Detach`). Bindings of a thread that is bound count only (`Bind`), as do their
unbindings (`Unbind`). What OMR and the thread library do is external, and taken to change nothing when it fails. The
three hooks of this language answer success always, so what the code would do if they failed cannot happen and is left
out. `held` is a history variable: what the answers of the calls say.

### Profiling, ConcurrentMarking, VM

`checkSampleStack` is one call of `ex_omr_checkSampleStack`; the countdown wraps at `Word`, so that it would be seen to if
it were decremented at zero. Nothing in the repository calls it; `VM` lets any bound thread call it, which is what the
comments of `Profiling.c` ask of a language.

`ConcurrentMarking` models `getNextTracingMode` and `collectRoots` under the race they are written for: a thread reads the
mode (`PayTax`), asks the delegate, and switches if the mode is still the one it read (`SwitchMode`), as in
`MM_ConcurrentGC` of OMR, which is external. An assertion that a mode is never met is the outcome `Unreachable`. The
hooks that the delegate answers with a constant are constants in the guards of the steps they are asked in.
`canForceConcurrentKickoff` is left out: two sentences of its comment (`ConcurrentMarkingDelegate.hpp:118-124`) say opposite
things of its answer, and who acts on the answer is external; `KickOff` may happen whenever no cycle is under way.
`omr_config.cmake` does not switch concurrent marking on: the delegate is modelled for what it states about itself.

In `VM` a thread binds and unbinds, is sampled and pays; it does the last two only while it has a VM thread, and a new VM
thread has a countdown of its own.

### VerboseManager

The variables are those of a family of processes. `Fork` (external) copies the memory and the open log of a process;
`Reconfigure` is `reconfigureVerboseGC` in the child, with `WithPid` putting the process number where `strchr` finds
the first dot. A name is a sequence of parts, so that putting a number in is modelled as it is done. `TearDown` is also
called when a VM is shut down; `Exit` is the end of a process, after which its number may be given to another. `names`
counts the copies of names that are allocated, and `replaced`, a history variable, those of them that a second
`configureVerboseGC` overwrote. The base class may refuse to open a writer, and
is taken to change nothing then. Names are given in the first process only, by the options of the VM.


### Startup

OMR reads the options one after the other (`NextOption`, with `handleOption` of the manager), then asks for the parts in
any order: `createConfiguration`, whose policy is `Policy`, `createCollectorLanguageInterface` and `createVerboseManager`. The
last two call a `newInstance` of this repository, which is followed step by step: `allocate`, which may be refused;
`initialize`, which the verbose manager's base class may refuse; and if it does, `tearDown` and `free`, as `kill` calls them.
`inHand` is the part such a call is about and `step` how far it is. Whenever a null pointer is returned OMR gives up and kills
what it was handed (`Kill`), by the same `tearDown` and `free`. `forge` counts for each part how often it is allocated,
`parts` is what OMR knows of; a process that ends in the middle of a step loses both (`End`). The delegates' answers to the
questions asked while OMR starts are records of constants, in the guard of `Up`. The manager's own actions are conjuncts of
these: allocating it is a step of `NewInstance(First)`, tearing it down is `TearDown(First)`, and `Logging` lets everything
else of `VerboseManager` happen, once there is a manager.


## 3. The runs

| run | bounds | distinct states | question |
|---|---|---|---|
| `table` | 4 cells, 4 keys and nil, 2 values, all 256 hash functions | 753,535 | what holds of every table; how long it is a dictionary, and what its callers may still rely on afterwards |
| `table_grows` | 3 cells, 4 keys, hash functions modulo the grown size 6 | 71,182 | growth, capacity, termination |
| `dictionary_spread` | 6 cells, 3 keys in the 4 lowest home slots, at most two to one | 187,908 | is it one for ever where nothing strains it, and does it answer |
| `lines` | 6 heap cells, tables of 2 entries, 1 variable, 16 lines | 353,634 | does the heap stay closed under evaluation and collection, over tables in order and strained |
| `parse` | all inputs of at most 5 tokens, all lines of at most 15 with at most one token replaced | 100,764 | does the parser keep what is written, and accept what it should |
| `heap` | 38 words, arrays of 1 and 2 entries, 8 lines | 191,084 | are the words of the heap always objects, and is the collector exact |
| `vm` | 2 threads, 2 deep, countdown from 5 by 2 | 895,830 | do attachments, samples and marking agree, whatever fails and whoever races |
| `startup` | 3 process numbers, 3 names, 2 generations of forks, 1 name replaced, 4 lists of options | 2,422,282 | does a VM start or leave nothing, do processes keep to files of their own |
| `new_slot`, `chains`, `table_alive`, `numbers` | | | claims of the code that do not hold: section 5 |

**Why these bounds are enough.** In four cells a chain can be three links long, two chains can cross, an entry with a
successor can be moved, and every cell below the middle can be searched downwards; with four keys the table fills, and
each pattern of collisions is among the hash functions. A hash value matters modulo the size only, which is why no
larger values are tried, except where the table doubles. Keys are interchangeable when all hash functions are, so the
runs without a liveness property use symmetry, and `table_grows` takes one hash function of each orbit. Three cells growing to six let broken tables, in which a key is stored
twice, reach the rehash. For `chains` five keys in eight cells suffice, as no cell is written over there. In the run `lines`,
six cells hold the array of variables, a table in a variable with its array, and three of: a second table, its array, a
string, a key; so that the heap is exhausted by live objects in some behaviours and by garbage in others, and a table goes
without an array where one cell was left. `globalVariables` has room for one entry, so that it is full early, and a table of
two can be strained by a search for a third key. The lines combine a fresh table, a table in a variable and an entry of it as
values and as what is assigned to, a string, a number and nil as index, and `forcegc` as an index and on the right. Fifteen
tokens are `a[b[c]] = a[b[c]]`: two levels of nesting on both sides. In the run `heap`, 38 words hold the array of the
variables, a table with its array and a string or two, or two tables one of which gets no array; so that memory is used
again, for objects of other sizes, as eight lines follow each other in every order. Strings of 1 and of 9 characters differ in
padding, and the number 22 of the lines is also the address of an object. One of the lines indexes a table that no variable
holds, one collects between an assignment's target and its store, and two print. In `vm` a countdown from 5 by 2 does not end at zero by itself; two threads are all that a race for
one mode needs, since one that loses is done, and the proofs are for any number. Three process numbers allow a grandchild, two children side by side, and a number used again while
descendants of its first owner live. The options are ones each class claims, one both could, and one nobody knows.

In the guards of the actions only `MaxNesting`, `MaxGenerations` and `MaxReplaced` are bounds: `InitSize`, `Cell`, `Top`, `TableSize`, `GlobalSize`, `MaxInteger`, `BACKOFF_MAX`, `Word` and the
sets of keys, lines, options and inputs are constants, and the number of operations and lines is not limited.

### Properties

*Table, in every state it can get into:*

* `BackwardLinks`: a link that points down the array leads into a range without empty cells, and from its target the
  chain does not turn upwards again.
* `LoopsAdvance`: each turn of either loop lowers `Rank`, a bounded number; so neither loop can hang, although chains
  may be broken, joined, or lead to other keys' entries.
* `LookupsKeepEntries`: a lookup moves entries but loses, adds, doubles and changes none; they are counted as a bag, since a
  strained table may hold equal ones.
* `CapacityBacked`: the count of free cells never exceeds the cells that are empty.
* `GrowNeverNests`: the rehash into the larger array does not fill it, whatever the state of the old one.
* `OperationsEnd`: every call ends, by an answer or at an assertion.
* `ImplementsTable`: whatever became of the chains, each call answers, adds, drops, strains and stops as `Table` says it may.
* `AnswersWereGiven`: whatever became of the chains, a lookup answers nothing, nil, or a value that some `Set` stored under
  that very key.

*Table, until it is strained:* `ChainsInOrder` (a chain per home slot, upwards, without a gap; no key twice),
`SoundFaults` (only a nil key or growing stops the process), `ImplementsDictionary`
and, with room, `Intact` and `AnswersLikeDictionary`. With room means `Spreads`: no three keys have one home slot, and from
each home slot up there are as many cells as keys.

*Interpreter:* `HeapClosed` (no object refers to a reclaimed one, or to one of the wrong kind), `OperandsAlive` (what
is about to be stored is alive), `OnlyTemporariesReclaimed` (only a table made by the line itself can be lost under
it), `OnlyStoresChangeHeld` (the objects the variables lead to, and their entries, are changed by assignments only: not by
collections, failing lines or lookups, though one of these may strain a table).

*Words of the heap:* `Walkable` (a walk by reported sizes meets the end of the heap at every moment), `EdgesAreObjects` (what
the scanner reports of any object, reachable or not, is an object of the right kind), `CollectsAll` (a finished
collection leaves exactly the objects that the roots lead to: the marks are the least closed set, so that cycles of garbage
go too), `CollectionsEnd`, `ImplementsObjectHeap`.

*Threads:* `BoundAsAnswered` (outside the two functions a thread is attached exactly while it is bound, as often as it was
told), `VMThreadsAreNative` (at no step is there a VM thread without an attachment), `SampledEachInterval` (of the calls in
an interval the first samples and no other), `NeverUnreachable` (the delegate meets its own modes only), `RootsOnce` (the
roots are marked by one thread, before there is only tracing to do and nobody is at it).

*Startup and logs:* `NothingLost` (between calls each part is allocated once if OMR has it, and otherwise not at all, whatever
was refused on the way; a VM that did not start leaves no name of a log but those overwritten), `PolicyAsAsked` (the policy
follows from the set of options), `ProcessesApart` (no two configured processes write to one file), `LogIsNamed` (the name
kept is the one written to), `LostNamesWereReplaced` (of the names allocated only those are lost that a second
configuration overwrote).

*Parser:* `ParsesBack` (the tree, spelled, is the input), `AcceptsTheGrammar` (the lines of the grammar are
parsed, and nothing else is).

The mutants in `PROJECT.json`, defined beside what they alter and marked as such, each break one property: they show
that the property depends on the code.


## 4. What the checks show about the table

Two places in the code, and only these, keep a table from being a dictionary until it is full:

1. `RefArray::FindEmptyCell`, searching downwards (`RefArray.cpp:16`), tests cell `i - 1` and answers `i`. The caller
   overwrites an entry. It happens when all the cells above the start are taken.
2. `RefArray::Relocate` (`RefArray.cpp:33`) copies an entry with its `next`, a distance from where it was. It matters
   when the moved entry has a successor.

`sound` says that neither has happened, nor the search's assertion `start > 1` (`RefArray.cpp:13`) been at risk; the
runs `table` and `dictionary_spread` show that such a table is a dictionary with ordered chains. Once damaged, a
table still ends every operation, still counts its cells safely, loses nothing in a lookup and never answers the value of
another key, but it may miss keys, hold one twice, answer a value that was since replaced, or stop at an assertion. And the first insertion into a full table always stops the process, in
the `assert(false)` behind `Grow` (`Hashtable.cpp:74`), although the comment two lines up says "grow the table" and
`Grow` carries all the entries over.


## 5. Claims of the code that do not hold

| run | the code says | what happens |
|---|---|---|
| `new_slot` | "otherwise get a new free slot" (`Hashtable.cpp:84`) | the slot may be taken, and its entry is lost |
| `chains` | `assert(!entries_[idx].key.IsNill())` (`RefArray.cpp:30`) | fails: a moved entry's `next` leads off its chain, into an empty cell |
| `table_alive` | "we need to set the value in the table" (`AST.cpp:228`) | `newtable[1] = forcegc` stores into a reclaimed table |
| `numbers` | "Failed parsing integer" (`AST.cpp:114`) | a number out of range is read as 0 |

Seen while modelling, and without a run, as the repository says nothing about them or, in the last case, something that can
be read either way: `x[1 2` stops the
process at an assertion (`AST.cpp:130`, action `AssertClosed`); printing a table that contains itself does not end
(`PrintStops`); the address an exhausted heap answers for a string or a table is used unchecked (`OutOfMemory`), and for an
array is kept in a table that says it has entries (`Initialize`); `newtable` and `forcegc`
can be assigned to but not read; two strings with equal hashes are one key; `x[y] = 1`, with `y` unset, passes the tests of
the evaluator and stops at the table's assertion (fault `nil_key`), while reading `x[y]` is an error (`AST.cpp:284`); if
`globalVariables` grows, a table that lies outside the heap is rooted during an allocation (`Hashtable.cpp:41`, fault
`root_outside_heap` of `Heap`); `getSegregatedSizeClasses` answers NULL also for the segregated policy
(`ConfigurationDelegate.hpp:135`); a second `configureVerboseGC` loses the first name's memory (`replaced`); a new name's
buffer is not tested before it is written to (`crashed`); and the process number goes before the first dot of the whole
path of a log (`VerboseManagerImpl.cpp:101`), which may be in the name of a directory. The comment at line 87 says "before
the extension": of a name with one dot that is so, of one with several, or with a dot in a directory, it is not what one
would call the extension. In the model a name is what stands before its first dot and the rest of it (`stem`, `extension`);
no property is about which file the number makes of it, only that it is another one.

An outdated value is answered like this, in a table of 16 cells (`HashTable::DEFAULT_SIZE`), which is more than a run can
search: set four keys with home slot 0 and then four with home slot 4; look up missing keys with the home slots 3, 7 and 1,
each of which moves the entry in its way, with its old `next`; set the fourth key again, which `FindSlot` no longer finds,
so that it gets a second entry; look up a missing key with home slot 5; and look up the fourth key: the answer is its first
value. The runs show that no table of four cells does so; the comment at `Hashtable.cpp:69`, "key not in the table", is
wrong at the second insertion.


## 6. Fairness

`FairSpec` and `HFairSpec` assume weak fairness of the steps inside an operation, and nothing else. The code justifies
it: there is one thread, no step waits for anything, and a step that is possible remains so until it is taken. No
fairness is assumed of calls: a user may stop typing. `OperationsEnd` and `AnswersLikeDictionary` rest on it, and are
checked without symmetry. `FairSpec` of `Heap` assumes weak fairness of the collector's steps: the program waits for a
collection, so nothing takes the processor from it. `CollectionsEnd` rests on that. Nothing is assumed of threads,
processes or OMR.


## 7. What is proved

For all values of the constants that satisfy the assumptions stated in the modules (a positive size; nil is no key;
hash functions from keys to naturals; finitely many heap cells; the kinds of values are disjoint; the lines and inputs
are well-formed sequences; an unclosed string ends its line; the countdown starts above zero, goes down by a positive
step, and fits in a word; the names given to logs have no process numbers in them, and numbers are no text; the bounds on
nesting, generations and replaced names are naturals).

About the lines of `Interpreter` and `Heap` nothing is assumed but their form: in `Heap` also those are among them that store
where no target was evaluated, which the evaluator cannot be given, and which stop at the assertion of `AST.cpp:253`.

**HashTable.** `Typed` is inductive by itself; it includes that `idx`, `to` and `cur` stay on the array.
`LinksBackward` and `LoopsEnd` rest on

    LinksInv == TypeOK /\ BackwardLinks /\ RelocationPlanned /\ KeyGiven

`BackwardLinks` alone is not inductive: between `FindEmptyCell` and the move, `Relocate` has only remembered the target,
and the move needs that it was the first empty cell above, or that no cell above was empty (`RelocationPlanned`), and
that no nil key gets as far as the array (`KeyGiven`). The lemmas `LinksKept...` treat one update of the array each.
`LinksDescend` says that a walk which has turned down only descends, whence `Rank`, a natural number, decreases.
`GrowOnce` rests on `GrowRoom`: while a rehash runs, the remaining capacity is at least the doubled size less the
entries of the old array passed so far. This counts calls of `Set` rather than entries, so it holds of broken tables too.

`CapacityIsBacked` counts: a step fills at most one cell that was empty, and one that does has lowered the count. Only a
step that empties a cell or fills it can disturb it, and `Relocate` does one of each. `LookupsKeep` counts cells too, of each
pair of a key and a value: it has to know that the cell a relocation moves an entry to was empty, or is the one the entry
comes from (`RelocationPlanned` again), that the old cell is cleared, and that a lookup is never at a step that inserts or
rehashes (`CallsInOrder`).

**The table as a dictionary.** `ChainsInOrder` is not inductive: while a lookup or an insertion is under way, an entry has
been moved or a key has no entry yet. `SoundInv` adds the places of the loops to the shape of the table: a walk stands on the
chain of its key, and has passed no entry with that key (`WalkPlace`); the search of `Relocate` stands on the chain of the
entry that moves, below it (`RelocatePlace`); and an insertion follows the last entry of a chain that has not got the key
(`InsertPlace`). With `sound` a moved entry is the last of its chain, which is why its `next` may be copied
(`ChainsStayInOrder`, `OnlyKnownFaults`). The simulation (`TableIsDictionary`) maps each step by `StoreAgrees`: as long
as it was not strained the entries are, key by key, what `latest` says, also between the steps of an operation.

**The table for its callers.** `TableIsRefined` holds of strained tables too, where little is known of the cells, and it rests on
what little that is: a step writes one cell (`InWritten`), so it adds one entry and loses one at most; in a table in order the
entry written over is the only one of its key (`Shaped`), which is why nothing else can be left behind; and a table in order is
strained, or fails an assertion, only in a search for an absent key that meets another entry (`MeetsOthers`). This is what
allows the theorems about `Interpreter` to speak of programs whose tables have broken chains.

`AnswersAreGiven` holds of strained tables too: every entry of the array is a pair that was given, and the cell an answer is
read from holds the key that was asked for.

**A table with room.** `SpreadKeysStayIntact` is about hash functions with `Spreads`, keys that are finitely many, and
programs that store under no nil (`SpreadKeys`); the run `dictionary_spread` has all such functions of its size. It rests on

    IntactInv == ShapeInv /\ CallsInOrder /\ Intact /\ Roomy

where `ShapeInv` is what is known of tables that were not strained. Two arguments carry it. A key that is not in the table
finds its home slot or a cell above it empty: these are at least as many cells as there are keys, and the keys they hold
are others, none of them twice (`CellsWithinKeys`, `RoomFrom`). And an entry which is in the way of another is not at its
home, so its chain has an entry before it; if it had a successor too, three keys would have one home slot
(`InTheWayIsLast`). `Roomy` counts: `remaining` is the number of empty cells, so that `Grow` is never called. Neither part of
`Spreads` can be left out: three keys with one home slot and a fourth with the next make `Relocate` move an entry with a
successor, and keys with the home slots 4, 4 and 5 of six find no cell above. `SpreadKeysNeverBreak` is the refinement for
such tables: the dictionary they implement has no `Break`.

**How far the claims of section 5 do hold.** `SoundSlotsAreFree` and `SoundChainsLead` prove the first two of them for
every table that was never strained, `SpreadKeysTakeFreeSlots` the first for every step of a table with room, and
`DownwardOverwrites` shows that the downward search is no rare failure: whenever a `Set` uses it, a taken cell is written
over, and counted as one that was empty. `EntriesMoveUp` shows why `Relocate`, which calls the same search, loses nothing by it: the
assertion at `RefArray.cpp:32` stops the process first. For `table_alive` it is `OthersStay`, and for `numbers`
`NumbersThatFit`: without a number too large, the tree spells the line as it stands.

**Interpreter.** All theorems rest on one invariant,

    Inv == TypeOK /\ HeapClosed /\ LocalsAlive

`HeapClosed` is not inductive, because an entry is stored from locals: `LocalsAlive` says of each local what it refers to as
long as it is not `Dangling`, and which of them cannot dangle: the index, because it is rooted whenever it is an object, and
the result, at a step that uses it. A table whose array could not be had refers to nothing, which needs no exception. The
proof for a collection uses three facts: what is reached is closed under the edges, so that no survivor refers to what was
swept; the roots are reached; and a local not reached becomes `Dangling`. Of the tables nothing is used but what `Table`
promises: a lookup answers an entry that is there, or nil; whatever `Set` leaves refers to what it referred to, and to the
operands (`SetLeaves`).

**Parser.** `ParserTyped` is inductive. `ParsesBackAlways` rests on `Progress`, which says at every moment which tokens
the primaries collected so far came from, that the tokens between them are opening brackets, and how many closing ones
have been passed: from the position, the length of the chain and `open` each can be computed from the others.
`ParsesExactlyTheGrammar` puts it beside the grammar: if the input is a line, then the expression being parsed has some
number of primaries and brackets (`LineAhead`), and what `Progress` says was read cannot go beyond them
(`WithinExpression`), nor stop before (`Sought`); so the token that is sought is the one that comes. Conversely, what
`Progress` says of an input that was parsed makes it a line (`ParsedIsLine`).

**Heap.** Where the objects are is itself computed from the words, so the first question of every step is which places
a walk still meets. `TilingIsWalk` answers it: a set of places that tiles the heap, each ending where the next begins, *is*
the walk. What a step does to the places can therefore be shown of the set: an allocation splits a hole (`WalkSplit`), a
sweep joins a gap (`WalkJoined`), a write into the words of an object leaves the places alone (`WalkStays`), because it does
not touch what `Size` reads. All theorems rest on

    Inv == HeapSound /\ LocalsSound /\ ControlSound /\ CodeSound /\ MarksSound

Neither `Walkable` nor `EdgesAreObjects` is inductive. `HeapSound` says of the words that objects tile the heap, that each
entry holds nil, a number or a live object that is no array, that a table has no array or one of the size it reports, and
that no two tables have one array. During a sweep all this holds of the marked objects only (`Live`), since unmarked ones may
refer to what is already a hole. `LocalsSound` says the same of the evaluator's locals; the table assigned to has no root, and
is `Dangling` from the moment a sweep begins that will take it back. `ControlSound` has the steps of making and growing a
table. `CodeSound` has what is left of the line. `MarksSound` is the collector's: the marks are closed under the edges but for
what is still to be scanned, they are in every set that has the roots and what the marked objects of it refer to
(`MarksLeast`), and what lies below the sweep is marked. From the first of these nothing reached is lost, and from the second
nothing else is kept: together the marks are the least closed set when the collection ends, which is `Reach(Roots)` of what is
left (`CollectionIsComplete`). For that, sweeping must not change what the marked objects refer to (`EdgesAlike`), and the
table assigned to, becoming `Dangling`, is no root (`LeastStays`).

`HeapImplementsObjects` is the simulation of `ObjectHeap`. The program's steps are `Mutate`: an allocation adds one object,
whose words the scanner finds nothing in (`EmptyObject`), and `Writes` describes what `Set`, the relocation of an entry and
`Grow` do to one array. A gap that is swept is `Reclaim`: the marks contain the roots and are closed, so they contain the least
such set. Every other step leaves the words alone. A program that writes to a table it has let go stops at that step, so the
theorem covers it up to there.

**ThreadBinding.** `BindingsBalance` and `VMThreadsNative` rest on an invariant that says of each place in the two
functions how far the three counters of a thread there are apart; `BoundAsAnswered` says it of one place only.

**Interpreter, what the variables hold.** `HeldByStores` is about every step but one. It needs that a table being made is in no
entry (`Unpublished`), so that giving it its array changes nothing that a variable leads to; that what is reached from
`globalVariables` is among what a collection reaches, and no free cell (`HeldCells`); and that a heap which agrees on those cells
reaches no others (`SameReach`). A lookup changes `strained` and no entry, which `TableIsRefined` allows it to.
`OthersStay` rests on `Borrows`: as long as a line indexes no `newtable`, the tables its locals hold can be reached from
`globalVariables`, and they stay reachable since only an assignment, which ends the line, changes what can. It takes a fact
about `Compile`: whatever is tested for being a table was evaluated by the step before (`CompileFits`), with no collection in
between.

**VM.** A step of `VM` is a step of `ThreadBinding` or leaves its state alone (`VMBindsThreads`), so `VMBindingsBalance`
follows from the theorems above. `CountdownNeverWraps` says that the unsigned subtraction is an ordinary one;
`StacksSampled` rests on `TimedInv`: after `c` calls of its interval a thread's countdown is `Left(c)`, which is zero after
the last and not before. `RootsMarkedOnce` and `ModesAreKnown` rest on `RaceInv`: a thread is at the roots only if it is
the one that moved the collector to tracing only, and the collector is in that mode, with the roots not done, only while
such a thread is there. `RootsOnce` alone says nothing of the thread between its switch and its marking.

**Startup.** `StartupUsesManager` shows that all `Startup` does to the verbose manager is allowed by `VerboseManager`, so
what is proved of that holds here (`LogsApart`, `LogsNamed`, `NamesFreed`). For `ProcessesApart` the invariant, `ApartInv`, says where a
log's name comes from: it ends in the number of its process, or holds no other process's number and is the first
process's or holds its own. Two processes cannot both say so of one name (`OwnAreApart`). `LostNamesWereReplaced` is
inductive with the types of names. `PartsKilled` rests on `PartsInv`, which says of every step of `newInstance` and `kill` how
often each part is allocated (the one in hand is, between its allocation and `free`, although OMR has not got it), and on
`NamelessInv`, by which the first process has a name for its log only while OMR has its manager, since `tearDown` frees it. `PolicyIsAsked` rests on
`OptionsInv`: the flags are what the options handled so far ask for, in whatever order they came.

Every specification with proofs has its types proved (`Typed`, `InterpreterTyped`, `HeapTyped`, `ParserTyped`, `VMTyped`,
`StartupTyped`).

**Model-checked only.** Liveness is out of the reach of TLAPS: `OperationsEnd`, `AnswersLikeDictionary`,
`CollectionsEnd`. Every other property of a passing run is a theorem, `Intact` for the hash functions it is checked with. The
absence of deadlock, which is about ENABLED, is checked by every run and proved nowhere.


## 8. What is not modelled

* The collector, linenoise and the port library: not in the repository.
* The format of printed values, prompts, messages, the history of lines.
* What a program does after it wrote to, or read through, a table that was taken back: it stops there (fault `reclaimed`). The
  memory may hold anything.
* Strings of no characters when there is no memory for one: `memcpy` of nothing through a null pointer.
* Reading index expressions in `Heap`: it adds no way to write memory that its other lines have not got.
* Resuming a scan of an object: the scanner of this program always finishes an object in one pass (`resume` reports
  nothing more).
* `std::hash` itself, and the exhaustion of the 64-bit counter that numbers objects.
* Code that is compiled out: the scavenger half of `CollectorLanguageInterfaceImpl` (`.cpp:98-262`), what forwarding,
  compaction and arraylets ask of the object models, `ContractslotScanner`, and the walk of the stack under `#if 0` in
  `Profiling.c`.
* Declarations of what OMR implements or fills: most of `EnvironmentDelegate`, `LanguageThreadLocalHeap`,
  `LanguageSegregatedAllocationCache`, `ObjectScannerState`, `UtilGlue.c`, size classes.
* Callbacks of hash tables nothing creates (`omrExampleVM`).
* The order in which `main.cpp` makes the runtime, the heap and its context: the objects' own destructors, in OMR's
  wrapper headers, which are not in the repository.


## 9. Plan

Done, in this order: `HashTable`; `HashTableHistory`, `Dictionary`, `HashTableDictionary`; `Interpreter`; `Parser`;
`ThreadBinding`; `VerboseManager`; `ObjectHeap`, `Heap`, `HeapObjects`; `Profiling`, `ConcurrentMarking`, `VM`; `Startup`; `Table`
and `TableCalls`, with `Interpreter` and `Heap` over tables that may be strained; the proofs named above.

To extend: a composition of `Interpreter` with `HashTable` itself, in which `globalVariables` is the detailed table, so that
which programs strain it can be asked; reading index expressions in `Heap`.
