----------------------------- MODULE Interpreter -----------------------------
(***************************************************************************)
(* The read-eval-print loop of main.cpp, the evaluation of a parsed line   *)
(* (AST.cpp:192-291), and what the garbage collector may take away while   *)
(* the evaluation runs.                                                    *)
(*                                                                         *)
(* Everything but the table globalVariables is an object of a heap that    *)
(* the collector sweeps.  The collector (Eclipse OMR, mark and sweep,      *)
(* neither moving nor concurrent: omr_config.cmake) sees the roots that    *)
(* main.cpp and the StackRoots of the evaluator give it, and the edges     *)
(* that OMRClient::GC::ObjectScanner reports.  It may run at every         *)
(* allocation, and does run when the program evaluates `forcegc'.          *)
(*                                                                         *)
(* A line is evaluated by recursive calls of Expression::Eval; here it is  *)
(* the sequence of steps those calls amount to, with the C++ locals that   *)
(* are alive between them.  Of a table the entries are kept, the room it   *)
(* counts and whether it is strained, not the cells the entries are in:    *)
(* Table says what Get and Set may do to it.                               *)
(***************************************************************************)
EXTENDS Table, Sequences, FiniteSets

CONSTANTS
  Cell,            \* where heap objects live; each holds one object or none
  Number,          \* the integers of the program
  Text,            \* the strings of the program, up to their hash
  Nil,             \* Value::Kind::NILL, and a null object pointer
  Dangling,        \* a pointer whose object the collector has reclaimed
  GlobalVariables, \* the table of that name, which is not a heap object
  GlobalSize,      \* the capacity of globalVariables (32 in main.cpp)
  TableSize,       \* HashTable::DEFAULT_SIZE (16)
  Lines            \* the lines that may be typed, parsed

ASSUME CellAssumption == Cell # {} /\ IsFiniteSet(Cell)
ASSUME SortAssumption == /\ Cell \cap (Number \cup Text) = {}
                         /\ Number \cap Text = {}
                         /\ {Nil, Dangling, GlobalVariables}
                              \cap (Cell \cup Number \cup Text) = {}
                         /\ Nil # Dangling
                         /\ GlobalVariables \notin {Nil, Dangling}
ASSUME SizesAssumption == {GlobalSize, TableSize} \subseteq Nat \ {0}

Primary == [kind : {"number"}, arg : Number]
             \cup [kind : {"string", "variable"}, arg : Text]

\* An expression is a primary, indexed by an expression or by nothing
\* (ParseExpression): p1[p2[p3]] is the sequence <<p1, p2, p3>>.  A line is an
\* expression, or assigns one to another.
ASSUME LinesAssumption ==
  Lines \subseteq [lhs : Seq(Primary), rhs : Seq(Primary) \ {<<>>}]

VARIABLES
  heap,     \* the object in each cell
  strained, \* the arrays in which a search may go wrong
  mode,     \* "prompt", "running" (a line), "exited" or "aborted"
  line,     \* the line being evaluated
  code,     \* what is left of it to do
  newTable, \* VariableExpr::Eval: a StackRoot, Nil outside
  objects,  \* IndexExpr::Eval: the object of each activation
  result,   \* what the last Eval or Get returned
  tbl,      \* AssignmentExpr::Eval: the table assigned to
  idx,      \* the key assigned to
  root,     \* and root_object, a StackRoot
  fault     \* what stopped the process

locals == <<newTable, objects, result, tbl, idx, root>>

vars == <<heap, strained, mode, line, code, locals, fault>>

-----------------------------------------------------------------------------
(* Objects. *)

Values == {Nil} \cup Number \cup Cell

Entries == [key : Values \ {Nil}, val : Values]

FreeCell == [kind |-> "free", text |-> Nil, array |-> Nil,
             entries |-> {}, room |-> 0]

StringObject(t) == [kind |-> "string", text |-> t, array |-> Nil,
                    entries |-> {}, room |-> 0]

HashTable(a) == [kind |-> "table", text |-> Nil, array |-> a,
                 entries |-> {}, room |-> 0]

\* The room is what its table counts in remainingCapacity_.
RefArray(es, n) == [kind |-> "array", text |-> Nil, array |-> Nil,
                    entries |-> es, room |-> n]

Objects ==
  {FreeCell}
    \cup [kind : {"string"}, text : Text, array : {Nil}, entries : {{}}, room : {0}]
    \cup [kind : {"table"}, text : {Nil}, array : Cell \cup {Nil},
          entries : {{}}, room : {0}]
    \cup [kind : {"array"}, text : {Nil}, array : {Nil},
          entries : SUBSET Entries, room : 0 .. GlobalSize \cup 0 .. TableSize]

\* The backing array of globalVariables, which never gets another one: Grow
\* does not return, and no object moves.
GlobalArray == CHOOSE c \in Cell : TRUE

\* Nil if there was no memory for it (HashTable::Initialize).
ArrayOf(t) == IF t = GlobalVariables THEN GlobalArray ELSE heap[t].array

\* What Value::operator== compares: of a string its hash, of any other object
\* its address, of an integer its value.
Identity(v) == IF v \in Cell /\ heap[v].kind = "string" THEN heap[v].text ELSE v

\* What Table knows of the table with array a, and its entries for a key.
TableAt(a) == [entries  |-> heap[a].entries,
               room     |-> heap[a].room,
               strained |-> a \in strained]

EntriesIn(a, id) == {e \in heap[a].entries : Identity(e.key) = id}

-----------------------------------------------------------------------------
(* The collector. *)

\* Mutant: the keys of an array are not reported.
ValueEdges(c) == Cell \cap ({heap[c].array} \cup {e.val : e \in heap[c].entries})

\* What ObjectScanner reports of the object in cell c.
Edges(c) == Cell \cap ({heap[c].array} \cup
                       UNION {{e.key, e.val} : e \in heap[c].entries})

Closed(T) == \A c \in T : Edges(c) \subseteq T

\* The cells reached from those of S: no set that has those, and is closed under
\* Edges, leaves one out.
Reach(S) ==
  Cell \ UNION {Cell \ T : T \in {U \in SUBSET Cell : S \subseteq U /\ Closed(U)}}

\* Mutant: main.cpp registers no marking function.
StackRoots == {newTable, root} \cap Cell

\* The marking function of main.cpp, and the StackRoots in scope.
Roots == {GlobalArray} \cup ({newTable, root} \cap Cell)

Live == Reach(Roots)

Swept == LET live == Live
         IN  [c \in Cell |-> IF c \in live THEN heap[c] ELSE FreeCell]

\* A local without a root keeps its address.
Survivor(v) == IF v \in Cell \ Live THEN Dangling ELSE v

Sweep ==
  /\ heap' = Swept
  /\ strained' = strained \cap Live
  /\ objects' = [i \in DOMAIN objects |-> Survivor(objects[i])]
  /\ tbl' = Survivor(tbl)
  /\ idx' = Survivor(idx)
  /\ UNCHANGED <<newTable, root>>

-----------------------------------------------------------------------------
(***************************************************************************)
(* The steps of a line.  IndexExpr::Eval evaluates and checks the object   *)
(* before the index, and looks the index up last.                          *)
(***************************************************************************)
Op(o) == [op |-> o]

EvalOp(p) == [op |-> "eval", kind |-> p.kind, arg |-> p.arg]

Chain(ps) ==
  LET n == Len(ps) IN
  [i \in 1 .. 2 * n - 1 |-> IF i % 2 = 1 THEN EvalOp(ps[(i + 1) \div 2])
                                         ELSE Op("object")]
    \o [i \in 1 .. n - 1 |-> Op("index")]

Assignment(target, l) == target \o <<Op("root")>> \o Chain(l.rhs) \o <<Op("store")>>

Compile(l) ==
  IF l.lhs = <<>>
    THEN Chain(l.rhs) \o <<Op("print")>>
  ELSE IF Len(l.lhs) > 1
    THEN Assignment(<<EvalOp(l.lhs[1]), Op("table")>> \o Chain(Tail(l.lhs)), l)
  ELSE IF l.lhs[1].kind = "variable"
    THEN Assignment(<<[op |-> "key", arg |-> l.lhs[1].arg]>>, l)
  ELSE <<Op("reject")>>

Faults == {"out_of_memory", "no_table", "no_array", "reclaimed", "nil_key",
           "assertion", "grow", "endless_print"}

NoLine == [lhs |-> <<>>, rhs |-> <<>>]

Init ==
  /\ heap = [[c \in Cell |-> FreeCell] EXCEPT ![GlobalArray] = RefArray({}, GlobalSize)]
  /\ strained = {}
  /\ mode = "prompt"
  /\ line = NoLine
  /\ code = <<>>
  /\ newTable = Nil
  /\ objects = <<>>
  /\ result = Nil
  /\ tbl = Nil
  /\ idx = Nil
  /\ root = Nil
  /\ fault = "none"

-----------------------------------------------------------------------------
(* The loop in main.cpp. *)

ReadLine(l) ==
  /\ mode = "prompt"
  /\ mode' = "running"
  /\ line' = l
  /\ code' = Compile(l)
  /\ UNCHANGED <<heap, strained, locals, fault>>

\* The end of the input, or an empty line.
Quit ==
  /\ mode = "prompt"
  /\ mode' = "exited"
  /\ UNCHANGED <<heap, strained, line, code, locals, fault>>

\* Eval returned, or an EvalError was caught: the locals and the line are gone.
BackToPrompt ==
  /\ mode' = "prompt"
  /\ line' = NoLine
  /\ code' = <<>>
  /\ newTable' = Nil
  /\ objects' = <<>>
  /\ result' = Nil
  /\ tbl' = Nil
  /\ idx' = Nil
  /\ root' = Nil
  /\ UNCHANGED fault

Abort(f) ==
  /\ mode' = "aborted"
  /\ fault' = f
  /\ UNCHANGED <<heap, strained, line, code, locals>>

Runs(o) == /\ mode = "running"
           /\ newTable = Nil
           /\ code # <<>>
           /\ Head(code).op = o

Continue == /\ code' = Tail(code)
            /\ UNCHANGED <<mode, line, fault>>

-----------------------------------------------------------------------------
(***************************************************************************)
(* Allocation.  OMR::GC::allocate may collect first (Collect).  When even  *)
(* that leaves no cell it answers nullptr, which its callers do not test:  *)
(* the process stops there, or the table goes without an array.            *)
(***************************************************************************)
FreeCells == {c \in Cell : heap[c] = FreeCell}

\* Which of them an object gets makes no difference.
NewCell == CHOOSE c \in FreeCells : TRUE

Place(o) == /\ FreeCells # {}
            /\ heap' = [heap EXCEPT ![NewCell] = o]

Evaluates(kind) == /\ Runs("eval")
                   /\ Head(code).kind = kind

\* The names VariableExpr::Eval does not look up.
Reserved == {"newtable", "forcegc"}

Allocates == \/ /\ mode = "running"
                /\ newTable # Nil
             \/ Runs("key")
             \/ Evaluates("string")
             \/ Evaluates("variable") /\ Head(code).arg # "forcegc"

Collect ==
  /\ Allocates
  /\ Live # Cell \ FreeCells
  /\ Sweep
  /\ result' = Survivor(result)
  /\ UNCHANGED <<mode, line, code, fault>>

\* A null HashTable or StringObject is written through at once.
OutOfMemory ==
  /\ Allocates
  /\ newTable = Nil
  /\ Live = Cell
  /\ Abort("out_of_memory")

-----------------------------------------------------------------------------
(* The evaluation of a primary. *)

EvalNumber ==
  /\ Evaluates("number")
  /\ result' = Head(code).arg
  /\ Continue
  /\ UNCHANGED <<heap, strained, newTable, objects, tbl, idx, root>>

EvalString ==
  /\ Evaluates("string")
  /\ Place(StringObject(Head(code).arg))
  /\ result' = NewCell
  /\ Continue
  /\ UNCHANGED <<strained, newTable, objects, tbl, idx, root>>

\* HashTable::Get.  FindSlot may relocate an entry, and strain the table by it;
\* a key that it does not find is read as nil.
Lookup(a, id) ==
  /\ result' \in Answers(TableAt(a), EntriesIn(a, id), Nil)
  /\ \E t \in AfterGet(TableAt(a), EntriesIn(a, id)) :
       strained' = strained \cup IF t.strained THEN {a} ELSE {}

\* An assertion of the search fails.
LookupStops(a, id) == /\ CanFail(TableAt(a), EntriesIn(a, id))
                      /\ Abort("assertion")

\* A string is made of the name, looked up, and left to the collector.
EvalVariable ==
  /\ Evaluates("variable")
  /\ Head(code).arg \notin Reserved
  /\ FreeCells # {}
  /\ \/ /\ Place(StringObject(Head(code).arg))
        /\ Lookup(GlobalArray, Head(code).arg)
        /\ Continue
        /\ UNCHANGED <<newTable, objects, tbl, idx, root>>
     \/ LookupStops(GlobalArray, Head(code).arg)

\* The first of the two allocations of a table: its StackRoot protects it from
\* the second one.
EvalNewTable ==
  /\ Evaluates("variable")
  /\ Head(code).arg = "newtable"
  /\ Place(HashTable(Nil))
  /\ newTable' = NewCell
  /\ UNCHANGED <<strained, mode, line, code, objects, result, tbl, idx, root, fault>>

\* HashTable::Initialize, and the return of the evaluation of `newtable'.  The
\* table is returned with a null array too, if there is no memory for one.
Initialize ==
  /\ mode = "running"
  /\ newTable # Nil
  /\ \/ /\ FreeCells # {}
        /\ heap' = [heap EXCEPT ![NewCell] = RefArray({}, TableSize),
                                ![newTable] = HashTable(NewCell)]
     \/ /\ Live = Cell
        /\ UNCHANGED heap
  /\ result' = newTable
  /\ newTable' = Nil
  /\ Continue
  /\ UNCHANGED <<strained, objects, tbl, idx, root>>

EvalForceGC ==
  /\ Evaluates("variable")
  /\ Head(code).arg = "forcegc"
  /\ Sweep
  /\ result' = Nil
  /\ Continue

-----------------------------------------------------------------------------
(* Indexing. *)

IsTable(v) == /\ v \in Cell
              /\ heap[v].kind = "table"

\* The object of an IndexExpr, or the table to assign to, has been evaluated.
CheckTable ==
  /\ \/ /\ Runs("object")
        /\ IsTable(result)
        /\ objects' = Append(objects, result)
        /\ Continue
        /\ UNCHANGED <<newTable, result, tbl, idx, root>>
     \/ /\ Runs("table")
        /\ IsTable(result)
        /\ tbl' = result
        /\ Continue
        /\ UNCHANGED <<newTable, objects, result, idx, root>>
     \/ /\ Runs("object") \/ Runs("table")
        /\ ~IsTable(result)
        /\ BackToPrompt
  /\ UNCHANGED <<heap, strained>>

Object == objects[Len(objects)]

Index ==
  /\ Runs("index")
  /\ objects # <<>>
  /\ \/ /\ result = Nil
        /\ BackToPrompt
        /\ UNCHANGED <<heap, strained>>
     \/ /\ result # Nil
        /\ Object = Dangling
        /\ Abort("reclaimed")
     \/ /\ result # Nil
        /\ Object # Dangling
        /\ ArrayOf(Object) = Nil
        /\ Abort("no_array")
     \/ /\ result # Nil
        /\ Object # Dangling
        /\ ArrayOf(Object) # Nil
        /\ \/ /\ Lookup(ArrayOf(Object), Identity(result))
              /\ objects' = SubSeq(objects, 1, Len(objects) - 1)
              /\ Continue
              /\ UNCHANGED <<heap, newTable, tbl, idx, root>>
           \/ LookupStops(ArrayOf(Object), Identity(result))

-----------------------------------------------------------------------------
(* Assignment. *)

\* The name assigned to becomes a key of globalVariables; `newtable' and
\* `forcegc' are names like any other here.
AssignmentKey ==
  /\ Runs("key")
  /\ Place(StringObject(Head(code).arg))
  /\ result' = NewCell
  /\ tbl' = GlobalVariables
  /\ Continue
  /\ UNCHANGED <<strained, newTable, objects, idx, root>>

\* The table that is assigned to is looked at before the right-hand side is
\* evaluated (AST.cpp:253-254).
TableStops ==
  /\ Runs("root")
  /\ \/ tbl = Nil      /\ Abort("no_table")
     \/ tbl = Dangling /\ Abort("reclaimed")

\* Mutant: the index is held without a root.
RootNothing ==
  /\ Runs("root")
  /\ tbl \notin {Nil, Dangling}
  /\ idx' = result
  /\ Continue
  /\ UNCHANGED <<heap, strained, newTable, objects, result, tbl, root>>

\* Mutant: an index that is no object is rooted as well.
RootAnyIndex ==
  /\ Runs("root")
  /\ tbl \notin {Nil, Dangling}
  /\ idx' = result
  /\ root' = result
  /\ Continue
  /\ UNCHANGED <<heap, strained, newTable, objects, result, tbl>>

\* root_object protects the index, not the table, while the right-hand side is
\* evaluated.
RootIndex ==
  /\ Runs("root")
  /\ tbl \notin {Nil, Dangling}
  /\ idx' = result
  /\ root' = IF result \in Cell THEN result ELSE Nil
  /\ Continue
  /\ UNCHANGED <<heap, strained, newTable, objects, result, tbl>>

Reject ==
  /\ Runs("reject")
  /\ BackToPrompt
  /\ UNCHANGED <<heap, strained>>

\* The assertions on the way to an entry of the table, and the null pointers.
StoreStops(f) ==
  LET a == ArrayOf(tbl) IN
  \/ f = "reclaimed" /\ tbl = Dangling
  \/ /\ tbl \notin {Nil, Dangling}
     /\ \/ f = "nil_key"   /\ idx = Nil
        \/ f = "no_array"  /\ idx # Nil /\ a = Nil
        \/ f = "assertion" /\ idx # Nil /\ a # Nil
             /\ CanFail(TableAt(a), EntriesIn(a, Identity(idx)))
        \/ f = "grow"      /\ idx # Nil /\ a # Nil
             /\ CanGrow(TableAt(a), EntriesIn(a, Identity(idx)))

StoreFails ==
  /\ Runs("store")
  /\ \E f \in Faults : StoreStops(f) /\ Abort(f)

\* HashTable::Set.
Store ==
  LET a == ArrayOf(tbl) IN
  /\ Runs("store")
  /\ tbl \notin {Nil, Dangling}
  /\ idx # Nil
  /\ a # Nil
  /\ \E t \in AfterSet(TableAt(a), EntriesIn(a, Identity(idx)), idx, result) :
       /\ heap' = [heap EXCEPT ![a] = RefArray(t.entries, t.room)]
       /\ strained' = strained \cup IF t.strained THEN {a} ELSE {}
  /\ BackToPrompt

-----------------------------------------------------------------------------
(* operator<<, which prints the tables inside a table in full. *)

Endless(v) == /\ v \in Cell
              /\ \E c \in Reach({v}) : c \in Reach(Edges(c))

Arrayless(v) == /\ v \in Cell
                /\ \E c \in Reach({v}) : IsTable(c) /\ ArrayOf(c) = Nil

PrintResult ==
  /\ Runs("print")
  /\ ~Endless(result)
  /\ ~Arrayless(result)
  /\ BackToPrompt
  /\ UNCHANGED <<heap, strained>>

\* Where both may happen, which one does is up to the order of the entries.
PrintStops ==
  /\ Runs("print")
  /\ \/ Endless(result)   /\ Abort("endless_print")
     \/ Arrayless(result) /\ Abort("no_array")

-----------------------------------------------------------------------------
Halted == /\ mode \in {"exited", "aborted"}
          /\ UNCHANGED vars

Step ==
  \/ Collect \/ OutOfMemory
  \/ EvalNumber \/ EvalString \/ EvalVariable
  \/ EvalNewTable \/ Initialize \/ EvalForceGC
  \/ CheckTable \/ Index
  \/ AssignmentKey \/ TableStops \/ RootIndex \/ Reject
  \/ StoreFails \/ Store
  \/ PrintResult \/ PrintStops

Next == \/ \E l \in Lines : ReadLine(l)
        \/ Quit
        \/ Step
        \/ Halted

Spec == Init /\ [][Next]_vars

-----------------------------------------------------------------------------
Instruction ==
  [op : {"object", "table", "index", "root", "store", "reject", "print"}]
    \cup [op : {"key"}, arg : Text]
    \cup [op : {"eval"}, kind : {"number"}, arg : Number]
    \cup [op : {"eval"}, kind : {"string", "variable"}, arg : Text]

TypeOK ==
  /\ heap \in [Cell -> Objects]
  /\ strained \subseteq Cell
  /\ mode \in {"prompt", "running", "exited", "aborted"}
  /\ line \in Lines \cup {NoLine}
  /\ code \in Seq(Instruction)
  /\ newTable \in Cell \cup {Nil}
  /\ objects \in Seq(Cell \cup {Dangling})
  /\ result \in Values \cup {Dangling}
  /\ tbl \in Cell \cup {Nil, Dangling, GlobalVariables}
  /\ idx \in Values \cup {Dangling}
  /\ root \in Cell \cup {Nil}
  /\ fault \in Faults \cup {"none"}

\* No object refers to one that was reclaimed, or whose cell holds something
\* else by now: a table refers to an array, an array to strings and tables.
\* This is what the marking function of main.cpp, ObjectScanner and the
\* StackRoots are there for.
HeapClosed ==
  /\ heap[GlobalArray].kind = "array"
  /\ \A c \in Cell :
       /\ heap[c].array # Nil => heap[heap[c].array].kind = "array"
       /\ \A e \in heap[c].entries : \A v \in {e.key, e.val} \cap Cell :
            heap[v].kind \in {"string", "table"}

\* A local that is not Dangling refers to an object of the program.
Referable(v) == v \in Cell => heap[v].kind \in {"string", "table"}

\* AST.cpp:247-259: whatever the evaluation of the right-hand side did, the
\* index and the value are alive when they are stored.
OperandsAlive == Runs("store") => /\ Dangling \notin {idx, result}
                                  /\ Referable(idx)
                                  /\ Referable(result)

\* The objects that are reached from the variables, with their entries.
Held == [c \in Reach({GlobalArray}) |-> heap[c]]

\* A line changes these only by its assignment: not by a collection in the
\* middle of it, nor when its evaluation fails.  A lookup may strain a table, and
\* an entry of it be missed from then on, but no entry is lost by one.
OnlyStoresChangeHeld == [][Held' # Held => Runs("store")]_vars

\* The objects of the index expressions of a line: all but the innermost index
\* of each of its two sides.
Indexed(ps) == {ps[i] : i \in 1 .. Len(ps) - 1}

NewTable == [kind |-> "variable", arg |-> "newtable"]

\* A table that a line reaches through a variable is not reclaimed under it:
\* only one the line itself has made can be.
OnlyTemporariesReclaimed ==
  fault = "reclaimed" => NewTable \in Indexed(line.lhs) \cup Indexed(line.rhs)

-----------------------------------------------------------------------------
(* A claim of the code that does not hold. *)

\* "we need to set the value in the table" (AST.cpp:228), "need to create ref to
\* object" (AST.cpp:281): the table an operation is applied to is still there.
TablesAlive == fault # "reclaimed"
=============================================================================
