-------------------------- MODULE InterpreterProofs --------------------------
(***************************************************************************)
(* The heap of the interpreter stays closed, for every set of cells, every *)
(* capacity and every set of lines: proofs about Interpreter.              *)
(*                                                                         *)
(* HeapClosed is not inductive, because the locals of the evaluator come   *)
(* and go between the heap and the program.  The invariant says of each of *)
(* them what it refers to as long as it is not Dangling, and which of them *)
(* cannot dangle: the two that a StackRoot holds, the index that root      *)
(* holds again, and the result while a step that uses it is next.          *)
(*                                                                         *)
(* Two results build on that: only the assignment of a line changes what   *)
(* the variables hold, and a table that was read from a variable is not    *)
(* reclaimed while a line uses it.                                         *)
(***************************************************************************)
EXTENDS Interpreter, SequenceTheorems, TLAPS

\* One that is used as a table refers to a table.
Usable(v) == v \in Cell => heap[v].kind = "table"

LocalsAlive ==
  /\ newTable # Nil => heap[newTable] = HashTable(Nil) /\ code # <<>>
  /\ \A i \in DOMAIN objects : Usable(objects[i])
  /\ Usable(tbl)
  /\ Referable(result)
  /\ Referable(root)
  /\ idx \in Cell => root = idx
  /\ idx # Dangling
  /\ result = Dangling => newTable # Nil \/ Runs("eval") \/ Runs("key")
                            \/ mode # "running"
  /\ mode = "prompt" => newTable = Nil /\ result # Dangling

Inv == TypeOK /\ HeapClosed /\ LocalsAlive

-----------------------------------------------------------------------------
(* Objects, and what a line compiles to. *)

LEMMA Shapes ==
  ASSUME NEW o \in Objects
  PROVE  /\ o.kind \in {"free", "string", "table", "array"}
         /\ o.array \in Cell \cup {Nil}
         /\ o.entries \subseteq Entries
         /\ o.array # Nil => o.kind = "table"
         /\ o.entries # {} => o.kind = "array"
         /\ o.kind = "free" => o = FreeCell
         /\ o.room \in 0 .. GlobalSize \cup 0 .. TableSize
BY SizesAssumption, SMT DEF Objects, FreeCell

LEMMA NewObjects ==
  /\ FreeCell \in Objects
  /\ \A t \in Text : StringObject(t) \in Objects /\ StringObject(t).kind = "string"
  /\ \A a \in Cell \cup {Nil} : /\ HashTable(a) \in Objects
                                /\ HashTable(a).kind = "table"
                                /\ HashTable(a).array = a
  /\ \A es \in SUBSET Entries, n \in 0 .. GlobalSize \cup 0 .. TableSize :
       /\ RefArray(es, n) \in Objects
       /\ RefArray(es, n).kind = "array"
       /\ RefArray(es, n).entries = es
<1>1. FreeCell \in Objects
  BY DEF Objects
<1>2. \A t \in Text : StringObject(t) \in Objects /\ StringObject(t).kind = "string"
  BY SMT DEF Objects, StringObject
<1>3. \A a \in Cell \cup {Nil} : /\ HashTable(a) \in Objects
                                 /\ HashTable(a).kind = "table"
                                 /\ HashTable(a).array = a
  BY SMT DEF Objects, HashTable
<1>4. \A es \in SUBSET Entries, n \in 0 .. GlobalSize \cup 0 .. TableSize :
        /\ RefArray(es, n) \in Objects
        /\ RefArray(es, n).kind = "array"
        /\ RefArray(es, n).entries = es
  BY SMT DEF Objects, RefArray
<1> QED BY <1>1, <1>2, <1>3, <1>4

\* A function on 1 .. n is a sequence.
LEMMA FunctionIsSeq ==
  ASSUME NEW S, NEW n \in Nat, NEW f \in [1 .. n -> S]
  PROVE  f \in Seq(S)
BY SeqDef

LEMMA ChainTyped ==
  ASSUME NEW ps \in Seq(Primary), ps # <<>>
  PROVE  Chain(ps) \in Seq(Instruction)
<1> DEFINE n == Len(ps)
           F == [i \in 1 .. 2 * n - 1 |-> IF i % 2 = 1 THEN EvalOp(ps[(i + 1) \div 2])
                                                       ELSE Op("object")]
           G == [i \in 1 .. n - 1 |-> Op("index")]
<1>1. n \in Nat \ {0}
  BY EmptySeq
<1>2. \A i \in 1 .. n : EvalOp(ps[i]) \in Instruction
  <2> TAKE i \in 1 .. n
  <2>1. ps[i] \in Primary
    BY ElementOfSeq
  <2> QED BY <2>1, SMT DEF EvalOp, Primary, Instruction
<1>3. \A i \in 1 .. 2 * n - 1 : i % 2 = 1 => (i + 1) \div 2 \in 1 .. n
  BY <1>1, SMT
<1>4. Op("object") \in Instruction /\ Op("index") \in Instruction
  BY SMT DEF Op, Instruction
<1>5. F \in [1 .. 2 * n - 1 -> Instruction]
  BY <1>2, <1>3, <1>4
<1>6. G \in [1 .. n - 1 -> Instruction]
  BY <1>4
<1>7. 2 * n - 1 \in Nat /\ n - 1 \in Nat
  BY <1>1, SMT
<1>8. F \in Seq(Instruction)
  <2> HIDE DEF F, n
  <2> QED BY <1>5, <1>7, FunctionIsSeq
<1>9. G \in Seq(Instruction)
  <2> HIDE DEF G, n
  <2> QED BY <1>6, <1>7, FunctionIsSeq
<1>10. F \o G \in Seq(Instruction)
  <2> HIDE DEF F, G, n
  <2> QED BY <1>8, <1>9, ConcatProperties
<1> QED BY <1>10 DEF Chain

LEMMA ShortSequences ==
  ASSUME NEW a \in Instruction, NEW b \in Instruction
  PROVE  <<a>> \in Seq(Instruction) /\ <<a, b>> \in Seq(Instruction)
BY SMT

LEMMA AssignmentTyped ==
  ASSUME NEW target \in Seq(Instruction), NEW l,
         Chain(l.rhs) \in Seq(Instruction)
  PROVE  Assignment(target, l) \in Seq(Instruction)
<1>1. \A o \in {"root", "store"} : <<Op(o)>> \in Seq(Instruction)
  <2> TAKE o \in {"root", "store"}
  <2>1. Op(o) \in Instruction
    BY SMT DEF Op, Instruction
  <2> QED BY <2>1, ShortSequences
<1> QED BY <1>1, ConcatProperties DEF Assignment

LEMMA CompileTyped ==
  ASSUME NEW l \in Lines
  PROVE  Compile(l) \in Seq(Instruction)
<1> DEFINE n == Len(l.lhs)
<1>1. l.lhs \in Seq(Primary) /\ l.rhs \in Seq(Primary) /\ l.rhs # <<>>
  BY LinesAssumption, SMT
<1>2. Chain(l.rhs) \in Seq(Instruction)
  BY <1>1, ChainTyped
<1>3. \A o \in {"table", "reject", "print"} :
        Op(o) \in Instruction /\ <<Op(o)>> \in Seq(Instruction)
  <2> TAKE o \in {"table", "reject", "print"}
  <2>1. Op(o) \in Instruction
    BY SMT DEF Op, Instruction
  <2> QED BY <2>1, ShortSequences
<1>4. CASE l.lhs = <<>>
  <2>1. Compile(l) = Chain(l.rhs) \o <<Op("print")>>
    BY <1>4 DEF Compile
  <2> QED BY <1>2, <1>3, <2>1, ConcatProperties
<1>5. ASSUME l.lhs # <<>>
      PROVE  /\ n \in Nat \ {0}
             /\ l.lhs[1] \in Primary
             /\ EvalOp(l.lhs[1]) \in Instruction
  <2>1. n \in Nat \ {0}
    BY <1>1, <1>5, EmptySeq
  <2>2. 1 \in 1 .. n
    BY <2>1, SMT
  <2>3. l.lhs[1] \in Primary
    BY <1>1, <2>2, ElementOfSeq
  <2>4. EvalOp(l.lhs[1]) \in Instruction
    BY <2>3, SMT DEF EvalOp, Primary, Instruction
  <2> QED BY <2>1, <2>3, <2>4
<1>6. CASE l.lhs # <<>> /\ n > 1
  <2>1. Tail(l.lhs) \in Seq(Primary) /\ Len(Tail(l.lhs)) = n - 1
    BY <1>1, <1>6, HeadTailProperties
  <2>2. n - 1 # 0
    <3> HIDE DEF n
    <3> QED BY <1>5, <1>6, SMT
  <2>3. Tail(l.lhs) # <<>>
    BY <2>1, <2>2, EmptySeq
  <2>4. Chain(Tail(l.lhs)) \in Seq(Instruction)
    BY <2>1, <2>3, ChainTyped
  <2>5. <<EvalOp(l.lhs[1]), Op("table")>> \in Seq(Instruction)
    BY <1>3, <1>5, <1>6, ShortSequences
  <2>6. <<EvalOp(l.lhs[1]), Op("table")>> \o Chain(Tail(l.lhs)) \in Seq(Instruction)
    BY <2>4, <2>5, ConcatProperties
  <2>7. Compile(l) = Assignment(<<EvalOp(l.lhs[1]), Op("table")>> \o Chain(Tail(l.lhs)), l)
    BY <1>6 DEF Compile
  <2> QED BY <1>2, <2>6, <2>7, AssignmentTyped
<1>7. CASE l.lhs # <<>> /\ ~(n > 1) /\ l.lhs[1].kind = "variable"
  <2> DEFINE key == [op |-> "key", arg |-> l.lhs[1].arg]
  <2>1. key \in Instruction
    BY <1>5, <1>7, SMT DEF Primary, Instruction
  <2>2. <<key>> \in Seq(Instruction)
    BY <2>1, ShortSequences
  <2>3. Compile(l) = Assignment(<<key>>, l)
    BY <1>7 DEF Compile
  <2> QED BY <1>2, <2>2, <2>3, AssignmentTyped
<1>8. CASE l.lhs # <<>> /\ ~(n > 1) /\ l.lhs[1].kind # "variable"
  <2>1. Compile(l) = <<Op("reject")>>
    BY <1>8 DEF Compile
  <2> QED BY <1>3, <2>1
<1> QED BY <1>4, <1>6, <1>7, <1>8
-----------------------------------------------------------------------------
(* The collector. *)

LEMMA GlobalArrayIsCell == GlobalArray \in Cell
BY CellAssumption DEF GlobalArray

\* What is reached is closed under Edges, and holds what it started from.
LEMMA ReachClosed ==
  ASSUME NEW S \in SUBSET Cell
  PROVE  /\ Reach(S) \subseteq Cell
         /\ S \subseteq Reach(S)
         /\ \A c \in Reach(S) : Edges(c) \subseteq Reach(S)
<1>1. Reach(S) \subseteq Cell
  BY DEF Reach
<1>2. S \subseteq Reach(S)
  BY DEF Reach
<1>3. ASSUME NEW c \in Reach(S), NEW d \in Edges(c)
      PROVE  d \in Reach(S)
  <2>1. d \in Cell
    BY <1>3 DEF Edges
  <2>2. SUFFICES ASSUME NEW U \in SUBSET Cell, S \subseteq U, Closed(U)
                 PROVE  d \in U
    BY <2>1 DEF Reach
  <2>3. c \in U
    BY <1>3, <2>2 DEF Reach
  <2> QED BY <1>3, <2>2, <2>3 DEF Closed
<1> QED BY <1>1, <1>2, <1>3

LEMMA LiveCells ==
  /\ Live \subseteq Cell
  /\ GlobalArray \in Live
  /\ newTable \in Cell => newTable \in Live
  /\ root \in Cell => root \in Live
  /\ \A c \in Live : Edges(c) \subseteq Live
BY GlobalArrayIsCell, ReachClosed DEF Live, Roots

\* A collection keeps the invariant, whatever it does to result.
LEMMA SweepKeeps ==
  ASSUME Inv, Sweep, mode = "running",
         UNCHANGED <<mode, line>>,
         code' \in Seq(Instruction),
         newTable # Nil => code' = code,
         fault' = fault,
         result' \in Values \cup {Dangling},
         result' \in Cell => result' = result /\ result \in Live,
         result' = Dangling => newTable # Nil \/ Runs("eval")' \/ Runs("key")'
  PROVE  Inv'
<1>1. \A c \in Live : heap'[c] = heap[c]
  BY LiveCells DEF Sweep, Swept
<1>2. \A c \in Cell \ Live : heap'[c] = FreeCell
  BY DEF Sweep, Swept
<1>3. \A v : Survivor(v) \in Cell => Survivor(v) = v /\ v \in Live
  BY SortAssumption DEF Survivor
<1>4. TypeOK'
  <2>1. heap' \in [Cell -> Objects]
    BY NewObjects DEF Inv, TypeOK, Sweep, Swept
  <2>2. objects' \in Seq(Cell \cup {Dangling})
    <3>1. /\ Len(objects) \in Nat
          /\ DOMAIN objects = 1 .. Len(objects)
          /\ \A i \in 1 .. Len(objects) : objects[i] \in Cell \cup {Dangling}
      BY LenProperties, ElementOfSeq DEF Inv, TypeOK
    <3>2. objects' \in [1 .. Len(objects) -> Cell \cup {Dangling}]
      BY <3>1 DEF Sweep, Survivor
    <3> QED BY <3>1, <3>2, FunctionIsSeq
  <2>3. tbl' \in Cell \cup {Nil, Dangling, GlobalVariables}
    BY DEF Inv, TypeOK, Sweep, Survivor
  <2>4. idx' \in Values \cup {Dangling}
    BY DEF Inv, TypeOK, Sweep, Survivor
  <2>5. strained' \subseteq Cell
    BY DEF Inv, TypeOK, Sweep
  <2> QED BY <2>1, <2>2, <2>3, <2>4, <2>5 DEF Inv, TypeOK, Sweep
<1>5. HeapClosed'
  <2>1. heap'[GlobalArray].kind = "array"
    BY <1>1, LiveCells DEF Inv, HeapClosed
  <2>2. ASSUME NEW c \in Cell, heap'[c].array # Nil
        PROVE  heap'[heap'[c].array].kind = "array"
    <3>1. c \in Live
      BY <1>2, <2>2 DEF FreeCell
    <3>2. heap'[c] = heap[c] /\ heap[c].array \in Cell
      BY <1>1, <2>2, <3>1, Shapes DEF Inv, TypeOK
    <3>3. heap[c].array \in Live
      BY <3>1, <3>2, LiveCells DEF Edges
    <3> QED BY <1>1, <2>2, <3>2, <3>3 DEF Inv, HeapClosed
  <2>3. ASSUME NEW c \in Cell, NEW e \in heap'[c].entries, NEW v \in {e.key, e.val} \cap Cell
        PROVE  heap'[v].kind \in {"string", "table"}
    <3>1. c \in Live
      BY <1>2, <2>3 DEF FreeCell
    <3>2. heap'[c] = heap[c]
      BY <1>1, <3>1
    <3>3. v \in Edges(c)
      BY <2>3, <3>2 DEF Edges
    <3>4. v \in Live
      BY <3>1, <3>3, LiveCells
    <3> QED BY <1>1, <2>3, <3>2, <3>4 DEF Inv, HeapClosed
  <2> QED BY <2>1, <2>2, <2>3 DEF HeapClosed
<1>6. LocalsAlive'
  <2>1. newTable' # Nil => heap'[newTable'] = HashTable(Nil) /\ code' # <<>>
    BY <1>1, LiveCells DEF Inv, TypeOK, LocalsAlive, Sweep
  <2>2. \A i \in DOMAIN objects' : Usable(objects[i])' /\ objects'[i] = Survivor(objects[i])
    BY <1>1, <1>3 DEF Inv, LocalsAlive, Sweep, Usable
  <2>3. Usable(tbl)'
    BY <1>1, <1>3 DEF Inv, LocalsAlive, Sweep, Usable
  <2>4. Referable(result)' /\ Referable(root)'
    BY <1>1, LiveCells DEF Inv, LocalsAlive, Sweep, Referable
  <2>5. idx' = idx
    BY LiveCells DEF Inv, LocalsAlive, Sweep, Survivor
  <2> QED BY <2>1, <2>2, <2>3, <2>4, <2>5 DEF Inv, LocalsAlive, Sweep
<1> QED BY <1>4, <1>5, <1>6 DEF Inv

-----------------------------------------------------------------------------
(* Allocation. *)

LEMMA NewCellIsFree ==
  ASSUME FreeCells # {}
  PROVE  NewCell \in Cell /\ heap[NewCell] = FreeCell /\ heap[NewCell].kind = "free"
<1>1. NewCell \in FreeCells
  BY DEF NewCell
<1> QED BY <1>1 DEF FreeCells, FreeCell

\* A new string, or a new table without an array, disturbs nothing.
LEMMA PlaceKeeps ==
  ASSUME Inv, NEW o \in Objects, Place(o),
         o.kind \in {"string", "table"}, o.array = Nil
  PROVE  /\ heap' \in [Cell -> Objects]
         /\ NewCell \in Cell
         /\ heap'[NewCell] = o
         /\ \A c \in Cell : heap[c].kind # "free" => heap'[c] = heap[c]
         /\ HeapClosed'
<1>1. NewCell \in Cell /\ heap[NewCell].kind = "free"
  BY NewCellIsFree DEF Place
<1>2. heap' = [heap EXCEPT ![NewCell] = o] /\ heap \in [Cell -> Objects]
  BY DEF Place, Inv, TypeOK
<1>3. /\ heap' \in [Cell -> Objects]
      /\ heap'[NewCell] = o
      /\ \A c \in Cell \ {NewCell} : heap'[c] = heap[c]
  BY <1>1, <1>2
<1>4. \A c \in Cell : heap[c].kind # "free" => heap'[c] = heap[c]
  BY <1>1, <1>3
<1>5. o.entries = {}
  BY Shapes
<1>6. HeapClosed'
  <2>1. heap'[GlobalArray].kind = "array"
    BY <1>4, GlobalArrayIsCell DEF Inv, HeapClosed
  <2>2. ASSUME NEW c \in Cell, heap'[c].array # Nil
        PROVE  heap'[heap'[c].array].kind = "array"
    <3>1. heap'[c] = heap[c]
      BY <1>3, <2>2
    <3>2. heap[c].array \in Cell /\ heap[heap[c].array].kind = "array"
      BY <1>2, <2>2, <3>1, Shapes DEF Inv, HeapClosed
    <3> QED BY <1>4, <3>1, <3>2
  <2>3. ASSUME NEW c \in Cell, NEW e \in heap'[c].entries, NEW v \in {e.key, e.val} \cap Cell
        PROVE  heap'[v].kind \in {"string", "table"}
    <3>1. heap'[c] = heap[c]
      BY <1>3, <1>5, <2>3
    <3>2. heap[v].kind \in {"string", "table"}
      BY <2>3, <3>1 DEF Inv, HeapClosed
    <3> QED BY <1>4, <3>2
  <2> QED BY <2>1, <2>2, <2>3 DEF HeapClosed
<1> QED BY <1>1, <1>3, <1>4, <1>6

-----------------------------------------------------------------------------
(* The steps. *)

LEMMA InitInv == Init => Inv
<1> SUFFICES ASSUME Init PROVE Inv
  OBVIOUS
<1> DEFINE o == RefArray({}, GlobalSize)
<1>1. heap \in [Cell -> Objects] /\ heap[GlobalArray] = o
  <2>1. GlobalSize \in 0 .. GlobalSize
    BY SizesAssumption, SMT
  <2>2. o \in Objects
    BY <2>1, NewObjects
  <2> QED BY <2>2, GlobalArrayIsCell, NewObjects DEF Init
<1>2. \A c \in Cell : heap[c] \in {FreeCell, o}
  BY GlobalArrayIsCell DEF Init
<1>3. TypeOK
  BY <1>1, EmptySeq DEF Init, TypeOK, Values
<1>4. HeapClosed
  BY <1>1, <1>2 DEF HeapClosed, RefArray, FreeCell
<1>5. LocalsAlive
  BY SortAssumption DEF Init, LocalsAlive, Usable, Referable
<1> QED BY <1>3, <1>4, <1>5 DEF Inv

\* Leaving a line.
LEMMA PromptInv ==
  ASSUME Inv, BackToPrompt, newTable = Nil,
         heap' \in [Cell -> Objects], strained' \subseteq Cell, HeapClosed'
  PROVE  Inv'
<1>1. TypeOK'
  BY EmptySeq DEF Inv, TypeOK, BackToPrompt, Values
<1>2. LocalsAlive'
  BY SortAssumption DEF BackToPrompt, LocalsAlive, Usable, Referable
<1> QED BY <1>1, <1>2 DEF Inv

LEMMA PromptUnchanged ==
  ASSUME Inv, BackToPrompt, newTable = Nil, UNCHANGED <<heap, strained>>
  PROVE  Inv'
<1>1. heap' \in [Cell -> Objects] /\ strained' \subseteq Cell /\ HeapClosed'
  BY DEF Inv, TypeOK, HeapClosed
<1> QED BY <1>1, PromptInv

LEMMA AbortInv ==
  ASSUME Inv, NEW f \in Faults, Abort(f)
  PROVE  Inv'
<1>1. TypeOK'
  BY DEF Inv, TypeOK, Abort, locals
<1>2. HeapClosed'
  BY DEF Inv, HeapClosed, Abort, locals
<1>3. LocalsAlive'
  BY DEF Inv, LocalsAlive, Usable, Referable, Abort, locals
<1> QED BY <1>1, <1>2, <1>3 DEF Inv

LEMMA RunsTail ==
  ASSUME Inv, code # <<>>
  PROVE  Head(code) \in Instruction /\ Tail(code) \in Seq(Instruction)
BY HeadTailProperties DEF Inv, TypeOK

\* A step that changes neither the heap nor newTable, and gives the locals
\* values that are alive.
LEMMA LocalStep ==
  ASSUME Inv, newTable = Nil, UNCHANGED <<heap, newTable, line, mode, fault>>, TypeOK',
         \A i \in DOMAIN objects' : Usable(objects'[i]),
         Usable(tbl'), Referable(result'), Referable(root'),
         idx' \in Cell => root' = idx', idx' # Dangling, result' # Dangling
  PROVE  Inv'
<1>1. HeapClosed'
  BY DEF Inv, HeapClosed
<1>2. LocalsAlive'
  BY DEF Inv, LocalsAlive, Usable, Referable
<1> QED BY <1>1, <1>2 DEF Inv

\* What a lookup answers is a value of the table, or nil.
LEMMA LookupAlive ==
  ASSUME Inv, NEW a \in Cell, NEW id,
         NEW r \in Answers(TableAt(a), EntriesIn(a, id), Nil)
  PROVE  r \in Values /\ Referable(r) /\ (r \in Cell => r \in Edges(a))
<1>1. CASE r = Nil
  BY <1>1, SortAssumption DEF Values, Referable
<1>2. CASE r # Nil
  <2>1. PICK e \in EntriesIn(a, id) : r = e.val
    BY <1>2 DEF Answers
  <2>2. e \in heap[a].entries /\ e \in Entries
    BY <2>1, Shapes DEF EntriesIn, Inv, TypeOK
  <2>3. e.val \in Values
    BY <2>2 DEF Entries
  <2>4. Referable(e.val)
    BY <2>2 DEF Inv, HeapClosed, Referable
  <2>5. e.val \in Cell => e.val \in Edges(a)
    BY <2>2 DEF Edges
  <2> QED BY <2>1, <2>3, <2>4, <2>5
<1> QED BY <1>1, <1>2

\* The array of a table that has one.
LEMMA ArrayIs ==
  ASSUME Inv, NEW t \in Cell \cup {GlobalVariables}, Usable(t), ArrayOf(t) # Nil
  PROVE  ArrayOf(t) \in Cell /\ heap[ArrayOf(t)].kind = "array"
BY GlobalArrayIsCell, SortAssumption, Shapes DEF ArrayOf, Inv, TypeOK, HeapClosed

\* A step of the evaluator that makes a string, or a table without an array.
LEMMA AllocStep ==
  ASSUME Inv, newTable = Nil, mode' = "running", NEW o \in Objects, Place(o), o.array = Nil, TypeOK',
         UNCHANGED <<objects, root, idx>>, tbl' \in {tbl, GlobalVariables},
         \/ /\ o.kind = "string"
            /\ newTable' = Nil
            /\ result' # Dangling
            /\ result' = NewCell \/ Referable(result')
         \/ /\ o = HashTable(Nil)
            /\ newTable' = NewCell
            /\ code' = code /\ code # <<>>
            /\ result' = result
  PROVE  Inv'
<1>1. o.kind \in {"string", "table"}
  BY NewObjects
<1>2. /\ NewCell \in Cell
      /\ heap'[NewCell] = o
      /\ \A c \in Cell : heap[c].kind # "free" => heap'[c] = heap[c]
      /\ HeapClosed'
  BY <1>1, PlaceKeeps
<1>3. NewCell # Nil
  BY <1>2, SortAssumption
<1>4. LocalsAlive'
  <2>1. \A i \in DOMAIN objects' : Usable(objects[i])' /\ objects'[i] = objects[i]
    BY <1>2 DEF Inv, LocalsAlive, Usable
  <2>2. Usable(tbl)'
    BY <1>2, SortAssumption DEF Inv, LocalsAlive, Usable
  <2>3. Referable(root)'
    BY <1>2 DEF Inv, LocalsAlive, Referable
  <2>4. Referable(result)'
    BY <1>1, <1>2 DEF Inv, LocalsAlive, Referable
  <2>5. newTable' # Nil => heap'[newTable'] = HashTable(Nil) /\ code' # <<>>
    BY <1>2
  <2>6. result' = Dangling => newTable' # Nil
    BY <1>3
  <2> QED BY <2>1, <2>2, <2>3, <2>4, <2>5, <2>6 DEF Inv, LocalsAlive
<1> QED BY <1>2, <1>4 DEF Inv

LEMMA ReadLineInv ==
  ASSUME Inv, NEW l \in Lines, ReadLine(l)
  PROVE  Inv'
<1>1. TypeOK'
  BY CompileTyped DEF ReadLine, Inv, TypeOK, locals
<1>2. HeapClosed'
  BY DEF Inv, HeapClosed, ReadLine, locals
<1>3. LocalsAlive'
  BY DEF Inv, LocalsAlive, Usable, Referable, ReadLine, locals
<1> QED BY <1>1, <1>2, <1>3 DEF Inv

LEMMA EvaluateInv ==
  ASSUME Inv, EvalNumber \/ EvalString \/ EvalVariable \/ EvalNewTable \/ AssignmentKey
  PROVE  Inv'
<1> DEFINE arg == Head(code).arg
<1>1. /\ mode = "running" /\ newTable = Nil /\ code # <<>>
      /\ Runs("key") => arg \in Text
      /\ Evaluates("string") \/ Evaluates("variable") => arg \in Text
      /\ Evaluates("number") => arg \in Number
  BY RunsTail DEF Instruction, Runs, Evaluates, EvalNumber, EvalString, EvalVariable,
                  EvalNewTable, AssignmentKey
<1>2. CASE EvalNumber
  <2>1. TypeOK'
    BY <1>1, <1>2, RunsTail DEF EvalNumber, Continue, Inv, TypeOK, Values
  <2>2. result' \notin Cell /\ result' # Dangling
    BY <1>1, <1>2, SortAssumption DEF EvalNumber
  <2> QED BY <1>1, <1>2, <2>1, <2>2, LocalStep
        DEF EvalNumber, Continue, Inv, LocalsAlive, Usable, Referable
<1>3. ASSUME EvalString \/ (EvalVariable /\ ~Abort("assertion")) \/ AssignmentKey
      PROVE  Inv'
  <2> DEFINE o == StringObject(arg)
  <2>1. o \in Objects /\ o.kind = "string" /\ o.array = Nil /\ arg \in Text
    BY <1>1, <1>3, NewObjects DEF StringObject, EvalString, EvalVariable, AssignmentKey
  <2>2. Place(o)
    BY <1>3 DEF EvalString, EvalVariable, AssignmentKey, LookupStops
  <2>3. heap' \in [Cell -> Objects] /\ NewCell \in Cell
    BY <2>1, <2>2, PlaceKeeps
  <2>4. /\ result' = NewCell \/ (result' \in Values /\ Referable(result'))
        /\ strained' \subseteq Cell
    <3>1. CASE EvalString \/ AssignmentKey
      BY <3>1 DEF EvalString, AssignmentKey, Inv, TypeOK
    <3>2. CASE Lookup(GlobalArray, arg)
      BY <3>2, LookupAlive, GlobalArrayIsCell DEF Lookup, Inv, TypeOK
    <3> QED BY <1>3, <3>1, <3>2 DEF EvalVariable, LookupStops
  <2>5. /\ result' \in Values /\ result' # Dangling
        /\ result' = NewCell \/ Referable(result')
    BY <2>3, <2>4, SortAssumption DEF Values
  <2>6. /\ tbl' \in {tbl, GlobalVariables}
        /\ UNCHANGED <<objects, newTable, root, idx>>
        /\ Continue
    BY <1>3 DEF EvalString, EvalVariable, AssignmentKey, LookupStops
  <2>7. TypeOK' /\ mode' = mode
    BY <1>1, <2>3, <2>4, <2>5, <2>6, RunsTail DEF Continue, Inv, TypeOK
  <2> HIDE DEF o
  <2> QED BY <1>1, <2>1, <2>2, <2>5, <2>6, <2>7, AllocStep
<1>4. CASE EvalNewTable
  <2>1. HashTable(Nil) \in Objects /\ HashTable(Nil).kind = "table" /\ HashTable(Nil).array = Nil
    BY NewObjects
  <2>2. heap' \in [Cell -> Objects] /\ NewCell \in Cell
    BY <1>4, <2>1, PlaceKeeps DEF EvalNewTable
  <2>3. TypeOK'
    BY <1>4, <2>2 DEF EvalNewTable, Inv, TypeOK
  <2> QED BY <1>1, <1>4, <2>1, <2>3, AllocStep DEF EvalNewTable
<1>5. CASE Abort("assertion")
  BY <1>5, AbortInv DEF Faults
<1> QED BY <1>2, <1>3, <1>4, <1>5

\* The array of the new table takes the second cell.
LEMMA ArrayPlaced ==
  ASSUME Inv, newTable # Nil, FreeCells # {},
         heap' = [heap EXCEPT ![NewCell] = RefArray({}, TableSize),
                              ![newTable] = HashTable(NewCell)]
  PROVE  /\ heap' \in [Cell -> Objects]
         /\ \A c \in Cell : heap[c].kind # "free" => heap'[c].kind = heap[c].kind
         /\ HeapClosed'
<1>1. /\ NewCell \in Cell /\ heap[NewCell].kind = "free"
      /\ newTable \in Cell /\ heap[newTable] = HashTable(Nil)
  BY NewCellIsFree DEF Inv, TypeOK, LocalsAlive
<1>2. heap[newTable].kind = "table" /\ heap[newTable].array = Nil /\ heap[newTable].entries = {}
  BY <1>1 DEF HashTable
<1>3. NewCell # newTable
  BY <1>1, <1>2
<1>4. /\ heap' \in [Cell -> Objects]
      /\ heap'[NewCell] = RefArray({}, TableSize)
      /\ heap'[newTable] = HashTable(NewCell)
      /\ \A c \in Cell \ {NewCell, newTable} : heap'[c] = heap[c]
  <2>1. RefArray({}, TableSize) \in Objects
    <3>1. TableSize \in 0 .. TableSize
      BY SizesAssumption, SMT
    <3> QED BY <3>1, NewObjects
  <2> QED BY <1>1, <1>3, <2>1, NewObjects DEF Inv, TypeOK
<1>5. \A c \in Cell : heap[c].kind # "free" =>
        heap'[c].kind = heap[c].kind /\ (c # newTable => heap'[c] = heap[c])
  BY <1>1, <1>2, <1>4, NewObjects
<1>6. HeapClosed'
  <2>1. heap'[GlobalArray].kind = "array"
    BY <1>5, GlobalArrayIsCell DEF Inv, HeapClosed
  <2>2. ASSUME NEW c \in Cell, heap'[c].array # Nil
        PROVE  heap'[heap'[c].array].kind = "array"
    <3>1. CASE c = newTable
      BY <1>1, <1>4, <3>1 DEF HashTable, RefArray
    <3>2. CASE c = NewCell
      BY <1>4, <2>2, <3>2 DEF RefArray
    <3>3. CASE c \notin {NewCell, newTable}
      <4>1. heap[c].array \in Cell /\ heap[heap[c].array].kind = "array"
        BY <1>4, <2>2, <3>3, Shapes DEF Inv, HeapClosed, TypeOK
      <4> QED BY <1>4, <1>5, <3>3, <4>1
    <3> QED BY <3>1, <3>2, <3>3
  <2>3. ASSUME NEW c \in Cell, NEW e \in heap'[c].entries, NEW v \in {e.key, e.val} \cap Cell
        PROVE  heap'[v].kind \in {"string", "table"}
    <3>1. heap'[c] = heap[c]
      BY <1>4, <2>3 DEF RefArray, HashTable
    <3>2. heap[v].kind \in {"string", "table"}
      BY <2>3, <3>1 DEF Inv, HeapClosed
    <3> QED BY <1>5, <3>2
  <2> QED BY <2>1, <2>2, <2>3 DEF HeapClosed
<1> QED BY <1>4, <1>5, <1>6

LEMMA InitializeInv ==
  ASSUME Inv, Initialize
  PROVE  Inv'
<1>1. /\ newTable \in Cell /\ heap[newTable].kind = "table"
      /\ mode = "running" /\ code # <<>>
  BY NewObjects DEF Initialize, Inv, TypeOK, LocalsAlive, HashTable
<1>2. /\ heap' \in [Cell -> Objects]
      /\ \A c \in Cell : heap[c].kind # "free" => heap'[c].kind = heap[c].kind
      /\ HeapClosed'
  <2>1. CASE UNCHANGED heap
    BY <2>1 DEF Inv, TypeOK, HeapClosed
  <2> QED BY <2>1, ArrayPlaced DEF Initialize
<1>3. TypeOK'
  BY <1>1, <1>2, RunsTail DEF Initialize, Continue, Inv, TypeOK, Values
<1>4. LocalsAlive'
  <2>1. \A i \in DOMAIN objects' : Usable(objects[i])' /\ objects'[i] = objects[i]
    BY <1>2 DEF Inv, LocalsAlive, Usable, Initialize
  <2>2. Usable(tbl)'
    BY <1>2 DEF Inv, LocalsAlive, Usable, Initialize
  <2>3. Referable(root)' /\ Referable(result)'
    BY <1>1, <1>2 DEF Inv, LocalsAlive, Referable, Initialize
  <2> QED BY <1>1, <2>1, <2>2, <2>3, SortAssumption DEF Inv, LocalsAlive, Initialize, Continue
<1> QED BY <1>2, <1>3, <1>4 DEF Inv

LEMMA CollectInv ==
  ASSUME Inv, Collect \/ EvalForceGC
  PROVE  Inv'
<1>1. CASE Collect
  <2>1. /\ Sweep /\ mode = "running" /\ UNCHANGED <<mode, line, code, fault>>
        /\ newTable # Nil \/ Runs("eval") \/ Runs("key")
    BY <1>1 DEF Collect, Allocates, Runs, Evaluates
  <2>2. result' \in Values \cup {Dangling} /\ (result' \in Cell => result' = result /\ result \in Live)
    BY <1>1, SortAssumption DEF Collect, Survivor, Inv, TypeOK
  <2>3. newTable # Nil \/ Runs("eval")' \/ Runs("key")'
    BY <2>1 DEF Sweep, Runs
  <2>4. code' \in Seq(Instruction)
    BY <2>1 DEF Inv, TypeOK
  <2> QED BY <2>1, <2>2, <2>3, <2>4, SweepKeeps
<1>2. CASE EvalForceGC
  <2>1. /\ Sweep /\ mode = "running" /\ UNCHANGED <<mode, line, fault>>
        /\ newTable = Nil /\ code # <<>> /\ code' = Tail(code) /\ result' = Nil
    BY <1>2 DEF EvalForceGC, Continue, Evaluates, Runs
  <2>2. code' \in Seq(Instruction)
    BY <2>1, RunsTail
  <2>3. result' \in Values \cup {Dangling} /\ result' \notin Cell /\ result' # Dangling
    BY <2>1, SortAssumption DEF Values
  <2> QED BY <2>1, <2>2, <2>3, SweepKeeps
<1> QED BY <1>1, <1>2

LEMMA CheckTableInv ==
  ASSUME Inv, CheckTable
  PROVE  Inv'
<1>1. newTable = Nil /\ mode = "running" /\ code # <<>> /\ UNCHANGED <<heap, strained>>
  BY DEF CheckTable, Runs
<1>2. ASSUME IsTable(result)
      PROVE  Usable(result) /\ result \in Cell /\ Referable(result) /\ result # Dangling
  BY <1>1, <1>2, SortAssumption DEF IsTable, Usable, Referable
<1>3. CASE /\ Runs("object") /\ IsTable(result)
           /\ objects' = Append(objects, result)
           /\ Continue
           /\ UNCHANGED <<newTable, result, tbl, idx, root>>
  <2>1. /\ objects \in Seq(Cell \cup {Dangling})
        /\ result \in Cell \cup {Dangling}
    BY <1>2, <1>3 DEF Inv, TypeOK
  <2>2. /\ objects' \in Seq(Cell \cup {Dangling})
        /\ DOMAIN objects = 1 .. Len(objects)
        /\ DOMAIN objects' = 1 .. Len(objects) + 1
        /\ Len(objects) \in Nat
        /\ \A i \in 1 .. Len(objects) : objects'[i] = objects[i]
        /\ objects'[Len(objects) + 1] = result
    BY <1>3, <2>1, AppendProperties, LenProperties
  <2>3. \A i \in DOMAIN objects' : i \in DOMAIN objects \/ i = Len(objects) + 1
    BY <2>2, SMT
  <2>4. \A i \in DOMAIN objects' : Usable(objects'[i])
    BY <1>2, <1>3, <2>2, <2>3 DEF Inv, LocalsAlive
  <2>5. TypeOK'
    BY <1>1, <1>3, <2>2, RunsTail DEF Continue, Inv, TypeOK
  <2> QED BY <1>1, <1>2, <1>3, <2>4, <2>5, LocalStep DEF Continue, Inv, LocalsAlive
<1>4. CASE /\ Runs("table") /\ IsTable(result)
           /\ tbl' = result
           /\ Continue
           /\ UNCHANGED <<newTable, objects, result, idx, root>>
  <2>1. TypeOK'
    BY <1>1, <1>2, <1>4, RunsTail DEF Continue, Inv, TypeOK
  <2> QED BY <1>1, <1>2, <1>4, <2>1, LocalStep DEF Continue, Inv, LocalsAlive
<1>5. CASE BackToPrompt
  BY <1>1, <1>5, PromptUnchanged
<1> QED BY <1>3, <1>4, <1>5 DEF CheckTable

LEMMA IndexInv ==
  ASSUME Inv, Index
  PROVE  Inv'
<1>1. newTable = Nil /\ mode = "running" /\ code # <<>> /\ Runs("index") /\ objects # <<>>
  BY DEF Index, Runs
<1>2. CASE result = Nil /\ BackToPrompt /\ UNCHANGED <<heap, strained>>
  BY <1>1, <1>2, PromptUnchanged
<1>3. ASSUME NEW f \in Faults, Abort(f)
      PROVE  Inv'
  BY <1>3, AbortInv
<1>4. CASE /\ result # Nil /\ Object # Dangling /\ ArrayOf(Object) # Nil
           /\ Lookup(ArrayOf(Object), Identity(result))
           /\ objects' = SubSeq(objects, 1, Len(objects) - 1)
           /\ Continue
           /\ UNCHANGED <<heap, newTable, tbl, idx, root>>
  <2> DEFINE n == Len(objects)
  <2>1. /\ objects \in Seq(Cell \cup {Dangling})
        /\ n \in Nat \ {0}
        /\ DOMAIN objects = 1 .. n
        /\ \A i \in 1 .. n : objects[i] \in Cell \cup {Dangling}
    BY <1>1, EmptySeq, LenProperties, ElementOfSeq DEF Inv, TypeOK
  <2> HIDE DEF n
  <2>2. n \in 1 .. n /\ n - 1 \in Int /\ 1 .. n - 1 \subseteq 1 .. n
    BY <2>1, SMT
  <2>3. /\ objects' \in Seq(Cell \cup {Dangling})
        /\ Len(objects') = n - 1
        /\ \A i \in 1 .. n - 1 : objects'[i] = objects[i]
    <3>1. objects' = SubSeq(objects, 1, n - 1)
      BY <1>4 DEF n
    <3>2. \A i \in 1 .. n - 1 : objects[i] \in Cell \cup {Dangling}
      BY <2>1, <2>2
    <3>3. /\ SubSeq(objects, 1, n - 1) \in Seq(Cell \cup {Dangling})
          /\ Len(SubSeq(objects, 1, n - 1)) = IF 1 <= n - 1 THEN n - 1 - 1 + 1 ELSE 0
          /\ \A i \in 1 .. n - 1 - 1 + 1 : SubSeq(objects, 1, n - 1)[i] = objects[1 + i - 1]
      BY <2>2, <3>2, SubSeqProperties
    <3>4. /\ n - 1 - 1 + 1 = n - 1
          /\ (IF 1 <= n - 1 THEN n - 1 - 1 + 1 ELSE 0) = n - 1
          /\ \A i \in 1 .. n - 1 : 1 + i - 1 = i
      BY <2>1, SMT
    <3> QED BY <3>1, <3>3, <3>4
  <2>4. DOMAIN objects' = 1 .. n - 1
    BY <2>3, LenProperties
  <2>5. \A i \in DOMAIN objects' : Usable(objects'[i])
    BY <2>1, <2>2, <2>3, <2>4 DEF Inv, LocalsAlive
  <2>6. Object \in Cell /\ Usable(Object)
    BY <1>4, <2>1, <2>2 DEF Object, n, Inv, LocalsAlive
  <2>7. result' \in Values /\ Referable(result') /\ strained' \subseteq Cell
    <3>1. ArrayOf(Object) \in Cell
      BY <1>4, <2>6, ArrayIs
    <3> QED BY <1>4, <3>1, LookupAlive DEF Lookup, Inv, TypeOK
  <2>8. result' # Dangling
    BY <2>7, SortAssumption DEF Values
  <2>9. TypeOK'
    BY <1>1, <1>4, <2>3, <2>7, RunsTail DEF Continue, Inv, TypeOK
  <2> QED BY <1>1, <1>4, <2>5, <2>7, <2>8, <2>9, LocalStep DEF Continue, Inv, LocalsAlive
<1> QED BY <1>2, <1>3, <1>4 DEF Index, LookupStops, Faults

LEMMA RootIndexInv ==
  ASSUME Inv, RootIndex
  PROVE  Inv'
<1>1. newTable = Nil /\ mode = "running" /\ code # <<>> /\ Head(code).op = "root"
  BY DEF RootIndex, Runs
<1>2. result # Dangling
  BY <1>1 DEF Inv, LocalsAlive, Runs
<1>3. TypeOK'
  BY <1>1, RunsTail DEF RootIndex, Continue, Inv, TypeOK
<1>4. /\ Referable(root')
      /\ idx' \in Cell => root' = idx'
      /\ idx' # Dangling /\ result' # Dangling
  BY <1>2, SortAssumption DEF RootIndex, Inv, LocalsAlive, Referable
<1> QED BY <1>1, <1>3, <1>4, LocalStep DEF RootIndex, Continue, Inv, LocalsAlive

\* What Set leaves of a table.
LEMMA SetLeaves ==
  ASSUME NEW a \in Cell, NEW held \in SUBSET heap[a].entries, NEW k, NEW v,
         NEW t \in AfterSet(TableAt(a), held, k, v), heap[a].room \in Nat
  PROVE  /\ \A e \in t.entries : \/ e \in heap[a].entries
                                 \/ e = [key |-> k, val |-> v]
                                 \/ \E f \in held : e = [key |-> f.key, val |-> v]
         /\ t.room \in 0 .. heap[a].room
<1> DEFINE u == TableAt(a)
<1>1. u.entries = heap[a].entries /\ u.room = heap[a].room
  BY DEF TableAt
<1>2. ASSUME t \in Updates(u, held, v)
      PROVE  /\ t.room = u.room
             /\ \E f \in held, others \in SUBSET u.entries :
                  t.entries = others \cup {[key |-> f.key, val |-> v]}
  <2>1. PICK f \in held, others \in SUBSET u.entries :
          t = [u EXCEPT !.entries = others \cup {[key |-> f.key, val |-> v]}]
    BY <1>2 DEF Updates
  <2>2. t.room = u.room /\ t.entries = others \cup {[key |-> f.key, val |-> v]}
    BY <2>1 DEF TableAt
  <2> QED BY <2>1, <2>2
<1>3. ASSUME t \in Insertions(u, held, k, v), u.room > 0
      PROVE  /\ t.room = u.room - 1
             /\ \E lost : t.entries = (u.entries \ lost) \cup {[key |-> k, val |-> v]}
  <2>1. PICK s, lost : t = Inserted(u, lost, k, v, s)
    BY <1>3 DEF Insertions
  <2>2. t.room = u.room - 1 /\ t.entries = (u.entries \ lost) \cup {[key |-> k, val |-> v]}
    BY <2>1 DEF Inserted, TableAt
  <2> QED BY <2>2
<1>4. t \in Updates(u, held, v) \/ (t \in Insertions(u, held, k, v) /\ u.room > 0)
  BY DEF AfterSet
<1> HIDE DEF u
<1>5. t.room \in 0 .. heap[a].room
  BY <1>1, <1>2, <1>3, <1>4, SMT
<1>6. \A e \in t.entries : \/ e \in heap[a].entries
                           \/ e = [key |-> k, val |-> v]
                           \/ \E f \in held : e = [key |-> f.key, val |-> v]
  BY <1>1, <1>2, <1>3, <1>4
<1> QED BY <1>5, <1>6

LEMMA StoreInv ==
  ASSUME Inv, Store
  PROVE  Inv'
<1> DEFINE a    == ArrayOf(tbl)
           held == EntriesIn(a, Identity(idx))
<1>1. /\ newTable = Nil /\ mode = "running" /\ code # <<>> /\ Head(code).op = "store"
      /\ tbl \notin {Nil, Dangling} /\ idx # Nil /\ a # Nil
      /\ BackToPrompt
  BY DEF Store, Runs
<1>2. tbl \in Cell \cup {GlobalVariables} /\ Usable(tbl)
  BY <1>1 DEF Inv, TypeOK, LocalsAlive
<1>3. a \in Cell /\ heap[a].kind = "array"
  BY <1>1, <1>2, ArrayIs
<1>4. /\ idx \in Values \ {Nil} /\ Referable(idx)
      /\ result \in Values /\ Referable(result)
  BY <1>1 DEF Inv, TypeOK, LocalsAlive, Referable, Runs
<1>5. /\ heap[a].entries \subseteq Entries
      /\ held \subseteq heap[a].entries
      /\ heap[a].room \in Nat
      /\ 0 .. heap[a].room \subseteq 0 .. GlobalSize \cup 0 .. TableSize
  <2>1. /\ heap[a].entries \subseteq Entries
        /\ heap[a].room \in 0 .. GlobalSize \cup 0 .. TableSize
    BY <1>3, Shapes DEF Inv, TypeOK
  <2>2. /\ heap[a].room \in Nat
        /\ 0 .. heap[a].room \subseteq 0 .. GlobalSize \cup 0 .. TableSize
    BY <2>1, SizesAssumption, SMT
  <2> QED BY <2>1, <2>2 DEF EntriesIn
<1>6. PICK t \in AfterSet(TableAt(a), held, idx, result) :
        /\ heap' = [heap EXCEPT ![a] = RefArray(t.entries, t.room)]
        /\ strained' = strained \cup IF t.strained THEN {a} ELSE {}
  BY DEF Store
<1> HIDE DEF a, held
<1>7. /\ \A e \in t.entries : \/ e \in heap[a].entries
                              \/ e = [key |-> idx, val |-> result]
                              \/ \E f \in held : e = [key |-> f.key, val |-> result]
      /\ t.room \in 0 .. GlobalSize \cup 0 .. TableSize
  <2>1. held \in SUBSET heap[a].entries
    BY <1>5
  <2>2. /\ \A e \in t.entries : \/ e \in heap[a].entries
                                \/ e = [key |-> idx, val |-> result]
                                \/ \E f \in held : e = [key |-> f.key, val |-> result]
        /\ t.room \in 0 .. heap[a].room
    BY <1>3, <1>5, <1>6, <2>1, SetLeaves
  <2> QED BY <1>5, <2>2
<1>8. \A e \in heap[a].entries : Referable(e.key) /\ Referable(e.val)
  BY <1>3 DEF Inv, HeapClosed, Referable
<1>9. \A f \in heap[a].entries : f.key \in Values \ {Nil}
  BY <1>5 DEF Entries
<1>10. \A e \in t.entries : e \in Entries /\ Referable(e.key) /\ Referable(e.val)
  <2> TAKE e \in t.entries
  <2>1. CASE e \in heap[a].entries
    BY <1>5, <1>8, <2>1
  <2>2. CASE e = [key |-> idx, val |-> result]
    BY <1>4, <2>2 DEF Entries
  <2>3. ASSUME NEW f \in held, e = [key |-> f.key, val |-> result]
        PROVE  e \in Entries /\ Referable(e.key) /\ Referable(e.val)
    BY <1>4, <1>5, <1>8, <1>9, <2>3 DEF Entries
  <2> QED BY <1>7, <2>1, <2>2, <2>3
<1> DEFINE o == RefArray(t.entries, t.room)
<1>11. o \in Objects /\ o.kind = "array" /\ o.entries = t.entries /\ o.array = Nil
  <2>1. t.entries \in SUBSET Entries
    BY <1>10
  <2> QED BY <1>7, <2>1, NewObjects DEF RefArray
<1>12. /\ heap' \in [Cell -> Objects]
       /\ heap'[a] = o
       /\ \A c \in Cell \ {a} : heap'[c] = heap[c]
       /\ \A c \in Cell : heap'[c].kind = heap[c].kind
  <2>1. heap' = [heap EXCEPT ![a] = o]
    BY <1>6
  <2> HIDE DEF o
  <2> QED BY <1>3, <1>11, <2>1 DEF Inv, TypeOK
<1>13. strained' \subseteq Cell
  BY <1>3, <1>6 DEF Inv, TypeOK
<1> HIDE DEF o
<1>14. HeapClosed'
  <2>1. heap'[GlobalArray].kind = "array"
    BY <1>12, GlobalArrayIsCell DEF Inv, HeapClosed
  <2>2. ASSUME NEW c \in Cell, heap'[c].array # Nil
        PROVE  heap'[heap'[c].array].kind = "array"
    <3>1. heap'[c] = heap[c]
      BY <1>11, <1>12, <2>2
    <3>2. heap[c].array \in Cell /\ heap[heap[c].array].kind = "array"
      BY <2>2, <3>1, Shapes DEF Inv, HeapClosed, TypeOK
    <3> QED BY <1>12, <3>1, <3>2
  <2>3. ASSUME NEW c \in Cell, NEW e \in heap'[c].entries, NEW v \in {e.key, e.val} \cap Cell
        PROVE  heap'[v].kind \in {"string", "table"}
    <3>1. CASE c = a
      BY <1>10, <1>11, <1>12, <2>3, <3>1 DEF Referable
    <3>2. CASE c # a
      BY <1>12, <2>3, <3>2 DEF Inv, HeapClosed
    <3> QED BY <3>1, <3>2
  <2> QED BY <2>1, <2>2, <2>3 DEF HeapClosed
<1> QED BY <1>1, <1>12, <1>13, <1>14, PromptInv

LEMMA NextInv == Inv /\ [Next]_vars => Inv'
<1> SUFFICES ASSUME Inv, [Next]_vars PROVE Inv'
  OBVIOUS
<1>1. ASSUME NEW l \in Lines, ReadLine(l) PROVE Inv'
  BY <1>1, ReadLineInv
<1>2. CASE Quit \/ Halted \/ UNCHANGED vars
  <2>1. /\ UNCHANGED <<heap, strained, line, code, newTable, objects, result, tbl, idx, root, fault>>
        /\ mode' \in {mode, "exited"}
        /\ mode' = "exited" \/ mode' = mode
    BY <1>2 DEF Quit, Halted, vars, locals
  <2>2. TypeOK'
    BY <2>1 DEF Inv, TypeOK
  <2>3. HeapClosed'
    BY <2>1 DEF Inv, HeapClosed
  <2>4. LocalsAlive'
    BY <2>1 DEF Inv, LocalsAlive, Usable, Referable, Runs
  <2> QED BY <2>2, <2>3, <2>4 DEF Inv
<1>3. CASE Collect \/ EvalForceGC
  BY <1>3, CollectInv
<1>4. CASE OutOfMemory
  BY <1>4, AbortInv DEF OutOfMemory, Faults
<1>5. CASE EvalNumber \/ EvalString \/ EvalVariable \/ EvalNewTable \/ AssignmentKey
  BY <1>5, EvaluateInv
<1>6. CASE Initialize
  BY <1>6, InitializeInv
<1>7. CASE CheckTable
  BY <1>7, CheckTableInv
<1>8. CASE Index
  BY <1>8, IndexInv
<1>9. CASE RootIndex
  BY <1>9, RootIndexInv
<1>10. CASE Reject
  BY <1>10, PromptUnchanged DEF Reject, Runs
<1>11. CASE StoreFails
  BY <1>11, AbortInv DEF StoreFails
<1>12. CASE Store
  BY <1>12, StoreInv
<1>13. CASE PrintResult
  BY <1>13, PromptUnchanged DEF PrintResult, Runs
<1>14. CASE TableStops \/ PrintStops
  BY <1>14, AbortInv DEF TableStops, PrintStops, Faults
<1> QED BY <1>1, <1>2, <1>3, <1>4, <1>5, <1>6, <1>7, <1>8, <1>9, <1>10, <1>11,
           <1>12, <1>13, <1>14 DEF Next, Step

-----------------------------------------------------------------------------
LEMMA Invariance == Spec => []Inv
BY InitInv, NextInv, PTL DEF Spec

\* The interpreter stays well-typed: in particular no local of AST.cpp holds
\* anything but a value, a table or a pointer to a reclaimed object.
THEOREM InterpreterTyped == Spec => []TypeOK
BY Invariance, PTL DEF Inv

\* The roots given by main.cpp and by the StackRoots of the evaluator, and the
\* edges given by ObjectScanner, keep every object alive that another refers to.
THEOREM HeapStaysClosed == Spec => []HeapClosed
BY Invariance, PTL DEF Inv

\* AST.cpp:247-259: the index and the value of an assignment are alive when it
\* is carried out.
THEOREM OperandsSurvive == Spec => []OperandsAlive
<1>1. Inv => OperandsAlive
  BY DEF Inv, LocalsAlive, OperandsAlive, Referable, Runs
<1> QED BY <1>1, Invariance, PTL

-----------------------------------------------------------------------------
(* What the variables hold. *)

\* A table that is being made is in no entry yet.
Unpublished ==
  newTable # Nil =>
    \A c \in Cell : \A e \in heap[c].entries : newTable \notin {e.key, e.val}

\* Which steps touch the heap, and how.
LEMMA HeapSteps ==
  ASSUME [Next]_vars
  PROVE  \/ UNCHANGED heap
         \/ Sweep
         \/ \E t : Place(StringObject(t))
         \/ Place(HashTable(Nil))
         \/ Initialize
         \/ Store
BY DEF Next, Step, vars, ReadLine, Quit, Halted, Collect, OutOfMemory, EvalNumber, EvalString,
       EvalVariable, EvalNewTable, EvalForceGC, CheckTable, Index, AssignmentKey, RootIndex,
       Reject, StoreFails, PrintResult, PrintStops, TableStops, LookupStops, Abort

\* A free cell is in no entry, and is nobody's array.
LEMMA FreeIsUnreferred ==
  ASSUME Inv, NEW c \in Cell, NEW d \in Cell, heap[d].kind = "free"
  PROVE  d \notin Edges(c)
<1>1. heap[c].array # d
  BY SortAssumption DEF Inv, HeapClosed
<1>2. \A e \in heap[c].entries : d \notin {e.key, e.val}
  BY DEF Inv, HeapClosed
<1> QED BY <1>1, <1>2 DEF Edges

LEMMA UnpublishedStep ==
  ASSUME Inv, Unpublished, [Next]_vars
  PROVE  Unpublished'
<1>1. CASE UNCHANGED <<heap, newTable>>
  BY <1>1 DEF Unpublished
<1>2. CASE newTable' = Nil
  BY <1>2 DEF Unpublished
<1>3. CASE Sweep
  BY <1>3 DEF Sweep, Swept, FreeCell, Unpublished
<1>4. CASE EvalNewTable
  <2>1. NewCell \in Cell /\ heap[NewCell].kind = "free" /\ newTable' = NewCell
    BY <1>4, NewCellIsFree DEF EvalNewTable, Place
  <2>2. heap' = [heap EXCEPT ![NewCell] = HashTable(Nil)]
    BY <1>4 DEF EvalNewTable, Place
  <2>3. \A c \in Cell : heap'[c].entries = heap[c].entries \/ heap'[c].entries = {}
    BY <2>2 DEF HashTable, Inv, TypeOK
  <2>4. \A c \in Cell : \A e \in heap[c].entries : NewCell \notin {e.key, e.val}
    BY <2>1 DEF Inv, HeapClosed
  <2> QED BY <2>1, <2>3, <2>4 DEF Unpublished
<1>5. CASE \/ EvalString \/ EvalVariable \/ AssignmentKey \/ CheckTable \/ Index
           \/ RootIndex \/ Reject \/ Store \/ PrintResult \/ Initialize
  <2>1. newTable' = Nil \/ UNCHANGED <<heap, newTable>>
    BY <1>5 DEF EvalString, EvalVariable, AssignmentKey, CheckTable, Index, RootIndex, Reject,
         Store, PrintResult, Initialize, LookupStops, Evaluates, Runs, BackToPrompt, Abort,
         locals
  <2> QED BY <1>1, <1>2, <2>1
<1> QED BY <1>1, <1>3, <1>4, <1>5 DEF Next, Step, vars, locals, ReadLine, Quit, Halted, Collect,
         OutOfMemory, EvalNumber, EvalForceGC, StoreFails, PrintStops, TableStops, LookupStops, Abort

\* What is reached from the variables is no free cell, and no table that is
\* being made.
LEMMA HeldCells ==
  ASSUME Inv, Unpublished
  PROVE  \A c \in Reach({GlobalArray}) : c \in Live /\ heap[c].kind # "free" /\ c # newTable
<1> DEFINE U == {c \in Live : heap[c].kind # "free" /\ c # newTable}
<1>1. U \subseteq Cell
  BY LiveCells
<1>2. GlobalArray \in U
  <2>1. heap[GlobalArray].kind = "array"
    BY DEF Inv, HeapClosed
  <2>2. newTable # Nil => heap[newTable].kind = "table"
    BY DEF Inv, LocalsAlive, HashTable
  <2> QED BY <2>1, <2>2, LiveCells, GlobalArrayIsCell, SortAssumption
<1>3. ASSUME NEW c \in U, NEW d \in Edges(c)
      PROVE  d \in U
  <2>1. c \in Cell /\ d \in Cell /\ d \in Live
    BY <1>3, LiveCells DEF Edges
  <2>2. heap[d].kind # "free"
    BY <1>3, <2>1, FreeIsUnreferred
  <2>3. d # newTable
    <3>1. CASE d = heap[c].array
      <4>1. heap[d].kind = "array"
        BY <2>1, <3>1, SortAssumption DEF Inv, HeapClosed
      <4>2. newTable # Nil => heap[newTable].kind = "table"
        BY DEF Inv, LocalsAlive, HashTable
      <4> QED BY <2>1, <4>1, <4>2, SortAssumption
    <3>2. CASE \E e \in heap[c].entries : d \in {e.key, e.val}
      BY <2>1, <3>2, SortAssumption DEF Unpublished
    <3> QED BY <1>3, <3>1, <3>2 DEF Edges
  <2> QED BY <2>1, <2>2, <2>3
<1>4. Closed(U)
  BY <1>3 DEF Closed
<1> HIDE DEF U
<1>5. Reach({GlobalArray}) \subseteq U
  BY <1>1, <1>2, <1>4 DEF Reach
<1> QED BY <1>5 DEF U

\* As long as the objects that are reached stay as they are, no others are.
LEMMA SameReach ==
  ASSUME \A c \in Reach({GlobalArray}) : heap'[c] = heap[c]
  PROVE  Held' = Held
<1> DEFINE R == Reach({GlobalArray})
           S == Reach({GlobalArray})'
<1>1. /\ R \subseteq Cell /\ GlobalArray \in R
      /\ \A c \in R : Edges(c) \subseteq R
  BY GlobalArrayIsCell, ReachClosed
<1>2. GlobalArray' = GlobalArray
  BY DEF GlobalArray
<1>3. \A c \in R : Edges(c)' = Edges(c)
  BY DEF Edges
<1>4. S \subseteq R
  <2>1. \A c \in R : Edges(c)' \subseteq R
    BY <1>1, <1>3
  <2> HIDE DEF R
  <2> QED BY <1>1, <1>2, <2>1 DEF Reach, Closed
<1>5. GlobalArray \in S /\ \A c \in S : Edges(c)' \subseteq S
  <2>1. ASSUME NEW c \in S, NEW d \in Edges(c)'
        PROVE  d \in S
    <3>1. d \in Cell
      BY <2>1 DEF Edges
    <3>2. SUFFICES ASSUME NEW U \in SUBSET Cell, GlobalArray \in U,
                          \A b \in U : Edges(b)' \subseteq U
                   PROVE  d \in U
      BY <1>2, <3>1 DEF Reach, Closed
    <3>3. c \in U
      BY <1>2, <2>1, <3>2 DEF Reach, Closed
    <3> QED BY <2>1, <3>2, <3>3
  <2>2. GlobalArray \in S
    BY <1>2, GlobalArrayIsCell DEF Reach
  <2> QED BY <2>1, <2>2
<1>6. R \subseteq S
  <2>1. S \subseteq Cell
    BY <1>1, <1>4
  <2>2. \A c \in S : Edges(c) \subseteq S
    BY <1>3, <1>4, <1>5
  <2> HIDE DEF S
  <2> QED BY <1>5, <2>1, <2>2 DEF Reach, Closed
<1>7. R = S
  BY <1>4, <1>6
<1>8. Held = [c \in R |-> heap[c]] /\ Held' = [c \in S |-> heap'[c]]
  BY <1>2 DEF Held
<1> QED BY <1>7, <1>8

LEMMA OtherStepsInvisible ==
  ASSUME Inv, Unpublished, [Next]_vars, ~Store
  PROVE  Held' = Held
<1> DEFINE R == Reach({GlobalArray})
<1>1. \A c \in R : c \in Cell /\ c \in Live /\ heap[c].kind # "free" /\ c # newTable
  BY HeldCells, LiveCells
<1> HIDE DEF R
<1>2. SUFFICES \A c \in R : heap'[c] = heap[c]
  BY SameReach DEF R
<1>3. CASE UNCHANGED heap
  BY <1>3
<1>4. CASE Sweep
  BY <1>1, <1>4 DEF Sweep, Swept
<1>5. ASSUME NEW o, Place(o)
      PROVE  \A c \in R : heap'[c] = heap[c]
  <2>1. NewCell \notin R
    BY <1>1, <1>5, NewCellIsFree DEF Place
  <2> QED BY <1>1, <1>5, <2>1 DEF Place, Inv, TypeOK
<1>6. CASE Initialize
  <2>1. CASE FreeCells # {} /\ heap' = [heap EXCEPT ![NewCell] = RefArray({}, TableSize),
                                                   ![newTable] = HashTable(NewCell)]
    <3>1. NewCell \notin R /\ newTable \notin R
      BY <1>1, <2>1, NewCellIsFree
    <3> QED BY <1>1, <2>1, <3>1 DEF Inv, TypeOK
  <2> QED BY <1>3, <1>6, <2>1 DEF Initialize
<1> QED BY <1>3, <1>4, <1>5, <1>6, HeapSteps

\* For every program: the objects that are reached from the variables, and their
\* entries, change by the assignment of a line only, and by no collection, allocation,
\* lookup or error on the way (main.cpp:18-25, AST.cpp:194-291).
THEOREM HeldByStores == Spec => OnlyStoresChangeHeld
<1>1. Init => Inv /\ Unpublished
  BY InitInv DEF Init, Unpublished
<1>2. Inv /\ Unpublished /\ [Next]_vars => (Inv /\ Unpublished)'
  BY NextInv, UnpublishedStep
<1>3. Inv /\ Unpublished /\ [Next]_vars => [Held' # Held => Runs("store")]_vars
  BY OtherStepsInvisible DEF Store
<1> QED BY <1>1, <1>2, <1>3, PTL DEF Spec, OnlyStoresChangeHeld

-----------------------------------------------------------------------------
(***************************************************************************)
(* The tables a line uses without a root.  What is read from a variable    *)
(* can be reached from globalVariables, and only an assignment, which ends *)
(* the line, changes what can.  The invariant says that the tables held by *)
(* the locals were all read so, unless the line indexes a `newtable' of    *)
(* its own.                                                                *)
(***************************************************************************)
Kept == Reach({GlobalArray})

\* The steps that take the last result for a table.
Checked == {"object", "table"}

\* Each of them follows the evaluation of a primary, which is not `newtable'.
Fits(s) == \A i \in 1 .. Len(s) - 1 : s[i + 1].op \in Checked =>
             s[i].op = "eval" /\ s[i] # EvalOp(NewTable)

Begins(s) == s # <<>> => s[1].op \notin Checked

Making == newTable # Nil => Head(code) = EvalOp(NewTable)

Stops == fault # "none" => mode = "aborted"

Idle == mode = "prompt" => objects = <<>> /\ tbl = Nil

Borrows ==
  NewTable \notin Indexed(line.lhs) \cup Indexed(line.rhs) =>
    /\ Fits(code)
    /\ \A i \in DOMAIN objects : objects[i] \in Kept
    /\ tbl \in Kept \cup {Nil, GlobalVariables}
    /\ Runs("object") \/ Runs("table") => (IsTable(result) => result \in Kept)
    /\ fault # "reclaimed"

LEMMA FitsConcat ==
  ASSUME NEW s \in Seq(Instruction), NEW t \in Seq(Instruction),
         Fits(s), Fits(t), Begins(t)
  PROVE  Fits(s \o t) /\ (Begins(s) => Begins(s \o t))
<1> DEFINE m == Len(s)
           n == Len(t)
           u == s \o t
<1>1. /\ u \in Seq(Instruction)
      /\ Len(u) = m + n
      /\ \A i \in 1 .. m + n : u[i] = IF i <= m THEN s[i] ELSE t[i - m]
  BY ConcatProperties
<1>2. m \in Nat /\ n \in Nat
  BY LenProperties
<1>3. t # <<>> <=> n # 0
  BY EmptySeq
<1>4. s # <<>> <=> m # 0
  BY EmptySeq
<1>5. u # <<>> <=> m + n # 0
  BY <1>1, EmptySeq
<1> HIDE DEF m, n, u
<1>6. ASSUME NEW i \in 1 .. m + n - 1, u[i + 1].op \in Checked
      PROVE  u[i].op = "eval" /\ u[i] # EvalOp(NewTable)
  <2>1. i \in 1 .. m + n /\ i + 1 \in 1 .. m + n
    BY <1>2, SMT
  <2>2. CASE i + 1 <= m
    <3>1. i \in 1 .. m - 1 /\ i <= m
      BY <1>2, <2>2, SMT
    <3>2. u[i + 1] = s[i + 1] /\ u[i] = s[i]
      BY <1>1, <2>1, <2>2, <3>1
    <3> QED BY <1>6, <3>1, <3>2 DEF Fits, m
  <2>3. CASE i = m
    <3>1. n # 0 /\ ~(i + 1 <= m) /\ i + 1 - m = 1
      BY <1>2, <2>3, SMT
    <3>2. PICK j \in 1 .. m + n : j = i + 1
      BY <2>1
    <3>3. ~(j <= m) /\ j - m = 1
      BY <1>2, <2>3, <3>2
    <3>4. u[j] = t[1]
      BY <1>1, <3>3
    <3> QED BY <1>3, <1>6, <3>1, <3>2, <3>4 DEF Begins
  <2>4. CASE i > m
    <3>1. /\ i - m \in 1 .. n - 1 /\ ~(i <= m) /\ ~(i + 1 <= m)
          /\ i + 1 - m = (i - m) + 1
      BY <1>2, <2>4, SMT
    <3>2. u[i + 1] = t[i + 1 - m] /\ u[i] = t[i - m]
      BY <1>1, <1>2, <2>1, <3>1
    <3> QED BY <1>6, <3>1, <3>2 DEF Fits, n
  <2>5. i + 1 <= m \/ i = m \/ i > m
    BY <1>2, SMT
  <2> QED BY <2>2, <2>3, <2>4, <2>5
<1>7. Fits(u)
  <2>1. Len(u) - 1 = m + n - 1
    BY <1>1, <1>2
  <2> QED BY <1>6, <2>1 DEF Fits
<1>8. ASSUME Begins(s)
      PROVE  Begins(u)
  <2>1. SUFFICES ASSUME m + n # 0
                 PROVE  u[1].op \notin Checked
    BY <1>5 DEF Begins
  <2>2. 1 \in 1 .. m + n
    BY <1>2, <2>1, SMT
  <2>3. CASE m = 0
    <3>1. n # 0 /\ ~(1 <= m) /\ 1 - m = 1
      BY <1>2, <2>1, <2>3, SMT
    <3> QED BY <1>1, <1>3, <2>2, <3>1 DEF Begins
  <2>4. CASE m # 0
    <3>1. 1 <= m
      BY <1>2, <2>4, SMT
    <3> QED BY <1>1, <1>4, <1>8, <2>2, <2>4, <3>1 DEF Begins
  <2> QED BY <2>3, <2>4
<1> QED BY <1>7, <1>8 DEF u

LEMMA FitsTail ==
  ASSUME NEW s \in Seq(Instruction), s # <<>>, Fits(s)
  PROVE  /\ Fits(Tail(s))
         /\ Tail(s) # <<>> /\ Head(Tail(s)).op \in Checked
              => Head(s).op = "eval" /\ Head(s) # EvalOp(NewTable)
<1> DEFINE n == Len(s)
<1>1. /\ n \in Nat \ {0} /\ s[1] = Head(s)
      /\ Tail(s) \in Seq(Instruction)
      /\ Len(Tail(s)) = n - 1
      /\ \A i \in 1 .. n - 1 : Tail(s)[i] = s[i + 1]
  BY EmptySeq, LenProperties, HeadTailProperties
<1>2. Tail(s) # <<>> => n - 1 # 0 /\ Head(Tail(s)) = Tail(s)[1]
  BY <1>1, EmptySeq, HeadTailProperties
<1>3. \A i \in 1 .. n - 1 : s[i + 1].op \in Checked => s[i].op = "eval" /\ s[i] # EvalOp(NewTable)
  BY DEF Fits
<1> HIDE DEF n
<1>4. Fits(Tail(s))
  <2> SUFFICES ASSUME NEW i \in 1 .. n - 1 - 1, Tail(s)[i + 1].op \in Checked
               PROVE  Tail(s)[i].op = "eval" /\ Tail(s)[i] # EvalOp(NewTable)
    BY <1>1 DEF Fits
  <2>1. i \in 1 .. n - 1 /\ i + 1 \in 1 .. n - 1
    BY <1>1, SMT
  <2>2. Tail(s)[i] = s[i + 1] /\ Tail(s)[i + 1] = s[(i + 1) + 1]
    BY <1>1, <2>1
  <2> QED BY <1>3, <2>1, <2>2
<1>5. ASSUME Tail(s) # <<>>, Head(Tail(s)).op \in Checked
      PROVE  Head(s).op = "eval" /\ Head(s) # EvalOp(NewTable)
  <2>1. 1 \in 1 .. n - 1
    BY <1>1, <1>2, <1>5, SMT
  <2> QED BY <1>1, <1>2, <1>3, <1>5, <2>1
<1> QED BY <1>4, <1>5

LEMMA OneOfTwoIsOdd ==
  ASSUME NEW k \in Nat
  PROVE  (k + 1) % 2 = 1 \/ k % 2 = 1
<1>1. k % 2 \in 0 .. 1 /\ k = 2 * (k \div 2) + (k % 2) /\ k \div 2 \in Int
  BY SMT
<1>2. \A j \in Int : (2 * j + 1) % 2 = 1
  BY SMT
<1> QED BY <1>1, <1>2, SMT

LEMMA EvalOpOf ==
  ASSUME NEW p \in Primary, p # NewTable
  PROVE  EvalOp(p) \in Instruction /\ EvalOp(p).op = "eval" /\ EvalOp(p) # EvalOp(NewTable)
<1>1. EvalOp(p) \in Instruction /\ EvalOp(p).op = "eval"
  BY SMT DEF EvalOp, Primary, Instruction
<1>2. p = [kind |-> p.kind, arg |-> p.arg]
  BY SMT DEF Primary
<1>3. EvalOp(p) = EvalOp(NewTable) => p.kind = NewTable.kind /\ p.arg = NewTable.arg
  BY SMT DEF EvalOp, NewTable
<1> QED BY <1>1, <1>2, <1>3 DEF NewTable

\* Every expression in brackets, or before one, is an operand of the chain but the
\* innermost.
LEMMA ChainFits ==
  ASSUME NEW ps \in Seq(Primary), ps # <<>>, NewTable \notin Indexed(ps)
  PROVE  Fits(Chain(ps)) /\ Begins(Chain(ps))
<1> DEFINE n == Len(ps)
           F == [i \in 1 .. 2 * n - 1 |-> IF i % 2 = 1 THEN EvalOp(ps[(i + 1) \div 2])
                                                       ELSE Op("object")]
           G == [i \in 1 .. n - 1 |-> Op("index")]
<1>1. n \in Nat \ {0}
  BY EmptySeq, LenProperties
<1>2. \A i \in 1 .. n : EvalOp(ps[i]) \in Instruction /\ EvalOp(ps[i]).op = "eval"
  <2> TAKE i \in 1 .. n
  <2>1. ps[i] \in Primary
    BY ElementOfSeq
  <2> QED BY <2>1, SMT DEF EvalOp, Primary, Instruction
<1>3. \A i \in 1 .. n - 1 : EvalOp(ps[i]) # EvalOp(NewTable)
  <2> TAKE i \in 1 .. n - 1
  <2>1. i \in 1 .. n
    BY <1>1, SMT
  <2>2. ps[i] \in Primary /\ ps[i] # NewTable
    BY <2>1, ElementOfSeq DEF Indexed
  <2> QED BY <2>2, EvalOpOf
<1>4. /\ Op("object") \in Instruction /\ Op("object").op = "object"
      /\ Op("index") \in Instruction /\ Op("index").op = "index"
  BY SMT DEF Op, Instruction
<1>5. 2 * n - 1 \in Nat \ {0} /\ n - 1 \in Nat
  BY <1>1, SMT
<1>6. \A i \in 1 .. 2 * n - 1 : i % 2 = 1 => (i + 1) \div 2 \in 1 .. n
  BY <1>1, SMT
<1>7. F \in Seq(Instruction) /\ Len(F) = 2 * n - 1
  <2>1. F \in [1 .. 2 * n - 1 -> Instruction]
    BY <1>2, <1>4, <1>6
  <2> HIDE DEF F, n
  <2>2. F \in Seq(Instruction)
    BY <1>5, <2>1, FunctionIsSeq
  <2> QED BY <1>5, <2>1, <2>2, LenProperties, SMT
<1>8. G \in Seq(Instruction) /\ Len(G) = n - 1
  <2>1. G \in [1 .. n - 1 -> Instruction]
    BY <1>4
  <2> HIDE DEF G, n
  <2>2. G \in Seq(Instruction)
    BY <1>5, <2>1, FunctionIsSeq
  <2> QED BY <1>5, <2>1, <2>2, LenProperties, SMT
<1>9. Fits(F)
  <2> SUFFICES ASSUME NEW i \in 1 .. 2 * n - 1 - 1, F[i + 1].op \in Checked
               PROVE  F[i].op = "eval" /\ F[i] # EvalOp(NewTable)
    BY <1>7 DEF Fits
  <2>1. i \in 1 .. 2 * n - 1 /\ i + 1 \in 1 .. 2 * n - 1
    BY <1>1, SMT
  <2>2. (i + 1) % 2 # 1
    <3>1. ASSUME (i + 1) % 2 = 1
          PROVE  F[i + 1].op = "eval"
      BY <1>2, <1>6, <2>1, <3>1
    <3> QED BY <3>1 DEF Checked
  <2>3. i % 2 = 1 /\ (i + 1) \div 2 \in 1 .. n - 1
    <3>1. i \in Nat /\ i >= 1 /\ i <= 2 * n - 2
      BY <1>1, SMT
    <3>2. i % 2 = 1
      <4> QED BY <2>2, <3>1, OneOfTwoIsOdd
    <3>3. (i + 1) \div 2 >= 1 /\ (i + 1) \div 2 \in Int /\ 2 * ((i + 1) \div 2) <= i + 1
      BY <3>1, SMT
    <3> QED BY <1>1, <3>1, <3>2, <3>3, SMT
  <2>4. F[i] = EvalOp(ps[(i + 1) \div 2]) /\ (i + 1) \div 2 \in 1 .. n
    BY <1>6, <2>1, <2>3
  <2> QED BY <1>2, <1>3, <2>3, <2>4
<1>10. Begins(F)
  <2>1. 1 \in 1 .. 2 * n - 1 /\ 1 % 2 = 1
    BY <1>5, SMT
  <2>2. F[1].op = "eval"
    BY <1>2, <1>6, <2>1
  <2> QED BY <2>2 DEF Begins, Checked
<1>11. Fits(G) /\ Begins(G)
  <2>1. \A i \in 1 .. n - 1 : G[i].op \notin Checked
    BY <1>4 DEF Checked
  <2> HIDE DEF G
  <2>2. \A i \in 1 .. n - 1 - 1 : i + 1 \in 1 .. n - 1
    BY <1>5, SMT
  <2>3. G # <<>> => 1 \in 1 .. n - 1
    <3>1. ASSUME n - 1 # 0
          PROVE  1 \in 1 .. n - 1
      <4> HIDE DEF n
      <4> QED BY <1>1, <3>1, SMT
    <3> QED BY <1>8, <3>1, EmptySeq
  <2> QED BY <1>8, <2>1, <2>2, <2>3 DEF Fits, Begins
<1>12. Chain(ps) = F \o G
  BY DEF Chain
<1> HIDE DEF F, G, n
<1> QED BY <1>7, <1>8, <1>9, <1>10, <1>11, <1>12, FitsConcat

LEMMA AssignmentFits ==
  ASSUME NEW target \in Seq(Instruction), Fits(target), Begins(target), NEW l,
         Chain(l.rhs) \in Seq(Instruction), Fits(Chain(l.rhs)), Begins(Chain(l.rhs))
  PROVE  Fits(Assignment(target, l)) /\ Begins(Assignment(target, l))
<1>1. ASSUME NEW o \in {"root", "store"}
      PROVE  <<Op(o)>> \in Seq(Instruction) /\ Fits(<<Op(o)>>) /\ Begins(<<Op(o)>>)
  <2>1. Op(o) \in Instruction /\ Op(o).op = o
    BY SMT DEF Op, Instruction
  <2> QED BY <2>1, ShortSequences DEF Fits, Begins, Checked
<1>2. target \o <<Op("root")>> \in Seq(Instruction)
  BY <1>1, ConcatProperties
<1>3. Fits(target \o <<Op("root")>>) /\ Begins(target \o <<Op("root")>>)
  BY <1>1, FitsConcat
<1>4. target \o <<Op("root")>> \o Chain(l.rhs) \in Seq(Instruction)
  BY <1>2, ConcatProperties
<1>5. /\ Fits(target \o <<Op("root")>> \o Chain(l.rhs))
      /\ Begins(target \o <<Op("root")>> \o Chain(l.rhs))
  BY <1>2, <1>3, FitsConcat
<1> QED BY <1>1, <1>4, <1>5, FitsConcat DEF Assignment

LEMMA CompileFits ==
  ASSUME NEW l \in Lines, NewTable \notin Indexed(l.lhs) \cup Indexed(l.rhs)
  PROVE  Fits(Compile(l)) /\ Begins(Compile(l))
<1> DEFINE n == Len(l.lhs)
<1>1. l.lhs \in Seq(Primary) /\ l.rhs \in Seq(Primary) /\ l.rhs # <<>>
  BY LinesAssumption, SMT
<1>2. Chain(l.rhs) \in Seq(Instruction) /\ Fits(Chain(l.rhs)) /\ Begins(Chain(l.rhs))
  BY <1>1, ChainTyped, ChainFits
<1>3. ASSUME NEW o \in {"reject", "print"}
      PROVE  <<Op(o)>> \in Seq(Instruction) /\ Fits(<<Op(o)>>) /\ Begins(<<Op(o)>>)
  <2>1. Op(o) \in Instruction /\ Op(o).op = o
    BY SMT DEF Op, Instruction
  <2> QED BY <2>1, ShortSequences DEF Fits, Begins, Checked
<1>4. CASE l.lhs = <<>>
  <2>1. Compile(l) = Chain(l.rhs) \o <<Op("print")>>
    BY <1>4 DEF Compile
  <2> QED BY <1>2, <1>3, <2>1, FitsConcat
<1>5. ASSUME l.lhs # <<>>
      PROVE  n \in Nat \ {0} /\ l.lhs[1] \in Primary
  <2>1. n \in Nat \ {0}
    BY <1>1, <1>5, EmptySeq, LenProperties
  <2>2. 1 \in 1 .. n
    BY <2>1, SMT
  <2> QED BY <1>1, <2>1, <2>2, ElementOfSeq
<1>6. CASE l.lhs # <<>> /\ n > 1
  <2> DEFINE first == EvalOp(l.lhs[1])
             rest  == Tail(l.lhs)
  <2>1. /\ rest \in Seq(Primary) /\ Len(rest) = n - 1
        /\ \A i \in 1 .. n - 1 : rest[i] = l.lhs[i + 1]
    BY <1>1, <1>6, HeadTailProperties
  <2>2. n \in Nat /\ n > 1
    BY <1>5, <1>6
  <2>3. rest # <<>>
    <3>1. n - 1 # 0
      <4> HIDE DEF n
      <4> QED BY <2>2, SMT
    <3> QED BY <2>1, <3>1, EmptySeq
  <2>4. NewTable \notin Indexed(rest)
    <3>1. SUFFICES ASSUME NEW i \in 1 .. n - 1 - 1
                   PROVE  rest[i] # NewTable
      BY <2>1 DEF Indexed
    <3>2. i \in 1 .. n - 1 /\ i + 1 \in 1 .. n - 1
      <4> HIDE DEF n
      <4> QED BY <2>2, SMT
    <3>3. rest[i] = l.lhs[i + 1]
      BY <2>1, <3>2
    <3>4. l.lhs[i + 1] # NewTable
      BY <3>2 DEF Indexed
    <3> QED BY <3>3, <3>4
  <2>5. l.lhs[1] # NewTable
    <3>1. 1 \in 1 .. n - 1
      <4> HIDE DEF n
      <4> QED BY <2>2, SMT
    <3> QED BY <3>1 DEF Indexed
  <2>6. first \in Instruction /\ first.op = "eval" /\ first # EvalOp(NewTable)
    BY <1>5, <1>6, <2>5, EvalOpOf
  <2>7. Chain(rest) \in Seq(Instruction) /\ Fits(Chain(rest)) /\ Begins(Chain(rest))
    BY <2>1, <2>3, <2>4, ChainTyped, ChainFits
  <2> HIDE DEF first, rest
  <2>8. /\ <<first, Op("table")>> \in Seq(Instruction)
        /\ Fits(<<first, Op("table")>>) /\ Begins(<<first, Op("table")>>)
    <3>1. Op("table") \in Instruction
      BY SMT DEF Op, Instruction
    <3>2. <<first, Op("table")>> \in Seq(Instruction)
      BY <2>6, <3>1, ShortSequences
    <3>3. /\ Len(<<first, Op("table")>>) = 2
          /\ <<first, Op("table")>>[1] = first
          /\ \A i \in 1 .. 2 - 1 : i = 1
      BY SMT
    <3> QED BY <2>6, <3>2, <3>3 DEF Fits, Begins, Checked
  <2>9. /\ <<first, Op("table")>> \o Chain(rest) \in Seq(Instruction)
        /\ Fits(<<first, Op("table")>> \o Chain(rest))
        /\ Begins(<<first, Op("table")>> \o Chain(rest))
    BY <2>7, <2>8, ConcatProperties, FitsConcat
  <2>10. Compile(l) = Assignment(<<first, Op("table")>> \o Chain(rest), l)
    BY <1>6 DEF Compile, first, rest
  <2> QED BY <1>2, <2>9, <2>10, AssignmentFits
<1>7. CASE l.lhs # <<>> /\ ~(n > 1) /\ l.lhs[1].kind = "variable"
  <2> DEFINE key == [op |-> "key", arg |-> l.lhs[1].arg]
  <2>1. key \in Instruction /\ key.op = "key"
    BY <1>5, <1>7, SMT DEF Primary, Instruction
  <2> HIDE DEF key
  <2>2. <<key>> \in Seq(Instruction) /\ Fits(<<key>>) /\ Begins(<<key>>)
    BY <2>1, ShortSequences DEF Fits, Begins, Checked
  <2>3. Compile(l) = Assignment(<<key>>, l)
    BY <1>7 DEF Compile, key
  <2> QED BY <1>2, <2>2, <2>3, AssignmentFits
<1>8. CASE l.lhs # <<>> /\ ~(n > 1) /\ l.lhs[1].kind # "variable"
  <2>1. Compile(l) = <<Op("reject")>>
    BY <1>8 DEF Compile
  <2> QED BY <1>3, <2>1
<1> QED BY <1>4, <1>6, <1>7, <1>8

\* What the variables hold stays, unless the line is over.
LEMMA KeptStays ==
  ASSUME Inv, Unpublished, [Next]_vars, ~Store
  PROVE  /\ Kept' = Kept
         /\ Kept \subseteq Cell
         /\ \A c \in Kept : c \in Live /\ c # newTable /\ heap'[c] = heap[c]
<1>1. Held' = Held
  BY OtherStepsInvisible
<1>2. DOMAIN Held = Kept /\ DOMAIN Held' = Kept'
  BY DEF Held, Kept
<1>3. \A c \in Kept : Held[c] = heap[c] /\ Held'[c] = heap'[c]
  BY <1>1, <1>2 DEF Held, Kept
<1>4. Kept' = Kept
  BY <1>1, <1>2
<1>5. \A c \in Kept : heap'[c] = heap[c]
  BY <1>1, <1>3
<1>6. Kept \subseteq Cell /\ \A c \in Kept : c \in Live /\ c # newTable
  BY HeldCells, LiveCells DEF Kept
<1> QED BY <1>4, <1>5, <1>6

\* A lookup answers what can be reached, of a table that can be reached.
LEMMA LookupKept ==
  ASSUME Inv, NEW a \in Kept, NEW id,
         NEW r \in Answers(TableAt(a), EntriesIn(a, id), Nil), r \in Cell
  PROVE  r \in Kept
<1>1. Kept \subseteq Cell /\ Edges(a) \subseteq Kept
  BY GlobalArrayIsCell, ReachClosed DEF Kept
<1>2. r \in Edges(a)
  BY <1>1, LookupAlive
<1> QED BY <1>1, <1>2

\* Which steps go on to the next instruction, and which leave the line.
LEMMA CodeSteps ==
  ASSUME Inv, [Next]_vars
  PROVE  \/ code' = code /\ line' = line
         \/ code # <<>> /\ code' = Tail(code) /\ UNCHANGED <<line, mode, fault>>
         \/ \E l \in Lines : ReadLine(l)
         \/ BackToPrompt
BY DEF Next, Step, vars, locals, Quit, Halted, Collect, OutOfMemory, EvalNumber, EvalString,
       EvalVariable, EvalNewTable, Initialize, EvalForceGC, CheckTable, Index, AssignmentKey,
       RootIndex, Reject, StoreFails, Store, PrintResult, PrintStops, TableStops, LookupStops, Abort, Continue,
       Evaluates, Runs, Inv, LocalsAlive

LEMMA MakingStep ==
  ASSUME Inv, Making, [Next]_vars
  PROVE  Making'
<1>1. CASE newTable' = Nil
  BY <1>1 DEF Making
<1>2. CASE UNCHANGED <<newTable, code>>
  BY <1>2 DEF Making
<1>3. CASE EvalNewTable
  <2>1. Head(code) \in Instruction /\ code' = code
    BY <1>3, RunsTail DEF EvalNewTable, Evaluates, Runs
  <2>2. Head(code).op = "eval" /\ Head(code).kind = "variable" /\ Head(code).arg = "newtable"
    BY <1>3 DEF EvalNewTable, Evaluates, Runs
  <2>3. Head(code) = [op |-> "eval", kind |-> "variable", arg |-> "newtable"]
    BY <2>1, <2>2, SMT DEF Instruction
  <2> QED BY <2>1, <2>3 DEF Making, EvalOp, NewTable
<1>4. CASE ReadLine(line')
  BY <1>4 DEF ReadLine, locals, Inv, LocalsAlive, Making
<1> QED BY <1>1, <1>2, <1>3, <1>4 DEF Next, Step, vars, locals, ReadLine, Quit, Halted, Collect,
         Sweep, OutOfMemory, EvalNumber, EvalString, EvalVariable, Initialize, EvalForceGC,
         CheckTable, Index, AssignmentKey, RootIndex, Reject, StoreFails, Store, PrintResult,
         PrintStops, TableStops, LookupStops, Abort, BackToPrompt, Evaluates, Runs, Inv, LocalsAlive

LEMMA StopsStep ==
  ASSUME Stops, [Next]_vars
  PROVE  Stops'
BY DEF Stops, Next, Step, vars, locals, ReadLine, Quit, Halted, Collect, OutOfMemory, EvalNumber,
       EvalString, EvalVariable, EvalNewTable, Initialize, EvalForceGC, CheckTable, Index,
       AssignmentKey, RootIndex, Reject, StoreFails, Store, PrintResult, PrintStops, TableStops, LookupStops, Abort,
       BackToPrompt, Continue, Evaluates, Runs

LEMMA IdleStep ==
  ASSUME Idle, [Next]_vars
  PROVE  Idle'
BY DEF Idle, Next, Step, vars, locals, ReadLine, Quit, Halted, Collect, OutOfMemory, EvalNumber,
       EvalString, EvalVariable, EvalNewTable, Initialize, EvalForceGC, CheckTable, Index,
       AssignmentKey, RootIndex, Reject, StoreFails, Store, PrintResult, PrintStops, TableStops, LookupStops, Abort,
       BackToPrompt, Continue, Evaluates, Runs, Allocates

LEMMA ObjectsStep ==
  ASSUME Inv, [Next]_vars, ~Store,
         \A c \in Kept : c \in Live, Kept \subseteq Cell,
         \A i \in DOMAIN objects : objects[i] \in Kept,
         Runs("object") => (IsTable(result) => result \in Kept)
  PROVE  \A i \in DOMAIN objects' : objects'[i] \in Kept
<1>1. CASE objects' = objects
  BY <1>1
<1>2. CASE objects' = <<>>
  BY <1>2
<1>3. CASE Sweep
  BY <1>3 DEF Sweep, Survivor
<1>4. CASE Runs("object") /\ IsTable(result) /\ objects' = Append(objects, result)
  <2>1. /\ objects \in Seq(Cell \cup {Dangling})
        /\ result \in Cell \cup {Dangling} /\ result \in Kept
    BY <1>4 DEF IsTable, Inv, TypeOK
  <2>2. /\ DOMAIN objects = 1 .. Len(objects)
        /\ DOMAIN objects' = 1 .. Len(objects) + 1
        /\ Len(objects) \in Nat
        /\ \A i \in 1 .. Len(objects) : objects'[i] = objects[i]
        /\ objects'[Len(objects) + 1] = result
    BY <1>4, <2>1, AppendProperties, LenProperties
  <2>3. \A i \in DOMAIN objects' : i \in DOMAIN objects \/ i = Len(objects) + 1
    BY <2>2, SMT
  <2> QED BY <2>1, <2>2, <2>3
<1>5. CASE objects # <<>> /\ objects' = SubSeq(objects, 1, Len(objects) - 1)
  <2> DEFINE n == Len(objects)
  <2>1. /\ objects \in Seq(Cell \cup {Dangling})
        /\ n \in Nat \ {0}
        /\ DOMAIN objects = 1 .. n
        /\ \A i \in 1 .. n : objects[i] \in Cell \cup {Dangling}
    BY <1>5, EmptySeq, LenProperties, ElementOfSeq DEF Inv, TypeOK
  <2> HIDE DEF n
  <2>2. n - 1 \in Int /\ 1 .. n - 1 \subseteq 1 .. n
    BY <2>1, SMT
  <2>3. /\ objects' = SubSeq(objects, 1, n - 1)
        /\ \A i \in 1 .. n - 1 : objects[i] \in Cell \cup {Dangling}
    BY <1>5, <2>1, <2>2 DEF n
  <2>4. /\ objects' \in Seq(Cell \cup {Dangling})
        /\ Len(objects') = IF 1 <= n - 1 THEN n - 1 - 1 + 1 ELSE 0
        /\ \A i \in 1 .. n - 1 - 1 + 1 : objects'[i] = objects[1 + i - 1]
    BY <2>2, <2>3, SubSeqProperties
  <2>5. /\ n - 1 - 1 + 1 = n - 1
        /\ (IF 1 <= n - 1 THEN n - 1 - 1 + 1 ELSE 0) = n - 1
        /\ \A i \in 1 .. n - 1 : 1 + i - 1 = i
    BY <2>1, SMT
  <2>6. DOMAIN objects' = 1 .. n - 1
    BY <2>4, <2>5, LenProperties
  <2> QED BY <2>1, <2>2, <2>4, <2>5, <2>6
<1> QED BY <1>1, <1>2, <1>3, <1>4, <1>5 DEF Next, Step, vars, locals, ReadLine, Quit, Halted, Collect,
         OutOfMemory, EvalNumber, EvalString, EvalVariable, EvalNewTable, Initialize, EvalForceGC,
         CheckTable, Index, AssignmentKey, RootIndex, Reject, StoreFails, PrintResult,
         PrintStops, TableStops, LookupStops, Abort, BackToPrompt

LEMMA TblStep ==
  ASSUME Inv, [Next]_vars, ~Store,
         \A c \in Kept : c \in Live, Kept \subseteq Cell,
         tbl \in Kept \cup {Nil, GlobalVariables},
         Runs("table") => (IsTable(result) => result \in Kept)
  PROVE  tbl' \in Kept \cup {Nil, GlobalVariables}
<1>1. CASE Sweep
  BY <1>1, SortAssumption DEF Sweep, Survivor
<1> QED BY <1>1 DEF Next, Step, vars, locals, ReadLine, Quit, Halted, Collect,
         OutOfMemory, EvalNumber, EvalString, EvalVariable, EvalNewTable, Initialize, EvalForceGC,
         CheckTable, Index, AssignmentKey, RootIndex, Reject, StoreFails, PrintResult,
         PrintStops, TableStops, LookupStops, Abort, BackToPrompt

\* What is next taken for a table was read from a variable.
LEMMA ResultStep ==
  ASSUME Inv, Making, [Next]_vars, ~Store, ~BackToPrompt, \A l \in Lines : ~ReadLine(l), Fits(code),
         Kept' = Kept, Runs("object") \/ Runs("table") => (IsTable(result) => result \in Kept),
         (Runs("object") \/ Runs("table"))', IsTable(result)'
  PROVE  result' \in Kept
<1>1. /\ mode' = "running" /\ newTable' = Nil
      /\ code' # <<>> /\ Head(code').op \in Checked
  BY DEF Runs, Checked
<1>2. CASE UNCHANGED <<heap, mode, newTable, code, result>>
  BY <1>2 DEF Runs, IsTable
<1>3. CASE Collect
  BY <1>1, <1>3 DEF Collect, Sweep, Allocates, Evaluates, Runs, Checked
<1>4. CASE code # <<>> /\ code' = Tail(code)
  <2>1. Head(code).op = "eval" /\ Head(code) # EvalOp(NewTable)
    BY <1>1, <1>4, FitsTail DEF Inv, TypeOK
  <2>2. newTable = Nil
    BY <2>1 DEF Making
  <2>3. CASE EvalNumber
    <3>1. Head(code).arg \in Number
      BY <1>4, <2>3, RunsTail, SMT DEF EvalNumber, Evaluates, Runs, Instruction
    <3> QED BY <2>3, <3>1, SortAssumption DEF EvalNumber, IsTable
  <2>4. CASE EvalString
    <3>1. NewCell \in Cell /\ heap' = [heap EXCEPT ![NewCell] = StringObject(Head(code).arg)]
      BY <2>4, NewCellIsFree DEF EvalString, Place
    <3>2. heap'[NewCell].kind = "string"
      BY <3>1 DEF StringObject, Inv, TypeOK
    <3> QED BY <2>4, <3>2 DEF EvalString, IsTable
  <2>5. CASE EvalVariable
    <3>1. Lookup(GlobalArray, Head(code).arg) /\ result' \in Cell
      BY <1>1, <2>5 DEF EvalVariable, IsTable, LookupStops, Abort
    <3>2. GlobalArray \in Kept
      BY GlobalArrayIsCell, ReachClosed DEF Kept
    <3> QED BY <3>1, <3>2, LookupKept DEF Lookup
  <2>6. CASE EvalForceGC
    BY <2>6, SortAssumption DEF EvalForceGC, IsTable
  <2>7. ~(\/ CheckTable \/ Index \/ AssignmentKey \/ RootIndex \/ Reject \/ StoreFails
          \/ PrintResult \/ PrintStops \/ TableStops \/ Initialize)
    BY <2>1, <2>2 DEF CheckTable, Index, AssignmentKey, RootIndex, Reject, StoreFails,
                      PrintResult, PrintStops, TableStops, LookupStops, Initialize, Runs
  <2>8. CASE Collect \/ OutOfMemory \/ EvalNewTable \/ Quit \/ Halted \/ UNCHANGED vars
    BY <1>2, <1>3, <1>1, <2>2, <2>8 DEF Collect, OutOfMemory, EvalNewTable, Quit, Halted, Abort, vars,
                      locals, Evaluates, Runs
  <2> QED BY <2>3, <2>4, <2>5, <2>6, <2>7, <2>8 DEF Next, Step
<1>5. CASE EvalNewTable
  <2>1. NewCell \in Cell
    BY <1>5, NewCellIsFree DEF EvalNewTable, Place
  <2> QED BY <1>1, <1>5, <2>1, SortAssumption DEF EvalNewTable
<1>6. ASSUME mode' # "running"
      PROVE  FALSE
  BY <1>1, <1>6
<1> QED BY <1>2, <1>3, <1>4, <1>5, <1>6 DEF Next, Step, vars, locals, Quit, Halted,
         OutOfMemory, EvalNumber, EvalString, EvalVariable, Initialize, EvalForceGC, CheckTable, Index,
         AssignmentKey, RootIndex, Reject, StoreFails, PrintResult, PrintStops, TableStops, LookupStops, Abort, Continue,
         Evaluates, Runs, Inv, LocalsAlive

LEMMA BorrowsStep ==
  ASSUME Inv, Unpublished, Making, Stops, Idle, Borrows, [Next]_vars
  PROVE  Borrows'
<1>1. CASE BackToPrompt
  <2>1. fault' # "reclaimed"
    <3>1. mode # "aborted"
      BY <1>1 DEF Next, Step, vars, Collect, OutOfMemory, EvalNumber, EvalString, EvalVariable,
          EvalNewTable, Initialize, EvalForceGC, CheckTable, Index, AssignmentKey, RootIndex,
          Reject, StoreFails, Store, PrintResult, PrintStops, TableStops, LookupStops, ReadLine, Quit, Halted,
          Abort, Runs, Evaluates, Allocates, BackToPrompt
    <3> QED BY <1>1, <3>1 DEF Stops, BackToPrompt
  <2>2. ~Runs("object")' /\ ~Runs("table")'
    BY <1>1 DEF BackToPrompt, Runs
  <2>3. Fits(<<>>)
    BY EmptySeq DEF Fits
  <2> QED BY <1>1, <2>1, <2>2, <2>3 DEF BackToPrompt, Borrows
<1>2. ASSUME NEW l \in Lines, ReadLine(l),
             NewTable \notin Indexed(line'.lhs) \cup Indexed(line'.rhs)
      PROVE  Borrows'
  <2>1. Fits(code)' /\ Begins(code)'
    BY <1>2, CompileFits DEF ReadLine
  <2>2. ~Runs("object")' /\ ~Runs("table")'
    <3>1. code' \in Seq(Instruction)
      BY <1>2, CompileTyped DEF ReadLine
    <3> QED BY <2>1, <3>1, HeadTailProperties DEF Runs, Begins, Checked
  <2>3. fault' # "reclaimed"
    BY <1>2 DEF ReadLine, Stops
  <2>4. objects' = <<>> /\ tbl' = Nil
    BY <1>2 DEF ReadLine, locals, Idle
  <2> QED BY <2>1, <2>2, <2>3, <2>4 DEF Borrows
<1>3. CASE ~BackToPrompt /\ \A l \in Lines : ~ReadLine(l)
  <2>1. ~Store
    BY <1>3 DEF Store
  <2>2. line' = line
    BY <1>3, CodeSteps
  <2> SUFFICES ASSUME NewTable \notin Indexed(line.lhs) \cup Indexed(line.rhs)
               PROVE  /\ Fits(code)'
                      /\ \A i \in DOMAIN objects' : objects'[i] \in Kept'
                      /\ tbl' \in Kept' \cup {Nil, GlobalVariables}
                      /\ (Runs("object") \/ Runs("table"))' => (IsTable(result)' => result' \in Kept')
                      /\ fault' # "reclaimed"
    BY <2>2 DEF Borrows
  <2>3. /\ Fits(code)
        /\ \A i \in DOMAIN objects : objects[i] \in Kept
        /\ tbl \in Kept \cup {Nil, GlobalVariables}
        /\ Runs("object") \/ Runs("table") => (IsTable(result) => result \in Kept)
        /\ fault # "reclaimed"
    BY DEF Borrows
  <2>4. Kept' = Kept /\ Kept \subseteq Cell /\ \A c \in Kept : c \in Live
    BY <2>1, KeptStays
  <2>5. Fits(code)'
    BY <1>3, <2>3, CodeSteps, FitsTail DEF Inv, TypeOK
  <2>6. \A i \in DOMAIN objects' : objects'[i] \in Kept'
    BY <2>1, <2>3, <2>4, ObjectsStep
  <2>7. tbl' \in Kept' \cup {Nil, GlobalVariables}
    BY <2>1, <2>3, <2>4, TblStep
  <2>8. (Runs("object") \/ Runs("table"))' => (IsTable(result)' => result' \in Kept')
    BY <1>3, <2>1, <2>3, <2>4, ResultStep
  <2>9. fault' # "reclaimed"
    <3>1. ASSUME Index, Abort("reclaimed")
          PROVE  FALSE
      <4>1. objects # <<>> /\ objects \in Seq(Cell \cup {Dangling})
        BY <3>1 DEF Index, Inv, TypeOK
      <4>2. Len(objects) \in DOMAIN objects
        <5>1. Len(objects) \in Nat \ {0} /\ DOMAIN objects = 1 .. Len(objects)
          BY <4>1, EmptySeq, LenProperties
        <5> QED BY <5>1, SMT
      <4>3. Object \in Cell
        BY <2>3, <2>4, <4>2 DEF Object
      <4>4. Object = Dangling
        BY <3>1 DEF Index, LookupStops, Abort, BackToPrompt, Continue, Runs
      <4> QED BY <4>3, <4>4, SortAssumption
    <3>2. ASSUME StoreFails \/ TableStops
          PROVE  fault' # "reclaimed"
      <4>1. tbl # Dangling
        BY <2>3, <2>4, SortAssumption
      <4> QED BY <3>2, <4>1 DEF StoreFails, StoreStops, TableStops, Abort
    <3> QED BY <2>3, <3>1, <3>2 DEF Next, Step, vars, locals, Quit, Halted, Collect, OutOfMemory,
          EvalNumber, EvalString, EvalVariable, EvalNewTable, Initialize, EvalForceGC, CheckTable,
          Index, AssignmentKey, RootIndex, Reject, Store, PrintResult, PrintStops, TableStops, LookupStops, ReadLine,
          Abort, BackToPrompt, Continue
  <2> QED BY <2>5, <2>6, <2>7, <2>8, <2>9
<1> QED BY <1>1, <1>2, <1>3 DEF Borrows

\* A table that a line indexes or assigns to is still there when it does, unless the
\* line made it itself and holds it nowhere else, as `newtable[forcegc]' does: the
\* locals without a StackRoot (AST.cpp:246-259, 274-285) are safe for all others.
THEOREM OthersStay == Spec => []OnlyTemporariesReclaimed
<1> DEFINE I == Inv /\ Unpublished /\ Making /\ Stops /\ Idle /\ Borrows
<1>1. Init => I
  <2> SUFFICES ASSUME Init
               PROVE  Unpublished /\ Making /\ Stops /\ Idle /\ Borrows
    BY InitInv
  <2>1. Fits(<<>>)
    BY EmptySeq DEF Fits
  <2> QED BY <2>1 DEF Init, Unpublished, Making, Stops, Idle, Borrows, Runs
<1>2. I /\ [Next]_vars => I'
  BY NextInv, UnpublishedStep, MakingStep, StopsStep, IdleStep, BorrowsStep
<1>3. I => OnlyTemporariesReclaimed
  BY DEF Borrows, OnlyTemporariesReclaimed
<1> QED BY <1>1, <1>2, <1>3, PTL DEF Spec
=============================================================================
