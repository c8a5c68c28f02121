---------------------------- MODULE HeapObjects ----------------------------
(***************************************************************************)
(* The words of Heap implement the objects of ObjectHeap: an object is at  *)
(* each address where a walk over the heap meets one.  Collections are     *)
(* steps of many in Heap; here each gap that is swept is one step that     *)
(* takes objects back, and what else the collector does is none.           *)
(***************************************************************************)
EXTENDS Heap

Slot(v) == CASE v[1] = NILL    -> <<"nothing", Null>>
             [] v[1] = OBJECT  -> <<"object", v[2]>>
             [] v[1] = INTEGER -> <<"number", v[2]>>

\* The object that the words from o on stand for.
ObjectIn(o) ==
  CASE Kind(o) = StringKind ->
         [kind |-> StringKind, slots |-> <<<<"number", size_(o)>>>>]
    [] Kind(o) = HashTableKind ->
         [kind  |-> HashTableKind,
          slots |-> <<IF backingArray_(o) = Null THEN <<"nothing", Null>>
                                                 ELSE <<"object", backingArray_(o)>>>>]
    [] Kind(o) = RefArrayKind ->
         [kind  |-> RefArrayKind,
          slots |-> [i \in 1 .. 2 * size_(o) |->
                       IF i % 2 = 1 THEN Slot(Key(o, (i - 1) \div 2))
                                    ELSE Slot(Val(o, (i - 1) \div 2))]]

Abstract == INSTANCE ObjectHeap WITH
              object <- [o \in Objects |-> ObjectIn(o)],
              root   <- Roots \ {GlobalVariables}

\* For every program: nothing that a root leads to is lost or changed under it,
\* however memory was used before (ObjectAllocator.hpp, ObjectScanner.hpp).
ImplementsObjectHeap == Abstract!HeapSpec
=============================================================================
