----------------------------- MODULE ObjectHeap -----------------------------
(***************************************************************************)
(* What a heap with a garbage collector promises its program: an object is *)
(* made empty, changes only when it is written to, and stays for as long   *)
(* as a root leads to it.                                                  *)
(*                                                                         *)
(* An object is a kind and a sequence of slots; a slot holds nothing, a    *)
(* number or the address of an object.                                     *)
(***************************************************************************)
EXTENDS Integers, Sequences

VARIABLES
  object,    \* the object at each address that has one
  root       \* the addresses the collector is told

heapVars == <<object, root>>

RefersTo(o) == {o.slots[i][2] : i \in {j \in DOMAIN o.slots : o.slots[j][1] = "object"}}

\* The objects reached from the roots: no closed set of them leaves one out.
Reached ==
  LET Closed(T) == \A a \in T : RefersTo(object[a]) \subseteq T
      Around    == {T \in SUBSET DOMAIN object : root \subseteq T /\ Closed(T)}
  IN  {a \in DOMAIN object : \A T \in Around : a \in T}

HeapInit == /\ object = <<>>
            /\ root = {}

\* What the program does.  A new object refers to nothing; an old one is written
\* to; no reference and no root is anything but an object.
Mutate ==
  LET new     == DOMAIN object' \ DOMAIN object
      written == {a \in DOMAIN object : object'[a] # object[a]}
  IN
  /\ DOMAIN object \subseteq DOMAIN object'
  /\ \A a, b \in new : a = b
  /\ \A a, b \in written : a = b
  /\ \A a \in new : RefersTo(object'[a]) = {}
  /\ \A a \in written : /\ object'[a].kind = object[a].kind
                        /\ Len(object'[a].slots) = Len(object[a].slots)
                        /\ RefersTo(object'[a]) \subseteq DOMAIN object'
  /\ root' \subseteq DOMAIN object'

\* The collector takes objects back, none that is reached, and no other changes.
Reclaim ==
  /\ Reached \subseteq DOMAIN object'
  /\ \A a \in DOMAIN object' : a \in DOMAIN object /\ object'[a] = object[a]
  /\ root' = root

HeapSpec == HeapInit /\ [][Mutate \/ Reclaim]_heapVars
=============================================================================
