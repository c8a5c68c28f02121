------------------------------- MODULE MCHeap -------------------------------
(* Heap for TLC: a few lines, that can be typed in any order.               *)
EXTENDS HeapObjects

Op(o) == [op |-> o]
Name(n) == [op |-> "name", length |-> n]
Variable(n) == [op |-> "variable", length |-> n]
String(n) == [op |-> "string", length |-> n]
Number(n) == [op |-> "number", number |-> n]

Assign(target, value) == target \o <<Op("root")>> \o value \o <<Op("store")>>

\* The number is the address of an object as well.
SomeLines ==
  {Assign(<<Name(1)>>, <<Op("newtable")>>),                           \* a = newtable
   Assign(<<Name(1)>>, <<String(9)>>),                                \* a = "nine chars"
   Assign(<<Variable(1), Op("table"), String(9)>>, <<Number(22)>>),   \* a[".."] = 22
   Assign(<<Variable(1), Op("table"), Number(22)>>, <<Variable(1)>>), \* a[22] = a
   Assign(<<Variable(1), Op("table"), Op("forcegc")>>, <<Number(22)>>),
   Assign(<<Op("newtable"), Op("table"), String(9)>>, <<Number(22)>>),  \* newtable[".."] = 22
   <<Variable(1), Op("print")>>,                                      \* a
   <<Op("forcegc"), Op("print")>>}
=============================================================================
