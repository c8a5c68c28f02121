--------------------------- MODULE MCInterpreter ---------------------------
(* Interpreter for TLC: the lines made of a few primaries. *)
EXTENDS Interpreter

CONSTANTS c1, c2, c3, c4, c5, c6, one

Variable(t) == [kind |-> "variable", arg |-> t]

One == [kind |-> "number", arg |-> one]

S == [kind |-> "string", arg |-> "s"]

X == Variable("x")

GC == Variable("forcegc")

\* Lines that put tables into a variable and into each other.
TableLines == [lhs : {<<X>>, <<X, S>>}, rhs : {<<X>>, <<NewTable>>, <<X, S>>}]

\* Lines that collect, and that index a table nothing refers to.
CollectingLines == [lhs : {<<X>>, <<NewTable, S>>}, rhs : {<<GC>>}]
                     \cup [lhs : {<<>>}, rhs : {<<NewTable, S>>, <<X, GC>>}]

\* Lines that print, that fill a table under other keys, or fail to.
KeyLines == [lhs : {<<>>}, rhs : {<<X>>, <<X, S>>}]
              \cup [lhs : {<<S>>, <<X, S>>, <<X, One>>, <<X, GC>>}, rhs : {<<One>>}]

SomeLines == TableLines \cup CollectingLines \cup KeyLines

Strings == {"x", "s"} \cup Reserved
=============================================================================
