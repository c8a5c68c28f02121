------------------------ MODULE HashTableDictionary ------------------------
(***************************************************************************)
(* A table implements a dictionary for as long as it is not strained, does *)
(* not have to grow and is not asked for nil; and whatever becomes of it,  *)
(* it does to its entries what Table says.                                 *)
(***************************************************************************)
EXTENDS HashTableHistory

Dict == INSTANCE Dictionary WITH
          store   <- latest,
          pending <- IF pc = "idle" THEN [op |-> "none", key |-> Nil, val |-> Nil]
                                    ELSE call,
          answer  <- ret,
          intact  <- Intact

\* Every step of the table is a step of the dictionary, or none.
ImplementsDictionary == Dict!DSpec

\* Moreover, every call is answered while the table is intact.
AnswersLikeDictionary == Dict!DFairSpec

-----------------------------------------------------------------------------
Contents == {[key |-> cells[i].key, val |-> cells[i].val] :
               i \in {j \in Slots : ~IsEmpty(j)}}

\* What Table knows of a table that did not have to grow; Grow ends in a failed
\* assertion.
Calls == INSTANCE TableCalls WITH
           table   <- [entries |-> Contents, room |-> remaining, strained |-> ~sound],
           pending <- IF pc = "idle" THEN [op |-> "none", key |-> Nil, val |-> Nil]
                                     ELSE call,
           answer  <- ret,
           alive   <- depth = 0 /\ fault = "none"

\* A table in order answers and takes what it is asked to.  One that is strained
\* may miss a key, keep a second entry of it, or lose one entry to an insertion;
\* but it answers what it holds, loses nothing else, and a table without entries
\* is in order.
ImplementsTable == Calls!TSpec
=============================================================================
