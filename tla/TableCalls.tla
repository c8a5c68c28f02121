----------------------------- MODULE TableCalls -----------------------------
(***************************************************************************)
(* The calls of a table as Table describes them, one at a time, until an   *)
(* assertion stops the process.                                            *)
(***************************************************************************)
EXTENDS Table

CONSTANTS Key, Value, Nil, NotFound, SetKey, InitSize

VARIABLES
  table,     \* its entries, its room, and whether it is strained
  pending,   \* the call to be answered
  answer,    \* the answer of the last Get; Nil before it is given
  alive      \* no assertion has failed, and none must

tvars == <<table, pending, answer, alive>>

NoCall == [op |-> "none", key |-> Nil, val |-> Nil]

Gets == {[op |-> "get", key |-> k, val |-> Nil] : k \in Key}

Sets == {[op |-> "set", key |-> k, val |-> v] : k \in SetKey, v \in Value}

\* The entries of the key that is asked for.
Held == {e \in table.entries : e.key = pending.key}

TInit == /\ table = [entries |-> {}, room |-> InitSize, strained |-> FALSE]
         /\ pending = NoCall
         /\ answer = Nil
         /\ alive = TRUE

Ask(c) == /\ alive
          /\ pending = NoCall
          /\ pending' = c
          /\ answer' = Nil
          /\ UNCHANGED <<table, alive>>

\* A search may strain the table before the call is answered.
Search == /\ alive
          /\ pending.key \in Key
          /\ table' \in AfterGet(table, Held)
          /\ UNCHANGED <<pending, answer, alive>>

AnswerGet == /\ alive
             /\ pending.op = "get"
             /\ answer' \in Answers(table, Held, NotFound)
             /\ pending' = NoCall
             /\ UNCHANGED <<table, alive>>

AnswerSet == /\ alive
             /\ pending.op = "set"
             /\ pending.key \in Key
             /\ table' \in AfterSet(table, Held, pending.key, pending.val)
             /\ pending' = NoCall
             /\ UNCHANGED <<answer, alive>>

Stop == /\ alive
        /\ alive' = FALSE
        /\ pending # NoCall
        /\ \/ pending.key = Nil
           \/ CanFail(table, Held)
           \/ pending.op = "set" /\ CanGrow(table, Held)

Stopped == ~alive /\ ~alive'

TNext == \/ \E c \in Gets \cup Sets : Ask(c)
         \/ Search
         \/ AnswerGet
         \/ AnswerSet
         \/ Stop
         \/ Stopped

TSpec == TInit /\ [][TNext]_tvars
=============================================================================
