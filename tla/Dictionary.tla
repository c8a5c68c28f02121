----------------------------- MODULE Dictionary -----------------------------
(***************************************************************************)
(* What the interpreter takes HashTable for: a finite map, one call at a   *)
(* time, each of which is answered.  The promise is given until the map is *)
(* broken; of a broken one nothing is promised.                            *)
(***************************************************************************)
EXTENDS Integers

CONSTANTS Key, Value, Nil, NotFound, SetKey

VARIABLES
  store,     \* the value of every key, NotFound for a key that was never set
  pending,   \* the call to be answered
  answer,    \* the answer of the last Get; Nil before it is given
  intact     \* the map is not broken

dvars == <<store, pending, answer, intact>>

NoCall == [op |-> "none", key |-> Nil, val |-> Nil]

DInit == /\ store = [k \in Key |-> NotFound]
         /\ pending = NoCall
         /\ answer = Nil
         /\ intact = TRUE

Ask(c) == /\ intact
          /\ pending = NoCall
          /\ pending' = c
          /\ answer' = Nil
          /\ UNCHANGED <<store, intact>>

Gets == {[op |-> "get", key |-> k, val |-> Nil] : k \in Key}

Sets == {[op |-> "set", key |-> k, val |-> v] : k \in SetKey, v \in Value}

AnswerGet == /\ intact
             /\ pending.op = "get"
             /\ answer' = store[pending.key]
             /\ pending' = NoCall
             /\ UNCHANGED <<store, intact>>

AnswerSet == /\ intact
             /\ pending.op = "set"
             /\ pending.key \in Key
             /\ store' = [store EXCEPT ![pending.key] = pending.val]
             /\ pending' = NoCall
             /\ UNCHANGED <<answer, intact>>

Break == /\ intact' = FALSE

DNext == \/ \E c \in Gets \cup Sets : Ask(c)
         \/ AnswerGet
         \/ AnswerSet
         \/ Break

DSpec == DInit /\ [][DNext]_dvars

\* Every call is answered, unless the map breaks.
DFairSpec == DSpec /\ WF_dvars(AnswerGet \/ AnswerSet)
=============================================================================
