----------------------------- MODULE MCStartup -----------------------------
(* Startup for TLC: a few processes, names and options of every kind. *)
EXTENDS Startup, TLC

CONSTANTS p1, p2, p3

Named(stem, extension) == [stem |-> stem, extension |-> extension]

SomeNames == {Named(<<"gc">>, <<".log">>), Named(<<"gc", "%p">>, <<>>),
              Named(<<"stderr">>, <<>>)}

SomeText == {"gc", "%p", ".log", "stderr"}

Generational == [base |-> TRUE, segregated |-> FALSE, scavenger |-> TRUE]
Segregated == [base |-> FALSE, segregated |-> TRUE, scavenger |-> FALSE]
Claimed == [base |-> TRUE, segregated |-> TRUE, scavenger |-> FALSE]
Unknown == [base |-> FALSE, segregated |-> FALSE, scavenger |-> FALSE]

SomeOptions == {<<>>, <<Claimed>>, <<Generational, Segregated>>, <<Generational, Unknown>>}

OthersAlike == Permutations(Pid \ {First})
=============================================================================
