-------------------------------- MODULE Table --------------------------------
(***************************************************************************)
(* What HashTable::Get and HashTable::Set may do, to one who knows the     *)
(* entries of a table but not the cells they are in.  A table is in order  *)
(* until it is strained: until FindEmptyCell searched down, or Relocate    *)
(* moved an entry that has a successor.  In a strained table a search may  *)
(* miss an entry that is there, and an insertion may write over another.   *)
(*                                                                         *)
(* A table is a record of its entries, of the room it counts              *)
(* (remainingCapacity_), and of whether it is strained.  `held' are those  *)
(* of its entries whose keys are equal to the key of the operation.        *)
(***************************************************************************)
EXTENDS Integers

\* FindSlot may answer that the key is not there.
CanMiss(t, held) == held = {} \/ t.strained

\* The slot of the key may hold an entry that is not of its chain.
CanMeet(t, held) == t.strained \/ (held = {} /\ t.entries # {})

\* An assertion of FindSlot, FindEmptyCell or Relocate may fail.
CanFail(t, held) == CanMeet(t, held)

\* Whether the table may be strained after the search.
Strains(t, held) == {t.strained} \cup IF CanMeet(t, held) THEN {TRUE} ELSE {}

\* What a lookup answers, and leaves: it drops no entry.
Answers(t, held, nothing) ==
  {e.val : e \in held} \cup IF CanMiss(t, held) THEN {nothing} ELSE {}

AfterGet(t, held) == {[t EXCEPT !.strained = s] : s \in Strains(t, held)}

\* An entry found gets the new value.  In a strained table there may be another
\* one that is equal to what it was.
Updates(t, held, v) ==
  UNION {{[t EXCEPT !.entries = others \cup {[key |-> e.key, val |-> v]}] :
            others \in {t.entries \ {e}} \cup IF t.strained THEN {t.entries} ELSE {}} :
         e \in held}

\* An entry is added, and in a strained table one may be lost under it.
Inserted(t, lost, k, v, s) ==
  [t EXCEPT !.entries  = (@ \ lost) \cup {[key |-> k, val |-> v]},
            !.room     = @ - 1,
            !.strained = s]

Insertions(t, held, k, v) ==
  UNION {{Inserted(t, lost, k, v, s) :
            lost \in {{}} \cup IF s THEN {{e} : e \in t.entries} ELSE {}} :
         s \in Strains(t, held)}

AfterSet(t, held, k, v) ==
  Updates(t, held, v)
    \cup IF CanMiss(t, held) /\ t.room > 0 THEN Insertions(t, held, k, v) ELSE {}

\* Set may call Grow, whose return stops the process.
CanGrow(t, held) == CanMiss(t, held) /\ t.room = 0
=============================================================================
