-------------------------- MODULE HashTableHistory --------------------------
(***************************************************************************)
(* HashTable with three history variables, which no action of the table    *)
(* reads: what a dictionary would hold after the calls that have returned, *)
(* all that was ever stored by them, and whether RefArray has so far been  *)
(* used within its limits.                                                 *)
(***************************************************************************)
EXTENDS HashTable

VARIABLES
  latest,   \* the value last Set under each key, or NotFound
  given,    \* the pairs of a key and a value that were ever Set
  sound     \* no step so far was one of those that Strains describes

hvars == <<vars, latest, given, sound>>

HInit == /\ Init
         /\ latest = [k \in Key |-> NotFound]
         /\ given = {}
         /\ sound = TRUE

\* A Set called by the program (not by Grow) returns in this step.
SetReturns == /\ call.op = "set"
              /\ pc # "idle"
              /\ pc' = "idle"

\* The next step has RefArray::FindEmptyCell search below its start, or
\* RefArray::Relocate move an entry that has a successor.
Strains ==
  \/ LET h == Home(call.key) IN
     /\ pc = "find"
     /\ call.key # Nil
     /\ ~IsEmpty(h)
     /\ Home(cells[h].key) # h
     /\ EmptyAbove(h) = {} \/ cells[h].next # 0
  \/ /\ pc = "insert"
     /\ remaining > 0
     /\ ~IsEmpty(idx)
     /\ EmptyAbove(idx) = {}

HNext ==
  /\ Next
  /\ latest' = IF SetReturns THEN [latest EXCEPT ![call.key] = call.val]
                             ELSE latest
  /\ given' = IF SetReturns THEN given \cup {<<call.key, call.val>>} ELSE given
  /\ sound' = (sound /\ (pc \in {"find", "insert"} => ~Strains))

HSpec == HInit /\ [][HNext]_hvars

\* Nothing blocks the one thread inside an operation.
HFairSpec == HSpec /\ WF_hvars(HNext /\ pc \notin {"idle", "aborted"})

HTypeOK == /\ TypeOK
           /\ latest \in [Key -> Value \cup {NotFound}]
           /\ given \subseteq Key \X Value
           /\ sound \in BOOLEAN

-----------------------------------------------------------------------------
(***************************************************************************)
(* The shape of a table that was never strained.  The entries of one home  *)
(* slot form a chain that starts in that slot and climbs the array, each   *)
(* link leading to the next entry of the same home slot; no key is stored  *)
(* twice.                                                                  *)
(***************************************************************************)
Kin(i, j) == /\ ~IsEmpty(i)
             /\ ~IsEmpty(j)
             /\ Home(cells[i].key) = Home(cells[j].key)

\* No entry sits below the home slot of its key, nor without a head there.
Headed == \A i \in Slots : ~IsEmpty(i) =>
            /\ Home(cells[i].key) <= i
            /\ Kin(Home(cells[i].key), i)

\* The link of an entry leads to the nearest of its kin above it.
Linked == \A i \in Slots : ~IsEmpty(i) =>
            /\ cells[i].next # 0 => /\ cells[i].next > 0
                                    /\ i + cells[i].next \in Slots
                                    /\ Kin(i, i + cells[i].next)
            /\ \A j \in i + 1 .. size - 1 : Kin(i, j) =>
                 /\ cells[i].next # 0
                 /\ i + cells[i].next <= j

Unique == \A i, j \in Slots : cells[i].key = cells[j].key /\ ~IsEmpty(i) => i = j

ChainsInOrder == sound => Headed /\ Linked /\ Unique

\* Only a nil key, and a table that is full, stop a process whose tables were
\* never strained.
SoundFaults == sound => fault \in {"none", "nil_key", "grow_returned"}

\* A hash function that sends no three keys to one slot, and above whose home
\* slots there is room, each of them counted, for all the keys.
Spreads(f) ==
  /\ \A k \in Key : (f[k] % InitSize) + Cardinality(Key) <= InitSize
  /\ \A k, l, m \in Key :
       f[k] % InitSize = f[l] % InitSize /\ f[l] % InitSize = f[m] % InitSize
         => k = l \/ l = m \/ k = m

\* The table was never strained, has not run out of cells and has not failed.
\* Where the hash function spreads the keys, and nil is not stored under, that
\* is so for ever.
Intact == sound /\ depth = 0 /\ fault = "none"

-----------------------------------------------------------------------------
(***************************************************************************)
(* What survives even in a strained table, whose chains may be broken or   *)
(* joined and which may hold a key twice.                                  *)
(***************************************************************************)

\* A lookup may miss a key that is in the array, and the array may hold a key
\* twice, once with a value that a later Set meant to replace; but what a lookup
\* answers was Set, at some time, under the very key that it is asked for.
AnswersWereGiven ==
  pc = "idle" /\ call.op = "get" /\ ret \notin {Nil, NotFound}
    => <<call.key, ret>> \in given
=============================================================================
