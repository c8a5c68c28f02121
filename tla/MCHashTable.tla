---------------------------- MODULE MCHashTable ----------------------------
(* HashTable for TLC: a few keys, and the hash functions there are for them. *)
EXTENDS HashTable, TLC

CONSTANTS k1, k2, k3, k4, k5, v1, v2

FourKeys == {k1, k2, k3, k4}

FiveKeys == {k1, k2, k3, k4, k5}

\* A hash matters modulo the size of the table.
AllHashes == [Key -> 0 .. InitSize - 1]

\* Modulo the size of the table grown once; of the functions that a permutation
\* of the keys turns into each other, one.
DoubleHashes == {f \in [Key -> 0 .. 2 * InitSize - 1] :
                   f[k1] <= f[k2] /\ f[k2] <= f[k3] /\ f[k3] <= f[k4]}

\* Three keys of one home slot, and one of each of the next two.  In a table that
\* has more cells than keys above them, every search finds a cell above.
StackedHash == {(k1 :> 0) @@ (k2 :> 0) @@ (k3 :> 0) @@ (k4 :> 1) @@ (k5 :> 2)}

KeysAlike == Permutations(Key)
=============================================================================
