----------------------- MODULE MCHashTableDictionary -----------------------
(* HashTableDictionary for TLC. *)
EXTENDS HashTableDictionary, TLC

CONSTANTS k1, k2, k3, k4, v1, v2

ThreeKeys == {k1, k2, k3}

FourKeys == {k1, k2, k3, k4}

AllHashes == [Key -> 0 .. InitSize - 1]

\* Up to the size of the array, which is all that Home looks at.
SpreadHashes == {f \in AllHashes : Spreads(f)}

KeysAlike == Permutations(Key)
=============================================================================
