---------------------------- MODULE MCHashTable -----------------------------
(* HashTable for TLC: keys and values are model values.                     *)
EXTENDS HashTable

CONSTANTS k1, k2, k3, k4, v1, v2

MCKeys == {k1, k2, k3, k4}
MCValues == {v1, v2}
MCHashes == {1, 7}
MCPairs == {3, 4}
MCBytes == {4, 8}
Symmetry == Permutations(MCKeys) \cup Permutations(MCValues)
=============================================================================
