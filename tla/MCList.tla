------------------------------- MODULE MCList -------------------------------
(* List for TLC: allocations are model values.                              *)
EXTENDS List, TLC

CONSTANTS s1, s2, s3, s4

MCStrings == {s1, s2, s3, s4}
MCCounts == {2, 4}
MCBytes == {4, 6, 8}
MCSizes == 0 .. 5

Symmetry == Permutations(MCStrings)
=============================================================================
