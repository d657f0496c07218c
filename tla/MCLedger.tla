------------------------------ MODULE MCLedger -------------------------------
(* Ledger for TLC: a project that the index can name and one that it cannot, *)
(* whose leaves may come again and again.                                    *)
EXTENDS Ledger

CONSTANTS p1, p2, m1, m2, key

MCPages == {p1, p2}
MCMetas == {m1, m2}
MCKeyOf == m1 :> key
Symmetry == Permutations(MCPages)
=============================================================================
