---------------------------- MODULE MCOrderedMap ----------------------------
(* OrderedMap for TLC: keys are small integers.                             *)
EXTENDS OrderedMap
MCKeys == 1 .. 6
=============================================================================
