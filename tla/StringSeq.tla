------------------------------ MODULE StringSeq ------------------------------
(***************************************************************************)
(* What McPkgStringList promises: a sequence of strings that the list      *)
(* owns, with a limit on its length.  Whatever makes it grow may be        *)
(* refused and then changes nothing; whatever makes it shrink may not.     *)
(* List implements it.                                                     *)
(***************************************************************************)
EXTENDS Naturals, Sequences, SequencesExt

CONSTANT Strings   \* every string that can be in the list

VARIABLES
  seq,     \* the strings, first to last
  limit,   \* how many there may be
  last     \* the last call and its result

abstractVars == <<seq, limit, last>>

Returns(op, result) == last' = [op |-> op, result |-> result]

Growing == {"push", "add", "resize", "reserve"}
Ranged == {"add", "remove_at", "pop"}

Init ==
  /\ seq = <<>>
  /\ limit \in Nat \ {0}
  /\ last = [op |-> "new", result |-> "ok"]

Put(op, i, s) ==
  /\ op = "push" => i = Len(seq) + 1
  /\ Len(seq) < limit
  /\ seq' = InsertAt(seq, i, s)
  /\ Returns(op, "ok")
  /\ UNCHANGED limit

Take(op, i) ==
  /\ op = "pop" => i = Len(seq)
  /\ seq' = RemoveAt(seq, i)
  /\ Returns(op, "ok")
  /\ UNCHANGED limit

Truncate(op, n) ==
  /\ op \in {"remove_all", "free"} => n = 0
  /\ seq' = SubSeq(seq, 1, n)
  /\ Returns(op, "ok")
  /\ UNCHANGED limit

Extend ==
  /\ IsPrefix(seq, seq')
  /\ Len(seq') <= limit
  /\ Returns("resize", "ok")
  /\ UNCHANGED limit

SetLimit ==
  /\ limit' >= Len(seq)
  /\ Returns("set_limits", "ok")
  /\ UNCHANGED seq

Reserve == Returns("reserve", "ok") /\ UNCHANGED <<seq, limit>>

Refuse(op, why) == Returns(op, why) /\ UNCHANGED <<seq, limit>>

Next ==
  \/ \E s \in Strings, i \in 1 .. Len(seq) + 1, op \in {"push", "add"} :
       Put(op, i, s)
  \/ \E i \in 1 .. Len(seq), op \in {"remove_at", "pop"} : Take(op, i)
  \/ \E n \in 0 .. Len(seq), op \in {"shrink", "remove_all", "free"} :
       Truncate(op, n)
  \/ Extend
  \/ SetLimit
  \/ Reserve
  \/ \E op \in Growing, why \in {"limit", "no_mem"} : Refuse(op, why)
  \/ \E op \in Ranged : Refuse(op, "range")
  \/ Refuse("set_limits", "limit")

Spec == Init /\ [][Next]_abstractVars
=============================================================================
