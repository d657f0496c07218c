----------------------------- MODULE BoundedMap -----------------------------
(***************************************************************************)
(* What mcpkg_hash.h and mcpkg_map.h promise their callers: a finite map   *)
(* from keys to values.  Each call does what its comment says or is        *)
(* refused and changes nothing; a call that asks for a key is answered     *)
(* according to the map.  "last" is the last answer.                       *)
(***************************************************************************)
EXTENDS Functions

CONSTANTS Keys, Values, NoValue

VARIABLES map, last

vars == <<map, last>>

Answer(op, k, res, v) == [op |-> op, key |-> k, res |-> res, val |-> v]

(* The answer of calls that return nothing but an error code. *)
Done(op, res) == [op |-> op, res |-> res]

Init == map = << >> /\ last = Done("new", "ok")

Set(k, v) ==
  /\ map' = [x \in DOMAIN map \cup {k} |-> IF x = k THEN v ELSE map[x]]
  /\ last' = Answer("set", k, "ok", v)

(* Limits and exhausted memory: the key keeps the value it had. *)
Refuse(k, v) ==
  /\ \E res \in {"limit", "nomem"} : last' = Answer("set", k, res, v)
  /\ UNCHANGED map

Remove(k) ==
  /\ k \in DOMAIN map
  /\ map' = Restrict(map, DOMAIN map \ {k})
  /\ last' = Answer("remove", k, "ok", map[k])

Get(k) ==
  /\ k \in DOMAIN map
  /\ last' = Answer("get", k, "ok", map[k])
  /\ UNCHANGED map

NotFound(op, k) ==
  /\ k \notin DOMAIN map
  /\ last' = Answer(op, k, "notfound", NoValue)
  /\ UNCHANGED map

Clear(op) == map' = << >> /\ last' = Done(op, "ok")

SetLimits ==
  /\ \E res \in {"ok", "limit"} : last' = Done("limits", res)
  /\ UNCHANGED map

Next ==
  \/ \E k \in Keys :
       \/ \E v \in Values : Set(k, v) \/ Refuse(k, v)
       \/ Remove(k) \/ Get(k)
       \/ \E op \in {"remove", "get"} : NotFound(op, k)
  \/ \E op \in {"clear", "free"} : Clear(op)
  \/ SetLimits

Spec == Init /\ [][Next]_vars
=============================================================================
