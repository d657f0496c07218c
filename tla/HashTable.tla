------------------------------ MODULE HashTable ------------------------------
(***************************************************************************)
(* libmcpkg/container/mcpkg_hash.c: open addressing with linear probing,   *)
(* tombstones, a bound on the length of a probe, and limits on pairs and   *)
(* bytes.  SipHash with a random key is any function from keys to hash     *)
(* values, chosen once.  Values are plain bytes (no hooks).                *)
(*                                                                         *)
(* A table is a function from positions to slots.  An operator named       *)
(* Op_Slip is Op with a slip a programmer could make; the mutants of       *)
(* PROJECT.json put it in the place of Op.                                 *)
(***************************************************************************)
EXTENDS Integers, FiniteSetsExt, Functions, TLC

CONSTANTS
  Keys, Values, NoValue,
  Hashes,           \* the hash values a key may have
  MinCap,           \* slots of the first table (8)
  MaxProbe,         \* MCPKG_HASH_MAX_PROBE (64)
  SlotBytes,        \* bytes a slot takes in the four arrays
  PairLimits, ByteLimits

ASSUME HashAssumption ==
  /\ NoValue \notin Values
  /\ Hashes \subseteq Nat /\ MaxProbe \in Nat
  /\ MinCap \in Nat \ {0} /\ SlotBytes \in Nat \ {0}
  /\ PairLimits \subseteq Nat \ {0}
  /\ ByteLimits \subseteq {b \in Nat : b >= MinCap * SlotBytes}

VARIABLES slot, cap, len, max_pairs, max_bytes, hash, freed, last

table == <<slot, cap, len>>
limits == <<max_pairs, max_bytes>>
vars == <<slot, cap, len, max_pairs, max_bytes, hash, freed, last>>

Empty == [st |-> "empty"]
Tomb == [st |-> "tomb"]
Full(k, v) == [st |-> "full", key |-> k, val |-> v]

Occupied(s) == {i \in DOMAIN s : s[i].st = "full"}

(* What a reader of every slot would find. *)
contents ==
  [k \in {slot[i].key : i \in Occupied(slot)} |->
     slot[CHOOSE i \in Occupied(slot) : slot[i].key = k].val]

BM == INSTANCE BoundedMap WITH map <- contents

(* mcpkg_hash_new. *)
Init ==
  /\ slot = << >> /\ cap = 0 /\ len = 0
  /\ max_pairs \in PairLimits /\ max_bytes \in ByteLimits
  /\ hash \in [Keys -> Hashes]
  /\ freed = FALSE
  /\ last = BM!Done("new", "ok")

-----------------------------------------------------------------------------
(* find_slot: the first of the slots from the key's home on, MaxProbe + 1   *)
(* at most, that is empty or holds the key, and the first tombstone on the  *)
(* way.                                                                     *)

Probe(s, k, i) == (hash[k] + i) % Cardinality(DOMAIN s)

Holds(s, p, k) == s[p].st = "full" /\ s[p].key = k

FirstTomb(s, k, p, n) ==
  LET tombs == {i \in 0 .. n : s[Probe(s, k, i)] = Tomb} IN
  IF tombs = {} THEN p ELSE Probe(s, k, Min(tombs))

FindSlot(s, k) ==
  LET ends == {i \in 0 .. MaxProbe : Holds(s, Probe(s, k, i), k)
                                       \/ s[Probe(s, k, i)] = Empty} IN
  IF ends = {} THEN [res |-> "bound"]
  ELSE LET p == Probe(s, k, Min(ends)) IN
       IF Holds(s, p, k) THEN [res |-> "found", pos |-> p]
       ELSE [res |-> "absent", pos |-> FirstTomb(s, k, p, Min(ends))]

(* Nothing is found in a table that was never allocated or holds nothing.   *)
Found(k) == cap # 0 /\ len # 0 /\ FindSlot(slot, k).res = "found"

-----------------------------------------------------------------------------
(* rehash.  An outcome is the code the function returns and the table it    *)
(* leaves.                                                                  *)

Outcome(res, s, n) == [res |-> res, slot |-> s, len |-> n]

FirstFree(s, k) ==
  Probe(s, k, Min({i \in DOMAIN s : s[Probe(s, k, i)].st # "full"}))

Insert(s, e) == [s EXCEPT ![FirstFree(s, e.key)] = e]

Rehashed_SkipsLast(s, n) ==
  LET size == Cardinality(DOMAIN s)
      moved[i \in 0 .. size] ==
        IF i = 0 THEN [p \in 0 .. n - 1 |-> Empty]
        ELSE IF s[i - 1].st = "full" /\ i < size THEN Insert(moved[i - 1], s[i - 1])
        ELSE moved[i - 1]
  IN  moved[size]

(* The entries of s, in the order of their positions, inserted into an      *)
(* empty table of n slots; their probes have no bound.                      *)
Rehashed(s, n) ==
  LET size == Cardinality(DOMAIN s)
      moved[i \in 0 .. size] ==
        IF i = 0 THEN [p \in 0 .. n - 1 |-> Empty]
        ELSE IF s[i - 1].st = "full" THEN Insert(moved[i - 1], s[i - 1])
        ELSE moved[i - 1]
  IN  moved[size]

Rehash(s, n) ==
  IF n * SlotBytes > max_bytes THEN {Outcome("limit", s, len)}
  ELSE LET t == Rehashed(s, n) IN
       {Outcome("nomem", s, len), Outcome("ok", t, Cardinality(Occupied(t)))}

(* maybe_grow: more than 82% full after one more, not counting tombstones. *)
MaybeGrow ==
  IF cap = 0 THEN Rehash(slot, MinCap)
  ELSE IF (len + 1) * 100 > cap * 82 THEN Rehash(slot, 2 * cap)
  ELSE {Outcome("ok", slot, len)}

-----------------------------------------------------------------------------
(* mcpkg_hash_set. *)

(* Replaces the value found, or copies the key into the slot that is free.  *)
Put(g, f, k, v) ==
  LET s == [g.slot EXCEPT ![f.pos] = Full(k, v)] IN
  IF f.res = "found" THEN {Outcome("ok", s, g.len)}
  ELSE {Outcome("nomem", g.slot, g.len), Outcome("ok", s, g.len + 1)}

(* The probe was too long: once more in a table of twice the size. *)
Retry(g, k, v) ==
  LET f == FindSlot(g.slot, k) IN
  IF g.res # "ok" THEN {g}
  ELSE IF f.res = "bound" THEN {Outcome("limit", g.slot, g.len)}
  ELSE Put(g, f, k, v)

Stored(g, k, v) ==
  LET f == FindSlot(g.slot, k) IN
  IF g.res # "ok" THEN {g}
  ELSE IF f.res # "bound" THEN Put(g, f, k, v)
  ELSE UNION {Retry(h, k, v) : h \in Rehash(g.slot, 2 * Cardinality(DOMAIN g.slot))}

Set(k, v) ==
  /\ ~freed
  /\ IF len >= max_pairs
     THEN last' = BM!Answer("set", k, "limit", v) /\ UNCHANGED table
     ELSE \E g \in MaybeGrow : \E o \in Stored(g, k, v) :
            /\ slot' = o.slot /\ cap' = Cardinality(DOMAIN o.slot) /\ len' = o.len
            /\ last' = BM!Answer("set", k, o.res, v)
  /\ UNCHANGED <<limits, hash, freed>>

-----------------------------------------------------------------------------
(* mcpkg_hash_remove; mcpkg_hash_pop, which also hands out the value. *)

Remove(k) ==
  /\ ~freed /\ Found(k)
  /\ LET p == FindSlot(slot, k).pos IN
     /\ slot' = [slot EXCEPT ![p] = Tomb]
     /\ last' = BM!Answer("remove", k, "ok", slot[p].val)
  /\ len' = len - 1
  /\ UNCHANGED <<cap, limits, hash, freed>>

(* mcpkg_hash_get. *)
Get(k) ==
  /\ ~freed /\ Found(k)
  /\ last' = BM!Answer("get", k, "ok", slot[FindSlot(slot, k).pos].val)
  /\ UNCHANGED <<table, limits, hash, freed>>

NotFound(op, k) ==
  /\ ~freed /\ ~Found(k)
  /\ last' = BM!Answer(op, k, "notfound", NoValue)
  /\ UNCHANGED <<table, limits, hash, freed>>

(* mcpkg_hash_remove_all: keeps the arrays. *)
RemoveAll ==
  /\ ~freed
  /\ slot' = [p \in DOMAIN slot |-> Empty] /\ len' = 0
  /\ last' = BM!Done("clear", "ok")
  /\ UNCHANGED <<cap, limits, hash, freed>>

(* mcpkg_hash_set_limits: neither below what the table holds and takes. *)
SetLimits(p, b) ==
  /\ ~freed
  /\ IF len > p \/ cap * SlotBytes > b
     THEN last' = BM!Done("limits", "limit") /\ UNCHANGED limits
     ELSE last' = BM!Done("limits", "ok") /\ max_pairs' = p /\ max_bytes' = b
  /\ UNCHANGED <<table, hash, freed>>

(* mcpkg_hash_free. *)
Free ==
  /\ ~freed
  /\ freed' = TRUE
  /\ slot' = << >> /\ cap' = 0 /\ len' = 0
  /\ last' = BM!Done("free", "ok")
  /\ UNCHANGED <<limits, hash>>

Next ==
  \/ \E k \in Keys :
       \/ \E v \in Values : Set(k, v)
       \/ Remove(k) \/ Get(k)
       \/ \E op \in {"remove", "get"} : NotFound(op, k)
  \/ RemoveAll
  \/ \E p \in PairLimits, b \in ByteLimits : SetLimits(p, b)
  \/ Free

Spec == Init /\ [][Next]_vars

-----------------------------------------------------------------------------
(* The comments of mcpkg_hash.h, call by call: set, get, remove and clear   *)
(* answer as a map would, a refused call changes nothing, and nothing is    *)
(* lost when the table is rebuilt.  A key that is in the table but not      *)
(* found (past tombstones, past the bound of a probe, after a rebuilding)   *)
(* would answer as absent.  It needs MaxProbe + 1 >= cap / 2: beyond that a *)
(* rebuilding can put a key out of reach.                                   *)
ImplementsBoundedMap == BM!Spec
=============================================================================
