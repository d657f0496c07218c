------------------------------- MODULE Merkle -------------------------------
(***************************************************************************)
(* The hash trees of libmcpkg/crypto/mcpkg_merkle_b2b32.c and              *)
(* mcpkg_merkle_consistency_b2b32.c as functions of the leaves: roots,     *)
(* audit paths, consistency proofs.  BLAKE2b of two digests is their pair: *)
(* two digests are equal only if what was hashed is.  A leaf is a tuple of *)
(* one element.  Operators with an underscore in their name are slips that  *)
(* the properties of Ledger must catch.                                     *)
(***************************************************************************)
EXTENDS Integers, SequencesExt

HPair(l, r) == <<l, r>>

(* One level from the one below it; an odd last node is paired with itself. *)
LevelUp_DropsOdd(lv) ==
  IF Len(lv) = 1 THEN lv
  ELSE [j \in 1 .. Len(lv) \div 2 |-> HPair(lv[2 * j - 1], lv[2 * j])]

LevelUp(lv) ==
  [j \in 1 .. (Len(lv) + 1) \div 2 |->
     HPair(lv[2 * j - 1], IF 2 * j <= Len(lv) THEN lv[2 * j] ELSE lv[2 * j - 1])]

(* build_levels and build_levels_from_tree: the sequence of levels, first   *)
(* the leaves, last the root alone.  There are fewer levels than leaves, or *)
(* as many.                                                                 *)
Levels(leaves) ==
  LET up[k \in 0 .. Len(leaves)] ==
        IF k = 0 THEN <<leaves>>
        ELSE LET lv == up[k - 1] IN
             IF Len(Last(lv)) = 1 THEN lv ELSE Append(lv, LevelUp(Last(lv)))
  IN  up[Len(leaves)]

Root(leaves) == Last(Levels(leaves))[1]

(* mcpkg_merkle_b2b32_audit_path of the leaf with 0-based index i, from the *)
(* bottom up; "right" says that the sibling is the right one of the pair.   *)
AuditPath_NoDup(leaves, i) ==
  LET lv == Levels(leaves)
      at[k \in 1 .. Len(lv)] == IF k = 1 THEN i ELSE at[k - 1] \div 2
      sibling(k) == IF at[k] % 2 = 1 THEN at[k] - 1
                    ELSE IF at[k] + 2 < Len(lv[k]) THEN at[k] + 1 ELSE at[k]
  IN  [k \in 1 .. Len(lv) - 1 |-> [sibling |-> lv[k][sibling(k) + 1], right |-> at[k] % 2 = 0]]

AuditPath(leaves, i) ==
  LET lv == Levels(leaves)
      at[k \in 1 .. Len(lv)] == IF k = 1 THEN i ELSE at[k - 1] \div 2
      sibling(k) == IF at[k] % 2 = 1 THEN at[k] - 1
                    ELSE IF at[k] + 1 < Len(lv[k]) THEN at[k] + 1 ELSE at[k]
  IN  [k \in 1 .. Len(lv) - 1 |-> [sibling |-> lv[k][sibling(k) + 1], right |-> at[k] % 2 = 0]]

-----------------------------------------------------------------------------
(* 1 << k *)
Pow2(k) ==
  LET shifted[i \in 0 .. k] == IF i = 0 THEN 1 ELSE 2 * shifted[i - 1]
  IN  shifted[k]

(* ilog2_zu, pow2_floor, lsb_pow2. *)
ILog2(x) == Max({k \in 0 .. x : Pow2(k) <= x})

Pow2Floor(x) == Pow2(ILog2(x))

LsbPow2(x) == Pow2(Max({k \in 0 .. x : x % Pow2(k) = 0}))

(* append_cover_nodes: [m, n) cut from the left into the largest blocks of  *)
(* a power of two that are aligned to their size.                           *)
BlockSize_Unaligned(s, n) == Pow2Floor(n - s)

BlockSize(s, n) ==
  IF s = 0 THEN Pow2Floor(n) ELSE Min({LsbPow2(s), Pow2Floor(n - s)})

Cover(m, n) ==
  LET from[s \in m .. n] ==
        IF s = n THEN << >>
        ELSE <<[start |-> s, size |-> BlockSize(s, n)]>> \o from[s + BlockSize(s, n)]
  IN  from[m]

(* get_aligned_subtree_hash. *)
SubtreeHash(lv, b) == lv[ILog2(b.size) + 1][b.start \div b.size + 1]

(* mcpkg_merkle_b2b32_consistency, for 0 < m <= Len(leaves). *)
Consistency(leaves, m) ==
  LET lv == Levels(leaves)
      cover == Cover(m, Len(leaves))
  IN  [i \in DOMAIN cover |-> SubtreeHash(lv, cover[i])]
=============================================================================
