------------------------------- MODULE Ledger -------------------------------
(***************************************************************************)
(* Repository pages, libmcpkg/crypto/mcpkg_repo_page.c, over one borrowed  *)
(* Merkle tree (mcpkg_merkle_b2b32.c) and one borrowed leaf index          *)
(* (mcpkg_leaf_index_cache.c), with attestations and signed blocks         *)
(* (mcpkg_manifest_and_sig.c).  Signatures are ideal: a signature is the   *)
(* message that was signed.  Several pages may be open on the same tree;   *)
(* any step that allocates or signs may fail.  Operators with an underscore *)
(* in their name are slips that the properties must catch.                  *)
(***************************************************************************)
EXTENDS Merkle, Functions, TLC

CONSTANTS
  Pages,
  Metas,       \* package metadata, equal to what it packs to
  KeyOf,       \* their key "provider:project[:version]"; those whose project
               \* is empty or has a colon in it have none
  MaxLeaves, MaxBlocks

ASSUME LedgerAssumption ==
  /\ DOMAIN KeyOf \subseteq Metas
  /\ MaxLeaves \in Nat /\ MaxBlocks \in Nat

VARIABLES
  leaves,      \* the tree's leaves
  index,       \* the leaf index: key -> 0-based index
  page,        \* page -> state and start_size
  blocks,      \* the blocks handed out, oldest first, with their proofs
  orderly      \* history: pages were used one after another, see Disorder

vars == <<leaves, index, page, blocks, orderly>>

NoPage == [state |-> "none", start |-> 0]

Leaf(m) == <<m>>

Init ==
  /\ leaves = << >>
  /\ index = << >>
  /\ page = [p \in Pages |-> NoPage]
  /\ blocks = << >>
  /\ orderly = TRUE

(* A second page beside an open one, more leaves or another block after a   *)
(* page's block, a page given up with leaves of its own: disorder.          *)
Disorder(bad) == orderly' = (orderly /\ ~bad)

-----------------------------------------------------------------------------
(* mcpkg_repo_page_begin. *)
Begin(p) ==
  /\ page[p].state = "none"
  /\ page' = [page EXCEPT ![p] = [state |-> "open", start |-> Len(leaves)]]
  /\ Disorder(\E q \in Pages : page[q].state # "none")
  /\ UNCHANGED <<leaves, index, blocks>>

(* mcpkg_merkle_b2b32_append. *)
Grown(m) == Append(leaves, Leaf(m))

(* mcpkg_leaf_index_key_from_origin and mcpkg_leaf_index_cache_set.  Either *)
(* may fail, which repo_page_add ignores.                                   *)
IndexSet(m, i) ==
  \/ /\ m \in DOMAIN KeyOf
     /\ index' = [k \in DOMAIN index \cup {KeyOf[m]} |-> IF k = KeyOf[m] THEN i ELSE index[k]]
  \/ UNCHANGED index

(* mcpkg_repo_page_add once the leaf is in the tree, at index i: it is      *)
(* signed and entered in the index; or signing fails, or an allocation, and *)
(* the leaf stays.                                                          *)
Attest(p, m, i) == IndexSet(m, i) \/ UNCHANGED index

(* mcpkg_repo_page_add.  (When packing, hashing or growing the tree fails,  *)
(* nothing changes.)                                                        *)
Add(p, m) ==
  /\ page[p].state # "none" /\ Len(leaves) < MaxLeaves
  /\ leaves' = Grown(m)
  /\ Attest(p, m, Len(leaves))
  /\ Disorder(page[p].state = "done")
  /\ UNCHANGED <<page, blocks>>

-----------------------------------------------------------------------------
(* mcpkg_repo_page_finish. *)

TreeHead_FromNext(p) ==
  [size |-> Len(leaves), root |-> Root(leaves),
   first |-> page[p].start + 1, last |-> Len(leaves) - 1]

TreeHead(p) ==
  [size |-> Len(leaves), root |-> Root(leaves),
   first |-> page[p].start, last |-> Len(leaves) - 1]

(* A first page, or one that added nothing, has an empty proof. *)
Proof(p) ==
  IF 0 < page[p].start /\ page[p].start < Len(leaves)
  THEN Consistency(leaves, page[p].start) ELSE << >>

(* On success; on failure everything made on the way is freed.  (prev and   *)
(* height of the block are whatever the caller passes.)                     *)
Finish(p) ==
  /\ page[p].state # "none" /\ leaves # << >> /\ Len(blocks) < MaxBlocks
  /\ blocks' = Append(blocks, [sth |-> TreeHead(p), proof |-> Proof(p)])
  /\ page' = [page EXCEPT ![p].state = "done"]
  /\ Disorder(page[p].state = "done")
  /\ UNCHANGED <<leaves, index>>

(* mcpkg_repo_page_free. *)
Free(p) ==
  /\ page[p].state # "none"
  /\ page' = [page EXCEPT ![p] = NoPage]
  /\ Disorder(page[p].state = "open" /\ page[p].start < Len(leaves))
  /\ UNCHANGED <<leaves, index, blocks>>

Next ==
  \E p \in Pages :
    \/ Begin(p) \/ Finish(p) \/ Free(p)
    \/ \E m \in Metas : Add(p, m)

Spec == Init /\ [][Next]_vars

-----------------------------------------------------------------------------
(* Verification, as whoever receives the records does it.                   *)

(* The digest that a leaf and its audit path lead to. *)
PathRoot(leaf, path) ==
  LET up[k \in 0 .. Len(path)] ==
        IF k = 0 THEN leaf
        ELSE IF path[k].right THEN HPair(up[k - 1], path[k].sibling)
        ELSE HPair(path[k].sibling, up[k - 1])
  IN  up[Len(path)]

(* The root of a tree of n leaves from digests of blocks that make up       *)
(* [0, n), as a function from blocks to digests; node j at height k stands  *)
(* for the leaves from j * 2^k on.                                          *)
Block(k, j) == [start |-> j * Pow2(k), size |-> Pow2(k)]
CoverRoot(known, n) ==
  LET val[k \in 0 .. n] ==
        [j \in {i \in 0 .. n : i * Pow2(k) < n} |->
           IF Block(k, j) \in DOMAIN known THEN known[Block(k, j)]
           ELSE IF k = 0 THEN << >>
           ELSE IF (2 * j + 1) * Pow2(k - 1) < n
           THEN HPair(val[k - 1][2 * j], val[k - 1][2 * j + 1])
           ELSE HPair(val[k - 1][2 * j], val[k - 1][2 * j])]
  IN  val[Min({k \in 0 .. n : Pow2(k) >= n})][0]

(* Digests of a cover of [m, n), given in its order. *)
Known(m, n, digests) ==
  LET cover == Cover(m, n) IN
  [b \in Range(cover) |-> digests[CHOOSE i \in DOMAIN cover : cover[i] = b]]

(* What somebody who follows the ledger knows of a tree it has seen.        *)
Seen(old) ==
  LET lv == Levels(old)
      cover == Cover(0, Len(old))
  IN  [b \in Range(cover) |-> SubtreeHash(lv, b)]

Together(f, g) ==
  [b \in DOMAIN f \cup DOMAIN g |-> IF b \in DOMAIN f THEN f[b] ELSE g[b]]

-----------------------------------------------------------------------------
(* The tree alone decides some properties, so they are looked at where      *)
(* everything else is as at the start.                                      *)
OnlyLeaves == index = << >> /\ blocks = << >> /\ \A p \in Pages : page[p] = NoPage

Proven(i, leaf) == PathRoot(leaf, AuditPath(leaves, i)) = Root(leaves)

(* An audit path leads from each leaf to the root, whatever the size of the *)
(* tree and wherever a node was paired with itself; and somebody who looks  *)
(* a project up in the index gets the path of a leaf of that project,       *)
(* whichever adds failed half-way.                                          *)
PathsLeadToRoot ==
  /\ OnlyLeaves => \A i \in DOMAIN leaves : Proven(i - 1, leaves[i])
  /\ \A k \in DOMAIN index : \E m \in DOMAIN KeyOf : KeyOf[m] = k /\ Proven(index[k], Leaf(m))

(* A tree head, size and root, stands for one sequence of leaves: trees of  *)
(* different sizes may share a root because a last node is doubled, trees   *)
(* of the same size never do.                                               *)
HeadCommits ==
  OnlyLeaves /\ leaves # << >> =>
    \A other \in [DOMAIN leaves -> {Leaf(m) : m \in Metas}] :
      Root(other) = Root(leaves) => other = leaves

(* Each block goes on from the tree its page began with: from what a        *)
(* follower knows of that tree and the block's proof, the root follows.     *)
(* "Nodes are the canonical dyadic cover of [m, n) in left-to-right order"  *)
(* (mcpkg_merkle_consistency_b2b32.h).                                      *)
BlocksExtendTheirStart ==
  blocks # << >> =>
    LET blk == Last(blocks)
        m == blk.sth.first
        n == blk.sth.size
    IN  0 < m /\ m < n =>
          CoverRoot(Together(Known(m, n, blk.proof), Seen(SubSeq(leaves, 1, m))), n) = blk.sth.root

(* Pages used one after another leave no gap and no overlap, empty pages    *)
(* and failed adds included: each block starts where the last one ended.    *)
OrderlyPagesTile ==
  orderly =>
    \A i \in DOMAIN blocks :
      blocks[i].sth.first = IF i = 1 THEN 0 ELSE blocks[i - 1].sth.last + 1

=============================================================================
