---------------------------- MODULE LedgerProofs ----------------------------
(***************************************************************************)
(* For any number of pages and packages and any bounds on leaves and       *)
(* blocks: pages used one after another tile the ledger, a signed head     *)
(* stands for one sequence of leaves, the index leads to the leaf of the   *)
(* project asked for, whose audit path hashes up to the root, and from the *)
(* tree a page began with and its proof follows the root of its head.      *)
(***************************************************************************)
EXTENDS Ledger, SequenceTheorems, WellFoundedInduction, TLAPS

LeafSet == {Leaf(m) : m \in Metas}

Heads ==
  [size : Nat, root : {Root(s) : s \in Seq(LeafSet)}, first : Nat, last : Int]

Blocks ==
  [sth : Heads,
   proof : {<<>>} \cup {Consistency(s, m) : s \in Seq(LeafSet), m \in Nat}]

TypeOK ==
  /\ leaves \in Seq(LeafSet)
  /\ page \in [Pages -> [state : {"none", "open", "done"}, start : Nat]]
  /\ blocks \in Seq(Blocks)
  /\ orderly \in BOOLEAN

(* Where the ledger that the blocks describe ends. *)
End == IF blocks = <<>> THEN 0 ELSE blocks[Len(blocks)].sth.last + 1

(* As long as there was no disorder, at most one page is in use; it began   *)
(* where the blocks end, and with no page open the leaves end there too.    *)
InOrder ==
  /\ \A p, q \in Pages : page[p].state # "none" /\ page[q].state # "none" => p = q
  /\ \A p \in Pages : page[p].state = "open" => page[p].start = End /\ End <= Len(leaves)
  /\ (\A p \in Pages : page[p].state # "open") => Len(leaves) = End
  /\ \A i \in DOMAIN blocks :
       blocks[i].sth.first = IF i = 1 THEN 0 ELSE blocks[i - 1].sth.last + 1

IInv == TypeOK /\ (orderly => InOrder)

-----------------------------------------------------------------------------
LEMMA InitIInv == Init => IInv
<1> SUFFICES ASSUME Init PROVE IInv
  OBVIOUS
<1>1. /\ leaves = <<>> /\ blocks = <<>> /\ orderly = TRUE
      /\ page = [p \in Pages |-> [state |-> "none", start |-> 0]]
  BY DEF Init, NoPage
<1>2. TypeOK
  BY <1>1 DEF TypeOK
<1>3. InOrder
  BY <1>1 DEF InOrder, End
<1> QED
  BY <1>2, <1>3 DEF IInv

LEMMA BeginKeeps == ASSUME IInv, NEW p \in Pages, Begin(p) PROVE IInv'
<1>1. /\ page[p].state = "none" /\ Len(leaves) \in Nat
      /\ page' = [page EXCEPT ![p] = [state |-> "open", start |-> Len(leaves)]]
      /\ UNCHANGED <<leaves, blocks>>
  BY DEF Begin, IInv, TypeOK
<1>2. TypeOK'
  <2>1. orderly' \in BOOLEAN
    BY DEF Begin, Disorder, IInv, TypeOK
  <2>2. page' \in [Pages -> [state : {"none", "open", "done"}, start : Nat]]
    BY <1>1 DEF IInv, TypeOK
  <2> QED
    BY <1>1, <2>1, <2>2 DEF IInv, TypeOK
<1>3. ASSUME orderly' PROVE InOrder'
  <2>1. InOrder /\ \A q \in Pages : page[q].state = "none"
    BY <1>3 DEF Begin, Disorder, IInv
  <2>2. Len(leaves) = End /\ End' = End
    BY <1>1, <2>1 DEF InOrder, End
  <2>3. /\ page'[p] = [state |-> "open", start |-> Len(leaves)]
        /\ \A q \in Pages : q # p => page'[q].state = "none"
    BY <1>1, <2>1 DEF IInv, TypeOK
  <2>4. page'[p].state = "open" /\ page'[p].start = End' /\ End' <= Len(leaves')
    BY <1>1, <2>2, <2>3
  <2> QED
    BY <1>1, <2>1, <2>2, <2>3, <2>4 DEF InOrder
<1> QED
  BY <1>2, <1>3 DEF IInv

LEMMA AddKeeps == ASSUME IInv, NEW p \in Pages, NEW m \in Metas, Add(p, m) PROVE IInv'
<1>1. /\ page[p].state # "none" /\ leaves' = Append(leaves, Leaf(m))
      /\ UNCHANGED <<page, blocks>>
  BY DEF Add, Grown
<1>2. TypeOK'
  <2>1. orderly' \in BOOLEAN
    BY DEF Add, Disorder, IInv, TypeOK
  <2>2. leaves' \in Seq(LeafSet)
    BY <1>1, AppendProperties DEF IInv, TypeOK, LeafSet
  <2> QED
    BY <1>1, <2>1, <2>2 DEF IInv, TypeOK
<1>3. ASSUME orderly' PROVE InOrder'
  <2>1. InOrder /\ page[p].state # "done"
    BY <1>3 DEF Add, Disorder, IInv
  <2>2. page[p].state = "open"
    BY <1>1, <2>1 DEF IInv, TypeOK
  <2>3. Len(leaves') = Len(leaves) + 1 /\ Len(leaves) \in Nat
    BY <1>1, AppendProperties DEF IInv, TypeOK, LeafSet
  <2>4. page[p].start = End /\ End <= Len(leaves) /\ page[p].start \in Nat
    BY <2>1, <2>2 DEF IInv, TypeOK, InOrder
  <2>5. End' = End /\ End' <= Len(leaves')
    BY <1>1, <2>3, <2>4 DEF End
  <2> QED
    BY <1>1, <2>1, <2>2, <2>5 DEF InOrder
<1> QED
  BY <1>2, <1>3 DEF IInv

LEMMA FinishKeeps == ASSUME IInv, NEW p \in Pages, Finish(p) PROVE IInv'
<1> DEFINE b == [sth |-> TreeHead(p), proof |-> Proof(p)]
<1>1. /\ page[p].state # "none" /\ page' = [page EXCEPT ![p].state = "done"]
      /\ blocks' = Append(blocks, b) /\ UNCHANGED leaves
  BY DEF Finish
<1>2. /\ b.sth.first = page[p].start /\ b.sth.last = Len(leaves) - 1
      /\ Len(leaves) \in Nat /\ page[p].start \in Nat
  BY DEF TreeHead, IInv, TypeOK
<1>3. b \in Blocks
  <2>1. leaves \in Seq(LeafSet)
    BY DEF IInv, TypeOK
  <2>2. Root(leaves) \in {Root(s) : s \in Seq(LeafSet)}
    BY <2>1
  <2>3. TreeHead(p) \in Heads
    BY <1>2, <2>2 DEF TreeHead, Heads
  <2>4. Proof(p) \in {<<>>} \cup {Consistency(s, m) : s \in Seq(LeafSet), m \in Nat}
    BY <1>2, <2>1 DEF Proof
  <2> QED
    BY <2>3, <2>4 DEF Blocks
<1> HIDE DEF b
<1>4. blocks \in Seq(Blocks)
  BY DEF IInv, TypeOK
<1>5. /\ Len(blocks) \in Nat /\ blocks' \in Seq(Blocks) /\ blocks' # <<>>
      /\ Len(blocks') = Len(blocks) + 1 /\ blocks'[Len(blocks) + 1] = b
      /\ DOMAIN blocks = 1 .. Len(blocks) /\ DOMAIN blocks' = 1 .. Len(blocks) + 1
      /\ \A i \in 1 .. Len(blocks) : blocks'[i] = blocks[i]
  BY <1>1, <1>3, <1>4, AppendProperties, LenProperties
<1>6. TypeOK'
  <2>1. orderly' \in BOOLEAN
    BY DEF Finish, Disorder, IInv, TypeOK
  <2>2. page' \in [Pages -> [state : {"none", "open", "done"}, start : Nat]]
    BY <1>1 DEF IInv, TypeOK
  <2> QED
    BY <1>1, <1>5, <2>1, <2>2 DEF IInv, TypeOK
<1>7. ASSUME orderly' PROVE InOrder'
  <2>1. InOrder /\ page[p].state # "done"
    BY <1>7 DEF Finish, Disorder, IInv
  <2>2. page[p].state = "open" /\ page[p].start = End
    BY <1>1, <2>1 DEF IInv, TypeOK, InOrder
  <2>3. page'[p].state = "done" /\ \A q \in Pages : q # p => page'[q] = page[q]
    BY <1>1 DEF IInv, TypeOK
  <2>4. \A q \in Pages : q # p => page'[q].state = "none"
    BY <1>1, <2>1, <2>3 DEF InOrder
  <2>5. End' = Len(leaves')
    BY <1>1, <1>2, <1>5 DEF End
  <2>6. ASSUME NEW i \in DOMAIN blocks'
        PROVE  blocks'[i].sth.first = IF i = 1 THEN 0 ELSE blocks'[i - 1].sth.last + 1
    <3>1. CASE i \in 1 .. Len(blocks)
      <4>1. i = 1 \/ i - 1 \in 1 .. Len(blocks)
        BY <1>5, <3>1
      <4> QED
        BY <1>5, <2>1, <3>1, <4>1 DEF InOrder
    <3>2. CASE i = Len(blocks) + 1
      <4>1. blocks'[i].sth.first = End
        BY <1>2, <1>5, <2>2, <3>2
      <4>2. CASE blocks = <<>>
        BY <3>2, <4>1, <4>2 DEF End
      <4>3. CASE blocks # <<>>
        <5>1. i # 1 /\ i - 1 = Len(blocks) /\ Len(blocks) \in 1 .. Len(blocks)
          BY <1>4, <1>5, <3>2, <4>3, EmptySeq
        <5> QED
          BY <1>5, <4>1, <4>3, <5>1 DEF End
      <4> QED
        BY <4>2, <4>3
    <3> QED
      BY <1>5, <3>1, <3>2
  <2> QED
    BY <2>3, <2>4, <2>5, <2>6 DEF InOrder
<1> QED
  BY <1>6, <1>7 DEF IInv

LEMMA FreeKeeps == ASSUME IInv, NEW p \in Pages, Free(p) PROVE IInv'
<1>1. /\ page[p].state # "none" /\ UNCHANGED <<leaves, blocks>>
      /\ page' = [page EXCEPT ![p] = [state |-> "none", start |-> 0]]
  BY DEF Free, NoPage
<1>2. TypeOK'
  <2>1. orderly' \in BOOLEAN
    BY DEF Free, Disorder, IInv, TypeOK
  <2>2. page' \in [Pages -> [state : {"none", "open", "done"}, start : Nat]]
    BY <1>1 DEF IInv, TypeOK
  <2> QED
    BY <1>1, <2>1, <2>2 DEF IInv, TypeOK
<1>3. ASSUME orderly' PROVE InOrder'
  <2>1. InOrder /\ (page[p].state = "open" => ~(page[p].start < Len(leaves)))
    BY <1>3 DEF Free, Disorder, IInv
  <2>2. /\ page'[p].state = "none"
        /\ \A q \in Pages : q # p => page'[q].state = "none"
    BY <1>1, <2>1 DEF IInv, TypeOK, InOrder
  <2>3. Len(leaves) = End
    <3>1. CASE page[p].state = "open"
      <4>1. page[p].start = End /\ End <= Len(leaves) /\ page[p].start \in Nat
        BY <2>1, <3>1 DEF IInv, TypeOK, InOrder
      <4>2. Len(leaves) \in Nat
        BY DEF IInv, TypeOK
      <4> QED
        BY <2>1, <3>1, <4>1, <4>2
    <3>2. CASE page[p].state # "open"
      BY <1>1, <2>1, <3>2 DEF InOrder
    <3> QED
      BY <3>1, <3>2
  <2> QED
    BY <1>1, <2>1, <2>2, <2>3 DEF InOrder, End
<1> QED
  BY <1>2, <1>3 DEF IInv

LEMMA NextIInv == IInv /\ [Next]_vars => IInv'
<1> SUFFICES ASSUME IInv, [Next]_vars PROVE IInv'
  OBVIOUS
<1>1. CASE \E p \in Pages : Begin(p)
  BY <1>1, BeginKeeps
<1>2. CASE \E p \in Pages, m \in Metas : Add(p, m)
  BY <1>2, AddKeeps
<1>3. CASE \E p \in Pages : Finish(p)
  BY <1>3, FinishKeeps
<1>4. CASE \E p \in Pages : Free(p)
  BY <1>4, FreeKeeps
<1>5. CASE UNCHANGED vars
  BY <1>5 DEF vars, IInv, TypeOK, InOrder, End
<1> QED
  BY <1>1, <1>2, <1>3, <1>4, <1>5 DEF Next

(* However many pages there are and however often adding, signing or        *)
(* finishing fails: when each page is finished, or given up without leaves, *)
(* before the next one begins, the blocks cover the leaves with no gap and  *)
(* no overlap (mcpkg_repo_page.c, start_size and the last field of the head). *)
THEOREM PagesTile == Spec => []OrderlyPagesTile
<1>1. IInv => OrderlyPagesTile
  BY DEF IInv, InOrder, OrderlyPagesTile
<1> QED
  BY InitIInv, NextIInv, <1>1, PTL DEF Spec

-----------------------------------------------------------------------------
(* Induction, in the form of a least number that is left out.               *)

(* Every non-empty set of numbers has a least one; so a set that has 0, and *)
(* n + 1 with n, has them all.                                              *)
LEMMA Least ==
  ASSUME NEW T, T \subseteq Nat, T # {}
  PROVE  \E x \in T : \A y \in T : ~(y < x)
<1> DEFINE R == {q \in Nat \X Nat : q[1] < q[2]}
<1>1. IsWellFoundedOn(R, Nat)
  BY NatLessThanWellFounded DEF OpToRel
<1>2. ASSUME NEW x \in Nat, NEW y \in Nat, x < y PROVE <<x, y>> \in R
  <2>1. <<x, y>> \in Nat \X Nat /\ <<x, y>>[1] = x /\ <<x, y>>[2] = y
    OBVIOUS
  <2> QED
    BY <1>2, <2>1, Zenon
<1> HIDE DEF R
<1>3. PICK x \in T : \A y \in T : ~(<<y, x>> \in R)
  BY <1>1, WFMin
<1> QED
  BY <1>2, <1>3

(* Induction over the numbers, said of a set of them.                       *)
LEMMA Induction ==
  ASSUME NEW T, 0 \in T, \A n \in Nat : n \in T => n + 1 \in T
  PROVE  \A n \in Nat : n \in T
<1> SUFFICES ASSUME Nat \ T # {} PROVE FALSE
  OBVIOUS
<1>1. PICK x \in Nat \ T : \A y \in Nat \ T : ~(y < x)
  BY Least
<1>2. x - 1 \in Nat /\ x - 1 < x /\ x = (x - 1) + 1
  BY <1>1
<1>3. x - 1 \in T
  BY <1>1, <1>2
<1> QED
  BY <1>1, <1>2, <1>3

-----------------------------------------------------------------------------
(* The levels of a tree.                                                   *)

IsRow(r) == \E S : r \in Seq(S)

LEMMA RowIs ==
  ASSUME NEW r, IsRow(r)
  PROVE  /\ Len(r) \in Nat /\ DOMAIN r = 1 .. Len(r)
         /\ r = [i \in 1 .. Len(r) |-> r[i]]
<1>1. PICK S : r \in Seq(S) BY DEF IsRow
<1> QED BY <1>1

(* A function on the numbers from 1 is a row.                               *)
LEMMA MadeRow ==
  ASSUME NEW n \in Nat, NEW r, r = [i \in 1 .. n |-> r[i]]
  PROVE  IsRow(r) /\ Len(r) = n /\ DOMAIN r = 1 .. n
<1> DEFINE S == {r[i] : i \in 1 .. n}
<1>1. r \in [1 .. n -> S] OBVIOUS
<1>2. r \in Seq(S) BY <1>1, SeqDef
<1>3. DOMAIN r = 1 .. n OBVIOUS
<1> HIDE DEF S
<1>4. Len(r) = n BY <1>2, <1>3, LenProperties
<1> QED BY <1>2, <1>3, <1>4 DEF IsRow

(* The row above one.                                                       *)
RightOf(r, j) == IF 2 * j <= Len(r) THEN r[2 * j] ELSE r[2 * j - 1]
IsAbove(u, r) ==
  /\ IsRow(u) /\ Len(u) = (Len(r) + 1) \div 2
  /\ \A j \in 1 .. Len(u) : u[j] = <<r[2 * j - 1], RightOf(r, j)>>

LEMMA LevelUpIs ==
  ASSUME NEW r, IsRow(r)
  PROVE  IsAbove(LevelUp(r), r)
<1> DEFINE n == (Len(r) + 1) \div 2
           u == [j \in 1 .. n |-> <<r[2 * j - 1], RightOf(r, j)>>]
<1>1. n \in Nat BY RowIs
<1>2. LevelUp(r) = u BY DEF LevelUp, HPair, RightOf
<1>3. \A j \in 1 .. n : u[j] = <<r[2 * j - 1], RightOf(r, j)>> OBVIOUS
<1>4. u = [j \in 1 .. n |-> u[j]] OBVIOUS
<1> HIDE DEF n, u
<1>5. IsRow(u) /\ Len(u) = n BY <1>1, <1>4, MadeRow
<1> QED BY <1>2, <1>3, <1>5 DEF IsAbove, n

(* The levels over s, as far as they are built.                             *)
Levelled(lv, s) ==
  /\ IsRow(lv) /\ Len(lv) \in Nat \ {0} /\ lv[1] = s
  /\ \A k \in 1 .. Len(lv) : IsRow(lv[k]) /\ Len(lv[k]) \in Nat \ {0}
  /\ \A k \in 1 .. Len(lv) - 1 : Len(lv[k]) > 1 /\ IsAbove(lv[k + 1], lv[k])
Whole(lv, s) == Levelled(lv, s) /\ Len(lv[Len(lv)]) = 1

IsLonger(l, r, e) ==
  /\ IsRow(l) /\ Len(l) = Len(r) + 1 /\ Len(r) \in Nat /\ l[Len(r) + 1] = e
  /\ \A i \in 1 .. Len(r) : l[i] = r[i]
LEMMA Appended ==
  ASSUME NEW r, IsRow(r), NEW e
  PROVE  IsLonger(Append(r, e), r, e)
<1>1. PICK S : r \in Seq(S) BY DEF IsRow
<1> DEFINE T == S \cup {e}
<1>2. r \in Seq(T) /\ e \in T
  <2>1. S \subseteq T /\ e \in T OBVIOUS
  <2> HIDE DEF T
  <2> QED BY <1>1, <2>1
<1> HIDE DEF T
<1> DEFINE l == Append(r, e)
<1>3. /\ l \in Seq(T) /\ Len(l) = Len(r) + 1 /\ Len(r) \in Nat /\ l[Len(r) + 1] = e
      /\ \A i \in 1 .. Len(r) : l[i] = r[i]
  BY <1>2, AppendProperties, LenProperties
<1> HIDE DEF l
<1>4. IsLonger(l, r, e) BY <1>3 DEF IsRow, IsLonger
<1> QED BY <1>4 DEF l

(* One turn of the loop that builds them.                                   *)
Grow(lv) == IF Len(Last(lv)) = 1 THEN lv ELSE Append(lv, LevelUp(Last(lv)))

LEMMA GrowKeeps ==
  ASSUME NEW lv, NEW s, Levelled(lv, s)
  PROVE  /\ Levelled(Grow(lv), s)
         /\ \/ Len(Grow(lv)[Len(Grow(lv))]) = 1
            \/ Len(Grow(lv)[Len(Grow(lv))]) < Len(lv[Len(lv)])
<1> DEFINE n == Len(lv)  r == lv[n]  u == LevelUp(r)  l == Append(lv, u)
<1>1. n \in Nat \ {0} /\ Last(lv) = r /\ IsRow(r) /\ Len(r) \in Nat \ {0}
  BY DEF Levelled, Last
<1>0. IsRow(lv) BY DEF Levelled
<1>2. CASE Len(r) = 1 BY <1>1, <1>2 DEF Grow
<1>3. CASE Len(r) # 1
  <2>1. Grow(lv) = l BY <1>1, <1>3 DEF Grow
  <2>2. /\ IsRow(l) /\ Len(l) = n + 1 /\ l[n + 1] = u
        /\ \A i \in 1 .. n : l[i] = lv[i]
    <3> HIDE DEF u, r
    <3>1. IsLonger(l, lv, u) BY <1>0, Appended, Zenon
    <3> QED BY <3>1 DEF IsLonger
  <2>3. IsAbove(u, r) BY <1>1, LevelUpIs
  <2>4. Len(u) = (Len(r) + 1) \div 2 /\ IsRow(u) BY <2>3 DEF IsAbove
  <2>5. Len(u) \in Nat \ {0} /\ Len(u) < Len(r)
    <3> HIDE DEF u, r
    <3>1. \A x \in Nat \ {0} : x # 1 => (x + 1) \div 2 \in Nat \ {0} /\ (x + 1) \div 2 < x
      OBVIOUS
    <3> QED BY <1>1, <1>3, <2>4, <3>1
  <2> HIDE DEF l, u
  <2>6. l[1] = s
    <3>1. 1 \in 1 .. n BY <1>1
    <3> QED BY <2>2, <3>1 DEF Levelled
  <2>7. \A k \in 1 .. n + 1 : IsRow(l[k]) /\ Len(l[k]) \in Nat \ {0}
    <3> TAKE k \in 1 .. n + 1
    <3>1. CASE k = n + 1 BY <2>2, <2>4, <2>5, <3>1
    <3>2. CASE k # n + 1
      <4>1. k \in 1 .. n BY <1>1, <3>2
      <4> QED BY <2>2, <4>1 DEF Levelled
    <3> QED BY <3>1, <3>2
  <2>8. ASSUME NEW k \in 1 .. n PROVE Len(l[k]) > 1 /\ IsAbove(l[k + 1], l[k])
    <3>1. CASE k = n
      <4>1. l[k] = r /\ l[k + 1] = u BY <2>2, <3>1
      <4> HIDE DEF r
      <4>2. Len(r) > 1
        <5>1. \A x \in Nat \ {0} : x # 1 => x > 1 OBVIOUS
        <5> QED BY <1>1, <1>3, <5>1
      <4>3. IsAbove(l[k + 1], l[k]) BY <2>3, <4>1, Zenon
      <4> QED BY <4>1, <4>2, <4>3
    <3>2. CASE k # n
      <4>1. k \in 1 .. n - 1 /\ k + 1 \in 1 .. n BY <1>1, <3>2
      <4> QED BY <2>2, <4>1 DEF Levelled
    <3> QED BY <3>1, <3>2
  <2>9. Levelled(l, s) BY <1>1, <2>2, <2>6, <2>7, <2>8 DEF Levelled
  <2> QED BY <2>1, <2>2, <2>5, <2>9
<1> QED BY <1>2, <1>3

(* There are levels as the loop builds them, ...                            *)
Built(f, n, s) == f = [k \in 0 .. n |-> IF k = 0 THEN <<s>> ELSE Grow(f[k - 1])]
LEMMA BuiltExists ==
  ASSUME NEW s, NEW n \in Nat
  PROVE  \E f : Built(f, n, s)
<1> DEFINE T == {k \in Nat : \E f : Built(f, k, s)}
<1>1. 0 \in T
  <2> DEFINE f == [k \in 0 .. 0 |-> <<s>>]
  <2>1. f = [k \in 0 .. 0 |-> IF k = 0 THEN <<s>> ELSE Grow(f[k - 1])] OBVIOUS
  <2> QED BY <2>1 DEF Built
<1>2. ASSUME NEW k \in Nat, k \in T PROVE k + 1 \in T
  <2>1. PICK f : Built(f, k, s) BY <1>2
  <2> DEFINE top == Grow(f[k])
             g == [i \in 0 .. k + 1 |-> IF i = k + 1 THEN top ELSE f[i]]
  <2> HIDE DEF top
  <2>2. ASSUME NEW i \in 0 .. k + 1
        PROVE  g[i] = IF i = 0 THEN <<s>> ELSE Grow(g[i - 1])
    <3>1. CASE i = 0 BY <2>1, <3>1 DEF Built
    <3>2. CASE i = k + 1
      <4>1. i - 1 = k /\ i # 0 /\ g[i] = top /\ g[k] = f[k] BY <3>2
      <4> QED BY <4>1 DEF top
    <3>3. CASE i # 0 /\ i # k + 1
      <4>1. i \in 0 .. k /\ i - 1 \in 0 .. k /\ g[i] = f[i] /\ g[i - 1] = f[i - 1]
        BY <3>3
      <4> QED BY <2>1, <3>3, <4>1 DEF Built
    <3> QED BY <3>1, <3>2, <3>3
  <2>3. g = [i \in 0 .. k + 1 |-> g[i]] OBVIOUS
  <2> HIDE DEF g
  <2>4. Built(g, k + 1, s) BY <2>2, <2>3 DEF Built
  <2> QED BY <2>4
<1> HIDE DEF T
<1>3. n \in T BY <1>1, <1>2, Induction
<1> QED BY <1>3 DEF T

(* ... and when it ends the last of them has one node.                      *)
LEMMA LevelsAre ==
  ASSUME NEW s, IsRow(s), s # << >>
  PROVE  Whole(Levels(s), s)
<1> DEFINE n == Len(s)
<1>1. n \in Nat \ {0}
  <2>1. PICK S : s \in Seq(S) BY DEF IsRow
  <2> QED BY <2>1, EmptySeq
<1>2. PICK f : Built(f, n, s) /\ Levels(s) = f[n]
  <2>1. \E f : Built(f, n, s) BY <1>1, BuiltExists
  <2> QED BY <2>1 DEF Levels, Built, Grow
<1>3. f[0] = <<s>> /\ \A k \in 1 .. n : f[k] = Grow(f[k - 1])
  BY <1>1, <1>2 DEF Built
<1> DEFINE high(k) == Len(f[k][Len(f[k])])
           T == {k \in Nat : k <= n => /\ Levelled(f[k], s)
                                       /\ high(k) = 1 \/ high(k) <= n - k}
<1>4. 0 \in T
  <2>1. IsRow(<<s>>) /\ Len(<<s>>) = 1 /\ <<s>>[1] = s
    <3>1. <<s>> \in Seq({s}) OBVIOUS
    <3> QED BY <3>1 DEF IsRow
  <2>2. Levelled(<<s>>, s) BY <1>1, <2>1 DEF Levelled
  <2>3. high(0) = n /\ n <= n - 0 BY <1>1, <1>3, <2>1
  <2> HIDE DEF high
  <2> QED BY <1>3, <2>2, <2>3
<1>5. ASSUME NEW k \in Nat, k \in T PROVE k + 1 \in T
  <2> SUFFICES ASSUME k + 1 <= n
               PROVE  /\ Levelled(f[k + 1], s)
                      /\ high(k + 1) = 1 \/ high(k + 1) <= n - (k + 1)
    OBVIOUS
  <2>1. Levelled(f[k], s) /\ (high(k) = 1 \/ high(k) <= n - k) BY <1>1, <1>5
  <2>2. f[k + 1] = Grow(f[k])
    <3>1. k + 1 \in 1 .. n /\ (k + 1) - 1 = k BY <1>1
    <3> QED BY <1>3, <3>1
  <2>3. Levelled(f[k + 1], s) /\ (high(k + 1) = 1 \/ high(k + 1) < high(k))
    BY <2>1, <2>2, GrowKeeps
  <2>4. high(k) \in Nat \ {0} /\ high(k + 1) \in Nat \ {0} BY <2>1, <2>3 DEF Levelled
  <2> HIDE DEF high
  <2> QED BY <1>1, <2>1, <2>3, <2>4
<1> HIDE DEF T
<1>6. n \in T BY <1>1, <1>4, <1>5, Induction
<1>7. Levelled(f[n], s) /\ (high(n) = 1 \/ high(n) <= n - n) BY <1>6 DEF T
<1>8. high(n) \in Nat \ {0} BY <1>7 DEF Levelled
<1> HIDE DEF high
<1>9. high(n) = 1 BY <1>1, <1>7, <1>8
<1> QED BY <1>2, <1>7, <1>9 DEF Whole, high

(* Rows of one length that have the same row above them are the same.       *)
LEMMA AboveTells ==
  ASSUME NEW u, NEW r, NEW q, IsRow(r), IsRow(q), Len(r) = Len(q),
         IsAbove(u, r), IsAbove(u, q)
  PROVE  r = q
<1>1. /\ Len(r) \in Nat /\ r = [i \in 1 .. Len(r) |-> r[i]]
      /\ q = [i \in 1 .. Len(r) |-> q[i]]
  BY RowIs
<1>2. ASSUME NEW i \in 1 .. Len(r) PROVE r[i] = q[i]
  <2> DEFINE j == (i + 1) \div 2
  <2>0. Len(u) = (Len(r) + 1) \div 2 BY DEF IsAbove
  <2>1. j \in 1 .. Len(u) /\ (i = 2 * j - 1 \/ i = 2 * j)
    <3>1. \A n \in Nat : \A x \in 1 .. n :
            /\ (x + 1) \div 2 \in 1 .. (n + 1) \div 2
            /\ x = 2 * ((x + 1) \div 2) - 1 \/ x = 2 * ((x + 1) \div 2)
      OBVIOUS
    <3> QED BY <1>1, <2>0, <3>1
  <2> HIDE DEF j
  <2>2. <<r[2 * j - 1], RightOf(r, j)>> = <<q[2 * j - 1], RightOf(q, j)>>
    BY <2>1 DEF IsAbove
  <2>3. r[2 * j - 1] = q[2 * j - 1] /\ RightOf(r, j) = RightOf(q, j) BY <2>2
  <2>4. CASE i = 2 * j - 1 BY <2>3, <2>4
  <2>5. CASE i = 2 * j
    <3>1. RightOf(r, j) = r[i] /\ RightOf(q, j) = q[i] BY <1>1, <2>5 DEF RightOf
    <3> QED BY <2>3, <3>1
  <2> QED BY <2>1, <2>4, <2>5
<1> QED BY <1>1, <1>2

(* Trees of one size with one root have the same leaves.                    *)
LEMMA RootTells ==
  ASSUME NEW s, NEW t, IsRow(s), IsRow(t), s # << >>, t # << >>, Len(s) = Len(t),
         Root(s) = Root(t)
  PROVE  s = t
<1> DEFINE f == Levels(s)  g == Levels(t)  n == Len(f)
<1>1. Whole(f, s) /\ Whole(g, t) BY LevelsAre
<1>2. Root(s) = f[n][1] /\ Root(t) = g[Len(g)][1] BY DEF Root, Last
<1> HIDE DEF f, g
<1>3. /\ n \in Nat \ {0} /\ f[1] = s /\ Len(g) \in Nat \ {0} /\ g[1] = t
      /\ \A k \in 1 .. n : IsRow(f[k]) /\ Len(f[k]) \in Nat \ {0}
      /\ \A k \in 1 .. Len(g) : IsRow(g[k]) /\ Len(g[k]) \in Nat \ {0}
      /\ \A k \in 1 .. n - 1 : Len(f[k]) > 1 /\ IsAbove(f[k + 1], f[k])
      /\ \A k \in 1 .. Len(g) - 1 : Len(g[k]) > 1 /\ IsAbove(g[k + 1], g[k])
      /\ Len(f[n]) = 1 /\ Len(g[Len(g)]) = 1
  BY <1>1 DEF Whole, Levelled
<1> DEFINE T == {k \in Nat : k < n => k < Len(g) /\ Len(f[k + 1]) = Len(g[k + 1])}
<1>4. \A k \in Nat : k \in T
  <2>1. 0 \in T BY <1>3
  <2>2. ASSUME NEW k \in Nat, k \in T PROVE k + 1 \in T
    <3> SUFFICES ASSUME k + 1 < n
                 PROVE  k + 1 < Len(g) /\ Len(f[(k + 1) + 1]) = Len(g[(k + 1) + 1])
      OBVIOUS
    <3>1. k < Len(g) /\ Len(f[k + 1]) = Len(g[k + 1]) BY <1>3, <2>2
    <3>2. k + 1 \in 1 .. n - 1 BY <1>3
    <3>3. Len(f[k + 1]) > 1 /\ Len(f[(k + 1) + 1]) = (Len(f[k + 1]) + 1) \div 2
      <4>1. Len(f[k + 1]) > 1 /\ IsAbove(f[(k + 1) + 1], f[k + 1]) BY <1>3, <3>2
      <4> QED BY <4>1 DEF IsAbove
    <3>4. k + 1 # Len(g)
      <4>1. ~(1 > 1) OBVIOUS
      <4> QED BY <1>3, <3>1, <3>3, <4>1
    <3>5. k + 1 \in 1 .. Len(g) - 1 BY <1>3, <3>1, <3>4
    <3>6. Len(g[(k + 1) + 1]) = (Len(g[k + 1]) + 1) \div 2 BY <1>3, <3>5 DEF IsAbove
    <3> QED BY <1>3, <3>1, <3>3, <3>5, <3>6
  <2> HIDE DEF T
  <2> QED BY <2>1, <2>2, Induction
<1>5. \A k \in 1 .. n : k <= Len(g) /\ Len(f[k]) = Len(g[k])
  <2> TAKE k \in 1 .. n
  <2>0. k - 1 \in Nat /\ k - 1 < n /\ (k - 1) + 1 = k BY <1>3
  <2>1. k - 1 < Len(g) /\ Len(f[(k - 1) + 1]) = Len(g[(k - 1) + 1]) BY <1>4, <2>0
  <2> HIDE DEF T
  <2> QED BY <1>3, <2>0, <2>1
<1>6. Len(g) = n
  <2> HIDE DEF T
  <2>1. n <= Len(g) /\ Len(g[n]) = 1 BY <1>3, <1>5
  <2>2. ~(n \in 1 .. Len(g) - 1)
    <3>1. ~(1 > 1) OBVIOUS
    <3> QED BY <1>3, <2>1, <3>1
  <2> QED BY <1>3, <2>1, <2>2
<1> DEFINE U == {d \in Nat : d < n => f[n - d] = g[n - d]}
<1>7. \A d \in Nat : d \in U
  <2>1. 0 \in U
    <3>1. /\ f[n] = [i \in 1 .. 1 |-> f[n][i]] /\ g[n] = [i \in 1 .. 1 |-> g[n][i]]
      <4>1. IsRow(f[n]) /\ IsRow(g[n]) /\ Len(f[n]) = 1 /\ Len(g[n]) = 1
        BY <1>3, <1>6
      <4> QED BY <4>1, RowIs
    <3>2. f[n][1] = g[n][1] BY <1>2, <1>6
    <3>3. f[n] = g[n] BY <3>1, <3>2
    <3> QED BY <1>3, <3>3
  <2>2. ASSUME NEW d \in Nat, d \in U PROVE d + 1 \in U
    <3> SUFFICES ASSUME d + 1 < n PROVE f[n - (d + 1)] = g[n - (d + 1)]
      OBVIOUS
    <3> DEFINE k == n - (d + 1)
    <3>1. k \in 1 .. n - 1 /\ k \in 1 .. n /\ k + 1 = n - d BY <1>3
    <3>2. f[k + 1] = g[k + 1] BY <1>3, <2>2, <3>1
    <3> HIDE DEF k
    <3>3. IsAbove(f[k + 1], f[k]) /\ IsAbove(f[k + 1], g[k]) BY <1>3, <1>6, <3>1, <3>2
    <3>4. IsRow(f[k]) /\ IsRow(g[k]) /\ Len(f[k]) = Len(g[k]) BY <1>3, <1>5, <1>6, <3>1
    <3>5. f[k] = g[k] BY <3>3, <3>4, AboveTells
    <3> QED BY <3>5 DEF k
  <2> HIDE DEF U
  <2> QED BY <2>1, <2>2, Induction
<1>8. n - 1 \in U /\ n - 1 < n /\ n - (n - 1) = 1 BY <1>3, <1>7
<1> QED BY <1>3, <1>8


-----------------------------------------------------------------------------
(* Audit paths.                                                            *)

(* The place of the node above the leaf at place i, level by level.         *)
Halved(a, n, i) == a = [k \in 1 .. n |-> IF k = 1 THEN i ELSE a[k - 1] \div 2]
LEMMA HalvedExists ==
  ASSUME NEW i, NEW n \in Nat
  PROVE  \E a : Halved(a, n, i)
<1> DEFINE T == {k \in Nat : \E a : Halved(a, k, i)}
<1>1. 0 \in T
  <2> DEFINE a == [k \in 1 .. 0 |-> i]
  <2>1. a = [k \in 1 .. 0 |-> IF k = 1 THEN i ELSE a[k - 1] \div 2] OBVIOUS
  <2> QED BY <2>1 DEF Halved
<1>2. ASSUME NEW k \in Nat, k \in T PROVE k + 1 \in T
  <2>1. PICK a : Halved(a, k, i) BY <1>2
  <2> DEFINE last == IF k = 0 THEN i ELSE a[k] \div 2
             g == [j \in 1 .. k + 1 |-> IF j = k + 1 THEN last ELSE a[j]]
  <2> HIDE DEF last
  <2>2. ASSUME NEW j \in 1 .. k + 1
        PROVE  g[j] = IF j = 1 THEN i ELSE g[j - 1] \div 2
    <3>1. CASE j = k + 1
      <4>1. g[j] = last BY <3>1
      <4>2. k # 0 => j - 1 = k /\ j # 1 /\ g[j - 1] = a[k] BY <3>1
      <4> QED BY <3>1, <4>1, <4>2 DEF last
    <3>2. CASE j # k + 1
      <4>1. j \in 1 .. k /\ g[j] = a[j] BY <3>2
      <4>2. j # 1 => j - 1 \in 1 .. k /\ g[j - 1] = a[j - 1] BY <4>1
      <4> QED BY <2>1, <4>1, <4>2 DEF Halved
    <3> QED BY <3>1, <3>2
  <2>3. g = [j \in 1 .. k + 1 |-> g[j]] OBVIOUS
  <2> HIDE DEF g
  <2>4. Halved(g, k + 1, i) BY <2>2, <2>3 DEF Halved
  <2> QED BY <2>4
<1> HIDE DEF T
<1>3. n \in T BY <1>1, <1>2, Induction
<1> QED BY <1>3 DEF T

SiblingAt(lv, a, k) ==
  IF a[k] % 2 = 1 THEN a[k] - 1 ELSE IF a[k] + 1 < Len(lv[k]) THEN a[k] + 1 ELSE a[k]
PathOf(lv, a) ==
  [k \in 1 .. Len(lv) - 1 |->
     [sibling |-> lv[k][SiblingAt(lv, a, k) + 1], right |-> a[k] % 2 = 0]]

(* The digests on the way up are the nodes above the leaf.                  *)
LEMMA PathLeads ==
  ASSUME NEW s, IsRow(s), NEW i \in 0 .. Len(s) - 1
  PROVE  PathRoot(s[i + 1], AuditPath(s, i)) = Root(s)
<1> DEFINE lv == Levels(s)  n == Len(lv)
<1>1. s # << >>
  <2>1. Len(s) \in Nat /\ Len(s) # 0 BY RowIs
  <2> QED BY <2>1
<1>2. Whole(lv, s) BY <1>1, LevelsAre
<1>3. Root(s) = lv[n][1] BY DEF Root, Last
<1>4. n \in Nat \ {0} BY <1>2 DEF Whole, Levelled
<1>5. PICK a : Halved(a, n, i) /\ AuditPath(s, i) = PathOf(lv, a)
  <2>1. \E a : Halved(a, n, i)
    <3> HIDE DEF lv
    <3> QED BY <1>4, HalvedExists
  <2> QED BY <2>1 DEF AuditPath, Halved, PathOf, SiblingAt
<1> HIDE DEF lv
<1>6. /\ lv[1] = s
      /\ \A k \in 1 .. n : IsRow(lv[k]) /\ Len(lv[k]) \in Nat \ {0}
      /\ \A k \in 1 .. n - 1 : Len(lv[k]) > 1 /\ IsAbove(lv[k + 1], lv[k])
      /\ Len(lv[n]) = 1
  BY <1>2 DEF Whole, Levelled
<1>7. a[1] = i /\ \A k \in 1 .. n - 1 : a[k + 1] = a[k] \div 2
  <2>1. a[1] = i BY <1>4, <1>5 DEF Halved
  <2>2. ASSUME NEW k \in 1 .. n - 1 PROVE a[k + 1] = a[k] \div 2
    <3>1. k + 1 \in 1 .. n /\ k + 1 # 1 /\ (k + 1) - 1 = k BY <1>4
    <3> QED BY <1>5, <3>1 DEF Halved
  <2> QED BY <2>1, <2>2
<1>8. \A k \in 1 .. n : a[k] \in 0 .. Len(lv[k]) - 1
  <2> DEFINE T == {k \in Nat : k < n => a[k + 1] \in 0 .. Len(lv[k + 1]) - 1}
  <2>1. 0 \in T BY <1>6, <1>7
  <2>2. ASSUME NEW k \in Nat, k \in T PROVE k + 1 \in T
    <3> SUFFICES ASSUME k + 1 < n
                 PROVE  a[(k + 1) + 1] \in 0 .. Len(lv[(k + 1) + 1]) - 1
      OBVIOUS
    <3>1. a[k + 1] \in 0 .. Len(lv[k + 1]) - 1 BY <1>4, <2>2
    <3>2. k + 1 \in 1 .. n - 1 /\ k + 1 \in 1 .. n BY <1>4
    <3>3. Len(lv[(k + 1) + 1]) = (Len(lv[k + 1]) + 1) \div 2
      <4>1. IsAbove(lv[(k + 1) + 1], lv[k + 1]) BY <1>6, <3>2
      <4> QED BY <4>1 DEF IsAbove
    <3>4. a[(k + 1) + 1] = a[k + 1] \div 2 BY <1>7, <3>2
    <3>5. Len(lv[k + 1]) \in Nat BY <1>6, <3>2
    <3>6. \A m \in Nat : \A x \in 0 .. m - 1 : x \div 2 \in 0 .. ((m + 1) \div 2) - 1
      OBVIOUS
    <3> QED BY <3>1, <3>3, <3>4, <3>5, <3>6
  <2> HIDE DEF T
  <2>3. \A k \in Nat : k \in T BY <2>1, <2>2, Induction
  <2>4. ASSUME NEW k \in 1 .. n PROVE a[k] \in 0 .. Len(lv[k]) - 1
    <3>1. k - 1 \in T /\ k - 1 < n /\ (k - 1) + 1 = k BY <1>4, <2>3
    <3> QED BY <3>1 DEF T
  <2> QED BY <2>4
<1> DEFINE path == PathOf(lv, a)
           leaf == s[i + 1]
           node == [k \in 0 .. n - 1 |-> lv[k + 1][a[k + 1] + 1]]
<1>9. /\ Len(path) = n - 1
      /\ \A k \in 1 .. n - 1 :
           /\ path[k].sibling = lv[k][SiblingAt(lv, a, k) + 1]
           /\ path[k].right <=> a[k] % 2 = 0
  <2>1. path = [k \in 1 .. n - 1 |-> path[k]] BY DEF PathOf
  <2>2. \A k \in 1 .. n - 1 :
           /\ path[k].sibling = lv[k][SiblingAt(lv, a, k) + 1]
           /\ path[k].right <=> a[k] % 2 = 0
    BY DEF PathOf
  <2> HIDE DEF path
  <2>3. Len(path) = n - 1 BY <1>4, <2>1, MadeRow
  <2> QED BY <2>2, <2>3
<1> HIDE DEF path
<1>10. ASSUME NEW k \in 1 .. n - 1
       PROVE  node[k] = IF path[k].right THEN HPair(node[k - 1], path[k].sibling)
                        ELSE HPair(path[k].sibling, node[k - 1])
  <2> DEFINE x == a[k]  r == lv[k]  j == x \div 2 + 1
  <2>1. k \in 1 .. n /\ k \in 0 .. n - 1 /\ k - 1 \in 0 .. n - 1 /\ (k - 1) + 1 = k
    BY <1>4
  <2>2. x \in 0 .. Len(r) - 1 /\ Len(r) \in Nat BY <1>6, <1>8, <2>1
  <2>3. node[k] = lv[k + 1][j] BY <1>7, <2>1
  <2>4. node[k - 1] = r[x + 1] BY <2>1
  <2>5. IsAbove(lv[k + 1], r) BY <1>6
  <2>6. path[k].sibling = r[SiblingAt(lv, a, k) + 1] /\ (path[k].right <=> x % 2 = 0)
    BY <1>9
  <2>7. SiblingAt(lv, a, k) =
          IF x % 2 = 1 THEN x - 1 ELSE IF x + 1 < Len(r) THEN x + 1 ELSE x
    BY DEF SiblingAt
  <2> HIDE DEF x, r, node
  <2>8. lv[k + 1][j] = <<r[2 * j - 1], RightOf(r, j)>>
    <3>1. Len(lv[k + 1]) = (Len(r) + 1) \div 2
          /\ \A m \in 1 .. Len(lv[k + 1]) : lv[k + 1][m] = <<r[2 * m - 1], RightOf(r, m)>>
      BY <2>5 DEF IsAbove
    <3>2. j \in 1 .. (Len(r) + 1) \div 2 BY <2>2
    <3> QED BY <3>1, <3>2
  <2>9. CASE x % 2 = 0
    <3>1. 2 * j - 1 = x + 1 /\ 2 * j = x + 2 BY <2>2, <2>9
    <3> HIDE DEF j
    <3>2. x % 2 # 1 BY <2>9
    <3>3. CASE x + 1 < Len(r)
      <4>1. SiblingAt(lv, a, k) + 1 = 2 * j BY <2>2, <2>7, <3>1, <3>2, <3>3
      <4>2. 2 * j <= Len(r) BY <2>2, <3>1, <3>3
      <4>3. RightOf(r, j) = path[k].sibling BY <2>6, <4>1, <4>2 DEF RightOf
      <4> QED BY <2>3, <2>4, <2>6, <2>8, <2>9, <3>1, <4>3 DEF HPair
    <3>4. CASE ~(x + 1 < Len(r))
      <4>1. SiblingAt(lv, a, k) + 1 = 2 * j - 1 BY <2>2, <2>7, <3>1, <3>2, <3>4
      <4>2. ~(2 * j <= Len(r)) BY <2>2, <3>1, <3>4
      <4>3. RightOf(r, j) = path[k].sibling BY <2>6, <4>1, <4>2 DEF RightOf
      <4> QED BY <2>3, <2>4, <2>6, <2>8, <2>9, <3>1, <4>3 DEF HPair
    <3> QED BY <3>3, <3>4
  <2>10. CASE x % 2 # 0
    <3>1. x % 2 = 1 /\ 2 * j - 1 = x /\ 2 * j = x + 1 /\ 2 * j <= Len(r) BY <2>2, <2>10
    <3> HIDE DEF j
    <3>2. SiblingAt(lv, a, k) + 1 = x BY <2>2, <2>7, <3>1
    <3>3. RightOf(r, j) = r[x + 1] BY <3>1 DEF RightOf
    <3> QED BY <2>3, <2>4, <2>6, <2>8, <2>10, <3>1, <3>2, <3>3 DEF HPair
  <2> QED BY <2>9, <2>10
<1>11. node[0] = leaf /\ node[n - 1] = Root(s)
  <2>1. node[0] = lv[1][a[1] + 1] BY <1>4
  <2>2. node[n - 1] = lv[n][a[n] + 1] BY <1>4
  <2>3. n \in 1 .. n /\ a[n] = 0
    <3>1. n \in 1 .. n BY <1>4
    <3>2. a[n] \in 0 .. Len(lv[n]) - 1 BY <1>8, <3>1
    <3>3. a[n] \in 0 .. 1 - 1 BY <1>6, <3>2
    <3> QED BY <3>1, <3>3
  <2> QED BY <1>3, <1>6, <1>7, <2>1, <2>2, <2>3
<1> DEFINE Climbs(f) ==
      f = [k \in 0 .. Len(path) |->
             IF k = 0 THEN leaf
             ELSE IF path[k].right THEN HPair(f[k - 1], path[k].sibling)
             ELSE HPair(path[k].sibling, f[k - 1])]
<1>12. Climbs(node)
  <2>1. node = [k \in 0 .. n - 1 |-> node[k]] OBVIOUS
  <2> HIDE DEF node, leaf
  <2>2. \A k \in 0 .. n - 1 :
          node[k] = IF k = 0 THEN leaf
                    ELSE IF path[k].right THEN HPair(node[k - 1], path[k].sibling)
                    ELSE HPair(path[k].sibling, node[k - 1])
    BY <1>4, <1>10, <1>11
  <2> QED BY <1>9, <2>1, <2>2
<1> HIDE DEF node
<1>13. PICK up : Climbs(up) /\ PathRoot(leaf, path) = up[Len(path)]
  <2>1. \E f : Climbs(f) BY <1>12
  <2> HIDE DEF leaf
  <2> QED BY <2>1 DEF PathRoot
<1>14. \A k \in Nat : k <= n - 1 => up[k] = node[k]
  <2> DEFINE T == {k \in Nat : k <= n - 1 => up[k] = node[k]}
  <2> HIDE DEF leaf
  <2>1. 0 \in T BY <1>4, <1>9, <1>11, <1>13
  <2>2. ASSUME NEW k \in Nat, k \in T PROVE k + 1 \in T
    <3> SUFFICES ASSUME k + 1 <= n - 1 PROVE up[k + 1] = node[k + 1]
      OBVIOUS
    <3>1. k + 1 \in 1 .. n - 1 /\ (k + 1) - 1 = k /\ up[k] = node[k] BY <1>4, <2>2
    <3>2. up[k + 1] = IF path[k + 1].right THEN HPair(up[k], path[k + 1].sibling)
                      ELSE HPair(path[k + 1].sibling, up[k])
      BY <1>9, <1>13, <3>1
    <3> HIDE DEF Climbs
    <3> QED BY <1>10, <3>1, <3>2
  <2> HIDE DEF T
  <2>3. \A k \in Nat : k \in T BY <2>1, <2>2, Induction
  <2> QED BY <2>3 DEF T
<1>15. PathRoot(leaf, path) = Root(s)
  <2> HIDE DEF leaf
  <2>1. n - 1 \in Nat /\ n - 1 <= n - 1 BY <1>4
  <2>2. up[n - 1] = node[n - 1] BY <1>14, <2>1
  <2> QED BY <1>9, <1>11, <1>13, <2>2
<1>16. AuditPath(s, i) = path BY <1>5 DEF path
<1> QED BY <1>15, <1>16


-----------------------------------------------------------------------------
(* What the index points at is a leaf of the project it names.              *)
Names(k, m) ==
  /\ KeyOf[m] = k /\ index[k] \in 0 .. Len(leaves) - 1
  /\ leaves[index[k] + 1] = Leaf(m)
Indexed == \A k \in DOMAIN index : \E m \in DOMAIN KeyOf : Names(k, m)

LEMMA AddIndexes ==
  ASSUME IInv, Indexed, NEW p \in Pages, NEW m \in Metas, Add(p, m)
  PROVE  Indexed'
<1> DEFINE n == Len(leaves)
<1>1. leaves' = Append(leaves, Leaf(m)) BY DEF Add, Grown
<1>2. /\ n \in Nat /\ Len(leaves') = n + 1 /\ leaves'[n + 1] = Leaf(m)
      /\ \A i \in 1 .. n : leaves'[i] = leaves[i]
  <2>1. leaves \in Seq(LeafSet) /\ Leaf(m) \in LeafSet BY DEF IInv, TypeOK, LeafSet
  <2> QED BY <1>1, <2>1, AppendProperties, LenProperties
<1> HIDE DEF n
<1>3. \/ index' = index
      \/ /\ m \in DOMAIN KeyOf
         /\ index' = [k \in DOMAIN index \cup {KeyOf[m]} |-> IF k = KeyOf[m] THEN n ELSE index[k]]
  BY DEF Add, Attest, IndexSet, n
<1>4. ASSUME NEW k \in DOMAIN index PROVE \E o \in DOMAIN KeyOf :
        /\ KeyOf[o] = k /\ index[k] \in 0 .. n /\ leaves'[index[k] + 1] = Leaf(o)
  <2>1. PICK o \in DOMAIN KeyOf : Names(k, o) BY DEF Indexed
  <2>2. index[k] \in 0 .. n - 1 /\ index[k] + 1 \in 1 .. n
    BY <1>2, <2>1 DEF Names, n
  <2>3. leaves'[index[k] + 1] = Leaf(o) BY <1>2, <2>1, <2>2 DEF Names
  <2>4. index[k] \in 0 .. n BY <1>2, <2>2
  <2> QED BY <2>1, <2>3, <2>4 DEF Names
<1>5. ASSUME NEW k \in DOMAIN index' PROVE \E o \in DOMAIN KeyOf : Names(k, o)'
  <2>1. CASE k \in DOMAIN index /\ index'[k] = index[k]
    BY <1>2, <1>4, <2>1 DEF Names
  <2>2. CASE m \in DOMAIN KeyOf /\ k = KeyOf[m] /\ index'[k] = n
    BY <1>2, <2>2 DEF Names
  <2>3. \/ k \in DOMAIN index /\ index'[k] = index[k]
        \/ m \in DOMAIN KeyOf /\ k = KeyOf[m] /\ index'[k] = n
    BY <1>3
  <2> QED BY <2>1, <2>2, <2>3
<1> QED BY <1>5 DEF Indexed

LEMMA StepIndexes == IInv /\ Indexed /\ [Next]_vars => Indexed'
<1> SUFFICES ASSUME IInv, Indexed, [Next]_vars PROVE Indexed'
  OBVIOUS
<1>1. CASE \E p \in Pages, m \in Metas : Add(p, m)
  BY <1>1, AddIndexes
<1>2. CASE UNCHANGED <<leaves, index>>
  BY <1>2 DEF Indexed, Names
<1> QED
  BY <1>1, <1>2 DEF Next, Begin, Finish, Free, vars

LEMMA Invariance == Spec => [](IInv /\ Indexed)
<1>1. Init => Indexed
  <2> SUFFICES ASSUME Init PROVE Indexed
    OBVIOUS
  <2>1. DOMAIN index = {} BY DEF Init
  <2> QED BY <2>1 DEF Indexed
<1> QED BY InitIInv, NextIInv, <1>1, StepIndexes, PTL DEF Spec

LEMMA LeavesAreRow ==
  ASSUME IInv
  PROVE  /\ IsRow(leaves) /\ Len(leaves) \in Nat /\ DOMAIN leaves = 1 .. Len(leaves)
         /\ (leaves # << >> => Len(leaves) # 0)
<1>1. leaves \in Seq(LeafSet) BY DEF IInv, TypeOK
<1> QED BY <1>1, EmptySeq DEF IsRow

(* A tree head, size and root, stands for one sequence of leaves, however    *)
(* large the tree and whatever is published: two trees of the same size that *)
(* differ have different roots, although a last node is paired with itself   *)
(* (mcpkg_merkle_b2b32.c, build_levels).                                     *)
THEOREM HeadsCommit == Spec => []HeadCommits
<1>1. IInv => HeadCommits
  <2> SUFFICES ASSUME IInv, leaves # << >>,
                      NEW other \in [DOMAIN leaves -> {Leaf(m) : m \in Metas}],
                      Root(other) = Root(leaves)
               PROVE  other = leaves
    BY DEF HeadCommits
  <2>1. IsRow(other) /\ Len(other) = Len(leaves)
    <3>1. other = [i \in 1 .. Len(leaves) |-> other[i]] BY LeavesAreRow
    <3> QED BY <3>1, LeavesAreRow, MadeRow
  <2>2. other # << >>
    <3>1. Len(<< >>) = 0 OBVIOUS
    <3> QED BY <2>1, <3>1, LeavesAreRow
  <2> QED BY <2>1, <2>2, LeavesAreRow, RootTells
<1> QED BY <1>1, Invariance, PTL

(* From every leaf of a tree of any size the audit path leads to the root,   *)
(* and what the index finds for a project is a leaf of that project with     *)
(* such a path, whichever adds failed (mcpkg_merkle_b2b32_audit_path,        *)
(* mcpkg_leaf_index_cache_set).                                              *)
THEOREM PathsVerify == Spec => []PathsLeadToRoot
<1>1. ASSUME IInv, NEW i \in 0 .. Len(leaves) - 1
      PROVE  Proven(i, leaves[i + 1])
  BY <1>1, LeavesAreRow, PathLeads DEF Proven
<1>2. IInv => (OnlyLeaves => \A i \in DOMAIN leaves : Proven(i - 1, leaves[i]))
  <2> SUFFICES ASSUME IInv, NEW i \in DOMAIN leaves PROVE Proven(i - 1, leaves[i])
    OBVIOUS
  <2>1. i - 1 \in 0 .. Len(leaves) - 1 /\ (i - 1) + 1 = i BY LeavesAreRow
  <2>2. Proven(i - 1, leaves[(i - 1) + 1]) BY <1>1, <2>1
  <2> QED BY <2>1, <2>2
<1>3. IInv /\ Indexed =>
        \A k \in DOMAIN index : \E m \in DOMAIN KeyOf :
          KeyOf[m] = k /\ Proven(index[k], Leaf(m))
  <2> SUFFICES ASSUME IInv, Indexed, NEW k \in DOMAIN index
               PROVE  \E m \in DOMAIN KeyOf : KeyOf[m] = k /\ Proven(index[k], Leaf(m))
    OBVIOUS
  <2>1. PICK m \in DOMAIN KeyOf : Names(k, m) BY DEF Indexed
  <2>2. Proven(index[k], leaves[index[k] + 1]) BY <1>1, <2>1 DEF Names
  <2> QED BY <2>1, <2>2 DEF Names
<1>4. IInv /\ Indexed => PathsLeadToRoot
  BY <1>2, <1>3 DEF PathsLeadToRoot
<1> QED BY <1>4, Invariance, PTL

-----------------------------------------------------------------------------
(* Powers of two.                                                          *)

Doubling(p, k) == p = [i \in 0 .. k |-> IF i = 0 THEN 1 ELSE 2 * p[i - 1]]

LEMMA DoublingExists ==
  ASSUME NEW n \in Nat
  PROVE  \E p : Doubling(p, n)
<1> DEFINE T == {k \in Nat : \E p : Doubling(p, k)}
<1>1. 0 \in T
  <2> DEFINE p == [i \in 0 .. 0 |-> 1]
  <2>1. p = [i \in 0 .. 0 |-> IF i = 0 THEN 1 ELSE 2 * p[i - 1]] OBVIOUS
  <2> QED BY <2>1 DEF Doubling
<1>2. ASSUME NEW k \in Nat, k \in T PROVE k + 1 \in T
  <2>1. PICK p : Doubling(p, k) BY <1>2
  <2> DEFINE g == [i \in 0 .. k + 1 |-> IF i = k + 1 THEN 2 * p[k] ELSE p[i]]
  <2>2. ASSUME NEW i \in 0 .. k + 1
        PROVE  g[i] = IF i = 0 THEN 1 ELSE 2 * g[i - 1]
    <3>1. CASE i = 0 BY <2>1, <3>1 DEF Doubling
    <3>2. CASE i = k + 1
      <4>1. i - 1 = k /\ i # 0 /\ g[i] = 2 * p[k] /\ g[k] = p[k] BY <3>2
      <4> QED BY <4>1
    <3>3. CASE i # 0 /\ i # k + 1
      <4>1. i \in 0 .. k /\ i - 1 \in 0 .. k /\ g[i] = p[i] /\ g[i - 1] = p[i - 1]
        BY <3>3
      <4> QED BY <2>1, <3>3, <4>1 DEF Doubling
    <3> QED BY <3>1, <3>2, <3>3
  <2>3. g = [i \in 0 .. k + 1 |-> g[i]] OBVIOUS
  <2> HIDE DEF g
  <2>4. Doubling(g, k + 1) BY <2>2, <2>3 DEF Doubling
  <2> QED BY <2>4
<1> HIDE DEF T
<1>3. n \in T BY <1>1, <1>2, Induction
<1> QED BY <1>3 DEF T

LEMMA PowerIs ==
  ASSUME NEW k \in Nat
  PROVE  \E p : Doubling(p, k) /\ Pow2(k) = p[k]
<1>1. \E p : Doubling(p, k) BY DoublingExists
<1> QED BY <1>1 DEF Pow2, Doubling

LEMMA DoublingsAgree ==
  ASSUME NEW p, NEW q, NEW k \in Nat, NEW n \in Nat, k <= n, Doubling(p, k), Doubling(q, n)
  PROVE  p[k] = q[k]
<1> DEFINE T == {i \in Nat : i <= k => p[i] = q[i]}
<1>1. /\ p[0] = 1 /\ \A i \in 1 .. k : p[i] = 2 * p[i - 1]
      /\ q[0] = 1 /\ \A i \in 1 .. k : q[i] = 2 * q[i - 1]
  <2>1. p[0] = 1 /\ \A i \in 1 .. k : p[i] = 2 * p[i - 1] BY DEF Doubling
  <2>2. q[0] = 1 /\ \A i \in 1 .. n : q[i] = 2 * q[i - 1] BY DEF Doubling
  <2> QED BY <2>1, <2>2
<1>2. 0 \in T BY <1>1
<1>3. ASSUME NEW i \in Nat, i \in T PROVE i + 1 \in T
  <2> SUFFICES ASSUME i + 1 <= k PROVE p[i + 1] = q[i + 1] OBVIOUS
  <2>1. p[i] = q[i] BY <1>3
  <2>2. i + 1 \in 1 .. k /\ (i + 1) - 1 = i OBVIOUS
  <2> QED BY <1>1, <2>1, <2>2
<1> HIDE DEF T
<1>4. k \in T BY <1>2, <1>3, Induction
<1> QED BY <1>4 DEF T

LEMMA Powers ==
  /\ Pow2(0) = 1
  /\ \A k \in Nat : Pow2(k) \in Nat \ {0} /\ Pow2(k + 1) = 2 * Pow2(k) /\ k < Pow2(k)
<1>1. Pow2(0) = 1
  <2>1. PICK p : Doubling(p, 0) /\ Pow2(0) = p[0] BY PowerIs
  <2> QED BY <2>1 DEF Doubling
<1>2. ASSUME NEW k \in Nat PROVE Pow2(k + 1) = 2 * Pow2(k)
  <2>1. PICK p : Doubling(p, k) /\ Pow2(k) = p[k] BY PowerIs
  <2>2. PICK q : Doubling(q, k + 1) /\ Pow2(k + 1) = q[k + 1] BY PowerIs
  <2>3. p[k] = q[k] BY <2>1, <2>2, DoublingsAgree
  <2>4. q[k + 1] = 2 * q[k]
    <3>1. k + 1 \in 0 .. k + 1 /\ k + 1 # 0 /\ (k + 1) - 1 = k OBVIOUS
    <3> QED BY <2>2, <3>1 DEF Doubling
  <2> QED BY <2>1, <2>2, <2>3, <2>4
<1> DEFINE T == {k \in Nat : Pow2(k) \in Nat \ {0} /\ k < Pow2(k)}
<1>3. 0 \in T BY <1>1
<1>4. ASSUME NEW k \in Nat, k \in T PROVE k + 1 \in T BY <1>2, <1>4
<1> HIDE DEF T
<1>5. \A k \in Nat : k \in T BY <1>3, <1>4, Induction
<1> QED BY <1>1, <1>2, <1>5 DEF T

(* A larger power is a multiple of a smaller one.                           *)
LEMMA Multiple ==
  ASSUME NEW k \in Nat, NEW i \in Nat, k <= i
  PROVE  \E a \in Nat \ {0} : Pow2(i) = a * Pow2(k)
<1> DEFINE T == {d \in Nat : \E a \in Nat \ {0} : Pow2(k + d) = a * Pow2(k)}
<1>1. 0 \in T
  <2>1. Pow2(k + 0) = 1 * Pow2(k) BY Powers
  <2> QED BY <2>1
<1>2. ASSUME NEW d \in Nat, d \in T PROVE d + 1 \in T
  <2>1. PICK a \in Nat \ {0} : Pow2(k + d) = a * Pow2(k) BY <1>2
  <2>2. Pow2(k + (d + 1)) = 2 * Pow2(k + d)
    <3>1. k + (d + 1) = (k + d) + 1 /\ k + d \in Nat OBVIOUS
    <3> QED BY <3>1, Powers
  <2>3. Pow2(k + (d + 1)) = (2 * a) * Pow2(k) BY <2>1, <2>2, Powers
  <2> QED BY <2>3
<1> HIDE DEF T
<1>3. i - k \in T BY <1>1, <1>2, Induction
<1>4. k + (i - k) = i OBVIOUS
<1> QED BY <1>3, <1>4 DEF T

LEMMA Increasing ==
  ASSUME NEW k \in Nat, NEW i \in Nat, k < i
  PROVE  Pow2(k) < Pow2(i) /\ 2 * Pow2(k) <= Pow2(i)
<1>1. PICK a \in Nat \ {0} : Pow2(i) = a * Pow2(k + 1)
  BY Multiple
<1>2. Pow2(k + 1) = 2 * Pow2(k) /\ Pow2(k) \in Nat \ {0} /\ Pow2(k + 1) \in Nat BY Powers
<1>3. a * Pow2(k + 1) >= Pow2(k + 1)
  <2>1. \A x \in Nat : a * x >= x
    <3>1. a - 1 \in Nat OBVIOUS
    <3>2. \A x \in Nat : (a - 1) * x \in Nat /\ a * x = (a - 1) * x + x BY <3>1
    <3> QED BY <3>2
  <2> QED BY <1>2, <2>1
<1> QED BY <1>1, <1>2, <1>3

LEMMA OnePower ==
  ASSUME NEW k \in Nat, NEW i \in Nat, Pow2(k) = Pow2(i)
  PROVE  k = i
<1>1. ~(k < i) /\ ~(i < k)
  <2>1. Pow2(k) \in Nat BY Powers
  <2> QED BY <2>1, Increasing
<1> QED BY <1>1

(* Multiples of one number lie apart.                                       *)
LEMMA Apart ==
  ASSUME NEW w \in Nat \ {0}, NEW a \in Nat, NEW b \in Nat, a * w < b * w + w
  PROVE  a <= b /\ a * w <= b * w
<1>1. ASSUME a > b PROVE FALSE
  <2>1. a - (b + 1) \in Nat BY <1>1
  <2>2. (a - (b + 1)) * w \in Nat BY <2>1
  <2>3. a * w = (a - (b + 1)) * w + (b * w + w) OBVIOUS
  <2>4. a * w \in Nat /\ b * w + w \in Nat OBVIOUS
  <2> QED BY <2>2, <2>3, <2>4
<1>2. a <= b BY <1>1
<1>3. a * w <= b * w
  <2>1. b - a \in Nat BY <1>2
  <2>2. (b - a) * w \in Nat BY <2>1
  <2>3. b * w = (b - a) * w + a * w OBVIOUS
  <2>4. a * w \in Nat /\ b * w \in Nat OBVIOUS
  <2> QED BY <2>2, <2>3, <2>4
<1> QED BY <1>2, <1>3

LEMMA MaxIs ==
  ASSUME NEW T, NEW n \in Nat, T \subseteq 0 .. n, T # {}
  PROVE  Max(T) \in T /\ \A y \in T : y <= Max(T)
<1> DEFINE U == {n - x : x \in T}
<1>1. U \subseteq Nat /\ U # {}
  <2>1. \A x \in T : n - x \in Nat OBVIOUS
  <2> QED BY <2>1
<1>2. PICK u \in U : \A y \in U : ~(y < u)
  <2> HIDE DEF U
  <2> QED BY <1>1, Least
<1>3. n - u \in T /\ \A y \in T : n - u >= y BY <1>2
<1>4. \E x \in T : \A y \in T : x >= y BY <1>3
<1>5. Max(T) \in T /\ \A y \in T : Max(T) >= y BY <1>4 DEF Max
<1> QED BY <1>5

LEMMA MinIs ==
  ASSUME NEW T, T \subseteq Nat, T # {}
  PROVE  Min(T) \in T /\ \A y \in T : Min(T) <= y
<1>1. PICK x \in T : \A y \in T : ~(y < x) BY Least
<1>2. \E z \in T : \A y \in T : z =< y BY <1>1
<1> QED BY <1>2 DEF Min

LEMMA LogIs ==
  ASSUME NEW x \in Nat \ {0}
  PROVE  /\ ILog2(x) \in Nat /\ Pow2(ILog2(x)) <= x
         /\ \A k \in Nat : Pow2(k) <= x => k <= ILog2(x)
<1> DEFINE T == {k \in 0 .. x : Pow2(k) <= x}
<1>1. 0 \in T BY Powers
<1>2. Max(T) \in T /\ \A y \in T : y <= Max(T)
  <2>1. T \subseteq 0 .. x OBVIOUS
  <2> HIDE DEF T
  <2> QED BY <1>1, <2>1, MaxIs
<1>3. ILog2(x) = Max(T) BY DEF ILog2
<1>4. \A k \in Nat : Pow2(k) <= x => k \in 0 .. x
  <2> TAKE k \in Nat
  <2>1. k < Pow2(k) /\ Pow2(k) \in Nat BY Powers
  <2> QED BY <2>1
<1> QED BY <1>2, <1>3, <1>4

LEMMA LogOfPower ==
  ASSUME NEW k \in Nat
  PROVE  ILog2(Pow2(k)) = k
<1>1. Pow2(k) \in Nat \ {0} BY Powers
<1> DEFINE l == ILog2(Pow2(k))
<1>2. l \in Nat /\ Pow2(l) <= Pow2(k) /\ k <= l
  BY <1>1, LogIs
<1>3. ~(k < l) /\ Pow2(l) \in Nat
  BY <1>1, <1>2, Increasing, Powers
<1> QED BY <1>2, <1>3

-----------------------------------------------------------------------------
(* Covers.                                                                 *)

(* A block of [m, n).                                                       *)
IsBlock(b, m, n) ==
  \E k \in Nat : \E j \in Nat :
    b = Block(k, j) /\ m <= j * Pow2(k) /\ (j + 1) * Pow2(k) <= n

(* The size cut off at s is a power of two that divides s and fits.         *)
Fits(w, s, n) ==
  \E k \in Nat : \E j \in Nat : w = Pow2(k) /\ s = j * Pow2(k) /\ s + Pow2(k) <= n

LEMMA Quotient ==
  ASSUME NEW w \in Nat \ {0}, NEW x \in Nat, x % w = 0
  PROVE  x \div w \in Nat /\ x = (x \div w) * w
OBVIOUS

LEMMA Divisor ==
  ASSUME NEW s \in Nat \ {0}
  PROVE  \E d \in Nat : LsbPow2(s) = Pow2(d) /\ \E j \in Nat : s = j * Pow2(d)
<1> DEFINE T == {k \in 0 .. s : s % Pow2(k) = 0}
           d == Max(T)
<1>1. 0 \in T
  <2>1. s % 1 = 0 OBVIOUS
  <2> QED BY <2>1, Powers
<1>2. d \in T
  <2>1. T \subseteq 0 .. s OBVIOUS
  <2> HIDE DEF T
  <2> QED BY <1>1, <2>1, MaxIs
<1>3. LsbPow2(s) = Pow2(d) BY DEF LsbPow2
<1>4. d \in Nat /\ s % Pow2(d) = 0 BY <1>2
<1> HIDE DEF d
<1>5. \E j \in Nat : s = j * Pow2(d)
  <2> DEFINE w == Pow2(d)
  <2>1. w \in Nat \ {0} BY <1>4, Powers
  <2> HIDE DEF w
  <2>2. s % w = 0 BY <1>4 DEF w
  <2>3. s \div w \in Nat /\ s = (s \div w) * w BY <2>1, <2>2, Quotient
  <2> QED BY <2>3 DEF w
<1> QED BY <1>3, <1>4, <1>5

LEMMA SizeFits ==
  ASSUME NEW n \in Nat, NEW s \in Nat, s < n
  PROVE  Fits(BlockSize(s, n), s, n)
<1>1. n - s \in Nat \ {0} OBVIOUS
<1> DEFINE l == ILog2(n - s)
<1>2. l \in Nat /\ Pow2(l) <= n - s /\ Pow2Floor(n - s) = Pow2(l) /\ Pow2(l) \in Nat
  <2>1. l \in Nat /\ Pow2(l) <= n - s BY <1>1, LogIs
  <2> QED BY <2>1, Powers DEF Pow2Floor
<1> HIDE DEF l
<1>3. CASE s = 0
  <2>1. BlockSize(s, n) = Pow2(l)
    <3>1. n - s = n BY <1>3
    <3> QED BY <1>2, <1>3, <3>1 DEF BlockSize
  <2>2. s = 0 * Pow2(l) /\ s + Pow2(l) <= n BY <1>2, <1>3
  <2> QED BY <1>2, <2>1, <2>2 DEF Fits
<1>4. CASE s # 0
  <2>1. PICK d \in Nat : LsbPow2(s) = Pow2(d) /\ \E j \in Nat : s = j * Pow2(d)
    BY <1>4, Divisor
  <2>2. PICK j \in Nat : s = j * Pow2(d) BY <2>1
  <2>3. Pow2(d) \in Nat BY Powers
  <2>4. BlockSize(s, n) = Min({Pow2(d), Pow2(l)})
    BY <1>2, <1>4, <2>1 DEF BlockSize
  <2>5. Min({Pow2(d), Pow2(l)}) \in {Pow2(d), Pow2(l)} /\ \A y \in {Pow2(d), Pow2(l)} : Min({Pow2(d), Pow2(l)}) <= y
    <3> DEFINE T == {Pow2(d), Pow2(l)}
    <3>1. T \subseteq Nat /\ T # {} BY <1>2, <2>3
    <3> HIDE DEF T
    <3>2. Min(T) \in T /\ \A y \in T : Min(T) <= y BY <3>1, MinIs
    <3> QED BY <3>2 DEF T
  <2>6. CASE BlockSize(s, n) = Pow2(d) /\ Pow2(d) <= Pow2(l)
    <3>1. s + Pow2(d) <= n BY <1>2, <2>3, <2>6
    <3> QED BY <2>2, <2>6, <3>1 DEF Fits
  <2>7. CASE BlockSize(s, n) = Pow2(l) /\ Pow2(l) <= Pow2(d)
    <3>1. l <= d
      <4>1. ~(d < l) BY <1>2, <2>3, <2>7, Increasing
      <4> QED BY <1>2, <4>1
    <3>2. PICK a \in Nat \ {0} : Pow2(d) = a * Pow2(l) BY <1>2, <3>1, Multiple
    <3>3. s = (j * a) * Pow2(l) /\ j * a \in Nat BY <1>2, <2>2, <3>2
    <3>4. s + Pow2(l) <= n BY <1>2
    <3> QED BY <1>2, <2>7, <3>3, <3>4 DEF Fits
  <2> QED BY <2>3, <1>2, <2>4, <2>5, <2>6, <2>7
<1> QED BY <1>3, <1>4

LEMMA SizeIs ==
  ASSUME NEW n \in Nat, NEW s \in Nat, s < n
  PROVE  /\ BlockSize(s, n) \in Nat \ {0} /\ s + BlockSize(s, n) <= n
         /\ \A m \in Nat : m <= s => IsBlock([start |-> s, size |-> BlockSize(s, n)], m, n)
<1>1. PICK k \in Nat : \E j \in Nat :
        BlockSize(s, n) = Pow2(k) /\ s = j * Pow2(k) /\ s + Pow2(k) <= n
  BY SizeFits DEF Fits
<1>2. PICK j \in Nat :
        BlockSize(s, n) = Pow2(k) /\ s = j * Pow2(k) /\ s + Pow2(k) <= n
  BY <1>1
<1>3. Pow2(k) \in Nat \ {0} BY Powers
<1>4. (j + 1) * Pow2(k) = j * Pow2(k) + Pow2(k) BY <1>3
<1>5. [start |-> s, size |-> BlockSize(s, n)] = Block(k, j) BY <1>2 DEF Block
<1>6. (j + 1) * Pow2(k) <= n BY <1>2, <1>4
<1> QED BY <1>2, <1>3, <1>5, <1>6 DEF IsBlock

LEMMA Prepended ==
  ASSUME NEW r, IsRow(r), NEW e
  PROVE  /\ IsRow(<<e>> \o r) /\ Len(<<e>> \o r) = Len(r) + 1 /\ Len(r) \in Nat
         /\ (<<e>> \o r)[1] = e
         /\ \A i \in 1 .. Len(r) : (<<e>> \o r)[i + 1] = r[i]
<1>1. PICK S : r \in Seq(S) BY DEF IsRow
<1> DEFINE T == S \cup {e}
<1>2. r \in Seq(T) /\ <<e>> \in Seq(T)
  <2>1. S \subseteq T /\ e \in T OBVIOUS
  <2> HIDE DEF T
  <2> QED BY <1>1, <2>1
<1>3. Len(<<e>>) = 1 /\ <<e>>[1] = e OBVIOUS
<1> HIDE DEF T
<1> DEFINE o == <<e>>
<1>4. /\ o \o r \in Seq(T) /\ Len(o \o r) = Len(o) + Len(r)
      /\ \A i \in 1 .. Len(o) + Len(r) : (o \o r)[i] = IF i <= Len(o) THEN o[i] ELSE r[i - Len(o)]
  <2> HIDE DEF o
  <2>1. o \in Seq(T) BY <1>2 DEF o
  <2> QED BY <1>2, <2>1, ConcatProperties
<1>5. Len(r) \in Nat BY <1>1
<1>6. Len(o) = 1 /\ o[1] = e BY <1>3
<1> HIDE DEF o
<1>7. \A i \in 1 .. Len(r) : (o \o r)[i + 1] = r[i]
  <2> TAKE i \in 1 .. Len(r)
  <2>1. i + 1 \in 1 .. Len(o) + Len(r) /\ ~(i + 1 <= Len(o)) /\ (i + 1) - Len(o) = i
    BY <1>5, <1>6
  <2> QED BY <1>4, <2>1
<1>8. (o \o r)[1] = e BY <1>4, <1>5, <1>6
<1>9. IsRow(o \o r) BY <1>4 DEF IsRow
<1> QED BY <1>4, <1>5, <1>6, <1>7, <1>8, <1>9 DEF o

(* The loop that cuts off one block after another.                          *)
CutOff(s, n, rest) == <<[start |-> s, size |-> BlockSize(s, n)]>> \o rest
Cut(f, a, n) ==
  f = [s \in a .. n |-> IF s = n THEN << >> ELSE CutOff(s, n, f[s + BlockSize(s, n)])]

LEMMA CutExists ==
  ASSUME NEW n \in Nat, NEW m \in 0 .. n
  PROVE  \E f : Cut(f, m, n)
<1> DEFINE T == {d \in Nat : d <= n => \E f : Cut(f, n - d, n)}
<1>1. 0 \in T
  <2> DEFINE f == [s \in n .. n |-> << >>]
  <2>1. f = [s \in n .. n |-> IF s = n THEN << >> ELSE CutOff(s, n, f[s + BlockSize(s, n)])] OBVIOUS
  <2>2. Cut(f, n, n) BY <2>1 DEF Cut
  <2>3. n - 0 = n OBVIOUS
  <2> QED BY <2>2, <2>3
<1>2. ASSUME NEW d \in Nat, d \in T PROVE d + 1 \in T
  <2> SUFFICES ASSUME d + 1 <= n PROVE \E f : Cut(f, n - (d + 1), n) OBVIOUS
  <2> DEFINE a == n - (d + 1)
  <2>1. a \in Nat /\ a < n /\ n - d = a + 1 OBVIOUS
  <2>2. PICK f : Cut(f, a + 1, n)
    <3>1. \E f : Cut(f, n - d, n) BY <1>2
    <3> QED BY <2>1, <3>1
  <2> HIDE DEF a
  <2> DEFINE first == CutOff(a, n, f[a + BlockSize(a, n)])
             g == [s \in a .. n |-> IF s = a THEN first ELSE f[s]]
  <2> HIDE DEF first
  <2>3. ASSUME NEW s \in a .. n
        PROVE  g[s] = IF s = n THEN << >> ELSE CutOff(s, n, g[s + BlockSize(s, n)])
    <3>1. CASE s = n
      <4>1. s \in a + 1 .. n /\ g[s] = f[s] BY <2>1, <3>1
      <4> QED BY <2>2, <3>1, <4>1 DEF Cut
    <3>2. CASE s # n
      <4>1. s \in Nat /\ s < n BY <2>1, <3>2
      <4>2. BlockSize(s, n) \in Nat \ {0} /\ s + BlockSize(s, n) <= n BY <4>1, SizeIs
      <4> DEFINE t == s + BlockSize(s, n)
      <4>3. t \in a + 1 .. n /\ t \in a .. n /\ t # a BY <2>1, <4>2
      <4> HIDE DEF t
      <4>4. g[t] = f[t] BY <4>3
      <4>5. CASE s = a
        <5>1. g[s] = first /\ first = CutOff(s, n, f[t]) BY <4>5 DEF first, t
        <5> QED BY <3>2, <4>4, <5>1 DEF t
      <4>6. CASE s # a
        <5>1. s \in a + 1 .. n /\ g[s] = f[s] BY <2>1, <4>6
        <5>2. f[s] = CutOff(s, n, f[t]) BY <2>2, <3>2, <5>1 DEF Cut, t
        <5> QED BY <3>2, <4>4, <5>1, <5>2 DEF t
      <4> QED BY <4>5, <4>6
    <3> QED BY <3>1, <3>2
  <2>4. g = [s \in a .. n |-> g[s]] OBVIOUS
  <2> HIDE DEF g
  <2>5. Cut(g, a, n) BY <2>3, <2>4 DEF Cut
  <2> QED BY <2>5 DEF a
<1> HIDE DEF T
<1>3. n - m \in T BY <1>1, <1>2, Induction
<1>4. n - (n - m) = m /\ n - m <= n OBVIOUS
<1> QED BY <1>3, <1>4 DEF T

Holds(b, x) == b.start <= x /\ x < b.start + b.size
IsCover(c, m, n) ==
  /\ IsRow(c) /\ \A i \in 1 .. Len(c) : IsBlock(c[i], m, n)
  /\ \A x \in m .. n - 1 : \E i \in 1 .. Len(c) : Holds(c[i], x)

LEMMA CutOffCovers ==
  ASSUME NEW n \in Nat, NEW s \in Nat, s < n, NEW c, IsCover(c, s + BlockSize(s, n), n)
  PROVE  IsCover(CutOff(s, n, c), s, n)
<1> DEFINE w == BlockSize(s, n)
           b == [start |-> s, size |-> w]
           l == CutOff(s, n, c)
<1>1. w \in Nat \ {0} /\ s + w <= n /\ IsBlock(b, s, n) BY SizeIs
<1>2. /\ IsRow(l) /\ Len(l) = Len(c) + 1 /\ Len(c) \in Nat /\ l[1] = b
      /\ \A i \in 1 .. Len(c) : l[i + 1] = c[i]
  <2>1. IsRow(c) BY DEF IsCover
  <2>2. l = <<b>> \o c BY DEF CutOff
  <2> HIDE DEF b, l
  <2> QED BY <2>1, <2>2, Prepended
<1>3. b.start = s /\ b.size = w OBVIOUS
<1> HIDE DEF b, l, w
<1>4. ASSUME NEW i \in 1 .. Len(l) PROVE IsBlock(l[i], s, n)
  <2>1. CASE i = 1 BY <1>1, <1>2, <2>1
  <2>2. CASE i # 1
    <3>1. i - 1 \in 1 .. Len(c) /\ (i - 1) + 1 = i BY <1>2, <2>2
    <3>2. l[i] = c[i - 1] /\ IsBlock(c[i - 1], s + w, n) BY <1>2, <3>1 DEF IsCover, w
    <3>3. PICK k \in Nat : \E j \in Nat :
            c[i - 1] = Block(k, j) /\ s + w <= j * Pow2(k) /\ (j + 1) * Pow2(k) <= n
      BY <3>2 DEF IsBlock
    <3>4. PICK j \in Nat :
            c[i - 1] = Block(k, j) /\ s + w <= j * Pow2(k) /\ (j + 1) * Pow2(k) <= n
      BY <3>3
    <3>5. j * Pow2(k) \in Nat
      <4>1. Pow2(k) \in Nat BY Powers
      <4> QED BY <4>1
    <3>6. s <= j * Pow2(k) BY <1>1, <3>4, <3>5
    <3> QED BY <3>2, <3>4, <3>6 DEF IsBlock
  <2> QED BY <2>1, <2>2
<1>5. ASSUME NEW x \in s .. n - 1 PROVE \E i \in 1 .. Len(l) : Holds(l[i], x)
  <2>1. CASE x < s + w
    <3>1. Holds(l[1], x) BY <1>2, <1>3, <2>1 DEF Holds
    <3>2. 1 \in 1 .. Len(l) BY <1>2
    <3> QED BY <3>1, <3>2
  <2>2. CASE ~(x < s + w)
    <3>1. x \in s + w .. n - 1 BY <1>1, <2>2
    <3>2. PICK i \in 1 .. Len(c) : Holds(c[i], x) BY <3>1 DEF IsCover, w
    <3>3. i + 1 \in 1 .. Len(l) /\ l[i + 1] = c[i] BY <1>2
    <3> QED BY <3>2, <3>3
  <2> QED BY <2>1, <2>2
<1>6. IsCover(l, s, n) BY <1>2, <1>4, <1>5 DEF IsCover
<1> QED BY <1>6 DEF l

LEMMA CoverIs ==
  ASSUME NEW n \in Nat, NEW m \in 0 .. n
  PROVE  IsCover(Cover(m, n), m, n)
<1>1. PICK f : Cut(f, m, n) /\ Cover(m, n) = f[m]
  <2>1. \E f : Cut(f, m, n) BY CutExists
  <2> QED BY <2>1 DEF Cover, Cut, CutOff
<1> DEFINE T == {d \in Nat : \A s \in m .. n : n - s <= d => IsCover(f[s], s, n)}
<1>2. ASSUME NEW s \in m .. n, s = n PROVE IsCover(f[s], s, n)
  <2>1. f[s] = << >> BY <1>1, <1>2 DEF Cut
  <2>2. IsRow(<< >>) /\ Len(<< >>) = 0
    <3>1. << >> \in Seq({}) OBVIOUS
    <3> QED BY <3>1 DEF IsRow
  <2>3. \A i \in 1 .. Len(<< >>) : FALSE BY <2>2
  <2>4. \A x \in s .. n - 1 : FALSE BY <1>2
  <2> QED BY <2>1, <2>2, <2>3, <2>4 DEF IsCover
<1>3. 0 \in T
  <2>1. ASSUME NEW s \in m .. n, n - s <= 0 PROVE IsCover(f[s], s, n)
    <3>1. s = n BY <2>1
    <3> QED BY <1>2, <3>1
  <2> QED BY <2>1
<1>4. ASSUME NEW d \in Nat, d \in T PROVE d + 1 \in T
  <2> SUFFICES ASSUME NEW s \in m .. n, n - s <= d + 1 PROVE IsCover(f[s], s, n)
    OBVIOUS
  <2>1. CASE s = n BY <1>2, <2>1
  <2>2. CASE s # n
    <3>1. s \in Nat /\ s < n BY <2>2
    <3>2. BlockSize(s, n) \in Nat \ {0} /\ s + BlockSize(s, n) <= n BY <3>1, SizeIs
    <3> DEFINE t == s + BlockSize(s, n)
    <3>3. t \in m .. n /\ n - t <= d BY <3>2
    <3>4. f[s] = CutOff(s, n, f[t]) BY <1>1, <2>2 DEF Cut
    <3>5. IsCover(f[t], t, n)
      <4> HIDE DEF t
      <4> QED BY <1>4, <3>3
    <3> QED BY <3>1, <3>4, <3>5, CutOffCovers
  <2> QED BY <2>1, <2>2
<1> HIDE DEF T
<1>5. n - m \in T BY <1>3, <1>4, Induction
<1>6. m \in m .. n /\ n - m <= n - m OBVIOUS
<1>7. IsCover(f[m], m, n) BY <1>5, <1>6 DEF T
<1> QED BY <1>1, <1>7

-----------------------------------------------------------------------------
(* Where a node stands in the levels.                                      *)

LEMMA WholeIs ==
  ASSUME NEW lv, NEW s, Whole(lv, s)
  PROVE  /\ Len(lv) \in Nat \ {0} /\ lv[1] = s /\ Len(lv[Len(lv)]) = 1 /\ Len(s) \in Nat \ {0}
         /\ \A k \in Nat : k + 1 <= Len(lv) => Len(lv[k + 1]) \in Nat \ {0}
         /\ \A k \in Nat : k + 2 <= Len(lv) =>
              /\ Len(lv[k + 1]) > 1 /\ IsAbove(lv[k + 2], lv[k + 1])
<1>1. /\ Len(lv) \in Nat \ {0} /\ lv[1] = s /\ Len(lv[Len(lv)]) = 1
      /\ \A k \in 1 .. Len(lv) : Len(lv[k]) \in Nat \ {0}
      /\ \A k \in 1 .. Len(lv) - 1 : Len(lv[k]) > 1 /\ IsAbove(lv[k + 1], lv[k])
  BY DEF Whole, Levelled
<1>2. 1 \in 1 .. Len(lv) BY <1>1
<1>3. Len(s) \in Nat \ {0} BY <1>1, <1>2
<1>4. ASSUME NEW k \in Nat, k + 1 <= Len(lv) PROVE Len(lv[k + 1]) \in Nat \ {0}
  <2>1. k + 1 \in 1 .. Len(lv) BY <1>1, <1>4
  <2> QED BY <1>1, <2>1
<1>5. ASSUME NEW k \in Nat, k + 2 <= Len(lv)
      PROVE  Len(lv[k + 1]) > 1 /\ IsAbove(lv[k + 2], lv[k + 1])
  <2>1. k + 1 \in 1 .. Len(lv) - 1 /\ (k + 1) + 1 = k + 2 BY <1>1, <1>5
  <2> QED BY <1>1, <2>1
<1> QED BY <1>1, <1>3, <1>4, <1>5

(* At height k there is a node for every 2^k leaves, the last ones perhaps  *)
(* fewer.                                                                   *)
LEMMA NodesAre ==
  ASSUME NEW lv, NEW s, Whole(lv, s), NEW k \in Nat, k + 1 <= Len(lv), NEW j \in Nat
  PROVE  j < Len(lv[k + 1]) <=> j * Pow2(k) < Len(s)
<1> DEFINE n == Len(s)
           T == {i \in Nat : i + 1 <= Len(lv) =>
                               \A h \in Nat : h < Len(lv[i + 1]) <=> h * Pow2(i) < n}
<1>0. n \in Nat \ {0} BY WholeIs
<1>1. 0 \in T
  <2>1. lv[0 + 1] = s BY WholeIs
  <2>2. \A h \in Nat : h * Pow2(0) = h BY Powers
  <2> QED BY <2>1, <2>2
<1>2. ASSUME NEW i \in Nat, i \in T PROVE i + 1 \in T
  <2> SUFFICES ASSUME (i + 1) + 1 <= Len(lv), NEW h \in Nat
               PROVE  h < Len(lv[(i + 1) + 1]) <=> h * Pow2(i + 1) < n
    OBVIOUS
  <2> DEFINE r == lv[i + 1]  u == lv[i + 2]
  <2>1. (i + 1) + 1 = i + 2 /\ i + 2 <= Len(lv) /\ i + 1 <= Len(lv) BY WholeIs
  <2>2. IsAbove(u, r) /\ Len(r) \in Nat BY <2>1, WholeIs
  <2>3. Len(u) = (Len(r) + 1) \div 2 BY <2>2 DEF IsAbove
  <2>4. 2 * h < Len(r) <=> (2 * h) * Pow2(i) < n
    <3>1. 2 * h \in Nat OBVIOUS
    <3> QED BY <1>2, <2>1, <3>1
  <2>5. (2 * h) * Pow2(i) = h * Pow2(i + 1)
    <3>1. Pow2(i + 1) = 2 * Pow2(i) /\ Pow2(i) \in Nat BY Powers
    <3> QED BY <3>1
  <2>6. h < Len(u) <=> 2 * h < Len(r)
    <3> HIDE DEF u, r
    <3>1. \A x \in Nat : h < (x + 1) \div 2 <=> 2 * h < x OBVIOUS
    <3> QED BY <2>2, <2>3, <3>1
  <2> QED BY <2>1, <2>4, <2>5, <2>6
<1> HIDE DEF T
<1>3. k \in T BY <1>1, <1>2, Induction
<1> QED BY <1>3 DEF T

(* The top is at the first height at which one node stands for all leaves.  *)
LEMMA TopIs ==
  ASSUME NEW lv, NEW s, Whole(lv, s)
  PROVE  /\ Pow2(Len(lv) - 1) >= Len(s) /\ Len(lv) - 1 \in 0 .. Len(s)
         /\ Min({k \in 0 .. Len(s) : Pow2(k) >= Len(s)}) = Len(lv) - 1
<1> DEFINE n == Len(s)
           top == Len(lv) - 1
           T == {k \in 0 .. n : Pow2(k) >= n}
<1>1. top \in Nat /\ top + 1 = Len(lv) /\ n \in Nat \ {0} /\ Len(lv[Len(lv)]) = 1 BY WholeIs
<1> HIDE DEF top
<1>2. Pow2(top) >= n
  <2>1. 1 < Len(lv[top + 1]) <=> 1 * Pow2(top) < n BY <1>1, NodesAre
  <2>2. Pow2(top) \in Nat BY <1>1, Powers
  <2>3. Len(lv[top + 1]) = 1 BY <1>1
  <2>4. ~(Pow2(top) < n) BY <2>1, <2>2, <2>3
  <2> HIDE DEF n
  <2> QED BY <1>1, <2>2, <2>4
<1>3. ASSUME NEW k \in Nat, k < top PROVE Pow2(k) < n
  <2>1. k + 2 <= Len(lv) /\ k + 1 <= Len(lv) BY <1>1, <1>3
  <2>2. Len(lv[k + 1]) > 1 /\ Len(lv[k + 1]) \in Nat BY <2>1, WholeIs
  <2>3. 1 < Len(lv[k + 1]) <=> 1 * Pow2(k) < n BY <2>1, NodesAre
  <2>4. Pow2(k) \in Nat BY Powers
  <2> QED BY <2>2, <2>3, <2>4
<1>4. top \in 0 .. n
  <2>1. CASE top = 0 BY <1>1, <2>1
  <2>2. CASE top # 0
    <3>1. top - 1 \in Nat /\ top - 1 < top BY <1>1, <2>2
    <3>2. Pow2(top - 1) < n /\ top - 1 < Pow2(top - 1) /\ Pow2(top - 1) \in Nat
      BY <1>3, <3>1, Powers
    <3> QED BY <1>1, <3>1, <3>2
  <2> QED BY <2>1, <2>2
<1>5. top \in T BY <1>2, <1>4
<1>6. Min(T) \in T /\ Min(T) <= top
  <2>1. T \subseteq Nat /\ T # {} BY <1>5
  <2> HIDE DEF T
  <2> QED BY <1>5, <2>1, MinIs
<1>7. Min(T) = top
  <2> DEFINE l == Min(T)
  <2>1. l \in Nat /\ Pow2(l) >= n /\ l <= top BY <1>6
  <2> HIDE DEF l
  <2>2. ~(l < top)
    <3>1. Pow2(l) \in Nat BY <2>1, Powers
    <3> QED BY <1>1, <1>3, <2>1, <3>1
  <2>3. l = top BY <1>1, <2>1, <2>2
  <2> QED BY <2>3 DEF l
<1> QED BY <1>2, <1>4, <1>7 DEF top

(* Where there is a block there is a node for it.                           *)
LEMMA BlockHasNode ==
  ASSUME NEW lv, NEW s, Whole(lv, s), NEW k \in Nat, NEW j \in Nat,
         (j + 1) * Pow2(k) <= Len(s)
  PROVE  k + 1 <= Len(lv) /\ j < Len(lv[k + 1])
<1>1. Pow2(k) \in Nat \ {0} /\ Len(s) \in Nat /\ Len(lv) \in Nat \ {0} BY Powers, WholeIs
<1>2. (j + 1) * Pow2(k) = j * Pow2(k) + Pow2(k) /\ j * Pow2(k) \in Nat BY <1>1
<1>3. Pow2(k) <= Len(s) /\ j * Pow2(k) < Len(s) BY <1>1, <1>2
<1>4. k + 1 <= Len(lv)
  <2> DEFINE top == Len(lv) - 1
  <2>0. Pow2(Len(lv) - 1) >= Len(s) BY TopIs, Zenon
  <2>1. top \in Nat /\ Pow2(top) >= Len(s) BY <1>1, <2>0
  <2> HIDE DEF top
  <2>2. Pow2(top) \in Nat BY <2>1, Powers
  <2>3. ~(top < k) BY <1>1, <1>3, <2>1, <2>2, Increasing
  <2>4. k <= top BY <2>1, <2>3
  <2> QED BY <1>1, <2>4 DEF top
<1> QED BY <1>3, <1>4, NodesAre

LEMMA NodeOfBlock ==
  ASSUME NEW lv, NEW k \in Nat, NEW j \in Nat
  PROVE  SubtreeHash(lv, Block(k, j)) = lv[k + 1][j + 1]
<1> DEFINE w == Pow2(k)
<1>1. w \in Nat \ {0} /\ ILog2(w) = k BY Powers, LogOfPower
<1>2. Block(k, j).size = w /\ Block(k, j).start = j * w BY DEF Block
<1> HIDE DEF w
<1>3. (j * w) \div w = j BY <1>1
<1> QED BY <1>1, <1>2, <1>3 DEF SubtreeHash

(* What is hashed into a node.                                              *)
LEMMA NodeIs ==
  ASSUME NEW lv, NEW s, Whole(lv, s), NEW k \in Nat, k + 2 <= Len(lv),
         NEW j \in Nat, j < Len(lv[k + 2])
  PROVE  /\ lv[k + 2][j + 1] =
              IF (2 * j + 1) * Pow2(k) < Len(s)
              THEN HPair(lv[k + 1][2 * j + 1], lv[k + 1][2 * j + 2])
              ELSE HPair(lv[k + 1][2 * j + 1], lv[k + 1][2 * j + 1])
         /\ 2 * j < Len(lv[k + 1])
<1> DEFINE r == lv[k + 1]  u == lv[k + 2]
<1>1. IsAbove(u, r) /\ Len(r) \in Nat /\ k + 1 <= Len(lv) BY WholeIs
<1>2. Len(u) = (Len(r) + 1) \div 2 BY <1>1 DEF IsAbove
<1>3. 2 * j + 1 < Len(r) <=> (2 * j + 1) * Pow2(k) < Len(s)
  <2>1. 2 * j + 1 \in Nat OBVIOUS
  <2> QED BY <1>1, <2>1, NodesAre
<1>4. 2 * j < Len(r)
  <2> HIDE DEF u, r
  <2>1. \A x \in Nat : j < (x + 1) \div 2 => 2 * j < x OBVIOUS
  <2>2. j < Len(u) BY DEF u
  <2> QED BY <1>1, <1>2, <2>1, <2>2
<1>5. u[j + 1] = <<r[2 * (j + 1) - 1], RightOf(r, j + 1)>>
  <2>1. j + 1 \in 1 .. Len(u)
    <3> HIDE DEF r
    <3>1. \A x \in Nat : (x + 1) \div 2 \in Nat OBVIOUS
    <3>2. Len(u) \in Nat BY <1>1, <1>2, <3>1
    <3> QED BY <3>2
  <2> QED BY <1>1, <2>1 DEF IsAbove
<1> HIDE DEF r, u
<1>6. 2 * (j + 1) - 1 = 2 * j + 1 /\ 2 * (j + 1) = 2 * j + 2 OBVIOUS
<1>7. 2 * j + 2 <= Len(r) <=> 2 * j + 1 < Len(r) BY <1>1
<1>8. u[j + 1] = IF 2 * j + 1 < Len(r) THEN <<r[2 * j + 1], r[2 * j + 2]>>
                 ELSE <<r[2 * j + 1], r[2 * j + 1]>>
  BY <1>5, <1>6, <1>7 DEF RightOf
<1> QED BY <1>3, <1>4, <1>8 DEF HPair, r, u

(* A tree that goes on from another has the nodes that were full there.     *)
Starts(o, s) == Len(o) <= Len(s) /\ \A i \in 1 .. Len(o) : o[i] = s[i]

LEMMA FullNodesStay ==
  ASSUME NEW lo, NEW o, Whole(lo, o), NEW lv, NEW s, Whole(lv, s), Starts(o, s),
         NEW k \in Nat, NEW j \in Nat, (j + 1) * Pow2(k) <= Len(o)
  PROVE  lo[k + 1][j + 1] = lv[k + 1][j + 1]
<1> DEFINE m == Len(o)
           T == {i \in Nat : \A h \in Nat :
                   (h + 1) * Pow2(i) <= m => lo[i + 1][h + 1] = lv[i + 1][h + 1]}
<1>0. m \in Nat /\ Len(s) \in Nat /\ m <= Len(s) BY WholeIs DEF Starts
<1>1. 0 \in T
  <2>1. lo[0 + 1] = o /\ lv[0 + 1] = s BY WholeIs
  <2>2. ASSUME NEW h \in Nat, (h + 1) * Pow2(0) <= m PROVE o[h + 1] = s[h + 1]
    <3>1. (h + 1) * 1 = h + 1 OBVIOUS
    <3>2. h + 1 \in 1 .. m BY <1>0, <2>2, <3>1, Powers
    <3> QED BY <3>2 DEF Starts
  <2> QED BY <2>1, <2>2
<1>2. ASSUME NEW i \in Nat, i \in T PROVE i + 1 \in T
  <2> SUFFICES ASSUME NEW h \in Nat, (h + 1) * Pow2(i + 1) <= m
               PROVE  lo[(i + 1) + 1][h + 1] = lv[(i + 1) + 1][h + 1]
    OBVIOUS
  <2>0. (i + 1) + 1 = i + 2 /\ i + 1 \in Nat OBVIOUS
  <2>1. (h + 1) * Pow2(i + 1) <= Len(s) /\ (h + 1) * Pow2(i + 1) \in Nat
    <3>1. Pow2(i + 1) \in Nat BY <2>0, Powers
    <3>2. (h + 1) * Pow2(i + 1) \in Nat BY <3>1
    <3> QED BY <1>0, <3>2
  <2>2. i + 2 <= Len(lo) /\ h < Len(lo[i + 2]) BY <2>0, BlockHasNode
  <2>3. i + 2 <= Len(lv) /\ h < Len(lv[i + 2]) BY <2>0, <2>1, BlockHasNode
  <2>4. Pow2(i + 1) = 2 * Pow2(i) /\ Pow2(i) \in Nat \ {0} BY Powers
  <2> DEFINE w == Pow2(i)
  <2>5. w \in Nat \ {0} /\ (h + 1) * (2 * w) <= m BY <2>4
  <2> HIDE DEF w
  <2>6. /\ (2 * h + 1) * w = 2 * (h * w) + w /\ ((2 * h + 1) + 1) * w = 2 * (h * w) + 2 * w
        /\ (h + 1) * (2 * w) = 2 * (h * w) + 2 * w /\ h * w \in Nat
    BY <2>5
  <2>7. /\ (2 * h + 1) * w < m /\ (2 * h + 1) * w < Len(s)
        /\ (2 * h + 1) * w <= m /\ ((2 * h + 1) + 1) * w <= m
    <3>1. \A y \in Nat : 2 * y + 2 * w <= m => 2 * y + w < m /\ 2 * y + w < Len(s) /\ 2 * y + w <= m
      BY <1>0, <2>5
    <3> QED BY <2>5, <2>6, <3>1
  <2>8. lo[i + 1][2 * h + 1] = lv[i + 1][2 * h + 1]
    <3>1. 2 * h \in Nat OBVIOUS
    <3> QED BY <1>2, <2>7, <3>1 DEF w
  <2>9. lo[i + 1][2 * h + 2] = lv[i + 1][2 * h + 2]
    <3>1. 2 * h + 1 \in Nat /\ (2 * h + 1) + 1 = 2 * h + 2 OBVIOUS
    <3>2. ((2 * h + 1) + 1) * Pow2(i) <= m BY <2>7 DEF w
    <3> QED BY <1>2, <3>1, <3>2
  <2>10. /\ lo[i + 2][h + 1] = HPair(lo[i + 1][2 * h + 1], lo[i + 1][2 * h + 2])
         /\ lv[i + 2][h + 1] = HPair(lv[i + 1][2 * h + 1], lv[i + 1][2 * h + 2])
    <3>1. (2 * h + 1) * Pow2(i) < m /\ (2 * h + 1) * Pow2(i) < Len(s) BY <2>7 DEF w
    <3>2. lo[i + 2][h + 1] = HPair(lo[i + 1][2 * h + 1], lo[i + 1][2 * h + 2])
      BY <2>2, <3>1, NodeIs
    <3>3. lv[i + 2][h + 1] = HPair(lv[i + 1][2 * h + 1], lv[i + 1][2 * h + 2])
      BY <2>3, <3>1, NodeIs
    <3> QED BY <3>2, <3>3
  <2> QED BY <2>0, <2>8, <2>9, <2>10
<1> HIDE DEF T
<1>3. k \in T BY <1>1, <1>2, Induction
<1> QED BY <1>3 DEF T

-----------------------------------------------------------------------------
(* A root made of what is known of the blocks of a tree is the tree's.      *)

LEMMA BlockIs ==
  ASSUME NEW k \in Nat, NEW j \in Nat
  PROVE  /\ Block(k, j).start = j * Pow2(k) /\ Block(k, j).size = Pow2(k)
         /\ j * Pow2(k) \in Nat /\ Pow2(k) \in Nat \ {0}
         /\ (j + 1) * Pow2(k) = j * Pow2(k) + Pow2(k)
<1>1. Pow2(k) \in Nat \ {0} BY Powers
<1>2. j * Pow2(k) \in Nat /\ (j + 1) * Pow2(k) = j * Pow2(k) + Pow2(k) BY <1>1
<1> QED BY <1>1, <1>2 DEF Block

LEMMA BlockEnds ==
  ASSUME NEW k \in Nat, NEW j \in Nat, NEW m, NEW n, IsBlock(Block(k, j), m, n)
  PROVE  (j + 1) * Pow2(k) <= n
<1>1. PICK i \in Nat : \E h \in Nat :
        Block(k, j) = Block(i, h) /\ m <= h * Pow2(i) /\ (h + 1) * Pow2(i) <= n
  BY DEF IsBlock
<1>2. PICK h \in Nat : Block(k, j) = Block(i, h) /\ (h + 1) * Pow2(i) <= n BY <1>1
<1>3. j * Pow2(k) = h * Pow2(i) /\ Pow2(k) = Pow2(i)
  <2>1. Block(k, j).start = j * Pow2(k) /\ Block(k, j).size = Pow2(k) BY BlockIs
  <2>2. Block(i, h).start = h * Pow2(i) /\ Block(i, h).size = Pow2(i) BY BlockIs
  <2> QED BY <1>2, <2>1, <2>2
<1>4. (j + 1) * Pow2(k) = (h + 1) * Pow2(i)
  <2>1. (j + 1) * Pow2(k) = j * Pow2(k) + Pow2(k) BY BlockIs
  <2>2. (h + 1) * Pow2(i) = h * Pow2(i) + Pow2(i) BY BlockIs
  <2> QED BY <1>3, <2>1, <2>2
<1> QED BY <1>2, <1>4

Knows(known, lv, n) ==
  /\ \A b \in DOMAIN known : IsBlock(b, 0, n)
  /\ \A k, j \in Nat : Block(k, j) \in DOMAIN known => known[Block(k, j)] = lv[k + 1][j + 1]
  /\ \A x \in 0 .. n - 1 : \E b \in DOMAIN known : Holds(b, x)

(* No block that is known has node j at height k inside.                    *)
Exposed(known, k, j) ==
  \A b \in DOMAIN known : Holds(b, j * Pow2(k)) => b.size <= Pow2(k)

LEMMA Shrinks ==
  ASSUME NEW known, NEW k \in Nat, NEW j \in Nat, Exposed(known, k + 1, j),
         Block(k + 1, j) \notin DOMAIN known, NEW y \in Nat,
         j * Pow2(k + 1) <= y, y < (j + 1) * Pow2(k + 1),
         NEW i \in Nat, NEW h \in Nat, Block(i, h) \in DOMAIN known, Holds(Block(i, h), y)
  PROVE  Pow2(i) <= Pow2(k)
<1> DEFINE w == Pow2(k + 1)
<1>1. /\ w \in Nat \ {0} /\ (j + 1) * w = j * w + w /\ w = 2 * Pow2(k) /\ Pow2(k) \in Nat
      /\ j * w \in Nat
  <2>1. k + 1 \in Nat OBVIOUS
  <2>2. w = 2 * Pow2(k) /\ Pow2(k) \in Nat BY Powers
  <2> QED BY <2>1, <2>2, BlockIs
<1>2. /\ h * Pow2(i) <= y /\ y < h * Pow2(i) + Pow2(i)
      /\ Pow2(i) \in Nat \ {0} /\ h * Pow2(i) \in Nat
  BY BlockIs DEF Holds
<1>3. CASE i <= k
  <2>1. CASE i = k BY <1>1, <2>1
  <2>2. CASE i # k
    <3>1. i < k BY <1>3, <2>2
    <3> QED BY <1>1, <1>2, <3>1, Increasing
  <2> QED BY <2>1, <2>2
<1>4. CASE ~(i <= k)
  <2>1. k + 1 \in Nat /\ k + 1 <= i BY <1>4
  <2>2. PICK a \in Nat \ {0} : Pow2(i) = a * w BY <2>1, Multiple
  <2>3. h * Pow2(i) = (h * a) * w /\ h * a \in Nat BY <1>1, <2>2
  <2> HIDE DEF w
  <2>4. (h * a) * w < j * w + w
    <3>1. y < j * w + w BY <1>1 DEF w
    <3>2. (h * a) * w \in Nat /\ (h * a) * w <= y BY <1>2, <2>3
    <3> QED BY <1>1, <3>1, <3>2
  <2>5. (h * a) * w <= j * w BY <1>1, <2>3, <2>4, Apart
  <2>6. h * Pow2(i) <= j * w /\ j * w < h * Pow2(i) + Pow2(i)
    <3>1. j * w <= y BY DEF w
    <3> QED BY <1>1, <1>2, <2>3, <2>5, <3>1
  <2>7. Holds(Block(i, h), j * w) BY <2>6, BlockIs DEF Holds
  <2>8. Pow2(i) <= w
    <3>1. Block(i, h).size <= Pow2(k + 1) BY <2>7 DEF Exposed, w
    <3> QED BY <3>1, BlockIs DEF w
  <2>9. i = k + 1
    <3>1. ~(k + 1 < i) BY <1>1, <1>2, <2>1, <2>8, Increasing DEF w
    <3> QED BY <2>1, <3>1
  <2>10. h = j
    <3>1. Pow2(i) = w BY <2>9 DEF w
    <3>2. h * w < j * w + w /\ j * w < h * w + w
      BY <1>1, <1>2, <2>6, <3>1
    <3>3. h <= j /\ j <= h BY <1>1, <3>2, Apart
    <3> QED BY <3>3
  <2>11. FALSE BY <2>9, <2>10
  <2> QED BY <2>11
<1> QED BY <1>3, <1>4

LEMMA HalvesExposed ==
  ASSUME NEW known, NEW lv, NEW n, Knows(known, lv, n), NEW k \in Nat, NEW j \in Nat,
         Exposed(known, k + 1, j), Block(k + 1, j) \notin DOMAIN known
  PROVE  Exposed(known, k, 2 * j) /\ Exposed(known, k, 2 * j + 1)
<1>1. ASSUME NEW c \in {2 * j, 2 * j + 1}, NEW b \in DOMAIN known, Holds(b, c * Pow2(k))
      PROVE  b.size <= Pow2(k)
  <2>1. PICK i \in Nat : \E h \in Nat : b = Block(i, h) BY DEF Knows, IsBlock
  <2>2. PICK h \in Nat : b = Block(i, h) BY <2>1
  <2> DEFINE w == Pow2(k)  y == c * w
  <2>3. w \in Nat \ {0} /\ Pow2(k + 1) = 2 * w BY Powers
  <2> HIDE DEF w
  <2>4. /\ (2 * j) * w = 2 * (j * w) /\ (2 * j + 1) * w = 2 * (j * w) + w
        /\ j * (2 * w) = 2 * (j * w) /\ (j + 1) * (2 * w) = 2 * (j * w) + 2 * w
        /\ j * w \in Nat
    BY <2>3
  <2>5. y = 2 * (j * w) \/ y = 2 * (j * w) + w BY <2>4
  <2>6. y \in Nat /\ j * Pow2(k + 1) <= y /\ y < (j + 1) * Pow2(k + 1)
    <3> HIDE DEF y
    <3>1. \A x \in Nat : y = 2 * x \/ y = 2 * x + w => y \in Nat /\ 2 * x <= y /\ y < 2 * x + 2 * w
      BY <2>3
    <3> QED BY <2>3, <2>4, <2>5, <3>1
  <2>7. Block(i, h) \in DOMAIN known /\ Holds(Block(i, h), y) BY <1>1, <2>2 DEF w
  <2> HIDE DEF y
  <2>8. Pow2(i) <= Pow2(k) BY <2>6, <2>7, Shrinks
  <2> QED BY <2>2, <2>8, BlockIs
<1> QED BY <1>1 DEF Exposed

(* A row of the values, of the one below it.                                *)
RowFrom(k, below, known, n) ==
  [j \in {i \in 0 .. n : i * Pow2(k) < n} |->
     IF Block(k, j) \in DOMAIN known THEN known[Block(k, j)]
     ELSE IF k = 0 THEN << >>
     ELSE IF (2 * j + 1) * Pow2(k - 1) < n
     THEN HPair(below[2 * j], below[2 * j + 1])
     ELSE HPair(below[2 * j], below[2 * j])]
Valued(val, h, known, n) == val = [k \in 0 .. h |-> RowFrom(k, val[k - 1], known, n)]

LEMMA LowestRow ==
  ASSUME NEW a, NEW b, NEW known, NEW n
  PROVE  RowFrom(0, a, known, n) = RowFrom(0, b, known, n)
BY DEF RowFrom

LEMMA ValuesExist ==
  ASSUME NEW known, NEW n, NEW h \in Nat
  PROVE  \E val : Valued(val, h, known, n)
<1> DEFINE T == {k \in Nat : \E val : Valued(val, k, known, n)}
           Row(k, below) == RowFrom(k, below, known, n)
<1>1. 0 \in T
  <2> DEFINE f == [k \in 0 .. 0 |-> Row(0, << >>)]
  <2>1. f[0] = Row(0, f[0 - 1])
    <3>1. f[0] = Row(0, << >>) OBVIOUS
    <3> HIDE DEF f
    <3> QED BY <3>1, LowestRow
  <2>2. f = [k \in 0 .. 0 |-> f[k]] OBVIOUS
  <2> HIDE DEF f, Row
  <2>3. f = [k \in 0 .. 0 |-> Row(k, f[k - 1])]
    <3>1. \A k \in 0 .. 0 : f[k] = Row(k, f[k - 1]) BY <2>1
    <3> QED BY <2>2, <3>1
  <2>4. Valued(f, 0, known, n) BY <2>3 DEF Valued, Row
  <2> QED BY <2>4
<1> HIDE DEF Row
<1>2. ASSUME NEW k \in Nat, k \in T PROVE k + 1 \in T
  <2>1. PICK f : Valued(f, k, known, n) BY <1>2
  <2> DEFINE top == Row(k + 1, f[k])
             g == [i \in 0 .. k + 1 |-> IF i = k + 1 THEN top ELSE f[i]]
  <2> HIDE DEF top
  <2>2. ASSUME NEW i \in 0 .. k + 1 PROVE g[i] = Row(i, g[i - 1])
    <3>1. CASE i = k + 1
      <4>1. i - 1 = k /\ g[i] = top /\ g[k] = f[k] BY <3>1
      <4> QED BY <3>1, <4>1 DEF top
    <3>2. CASE i = 0
      <4>1. g[0] = f[0] /\ f[0] = Row(0, f[0 - 1]) BY <2>1 DEF Valued, Row
      <4> HIDE DEF g
      <4>2. Row(0, f[0 - 1]) = Row(0, g[0 - 1]) BY LowestRow DEF Row
      <4> QED BY <3>2, <4>1, <4>2
    <3>3. CASE i # 0 /\ i # k + 1
      <4>1. i \in 0 .. k /\ i - 1 \in 0 .. k /\ g[i] = f[i] /\ g[i - 1] = f[i - 1]
        BY <3>3
      <4>2. f[i] = Row(i, f[i - 1]) BY <2>1, <4>1 DEF Valued, Row
      <4> QED BY <4>1, <4>2
    <3> QED BY <3>1, <3>2, <3>3
  <2>3. g = [i \in 0 .. k + 1 |-> g[i]] OBVIOUS
  <2> HIDE DEF g
  <2>4. g = [i \in 0 .. k + 1 |-> Row(i, g[i - 1])] BY <2>2, <2>3
  <2>5. Valued(g, k + 1, known, n) BY <2>4 DEF Valued, Row
  <2> QED BY <2>5
<1> HIDE DEF T
<1>3. h \in T BY <1>1, <1>2, Induction
<1> QED BY <1>3 DEF T

(* The value of a node is the node of the tree.                             *)
LEMMA ValuesAreNodes ==
  ASSUME NEW s, NEW lv, Whole(lv, s), NEW known, Knows(known, lv, Len(s)),
         NEW val, Valued(val, Len(s), known, Len(s)),
         NEW k \in 0 .. Len(s), k + 1 <= Len(lv), NEW j \in Nat, j * Pow2(k) < Len(s),
         Exposed(known, k, j)
  PROVE  val[k][j] = lv[k + 1][j + 1]
<1> DEFINE n == Len(s)
           T == {i \in Nat : i <= n /\ i + 1 <= Len(lv) =>
                   \A h \in Nat : h * Pow2(i) < n /\ Exposed(known, i, h)
                                    => val[i][h] = lv[i + 1][h + 1]}
<1>0. n \in Nat \ {0} /\ Len(lv) \in Nat BY WholeIs
<1>1. ASSUME NEW i \in 0 .. n, NEW h \in Nat, h * Pow2(i) < n
      PROVE  /\ val[i][h] =
                  IF Block(i, h) \in DOMAIN known THEN known[Block(i, h)]
                  ELSE IF i = 0 THEN << >>
                  ELSE IF (2 * h + 1) * Pow2(i - 1) < n
                  THEN HPair(val[i - 1][2 * h], val[i - 1][2 * h + 1])
                  ELSE HPair(val[i - 1][2 * h], val[i - 1][2 * h])
  <2>1. val[i] = RowFrom(i, val[i - 1], known, n) BY DEF Valued
  <2>2. h \in {x \in 0 .. n : x * Pow2(i) < n}
    <3>0. i \in Nat BY <1>0
    <3>1. h <= h * Pow2(i) /\ h * Pow2(i) \in Nat
      <4> DEFINE w == Pow2(i)
      <4>1. w \in Nat \ {0} BY <3>0, Powers
      <4> HIDE DEF w
      <4>2. w - 1 \in Nat BY <4>1
      <4>3. h * (w - 1) \in Nat BY <4>2
      <4>4. h * w = h * (w - 1) + h BY <4>1
      <4>5. h <= h * w /\ h * w \in Nat BY <4>3, <4>4
      <4> QED BY <4>5 DEF w
    <3>3. h <= n BY <1>0, <1>1, <3>1
    <3> QED BY <1>1, <3>3
  <2> HIDE DEF n
  <2> QED BY <2>1, <2>2 DEF RowFrom
<1>2. ASSUME NEW i \in Nat, i <= n, NEW h \in Nat, h * Pow2(i) < n, Block(i, h) \in DOMAIN known
      PROVE  val[i][h] = lv[i + 1][h + 1]
  <2>1. i \in 0 .. n BY <1>0, <1>2
  <2>2. val[i][h] = known[Block(i, h)] BY <1>1, <1>2, <2>1
  <2> QED BY <1>2, <2>2 DEF Knows
<1>3. 0 \in T
  <2> SUFFICES ASSUME NEW h \in Nat, h * Pow2(0) < n, Exposed(known, 0, h)
               PROVE  val[0][h] = lv[0 + 1][h + 1]
    OBVIOUS
  <2>1. Pow2(0) = 1 /\ h * Pow2(0) = h /\ h < n
    <3>1. h * 1 = h OBVIOUS
    <3> QED BY <3>1, Powers
  <2>2. h \in 0 .. n - 1 BY <1>0, <2>1
  <2>3. PICK b \in DOMAIN known : Holds(b, h) BY <2>2 DEF Knows
  <2>4. PICK i \in Nat : \E g \in Nat : b = Block(i, g) BY <2>3 DEF Knows, IsBlock
  <2>5. PICK g \in Nat : b = Block(i, g) BY <2>4
  <2>6. Pow2(i) <= 1
    <3>1. b.size <= Pow2(0) BY <2>1, <2>3 DEF Exposed
    <3> QED BY <2>1, <2>5, <3>1, BlockIs
  <2>7. i = 0
    <3>1. ~(0 < i)
      <4>1. 0 < i => Pow2(0) < Pow2(i) BY Increasing
      <4>2. Pow2(i) \in Nat BY Powers
      <4> QED BY <2>1, <2>6, <4>1, <4>2
    <3> QED BY <3>1
  <2>8. g = h
    <3>1. g * Pow2(0) = g BY <2>1
    <3>2. g <= h /\ h < g + 1 BY <2>1, <2>3, <2>5, <2>7, <3>1, BlockIs DEF Holds
    <3> QED BY <3>2
  <2>9. Block(0, h) \in DOMAIN known BY <2>3, <2>5, <2>7, <2>8
  <2> QED BY <1>0, <1>2, <2>9
<1>4. ASSUME NEW i \in Nat, i \in T PROVE i + 1 \in T
  <2> SUFFICES ASSUME i + 1 <= n, (i + 1) + 1 <= Len(lv),
                      NEW h \in Nat, h * Pow2(i + 1) < n, Exposed(known, i + 1, h)
               PROVE  val[i + 1][h] = lv[(i + 1) + 1][h + 1]
    OBVIOUS
  <2>1. (i + 1) + 1 = i + 2 /\ i + 2 <= Len(lv) /\ i + 1 <= Len(lv) /\ i + 1 \in Nat
        /\ i <= n /\ i + 1 \in 0 .. n /\ i + 1 # 0 /\ (i + 1) - 1 = i
    BY <1>0
  <2>2. CASE Block(i + 1, h) \in DOMAIN known BY <1>2, <2>1, <2>2
  <2>3. CASE Block(i + 1, h) \notin DOMAIN known
    <3>1. Exposed(known, i, 2 * h) /\ Exposed(known, i, 2 * h + 1)
      BY <2>3, HalvesExposed
    <3>2. h < Len(lv[i + 2]) BY <2>1, NodesAre
    <3>3. (2 * h) * Pow2(i) < n
      <4>1. 2 * h < Len(lv[i + 1]) BY <2>1, <3>2, NodeIs
      <4>2. 2 * h \in Nat OBVIOUS
      <4> QED BY <2>1, <4>1, <4>2, NodesAre
    <3>4. val[i][2 * h] = lv[i + 1][2 * h + 1]
      <4>1. 2 * h \in Nat OBVIOUS
      <4> QED BY <1>4, <2>1, <3>1, <3>3, <4>1
    <3>5. CASE (2 * h + 1) * Pow2(i) < n
      <4>1. 2 * h + 1 \in Nat /\ (2 * h + 1) + 1 = 2 * h + 2 OBVIOUS
      <4>2. val[i][2 * h + 1] = lv[i + 1][2 * h + 2]
        BY <1>4, <2>1, <3>1, <3>5, <4>1
      <4>3. val[i + 1][h] = HPair(val[i][2 * h], val[i][2 * h + 1])
        BY <1>1, <2>1, <2>3, <3>5
      <4>4. lv[i + 2][h + 1] = HPair(lv[i + 1][2 * h + 1], lv[i + 1][2 * h + 2])
        BY <2>1, <3>2, <3>5, NodeIs
      <4> QED BY <2>1, <3>4, <4>2, <4>3, <4>4
    <3>6. CASE ~((2 * h + 1) * Pow2(i) < n)
      <4>1. val[i + 1][h] = HPair(val[i][2 * h], val[i][2 * h])
        BY <1>1, <2>1, <2>3, <3>6
      <4>2. lv[i + 2][h + 1] = HPair(lv[i + 1][2 * h + 1], lv[i + 1][2 * h + 1])
        <5>1. lv[i + 2][h + 1] =
                IF (2 * h + 1) * Pow2(i) < Len(s)
                THEN HPair(lv[i + 1][2 * h + 1], lv[i + 1][2 * h + 2])
                ELSE HPair(lv[i + 1][2 * h + 1], lv[i + 1][2 * h + 1])
          BY <2>1, <3>2, NodeIs
        <5> QED BY <3>6, <5>1
      <4> QED BY <2>1, <3>4, <4>1, <4>2
    <3> QED BY <3>5, <3>6
  <2> QED BY <2>2, <2>3
<1> HIDE DEF T
<1>5. k \in T
  <2>1. k \in Nat OBVIOUS
  <2> QED BY <1>3, <1>4, <2>1, Induction
<1> QED BY <1>5 DEF T

LEMMA CoverRootIs ==
  ASSUME NEW s, NEW lv, Whole(lv, s), NEW known, Knows(known, lv, Len(s))
  PROVE  CoverRoot(known, Len(s)) = lv[Len(lv)][1]
<1> DEFINE n == Len(s)
           top == Len(lv) - 1
<1>1. PICK val : /\ Valued(val, n, known, n)
                 /\ CoverRoot(known, n) = val[Min({k \in 0 .. n : Pow2(k) >= n})][0]
  <2>1. n \in Nat BY WholeIs
  <2>2. \E val : Valued(val, n, known, n) BY <2>1, ValuesExist
  <2> QED BY <2>2 DEF CoverRoot, Valued, RowFrom
<1>2. CoverRoot(known, n) = val[top][0] BY <1>1, TopIs
<1>3. top \in 0 .. n /\ Pow2(top) >= n BY TopIs, Zenon
<1>4. Len(lv) \in Nat \ {0} /\ n \in Nat \ {0} BY WholeIs
<1>5. top \in Nat /\ top + 1 = Len(lv) /\ top + 1 <= Len(lv) BY <1>4
<1> HIDE DEF top
<1>6. 0 * Pow2(top) = 0 /\ Pow2(top) \in Nat
  <2>1. Pow2(top) \in Nat BY <1>5, Powers
  <2> QED BY <2>1
<1>7. Exposed(known, top, 0)
  <2> SUFFICES ASSUME NEW b \in DOMAIN known PROVE b.size <= Pow2(top) BY DEF Exposed
  <2>1. PICK i \in Nat : \E h \in Nat : b = Block(i, h) /\ (h + 1) * Pow2(i) <= n
    BY DEF Knows, IsBlock
  <2>2. PICK h \in Nat : b = Block(i, h) /\ (h + 1) * Pow2(i) <= n BY <2>1
  <2>3. /\ b.size = Pow2(i) /\ (h + 1) * Pow2(i) = h * Pow2(i) + Pow2(i)
        /\ h * Pow2(i) \in Nat /\ Pow2(i) \in Nat
    BY <2>2, BlockIs
  <2> HIDE DEF n
  <2> QED BY <1>3, <1>4, <1>6, <2>2, <2>3
<1>8. val[top][0] = lv[top + 1][0 + 1]
  <2>1. 0 * Pow2(top) < n BY <1>4, <1>6
  <2> QED BY <1>1, <1>3, <1>5, <1>7, <2>1, ValuesAreNodes
<1> QED BY <1>2, <1>5, <1>8

-----------------------------------------------------------------------------
(* What a follower knows.                                                   *)

LEMMA KnownIs ==
  ASSUME NEW s, IsRow(s), s # << >>, NEW m \in 1 .. Len(s) - 1
  PROVE  LET n == Len(s)
             f == Known(m, n, Consistency(s, m)) IN
         /\ DOMAIN f = Range(Cover(m, n))
         /\ \A b \in DOMAIN f : f[b] = SubtreeHash(Levels(s), b)
<1> DEFINE n == Len(s)
           c == Cover(m, n)
           d == Consistency(s, m)
           f == Known(m, n, d)
<1>1. f = [b \in Range(c) |-> d[CHOOSE i \in DOMAIN c : c[i] = b]] BY DEF Known
<1>2. d = [i \in DOMAIN c |-> SubtreeHash(Levels(s), c[i])] BY DEF Consistency
<1> HIDE DEF c, d, f
<1>3. ASSUME NEW b \in Range(c) PROVE f[b] = SubtreeHash(Levels(s), b)
  <2> DEFINE i == CHOOSE i \in DOMAIN c : c[i] = b
  <2>1. \E x \in DOMAIN c : c[x] = b BY DEF Range
  <2>2. i \in DOMAIN c /\ c[i] = b BY <2>1
  <2>3. f[b] = d[i] BY <1>1
  <2> HIDE DEF i
  <2> QED BY <1>2, <2>2, <2>3
<1>4. DOMAIN f = Range(c) BY <1>1
<1> QED BY <1>3, <1>4 DEF c, d, f

LEMMA CoverBlocks ==
  ASSUME NEW n \in Nat, NEW m \in 0 .. n
  PROVE  /\ \A b \in Range(Cover(m, n)) : IsBlock(b, m, n)
         /\ \A x \in m .. n - 1 : \E b \in Range(Cover(m, n)) : Holds(b, x)
<1> DEFINE c == Cover(m, n)
<1>1. IsCover(c, m, n) BY CoverIs
<1> HIDE DEF c
<1>2. DOMAIN c = 1 .. Len(c) BY <1>1, RowIs DEF IsCover
<1> QED BY <1>1, <1>2 DEF IsCover, Range, c

LEMMA WiderBlock ==
  ASSUME NEW b, NEW m \in Nat, NEW n \in Nat, IsBlock(b, m, n), NEW q \in Nat, n <= q
  PROVE  IsBlock(b, 0, q)
<1>1. PICK k \in Nat : \E j \in Nat : b = Block(k, j) /\ (j + 1) * Pow2(k) <= n
  BY DEF IsBlock
<1>2. PICK j \in Nat : b = Block(k, j) /\ (j + 1) * Pow2(k) <= n BY <1>1
<1>3. 0 <= j * Pow2(k) /\ (j + 1) * Pow2(k) <= q
  <2>1. j * Pow2(k) \in Nat /\ Pow2(k) \in Nat /\ (j + 1) * Pow2(k) = j * Pow2(k) + Pow2(k)
    BY BlockIs
  <2> QED BY <1>2, <2>1
<1> QED BY <1>2, <1>3 DEF IsBlock

LEMMA FollowerKnows ==
  ASSUME NEW s, IsRow(s), s # << >>, NEW m \in 1 .. Len(s) - 1,
         NEW o, IsRow(o), Len(o) = m, Starts(o, s)
  PROVE  Knows(Together(Known(m, Len(s), Consistency(s, m)), Seen(o)), Levels(s), Len(s))
<1> DEFINE n == Len(s)  lv == Levels(s)  lo == Levels(o)
           f == Known(m, n, Consistency(s, m))
           g == Seen(o)
           known == Together(f, g)
<1>1. n \in Nat /\ m \in Nat /\ 0 < m /\ m < n /\ o # << >>
  <2>1. n \in Nat BY RowIs
  <2>2. m \in Nat /\ 0 < m /\ m < n BY <2>1
  <2>3. Len(<< >>) = 0 OBVIOUS
  <2>4. o # << >> BY <2>2, <2>3
  <2> QED BY <2>1, <2>2, <2>4
<1>2. Whole(lv, s) /\ Whole(lo, o) BY <1>1, LevelsAre
<1>3. DOMAIN f = Range(Cover(m, n)) /\ \A b \in DOMAIN f : f[b] = SubtreeHash(lv, b)
  BY KnownIs
<1>4. DOMAIN g = Range(Cover(0, m)) /\ \A b \in DOMAIN g : g[b] = SubtreeHash(lo, b)
  BY DEF Seen
<1>5. /\ \A b \in DOMAIN f : IsBlock(b, m, n)
      /\ \A x \in m .. n - 1 : \E b \in DOMAIN f : Holds(b, x)
  <2>1. n \in Nat /\ m \in 0 .. n BY <1>1
  <2> HIDE DEF f, n
  <2> QED BY <1>3, <2>1, CoverBlocks
<1>6. /\ \A b \in DOMAIN g : IsBlock(b, 0, m)
      /\ \A x \in 0 .. m - 1 : \E b \in DOMAIN g : Holds(b, x)
  <2>1. m \in Nat /\ 0 \in 0 .. m BY <1>1
  <2> HIDE DEF g
  <2> QED BY <1>4, <2>1, CoverBlocks
<1>7. /\ DOMAIN known = DOMAIN f \cup DOMAIN g
      /\ \A b \in DOMAIN known : known[b] = IF b \in DOMAIN f THEN f[b] ELSE g[b]
  BY DEF Together
<1> HIDE DEF f, g, known, lv, lo, n
<1>8. \A b \in DOMAIN known : IsBlock(b, 0, n)
  <2>1. \A b \in DOMAIN f : IsBlock(b, 0, n)
    <3>1. n <= n BY <1>1
    <3> QED BY <1>1, <1>5, <3>1, WiderBlock
  <2>2. \A b \in DOMAIN g : IsBlock(b, 0, n)
    <3>1. 0 \in Nat /\ m <= n BY <1>1
    <3> QED BY <1>1, <1>6, <3>1, WiderBlock
  <2> QED BY <1>7, <2>1, <2>2
<1>9. ASSUME NEW k \in Nat, NEW j \in Nat, Block(k, j) \in DOMAIN known
      PROVE  known[Block(k, j)] = lv[k + 1][j + 1]
  <2>1. CASE Block(k, j) \in DOMAIN f
    <3>1. known[Block(k, j)] = SubtreeHash(lv, Block(k, j)) BY <1>3, <1>7, <1>9, <2>1
    <3>2. SubtreeHash(lv, Block(k, j)) = lv[k + 1][j + 1] BY NodeOfBlock
    <3> QED BY <3>1, <3>2
  <2>2. CASE Block(k, j) \notin DOMAIN f
    <3>1. Block(k, j) \in DOMAIN g BY <1>7, <1>9, <2>2
    <3>2. known[Block(k, j)] = lo[k + 1][j + 1]
      BY <1>4, <1>7, <1>9, <2>2, <3>1, NodeOfBlock
    <3>3. (j + 1) * Pow2(k) <= Len(o) BY <1>6, <3>1, BlockEnds
    <3>4. lo[k + 1][j + 1] = lv[k + 1][j + 1] BY <1>2, <3>3, FullNodesStay
    <3> QED BY <3>2, <3>4
  <2> QED BY <2>1, <2>2
<1>10. ASSUME NEW x \in 0 .. n - 1 PROVE \E b \in DOMAIN known : Holds(b, x)
  <2>1. x \in 0 .. m - 1 \/ x \in m .. n - 1 BY <1>1
  <2>2. \E b \in DOMAIN f \cup DOMAIN g : Holds(b, x) BY <1>5, <1>6, <2>1
  <2> QED BY <1>7, <2>2
<1>11. Knows(known, lv, n) BY <1>8, <1>9, <1>10 DEF Knows
<1> QED BY <1>11 DEF f, g, known, lv, n

LEMMA ProofsVerify ==
  ASSUME NEW s, IsRow(s), s # << >>, NEW m \in 1 .. Len(s) - 1,
         NEW o, IsRow(o), Len(o) = m, Starts(o, s)
  PROVE  CoverRoot(Together(Known(m, Len(s), Consistency(s, m)), Seen(o)), Len(s)) = Root(s)
<1>1. Whole(Levels(s), s) BY LevelsAre
<1>2. Root(s) = Levels(s)[Len(Levels(s))][1] BY DEF Root, Last
<1> QED BY <1>1, <1>2, FollowerKnows, CoverRootIs

-----------------------------------------------------------------------------
(* What a block says of the leaves it counts stays so.                      *)
Describes(b, s) ==
  LET n == b.sth.size IN
  /\ n \in 1 .. Len(s) /\ b.sth.first \in Nat
  /\ b.sth.root = Root(SubSeq(s, 1, n))
  /\ 0 < b.sth.first /\ b.sth.first < n => b.proof = Consistency(SubSeq(s, 1, n), b.sth.first)
BlocksDescribe == \A i \in 1 .. Len(blocks) : Describes(blocks[i], leaves)

LEMMA FirstLeaves ==
  ASSUME NEW S, NEW s \in Seq(S), NEW n \in 0 .. Len(s)
  PROVE  /\ SubSeq(s, 1, n) \in Seq(S) /\ Len(SubSeq(s, 1, n)) = n
         /\ \A i \in 1 .. n : SubSeq(s, 1, n)[i] = s[i]
<1>1. Len(s) \in Nat OBVIOUS
<1>2. n \in Nat /\ \A i \in 1 .. n : i \in 1 .. Len(s) BY <1>1
<1>3. SubSeq(s, 1, n) = [i \in 1 .. n |-> s[i]]
  <2>1. SubSeq(s, 1, n) = [i \in 1 .. (1 + n - 1) |-> s[i + 1 - 1]] BY <1>1, <1>2
  <2> QED BY <1>2, <2>1
<1>4. SubSeq(s, 1, n) \in Seq(S) /\ Len(SubSeq(s, 1, n)) = n BY <1>2, <1>3
<1> QED BY <1>3, <1>4

LEMMA SameRow ==
  ASSUME NEW S, NEW s \in Seq(S), NEW o \in Seq(S), Len(s) = Len(o),
         \A i \in 1 .. Len(s) : s[i] = o[i]
  PROVE  s = o
OBVIOUS

LEMMA AddDescribes ==
  ASSUME IInv, BlocksDescribe, NEW p \in Pages, NEW m \in Metas, Add(p, m)
  PROVE  BlocksDescribe'
<1>1. leaves' = Append(leaves, Leaf(m)) /\ blocks' = blocks BY DEF Add, Grown
<1>2. leaves \in Seq(LeafSet) /\ Leaf(m) \in LeafSet BY DEF IInv, TypeOK, LeafSet
<1>3. /\ leaves' \in Seq(LeafSet) /\ Len(leaves) \in Nat /\ Len(leaves') = Len(leaves) + 1
      /\ \A i \in 1 .. Len(leaves) : leaves'[i] = leaves[i]
  BY <1>1, <1>2, AppendProperties, LenProperties
<1>4. ASSUME NEW n \in 1 .. Len(leaves)
      PROVE  n \in 1 .. Len(leaves') /\ SubSeq(leaves', 1, n) = SubSeq(leaves, 1, n)
  <2>1. n \in 0 .. Len(leaves) /\ n \in 0 .. Len(leaves') /\ n \in 1 .. Len(leaves')
        /\ 1 .. n \subseteq 1 .. Len(leaves)
    BY <1>3
  <2>2. /\ SubSeq(leaves, 1, n) \in Seq(LeafSet) /\ Len(SubSeq(leaves, 1, n)) = n
        /\ \A i \in 1 .. n : SubSeq(leaves, 1, n)[i] = leaves[i]
    BY <1>2, <2>1, FirstLeaves
  <2>3. /\ SubSeq(leaves', 1, n) \in Seq(LeafSet) /\ Len(SubSeq(leaves', 1, n)) = n
        /\ \A i \in 1 .. n : SubSeq(leaves', 1, n)[i] = leaves'[i]
    BY <1>3, <2>1, FirstLeaves
  <2>4. \A i \in 1 .. n : SubSeq(leaves', 1, n)[i] = SubSeq(leaves, 1, n)[i]
    BY <1>3, <2>1, <2>2, <2>3
  <2>5. SubSeq(leaves', 1, n) = SubSeq(leaves, 1, n)
    BY <2>2, <2>3, <2>4, SameRow
  <2> QED BY <2>1, <2>5
<1>5. ASSUME NEW b, Describes(b, leaves) PROVE Describes(b, leaves')
  <2>1. b.sth.size \in 1 .. Len(leaves) BY <1>5 DEF Describes
  <2>2. b.sth.size \in 1 .. Len(leaves') /\ SubSeq(leaves', 1, b.sth.size) = SubSeq(leaves, 1, b.sth.size)
    BY <1>4, <2>1
  <2> QED BY <1>5, <2>2 DEF Describes
<1> QED BY <1>1, <1>5 DEF BlocksDescribe

LEMMA FinishDescribes ==
  ASSUME IInv, BlocksDescribe, NEW p \in Pages, Finish(p)
  PROVE  BlocksDescribe'
<1> DEFINE b == [sth |-> TreeHead(p), proof |-> Proof(p)]  n == Len(leaves)
<1>1. blocks' = Append(blocks, b) /\ leaves' = leaves /\ leaves # << >> BY DEF Finish
<1>2. leaves \in Seq(LeafSet) /\ page[p].start \in Nat BY DEF IInv, TypeOK
<1>3. n \in Nat \ {0} BY <1>1, <1>2, EmptySeq
<1>4. /\ b.sth.size = n /\ b.sth.first = page[p].start /\ b.sth.root = Root(leaves)
      /\ b.proof = Proof(p)
  BY DEF TreeHead
<1>5. SubSeq(leaves, 1, n) = leaves
  <2>1. n \in 0 .. Len(leaves) BY <1>3
  <2>2. /\ SubSeq(leaves, 1, n) \in Seq(LeafSet) /\ Len(SubSeq(leaves, 1, n)) = n
        /\ \A i \in 1 .. n : SubSeq(leaves, 1, n)[i] = leaves[i]
    BY <1>2, <2>1, FirstLeaves
  <2> QED BY <1>2, <2>2, SameRow
<1>6. Describes(b, leaves)
  <2>1. 0 < b.sth.first /\ b.sth.first < n => b.proof = Consistency(leaves, b.sth.first)
    BY <1>4 DEF Proof
  <2>2. n \in 1 .. Len(leaves) BY <1>3
  <2> HIDE DEF b
  <2> QED BY <1>2, <1>4, <1>5, <2>1, <2>2 DEF Describes
<1> HIDE DEF b
<1>7. /\ blocks \in Seq(Blocks \cup {b}) /\ b \in Blocks \cup {b}
  <2>1. blocks \in Seq(Blocks) BY DEF IInv, TypeOK
  <2>2. Blocks \subseteq Blocks \cup {b} OBVIOUS
  <2> QED BY <2>1, <2>2
<1>8. /\ Len(blocks) \in Nat /\ Len(blocks') = Len(blocks) + 1
      /\ blocks'[Len(blocks) + 1] = b
      /\ \A i \in 1 .. Len(blocks) : blocks'[i] = blocks[i]
  BY <1>1, <1>7, AppendProperties, LenProperties
<1>9. ASSUME NEW i \in 1 .. Len(blocks') PROVE Describes(blocks'[i], leaves')
  <2>1. CASE i \in 1 .. Len(blocks) BY <1>1, <1>8, <2>1 DEF BlocksDescribe
  <2>2. CASE i = Len(blocks) + 1 BY <1>1, <1>6, <1>8, <2>2
  <2> QED BY <1>8, <2>1, <2>2
<1> QED BY <1>9 DEF BlocksDescribe

LEMMA StepDescribes == IInv /\ BlocksDescribe /\ [Next]_vars => BlocksDescribe'
<1> SUFFICES ASSUME IInv, BlocksDescribe, [Next]_vars PROVE BlocksDescribe'
  OBVIOUS
<1>1. CASE \E p \in Pages, m \in Metas : Add(p, m)
  BY <1>1, AddDescribes
<1>2. CASE \E p \in Pages : Finish(p)
  BY <1>2, FinishDescribes
<1>3. CASE UNCHANGED <<leaves, blocks>>
  BY <1>3 DEF BlocksDescribe
<1> QED
  BY <1>1, <1>2, <1>3 DEF Next, Begin, Free, vars

(* Whatever tree a page began with and whatever was added to it since, by    *)
(* this page or another: from the blocks of the old tree and the digests of  *)
(* the proof the root in the signed head follows, for trees of every size    *)
(* (mcpkg_merkle_b2b32_consistency, mcpkg_repo_page_finish).                 *)
THEOREM ConsistencyVerifies == Spec => []BlocksExtendTheirStart
<1>1. Init => BlocksDescribe
  <2> SUFFICES ASSUME Init PROVE BlocksDescribe
    OBVIOUS
  <2>1. Len(blocks) = 0 BY DEF Init
  <2> QED BY <2>1 DEF BlocksDescribe
<1>2. IInv /\ BlocksDescribe => BlocksExtendTheirStart
  <2> SUFFICES ASSUME IInv, BlocksDescribe, blocks # << >>,
                      0 < Last(blocks).sth.first,
                      Last(blocks).sth.first < Last(blocks).sth.size
               PROVE  LET b == Last(blocks)
                          m == b.sth.first
                          n == b.sth.size IN
                      CoverRoot(Together(Known(m, n, b.proof), Seen(SubSeq(leaves, 1, m))), n)
                        = b.sth.root
    BY DEF BlocksExtendTheirStart
  <2> DEFINE b == Last(blocks)
             m == b.sth.first
             n == b.sth.size
             s == SubSeq(leaves, 1, n)
             o == SubSeq(leaves, 1, m)
  <2>1. Describes(b, leaves)
    <3>1. blocks \in Seq(Blocks) BY DEF IInv, TypeOK
    <3>2. Len(blocks) \in 1 .. Len(blocks) BY <3>1, EmptySeq
    <3> QED BY <3>2 DEF BlocksDescribe, Last
  <2>2. 0 < m /\ m < n OBVIOUS
  <2> HIDE DEF b
  <2>3. /\ n \in 1 .. Len(leaves) /\ m \in Nat /\ b.sth.root = Root(s)
        /\ b.proof = Consistency(s, m)
    BY <2>1, <2>2 DEF Describes
  <2>4. leaves \in Seq(LeafSet) BY DEF IInv, TypeOK
  <2>5. Len(leaves) \in Nat BY <2>4
  <2> HIDE DEF m, n
  <2>6. n \in 0 .. Len(leaves) /\ m \in 0 .. Len(leaves) BY <2>2, <2>3, <2>5
  <2>7. s \in Seq(LeafSet) /\ Len(s) = n /\ \A i \in 1 .. n : s[i] = leaves[i]
    BY <2>4, <2>6, FirstLeaves
  <2>8. o \in Seq(LeafSet) /\ Len(o) = m /\ \A i \in 1 .. m : o[i] = leaves[i]
    BY <2>4, <2>6, FirstLeaves
  <2> HIDE DEF s, o
  <2>9. IsRow(s) /\ IsRow(o) BY <2>7, <2>8 DEF IsRow
  <2>10. s # << >>
    <3>1. Len(<< >>) = 0 OBVIOUS
    <3> QED BY <2>2, <2>3, <2>7, <3>1
  <2>11. m \in 1 .. Len(s) - 1 BY <2>2, <2>3, <2>7
  <2>12. Starts(o, s)
    <3>1. m <= n /\ \A i \in 1 .. m : i \in 1 .. n BY <2>2, <2>3
    <3> QED BY <2>7, <2>8, <3>1 DEF Starts
  <2>13. CoverRoot(Together(Known(m, Len(s), Consistency(s, m)), Seen(o)), Len(s)) = Root(s)
    BY <2>8, <2>9, <2>10, <2>11, <2>12, ProofsVerify
  <2>14. CoverRoot(Together(Known(m, n, b.proof), Seen(o)), n) = b.sth.root
    BY <2>3, <2>7, <2>13
  <2> QED BY <2>14 DEF b, m, n, o
<1>3. Spec => []BlocksDescribe
  BY Invariance, <1>1, StepDescribes, PTL DEF Spec
<1> QED BY <1>2, <1>3, Invariance, PTL

=============================================================================
