----------------------------- MODULE OrderedMap -----------------------------
(***************************************************************************)
(* libmcpkg/container/mcpkg_map.c: a map ordered by its keys, a red-black  *)
(* tree whose nodes know their parents, with limits on pairs and bytes and *)
(* an iterator that is a pointer to the next node.                         *)
(*                                                                         *)
(* A node is named by its key, which never changes while the node lives.   *)
(* A tree is a record of its root and the nodes that are allocated.  The   *)
(* functions come in mirrored pairs; a side stands for which of the two.   *)
(* A colour is 0 for black and 1 for red.                                  *)
(* An operator named Op_Slip is Op with a slip; the mutants of             *)
(* PROJECT.json put it in the place of Op.                                 *)
(***************************************************************************)
EXTENDS Integers, FiniteSets, Functions

CONSTANTS
  Keys,             \* integers, in the order of strcmp
  Values, NoValue,
  Null,
  NodeBytes,        \* sizeof(struct rb_node) + value_size
  PairLimits, ByteLimits

ASSUME MapAssumption ==
  /\ Keys \subseteq Nat \ {0} /\ NoValue \notin Values /\ Null \notin Keys
  /\ NodeBytes \in Nat \ {0} /\ PairLimits \subseteq Nat \ {0}
  /\ ByteLimits \subseteq {b \in Nat : b >= NodeBytes}

VARIABLES
  tree, size, max_pairs, max_bytes,
  freed, last,
  iterating, it,    \* an iteration is under way, at this node
  due               \* a key that it has still to return, or Null

iteration == <<iterating, it, due>>
limits == <<max_pairs, max_bytes>>
vars == <<tree, size, limits, freed, last, iteration>>

Sides == {"left", "right"}
Other(side) == IF side = "left" THEN "right" ELSE "left"

Leaf(parent, v) ==
  [left |-> Null, right |-> Null, parent |-> parent, color |-> 1, val |-> v]
EmptyTree == [root |-> Null, node |-> << >>]

-----------------------------------------------------------------------------
(* Looking up.  "next" leads from a node to one nearer to the end of a walk, *)
(* or to Null at the end.                                                    *)

Child(t, n, side) == IF n = Null THEN Null ELSE t.node[n][side]
Parent(t, n) == Child(t, n, "parent")
NodeColor(t, n) == IF n = Null THEN 0 ELSE t.node[n].color
Red(t, n) == NodeColor(t, n) = 1

Last(next, n) ==
  LET end[x \in DOMAIN next] == IF next[x] = Null THEN x ELSE end[next[x]] IN end[n]

(* The way down that the key k takes. *)
Toward(t, k) ==
  [n \in DOMAIN t.node |->
     IF n = k THEN Null ELSE t.node[n][IF k < n THEN "left" ELSE "right"]]
FindNode(t, k) ==
  IF t.root # Null /\ Last(Toward(t, k), t.root) = k THEN k ELSE Null

(* The last node on the way down one side: tree_min, or the last of all.    *)
Outermost(t, n, side) == Last([x \in DOMAIN t.node |-> t.node[x][side]], n)
First == IF tree.root = Null THEN Null ELSE Outermost(tree, tree.root, "left")

(* The parent of the first node on the way up that is no right child. *)
Climb(t, n) ==
  Parent(t, Last([x \in DOMAIN t.node |->
                    IF x = Child(t, Parent(t, x), "right") THEN Parent(t, x) ELSE Null], n))
Successor_Slip(t, n) ==
  IF t.node[n].right # Null THEN Outermost(t, t.node[n].right, "left") ELSE Parent(t, n)
Successor(t, n) ==
  IF t.node[n].right # Null THEN Outermost(t, t.node[n].right, "left") ELSE Climb(t, n)

(* The last node on the way down at which the key is not the greater one.   *)
LowerBound(t, k) ==
  LET bound[n \in DOMAIN t.node \cup {Null}] ==
        IF n = Null THEN Null
        ELSE IF k > n THEN bound[t.node[n].right]
        ELSE IF bound[t.node[n].left] = Null THEN n ELSE bound[t.node[n].left]
  IN bound[t.root]

-----------------------------------------------------------------------------
(* Pointers and colours. *)

Painted(t, n, hue) ==
  IF n = Null THEN t ELSE [t EXCEPT !.node[n].color = hue]
WithParent(t, n, p) ==
  IF n = Null THEN t ELSE [t EXCEPT !.node[n].parent = p]
WithChild(t, n, side, c) == [t EXCEPT !.node[n][side] = c]
SideOf(t, n) == IF n = Child(t, Parent(t, n), "left") THEN "left" ELSE "right"

(* transplant: v takes the place of u. *)
Transplant(t, u, v) ==
  LET p == Parent(t, u) IN
  WithParent(IF p = Null THEN [t EXCEPT !.root = v] ELSE WithChild(t, p, SideOf(t, u), v),
             v, p)

(* rotate_left, rotate_right: x goes down on that side. *)
Rotated(t, x, side) ==
  LET y == t.node[x][Other(side)]
      c == t.node[y][side]
      lent == WithParent(WithChild(t, x, Other(side), c), c, x)
  IN WithParent(WithChild(Transplant(lent, x, y), y, side, x), x, y)

-----------------------------------------------------------------------------
(* The loops of insert_fixup and delete_fixup.  A turn of a loop that is     *)
(* over changes nothing; there are never more turns than nodes.              *)

(* z is an outer grandchild: its parent goes up. *)
Hoisted(t, z, side) ==
  LET p == Parent(t, z)
      g == Parent(t, p)
  IN Rotated(Painted(Painted(t, p, 0), g, 1), g, Other(side))

InsertTurn(s) ==
  LET t == s.tree  z == s.z
      p == Parent(t, z)
      g == Parent(t, p)
      side == SideOf(t, p)
      y == Child(t, g, Other(side)) IN
  IF ~Red(t, p) THEN s
  ELSE IF Red(t, y)
  THEN [tree |-> Painted(Painted(Painted(t, p, 0), y, 0), g, 1), z |-> g]
  ELSE IF z = Child(t, p, Other(side))
  THEN [tree |-> Hoisted(Rotated(t, p, side), p, side), z |-> p]
  ELSE [tree |-> Hoisted(t, z, side), z |-> z]

InsertFixup(t, z) ==
  LET run[i \in 0 .. Cardinality(DOMAIN t.node)] ==
        IF i = 0 THEN [tree |-> t, z |-> z] ELSE InsertTurn(run[i - 1])
      end == run[Cardinality(DOMAIN t.node)].tree
  IN Painted(end, end.root, 0)

(* A red sibling of p's child on this side goes above p. *)
Blackened(t, p, side) ==
  LET w == Child(t, p, Other(side)) IN
  IF Red(t, w) THEN Rotated(Painted(Painted(t, w, 0), p, 1), p, side) ELSE t

(* The sibling's near child, if only that one is red, goes above it. *)
Straightened(t, p, side) ==
  LET w == Child(t, p, Other(side))
      near == Child(t, w, side) IN
  IF Red(t, Child(t, w, Other(side))) THEN t
  ELSE Rotated(Painted(Painted(t, near, 0), w, 1), w, Other(side))

(* The sibling takes the place and the colour of p. *)
Lifted(t, p, side) ==
  LET w == Child(t, p, Other(side))
      far == Child(t, w, Other(side))
  IN Rotated(Painted(Painted(Painted(t, w, NodeColor(t, p)), p, 0), far, 0), p, side)

(* x lacks a black node above it; it may be Null, so its parent comes too.  *)
DeleteTurn_Slip(s) ==
  LET x == s.x  p == s.p
      side == IF x = Child(s.tree, p, "left") THEN "left" ELSE "right"
      t == s.tree
      w == Child(t, p, Other(side)) IN
  IF x = s.tree.root \/ Red(s.tree, x) THEN s
  ELSE IF ~Red(t, Child(t, w, side)) /\ ~Red(t, Child(t, w, Other(side)))
  THEN [tree |-> Painted(t, w, 1), x |-> p, p |-> Parent(t, p)]
  ELSE LET turned == Lifted(Straightened(t, p, side), p, side)
       IN [tree |-> turned, x |-> turned.root, p |-> Null]
DeleteTurn(s) ==
  LET x == s.x  p == s.p
      side == IF x = Child(s.tree, p, "left") THEN "left" ELSE "right"
      t == Blackened(s.tree, p, side)
      w == Child(t, p, Other(side)) IN
  IF x = s.tree.root \/ Red(s.tree, x) THEN s
  ELSE IF ~Red(t, Child(t, w, side)) /\ ~Red(t, Child(t, w, Other(side)))
  THEN [tree |-> Painted(t, w, 1), x |-> p, p |-> Parent(t, p)]
  ELSE LET turned == Lifted(Straightened(t, p, side), p, side)
       IN [tree |-> turned, x |-> turned.root, p |-> Null]

DeleteFixup(t, x, p) ==
  LET run[i \in 0 .. Cardinality(DOMAIN t.node)] ==
        IF i = 0 THEN [tree |-> t, x |-> x, p |-> p] ELSE DeleteTurn(run[i - 1])
      end == run[Cardinality(DOMAIN t.node)]
  IN Painted(end.tree, end.x, 0)

-----------------------------------------------------------------------------
(* Insertion and removal of a node. *)

With(t, k, leaf) ==
  [t EXCEPT !.node = [n \in DOMAIN t.node \cup {k} |-> IF n = k THEN leaf ELSE t.node[n]]]

Inserted(t, k, v) ==
  LET p == IF t.root = Null THEN Null ELSE Last(Toward(t, k), t.root)
      grown == With(t, k, Leaf(p, v)) IN
  InsertFixup(IF p = Null THEN [grown EXCEPT !.root = k]
              ELSE WithChild(grown, p, IF k < p THEN "left" ELSE "right", k), k)

Without(t, z) == [t EXCEPT !.node = Restrict(@, DOMAIN @ \ {z})]

(* With two children, the least node y of the right subtree takes z's place. *)
Removed(t, z) ==
  LET l == t.node[z].left  r == t.node[z].right IN
  IF l = Null \/ r = Null
  THEN LET x == IF l = Null THEN r ELSE l
           cut == Without(Transplant(t, z, x), z)
       IN IF Red(t, z) THEN cut ELSE DeleteFixup(cut, x, t.node[z].parent)
  ELSE LET y == Outermost(t, r, "left")
           x == t.node[y].right
           near == t.node[y].parent = z
           out == IF near THEN WithParent(t, x, y)
                  ELSE LET moved == Transplant(t, y, x)
                           below == moved.node[z].right
                       IN WithParent(WithChild(moved, y, "right", below), below, y)
           placed == Transplant(out, z, y)
           full == Painted(WithParent(WithChild(placed, y, "left", l), l, y), y, NodeColor(t, z))
       IN IF Red(t, y) THEN Without(full, z)
          ELSE DeleteFixup(Without(full, z), x, IF near THEN y ELSE t.node[y].parent)

-----------------------------------------------------------------------------
(* RedBlack shows that a search finds each of these. *)
Content(t) == [k \in DOMAIN t.node |-> t.node[k].val]
BM == INSTANCE BoundedMap WITH map <- Content(tree)

(* mcpkg_map_new. *)
Init ==
  /\ tree = EmptyTree /\ size = 0
  /\ iterating = FALSE /\ it = Null /\ due = Null
  /\ max_pairs \in PairLimits /\ max_bytes \in ByteLimits
  /\ freed = FALSE /\ last = BM!Done("new", "ok")

Found(k) == FindNode(tree, k) # Null

(* mcpkg_map_set: a key it has is replaced, whatever the limits. *)
Replace(k, v) ==
  /\ Found(k)
  /\ tree' = [tree EXCEPT !.node[k].val = v]
  /\ last' = BM!Answer("set", k, "ok", v)
  /\ UNCHANGED <<size, limits, freed, iteration>>

RoomFor(n) == n <= max_pairs /\ n * NodeBytes <= max_bytes

Insert_Slip(k, v) ==
  /\ ~Found(k)
  /\ IF ~RoomFor(size + 1)
     THEN last' = BM!Answer("set", k, "limit", v) /\ UNCHANGED <<tree, size>>
     ELSE /\ tree' = Inserted(tree, k, v) /\ size' = size + 1
          /\ last' \in {BM!Answer("set", k, res, v) : res \in {"ok", "nomem"}}
  /\ UNCHANGED <<limits, freed, iteration>>
Insert(k, v) ==
  /\ ~Found(k)
  /\ IF ~RoomFor(size + 1)
     THEN last' = BM!Answer("set", k, "limit", v) /\ UNCHANGED <<tree, size>>
     ELSE \/ last' = BM!Answer("set", k, "nomem", v) /\ UNCHANGED <<tree, size>>
          \/ /\ tree' = Inserted(tree, k, v) /\ size' = size + 1
             /\ last' = BM!Answer("set", k, "ok", v)
  /\ UNCHANGED <<limits, freed, iteration>>

Get(k) ==
  /\ Found(k) /\ last' = BM!Answer("get", k, "ok", tree.node[k].val)
  /\ UNCHANGED <<tree, size, limits, freed, iteration>>

NotFound(op, k) ==
  /\ ~Found(k) /\ last' = BM!Answer(op, k, "notfound", NoValue)
  /\ UNCHANGED <<tree, size, limits, freed, iteration>>

(* When the node goes that the iterator is at, the iteration is over: the  *)
(* caller may go on only if it removed no key that is still to come.        *)
Stopped(on) ==
  /\ iterating' = on
  /\ it' = IF on THEN it ELSE Null

Remove(k) ==
  /\ Found(k)
  /\ tree' = Removed(tree, k) /\ size' = size - 1
  /\ last' = BM!Answer("remove", k, "ok", tree.node[k].val)
  /\ Stopped(iterating /\ k # it)
  /\ due' = IF k \in {it, due} THEN Null ELSE due
  /\ UNCHANGED <<limits, freed>>

SetLimits(p, b) ==
  /\ IF size > p \/ size * NodeBytes > b
     THEN last' = BM!Done("limits", "limit") /\ UNCHANGED limits
     ELSE last' = BM!Done("limits", "ok") /\ max_pairs' = p /\ max_bytes' = b
  /\ UNCHANGED <<tree, size, freed, iteration>>

Free ==
  /\ freed' = TRUE /\ tree' = EmptyTree /\ size' = 0
  /\ last' = BM!Done("free", "ok") /\ Stopped(FALSE) /\ due' = Null
  /\ UNCHANGED limits

(* mcpkg_map_iter_begin, _seek, _next. *)
Begin(n, keys) ==
  /\ iterating' = TRUE /\ it' = n /\ due' \in keys \cup {Null}
  /\ UNCHANGED <<tree, size, limits, freed, last>>
IterBegin == Begin(First, DOMAIN tree.node)
IterSeek(k) == Begin(LowerBound(tree, k), {n \in DOMAIN tree.node : n >= k})

IterNext ==
  /\ iterating /\ it # Null
  /\ it' = Successor(tree, it) /\ due' = IF due = it THEN Null ELSE due
  /\ UNCHANGED <<tree, size, limits, freed, last, iterating>>

Next ==
  /\ ~freed
  /\ \/ \E k \in Keys :
          \/ \E v \in Values : Replace(k, v) \/ Insert(k, v)
          \/ Remove(k) \/ Get(k) \/ IterSeek(k)
          \/ \E op \in {"remove", "get"} : NotFound(op, k)
     \/ IterBegin \/ IterNext
     \/ \E p \in PairLimits, b \in ByteLimits : SetLimits(p, b)
     \/ Free

Spec == Init /\ [][Next]_vars

-----------------------------------------------------------------------------
(* The black nodes on the way down the left side, Null counting as one.     *)
BlackHeight(t, n) ==
  LET height[x \in DOMAIN t.node \cup {Null}] ==
        IF x = Null THEN 1 ELSE height[t.node[x].left] + 1 - NodeColor(t, x)
  IN height[n]

(* After every insertion and removal, whichever of the mirrored cases it    *)
(* went through: children and parents agree, every allocated node hangs in  *)
(* the tree where a search looks for it, no red node has a red child, and   *)
(* the two subtrees of a node have as many black nodes on every way down.   *)
RedBlack ==
  /\ ~Red(tree, tree.root) /\ size = Cardinality(DOMAIN tree.node)
  /\ tree.root # Null => tree.node[tree.root].parent = Null
  /\ \A n \in DOMAIN tree.node :
       /\ FindNode(tree, n) = n
       /\ \A side \in Sides :
            LET c == tree.node[n][side] IN
            c # Null => tree.node[c].parent = n /\ ~(Red(tree, n) /\ Red(tree, c))
       /\ BlackHeight(tree, tree.node[n].left) = BlackHeight(tree, tree.node[n].right)

(* An iteration returns the keys in ascending order and none of those that  *)
(* stay in the map is left out, although the caller inserts and removes     *)
(* keys and the tree turns under the iterator; the node the iterator is at  *)
(* was not freed.                                                           *)
IteratorSound ==
  [][/\ iterating' => IF it' = Null THEN due' = Null
                      ELSE it' \in DOMAIN tree'.node /\ (due' # Null => due' >= it')
     /\ IterNext /\ it' # Null => it' > it]_vars

(* The comments of mcpkg_map.h, call by call: set, get and remove answer as *)
(* a map would, and a refused set changes nothing.                          *)
ImplementsBoundedMap == BM!Spec
=============================================================================
