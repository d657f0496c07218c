-------------------------- MODULE OrderedMapProofs --------------------------
(***************************************************************************)
(* An ordered map is a red-black tree after every call, whatever its keys; *)
(* its iterator leaves out no key, and it answers as a map would.          *)
(*                                                                         *)
(* The argument: sub names for every node the nodes that hang under it, bh *)
(* its black height.  Shape says that sub is what the links say and that   *)
(* it is ordered, Balanced adds the colours, Growing and Lacking are what  *)
(* the two loops keep.  A rotation regroups sub and nothing else.          *)
(***************************************************************************)
EXTENDS OrderedMap, FiniteSetTheorems, WellFoundedInduction, TLAPS

-----------------------------------------------------------------------------
(* Numbers.                                                                *)

LEMMA Least ==
  ASSUME NEW T, T \subseteq Nat, T # {}
  PROVE  \E x \in T : \A y \in T : ~(y < x)
<1> DEFINE R == {q \in Nat \X Nat : q[1] < q[2]}
<1>1. IsWellFoundedOn(R, Nat)
  BY NatLessThanWellFounded DEF OpToRel
<1>2. ASSUME NEW x \in Nat, NEW y \in Nat, x < y PROVE <<x, y>> \in R
  <2>1. <<x, y>> \in Nat \X Nat /\ <<x, y>>[1] = x /\ <<x, y>>[2] = y
    OBVIOUS
  <2> QED
    BY <1>2, <2>1, Zenon
<1> HIDE DEF R
<1>3. PICK x \in T : \A y \in T : ~(<<y, x>> \in R)
  BY <1>1, WFMin
<1> QED
  BY <1>2, <1>3

(* Induction over numbers, for a set.                                       *)
LEMMA Induction ==
  ASSUME NEW T, 0 \in T, \A n \in Nat : n \in T => n + 1 \in T
  PROVE  \A n \in Nat : n \in T
<1> SUFFICES ASSUME Nat \ T # {} PROVE FALSE
  OBVIOUS
<1>1. PICK x \in Nat \ T : \A y \in Nat \ T : ~(y < x)
  BY Least
<1>2. x - 1 \in Nat /\ x - 1 < x /\ x = (x - 1) + 1
  BY <1>1
<1>3. x - 1 \in T
  BY <1>1, <1>2
<1> QED
  BY <1>1, <1>2, <1>3

-----------------------------------------------------------------------------
(* The parts of a tree.                                                    *)

Nodes(t) == DOMAIN t.node
Links(t) == Nodes(t) \cup {Null}
Kid(t, n, s) == t.node[n][s]
Par(t, n) == t.node[n].parent
Hue(t, n) == t.node[n].color
Val(t, n) == t.node[n].val

Cell(L) == [left : L, right : L, parent : L, color : {0, 1}, val : Values]
Typed(t) ==
  /\ t = [root |-> t.root, node |-> t.node]
  /\ t.node \in [Nodes(t) -> Cell(Links(t))]
  /\ t.root \in Links(t) /\ Nodes(t) \subseteq Keys /\ IsFiniteSet(Nodes(t))

(* The nodes are the same, and what they hold. *)
SameKids(t, u) == \A n \in Nodes(t), s \in Sides : Kid(u, n, s) = Kid(t, n, s)
SamePars(t, u) == \A n \in Nodes(t) : Par(u, n) = Par(t, n)
SameHues(t, u) == \A n \in Nodes(t) : Hue(u, n) = Hue(t, n)
SameVals(t, u) == Nodes(u) = Nodes(t) /\ \A n \in Nodes(t) : Val(u, n) = Val(t, n)

LEMMA TypedParts ==
  ASSUME NEW t, Typed(t)
  PROVE  /\ t.root \in Links(t) /\ Nodes(t) \subseteq Keys /\ IsFiniteSet(Nodes(t))
         /\ \A n \in Nodes(t) : /\ Par(t, n) \in Links(t) /\ Hue(t, n) \in {0, 1}
                                /\ Val(t, n) \in Values
         /\ \A n \in Nodes(t), s \in Sides : Kid(t, n, s) \in Links(t)
<1>1. \A n \in Nodes(t) : t.node[n] \in Cell(Links(t)) BY DEF Typed
<1>2. \A n \in Nodes(t), s \in Sides : Kid(t, n, s) \in Links(t)
  BY <1>1 DEF Sides, Kid, Cell
<1>3. \A n \in Nodes(t) : /\ Par(t, n) \in Links(t) /\ Hue(t, n) \in {0, 1}
                          /\ Val(t, n) \in Values
  BY <1>1 DEF Par, Hue, Val, Cell
<1> QED BY <1>2, <1>3 DEF Typed

LEMMA NullIsNone == ASSUME NEW t, Typed(t) PROVE Null \notin Nodes(t)
BY MapAssumption DEF Typed

LEMMA NodesAreNat == ASSUME NEW t, Typed(t) PROVE Nodes(t) \subseteq Nat \ {0}
BY MapAssumption DEF Typed

(* Setting one field of one node. *)
LEMMA ChildSet ==
  ASSUME NEW t, Typed(t), NEW n \in Nodes(t), NEW s \in Sides, NEW c \in Links(t),
         NEW u, u = WithChild(t, n, s, c)
  PROVE  /\ Typed(u) /\ u.root = t.root /\ SamePars(t, u) /\ SameHues(t, u) /\ SameVals(t, u)
         /\ \A m \in Nodes(t), r \in Sides :
              Kid(u, m, r) = IF m = n /\ r = s THEN c ELSE Kid(t, m, r)
<1> DEFINE e == [t.node[n] EXCEPT ![s] = c]  f == [t.node EXCEPT ![n] = e]
<1>1. u.root = t.root /\ u.node = f /\ u = [root |-> u.root, node |-> u.node]
  BY DEF WithChild, Typed
<1>2. t.node[n] \in Cell(Links(t)) BY DEF Typed
<1>3. /\ e \in Cell(Links(t)) /\ e.parent = t.node[n].parent /\ e.color = t.node[n].color
      /\ e.val = t.node[n].val /\ \A r \in Sides : e[r] = IF r = s THEN c ELSE t.node[n][r]
  BY <1>2 DEF Cell, Sides
<1> HIDE DEF e
<1>4. DOMAIN f = Nodes(t) /\ \A m \in Nodes(t) : f[m] = IF m = n THEN e ELSE t.node[m]
  BY DEF Typed, Nodes
<1>5. f \in [Nodes(t) -> Cell(Links(t))] BY <1>3 DEF Typed
<1> HIDE DEF f
<1>6. Nodes(u) = Nodes(t) BY <1>1, <1>4 DEF Nodes
<1>7. Typed(u) BY <1>1, <1>5, <1>6 DEF Typed, Links
<1> QED BY <1>1, <1>3, <1>4, <1>6, <1>7
        DEF SamePars, SameHues, SameVals, Kid, Par, Hue, Val

LEMMA ParentSet ==
  ASSUME NEW t, Typed(t), NEW n \in Links(t), NEW p \in Links(t), NEW u, u = WithParent(t, n, p)
  PROVE  /\ Typed(u) /\ u.root = t.root /\ SameKids(t, u) /\ SameHues(t, u) /\ SameVals(t, u)
         /\ \A m \in Nodes(t) : Par(u, m) = IF m = n THEN p ELSE Par(t, m)
<1>1. CASE n = Null
  BY <1>1, NullIsNone DEF WithParent, SameKids, SameHues, SameVals
<1>2. CASE n \in Nodes(t)
  <2> DEFINE e == [t.node[n] EXCEPT !.parent = p]  f == [t.node EXCEPT ![n] = e]
  <2>1. u.root = t.root /\ u.node = f /\ u = [root |-> u.root, node |-> u.node]
    BY <1>2, NullIsNone DEF WithParent, Typed
  <2>2. t.node[n] \in Cell(Links(t)) BY <1>2 DEF Typed
  <2>3. /\ e \in Cell(Links(t)) /\ e.parent = p /\ e.color = t.node[n].color
        /\ e.val = t.node[n].val /\ \A r \in Sides : e[r] = t.node[n][r]
    BY <2>2 DEF Cell, Sides
  <2> HIDE DEF e
  <2>4. DOMAIN f = Nodes(t) /\ \A m \in Nodes(t) : f[m] = IF m = n THEN e ELSE t.node[m]
    BY DEF Typed, Nodes
  <2>5. f \in [Nodes(t) -> Cell(Links(t))] BY <2>3 DEF Typed
  <2> HIDE DEF f
  <2>6. Nodes(u) = Nodes(t) BY <2>1, <2>4 DEF Nodes
  <2>7. Typed(u) BY <2>1, <2>5, <2>6 DEF Typed, Links
  <2> QED BY <2>1, <2>3, <2>4, <2>6, <2>7
          DEF SameKids, SameHues, SameVals, Kid, Par, Hue, Val
<1> QED BY <1>1, <1>2 DEF Links

LEMMA PaintedIs ==
  ASSUME NEW t, Typed(t), NEW n, n # Null, NEW h, NEW u, u = Painted(t, n, h)
  PROVE  /\ u.root = t.root /\ u = [root |-> u.root, node |-> u.node]
         /\ u.node = [t.node EXCEPT ![n] = [t.node[n] EXCEPT !.color = h]]
<1>1. u = [t EXCEPT !.node[n].color = h] BY DEF Painted
<1>2. t = [root |-> t.root, node |-> t.node] BY DEF Typed
<1> QED BY <1>1, <1>2

LEMMA HueSet ==
  ASSUME NEW t, Typed(t), NEW n \in Links(t), NEW h \in {0, 1}, NEW u, u = Painted(t, n, h)
  PROVE  /\ Typed(u) /\ u.root = t.root /\ SameKids(t, u) /\ SamePars(t, u) /\ SameVals(t, u)
         /\ \A m \in Nodes(t) : Hue(u, m) = IF m = n THEN h ELSE Hue(t, m)
<1>1. CASE n = Null
  <2>1. u = t BY <1>1 DEF Painted
  <2>2. \A m \in Nodes(t) : m # n BY <1>1, NullIsNone
  <2>3. SameKids(t, u) /\ SamePars(t, u) /\ SameVals(t, u)
    BY <2>1 DEF SameKids, SamePars, SameVals
  <2> QED BY <2>1, <2>2, <2>3
<1>2. CASE n \in Nodes(t)
  <2> DEFINE e == [t.node[n] EXCEPT !.color = h]  f == [t.node EXCEPT ![n] = e]
  <2>1. u.root = t.root /\ u.node = f /\ u = [root |-> u.root, node |-> u.node]
    BY <1>2, NullIsNone, PaintedIs
  <2>2. t.node[n] \in Cell(Links(t)) BY <1>2 DEF Typed
  <2>3. /\ e \in Cell(Links(t)) /\ e.parent = t.node[n].parent /\ e.color = h
        /\ e.val = t.node[n].val /\ \A r \in Sides : e[r] = t.node[n][r]
    BY <2>2 DEF Cell, Sides
  <2> HIDE DEF e
  <2>4. DOMAIN f = Nodes(t) /\ \A m \in Nodes(t) : f[m] = IF m = n THEN e ELSE t.node[m]
    BY DEF Typed, Nodes
  <2>5. f \in [Nodes(t) -> Cell(Links(t))] BY <2>3 DEF Typed
  <2> HIDE DEF f
  <2>6. Nodes(u) = Nodes(t) BY <2>1, <2>4 DEF Nodes
  <2>7. Typed(u) BY <2>1, <2>5, <2>6 DEF Typed, Links
  <2> QED BY <2>1, <2>3, <2>4, <2>6, <2>7
          DEF SameKids, SamePars, SameVals, Kid, Par, Hue, Val
<1> QED BY <1>1, <1>2 DEF Links

LEMMA RootSet ==
  ASSUME NEW t, Typed(t), NEW r \in Links(t), NEW u, u = [t EXCEPT !.root = r]
  PROVE  /\ Typed(u) /\ u.root = r
         /\ SameKids(t, u) /\ SamePars(t, u) /\ SameHues(t, u) /\ SameVals(t, u)
<1>1. u = [root |-> r, node |-> t.node] BY DEF Typed
<1>2. u.root = r /\ u.node = t.node BY <1>1
<1>3. Nodes(u) = Nodes(t) BY <1>2 DEF Nodes
<1> QED BY <1>1, <1>2, <1>3
        DEF Typed, Links, SameKids, SamePars, SameHues, SameVals, Kid, Par, Hue, Val

-----------------------------------------------------------------------------
(* The two sides.                                                          *)

Before(s, j, n) == IF s = "left" THEN j < n ELSE j > n

LEMMA SidesAre ==
  /\ \A s \in Sides : /\ Other(s) \in Sides /\ Other(s) # s /\ Other(Other(s)) = s
                      /\ \A r \in Sides : r = s \/ r = Other(s)
  /\ "left" \in Sides /\ "right" \in Sides
BY DEF Sides, Other

LEMMA BeforeIs ==
  ASSUME NEW s \in Sides, NEW i \in Nat, NEW j \in Nat
  PROVE  /\ Before(s, i, j) <=> Before(Other(s), j, i)
         /\ ~(Before(s, i, j) /\ Before(Other(s), i, j))
         /\ i # j <=> (Before(s, i, j) \/ Before(Other(s), i, j))
         /\ \A n \in Nat : Before(s, i, j) /\ Before(s, j, n) => Before(s, i, n)
BY DEF Sides, Other, Before

-----------------------------------------------------------------------------
(* The shape.  sub[n] are the nodes that hang under n, n itself among them. *)

Below(t, sub, n, s, j) == Kid(t, n, s) # Null /\ j \in sub[Kid(t, n, s)]
Linked(t) ==
  \A n \in Nodes(t), s \in Sides : Kid(t, n, s) # Null => Par(t, Kid(t, n, s)) = n
Rooted(t, sub) ==
  IF t.root = Null THEN Nodes(t) = {}
  ELSE Par(t, t.root) = Null /\ sub[t.root] = Nodes(t)
Split(t, sub) ==
  \A n, j \in Nodes(t) :
    j \in sub[n] <=> j = n \/ \E s \in Sides : Below(t, sub, n, s, j)
Ordered(t, sub) ==
  \A n, j \in Nodes(t), s \in Sides : Below(t, sub, n, s, j) => Before(s, j, n)
Shape(t, sub) ==
  /\ Typed(t) /\ sub \in [Nodes(t) -> SUBSET Nodes(t)]
  /\ Linked(t) /\ Rooted(t, sub) /\ Split(t, sub) /\ Ordered(t, sub)

Weight(sub, n) == Cardinality(sub[n])

(* A node hangs under itself, and no more nodes do than there are.          *)
LEMMA SubIs ==
  ASSUME NEW t, NEW sub, Shape(t, sub), NEW n \in Nodes(t)
  PROVE  /\ n \in sub[n] /\ sub[n] \subseteq Nodes(t) /\ IsFiniteSet(sub[n])
         /\ Weight(sub, n) \in Nat /\ Weight(sub, n) <= Cardinality(Nodes(t))
         /\ Cardinality(Nodes(t)) \in Nat /\ Weight(sub, n) >= 1
<1>1. n \in sub[n] /\ sub[n] \subseteq Nodes(t) BY DEF Shape, Split
<1>2. IsFiniteSet(Nodes(t)) BY DEF Shape, Typed
<1>3. IsFiniteSet(sub[n]) /\ Cardinality(sub[n]) <= Cardinality(Nodes(t))
  BY <1>1, <1>2, FS_Subset
<1>4. Cardinality(sub[n]) # 0 BY <1>1, <1>3, FS_EmptySet
<1> QED BY <1>1, <1>2, <1>3, <1>4, FS_CardinalityType DEF Weight

(* A child is another node, and hangs with its own under its parent.        *)
LEMMA KidIs ==
  ASSUME NEW t, NEW sub, Shape(t, sub), NEW n \in Nodes(t), NEW s \in Sides,
         Kid(t, n, s) # Null
  PROVE  LET c == Kid(t, n, s) IN
         /\ c \in Nodes(t) /\ Par(t, c) = n /\ c # n /\ Before(s, c, n)
         /\ sub[c] \subseteq sub[n] /\ n \notin sub[c] /\ Weight(sub, c) < Weight(sub, n)
         /\ \A j \in sub[c] : /\ j \in Nodes(t) /\ Before(s, j, n)
                              /\ ~Below(t, sub, n, Other(s), j)
<1> DEFINE c == Kid(t, n, s)
<1>1. c \in Nodes(t) /\ Par(t, c) = n BY TypedParts DEF Shape, Linked, Links
<1>2. \A j \in sub[c] : j \in Nodes(t) /\ Below(t, sub, n, s, j) /\ j \in sub[n] /\ Before(s, j, n)
  BY <1>1, SubIs DEF Shape, Below, Split, Ordered
<1>3. n \in Nat /\ \A j \in sub[c] : j \in Nat BY <1>2, NodesAreNat DEF Shape
<1>4. ~Before(s, n, n) BY <1>3, BeforeIs
<1>5. n \notin sub[c] BY <1>2, <1>4
<1>6. c \in sub[c] BY <1>1, SubIs
<1>7. sub[c] \subseteq sub[n] \ {n} /\ n \in sub[n] /\ IsFiniteSet(sub[n]) /\ IsFiniteSet(sub[c])
  BY <1>1, <1>2, <1>5, SubIs
<1>8. Weight(sub, c) < Weight(sub, n)
  <2>1. sub[c] # sub[n] BY <1>7
  <2>2. Cardinality(sub[c]) < Cardinality(sub[n]) BY <1>7, <2>1, FS_Subset, FS_CardinalityType
  <2> QED BY <2>2 DEF Weight
<1>9. ASSUME NEW j \in sub[c], Below(t, sub, n, Other(s), j) PROVE FALSE
  <2>1. j \in Nodes(t) /\ Before(s, j, n) /\ j \in Nat BY <1>2, <1>3
  <2>2. Before(Other(s), j, n) BY <1>9, <2>1, SidesAre DEF Shape, Ordered
  <2> QED BY <1>3, <2>1, <2>2, BeforeIs
<1> QED BY <1>1, <1>2, <1>5, <1>6, <1>7, <1>8, <1>9

LEMMA SplitIs ==
  ASSUME NEW t, NEW sub, Shape(t, sub), NEW n \in Nodes(t), NEW j \in sub[n], j # n
  PROVE  \E s \in Sides : Kid(t, n, s) # Null /\ j \in sub[Kid(t, n, s)]
<1>1. j \in Nodes(t) BY SubIs
<1> QED BY <1>1 DEF Shape, Split, Below

(* What holds of a node when it holds of its children holds of all.         *)
LEMMA TreeInduction ==
  ASSUME NEW t, NEW sub, Shape(t, sub), NEW T,
         \A n \in Nodes(t) :
           (\A s \in Sides : Kid(t, n, s) # Null => Kid(t, n, s) \in T) => n \in T
  PROVE  \A n \in Nodes(t) : n \in T
<1> SUFFICES ASSUME NEW m \in Nodes(t), m \notin T PROVE FALSE OBVIOUS
<1> DEFINE W == {Weight(sub, n) : n \in Nodes(t) \ T}
<1>1. W \subseteq Nat /\ W # {} BY SubIs
<1>2. PICK w \in W : \A x \in W : ~(x < w) BY <1>1, Least
<1>3. PICK n \in Nodes(t) \ T : w = Weight(sub, n) BY <1>2
<1>4. PICK s \in Sides : Kid(t, n, s) # Null /\ Kid(t, n, s) \notin T BY <1>3
<1>5. Kid(t, n, s) \in Nodes(t) /\ Weight(sub, Kid(t, n, s)) < Weight(sub, n)
  BY <1>3, <1>4, KidIs
<1>6. Weight(sub, Kid(t, n, s)) \in W BY <1>4, <1>5
<1> QED BY <1>2, <1>3, <1>5, <1>6

LEMMA Nested ==
  ASSUME NEW t, NEW sub, Shape(t, sub), NEW n \in Nodes(t), NEW j \in sub[n]
  PROVE  sub[j] \subseteq sub[n]
<1> DEFINE T == {m \in Nodes(t) : \A i \in sub[m] : sub[i] \subseteq sub[m]}
<1>1. ASSUME NEW m \in Nodes(t),
             \A s \in Sides : Kid(t, m, s) # Null => Kid(t, m, s) \in T
      PROVE  m \in T
  <2> SUFFICES ASSUME NEW i \in sub[m], i # m PROVE sub[i] \subseteq sub[m] OBVIOUS
  <2>1. PICK s \in Sides : Kid(t, m, s) # Null /\ i \in sub[Kid(t, m, s)] BY SplitIs
  <2>2. sub[i] \subseteq sub[Kid(t, m, s)] BY <1>1, <2>1
  <2> QED BY <2>1, <2>2, KidIs
<1> HIDE DEF T
<1>2. n \in T BY <1>1, TreeInduction
<1> QED BY <1>2 DEF T

(* Every node but the root hangs under its parent.                          *)
LEMMA ParentIs ==
  ASSUME NEW t, NEW sub, Shape(t, sub), NEW n \in Nodes(t), NEW j \in sub[n], j # n
  PROVE  /\ Par(t, j) \in sub[n] /\ Par(t, j) \in Nodes(t)
         /\ \E s \in Sides : Kid(t, Par(t, j), s) = j
<1> DEFINE Q(m, i) == /\ Par(t, i) \in sub[m] /\ Par(t, i) \in Nodes(t)
                      /\ \E s \in Sides : Kid(t, Par(t, i), s) = i
           T == {m \in Nodes(t) : \A i \in sub[m] : i # m => Q(m, i)}
<1>1. ASSUME NEW m \in Nodes(t),
             \A s \in Sides : Kid(t, m, s) # Null => Kid(t, m, s) \in T
      PROVE  m \in T
  <2> SUFFICES ASSUME NEW i \in sub[m], i # m PROVE Q(m, i) OBVIOUS
  <2>1. PICK s \in Sides : Kid(t, m, s) # Null /\ i \in sub[Kid(t, m, s)] BY SplitIs
  <2>2. CASE i = Kid(t, m, s)
    <3>1. Par(t, i) = m BY <2>1, <2>2, KidIs
    <3> QED BY <2>2, <3>1, SubIs
  <2>3. CASE i # Kid(t, m, s)
    <3>1. Q(Kid(t, m, s), i) BY <1>1, <2>1, <2>3
    <3> QED BY <2>1, <3>1, KidIs
  <2> QED BY <2>2, <2>3
<1> HIDE DEF T
<1>2. n \in T BY <1>1, TreeInduction
<1> QED BY <1>2 DEF T

(* Every node but the root is a child of its parent.                        *)
LEMMA RootIs ==
  ASSUME NEW t, NEW sub, Shape(t, sub), NEW n \in Nodes(t)
  PROVE  /\ t.root # Null /\ t.root \in Nodes(t) /\ Par(t, t.root) = Null
         /\ n \in sub[t.root] /\ sub[t.root] = Nodes(t)
         /\ n = t.root <=> Par(t, n) = Null
         /\ n # t.root => /\ Par(t, n) \in Nodes(t) /\ n \in sub[Par(t, n)]
                          /\ \E s \in Sides : Kid(t, Par(t, n), s) = n
<1>1. /\ t.root # Null /\ t.root \in Nodes(t) /\ Par(t, t.root) = Null
      /\ n \in sub[t.root] /\ sub[t.root] = Nodes(t)
  BY TypedParts DEF Shape, Rooted, Links
<1>2. ASSUME n # t.root
      PROVE  /\ Par(t, n) \in Nodes(t) /\ n \in sub[Par(t, n)] /\ Par(t, n) # Null
             /\ \E s \in Sides : Kid(t, Par(t, n), s) = n
  <2>1. /\ Par(t, n) \in Nodes(t) /\ \E s \in Sides : Kid(t, Par(t, n), s) = n
    BY <1>1, <1>2, ParentIs
  <2>2. PICK s \in Sides : Kid(t, Par(t, n), s) = n BY <2>1
  <2>3. n # Null /\ Par(t, n) # Null BY <2>1, NullIsNone DEF Shape
  <2>4. n \in sub[n] /\ sub[n] \subseteq sub[Par(t, n)] BY <2>1, <2>2, <2>3, KidIs, SubIs
  <2> QED BY <2>1, <2>3, <2>4
<1> QED BY <1>1, <1>2

(* A node that does not hang under n is before or behind all that does.     *)
LEMMA Apart ==
  ASSUME NEW t, NEW sub, Shape(t, sub), NEW n \in Nodes(t), NEW j \in Nodes(t), j \notin sub[n]
  PROVE  \E s \in Sides : \A i \in sub[n] : Before(s, j, i)
<1> DEFINE P(a, b) == \E s \in Sides : \A i \in sub[a] : Before(s, b, i)
           T == {m \in Nodes(t) : \A a, b \in sub[m] : b \notin sub[a] => P(a, b)}
<1>1. ASSUME NEW m \in Nodes(t),
             \A s \in Sides : Kid(t, m, s) # Null => Kid(t, m, s) \in T
      PROVE  m \in T
  <2> SUFFICES ASSUME NEW a \in sub[m], NEW b \in sub[m], b \notin sub[a] PROVE P(a, b)
    OBVIOUS
  <2>1. a # m OBVIOUS
  <2>2. PICK s \in Sides : Kid(t, m, s) # Null /\ a \in sub[Kid(t, m, s)] BY <2>1, SplitIs
  <2> DEFINE c == Kid(t, m, s)
  <2>3. /\ c \in Nodes(t) /\ \A i \in sub[c] : i \in Nodes(t) /\ Before(s, i, m)
        /\ sub[a] \subseteq sub[c]
    BY <2>2, KidIs, Nested
  <2>4. Nodes(t) \subseteq Nat /\ b \in Nodes(t) BY NodesAreNat, SubIs DEF Shape
  <2>5. CASE b \in sub[c]
    BY <1>1, <2>2, <2>5
  <2>6. CASE b = m
    <3>1. \A i \in sub[a] : Before(Other(s), b, i) BY <2>3, <2>4, <2>6, BeforeIs
    <3> QED BY <3>1, SidesAre
  <2>7. CASE b # m /\ b \notin sub[c]
    <3>1. PICK r \in Sides : Kid(t, m, r) # Null /\ b \in sub[Kid(t, m, r)] BY <2>7, SplitIs
    <3>2. r = Other(s) BY <2>7, <3>1, SidesAre
    <3>3. Before(r, b, m) BY <3>1, KidIs
    <3>4. \A i \in sub[a] : i \in Nat /\ Before(r, m, i) BY <2>3, <2>4, <3>2, BeforeIs
    <3>5. \A i \in sub[a] : Before(r, b, i) BY <2>4, <3>3, <3>4, BeforeIs
    <3> QED BY <3>5
  <2> QED BY <2>5, <2>6, <2>7
<1> HIDE DEF T
<1>2. t.root \in T BY <1>1, TreeInduction, RootIs
<1>3. n \in sub[t.root] /\ j \in sub[t.root] BY RootIs
<1> QED BY <1>2, <1>3 DEF T

-----------------------------------------------------------------------------
(* Turning the tree.                                                       *)

(* n hangs at one side of its parent, and nowhere else.                     *)
Hangs(t, n) ==
  /\ \A m \in Nodes(t), s \in Sides : Kid(t, m, s) = n => m = Par(t, n)
  /\ \/ Par(t, n) = Null
     \/ /\ Par(t, n) \in Nodes(t)
        /\ \E s \in Sides : Kid(t, Par(t, n), s) = n /\ Kid(t, Par(t, n), Other(s)) # n

LEMMA SideOfIs ==
  ASSUME NEW t, Typed(t), NEW n \in Nodes(t), Hangs(t, n), Par(t, n) # Null
  PROVE  /\ SideOf(t, n) \in Sides /\ Kid(t, Par(t, n), SideOf(t, n)) = n
         /\ \A s \in Sides : Kid(t, Par(t, n), s) = n => s = SideOf(t, n)
<1> DEFINE p == Par(t, n)
<1>1. n # Null BY NullIsNone
<1>2. Parent(t, n) = p BY <1>1 DEF Parent, Child, Par
<1>3. Child(t, p, "left") = Kid(t, p, "left") BY DEF Child, Kid
<1>4. SideOf(t, n) = IF n = Kid(t, p, "left") THEN "left" ELSE "right"
  BY <1>2, <1>3 DEF SideOf
<1> QED BY <1>4 DEF Hangs, Sides, Other

(* transplant, on any tree in which u is a child of its parent.             *)
LEMMA TransplantIs ==
  ASSUME NEW t, Typed(t), NEW n \in Nodes(t), Hangs(t, n), NEW v \in Links(t),
         NEW u, u = Transplant(t, n, v)
  PROVE  /\ Typed(u) /\ SameHues(t, u) /\ SameVals(t, u)
         /\ u.root = IF Par(t, n) = Null THEN v ELSE t.root
         /\ \A m \in Nodes(t), s \in Sides :
              Kid(u, m, s) = IF Kid(t, m, s) = n THEN v ELSE Kid(t, m, s)
         /\ \A m \in Nodes(t) : Par(u, m) = IF m = v THEN Par(t, n) ELSE Par(t, m)
<1> DEFINE p == Par(t, n)
           q == IF p = Null THEN [t EXCEPT !.root = v] ELSE WithChild(t, p, SideOf(t, n), v)
<1>1. n # Null /\ p \in Links(t) BY NullIsNone, TypedParts
<1>2. Parent(t, n) = p BY <1>1 DEF Parent, Child, Par
<1>3. u = WithParent(q, v, p) BY <1>2 DEF Transplant
<1>4. /\ Typed(q) /\ SamePars(t, q) /\ SameHues(t, q) /\ SameVals(t, q)
      /\ q.root = IF p = Null THEN v ELSE t.root
      /\ \A m \in Nodes(t), s \in Sides :
              Kid(q, m, s) = IF Kid(t, m, s) = n THEN v ELSE Kid(t, m, s)
  <2>1. CASE p = Null
    <3>1. q = [t EXCEPT !.root = v] BY <2>1
    <3> HIDE DEF q
    <3>2. /\ Typed(q) /\ q.root = v
          /\ SameKids(t, q) /\ SamePars(t, q) /\ SameHues(t, q) /\ SameVals(t, q)
      BY <3>1, RootSet
    <3>3. \A m \in Nodes(t), s \in Sides : Kid(t, m, s) # n
      BY <2>1, NullIsNone DEF Hangs
    <3> QED BY <2>1, <3>2, <3>3 DEF SameKids
  <2>2. CASE p # Null
    <3>1. q = WithChild(t, p, SideOf(t, n), v) BY <2>2
    <3> HIDE DEF q
    <3>2. p \in Nodes(t) BY <2>2 DEF Hangs
    <3>3. SideOf(t, n) \in Sides BY <2>2, SideOfIs
    <3>4. /\ Typed(q) /\ q.root = t.root /\ SamePars(t, q) /\ SameHues(t, q) /\ SameVals(t, q)
          /\ \A m \in Nodes(t), r \in Sides :
              Kid(q, m, r) = IF m = p /\ r = SideOf(t, n) THEN v ELSE Kid(t, m, r)
      BY <3>1, <3>2, <3>3, ChildSet
    <3>5. \A m \in Nodes(t), r \in Sides : (m = p /\ r = SideOf(t, n)) <=> Kid(t, m, r) = n
      BY <2>2, SideOfIs DEF Hangs
    <3> QED BY <2>2, <3>4, <3>5
  <2> QED BY <2>1, <2>2
<1> HIDE DEF q
<1>5. v \in Links(q) /\ p \in Links(q) BY <1>1, <1>4 DEF Links, SameVals
<1>6. /\ Typed(u) /\ u.root = q.root /\ SameKids(q, u) /\ SameHues(q, u) /\ SameVals(q, u)
      /\ \A m \in Nodes(q) : Par(u, m) = IF m = v THEN p ELSE Par(q, m)
  BY <1>3, <1>4, <1>5, ParentSet
<1> QED BY <1>4, <1>6 DEF SameKids, SamePars, SameHues, SameVals

LEMMA ShapeHangs ==
  ASSUME NEW t, NEW sub, Shape(t, sub), NEW n \in Nodes(t)
  PROVE  Hangs(t, n)
<1>1. \A m \in Nodes(t), s \in Sides : Kid(t, m, s) = n => m = Par(t, n)
  BY NullIsNone DEF Shape, Linked
<1>2. n = t.root => Par(t, n) = Null BY RootIs
<1>3. ASSUME n # t.root
      PROVE  /\ Par(t, n) \in Nodes(t)
             /\ \E s \in Sides : Kid(t, Par(t, n), s) = n /\ Kid(t, Par(t, n), Other(s)) # n
  <2>1. Par(t, n) \in Nodes(t) BY <1>3, RootIs
  <2>2. PICK s \in Sides : Kid(t, Par(t, n), s) = n BY <1>3, RootIs
  <2>3. n \in sub[n] /\ n # Null BY SubIs, NullIsNone DEF Shape
  <2>4. ~Below(t, sub, Par(t, n), Other(s), n) BY <2>1, <2>2, <2>3, KidIs
  <2>5. Kid(t, Par(t, n), Other(s)) # n BY <2>3, <2>4 DEF Below
  <2> QED BY <2>1, <2>2, <2>5
<1> QED BY <1>1, <1>2, <1>3 DEF Hangs

(* The fields after a rotation of x, down on side s, below its child y.     *)
Turned(t, u, x, y, s) ==
  /\ Typed(u) /\ SameVals(t, u)
  /\ u.root = IF Par(t, x) = Null THEN y ELSE t.root
  /\ Kid(u, x, Other(s)) = Kid(t, y, s) /\ Kid(u, x, s) = Kid(t, x, s)
  /\ Kid(u, y, s) = x /\ Kid(u, y, Other(s)) = Kid(t, y, Other(s))
  /\ \A n \in Nodes(t) \ {x, y}, r \in Sides :
       Kid(u, n, r) = IF Kid(t, n, r) = x THEN y ELSE Kid(t, n, r)
  /\ \A n \in Nodes(t) : Par(u, n) = IF n = x THEN y ELSE IF n = y THEN Par(t, x)
                                     ELSE IF n = Kid(t, y, s) THEN x ELSE Par(t, n)

(* A rotation changes three links down and three links up.                  *)
LEMMA RotatedIs ==
  ASSUME NEW t, NEW sub, Shape(t, sub), NEW x \in Nodes(t), NEW s \in Sides,
         NEW y, y = Kid(t, x, Other(s)), y # Null, NEW u, u = Rotated(t, x, s)
  PROVE  Turned(t, u, x, y, s) /\ SameHues(t, u)
<1> DEFINE c == Kid(t, y, s)
           a == WithChild(t, x, Other(s), c)
           lent == WithParent(a, c, x)
           b == Transplant(lent, x, y)
           d == WithChild(b, y, s, x)
           o == Other(s)
<1>1. u = WithParent(d, x, y) BY DEF Rotated, Kid
<1>2. /\ o \in Sides /\ o # s /\ Other(o) = s /\ \A r \in Sides : r = s \/ r = o
  BY SidesAre
<1>3. /\ y \in Nodes(t) /\ Par(t, y) = x /\ y # x BY <1>2, KidIs
<1>4. /\ c \in Links(t) /\ Par(t, x) \in Links(t) /\ x # Null /\ Typed(t)
  BY <1>3, TypedParts, NullIsNone DEF Shape
<1>5. c # Null => Par(t, c) = y /\ c # y BY <1>3, KidIs
<1>6. c # x /\ c # y /\ Par(t, x) # y
  <2>1. c # x
    <3> SUFFICES ASSUME c = x PROVE FALSE OBVIOUS
    <3>1. Par(t, x) = y BY <1>4, <1>5
    <3>2. Weight(sub, y) < Weight(sub, x) BY <1>2, KidIs
    <3>3. Weight(sub, x) < Weight(sub, y) BY <1>3, <1>4, KidIs
    <3> QED BY <1>3, <3>2, <3>3, SubIs
  <2>2. c # y BY <1>3, <1>4, <1>5, NullIsNone
  <2>3. Par(t, x) # y
    <3> SUFFICES ASSUME Par(t, x) = y PROVE FALSE OBVIOUS
    <3>1. PICK r \in Sides : Kid(t, y, r) = x BY <1>3, <1>4, RootIs
    <3>2. Weight(sub, y) < Weight(sub, x) BY <1>2, KidIs
    <3>3. Weight(sub, x) < Weight(sub, y) BY <1>3, <1>4, <3>1, KidIs
    <3> QED BY <1>3, <3>2, <3>3, SubIs
  <2> QED BY <2>1, <2>2, <2>3
<1>7. /\ Typed(a) /\ a.root = t.root /\ SamePars(t, a) /\ SameHues(t, a) /\ SameVals(t, a)
      /\ \A m \in Nodes(t), r \in Sides :
           Kid(a, m, r) = IF m = x /\ r = o THEN c ELSE Kid(t, m, r)
  BY <1>2, <1>4, ChildSet
<1> HIDE DEF a
<1>8. /\ Typed(lent) /\ lent.root = t.root /\ SameHues(t, lent) /\ SameVals(t, lent)
      /\ \A m \in Nodes(t), r \in Sides :
           Kid(lent, m, r) = IF m = x /\ r = o THEN c ELSE Kid(t, m, r)
      /\ \A m \in Nodes(t) : Par(lent, m) = IF m = c THEN x ELSE Par(t, m)
  <2>1. c \in Links(a) /\ x \in Links(a) BY <1>4, <1>7 DEF Links, SameVals
  <2>2. /\ Typed(lent) /\ lent.root = a.root /\ SameKids(a, lent) /\ SameHues(a, lent)
        /\ SameVals(a, lent)
        /\ \A m \in Nodes(a) : Par(lent, m) = IF m = c THEN x ELSE Par(a, m)
    BY <1>7, <2>1, ParentSet
  <2> QED BY <1>7, <2>2 DEF SameKids, SamePars, SameHues, SameVals
<1> HIDE DEF lent
<1>9. Hangs(lent, x) /\ Par(lent, x) = Par(t, x)
  <2>1. Hangs(t, x) BY ShapeHangs
  <2>2. Par(lent, x) = Par(t, x) /\ Nodes(lent) = Nodes(t) BY <1>6, <1>8 DEF SameVals
  <2>3. Par(t, x) # x
    <3>1. Par(t, x) = Null \/ \E r \in Sides : Kid(t, Par(t, x), r) = x BY <2>1 DEF Hangs
    <3> QED BY <1>4, <3>1, KidIs
  <2>4. \A m \in Nodes(t), r \in Sides : Kid(lent, m, r) = x <=> Kid(t, m, r) = x
    BY <1>3, <1>6, <1>8
  <2> QED BY <1>2, <2>1, <2>2, <2>4, SidesAre DEF Hangs
<1>10. /\ Typed(b) /\ SameHues(t, b) /\ SameVals(t, b)
       /\ b.root = IF Par(t, x) = Null THEN y ELSE t.root
       /\ \A m \in Nodes(t), r \in Sides :
            Kid(b, m, r) = IF m = x /\ r = o THEN c
                           ELSE IF Kid(t, m, r) = x THEN y ELSE Kid(t, m, r)
       /\ \A m \in Nodes(t) : Par(b, m) = IF m = y THEN Par(t, x)
                                          ELSE IF m = c THEN x ELSE Par(t, m)
  <2>1. x \in Nodes(lent) /\ y \in Links(lent) BY <1>3, <1>8 DEF SameVals, Links
  <2>2. /\ Typed(b) /\ SameHues(lent, b) /\ SameVals(lent, b)
        /\ b.root = IF Par(lent, x) = Null THEN y ELSE lent.root
        /\ \A m \in Nodes(lent), r \in Sides :
              Kid(b, m, r) = IF Kid(lent, m, r) = x THEN y ELSE Kid(lent, m, r)
        /\ \A m \in Nodes(lent) : Par(b, m) = IF m = y THEN Par(lent, x) ELSE Par(lent, m)
    BY <1>8, <1>9, <2>1, TransplantIs
  <2>3. Nodes(lent) = Nodes(t) BY <1>8 DEF SameVals
  <2>4. SameHues(t, b) /\ SameVals(t, b) BY <1>8, <2>2 DEF SameHues, SameVals
  <2> QED BY <1>6, <1>8, <1>9, <2>2, <2>3, <2>4
<1> HIDE DEF b
<1>11. /\ Typed(d) /\ d.root = b.root /\ SamePars(b, d) /\ SameHues(b, d) /\ SameVals(b, d)
       /\ \A m \in Nodes(b), r \in Sides :
            Kid(d, m, r) = IF m = y /\ r = s THEN x ELSE Kid(b, m, r)
  <2>1. y \in Nodes(b) /\ x \in Links(b) BY <1>3, <1>10 DEF SameVals, Links
  <2> QED BY <1>10, <2>1, ChildSet
<1> HIDE DEF d
<1>12. /\ Typed(u) /\ u.root = d.root /\ SameKids(d, u) /\ SameHues(d, u) /\ SameVals(d, u)
       /\ \A m \in Nodes(d) : Par(u, m) = IF m = x THEN y ELSE Par(d, m)
  <2>1. y \in Links(d) /\ x \in Links(d) BY <1>3, <1>10, <1>11 DEF SameVals, Links
  <2> QED BY <1>1, <1>11, <2>1, ParentSet
<1>13. Nodes(b) = Nodes(t) /\ Nodes(d) = Nodes(t) /\ Nodes(u) = Nodes(t)
  BY <1>10, <1>11, <1>12 DEF SameVals
<1>14. SameHues(t, u) /\ SameVals(t, u) BY <1>10, <1>11, <1>12 DEF SameHues, SameVals
<1>15. \A m \in Nodes(t), r \in Sides :
         Kid(u, m, r) = IF m = y /\ r = s THEN x
                        ELSE IF m = x /\ r = o THEN c
                        ELSE IF Kid(t, m, r) = x THEN y ELSE Kid(t, m, r)
  BY <1>10, <1>11, <1>12, <1>13 DEF SameKids
<1>16. \A m \in Nodes(t) : Par(u, m) = IF m = x THEN y ELSE IF m = y THEN Par(t, x)
                                       ELSE IF m = c THEN x ELSE Par(t, m)
  BY <1>10, <1>11, <1>12, <1>13 DEF SamePars
<1>17. Kid(t, x, s) # x /\ Kid(t, y, o) # x
  <2>1. Hangs(t, x) BY ShapeHangs
  <2> QED BY <1>2, <1>3, <1>4, <1>6, <2>1, KidIs DEF Hangs
<1>18. u.root = IF Par(t, x) = Null THEN y ELSE t.root BY <1>10, <1>11, <1>12
<1>19. /\ Kid(u, x, o) = c /\ Kid(u, x, s) = Kid(t, x, s) /\ Kid(u, y, s) = x
       /\ Kid(u, y, o) = Kid(t, y, o)
  BY <1>2, <1>3, <1>15, <1>17
<1>20. \A n \in Nodes(t) \ {x, y}, r \in Sides :
         Kid(u, n, r) = IF Kid(t, n, r) = x THEN y ELSE Kid(t, n, r)
  BY <1>15
<1> QED BY <1>12, <1>14, <1>16, <1>18, <1>19, <1>20 DEF Turned

(* What hangs under x and y after the rotation.                             *)
Regrouped(t, sub, x, y, s) ==
  [n \in Nodes(t) |->
     IF n = y THEN sub[x]
     ELSE IF n = x THEN {j \in sub[x] : j # y /\ ~Below(t, sub, y, Other(s), j)}
     ELSE sub[n]]

(* A rotation keeps the shape.                                              *)
LEMMA ShapeTurned ==
  ASSUME NEW t, NEW sub, Shape(t, sub), NEW x \in Nodes(t), NEW s \in Sides,
         NEW y, y = Kid(t, x, Other(s)), y # Null, NEW u, Turned(t, u, x, y, s),
         NEW new, new = Regrouped(t, sub, x, y, s)
  PROVE  Shape(u, new)
<1> DEFINE c == Kid(t, y, s)
           o == Other(s)
<1>1. /\ o \in Sides /\ o # s /\ Other(o) = s /\ \A r \in Sides : r = s \/ r = o
  BY SidesAre
<1>2. /\ y \in Nodes(t) /\ Par(t, y) = x /\ y # x BY <1>1, KidIs
<1>3. /\ c \in Links(t) /\ Par(t, x) \in Links(t) /\ x # Null /\ Typed(t) /\ y # Null
      /\ Null \notin Nodes(t)
  BY <1>2, TypedParts, NullIsNone DEF Shape
<1>4. c # Null => c \in Nodes(t) /\ Par(t, c) = y /\ c # y BY <1>2, KidIs
<1>5. c # x /\ c # y /\ Par(t, x) # y /\ Par(t, x) # x
  <2>1. Hangs(t, x) BY ShapeHangs
  <2>2. ~(Weight(sub, x) < Weight(sub, y)) /\ ~(Weight(sub, x) < Weight(sub, x))
    BY <1>1, <1>2, KidIs, SubIs
  <2> QED BY <1>2, <1>3, <1>4, <2>1, <2>2, KidIs DEF Hangs
<1>6. /\ Nodes(u) = Nodes(t) /\ Typed(u) BY DEF Turned, SameVals
<1>7. /\ new \in [Nodes(t) -> SUBSET Nodes(t)]
      /\ new[y] = sub[x]
      /\ new[x] = {j \in sub[x] : j # y /\ ~Below(t, sub, y, o, j)}
      /\ \A n \in Nodes(t) \ {x, y} : new[n] = sub[n]
  <2>1. \A n \in Nodes(t) : sub[n] \subseteq Nodes(t) BY SubIs
  <2> QED BY <1>2, <2>1 DEF Regrouped
<1>8. /\ Kid(u, x, o) = c /\ Kid(u, x, s) = Kid(t, x, s)
      /\ Kid(u, y, s) = x /\ Kid(u, y, o) = Kid(t, y, o)
      /\ \A n \in Nodes(t) \ {x, y}, r \in Sides :
           Kid(u, n, r) = IF Kid(t, n, r) = x THEN y ELSE Kid(t, n, r)
      /\ \A n \in Nodes(t) : Par(u, n) = IF n = x THEN y ELSE IF n = y THEN Par(t, x)
                                         ELSE IF n = c THEN x ELSE Par(t, n)
      /\ u.root = IF Par(t, x) = Null THEN y ELSE t.root
  BY DEF Turned
<1>9. \A n \in Nodes(t), r \in Sides :
        Kid(t, n, r) # Null => Kid(t, n, r) \in Nodes(t) /\ Par(t, Kid(t, n, r)) = n
  BY KidIs
<1>10. \A n \in Nodes(t), r \in Sides : Kid(t, n, r) # n
  BY <1>3, KidIs
<1>11. Kid(t, y, o) # x /\ Kid(t, x, s) # y /\ (Kid(t, y, o) # c \/ Kid(t, y, o) = Null)
  <2>1. Kid(t, y, o) # x BY <1>3, <1>5, <1>9, <1>2, <1>1
  <2>2. Kid(t, x, s) # y
    <3>1. y \in sub[y] /\ Kid(t, x, o) # Null BY <1>2, <1>3, SubIs
    <3>2. ~Below(t, sub, x, Other(o), y) BY <3>1, <1>1, KidIs
    <3> QED BY <1>1, <1>3, <3>1, <3>2 DEF Below
  <2>3. ASSUME Kid(t, y, o) # Null, Kid(t, y, o) = c PROVE FALSE
    <3>1. c \in sub[c] BY <1>4, <2>3, SubIs
    <3>2. ~Below(t, sub, y, Other(o), c) BY <1>1, <1>2, <2>3, <3>1, KidIs
    <3> QED BY <1>1, <2>3, <3>1, <3>2 DEF Below
  <2> QED BY <2>1, <2>2, <2>3
<1>12. Linked(u)
  <2> SUFFICES ASSUME NEW n \in Nodes(t), NEW r \in Sides, Kid(u, n, r) # Null
               PROVE  Par(u, Kid(u, n, r)) = n
    BY <1>6 DEF Linked
  <2>1. CASE n = x /\ r = o BY <1>4, <1>5, <1>8, <2>1
  <2>2. CASE n = x /\ r = s
    <3>1. Kid(t, x, s) # y /\ Kid(t, x, s) # x /\ Kid(t, x, s) # c
      <4>1. Kid(t, x, s) # y
        <5>1. y \in sub[y] BY <1>2, SubIs
        <5>2. ~Below(t, sub, x, Other(o), y) BY <5>1, <1>1, KidIs
        <5> QED BY <1>1, <1>3, <5>1, <5>2 DEF Below
      <4> QED BY <1>2, <1>4, <1>8, <1>9, <1>10, <2>2, <4>1
    <3> QED BY <1>8, <1>9, <2>2, <3>1
  <2>3. CASE n = y /\ r = s BY <1>2, <1>8, <2>3
  <2>4. CASE n = y /\ r = o
    <3>1. Kid(t, y, o) # Null BY <1>8, <2>4
    <3> QED BY <1>1, <1>2, <1>8, <1>9, <1>10, <1>11, <2>4, <3>1
  <2>5. CASE n \notin {x, y} /\ Kid(t, n, r) = x
    <3>1. Par(t, x) = n BY <1>3, <1>9, <2>5
    <3> QED BY <1>2, <1>8, <2>5, <3>1
  <2>6. CASE n \notin {x, y} /\ Kid(t, n, r) # x
    <3>1. Kid(u, n, r) = Kid(t, n, r) BY <1>8, <2>6
    <3>2. Kid(t, n, r) \in Nodes(t) /\ Par(t, Kid(t, n, r)) = n BY <1>9, <3>1
    <3>3. Kid(t, n, r) # y /\ Kid(t, n, r) # c BY <1>2, <1>4, <2>6, <3>1, <3>2
    <3> QED BY <1>8, <2>6, <3>1, <3>2, <3>3
  <2> QED BY <1>1, <2>1, <2>2, <2>3, <2>4, <2>5, <2>6
<1>13. Rooted(u, new)
  <2>1. t.root \in Nodes(t) /\ sub[t.root] = Nodes(t) /\ Par(t, t.root) = Null
        /\ (x = t.root <=> Par(t, x) = Null)
    BY RootIs
  <2>2. CASE x = t.root BY <1>2, <1>3, <1>6, <1>7, <1>8, <2>1, <2>2 DEF Rooted
  <2>3. CASE x # t.root
    <3>1. u.root = t.root /\ t.root # y /\ t.root # Null BY <1>2, <1>3, <1>8, <2>1, <2>3
    <3>2. Par(u, t.root) = Null BY <1>3, <1>4, <1>8, <2>1, <2>3, <3>1
    <3> QED BY <1>6, <1>7, <2>1, <2>3, <3>1, <3>2 DEF Rooted
  <2> QED BY <2>2, <2>3
<1>14. \A j \in Nodes(t) :
         /\ Below(u, new, x, o, j) <=> Below(t, sub, y, s, j)
         /\ Below(u, new, x, s, j) <=> Below(t, sub, x, s, j)
         /\ Below(u, new, y, s, j) <=> j \in new[x]
         /\ Below(u, new, y, o, j) <=> Below(t, sub, y, o, j)
         /\ \A n \in Nodes(t) \ {x, y}, r \in Sides :
              Below(u, new, n, r, j) <=> Below(t, sub, n, r, j)
  <2> TAKE j \in Nodes(t)
  <2>1. Below(u, new, x, o, j) <=> Below(t, sub, y, s, j)
    BY <1>4, <1>5, <1>7, <1>8 DEF Below
  <2>2. Below(u, new, x, s, j) <=> Below(t, sub, x, s, j)
    <3>1. Kid(t, x, s) # x BY <1>10
    <3>2. Kid(t, x, s) # y
      <4>1. y \in sub[y] BY <1>2, SubIs
      <4>2. ~Below(t, sub, x, Other(o), y) BY <4>1, <1>1, KidIs
      <4> QED BY <1>1, <1>3, <4>1, <4>2 DEF Below
    <3>3. Kid(t, x, s) # Null => new[Kid(t, x, s)] = sub[Kid(t, x, s)]
      BY <1>7, <1>9, <3>1, <3>2
    <3> QED BY <1>8, <3>3 DEF Below
  <2>3. Below(u, new, y, s, j) <=> j \in new[x] BY <1>3, <1>8 DEF Below
  <2>4. Below(u, new, y, o, j) <=> Below(t, sub, y, o, j)
    <3>1. Kid(t, y, o) # Null => new[Kid(t, y, o)] = sub[Kid(t, y, o)]
      BY <1>1, <1>2, <1>7, <1>9, <1>10, <1>5
    <3> QED BY <1>8, <3>1 DEF Below
  <2>5. ASSUME NEW n \in Nodes(t) \ {x, y}, NEW r \in Sides
        PROVE  Below(u, new, n, r, j) <=> Below(t, sub, n, r, j)
    <3>1. CASE Kid(t, n, r) = x BY <1>3, <1>7, <1>8, <3>1 DEF Below
    <3>2. CASE Kid(t, n, r) # x
      <4>1. Kid(t, n, r) # y BY <1>2, <1>3, <1>9
      <4>2. Kid(t, n, r) # Null => new[Kid(t, n, r)] = sub[Kid(t, n, r)]
        BY <1>7, <1>9, <3>2, <4>1
      <4> QED BY <1>8, <3>2, <4>2 DEF Below
    <3> QED BY <3>1, <3>2
  <2> QED BY <2>1, <2>2, <2>3, <2>4, <2>5
<1>15. \A j \in Nodes(t) :
         /\ j \in sub[x] <=> j = x \/ Below(t, sub, x, s, j) \/ j \in sub[y]
         /\ j \in sub[y] <=> j = y \/ Below(t, sub, y, s, j) \/ Below(t, sub, y, o, j)
         /\ j \in new[x] <=> j = x \/ Below(t, sub, x, s, j) \/ Below(t, sub, y, s, j)
  <2> TAKE j \in Nodes(t)
  <2>1. j \in sub[y] <=> Below(t, sub, x, o, j) BY <1>3 DEF Below
  <2>2. j \in sub[x] <=> j = x \/ Below(t, sub, x, s, j) \/ Below(t, sub, x, o, j)
    BY <1>1 DEF Shape, Split
  <2>3. j \in sub[y] <=> j = y \/ Below(t, sub, y, s, j) \/ Below(t, sub, y, o, j)
    BY <1>1, <1>2 DEF Shape, Split
  <2>4. ~(Below(t, sub, x, s, j) /\ j \in sub[y])
    BY <1>1, KidIs
  <2>5. ~(Below(t, sub, y, s, j) /\ Below(t, sub, y, o, j))
    BY <1>1, <1>2, KidIs DEF Below
  <2>6. x \notin sub[y] /\ ~Below(t, sub, y, s, y)
    BY <1>1, <1>2, KidIs DEF Below
  <2> QED BY <1>7, <1>2, <2>1, <2>2, <2>3, <2>4, <2>5, <2>6
<1>16. Split(u, new)
  <2> SUFFICES ASSUME NEW n \in Nodes(t), NEW j \in Nodes(t)
               PROVE  j \in new[n] <=> j = n \/ \E r \in Sides : Below(u, new, n, r, j)
    BY <1>6 DEF Split
  <2>1. CASE n = x
    BY <1>1, <1>14, <1>15, <2>1
  <2>2. CASE n = y
    <3>1. j \in sub[x] <=> j \in new[x] \/ j \in {y} \/ Below(t, sub, y, o, j) BY <1>15
    <3> QED BY <1>1, <1>7, <1>14, <2>2, <3>1
  <2>3. CASE n \notin {x, y} BY <1>7, <1>14, <2>3 DEF Shape, Split
  <2> QED BY <2>1, <2>2, <2>3
<1>17. Ordered(u, new)
  <2> SUFFICES ASSUME NEW n \in Nodes(t), NEW j \in Nodes(t), NEW r \in Sides,
                      Below(u, new, n, r, j)
               PROVE  Before(r, j, n)
    BY <1>6 DEF Ordered
  <2>1. \A m \in Nodes(t) : m \in Nat BY NodesAreNat, <1>3
  <2>2. Before(o, y, x) /\ Before(s, x, y) BY <1>1, <1>2, <2>1, KidIs, BeforeIs
  <2>3. CASE n = x /\ r = o
    <3>1. j \in sub[y] BY <1>14, <1>15, <2>3
    <3> QED BY <1>1, <2>3, <3>1, KidIs
  <2>4. CASE n = x /\ r = s BY <1>14, <2>4 DEF Shape, Ordered
  <2>5. CASE n = y /\ r = s
    <3>1. j = x \/ Below(t, sub, x, s, j) \/ Below(t, sub, y, s, j) BY <1>14, <1>15, <2>5
    <3>2. Below(t, sub, x, s, j) => Before(s, j, x) BY DEF Shape, Ordered
    <3>3. Below(t, sub, y, s, j) => Before(s, j, y) BY <1>2 DEF Shape, Ordered
    <3> QED BY <1>2, <2>1, <2>2, <2>5, <3>1, <3>2, <3>3, BeforeIs
  <2>6. CASE n = y /\ r = o BY <1>14, <1>2, <2>6 DEF Shape, Ordered
  <2>7. CASE n \notin {x, y} BY <1>14, <2>7 DEF Shape, Ordered
  <2> QED BY <1>1, <2>3, <2>4, <2>5, <2>6, <2>7
<1> QED BY <1>6, <1>7, <1>12, <1>13, <1>16, <1>17 DEF Shape

-----------------------------------------------------------------------------
(* Colours and heights.  bh[n] counts the black nodes on a way down from n, *)
(* Null among them; below q, on side qs, one is missing.                    *)

Height(bh, n) == IF n = Null THEN 1 ELSE bh[n]
Level(t, bh) ==
  /\ bh \in [Nodes(t) -> Nat \ {0}]
  /\ \A n \in Nodes(t), s \in Sides : bh[n] = Height(bh, Kid(t, n, s)) + 1 - Hue(t, n)
LevelBut(t, bh, q, qs) ==
  /\ bh \in [Nodes(t) -> Nat \ {0}]
  /\ \A n \in Nodes(t), s \in Sides :
       bh[n] = IF n = q /\ s = qs THEN Height(bh, Kid(t, n, s)) + 2 - Hue(t, n)
                                 ELSE Height(bh, Kid(t, n, s)) + 1 - Hue(t, n)

(* Red nodes have no red child, save one of the node a and the child b.     *)
Quiet(t, a, b) ==
  \A n \in Nodes(t), s \in Sides :
    n # a /\ Hue(t, n) = 1 /\ Kid(t, n, s) # Null /\ Kid(t, n, s) # b
    => Hue(t, Kid(t, n, s)) = 0

Balanced(t, sub, bh) ==
  /\ Shape(t, sub) /\ Level(t, bh) /\ Quiet(t, Null, Null)
  /\ t.root # Null => Hue(t, t.root) = 0

LEMMA ShapeSame ==
  ASSUME NEW t, NEW sub, Shape(t, sub), NEW u, Typed(u), u.root = t.root,
         SameKids(t, u), SamePars(t, u), Nodes(u) = Nodes(t)
  PROVE  Shape(u, sub)
<1>1. \A n \in Nodes(t), s \in Sides : \A j : Below(u, sub, n, s, j) <=> Below(t, sub, n, s, j)
  BY DEF SameKids, Below
<1>2. Split(u, sub) BY <1>1 DEF Shape, Split
<1>3. Ordered(u, sub) BY <1>1 DEF Shape, Ordered
<1>4. Linked(u)
  <2>1. \A n \in Nodes(t), s \in Sides :
          Kid(t, n, s) # Null => Kid(t, n, s) \in Nodes(t) /\ Par(t, Kid(t, n, s)) = n
    BY KidIs
  <2> QED BY <2>1 DEF SameKids, SamePars, Linked
<1>5. Rooted(u, sub)
  <2>1. t.root # Null => t.root \in Nodes(t) BY TypedParts DEF Shape, Links
  <2> QED BY <2>1 DEF Shape, Rooted, SamePars
<1> QED BY <1>2, <1>3, <1>4, <1>5 DEF Shape

LEMMA Recoloured ==
  ASSUME NEW t, NEW sub, Shape(t, sub), NEW n \in Links(t), NEW h \in {0, 1},
         NEW u, u = Painted(t, n, h)
  PROVE  /\ Shape(u, sub) /\ u.root = t.root /\ SameKids(t, u) /\ SamePars(t, u) /\ SameVals(t, u)
         /\ Nodes(u) = Nodes(t)
         /\ \A m \in Nodes(t) : Hue(u, m) = IF m = n THEN h ELSE Hue(t, m)
<1>1. Typed(t) BY DEF Shape
<1>2. /\ Typed(u) /\ u.root = t.root /\ SameKids(t, u) /\ SamePars(t, u) /\ SameVals(t, u)
      /\ \A m \in Nodes(t) : Hue(u, m) = IF m = n THEN h ELSE Hue(t, m)
  BY <1>1, HueSet
<1>3. Nodes(u) = Nodes(t) BY <1>2 DEF SameVals
<1> QED BY <1>2, <1>3, ShapeSame

LEMMA Peek ==
  ASSUME NEW t, Typed(t), NEW n \in Links(t)
  PROVE  /\ Red(t, n) <=> n # Null /\ Hue(t, n) = 1
         /\ n # Null <=> n \in Nodes(t)
         /\ n # Null => Parent(t, n) = Par(t, n) /\ NodeColor(t, n) = Hue(t, n)
         /\ n # Null => Hue(t, n) = 0 \/ Hue(t, n) = 1
         /\ n # Null => \A s \in Sides : Child(t, n, s) = Kid(t, n, s)
         /\ n = Null => Parent(t, n) = Null
<1>1. n # Null <=> n \in Nodes(t) BY NullIsNone DEF Links
<1>2. Red(t, n) <=> n # Null /\ Hue(t, n) = 1 BY DEF Red, NodeColor, Hue
<1>3. n # Null => Hue(t, n) = 0 \/ Hue(t, n) = 1 BY <1>1, TypedParts
<1> QED BY <1>1, <1>2, <1>3 DEF Parent, Child, Par, Kid, NodeColor, Hue

-----------------------------------------------------------------------------
(* insert_fixup: only z may be a red child of a red node.                   *)

Growing(t, sub, bh, z) ==
  /\ Shape(t, sub) /\ Level(t, bh) /\ z \in Nodes(t) /\ Hue(t, z) = 1
  /\ Quiet(t, Null, z)
  /\ Hue(t, t.root) = 1 => t.root = z

LEMMA GrownIs ==
  ASSUME NEW t, NEW sub, NEW bh, NEW z, Growing(t, sub, bh, z), ~Red(t, Par(t, z)),
         NEW u, u = Painted(t, t.root, 0)
  PROVE  SameVals(t, u) /\ \E lev : Balanced(u, sub, lev)
<1> DEFINE r == t.root
           lev == [n \in Nodes(t) |-> IF n = r THEN bh[n] + Hue(t, r) ELSE bh[n]]
<1>1. Shape(t, sub) /\ Typed(t) /\ z \in Nodes(t) BY DEF Growing, Shape
<1>2. r \in Nodes(t) /\ r \in Links(t) /\ r # Null BY <1>1, RootIs DEF Links
<1>3. /\ Shape(u, sub) /\ u.root = r /\ SameKids(t, u) /\ SameVals(t, u)
      /\ Nodes(u) = Nodes(t)
      /\ \A m \in Nodes(t) : Hue(u, m) = IF m = r THEN 0 ELSE Hue(t, m)
  BY <1>1, <1>2, Recoloured
<1>4. \A n \in Nodes(t), s \in Sides :
        Kid(t, n, s) # Null => Kid(t, n, s) \in Nodes(t) /\ Par(t, Kid(t, n, s)) = n
  BY <1>1, KidIs
<1>5. \A n \in Nodes(t), s \in Sides : Kid(t, n, s) # r
  <2>1. Par(t, r) = Null BY <1>1, <1>2, RootIs
  <2> QED BY <1>1, <1>2, <1>4, <2>1, NullIsNone
<1>6. bh \in [Nodes(t) -> Nat \ {0}] BY DEF Growing, Level
<1>7. Hue(t, r) \in {0, 1} BY <1>1, <1>2, TypedParts
<1>8. /\ lev \in [Nodes(t) -> Nat \ {0}] /\ lev[r] = bh[r] + Hue(t, r)
      /\ \A n \in Nodes(t) : n # r => lev[n] = bh[n]
  BY <1>2, <1>6, <1>7
<1> HIDE DEF lev
<1>9. Level(u, lev)
  <2> SUFFICES ASSUME NEW n \in Nodes(t), NEW s \in Sides
               PROVE  lev[n] = Height(lev, Kid(t, n, s)) + 1 - Hue(u, n)
    BY <1>3, <1>8 DEF Level, SameKids
  <2>1. Height(lev, Kid(t, n, s)) = Height(bh, Kid(t, n, s))
    BY <1>4, <1>5, <1>8 DEF Height
  <2>2. Height(bh, Kid(t, n, s)) \in Nat BY <1>4, <1>6 DEF Height
  <2>3. bh[n] = Height(bh, Kid(t, n, s)) + 1 - Hue(t, n)
    BY DEF Growing, Level
  <2> QED BY <1>3, <1>7, <1>8, <2>1, <2>2, <2>3
<1>10. Quiet(u, Null, Null)
  <2> SUFFICES ASSUME NEW n \in Nodes(t), NEW s \in Sides, Hue(u, n) = 1, Kid(t, n, s) # Null
               PROVE  Hue(u, Kid(t, n, s)) = 0
    BY <1>3 DEF Quiet, SameKids
  <2>1. n # Null /\ n \in Links(t) BY <1>1, NullIsNone DEF Links
  <2>2. Hue(t, n) = 1 BY <1>3
  <2>3. Kid(t, n, s) # z
    <3>1. Kid(t, n, s) = z => Par(t, z) = n BY <1>4
    <3> QED BY <1>1, <2>1, <2>2, <3>1, Peek
  <2>4. Hue(t, Kid(t, n, s)) = 0 BY <2>1, <2>2, <2>3 DEF Growing, Quiet
  <2> QED BY <1>3, <1>4, <2>4
<1>11. Balanced(u, sub, lev) BY <1>2, <1>3, <1>9, <1>10 DEF Balanced
<1> QED BY <1>3, <1>11

(* While the loop of insert_fixup runs there is a black grandparent.        *)
LEMMA FamilyIs ==
  ASSUME NEW t, NEW sub, NEW bh, NEW z, Growing(t, sub, bh, z), Red(t, Par(t, z)),
         NEW p, p = Par(t, z), NEW g, g = Par(t, p)
  PROVE  /\ p \in Nodes(t) /\ g \in Nodes(t) /\ Hue(t, p) = 1 /\ Hue(t, g) = 0
         /\ z # p /\ z # g /\ p # g /\ p # t.root
         /\ SideOf(t, p) \in Sides /\ Kid(t, g, SideOf(t, p)) = p
         /\ \E s \in Sides : Kid(t, p, s) = z
         /\ \A n \in Nodes(t), s \in Sides :
              Kid(t, n, s) # Null => Kid(t, n, s) \in Nodes(t) /\ Par(t, Kid(t, n, s)) = n
<1>1. Shape(t, sub) /\ Typed(t) /\ z \in Nodes(t) BY DEF Growing, Shape
<1>2. p \in Nodes(t) /\ Hue(t, p) = 1 /\ p # Null BY <1>1, Peek, TypedParts
<1>3. z # t.root /\ p # z /\ \E s \in Sides : Kid(t, p, s) = z
  <2>1. z # t.root BY <1>1, <1>2, RootIs
  <2>2. PICK s \in Sides : Kid(t, p, s) = z BY <1>1, <2>1, RootIs
  <2>3. z # Null BY <1>1, NullIsNone
  <2> QED BY <1>1, <1>2, <2>1, <2>2, <2>3, KidIs
<1>4. p # t.root BY <1>2, <1>3 DEF Growing
<1>5. g \in Nodes(t) /\ p \in sub[g] /\ g # Null BY <1>1, <1>2, <1>4, RootIs, NullIsNone
<1>6. /\ SideOf(t, p) \in Sides /\ Kid(t, g, SideOf(t, p)) = p
  BY <1>1, <1>2, <1>5, ShapeHangs, SideOfIs
<1>7. p # g BY <1>1, <1>2, <1>5, <1>6, KidIs
<1>8. Hue(t, g) = 0
  <2>1. Hue(t, g) # 1 BY <1>2, <1>3, <1>5, <1>6 DEF Growing, Quiet
  <2> QED BY <1>1, <1>5, <2>1, TypedParts
<1>9. \A n \in Nodes(t), s \in Sides :
        Kid(t, n, s) # Null => Kid(t, n, s) \in Nodes(t) /\ Par(t, Kid(t, n, s)) = n
  BY <1>1, KidIs
<1>10. z # g BY <1>8 DEF Growing
<1> QED BY <1>2, <1>3, <1>4, <1>5, <1>6, <1>7, <1>8, <1>9, <1>10

(* A red uncle: both go black, and the grandparent may be the next.         *)
LEMMA LightenedIs ==
  ASSUME NEW t, NEW sub, NEW bh, NEW z, Growing(t, sub, bh, z), Red(t, Par(t, z)),
         NEW p, p = Par(t, z), NEW g, g = Par(t, p),
         NEW y, y = Kid(t, g, Other(SideOf(t, p))), Red(t, y),
         NEW u, u = Painted(Painted(Painted(t, p, 0), y, 0), g, 1)
  PROVE  SameVals(t, u) /\ \E lev : Growing(u, sub, lev, g)
<1> DEFINE s == SideOf(t, p)
           a == Painted(t, p, 0)
           b == Painted(a, y, 0)
           lev == [n \in Nodes(t) |-> IF n = p \/ n = y THEN bh[n] + 1 ELSE bh[n]]
<1>1. Shape(t, sub) /\ Typed(t) /\ z \in Nodes(t) BY DEF Growing, Shape
<1>2. /\ p \in Nodes(t) /\ g \in Nodes(t) /\ Hue(t, p) = 1 /\ Hue(t, g) = 0
      /\ z # p /\ z # g /\ p # g /\ s \in Sides /\ Kid(t, g, s) = p
      /\ \A n \in Nodes(t), r \in Sides :
           Kid(t, n, r) # Null => Kid(t, n, r) \in Nodes(t) /\ Par(t, Kid(t, n, r)) = n
  BY FamilyIs
<1>3. Other(s) \in Sides /\ \A r \in Sides : r = s \/ r = Other(s) BY <1>2, SidesAre
<1>4. y \in Nodes(t) /\ Hue(t, y) = 1 /\ Par(t, y) = g /\ y # Null
  <2>1. y \in Links(t) BY <1>1, <1>2, <1>3, TypedParts
  <2> QED BY <1>1, <1>2, <1>3, <2>1, Peek
<1>5. /\ y # g /\ Par(t, p) = g /\ p \in Links(t) /\ y \in Links(t) /\ g \in Links(t)
      /\ 0 \in {0, 1} /\ 1 \in {0, 1}
  BY <1>2, <1>4 DEF Links
<1>6. /\ Shape(a, sub) /\ a.root = t.root /\ SameKids(t, a) /\ SamePars(t, a) /\ SameVals(t, a)
      /\ Nodes(a) = Nodes(t)
      /\ \A m \in Nodes(t) : Hue(a, m) = IF m = p THEN 0 ELSE Hue(t, m)
  BY <1>1, <1>5, Recoloured
<1> HIDE DEF a
<1>7. /\ Shape(b, sub) /\ b.root = a.root /\ SameKids(a, b) /\ SamePars(a, b) /\ SameVals(a, b)
      /\ Nodes(b) = Nodes(a)
      /\ \A m \in Nodes(a) : Hue(b, m) = IF m = y THEN 0 ELSE Hue(a, m)
  <2>1. y \in Links(a) BY <1>5, <1>6 DEF Links
  <2> QED BY <1>5, <1>6, <2>1, Recoloured
<1> HIDE DEF b
<1>8. /\ Shape(u, sub) /\ u.root = b.root /\ SameKids(b, u) /\ SamePars(b, u) /\ SameVals(b, u)
      /\ Nodes(u) = Nodes(b)
      /\ \A m \in Nodes(b) : Hue(u, m) = IF m = g THEN 1 ELSE Hue(b, m)
  <2>1. u = Painted(b, g, 1) BY DEF b, a
  <2>2. g \in Links(b) BY <1>5, <1>6, <1>7 DEF Links
  <2> QED BY <1>5, <1>7, <2>1, <2>2, Recoloured
<1>9. /\ u.root = t.root /\ Nodes(u) = Nodes(t)
      /\ \A m \in Nodes(t), r \in Sides : Kid(u, m, r) = Kid(t, m, r)
      /\ \A m \in Nodes(t) : Hue(u, m) = IF m = g THEN 1 ELSE IF m = p \/ m = y THEN 0
                                         ELSE Hue(t, m)
      /\ SameVals(t, u)
  BY <1>6, <1>7, <1>8 DEF SameKids, SameVals
<1>10. bh \in [Nodes(t) -> Nat \ {0}] BY DEF Growing, Level
<1>11. /\ lev \in [Nodes(t) -> Nat \ {0}] /\ lev[p] = bh[p] + 1 /\ lev[y] = bh[y] + 1
       /\ \A n \in Nodes(t) : n # p /\ n # y => lev[n] = bh[n]
  BY <1>2, <1>4, <1>10
<1> HIDE DEF lev
<1>12. \A n \in Nodes(t), r \in Sides : /\ bh[n] = Height(bh, Kid(t, n, r)) + 1 - Hue(t, n)
                                        /\ Height(bh, Kid(t, n, r)) \in Nat
  BY <1>2, <1>10 DEF Growing, Level, Height
<1>13. Level(u, lev)
  <2> SUFFICES ASSUME NEW n \in Nodes(t), NEW r \in Sides
               PROVE  lev[n] = Height(lev, Kid(t, n, r)) + 1 - Hue(u, n)
    BY <1>9, <1>11 DEF Level
  <2>1. CASE n = g
    <3>1. Height(lev, Kid(t, n, r)) = Height(bh, Kid(t, n, r)) + 1
      <4>1. CASE r = s BY <1>1, <1>2, <1>11, <2>1, <4>1, NullIsNone DEF Height
      <4>2. CASE r = Other(s) BY <1>4, <1>11, <2>1, <4>2 DEF Height
      <4> QED BY <1>3, <4>1, <4>2
    <3> QED BY <1>2, <1>4, <1>5, <1>9, <1>11, <1>12, <2>1, <3>1
  <2>2. CASE n # g
    <3>1. Kid(t, n, r) # Null => Kid(t, n, r) \in Nodes(t) /\ Kid(t, n, r) # p /\ Kid(t, n, r) # y
      BY <1>2, <1>4, <1>5, <2>2
    <3>2. Height(lev, Kid(t, n, r)) = Height(bh, Kid(t, n, r)) BY <1>11, <3>1 DEF Height
    <3>3. bh[n] = Height(bh, Kid(t, n, r)) + 1 - Hue(t, n) /\ Height(bh, Kid(t, n, r)) \in Nat
      BY <1>12
    <3>4. CASE n = p BY <1>2, <1>9, <1>11, <2>2, <3>2, <3>3, <3>4
    <3>5. CASE n = y BY <1>4, <1>9, <1>11, <2>2, <3>2, <3>3, <3>5
    <3>6. CASE n # p /\ n # y BY <1>9, <1>11, <2>2, <3>2, <3>3, <3>6
    <3> QED BY <3>4, <3>5, <3>6
  <2> QED BY <2>1, <2>2
<1>14. Quiet(u, Null, g)
  <2> SUFFICES ASSUME NEW n \in Nodes(t), NEW r \in Sides, Hue(u, n) = 1, Kid(t, n, r) # Null,
                      Kid(t, n, r) # g
               PROVE  Hue(u, Kid(t, n, r)) = 0
    BY <1>9 DEF Quiet
  <2>1. n # p /\ n # y BY <1>2, <1>4, <1>5, <1>9
  <2>2. CASE n = g BY <1>2, <1>3, <1>4, <1>5, <1>9, <2>2
  <2>3. CASE n # g
    <3>1. Hue(t, n) = 1 BY <1>9, <2>1, <2>3
    <3>2. Kid(t, n, r) # z BY <1>2, <2>1
    <3>3. Hue(t, Kid(t, n, r)) = 0 BY <1>1, <3>1, <3>2, NullIsNone DEF Growing, Quiet
    <3> QED BY <1>2, <1>9, <3>3
  <2> QED BY <2>2, <2>3
<1>15. Hue(u, u.root) = 1 => u.root = g
  <2>1. t.root \in Nodes(t) /\ t.root # z
    <3>1. Par(t, t.root) = Null /\ t.root \in Nodes(t) BY <1>1, RootIs
    <3> QED BY <1>1, <1>2, <3>1, NullIsNone
  <2> QED BY <1>9, <2>1 DEF Growing
<1>16. Growing(u, sub, lev, g) BY <1>2, <1>8, <1>9, <1>13, <1>14, <1>15 DEF Growing
<1> QED BY <1>9, <1>16

(* A black node x goes down below its red child y, and they swap colours.   *)
LEMMA TurnedSame ==
  ASSUME NEW t, NEW a, NEW u, NEW x, NEW y, NEW s, Turned(a, u, x, y, s), Nodes(a) = Nodes(t),
         x \in Nodes(t), y \in Nodes(t), s \in Sides,
         a.root = t.root, SameKids(t, a), SamePars(t, a), SameVals(t, a)
  PROVE  Turned(t, u, x, y, s)
<1>1. SameVals(t, u) BY DEF Turned, SameVals
<1>2. Other(s) \in Sides BY SidesAre
<1>3. u.root = IF Par(t, x) = Null THEN y ELSE t.root BY DEF Turned, SamePars
<1>4. /\ Kid(u, x, Other(s)) = Kid(t, y, s) /\ Kid(u, x, s) = Kid(t, x, s)
      /\ Kid(u, y, s) = x /\ Kid(u, y, Other(s)) = Kid(t, y, Other(s))
  BY <1>2 DEF Turned, SameKids
<1>5. \A n \in Nodes(t) \ {x, y}, r \in Sides :
       Kid(u, n, r) = IF Kid(t, n, r) = x THEN y ELSE Kid(t, n, r)
  BY DEF Turned, SameKids
<1>6. \A n \in Nodes(t) : Par(u, n) = IF n = x THEN y ELSE IF n = y THEN Par(t, x)
                                     ELSE IF n = Kid(t, y, s) THEN x ELSE Par(t, n)
  BY DEF Turned, SameKids, SamePars
<1> QED BY <1>1, <1>3, <1>4, <1>5, <1>6 DEF Turned

(* A rotation about a node and its red child with their colours exchanged.  *)
LEMMA ExchangeIs ==
  ASSUME NEW t, NEW sub, Shape(t, sub), NEW x \in Nodes(t), NEW s \in Sides,
         NEW y, y = Kid(t, x, Other(s)), y # Null,
         NEW u, u = Rotated(Painted(Painted(t, y, 0), x, 1), x, s)
  PROVE  /\ Turned(t, u, x, y, s) /\ Shape(u, Regrouped(t, sub, x, y, s))
         /\ \A n \in Nodes(t) : Hue(u, n) = IF n = x THEN 1 ELSE IF n = y THEN 0 ELSE Hue(t, n)
<1> DEFINE a == Painted(t, y, 0)
           b == Painted(a, x, 1)
<1>1. Other(s) \in Sides BY SidesAre
<1>2. y \in Nodes(t) BY <1>1, KidIs
<1>3. x \in Links(t) /\ y \in Links(t) /\ 0 \in {0, 1} /\ 1 \in {0, 1} BY <1>2 DEF Links
<1>4. /\ Shape(a, sub) /\ a.root = t.root /\ SameKids(t, a) /\ SamePars(t, a) /\ SameVals(t, a)
      /\ Nodes(a) = Nodes(t)
      /\ \A m \in Nodes(t) : Hue(a, m) = IF m = y THEN 0 ELSE Hue(t, m)
  BY <1>3, Recoloured
<1>5. u = Rotated(b, x, s) OBVIOUS
<1> HIDE DEF a
<1>6. /\ Shape(b, sub) /\ b.root = a.root /\ SameKids(a, b) /\ SamePars(a, b) /\ SameVals(a, b)
      /\ Nodes(b) = Nodes(a)
      /\ \A m \in Nodes(a) : Hue(b, m) = IF m = x THEN 1 ELSE Hue(a, m)
  <2>1. x \in Links(a) BY <1>3, <1>4 DEF Links
  <2> QED BY <1>3, <1>4, <2>1, Recoloured
<1> HIDE DEF b
<1>7. Kid(b, x, Other(s)) = y BY <1>1, <1>4, <1>6 DEF SameKids
<1>8. Turned(b, u, x, y, s) /\ SameHues(b, u)
  BY <1>4, <1>5, <1>6, <1>7, RotatedIs
<1>9. Turned(t, u, x, y, s)
  <2>1. /\ SameKids(t, b) /\ SamePars(t, b) /\ SameVals(t, b) /\ Nodes(b) = Nodes(t)
        /\ b.root = t.root
    BY <1>4, <1>6 DEF SameKids, SamePars, SameVals
  <2> QED BY <1>2, <1>8, <2>1, TurnedSame
<1>10. Shape(u, Regrouped(t, sub, x, y, s)) BY <1>9, ShapeTurned
<1>11. \A n \in Nodes(t) : Hue(u, n) = IF n = x THEN 1 ELSE IF n = y THEN 0 ELSE Hue(t, n)
  BY <1>4, <1>6, <1>8 DEF SameHues
<1> QED BY <1>9, <1>10, <1>11

LEMMA ExchangeLevel ==
  ASSUME NEW t, NEW sub, Shape(t, sub), NEW x \in Nodes(t), NEW s \in Sides,
         NEW y, y = Kid(t, x, Other(s)), y # Null, NEW u, Turned(t, u, x, y, s),
         \A n \in Nodes(t) : Hue(u, n) = IF n = x THEN 1 ELSE IF n = y THEN 0 ELSE Hue(t, n),
         Hue(t, x) = 0, Hue(t, y) = 1,
         NEW bh, NEW q, NEW qs, LevelBut(t, bh, q, qs), q # y, q = x => qs = s,
         NEW lev, lev = [n \in Nodes(t) |-> IF n = x THEN bh[y] ELSE IF n = y THEN bh[x] ELSE bh[n]]
  PROVE  LevelBut(u, lev, q, qs)
<1> DEFINE o == Other(s)
<1>1. o \in Sides /\ o # s /\ \A r \in Sides : r = s \/ r = o BY SidesAre
<1>2. y \in Nodes(t) /\ y # x /\ Par(t, y) = x BY <1>1, KidIs
<1>3. bh \in [Nodes(t) -> Nat \ {0}] BY DEF LevelBut
<1>4. /\ lev \in [Nodes(t) -> Nat \ {0}] /\ lev[x] = bh[y] /\ lev[y] = bh[x]
      /\ \A n \in Nodes(t) : n # x /\ n # y => lev[n] = bh[n]
  BY <1>2, <1>3
<1>5. Nodes(u) = Nodes(t) BY DEF Turned, SameVals
<1>6. \A n \in Nodes(t), r \in Sides :
        Kid(t, n, r) # Null => Kid(t, n, r) \in Nodes(t) /\ Par(t, Kid(t, n, r)) = n
  BY KidIs
<1>7. \A n \in Nodes(t), r \in Sides :
        /\ Height(bh, Kid(t, n, r)) \in Nat
        /\ Kid(t, n, r) # x /\ Kid(t, n, r) # y
           => Height(lev, Kid(t, n, r)) = Height(bh, Kid(t, n, r))
  BY <1>3, <1>4, <1>6 DEF Height
<1>8. Null \notin Nodes(t) BY NullIsNone DEF Shape
<1>9. /\ Kid(u, x, o) = Kid(t, y, s) /\ Kid(u, x, s) = Kid(t, x, s)
      /\ Kid(u, y, s) = x /\ Kid(u, y, o) = Kid(t, y, o)
      /\ \A n \in Nodes(t) \ {x, y}, r \in Sides :
           Kid(u, n, r) = IF Kid(t, n, r) = x THEN y ELSE Kid(t, n, r)
  BY DEF Turned
<1>10. \A n \in Nodes(t), r \in Sides :
         bh[n] = IF n = q /\ r = qs THEN Height(bh, Kid(t, n, r)) + 2 - Hue(t, n)
                                    ELSE Height(bh, Kid(t, n, r)) + 1 - Hue(t, n)
  BY DEF LevelBut
<1>11. \A r \in Sides : Kid(t, y, r) # x /\ Kid(t, y, r) # y
  <2>1. Weight(sub, y) < Weight(sub, x) BY <1>1, KidIs
  <2>2. \A r \in Sides : Kid(t, y, r) # Null => Weight(sub, Kid(t, y, r)) < Weight(sub, y)
    BY <1>2, KidIs
  <2> QED BY <1>2, <1>8, <2>1, <2>2, SubIs
<1>12. Kid(t, x, s) # x /\ Kid(t, x, s) # y
  <2>1. y \in sub[y] /\ Other(o) = s BY <1>2, SubIs, SidesAre
  <2>2. ~Below(t, sub, x, s, y) BY <1>1, <2>1, KidIs
  <2>3. Kid(t, x, s) # y BY <2>1, <2>2 DEF Below
  <2> QED BY <1>8, <2>3, KidIs
<1>13. bh[x] = bh[y] + 1 /\ bh[y] \in Nat
  <2>1. bh[x] = Height(bh, y) + 1 - 0 BY <1>1, <1>10
  <2> QED BY <1>2, <1>3, <2>1 DEF Height
<1>14. \A r \in Sides : bh[y] = Height(bh, Kid(t, y, r)) BY <1>2, <1>7, <1>10
<1> SUFFICES ASSUME NEW n \in Nodes(t), NEW r \in Sides
             PROVE  lev[n] = IF n = q /\ r = qs THEN Height(lev, Kid(u, n, r)) + 2 - Hue(u, n)
                                               ELSE Height(lev, Kid(u, n, r)) + 1 - Hue(u, n)
  BY <1>4, <1>5 DEF LevelBut
<1>15. CASE n = x /\ r = o
  <2>1. Height(lev, Kid(u, x, o)) = bh[y] BY <1>2, <1>7, <1>9, <1>11, <1>14
  <2>2. ~(n = q /\ r = qs) /\ Hue(u, n) = 1 BY <1>1, <1>15
  <2> QED BY <1>4, <1>13, <1>15, <2>1, <2>2
<1>16. CASE n = x /\ r = s
  <2>1. Height(lev, Kid(u, x, s)) = Height(bh, Kid(t, x, s)) BY <1>7, <1>9, <1>12
  <2>2. Hue(u, n) = 1 BY <1>16
  <2>3. bh[x] = IF n = q /\ r = qs THEN Height(bh, Kid(t, x, s)) + 2 - 0
                                   ELSE Height(bh, Kid(t, x, s)) + 1 - 0
    BY <1>10, <1>16
  <2>4. Height(bh, Kid(t, x, s)) \in Nat BY <1>7
  <2> QED BY <1>4, <1>13, <1>16, <2>1, <2>2, <2>3, <2>4
<1>17. CASE n = y /\ r = s
  <2>1. Height(lev, Kid(u, y, s)) = bh[y] BY <1>4, <1>8, <1>9 DEF Height
  <2>2. ~(n = q /\ r = qs) /\ Hue(u, n) = 0 BY <1>2, <1>17
  <2> QED BY <1>4, <1>13, <1>17, <2>1, <2>2
<1>18. CASE n = y /\ r = o
  <2>1. Height(lev, Kid(u, y, o)) = bh[y] BY <1>1, <1>2, <1>7, <1>9, <1>11, <1>14
  <2>2. ~(n = q /\ r = qs) /\ Hue(u, n) = 0 BY <1>2, <1>18
  <2> QED BY <1>4, <1>13, <1>18, <2>1, <2>2
<1>19. CASE n # x /\ n # y
  <2>1. Height(lev, Kid(u, n, r)) = Height(bh, Kid(t, n, r))
    <3>1. CASE Kid(t, n, r) = x BY <1>2, <1>4, <1>8, <1>9, <1>19, <3>1 DEF Height
    <3>2. CASE Kid(t, n, r) # x
      <4>1. Kid(t, n, r) # y BY <1>2, <1>6, <1>8, <1>19
      <4> QED BY <1>7, <1>9, <1>19, <3>2, <4>1
    <3> QED BY <3>1, <3>2
  <2> QED BY <1>4, <1>10, <1>19, <2>1
<1> QED BY <1>1, <1>15, <1>16, <1>17, <1>18, <1>19

LEMMA ExchangeQuiet ==
  ASSUME NEW t, NEW sub, Shape(t, sub), NEW x \in Nodes(t), NEW s \in Sides,
         NEW y, y = Kid(t, x, Other(s)), y # Null, NEW u, Turned(t, u, x, y, s),
         \A n \in Nodes(t) : Hue(u, n) = IF n = x THEN 1 ELSE IF n = y THEN 0 ELSE Hue(t, n),
         NEW a, NEW c, Quiet(t, a, c), ~Red(t, Kid(t, y, s)), ~Red(t, Kid(t, x, s))
  PROVE  Quiet(u, a, c)
<1> DEFINE o == Other(s)
<1>1. o \in Sides /\ o # s /\ \A r \in Sides : r = s \/ r = o BY SidesAre
<1>2. y \in Nodes(t) /\ y # x /\ Par(t, y) = x BY <1>1, KidIs
<1>3. Nodes(u) = Nodes(t) BY DEF Turned, SameVals
<1>4. \A n \in Nodes(t), r \in Sides :
        Kid(t, n, r) # Null => Kid(t, n, r) \in Nodes(t) /\ Par(t, Kid(t, n, r)) = n
  BY KidIs
<1>5. /\ Kid(u, x, o) = Kid(t, y, s) /\ Kid(u, x, s) = Kid(t, x, s)
      /\ \A n \in Nodes(t) \ {x, y}, r \in Sides :
           Kid(u, n, r) = IF Kid(t, n, r) = x THEN y ELSE Kid(t, n, r)
  BY DEF Turned
<1> SUFFICES ASSUME NEW n \in Nodes(t), NEW r \in Sides, n # a, Hue(u, n) = 1,
                    Kid(u, n, r) # Null, Kid(u, n, r) # c
             PROVE  Hue(u, Kid(u, n, r)) = 0
  BY <1>3 DEF Quiet
<1>6. n # y BY <1>2
<1>7. Typed(t) /\ Null \notin Nodes(t) BY NullIsNone DEF Shape
<1>8. CASE n = x
  <2>1. ASSUME NEW m, m \in Links(t), m # Null, ~Red(t, m), m # x
        PROVE  Hue(u, m) = 0
    <3>1. m \in Nodes(t) /\ Hue(t, m) = 0 BY <1>7, <2>1, Peek
    <3> QED BY <2>1, <3>1
  <2>2. Kid(t, y, s) \in Links(t) /\ Kid(t, x, s) \in Links(t) BY <1>2, <1>7, TypedParts
  <2>3. Kid(t, x, s) # x BY <1>7, KidIs
  <2>4. Kid(t, y, s) # x
    <3>1. Weight(sub, y) < Weight(sub, x) BY <1>1, KidIs
    <3>2. Kid(t, y, s) # Null => Weight(sub, Kid(t, y, s)) < Weight(sub, y) BY <1>2, KidIs
    <3> QED BY <1>2, <1>7, <3>1, <3>2, SubIs
  <2> QED BY <1>1, <1>5, <1>8, <2>1, <2>2, <2>3, <2>4
<1>9. CASE n # x
  <2>1. CASE Kid(t, n, r) = x BY <1>2, <1>5, <1>6, <1>9, <2>1
  <2>2. CASE Kid(t, n, r) # x
    <3>1. Kid(u, n, r) = Kid(t, n, r) BY <1>5, <1>6, <1>9, <2>2
    <3>2. Hue(t, n) = 1 BY <1>6, <1>9
    <3>3. Hue(t, Kid(t, n, r)) = 0 BY <3>1, <3>2 DEF Quiet
    <3> QED BY <1>4, <2>2, <3>1, <3>3
  <2> QED BY <2>1, <2>2
<1> QED BY <1>8, <1>9

LEMMA LevelAlone ==
  ASSUME NEW t, Typed(t), NEW bh
  PROVE  Level(t, bh) <=> LevelBut(t, bh, Null, "left")
<1>1. \A n \in Nodes(t) : n # Null BY NullIsNone
<1> QED BY <1>1 DEF Level, LevelBut

(* A black uncle and an outer grandchild: the parent goes up, and is black. *)
LEMMA HoistedIs ==
  ASSUME NEW t, NEW sub, NEW bh, NEW z, Growing(t, sub, bh, z), Red(t, Par(t, z)),
         NEW p, p = Par(t, z), NEW g, g = Par(t, p), NEW s \in Sides,
         Kid(t, g, s) = p, Kid(t, p, s) = z, ~Red(t, Kid(t, g, Other(s))),
         NEW u, u = Hoisted(t, z, s)
  PROVE  /\ SameVals(t, u) /\ ~Red(u, Par(u, z))
         /\ \E new, lev : Growing(u, new, lev, z)
<1> DEFINE o == Other(s)
           new == Regrouped(t, sub, g, p, o)
           lev == [n \in Nodes(t) |-> IF n = g THEN bh[p] ELSE IF n = p THEN bh[g] ELSE bh[n]]
<1>1. Shape(t, sub) /\ Typed(t) /\ z \in Nodes(t) BY DEF Growing, Shape
<1>2. /\ p \in Nodes(t) /\ g \in Nodes(t) /\ Hue(t, p) = 1 /\ Hue(t, g) = 0
      /\ z # p /\ z # g /\ p # g /\ p # t.root
      /\ \A n \in Nodes(t), r \in Sides :
           Kid(t, n, r) # Null => Kid(t, n, r) \in Nodes(t) /\ Par(t, Kid(t, n, r)) = n
  BY FamilyIs
<1>3. o \in Sides /\ o # s /\ Other(o) = s BY SidesAre
<1>4. z # Null /\ p # Null /\ g # Null /\ z \in Links(t) /\ p \in Links(t)
  BY <1>1, <1>2, NullIsNone DEF Links
<1>5. u = Rotated(Painted(Painted(t, p, 0), g, 1), g, o)
  <2>1. Parent(t, z) = p /\ Parent(t, p) = g BY <1>1, <1>4, Peek
  <2> QED BY <2>1 DEF Hoisted
<1>6. /\ Turned(t, u, g, p, o) /\ Shape(u, new)
      /\ \A n \in Nodes(t) : Hue(u, n) = IF n = g THEN 1 ELSE IF n = p THEN 0 ELSE Hue(t, n)
  BY <1>1, <1>2, <1>3, <1>4, <1>5, ExchangeIs
<1>7. LevelBut(t, bh, Null, "left") BY <1>1, LevelAlone DEF Growing
<1>8. LevelBut(u, lev, Null, "left")
  BY <1>1, <1>2, <1>3, <1>4, <1>6, <1>7, ExchangeLevel
<1>9. Level(u, lev) BY <1>6, <1>8, LevelAlone DEF Shape
<1>10. ~Red(t, Kid(t, p, o)) /\ Kid(t, p, o) # z
  <2>1. z \in sub[z] BY <1>1, SubIs
  <2>2. ~Below(t, sub, p, o, z) BY <1>1, <1>2, <1>4, <2>1, KidIs
  <2>3. Kid(t, p, o) # z BY <1>4, <2>1, <2>2 DEF Below
  <2>4. Kid(t, p, o) # Null => Hue(t, Kid(t, p, o)) = 0
    BY <1>2, <1>3, <1>4, <2>3 DEF Growing, Quiet
  <2>5. Kid(t, p, o) \in Links(t) BY <1>1, <1>2, <1>3, TypedParts
  <2> QED BY <1>1, <2>3, <2>4, <2>5, Peek
<1>11. Quiet(u, Null, z)
  <2>1. Quiet(t, Null, z) BY DEF Growing
  <2> QED BY <1>1, <1>2, <1>3, <1>4, <1>6, <1>10, <2>1, ExchangeQuiet
<1>12. Nodes(u) = Nodes(t) /\ SameVals(t, u) BY <1>6 DEF Turned, SameVals
<1>13. Hue(u, u.root) = 1 => u.root = z
  <2>1. u.root = IF Par(t, g) = Null THEN p ELSE t.root BY <1>6 DEF Turned
  <2>2. CASE Par(t, g) = Null BY <1>2, <1>6, <2>1, <2>2
  <2>3. CASE Par(t, g) # Null
    <3>1. Par(t, t.root) = Null /\ t.root \in Nodes(t) BY <1>1, RootIs
    <3>2. t.root # g /\ t.root # p /\ t.root # z BY <1>2, <1>4, <2>3, <3>1
    <3> QED BY <1>6, <2>1, <2>3, <3>1, <3>2 DEF Growing
  <2> QED BY <2>2, <2>3
<1>14. Hue(u, z) = 1 BY <1>1, <1>2, <1>6 DEF Growing
<1>15. Growing(u, new, lev, z)
  BY <1>1, <1>6, <1>9, <1>11, <1>12, <1>13, <1>14 DEF Growing
<1>16. Par(u, z) = p BY <1>1, <1>2, <1>6, <1>10 DEF Turned
<1>17. ~Red(u, Par(u, z))
  <2>1. Typed(u) /\ p \in Links(u) BY <1>2, <1>6, <1>12 DEF Shape, Links
  <2> QED BY <1>2, <1>6, <1>16, <2>1, Peek
<1> QED BY <1>12, <1>15, <1>17

(* A black uncle and an inner grandchild: it goes above its parent first.   *)
LEMMA SwungIs ==
  ASSUME NEW t, NEW sub, NEW bh, NEW z, Growing(t, sub, bh, z), Red(t, Par(t, z)),
         NEW p, p = Par(t, z), NEW g, g = Par(t, p), NEW s \in Sides,
         Kid(t, g, s) = p, Kid(t, p, Other(s)) = z,
         NEW a, a = Rotated(t, p, s)
  PROVE  /\ SameVals(t, a) /\ SameHues(t, a)
         /\ Par(a, p) = z /\ Par(a, z) = g /\ Kid(a, g, s) = z /\ Kid(a, z, s) = p
         /\ Kid(a, g, Other(s)) = Kid(t, g, Other(s))
         /\ \E new : Growing(a, new, bh, p)
<1> DEFINE o == Other(s)
           new == Regrouped(t, sub, p, z, s)
<1>1. Shape(t, sub) /\ Typed(t) /\ z \in Nodes(t) /\ Hue(t, z) = 1 BY DEF Growing, Shape
<1>2. /\ p \in Nodes(t) /\ g \in Nodes(t) /\ Hue(t, p) = 1 /\ Hue(t, g) = 0
      /\ z # p /\ z # g /\ p # g /\ p # t.root
      /\ \A n \in Nodes(t), r \in Sides :
           Kid(t, n, r) # Null => Kid(t, n, r) \in Nodes(t) /\ Par(t, Kid(t, n, r)) = n
  BY FamilyIs
<1>3. o \in Sides /\ o # s /\ Other(o) = s /\ \A r \in Sides : r = s \/ r = o BY SidesAre
<1>4. z # Null /\ p # Null /\ g # Null /\ Null \notin Nodes(t)
  BY <1>1, <1>2, NullIsNone
<1>5. Turned(t, a, p, z, s) /\ SameHues(t, a) BY <1>1, <1>2, <1>4, RotatedIs
<1>6. Shape(a, new) BY <1>1, <1>2, <1>4, <1>5, ShapeTurned
<1>7. /\ Kid(a, p, o) = Kid(t, z, s) /\ Kid(a, p, s) = Kid(t, p, s)
      /\ Kid(a, z, s) = p /\ Kid(a, z, o) = Kid(t, z, o)
      /\ \A n \in Nodes(t) \ {p, z}, r \in Sides :
           Kid(a, n, r) = IF Kid(t, n, r) = p THEN z ELSE Kid(t, n, r)
      /\ Par(a, p) = z /\ Par(a, z) = g
      /\ a.root = t.root /\ Nodes(a) = Nodes(t) /\ SameVals(t, a)
  BY <1>1, <1>2, <1>4, <1>5 DEF Turned, SameVals
<1>8. Kid(t, g, o) # p
  <2>1. p \in sub[p] BY <1>2, SubIs, <1>1
  <2>2. ~Below(t, sub, g, o, p) BY <1>1, <1>2, <1>4, <2>1, KidIs
  <2> QED BY <1>4, <2>1, <2>2 DEF Below
<1>9. Kid(a, g, s) = z /\ Kid(a, g, o) = Kid(t, g, o) BY <1>2, <1>3, <1>7, <1>8
<1>10. bh \in [Nodes(t) -> Nat \ {0}] BY DEF Growing, Level
<1>11. \A n \in Nodes(t), r \in Sides : bh[n] = Height(bh, Kid(t, n, r)) + 1 - Hue(t, n)
  BY DEF Growing, Level
<1>12. \A n \in Nodes(t), r \in Sides : Height(bh, Kid(t, n, r)) \in Nat
  BY <1>2, <1>10 DEF Height
<1>13. /\ \A r \in Sides : bh[p] = Height(bh, Kid(t, p, r)) /\ bh[z] = Height(bh, Kid(t, z, r))
       /\ bh[p] = bh[z]
  <2>1. \A r \in Sides : bh[p] = Height(bh, Kid(t, p, r)) /\ bh[z] = Height(bh, Kid(t, z, r))
    BY <1>1, <1>2, <1>11, <1>12
  <2> QED BY <1>3, <1>4, <2>1 DEF Height
<1>14. Level(a, bh)
  <2> SUFFICES ASSUME NEW n \in Nodes(t), NEW r \in Sides
               PROVE  bh[n] = Height(bh, Kid(a, n, r)) + 1 - Hue(t, n)
    BY <1>5, <1>7, <1>10 DEF Level, SameHues
  <2>1. CASE n = p
    <3>1. bh[p] = Height(bh, Kid(a, p, r)) BY <1>3, <1>7, <1>13
    <3>2. bh[p] \in Nat BY <1>2, <1>10
    <3> QED BY <1>2, <2>1, <3>1, <3>2
  <2>2. CASE n = z
    <3>1. bh[z] = Height(bh, Kid(a, z, r))
      <4>1. CASE r = s BY <1>4, <1>7, <1>13, <4>1 DEF Height
      <4>2. CASE r = o BY <1>3, <1>7, <1>13, <4>2
      <4> QED BY <1>3, <4>1, <4>2
    <3>2. bh[z] \in Nat BY <1>1, <1>10
    <3> QED BY <1>1, <2>2, <3>1, <3>2
  <2>3. CASE n # p /\ n # z
    <3>1. Height(bh, Kid(a, n, r)) = Height(bh, Kid(t, n, r))
      BY <1>4, <1>7, <1>13, <2>3 DEF Height
    <3> QED BY <1>11, <3>1
  <2> QED BY <2>1, <2>2, <2>3
<1>15. Quiet(a, Null, p)
  <2> SUFFICES ASSUME NEW n \in Nodes(t), NEW r \in Sides, Hue(t, n) = 1, Kid(a, n, r) # Null,
                      Kid(a, n, r) # p
               PROVE  Hue(t, Kid(a, n, r)) = 0
    <3>1. \A n \in Nodes(t), r \in Sides : Kid(a, n, r) # Null => Kid(a, n, r) \in Nodes(t)
      BY <1>6, <1>7, KidIs
    <3> QED BY <1>5, <1>7, <3>1 DEF Quiet, SameHues
  <2>0. \A m \in Nodes(t), q \in Sides :
          Hue(t, m) = 1 /\ Kid(t, m, q) # Null /\ Kid(t, m, q) # z => Hue(t, Kid(t, m, q)) = 0
    BY <1>4 DEF Growing, Quiet
  <2>1. CASE n = p
    <3>1. Kid(t, z, s) # z BY <1>1, <1>4, KidIs
    <3>2. Kid(t, p, s) # z
      <4>1. z \in sub[z] BY <1>1, SubIs
      <4>2. ~Below(t, sub, p, s, z) BY <1>1, <1>2, <1>3, <1>4, <4>1, KidIs
      <4> QED BY <1>4, <4>1, <4>2 DEF Below
    <3> QED BY <1>1, <1>2, <1>3, <1>7, <2>0, <2>1, <3>1, <3>2
  <2>2. CASE n = z
    <3>1. Kid(t, z, o) # z BY <1>1, <1>3, <1>4, KidIs
    <3> QED BY <1>1, <1>3, <1>7, <2>0, <2>2, <3>1
  <2>3. CASE n # p /\ n # z
    <3>1. Kid(t, n, r) # p BY <1>2, <1>4, <2>3
    <3>2. Kid(t, n, r) # z BY <1>2, <1>4, <2>3
    <3> QED BY <1>7, <2>0, <2>3, <3>1, <3>2
  <2> QED BY <2>1, <2>2, <2>3
<1>16. Hue(a, a.root) = 1 => a.root = p
  <2>1. t.root \in Nodes(t) /\ Par(t, t.root) = Null BY <1>1, RootIs
  <2>2. Hue(a, a.root) = Hue(t, t.root) BY <1>5, <1>7, <2>1 DEF SameHues
  <2> QED BY <1>4, <2>1, <2>2 DEF Growing
<1>17. Hue(a, p) = 1 BY <1>2, <1>5 DEF SameHues
<1>18. Growing(a, new, bh, p)
  BY <1>2, <1>6, <1>7, <1>14, <1>15, <1>16, <1>17 DEF Growing
<1> QED BY <1>5, <1>7, <1>9, <1>18

(* A turn of insert_fixup either ends the loop or brings it higher up.      *)
LEMMA InsertTurnIs ==
  ASSUME NEW s, NEW sub, NEW bh, Growing(s.tree, sub, bh, s.z), NEW r, r = InsertTurn(s)
  PROVE  /\ SameVals(s.tree, r.tree)
         /\ \E new, lev : /\ Growing(r.tree, new, lev, r.z)
                          /\ ~Red(r.tree, Par(r.tree, r.z)) \/ Weight(new, r.z) > Weight(sub, s.z)
<1> DEFINE t == s.tree  z == s.z  p == Par(t, z)  g == Par(t, p)
           side == SideOf(t, p)  y == Kid(t, g, Other(side))
<1>1. Shape(t, sub) /\ Typed(t) /\ z \in Nodes(t) BY DEF Growing, Shape
<1>2. z # Null /\ Parent(t, z) = p /\ p \in Links(t)
  BY <1>1, NullIsNone, TypedParts, Peek DEF Links
<1>3. CASE ~Red(t, p)
  <2>1. r = s BY <1>2, <1>3 DEF InsertTurn
  <2>2. SameVals(t, t) BY DEF SameVals
  <2>3. Growing(r.tree, sub, bh, r.z) /\ ~Red(r.tree, Par(r.tree, r.z)) BY <1>3, <2>1
  <2> QED BY <2>1, <2>2, <2>3
<1>4. CASE Red(t, p)
  <2>1. /\ p \in Nodes(t) /\ g \in Nodes(t) /\ side \in Sides /\ Kid(t, g, side) = p
        /\ \E q \in Sides : Kid(t, p, q) = z
    BY <1>4, FamilyIs
  <2>2. Other(side) \in Sides /\ \A q \in Sides : q = side \/ q = Other(side)
    BY <2>1, SidesAre
  <2>3. /\ p # Null /\ g # Null /\ p \in Links(t) /\ g \in Links(t) /\ y \in Links(t)
    BY <1>1, <2>1, <2>2, NullIsNone, TypedParts DEF Links
  <2>4. /\ Parent(t, p) = g /\ Child(t, g, Other(side)) = y
        /\ Child(t, p, Other(side)) = Kid(t, p, Other(side))
    BY <1>1, <2>2, <2>3, Peek
  <2> DEFINE lit == Painted(Painted(Painted(t, p, 0), y, 0), g, 1)
             swung == Rotated(t, p, side)
  <2>5. r = IF Red(t, y) THEN [tree |-> lit, z |-> g]
            ELSE IF z = Kid(t, p, Other(side)) THEN [tree |-> Hoisted(swung, p, side), z |-> p]
            ELSE [tree |-> Hoisted(t, z, side), z |-> z]
    BY <1>2, <1>4, <2>4 DEF InsertTurn
  <2>6. CASE Red(t, y)
    <3> HIDE DEF lit
    <3>1. r.tree = lit /\ r.z = g BY <2>5, <2>6
    <3>2. SameVals(t, lit) /\ \E lev : Growing(lit, sub, lev, g)
      <4>1. lit = Painted(Painted(Painted(t, p, 0), y, 0), g, 1) BY DEF lit
      <4> HIDE DEF p, g, side, y, t, z
      <4> QED BY <1>4, <2>6, <4>1, LightenedIs DEF p, g, side, y, t, z
    <3>3. PICK lev : Growing(lit, sub, lev, g) BY <3>2
    <3>4. Weight(sub, g) > Weight(sub, z)
      <4>1. PICK q \in Sides : Kid(t, p, q) = z BY <2>1
      <4>2. Weight(sub, z) < Weight(sub, p) /\ Weight(sub, p) < Weight(sub, g)
        BY <1>1, <1>2, <2>1, <2>3, <4>1, KidIs
      <4> QED BY <1>1, <2>1, <4>2, SubIs
    <3> QED BY <3>1, <3>2, <3>3, <3>4
  <2>7. CASE ~Red(t, y) /\ z = Kid(t, p, Other(side))
    <3> DEFINE a == swung  u == Hoisted(a, p, side)
    <3>1. r.tree = u /\ r.z = p BY <2>5, <2>7
    <3>2. /\ SameVals(t, a) /\ SameHues(t, a)
          /\ Par(a, p) = z /\ Par(a, z) = g /\ Kid(a, g, side) = z /\ Kid(a, z, side) = p
          /\ Kid(a, g, Other(side)) = y
          /\ \E new : Growing(a, new, bh, p)
      BY <1>4, <2>1, <2>7, SwungIs
    <3> HIDE DEF swung
    <3>3. PICK mid : Growing(a, mid, bh, p) BY <3>2
    <3>4. Typed(a) /\ Nodes(a) = Nodes(t) /\ z \in Links(a) /\ y \in Links(a)
      BY <1>1, <2>3, <3>2, <3>3 DEF Growing, Shape, SameVals, Links
    <3>5. Red(a, z) /\ ~Red(a, y)
      <4>1. Hue(a, z) = 1 BY <1>1, <3>2 DEF Growing, SameHues
      <4>2. y # Null => Hue(a, y) = Hue(t, y) /\ Hue(t, y) # 1
        BY <1>1, <2>3, <2>7, <3>2, Peek DEF SameHues
      <4> QED BY <1>2, <3>4, <4>1, <4>2, Peek
    <3>6. /\ SameVals(a, u) /\ ~Red(u, Par(u, p))
          /\ \E new, lev : Growing(u, new, lev, p)
      BY <2>1, <3>2, <3>3, <3>5, HoistedIs
    <3>7. SameVals(t, u) BY <3>2, <3>6 DEF SameVals
    <3> QED BY <3>1, <3>6, <3>7
  <2>8. CASE ~Red(t, y) /\ z # Kid(t, p, Other(side))
    <3> DEFINE u == Hoisted(t, z, side)
    <3>1. r.tree = u /\ r.z = z BY <2>5, <2>8
    <3>2. Kid(t, p, side) = z BY <2>1, <2>2, <2>8
    <3>3. /\ SameVals(t, u) /\ ~Red(u, Par(u, z))
          /\ \E new, lev : Growing(u, new, lev, z)
      BY <1>4, <2>1, <2>8, <3>2, HoistedIs
    <3> QED BY <3>1, <3>3
  <2> QED BY <2>6, <2>7, <2>8
<1> QED BY <1>3, <1>4

InsertRun(f, s, m) ==
  f = [i \in 0 .. m |-> IF i = 0 THEN s ELSE InsertTurn(f[i - 1])]

LEMMA InsertRunExists ==
  ASSUME NEW s, NEW m \in Nat
  PROVE  \E f : InsertRun(f, s, m)
<1> DEFINE T == {k \in Nat : \E f : InsertRun(f, s, k)}
<1>1. 0 \in T
  <2> DEFINE f == [i \in 0 .. 0 |-> s]
  <2>1. f = [i \in 0 .. 0 |-> IF i = 0 THEN s ELSE InsertTurn(f[i - 1])] OBVIOUS
  <2> QED BY <2>1 DEF InsertRun
<1>2. ASSUME NEW k \in Nat, k \in T PROVE k + 1 \in T
  <2>1. PICK f : InsertRun(f, s, k) BY <1>2
  <2> DEFINE top == InsertTurn(f[k])
             h == [i \in 0 .. k + 1 |-> IF i = k + 1 THEN top ELSE f[i]]
  <2> HIDE DEF top
  <2>2. ASSUME NEW i \in 0 .. k + 1
        PROVE  h[i] = IF i = 0 THEN s ELSE InsertTurn(h[i - 1])
    <3>1. CASE i = 0 BY <2>1, <3>1 DEF InsertRun
    <3>2. CASE i = k + 1
      <4>1. i # 0 /\ i - 1 = k /\ h[i] = top /\ h[k] = f[k] BY <3>2
      <4> QED BY <3>2, <4>1 DEF top
    <3>3. CASE i # 0 /\ i # k + 1
      <4>1. i \in 0 .. k /\ i - 1 \in 0 .. k /\ h[i] = f[i] /\ h[i - 1] = f[i - 1] BY <3>3
      <4> QED BY <2>1, <3>3, <4>1 DEF InsertRun
    <3> QED BY <3>1, <3>2, <3>3
  <2>3. h = [i \in 0 .. k + 1 |-> h[i]] OBVIOUS
  <2> HIDE DEF h
  <2>4. InsertRun(h, s, k + 1) BY <2>2, <2>3 DEF InsertRun
  <2> QED BY <2>4
<1> HIDE DEF T
<1>3. m \in T BY <1>1, <1>2, Induction
<1> QED BY <1>3 DEF T

LEMMA InsertFixupBy ==
  ASSUME NEW t, Cardinality(Nodes(t)) \in Nat, NEW z, NEW s, s = [tree |-> t, z |-> z]
  PROVE  \E f : /\ InsertRun(f, s, Cardinality(Nodes(t)))
                /\ InsertFixup(t, z) = Painted(f[Cardinality(Nodes(t))].tree,
                                               f[Cardinality(Nodes(t))].tree.root, 0)
<1> DEFINE c == CHOOSE f : InsertRun(f, s, Cardinality(Nodes(t)))
<1>1. \E f : InsertRun(f, s, Cardinality(Nodes(t))) BY InsertRunExists
<1>2. InsertRun(c, s, Cardinality(Nodes(t))) BY <1>1
<1>3. InsertFixup(t, z) = Painted(c[Cardinality(Nodes(t))].tree,
                                  c[Cardinality(Nodes(t))].tree.root, 0)
  BY DEF InsertFixup, InsertRun, Nodes
<1> QED BY <1>2, <1>3

(* So as many turns as there are nodes end it, in a red-black tree.         *)
LEMMA InsertFixupIs ==
  ASSUME NEW t, NEW sub, NEW bh, NEW z, Growing(t, sub, bh, z), NEW u, u = InsertFixup(t, z)
  PROVE  SameVals(t, u) /\ \E new, lev : Balanced(u, new, lev)
<1> DEFINE N == Cardinality(Nodes(t))
           s == [tree |-> t, z |-> z]
<1>1. Shape(t, sub) /\ z \in Nodes(t) BY DEF Growing
<1>2. N \in Nat BY <1>1, SubIs
<1>3. PICK f : InsertRun(f, s, N) /\ u = Painted(f[N].tree, f[N].tree.root, 0)
  BY <1>2, InsertFixupBy
<1> DEFINE Good(i) ==
             /\ SameVals(t, f[i].tree)
             /\ \E new, lev : /\ Growing(f[i].tree, new, lev, f[i].z)
                              /\ \/ ~Red(f[i].tree, Par(f[i].tree, f[i].z))
                                 \/ Weight(new, f[i].z) > i
           T == {i \in Nat : i <= N => Good(i)}
<1>4. 0 \in T
  <2>1. f[0] = s BY <1>2, <1>3 DEF InsertRun
  <2>2. f[0].tree = t /\ f[0].z = z BY <2>1
  <2>3. Weight(sub, z) > 0 BY <1>1, SubIs
  <2>4. SameVals(t, t) BY DEF SameVals
  <2> QED BY <2>2, <2>3, <2>4
<1>5. ASSUME NEW i \in Nat, i \in T PROVE i + 1 \in T
  <2> SUFFICES ASSUME i + 1 <= N PROVE Good(i + 1) OBVIOUS
  <2>1. Good(i) BY <1>2, <1>5
  <2>2. f[i + 1] = InsertTurn(f[i])
    <3>1. i + 1 \in 0 .. N /\ (i + 1) - 1 = i /\ i + 1 # 0 BY <1>2
    <3> QED BY <1>3, <3>1 DEF InsertRun
  <2>3. PICK new, lev : /\ Growing(f[i].tree, new, lev, f[i].z)
                        /\ \/ ~Red(f[i].tree, Par(f[i].tree, f[i].z))
                           \/ Weight(new, f[i].z) > i
    BY <2>1
  <2>4. /\ SameVals(f[i].tree, f[i + 1].tree)
        /\ \E new2, lev2 :
             /\ Growing(f[i + 1].tree, new2, lev2, f[i + 1].z)
             /\ \/ ~Red(f[i + 1].tree, Par(f[i + 1].tree, f[i + 1].z))
                \/ Weight(new2, f[i + 1].z) > Weight(new, f[i].z)
    BY <2>2, <2>3, InsertTurnIs
  <2>5. SameVals(t, f[i + 1].tree) BY <2>1, <2>4 DEF SameVals
  <2>6. CASE ~Red(f[i].tree, Par(f[i].tree, f[i].z))
    <3>1. f[i + 1] = f[i]
      <4>1. f[i].z # Null /\ Typed(f[i].tree) /\ f[i].z \in Links(f[i].tree)
        BY <2>3, NullIsNone DEF Growing, Shape, Links
      <4>2. Parent(f[i].tree, f[i].z) = Par(f[i].tree, f[i].z) BY <4>1, Peek
      <4> QED BY <2>2, <2>6, <4>2 DEF InsertTurn
    <3> QED BY <2>3, <2>5, <2>6, <3>1
  <2>7. CASE Weight(new, f[i].z) > i
    <3>1. PICK new2, lev2 :
             /\ Growing(f[i + 1].tree, new2, lev2, f[i + 1].z)
             /\ \/ ~Red(f[i + 1].tree, Par(f[i + 1].tree, f[i + 1].z))
                \/ Weight(new2, f[i + 1].z) > Weight(new, f[i].z)
      BY <2>4
    <3>2. Weight(new, f[i].z) \in Nat /\ Weight(new2, f[i + 1].z) \in Nat
      BY <2>3, <3>1, SubIs DEF Growing
    <3>3. Weight(new2, f[i + 1].z) > Weight(new, f[i].z) => Weight(new2, f[i + 1].z) > i + 1
      BY <2>7, <3>2
    <3> QED BY <2>5, <3>1, <3>3
  <2> QED BY <2>3, <2>6, <2>7
<1> HIDE DEF T
<1>6. N \in T BY <1>2, <1>4, <1>5, Induction
<1>7. Good(N) BY <1>2, <1>6 DEF T
<1>8. PICK new, lev : /\ Growing(f[N].tree, new, lev, f[N].z)
                      /\ \/ ~Red(f[N].tree, Par(f[N].tree, f[N].z))
                         \/ Weight(new, f[N].z) > N
  BY <1>7
<1>9. Nodes(f[N].tree) = Nodes(t) BY <1>7 DEF SameVals
<1>10. Weight(new, f[N].z) <= N /\ Weight(new, f[N].z) \in Nat BY <1>8, <1>9, SubIs DEF Growing
<1>11. ~Red(f[N].tree, Par(f[N].tree, f[N].z)) BY <1>2, <1>8, <1>10
<1>12. SameVals(f[N].tree, u) /\ \E lev2 : Balanced(u, new, lev2) BY <1>3, <1>8, <1>11, GrownIs
<1>13. SameVals(t, u) BY <1>7, <1>12 DEF SameVals
<1> QED BY <1>12, <1>13

-----------------------------------------------------------------------------
(* Walks: a rank that falls at every step brings a walk to its end.         *)

Walk(next, rank, M) ==
  /\ next \in [DOMAIN next -> DOMAIN next \cup {Null}] /\ Null \notin DOMAIN next
  /\ rank \in [DOMAIN next -> Nat] /\ M \in Nat
  /\ \A x \in DOMAIN next : /\ rank[x] <= M
                            /\ next[x] # Null => rank[next[x]] < rank[x]

(* Induction backwards along a walk that ends.                              *)
LEMMA AlongWalk ==
  ASSUME NEW next, NEW rank, NEW M, Walk(next, rank, M), NEW T,
         \A x \in DOMAIN next : next[x] = Null \/ next[x] \in T => x \in T
  PROVE  \A x \in DOMAIN next : x \in T
<1> SUFFICES ASSUME NEW z \in DOMAIN next, z \notin T PROVE FALSE OBVIOUS
<1> DEFINE W == {rank[x] : x \in DOMAIN next \ T}
<1>1. W \subseteq Nat /\ W # {} BY DEF Walk
<1>2. PICK w \in W : \A y \in W : ~(y < w) BY <1>1, Least
<1>3. PICK x \in DOMAIN next \ T : w = rank[x] BY <1>2
<1>4. next[x] # Null /\ next[x] \in DOMAIN next \ T /\ rank[next[x]] < rank[x]
  BY <1>3 DEF Walk
<1>5. rank[next[x]] \in W BY <1>4
<1> QED BY <1>2, <1>3, <1>4, <1>5

EndBy(next, e, x) == e[x] = IF next[x] = Null THEN x ELSE e[next[x]]

LEMMA EndExists ==
  ASSUME NEW next, NEW rank, NEW M, Walk(next, rank, M)
  PROVE  \E e : e = [x \in DOMAIN next |-> IF next[x] = Null THEN x ELSE e[next[x]]]
<1> DEFINE D == DOMAIN next
           H(m, e) == /\ e = [x \in D |-> e[x]]
                      /\ \A x \in D : rank[x] < m => EndBy(next, e, x)
           T == {m \in Nat : \E e : H(m, e)}
<1>0. /\ \A x \in D : rank[x] \in Nat /\ rank[x] <= M
      /\ \A x \in D : next[x] # Null => next[x] \in D /\ rank[next[x]] < rank[x]
      /\ M \in Nat
  BY DEF Walk
<1>1. 0 \in T
  <2> DEFINE e == [x \in D |-> x]
  <2>1. H(0, e) BY <1>0
  <2> QED BY <2>1
<1>2. ASSUME NEW m \in Nat, m \in T PROVE m + 1 \in T
  <2>1. PICK e : H(m, e) BY <1>2
  <2> DEFINE f == [x \in D |-> IF rank[x] = m THEN (IF next[x] = Null THEN x ELSE e[next[x]])
                               ELSE e[x]]
  <2>2. \A x \in D : f[x] = IF rank[x] = m THEN (IF next[x] = Null THEN x ELSE e[next[x]])
                            ELSE e[x]
    OBVIOUS
  <2>3. f = [x \in D |-> f[x]] OBVIOUS
  <2> HIDE DEF f
  <2>4. ASSUME NEW x \in D, rank[x] < m + 1 PROVE EndBy(next, f, x)
    <3>1. next[x] # Null => f[next[x]] = e[next[x]] BY <1>0, <2>2, <2>4
    <3>2. CASE rank[x] = m BY <2>2, <3>1, <3>2 DEF EndBy
    <3>3. CASE rank[x] # m
      <4>1. rank[x] < m BY <1>0, <2>4, <3>3
      <4>2. EndBy(next, e, x) BY <2>1, <4>1
      <4> QED BY <2>2, <3>1, <3>3, <4>2 DEF EndBy
    <3> QED BY <3>2, <3>3
  <2>5. H(m + 1, f) BY <2>3, <2>4
  <2> QED BY <2>5
<1> HIDE DEF T
<1>3. M + 1 \in T BY <1>0, <1>1, <1>2, Induction
<1>4. PICK e : H(M + 1, e) BY <1>3 DEF T
<1>5. \A x \in D : e[x] = IF next[x] = Null THEN x ELSE e[next[x]]
  BY <1>0, <1>4 DEF EndBy
<1>6. e = [x \in D |-> IF next[x] = Null THEN x ELSE e[next[x]]] BY <1>4, <1>5
<1> QED BY <1>6

LEMMA LastIs ==
  ASSUME NEW next, NEW rank, NEW M, Walk(next, rank, M)
  PROVE  \A x \in DOMAIN next :
           Last(next, x) = IF next[x] = Null THEN x ELSE Last(next, next[x])
<1> DEFINE c == CHOOSE e : e = [x \in DOMAIN next |-> IF next[x] = Null THEN x ELSE e[next[x]]]
<1>1. c = [x \in DOMAIN next |-> IF next[x] = Null THEN x ELSE c[next[x]]] BY EndExists
<1>2. \A x : Last(next, x) = c[x] BY DEF Last
<1> HIDE DEF c
<1>3. \A x \in DOMAIN next : c[x] = IF next[x] = Null THEN x ELSE c[next[x]] BY <1>1
<1> QED BY <1>2, <1>3

-----------------------------------------------------------------------------
(* find_node, and the place where a new key belongs.                        *)

Way(k, n) == IF k < n THEN "left" ELSE "right"

LEMMA TowardIs ==
  ASSUME NEW t, NEW sub, Shape(t, sub), NEW k \in Nat, NEW next, next = Toward(t, k)
  PROVE  /\ DOMAIN next = Nodes(t)
         /\ \A n \in Nodes(t) : next[n] = IF n = k THEN Null ELSE Kid(t, n, Way(k, n))
         /\ \A n \in Nodes(t) : Last(next, n) = IF next[n] = Null THEN n ELSE Last(next, next[n])
         /\ \E rank, M : Walk(next, rank, M)
<1> DEFINE rank == [n \in Nodes(t) |-> Weight(sub, n)]
           M == Cardinality(Nodes(t))
<1>1. DOMAIN next = Nodes(t) BY DEF Toward, Nodes
<1>2. \A n \in Nodes(t) : next[n] = IF n = k THEN Null ELSE Kid(t, n, Way(k, n))
  BY DEF Toward, Nodes, Kid, Way
<1>3. next = [n \in Nodes(t) |-> next[n]] BY <1>1 DEF Toward, Nodes
<1>4. \A n \in Nodes(t) : Way(k, n) \in Sides BY DEF Way, Sides
<1>5. \A n \in Nodes(t) : next[n] \in Nodes(t) \cup {Null} BY <1>2, <1>4, TypedParts DEF Shape, Links
<1>6. Walk(next, rank, M)
  <2>1. Null \notin Nodes(t) /\ M \in Nat
    <3>1. IsFiniteSet(Nodes(t)) BY DEF Shape, Typed
    <3> QED BY <3>1, NullIsNone, FS_CardinalityType DEF Shape
  <2>2. \A n \in Nodes(t) : rank[n] = Weight(sub, n) /\ rank[n] \in Nat /\ rank[n] <= M BY SubIs
  <2>3. \A n \in Nodes(t) : next[n] # Null => rank[next[n]] < rank[n]
    BY <1>2, <1>4, <1>5, <2>2, KidIs
  <2> HIDE DEF M
  <2> QED BY <1>1, <1>3, <1>5, <2>1, <2>2, <2>3 DEF Walk
<1>7. \A n \in Nodes(t) : Last(next, n) = IF next[n] = Null THEN n ELSE Last(next, next[n])
  BY <1>1, <1>6, LastIs
<1> QED BY <1>1, <1>2, <1>6, <1>7

LEMMA WayIs ==
  ASSUME NEW k \in Nat, NEW n \in Nat, k # n
  PROVE  Way(k, n) \in Sides /\ Before(Way(k, n), k, n)
         /\ \A s \in Sides : Before(s, k, n) => s = Way(k, n)
BY DEF Way, Before, Sides

(* A search finds every node.                                               *)
LEMMA SearchIs ==
  ASSUME NEW t, NEW sub, Shape(t, sub), NEW k \in Nodes(t)
  PROVE  Last(Toward(t, k), t.root) = k
<1> DEFINE next == Toward(t, k)
           T == {n \in Nodes(t) : k \in sub[n] => Last(next, n) = k}
<1>1. Nodes(t) \subseteq Nat /\ k \in Nat BY NodesAreNat DEF Shape
<1>2. /\ DOMAIN next = Nodes(t)
      /\ \A n \in Nodes(t) : next[n] = IF n = k THEN Null ELSE Kid(t, n, Way(k, n))
      /\ \A n \in Nodes(t) : Last(next, n) = IF next[n] = Null THEN n ELSE Last(next, next[n])
      /\ \E rank, M : Walk(next, rank, M)
  BY <1>1, TowardIs
<1> HIDE DEF next
<1>3. ASSUME NEW n \in Nodes(t), next[n] = Null \/ next[n] \in T PROVE n \in T
  <2> SUFFICES ASSUME k \in sub[n] PROVE Last(next, n) = k OBVIOUS
  <2>1. CASE n = k BY <1>2, <2>1
  <2>2. CASE n # k
    <3>1. PICK s \in Sides : Kid(t, n, s) # Null /\ k \in sub[Kid(t, n, s)] BY <2>2, SplitIs
    <3>2. Before(s, k, n) BY <3>1, KidIs
    <3>3. s = Way(k, n) BY <1>1, <2>2, <3>2, WayIs
    <3> QED BY <1>2, <1>3, <2>2, <3>1, <3>3
  <2> QED BY <2>1, <2>2
<1> HIDE DEF T
<1>4. \A n \in Nodes(t) : n \in T BY <1>2, <1>3, AlongWalk
<1>5. t.root \in T /\ k \in sub[t.root] BY <1>4, RootIs
<1> QED BY <1>5 DEF T, next

(* And no other.                                                            *)
LEMMA FoundIs ==
  ASSUME NEW t, NEW sub, Shape(t, sub), NEW k \in Nat
  PROVE  FindNode(t, k) = IF k \in Nodes(t) THEN k ELSE Null
<1>1. CASE k \in Nodes(t)
  <2>1. t.root # Null BY <1>1, RootIs
  <2> QED BY <1>1, <2>1, SearchIs DEF FindNode
<1>2. CASE k \notin Nodes(t)
  <2> SUFFICES ASSUME t.root # Null PROVE Last(Toward(t, k), t.root) # k
    BY <1>2 DEF FindNode
  <2> DEFINE next == Toward(t, k)
             T == {n \in Nodes(t) : Last(next, n) \in Nodes(t)}
  <2>1. /\ DOMAIN next = Nodes(t)
        /\ \A n \in Nodes(t) : Last(next, n) = IF next[n] = Null THEN n ELSE Last(next, next[n])
        /\ \E rank, M : Walk(next, rank, M)
    BY TowardIs
  <2> HIDE DEF next
  <2>2. \A n \in Nodes(t) : next[n] = Null \/ next[n] \in T => n \in T BY <2>1
  <2> HIDE DEF T
  <2>3. \A n \in Nodes(t) : n \in T BY <2>1, <2>2, AlongWalk
  <2>4. t.root \in Nodes(t) BY TypedParts DEF Shape, Links
  <2> QED BY <1>2, <2>3, <2>4 DEF T, next
<1> QED BY <1>1, <1>2

(* Below p there is room for k, and wherever p is k belongs.                *)
LEMMA PlaceIs ==
  ASSUME NEW t, NEW sub, Shape(t, sub), t.root # Null, NEW k \in Nat, k \notin Nodes(t),
         NEW p, p = Last(Toward(t, k), t.root)
  PROVE  /\ p \in Nodes(t) /\ Kid(t, p, Way(k, p)) = Null
         /\ \A a \in Nodes(t), s \in Sides : Below(t, sub, a, s, p) => Before(s, k, a)
<1> DEFINE next == Toward(t, k)
           Q(n, e) == /\ e \in sub[n] /\ Kid(t, e, Way(k, e)) = Null
                      /\ \A a \in sub[n], s \in Sides : Below(t, sub, a, s, e) => Before(s, k, a)
           T == {n \in Nodes(t) : Q(n, Last(next, n))}
<1>1. Nodes(t) \subseteq Nat BY NodesAreNat DEF Shape
<1>2. /\ DOMAIN next = Nodes(t)
      /\ \A n \in Nodes(t) : next[n] = IF n = k THEN Null ELSE Kid(t, n, Way(k, n))
      /\ \A n \in Nodes(t) : Last(next, n) = IF next[n] = Null THEN n ELSE Last(next, next[n])
      /\ \E rank, M : Walk(next, rank, M)
  BY TowardIs
<1> HIDE DEF next
<1>3. ASSUME NEW n \in Nodes(t), next[n] = Null \/ next[n] \in T PROVE n \in T
  <2>1. next[n] = Kid(t, n, Way(k, n)) /\ n # k BY <1>2
  <2>2. Way(k, n) \in Sides /\ Before(Way(k, n), k, n) BY <1>1, <2>1, WayIs
  <2>3. CASE next[n] = Null
    <3>1. Last(next, n) = n /\ n \in sub[n] BY <1>2, <2>3, SubIs
    <3>2. ASSUME NEW a \in sub[n], NEW s \in Sides, Below(t, sub, a, s, n) PROVE FALSE
      <4>1. a \in Nodes(t) /\ Kid(t, a, s) # Null /\ n \in sub[Kid(t, a, s)]
        BY <3>2, SubIs DEF Below
      <4>2. Kid(t, a, s) \in Nodes(t) /\ a \notin sub[Kid(t, a, s)] BY <4>1, KidIs
      <4>3. sub[n] \subseteq sub[Kid(t, a, s)] BY <4>1, <4>2, Nested
      <4> QED BY <4>2, <4>3
    <3> QED BY <2>1, <2>3, <3>1, <3>2
  <2>4. CASE next[n] # Null
    <3> DEFINE c == Kid(t, n, Way(k, n))  e == Last(next, c)
    <3>1. c # Null /\ c \in T /\ Last(next, n) = e /\ c \in Nodes(t) BY <1>2, <1>3, <2>1, <2>4
    <3>2. Q(c, e) BY <3>1
    <3> HIDE DEF e
    <3>3. /\ sub[c] \subseteq sub[n] /\ ~Below(t, sub, n, Other(Way(k, n)), e)
      BY <2>2, <3>1, <3>2, KidIs
    <3>4. ASSUME NEW a \in sub[n], NEW s \in Sides, Below(t, sub, a, s, e) PROVE Before(s, k, a)
      <4>1. CASE a = n
        <5>1. s = Way(k, n) BY <2>2, <3>3, <3>4, <4>1, SidesAre
        <5> QED BY <2>2, <4>1, <5>1
      <4>2. CASE a # n
        <5>1. PICK q \in Sides : Kid(t, n, q) # Null /\ a \in sub[Kid(t, n, q)]
          BY <4>2, SplitIs
        <5>2. a \in Nodes(t) /\ Kid(t, n, q) \in Nodes(t) BY <5>1, KidIs
        <5>3. e \in sub[a]
          <6>1. Kid(t, a, s) # Null /\ e \in sub[Kid(t, a, s)] BY <3>4 DEF Below
          <6> QED BY <5>2, <6>1, KidIs
        <5>4. e \in sub[Kid(t, n, q)] BY <5>1, <5>2, <5>3, Nested
        <5>5. q = Way(k, n) BY <2>2, <3>3, <5>1, <5>4, SidesAre DEF Below
        <5> QED BY <3>2, <3>4, <5>1, <5>5
      <4> QED BY <4>1, <4>2
    <3>5. Q(n, e) BY <3>2, <3>3, <3>4
    <3> QED BY <3>1, <3>5
  <2> QED BY <2>3, <2>4
<1> HIDE DEF T
<1>4. \A n \in Nodes(t) : n \in T BY <1>2, <1>3, AlongWalk
<1>5. t.root \in Nodes(t) BY TypedParts DEF Shape, Links
<1>6. Q(t.root, p) BY <1>4, <1>5 DEF T, next
<1>7. sub[t.root] = Nodes(t) BY <1>5, RootIs
<1> QED BY <1>6, <1>7

(* A new red leaf k, below p on side d, or at the root of an empty tree.    *)
Planted(t, u, k, p, d, v) ==
  /\ Typed(u) /\ Nodes(u) = Nodes(t) \cup {k} /\ u.root = IF p = Null THEN k ELSE t.root
  /\ \A n \in Nodes(t), s \in Sides :
       Kid(u, n, s) = IF n = p /\ s = d THEN k ELSE Kid(t, n, s)
  /\ \A n \in Nodes(t) : Par(u, n) = Par(t, n) /\ Hue(u, n) = Hue(t, n) /\ Val(u, n) = Val(t, n)
  /\ \A s \in Sides : Kid(u, k, s) = Null
  /\ Par(u, k) = p /\ Hue(u, k) = 1 /\ Val(u, k) = v

LEMMA LeafIs ==
  ASSUME NEW t, Typed(t), NEW k \in Keys \ Nodes(t), NEW p \in Links(t), NEW v \in Values,
         NEW u, u = With(t, k, Leaf(p, v))
  PROVE  /\ Typed(u) /\ u.root = t.root /\ Nodes(u) = Nodes(t) \cup {k}
         /\ \A n \in Nodes(t), s \in Sides : Kid(u, n, s) = Kid(t, n, s)
         /\ \A n \in Nodes(t) : /\ Par(u, n) = Par(t, n) /\ Hue(u, n) = Hue(t, n)
                                /\ Val(u, n) = Val(t, n)
         /\ \A s \in Sides : Kid(u, k, s) = Null
         /\ Par(u, k) = p /\ Hue(u, k) = 1 /\ Val(u, k) = v
<1> DEFINE l == Leaf(p, v)
           f == [n \in Nodes(t) \cup {k} |-> IF n = k THEN l ELSE t.node[n]]
           L == Links(t) \cup {k}
<1>1. u.root = t.root /\ u.node = f /\ u = [root |-> u.root, node |-> u.node]
  BY DEF With, Typed, Nodes
<1>2. /\ l.left = Null /\ l.right = Null /\ l.parent = p /\ l.color = 1 /\ l.val = v
      /\ l \in Cell(L)
  BY DEF Leaf, Cell, Links
<1> HIDE DEF l
<1>3. DOMAIN f = Nodes(t) \cup {k} /\ f[k] = l /\ \A n \in Nodes(t) : f[n] = t.node[n]
  OBVIOUS
<1>4. \A n \in Nodes(t) : t.node[n] \in Cell(L) BY DEF Typed, Cell, Links
<1>5. f \in [Nodes(t) \cup {k} -> Cell(L)] BY <1>2, <1>4
<1> HIDE DEF f
<1>6. Nodes(u) = Nodes(t) \cup {k} BY <1>1, <1>3 DEF Nodes
<1>7. Links(u) = L BY <1>6 DEF Links
<1>8. Typed(u)
  <2>1. IsFiniteSet(Nodes(u)) BY <1>6, FS_AddElement DEF Typed
  <2>2. u.root \in Links(u) /\ Nodes(u) \subseteq Keys BY <1>1, <1>6, <1>7 DEF Typed, Links
  <2> QED BY <1>1, <1>5, <1>6, <1>7, <2>1, <2>2 DEF Typed
<1>9. /\ \A n \in Nodes(t), s \in Sides : Kid(u, n, s) = Kid(t, n, s)
      /\ \A n \in Nodes(t) : /\ Par(u, n) = Par(t, n) /\ Hue(u, n) = Hue(t, n)
                             /\ Val(u, n) = Val(t, n)
  BY <1>1, <1>3 DEF Kid, Par, Hue, Val
<1>10. /\ \A s \in Sides : Kid(u, k, s) = Null
       /\ Par(u, k) = p /\ Hue(u, k) = 1 /\ Val(u, k) = v
  BY <1>1, <1>2, <1>3 DEF Kid, Par, Hue, Val, Sides
<1> QED BY <1>1, <1>6, <1>8, <1>9, <1>10

LEMMA PlantedIs ==
  ASSUME NEW t, Typed(t), NEW k \in Keys \ Nodes(t), NEW v \in Values, NEW p \in Links(t),
         NEW grown, grown = With(t, k, Leaf(p, v)),
         NEW u, u = IF p = Null THEN [grown EXCEPT !.root = k]
                    ELSE WithChild(grown, p, Way(k, p), k)
  PROVE  Planted(t, u, k, p, Way(k, p), v)
<1>1. /\ Typed(grown) /\ grown.root = t.root /\ Nodes(grown) = Nodes(t) \cup {k}
      /\ \A n \in Nodes(t), s \in Sides : Kid(grown, n, s) = Kid(t, n, s)
      /\ \A n \in Nodes(t) : /\ Par(grown, n) = Par(t, n) /\ Hue(grown, n) = Hue(t, n)
                             /\ Val(grown, n) = Val(t, n)
      /\ \A s \in Sides : Kid(grown, k, s) = Null
      /\ Par(grown, k) = p /\ Hue(grown, k) = 1 /\ Val(grown, k) = v
  BY LeafIs
<1>2. k \in Links(grown) /\ Null \notin Nodes(t) BY <1>1, NullIsNone DEF Links
<1>3. CASE p = Null
  <2>1. u = [grown EXCEPT !.root = k] BY <1>3
  <2>2. /\ Typed(u) /\ u.root = k /\ SameKids(grown, u) /\ SamePars(grown, u)
        /\ SameHues(grown, u) /\ SameVals(grown, u)
    BY <1>1, <1>2, <2>1, RootSet
  <2> QED BY <1>1, <1>2, <1>3, <2>2
          DEF Planted, SameKids, SamePars, SameHues, SameVals
<1>4. CASE p # Null
  <2>1. u = WithChild(grown, p, Way(k, p), k) BY <1>4
  <2>2. p \in Nodes(grown) /\ p \in Nodes(t) /\ p # k BY <1>1, <1>4 DEF Links
  <2>3. Way(k, p) \in Sides BY DEF Way, Sides
  <2>4. /\ Typed(u) /\ u.root = grown.root /\ SamePars(grown, u) /\ SameHues(grown, u)
        /\ SameVals(grown, u)
        /\ \A m \in Nodes(grown), r \in Sides :
             Kid(u, m, r) = IF m = p /\ r = Way(k, p) THEN k ELSE Kid(grown, m, r)
    BY <1>1, <1>2, <2>1, <2>2, <2>3, ChildSet
  <2> QED BY <1>1, <1>4, <2>2, <2>4 DEF Planted, SamePars, SameHues, SameVals
<1> QED BY <1>3, <1>4

(* A new red leaf leaves at most itself and its parent red.                 *)
LEMMA PlantedGrows ==
  ASSUME NEW t, NEW sub, NEW bh, Balanced(t, sub, bh), NEW k \in Keys \ Nodes(t),
         NEW p, p = IF t.root = Null THEN Null ELSE Last(Toward(t, k), t.root),
         NEW u, NEW v \in Values, Planted(t, u, k, p, Way(k, p), v)
  PROVE  \E new, lev : Growing(u, new, lev, k)
<1> DEFINE d == Way(k, p)
           new == [n \in Nodes(u) |->
                     IF n = k THEN {k} ELSE IF p \in sub[n] THEN sub[n] \cup {k} ELSE sub[n]]
           lev == [n \in Nodes(u) |-> IF n = k THEN 1 ELSE bh[n]]
<1>1. Shape(t, sub) /\ Typed(t) /\ Null \notin Nodes(t) /\ Null \notin Nodes(u)
  BY NullIsNone DEF Balanced, Shape, Planted
<1>2. k \in Nat /\ k # Null /\ k \notin Nodes(t) /\ Nodes(t) \subseteq Nat
  BY <1>1, NodesAreNat, MapAssumption
<1>3. /\ p = Null => t.root = Null /\ Nodes(t) = {}
      /\ p # Null => /\ p \in Nodes(t) /\ Kid(t, p, d) = Null /\ t.root # Null /\ d \in Sides
                     /\ Before(d, k, p)
                     /\ \A a \in Nodes(t), s \in Sides : Below(t, sub, a, s, p) => Before(s, k, a)
  <2>1. CASE t.root = Null BY <1>1, <2>1 DEF Shape, Rooted
  <2>2. CASE t.root # Null
    <3>1. /\ p \in Nodes(t) /\ Kid(t, p, d) = Null
          /\ \A a \in Nodes(t), s \in Sides : Below(t, sub, a, s, p) => Before(s, k, a)
      BY <1>1, <1>2, <2>2, PlaceIs
    <3>2. p \in Nat /\ k # p BY <1>2, <3>1
    <3> QED BY <1>1, <1>2, <2>2, <3>1, <3>2, WayIs
  <2> QED BY <2>1, <2>2
<1> HIDE DEF d
<1>4. /\ Typed(u) /\ Nodes(u) = Nodes(t) \cup {k} /\ u.root = IF p = Null THEN k ELSE t.root
      /\ \A n \in Nodes(t), s \in Sides :
           Kid(u, n, s) = IF n = p /\ s = d THEN k ELSE Kid(t, n, s)
      /\ \A n \in Nodes(t) : Par(u, n) = Par(t, n) /\ Hue(u, n) = Hue(t, n)
      /\ \A s \in Sides : Kid(u, k, s) = Null
      /\ Par(u, k) = p /\ Hue(u, k) = 1
  BY DEF Planted, d
<1>5. /\ \A n \in Nodes(t) : sub[n] \subseteq Nodes(t)
      /\ \A n \in Nodes(t), s \in Sides :
           Kid(t, n, s) # Null => Kid(t, n, s) \in Nodes(t) /\ Par(t, Kid(t, n, s)) = n
  BY <1>1, SubIs, KidIs
<1>6. /\ new \in [Nodes(u) -> SUBSET Nodes(u)] /\ new[k] = {k}
      /\ \A n \in Nodes(t) : /\ k \in new[n] <=> p \in sub[n]
                             /\ \A j \in Nodes(t) : j \in new[n] <=> j \in sub[n]
  <2>1. \A n \in Nodes(u) : new[n] = IF n = k THEN {k} ELSE IF p \in sub[n] THEN sub[n] \cup {k}
                                     ELSE sub[n]
    OBVIOUS
  <2>2. new = [n \in Nodes(u) |-> new[n]] OBVIOUS
  <2> HIDE DEF new
  <2>3. \A n \in Nodes(u) : new[n] \subseteq Nodes(u) BY <1>4, <1>5, <2>1
  <2> QED BY <1>2, <1>4, <1>5, <2>1, <2>2, <2>3
<1> HIDE DEF new
<1>7. \A n \in Nodes(t), s \in Sides :
        /\ \A j \in Nodes(t) : Below(u, new, n, s, j) <=> Below(t, sub, n, s, j)
        /\ Below(u, new, n, s, k) <=> Below(t, sub, n, s, p) \/ (n = p /\ s = d)
  <2> TAKE n \in Nodes(t), s \in Sides
  <2>1. CASE n = p /\ s = d
    <3>1. Kid(u, n, s) = k /\ Kid(t, n, s) = Null BY <1>1, <1>3, <1>4, <2>1
    <3> QED BY <1>2, <1>6, <2>1, <3>1 DEF Below
  <2>2. CASE ~(n = p /\ s = d)
    <3>1. Kid(u, n, s) = Kid(t, n, s) BY <1>4, <2>2
    <3>2. Kid(t, n, s) # Null => Kid(t, n, s) \in Nodes(t) BY <1>5
    <3> QED BY <1>6, <2>2, <3>1, <3>2 DEF Below
  <2> QED BY <2>1, <2>2
<1>8. Linked(u)
  <2> SUFFICES ASSUME NEW n \in Nodes(u), NEW s \in Sides, Kid(u, n, s) # Null
               PROVE  Par(u, Kid(u, n, s)) = n
    BY DEF Linked
  <2>1. n \in Nodes(t) BY <1>4
  <2> QED BY <1>4, <1>5, <2>1
<1>9. Rooted(u, new)
  <2>1. CASE p = Null
    <3>1. u.root = k /\ Nodes(u) = {k} BY <1>3, <1>4, <2>1
    <3> QED BY <1>2, <1>4, <1>6, <2>1, <3>1 DEF Rooted
  <2>2. CASE p # Null
    <3>1. /\ t.root \in Nodes(t) /\ Par(t, t.root) = Null /\ sub[t.root] = Nodes(t)
      BY <1>1, <1>3, <2>2, RootIs
    <3>2. new[t.root] = Nodes(u)
      <4>1. new[t.root] \subseteq Nodes(u) BY <1>4, <1>6, <3>1
      <4>2. \A j \in Nodes(u) : j \in new[t.root] BY <1>3, <1>4, <1>6, <2>2, <3>1
      <4> QED BY <4>1, <4>2
    <3> QED BY <1>3, <1>4, <2>2, <3>1, <3>2 DEF Rooted
  <2> QED BY <2>1, <2>2
<1>10. Split(u, new)
  <2> SUFFICES ASSUME NEW n \in Nodes(u), NEW j \in Nodes(u)
               PROVE  j \in new[n] <=> j = n \/ \E s \in Sides : Below(u, new, n, s, j)
    BY DEF Split
  <2>1. CASE n = k BY <1>4, <1>6, <2>1 DEF Below
  <2>2. CASE n \in Nodes(t) /\ j \in Nodes(t)
    <3>1. j \in sub[n] <=> j = n \/ \E s \in Sides : Below(t, sub, n, s, j)
      BY <1>1, <2>2 DEF Shape, Split
    <3> QED BY <1>6, <1>7, <2>2, <3>1
  <2>3. CASE n \in Nodes(t) /\ j = k
    <3>1. p \in sub[n] <=> p \in Nodes(t) /\ (p = n \/ \E s \in Sides : Below(t, sub, n, s, p))
      <4>1. p \in sub[n] => p \in Nodes(t) BY <1>5, <2>3
      <4> QED BY <1>1, <2>3, <4>1 DEF Shape, Split
    <3>2. p \in Nodes(t) /\ d \in Sides
      <4>1. p # Null BY <1>3, <2>3
      <4> QED BY <1>3, <4>1
    <3> QED BY <1>2, <1>6, <1>7, <2>3, <3>1, <3>2
  <2> QED BY <1>4, <2>1, <2>2, <2>3
<1>11. Ordered(u, new)
  <2> SUFFICES ASSUME NEW n \in Nodes(u), NEW j \in Nodes(u), NEW s \in Sides,
                      Below(u, new, n, s, j)
               PROVE  Before(s, j, n)
    BY DEF Ordered
  <2>1. n \in Nodes(t) BY <1>4 DEF Below
  <2>2. CASE j \in Nodes(t) BY <1>1, <1>7, <2>1, <2>2 DEF Shape, Ordered
  <2>3. CASE j = k
    <3>1. p # Null BY <1>3, <2>1
    <3> QED BY <1>3, <1>7, <2>1, <2>3, <3>1
  <2> QED BY <1>4, <2>2, <2>3
<1>12. Shape(u, new) BY <1>4, <1>6, <1>8, <1>9, <1>10, <1>11 DEF Shape
<1>13. bh \in [Nodes(t) -> Nat \ {0}] BY DEF Balanced, Level
<1>14. /\ lev \in [Nodes(u) -> Nat \ {0}] /\ lev[k] = 1 /\ \A n \in Nodes(t) : lev[n] = bh[n]
  BY <1>2, <1>4, <1>13
<1> HIDE DEF lev
<1>15. Level(u, lev)
  <2> SUFFICES ASSUME NEW n \in Nodes(u), NEW s \in Sides
               PROVE  lev[n] = Height(lev, Kid(u, n, s)) + 1 - Hue(u, n)
    BY <1>14 DEF Level
  <2>1. CASE n = k BY <1>4, <1>14, <2>1 DEF Height
  <2>2. CASE n \in Nodes(t)
    <3>1. bh[n] = Height(bh, Kid(t, n, s)) + 1 - Hue(t, n) BY <2>2 DEF Balanced, Level
    <3>2. Height(lev, Kid(u, n, s)) = Height(bh, Kid(t, n, s))
      <4>1. CASE n = p /\ s = d
        <5>1. Kid(u, n, s) = k /\ Kid(t, n, s) = Null BY <1>1, <1>3, <1>4, <2>2, <4>1
        <5> QED BY <1>2, <1>14, <5>1 DEF Height
      <4>2. CASE ~(n = p /\ s = d)
        <5>1. Kid(u, n, s) = Kid(t, n, s) BY <1>4, <2>2, <4>2
        <5> QED BY <1>5, <1>14, <2>2, <5>1 DEF Height
      <4> QED BY <4>1, <4>2
    <3> QED BY <1>4, <1>14, <2>2, <3>1, <3>2
  <2> QED BY <1>4, <2>1, <2>2
<1>16. Quiet(u, Null, k)
  <2> SUFFICES ASSUME NEW n \in Nodes(u), NEW s \in Sides, Hue(u, n) = 1, Kid(u, n, s) # Null,
                      Kid(u, n, s) # k
               PROVE  Hue(u, Kid(u, n, s)) = 0
    BY DEF Quiet
  <2>1. n \in Nodes(t) /\ n # Null BY <1>1, <1>4
  <2>2. Kid(u, n, s) = Kid(t, n, s) BY <1>4, <2>1
  <2>3. Hue(t, Kid(t, n, s)) = 0 BY <1>4, <2>1, <2>2 DEF Balanced, Quiet
  <2> QED BY <1>4, <1>5, <2>1, <2>2, <2>3
<1>17. Hue(u, u.root) = 1 => u.root = k
  <2>1. CASE p = Null BY <1>4, <2>1
  <2>2. CASE p # Null
    <3>1. t.root # Null /\ t.root \in Nodes(t) BY <1>1, <1>3, <2>2, RootIs
    <3>2. Hue(t, t.root) = 0 BY <3>1 DEF Balanced
    <3> QED BY <1>4, <2>2, <3>1, <3>2
  <2> QED BY <2>1, <2>2
<1>18. k \in Nodes(u) BY <1>4
<1>19. Growing(u, new, lev, k) BY <1>4, <1>12, <1>15, <1>16, <1>17, <1>18 DEF Growing
<1> QED BY <1>19

(* What the map holds.                                                     *)
LEMMA InsertedIs ==
  ASSUME NEW t, NEW sub, NEW bh, Balanced(t, sub, bh), NEW k \in Keys \ Nodes(t), NEW v \in Values,
         NEW u, u = Inserted(t, k, v)
  PROVE  /\ \E new, lev : Balanced(u, new, lev)
         /\ Nodes(u) = Nodes(t) \cup {k} /\ Val(u, k) = v
         /\ \A n \in Nodes(t) : Val(u, n) = Val(t, n)
<1> DEFINE p == IF t.root = Null THEN Null ELSE Last(Toward(t, k), t.root)
           grown == With(t, k, Leaf(p, v))
           w == IF p = Null THEN [grown EXCEPT !.root = k] ELSE WithChild(grown, p, Way(k, p), k)
<1>1. Shape(t, sub) /\ Typed(t) BY DEF Balanced, Shape
<1>2. k \in Nat BY MapAssumption
<1>3. p \in Links(t)
  <2>1. CASE t.root = Null BY <2>1 DEF Links
  <2>2. CASE t.root # Null
    <3>1. p \in Nodes(t) BY <1>1, <1>2, <2>2, PlaceIs
    <3> QED BY <3>1 DEF Links
  <2> QED BY <2>1, <2>2
<1>4. u = InsertFixup(w, k) BY DEF Inserted, Way
<1> HIDE DEF p
<1> HIDE DEF grown
<1>5. Planted(t, w, k, p, Way(k, p), v) BY <1>1, <1>3, PlantedIs DEF grown
<1> HIDE DEF w
<1>6. PICK new, lev : Growing(w, new, lev, k) BY <1>5, PlantedGrows DEF p
<1>7. SameVals(w, u) /\ \E new2, lev2 : Balanced(u, new2, lev2) BY <1>4, <1>6, InsertFixupIs
<1> QED BY <1>5, <1>7 DEF Planted, SameVals

-----------------------------------------------------------------------------
(* delete_fixup: below p, on side qs, is x, and a black node is missing     *)
(* there; or x is the root, and none is missing.                            *)

Lacking(t, sub, bh, x, p, qs) ==
  /\ Shape(t, sub) /\ Quiet(t, x, x) /\ x \in Links(t)
  /\ t.root # Null /\ Hue(t, t.root) = 1 => t.root = x
  /\ \/ p = Null /\ x = t.root /\ Level(t, bh)
     \/ /\ p \in Nodes(t) /\ qs \in Sides /\ Kid(t, p, qs) = x
        /\ LevelBut(t, bh, p, qs)

LEMMA BalancedLacks ==
  ASSUME NEW t, NEW sub, NEW bh, Balanced(t, sub, bh)
  PROVE  Lacking(t, sub, bh, t.root, Null, "left")
<1>1. Quiet(t, t.root, t.root)
  <2> SUFFICES ASSUME NEW n \in Nodes(t), NEW s \in Sides, Hue(t, n) = 1, Kid(t, n, s) # Null
               PROVE  Hue(t, Kid(t, n, s)) = 0
    BY DEF Quiet
  <2>1. n # Null BY NullIsNone DEF Balanced, Shape
  <2> QED BY <2>1 DEF Balanced, Quiet
<1>2. t.root \in Links(t) BY DEF Balanced, Shape, Typed
<1> QED BY <1>1, <1>2 DEF Balanced, Lacking

(* Where one is missing there is a sibling, and no root.                    *)
LEMMA SiblingIs ==
  ASSUME NEW t, NEW sub, NEW bh, NEW x, NEW p, NEW qs, Lacking(t, sub, bh, x, p, qs), p # Null,
         NEW w, w = Kid(t, p, Other(qs))
  PROVE  /\ Shape(t, sub) /\ Typed(t) /\ Null \notin Nodes(t) /\ p \in Nodes(t) /\ qs \in Sides
         /\ Kid(t, p, qs) = x /\ LevelBut(t, bh, p, qs) /\ Quiet(t, x, x)
         /\ x \in Links(t) /\ x # t.root /\ x # p /\ (x # Null => x \in Nodes(t) /\ Par(t, x) = p)
         /\ t.root \in Nodes(t) /\ Hue(t, t.root) = 0
         /\ Other(qs) \in Sides /\ Other(qs) # qs /\ Other(Other(qs)) = qs
         /\ \A r \in Sides : r = qs \/ r = Other(qs)
         /\ w \in Nodes(t) /\ w # Null /\ w # x /\ w # p /\ Par(t, w) = p /\ w # t.root
         /\ bh[w] = Height(bh, x) + 1 /\ Height(bh, x) \in Nat \ {0}
         /\ \A n \in Nodes(t), s \in Sides :
              Kid(t, n, s) # Null => Kid(t, n, s) \in Nodes(t) /\ Par(t, Kid(t, n, s)) = n
         /\ \A s \in Sides : Kid(t, w, s) # x \/ x = Null
         /\ \A s \in Sides : Kid(t, w, s) # w /\ Kid(t, w, s) # p /\ Kid(t, p, s) # p
<1>1. Shape(t, sub) /\ Typed(t) /\ Null \notin Nodes(t) /\ x \in Links(t) /\ Quiet(t, x, x)
  BY NullIsNone DEF Lacking, Shape
<1>2. p \in Nodes(t) /\ qs \in Sides /\ Kid(t, p, qs) = x /\ LevelBut(t, bh, p, qs)
  BY DEF Lacking
<1>3. /\ Other(qs) \in Sides /\ Other(qs) # qs /\ Other(Other(qs)) = qs
      /\ \A r \in Sides : r = qs \/ r = Other(qs)
  BY <1>2, SidesAre
<1>4. \A n \in Nodes(t), s \in Sides :
        /\ Kid(t, n, s) # n
        /\ Kid(t, n, s) # Null => Kid(t, n, s) \in Nodes(t) /\ Par(t, Kid(t, n, s)) = n
  BY <1>1, KidIs
<1>5. t.root \in Nodes(t) /\ Par(t, t.root) = Null BY <1>1, <1>2, RootIs
<1>6. x # p /\ x # t.root /\ (x # Null => x \in Nodes(t) /\ Par(t, x) = p)
  BY <1>1, <1>2, <1>4, <1>5
<1>7. Hue(t, t.root) = 0
  <2>1. Hue(t, t.root) # 1 BY <1>1, <1>5, <1>6 DEF Lacking
  <2> QED BY <1>1, <1>5, <2>1, TypedParts
<1>8. Height(bh, x) \in Nat \ {0} BY <1>2, <1>6 DEF LevelBut, Height
<1>9. Height(bh, w) = Height(bh, x) + 1
  <2>1. bh[p] = Height(bh, x) + 2 - Hue(t, p) BY <1>2 DEF LevelBut
  <2>2. bh[p] = Height(bh, w) + 1 - Hue(t, p) BY <1>2, <1>3 DEF LevelBut
  <2>3. Hue(t, p) \in {0, 1} /\ Height(bh, w) \in Nat
    BY <1>1, <1>2, <1>3, <1>4, TypedParts DEF Height, LevelBut
  <2> QED BY <1>8, <2>1, <2>2, <2>3
<1>10. w # Null BY <1>8, <1>9 DEF Height
<1>11. w \in Nodes(t) /\ Par(t, w) = p /\ w # p BY <1>2, <1>3, <1>4, <1>10
<1>12. bh[w] = Height(bh, x) + 1 BY <1>9, <1>10 DEF Height
<1>13. w # x
  <2>1. CASE x = Null BY <1>10, <2>1
  <2>2. CASE x # Null
    <3>1. Height(bh, x) = bh[x] BY <2>2 DEF Height
    <3> QED BY <1>8, <1>12, <3>1
  <2> QED BY <2>1, <2>2
<1>14. \A s \in Sides : /\ Kid(t, w, s) # x \/ x = Null
                        /\ Kid(t, w, s) # w /\ Kid(t, w, s) # p /\ Kid(t, p, s) # p
  <2>1. \A s \in Sides : Kid(t, w, s) # p
    <3>1. Weight(sub, w) < Weight(sub, p) BY <1>1, <1>2, <1>3, <1>10, KidIs
    <3>2. \A s \in Sides : Kid(t, w, s) # Null => Weight(sub, Kid(t, w, s)) < Weight(sub, w)
      BY <1>1, <1>11, KidIs
    <3> QED BY <1>1, <1>2, <1>11, <3>1, <3>2, SubIs
  <2> QED BY <1>2, <1>4, <1>6, <1>11, <2>1
<1> QED BY <1>1, <1>2, <1>3, <1>4, <1>5, <1>6, <1>7, <1>8, <1>10, <1>11, <1>12, <1>13, <1>14

(* x is the root or red: black, it makes up for what is missing.            *)
LEMMA MendedIs ==
  ASSUME NEW t, NEW sub, NEW bh, NEW x, NEW p, NEW qs, Lacking(t, sub, bh, x, p, qs),
         x = t.root \/ Red(t, x), NEW u, u = Painted(t, x, 0)
  PROVE  SameVals(t, u) /\ \E lev : Balanced(u, sub, lev)
<1> DEFINE lev == [n \in Nodes(t) |-> IF n = x THEN bh[n] + Hue(t, x) ELSE bh[n]]
<1>1. /\ Shape(t, sub) /\ Typed(t) /\ Null \notin Nodes(t) /\ x \in Links(t)
      /\ 0 \in {0, 1}
  BY NullIsNone DEF Lacking, Shape
<1>2. /\ Shape(u, sub) /\ u.root = t.root /\ SameKids(t, u) /\ SameVals(t, u)
      /\ Nodes(u) = Nodes(t)
      /\ \A m \in Nodes(t) : Hue(u, m) = IF m = x THEN 0 ELSE Hue(t, m)
  BY <1>1, Recoloured
<1>3. \A n \in Nodes(t), s \in Sides :
        Kid(t, n, s) # Null => Kid(t, n, s) \in Nodes(t) /\ Par(t, Kid(t, n, s)) = n
  BY <1>1, KidIs
<1>4. bh \in [Nodes(t) -> Nat \ {0}] BY DEF Lacking, Level, LevelBut
<1>5. \A n \in Nodes(t) : Hue(t, n) \in {0, 1} BY <1>1, TypedParts
<1>6. /\ lev \in [Nodes(t) -> Nat \ {0}] /\ (x # Null => lev[x] = bh[x] + Hue(t, x))
      /\ \A n \in Nodes(t) : n # x => lev[n] = bh[n]
  BY <1>1, <1>4, <1>5 DEF Links
<1> HIDE DEF lev
<1>7. Level(u, lev)
  <2> SUFFICES ASSUME NEW n \in Nodes(t), NEW s \in Sides
               PROVE  lev[n] = Height(lev, Kid(t, n, s)) + 1 - Hue(u, n)
    BY <1>2, <1>6 DEF Level, SameKids
  <2>1. Height(bh, Kid(t, n, s)) \in Nat BY <1>3, <1>4 DEF Height
  <2>2. CASE p = Null
    <3>1. bh[n] = Height(bh, Kid(t, n, s)) + 1 - Hue(t, n) BY <1>1, <2>2 DEF Lacking, Level
    <3>2. Height(lev, Kid(t, n, s)) = Height(bh, Kid(t, n, s))
      <4>1. x = t.root BY <1>1, <2>2 DEF Lacking
      <4>2. Par(t, t.root) = Null BY <1>1, RootIs
      <4>3. Kid(t, n, s) # Null => Kid(t, n, s) # x BY <1>1, <1>3, <4>1, <4>2
      <4> QED BY <1>3, <1>6, <4>3 DEF Height
    <3>3. CASE n = x BY <1>1, <1>2, <1>5, <1>6, <2>1, <3>1, <3>2, <3>3
    <3>4. CASE n # x BY <1>2, <1>6, <3>1, <3>2, <3>4
    <3> QED BY <3>3, <3>4
  <2>3. CASE p # Null
    <3>1. /\ x # t.root /\ Kid(t, p, qs) = x /\ LevelBut(t, bh, p, qs) /\ p \in Nodes(t)
          /\ x # p /\ qs \in Sides
      BY <2>3, SiblingIs
    <3>2. x \in Nodes(t) /\ Hue(t, x) = 1 BY <1>1, <3>1, Peek
    <3>3. bh[n] = IF n = p /\ s = qs THEN Height(bh, Kid(t, n, s)) + 2 - Hue(t, n)
                                     ELSE Height(bh, Kid(t, n, s)) + 1 - Hue(t, n)
      BY <3>1 DEF LevelBut
    <3>4. Kid(t, n, s) = x <=> n = p /\ s = qs
      <4>1. Hangs(t, x) BY <1>1, <3>2, ShapeHangs
      <4>2. Par(t, x) = p BY <1>1, <1>3, <3>1, <3>2
      <4>3. \A r \in Sides : r = qs \/ r = Other(qs) BY <3>1, SidesAre
      <4>4. Kid(t, p, Other(qs)) # x
        <5>1. x \in sub[x] BY <1>1, <3>2, SubIs
        <5>2. ~Below(t, sub, p, Other(qs), x) BY <1>1, <3>1, <3>2, <5>1, KidIs
        <5> QED BY <1>1, <3>2, <5>1, <5>2 DEF Below
      <4> QED BY <3>1, <4>1, <4>2, <4>3, <4>4 DEF Hangs
    <3>5. CASE n = p /\ s = qs
      <4>1. Height(lev, Kid(t, n, s)) = Height(bh, Kid(t, n, s)) + 1
        BY <1>1, <1>6, <3>2, <3>4, <3>5 DEF Height
      <4>2. Hue(u, n) = Hue(t, n) BY <1>2, <3>1, <3>5
      <4> QED BY <1>5, <1>6, <2>1, <3>1, <3>3, <3>5, <4>1, <4>2
    <3>6. CASE ~(n = p /\ s = qs)
      <4>1. Height(lev, Kid(t, n, s)) = Height(bh, Kid(t, n, s))
        BY <1>3, <1>6, <3>4, <3>6 DEF Height
      <4>2. bh[n] = Height(bh, Kid(t, n, s)) + 1 - Hue(t, n) BY <3>3, <3>6
      <4>3. CASE n = x BY <1>1, <1>2, <1>6, <2>1, <3>2, <4>1, <4>2, <4>3
      <4>4. CASE n # x BY <1>2, <1>6, <4>1, <4>2, <4>4
      <4> QED BY <4>3, <4>4
    <3> QED BY <3>5, <3>6
  <2> QED BY <2>2, <2>3
<1>8. Quiet(u, Null, Null)
  <2> SUFFICES ASSUME NEW n \in Nodes(t), NEW s \in Sides, Hue(u, n) = 1, Kid(t, n, s) # Null
               PROVE  Hue(u, Kid(t, n, s)) = 0
    BY <1>2 DEF Quiet, SameKids
  <2>1. n # x /\ Hue(t, n) = 1 BY <1>2
  <2> QED BY <1>2, <1>3, <2>1 DEF Lacking, Quiet
<1>9. u.root # Null => Hue(u, u.root) = 0
  <2> SUFFICES ASSUME t.root # Null PROVE Hue(u, t.root) = 0 BY <1>2
  <2>1. t.root \in Nodes(t) BY TypedParts, <1>1 DEF Links
  <2> QED BY <1>2, <1>5, <2>1 DEF Lacking
<1>10. Balanced(u, sub, lev) BY <1>2, <1>7, <1>8, <1>9 DEF Balanced
<1> QED BY <1>2, <1>10

Load(sub, x) == IF x = Null THEN 0 ELSE Weight(sub, x)

LEMMA NoRed ==
  ASSUME NEW t, Typed(t), NEW x, Quiet(t, x, x), ~Red(t, x), x \in Links(t),
         NEW n \in Nodes(t), NEW s \in Sides, Hue(t, n) = 1
  PROVE  Kid(t, n, s) # Null => Hue(t, Kid(t, n, s)) = 0
<1> SUFFICES ASSUME Kid(t, n, s) # Null PROVE Hue(t, Kid(t, n, s)) = 0 OBVIOUS
<1>1. n # Null BY NullIsNone
<1>2. n # x BY <1>1, Peek
<1>3. CASE Kid(t, n, s) = x BY <1>3, Peek
<1>4. CASE Kid(t, n, s) # x BY <1>2, <1>4 DEF Quiet
<1> QED BY <1>3, <1>4

(* A red sibling goes up; the new sibling is black.                         *)
LEMMA BlackenedIs ==
  ASSUME NEW t, NEW sub, NEW bh, NEW x, NEW p, NEW qs, Lacking(t, sub, bh, x, p, qs), p # Null,
         ~Red(t, x), NEW u, u = Blackened(t, p, qs)
  PROVE  /\ SameVals(t, u) /\ ~Red(u, x)
         /\ ~Red(u, Kid(u, p, Other(qs)))
         /\ \E new, lev : Lacking(u, new, lev, x, p, qs) /\ Load(new, x) = Load(sub, x)
<1> DEFINE o == Other(qs)  w == Kid(t, p, o)
<1>1. /\ Shape(t, sub) /\ Typed(t) /\ Null \notin Nodes(t) /\ p \in Nodes(t) /\ qs \in Sides
      /\ Kid(t, p, qs) = x /\ LevelBut(t, bh, p, qs) /\ Quiet(t, x, x)
      /\ x \in Links(t) /\ x # t.root /\ x # p /\ (x # Null => x \in Nodes(t) /\ Par(t, x) = p)
      /\ t.root \in Nodes(t) /\ Hue(t, t.root) = 0
      /\ o \in Sides /\ o # qs /\ Other(o) = qs
      /\ w \in Nodes(t) /\ w # Null /\ w # x /\ w # p /\ Par(t, w) = p /\ w # t.root
      /\ \A s \in Sides : Kid(t, w, s) # x \/ x = Null
      /\ \A s \in Sides : Kid(t, w, s) # w /\ Kid(t, w, s) # p /\ Kid(t, p, s) # p
  BY SiblingIs
<1>2. /\ p \in Links(t) /\ w \in Links(t) /\ \A s \in Sides : Kid(t, w, s) \in Links(t)
  BY <1>1, TypedParts DEF Links
<1>3. Child(t, p, o) = w BY <1>1, <1>2, Peek
<1>4. CASE ~Red(t, w)
  <2>1. u = t BY <1>3, <1>4 DEF Blackened
  <2>2. SameVals(t, t) BY DEF SameVals
  <2> QED BY <1>4, <2>1, <2>2
<1>5. CASE Red(t, w)
  <2> DEFINE new == Regrouped(t, sub, p, w, qs)
             lev == [n \in Nodes(t) |-> IF n = p THEN bh[w] ELSE IF n = w THEN bh[p] ELSE bh[n]]
  <2>1. u = Rotated(Painted(Painted(t, w, 0), p, 1), p, qs) BY <1>3, <1>5 DEF Blackened
  <2>2. /\ Turned(t, u, p, w, qs) /\ Shape(u, new)
        /\ \A n \in Nodes(t) : Hue(u, n) = IF n = p THEN 1 ELSE IF n = w THEN 0 ELSE Hue(t, n)
    BY <1>1, <2>1, ExchangeIs
  <2>3. Hue(t, w) = 1 BY <1>1, <1>2, <1>5, Peek
  <2>4. Hue(t, p) = 0
    <3>1. Hue(t, p) # 1 BY <1>1, <2>3 DEF Quiet
    <3> QED BY <1>1, <3>1, TypedParts
  <2>5. LevelBut(u, lev, p, qs) BY <1>1, <2>2, <2>3, <2>4, ExchangeLevel
  <2>6. ~Red(t, Kid(t, w, qs))
    <3>1. Kid(t, w, qs) # Null => Hue(t, Kid(t, w, qs)) = 0 BY <1>1, <2>3, NoRed
    <3> QED BY <1>1, <1>2, <3>1, Peek
  <2>7. Quiet(u, x, x) BY <1>1, <2>2, <2>6, ExchangeQuiet
  <2>8. Nodes(u) = Nodes(t) /\ SameVals(t, u) /\ Links(u) = Links(t) /\ Typed(u)
    BY <2>2 DEF Turned, SameVals, Links
  <2>9. Kid(u, p, qs) = x /\ Kid(u, p, o) = Kid(t, w, qs) BY <1>1, <2>2 DEF Turned
  <2>10. Hue(u, u.root) = 0
    <3>1. u.root = IF Par(t, p) = Null THEN w ELSE t.root BY <2>2 DEF Turned
    <3>2. CASE Par(t, p) = Null BY <1>1, <2>2, <3>1, <3>2
    <3>3. CASE Par(t, p) # Null
      <4>1. t.root # p BY <1>1, <3>3, RootIs
      <4> QED BY <1>1, <2>2, <3>1, <3>3, <4>1
    <3> QED BY <3>2, <3>3
  <2>11. Lacking(u, new, lev, x, p, qs)
    BY <1>1, <2>2, <2>5, <2>7, <2>8, <2>9, <2>10 DEF Lacking
  <2>12. ~Red(u, x)
    <3>1. x # Null => Hue(u, x) = Hue(t, x) BY <1>1, <2>2
    <3> QED BY <1>1, <2>8, <3>1, Peek
  <2>13. ~Red(u, Kid(u, p, o))
    <3>1. Kid(t, w, qs) # Null => Hue(u, Kid(t, w, qs)) = Hue(t, Kid(t, w, qs))
      BY <1>1, <1>2, <2>2 DEF Links
    <3> QED BY <1>1, <1>2, <2>6, <2>8, <2>9, <3>1, Peek
  <2>14. Load(new, x) = Load(sub, x)
    <3>1. x # Null => new[x] = sub[x] BY <1>1 DEF Regrouped
    <3> QED BY <3>1 DEF Load, Weight
  <2> HIDE DEF new, lev
  <2> QED BY <2>8, <2>11, <2>12, <2>13, <2>14
<1> QED BY <1>4, <1>5

(* A black sibling with black children turns red; one is missing above p.   *)
LEMMA DarkenedIs ==
  ASSUME NEW t, NEW sub, NEW bh, NEW x, NEW p, NEW qs, Lacking(t, sub, bh, x, p, qs), p # Null,
         ~Red(t, x), NEW w, w = Kid(t, p, Other(qs)), ~Red(t, w),
         ~Red(t, Kid(t, w, qs)), ~Red(t, Kid(t, w, Other(qs))),
         NEW u, u = Painted(t, w, 1)
  PROVE  /\ SameVals(t, u) /\ Load(sub, p) > Load(sub, x) /\ Load(sub, x) \in Nat
         /\ \E lev, side : Lacking(u, sub, lev, p, Par(t, p), side)
<1> DEFINE o == Other(qs)
           lev == [n \in Nodes(t) |-> IF n = p \/ n = w THEN bh[n] - 1 ELSE bh[n]]
           g == Par(t, p)
<1>1. /\ Shape(t, sub) /\ Typed(t) /\ Null \notin Nodes(t) /\ p \in Nodes(t) /\ qs \in Sides
      /\ Kid(t, p, qs) = x /\ LevelBut(t, bh, p, qs) /\ Quiet(t, x, x)
      /\ x \in Links(t) /\ x # t.root /\ x # p /\ (x # Null => x \in Nodes(t) /\ Par(t, x) = p)
      /\ t.root \in Nodes(t) /\ Hue(t, t.root) = 0
      /\ o \in Sides /\ o # qs /\ Other(o) = qs /\ \A r \in Sides : r = qs \/ r = Other(qs)
      /\ w \in Nodes(t) /\ w # Null /\ w # x /\ w # p /\ Par(t, w) = p /\ w # t.root
      /\ bh[w] = Height(bh, x) + 1 /\ Height(bh, x) \in Nat \ {0}
      /\ \A n \in Nodes(t), s \in Sides :
           Kid(t, n, s) # Null => Kid(t, n, s) \in Nodes(t) /\ Par(t, Kid(t, n, s)) = n
      /\ \A s \in Sides : Kid(t, w, s) # w /\ Kid(t, w, s) # p /\ Kid(t, p, s) # p
  BY SiblingIs
<1>2. w \in Links(t) /\ 1 \in {0, 1} BY <1>1 DEF Links
<1>3. /\ Shape(u, sub) /\ u.root = t.root /\ SameKids(t, u) /\ SamePars(t, u) /\ SameVals(t, u)
      /\ Nodes(u) = Nodes(t)
      /\ \A m \in Nodes(t) : Hue(u, m) = IF m = w THEN 1 ELSE Hue(t, m)
  BY <1>1, <1>2, Recoloured
<1>4. \A n \in Nodes(t) : Hue(t, n) \in {0, 1} BY <1>1, TypedParts
<1>5. Hue(t, w) = 0 BY <1>1, <1>2, Peek
<1>6. bh \in [Nodes(t) -> Nat \ {0}] BY <1>1 DEF LevelBut
<1>7. \A n \in Nodes(t), s \in Sides :
        /\ Height(bh, Kid(t, n, s)) \in Nat
        /\ bh[n] = IF n = p /\ s = qs THEN Height(bh, Kid(t, n, s)) + 2 - Hue(t, n)
                                      ELSE Height(bh, Kid(t, n, s)) + 1 - Hue(t, n)
  BY <1>1, <1>6 DEF LevelBut, Height
<1>8. bh[p] = Height(bh, x) + 2 - Hue(t, p) BY <1>1, <1>7
<1>9. bh[p] - 1 \in Nat \ {0} /\ bh[w] - 1 \in Nat \ {0} BY <1>1, <1>4, <1>8
<1>10. /\ lev \in [Nodes(t) -> Nat \ {0}] /\ lev[p] = bh[p] - 1 /\ lev[w] = bh[w] - 1
       /\ \A n \in Nodes(t) : n # p /\ n # w => lev[n] = bh[n]
  BY <1>1, <1>6, <1>9
<1> HIDE DEF lev
<1>11. ASSUME NEW n \in Nodes(t), NEW s \in Sides
       PROVE  lev[n] = IF Kid(t, n, s) = p THEN Height(lev, Kid(t, n, s)) + 2 - Hue(u, n)
                                           ELSE Height(lev, Kid(t, n, s)) + 1 - Hue(u, n)
  <2>1. CASE n = p /\ s = qs
    <3>1. Height(lev, x) = Height(bh, x) BY <1>1, <1>10 DEF Height
    <3>2. Hue(u, p) = Hue(t, p) BY <1>1, <1>3
    <3> QED BY <1>1, <1>4, <1>8, <1>10, <2>1, <3>1, <3>2
  <2>2. CASE n = p /\ s = o
    <3>1. Height(lev, w) = bh[w] - 1 BY <1>1, <1>10 DEF Height
    <3>2. Hue(u, p) = Hue(t, p) BY <1>1, <1>3
    <3> QED BY <1>1, <1>4, <1>8, <1>10, <2>2, <3>1, <3>2
  <2>3. CASE n = w
    <3>1. Kid(t, w, s) # w /\ Kid(t, w, s) # p BY <1>1
    <3>2. Height(lev, Kid(t, w, s)) = Height(bh, Kid(t, w, s)) BY <1>1, <1>10, <3>1 DEF Height
    <3> QED BY <1>1, <1>3, <1>5, <1>7, <1>10, <2>3, <3>1, <3>2
  <2>4. CASE n # p /\ n # w
    <3>1. lev[n] = bh[n] /\ Hue(u, n) = Hue(t, n) /\ Hue(t, n) \in {0, 1}
      BY <1>3, <1>4, <1>10, <2>4
    <3>2. Kid(t, n, s) # w BY <1>1, <2>4
    <3>3. bh[n] = Height(bh, Kid(t, n, s)) + 1 - Hue(t, n) /\ Height(bh, Kid(t, n, s)) \in Nat
      BY <1>7, <2>4
    <3>4. CASE Kid(t, n, s) = p
      <4>1. Height(lev, Kid(t, n, s)) = bh[p] - 1 /\ Height(bh, Kid(t, n, s)) = bh[p]
        BY <1>1, <1>10, <3>4 DEF Height
      <4> QED BY <3>1, <3>3, <3>4, <4>1
    <3>5. CASE Kid(t, n, s) # p
      <4>1. Height(lev, Kid(t, n, s)) = Height(bh, Kid(t, n, s))
        BY <1>1, <1>10, <3>2, <3>5 DEF Height
      <4> QED BY <3>1, <3>3, <3>5, <4>1
    <3> QED BY <3>4, <3>5
  <2> QED BY <1>1, <2>1, <2>2, <2>3, <2>4
<1>12. Quiet(u, p, p)
  <2> SUFFICES ASSUME NEW n \in Nodes(t), NEW s \in Sides, n # p, Hue(u, n) = 1,
                      Kid(t, n, s) # Null, Kid(t, n, s) # p
               PROVE  Hue(u, Kid(t, n, s)) = 0
    BY <1>3 DEF Quiet, SameKids
  <2>1. Kid(t, n, s) # w /\ Kid(t, n, s) \in Nodes(t) BY <1>1
  <2>2. CASE n = w
    <3>1. Kid(t, w, s) \in Links(t) /\ ~Red(t, Kid(t, w, s)) BY <1>1, TypedParts
    <3> QED BY <1>1, <1>3, <2>1, <2>2, <3>1, Peek
  <2>3. CASE n # w
    <3>1. Hue(t, n) = 1 BY <1>3, <2>3
    <3> QED BY <1>1, <1>3, <2>1, <3>1, NoRed
  <2> QED BY <2>2, <2>3
<1>13. Hue(u, u.root) = 0 BY <1>1, <1>3
<1>14. p \in Links(u) BY <1>1, <1>3 DEF Links
<1>15. \E side : Lacking(u, sub, lev, p, g, side)
  <2>1. CASE p = t.root
    <3>1. g = Null BY <1>1, <2>1, RootIs
    <3>2. \A n \in Nodes(t), s \in Sides : Kid(t, n, s) # p BY <1>1, <3>1
    <3>3. Level(u, lev) BY <1>3, <1>10, <1>11, <3>2 DEF Level, SameKids
    <3>4. Lacking(u, sub, lev, p, g, "left")
      BY <1>3, <1>12, <1>13, <1>14, <2>1, <3>1, <3>3 DEF Lacking
    <3> QED BY <3>4
  <2>2. CASE p # t.root
    <3>1. Hangs(t, p) /\ g \in Nodes(t) /\ g # Null BY <1>1, <2>2, RootIs, ShapeHangs
    <3>2. PICK side \in Sides : Kid(t, g, side) = p /\ Kid(t, g, Other(side)) # p
      BY <3>1 DEF Hangs
    <3>3. \A r \in Sides : r = side \/ r = Other(side) BY SidesAre
    <3>4. \A n \in Nodes(t), s \in Sides : Kid(t, n, s) = p <=> n = g /\ s = side
      BY <3>1, <3>2, <3>3 DEF Hangs
    <3>5. LevelBut(u, lev, g, side) BY <1>3, <1>10, <1>11, <3>4 DEF LevelBut, SameKids
    <3>6. Kid(u, g, side) = p /\ g \in Nodes(u) BY <1>3, <3>1, <3>2 DEF SameKids
    <3>7. Lacking(u, sub, lev, p, g, side)
      BY <1>3, <1>12, <1>13, <1>14, <3>5, <3>6 DEF Lacking
    <3> QED BY <3>7
  <2> QED BY <2>1, <2>2
<1>16. Load(sub, p) > Load(sub, x) /\ Load(sub, x) \in Nat
  <2>1. p # Null /\ Weight(sub, p) \in Nat /\ Weight(sub, p) >= 1 BY <1>1, SubIs
  <2>2. CASE x = Null BY <2>1, <2>2 DEF Load
  <2>3. CASE x # Null
    <3>1. Weight(sub, x) < Weight(sub, p) /\ Weight(sub, x) \in Nat BY <1>1, <2>3, KidIs, SubIs
    <3> QED BY <2>1, <2>3, <3>1 DEF Load
  <2> QED BY <2>2, <2>3
<1> QED BY <1>3, <1>15, <1>16

(* A red near nephew, the other black, goes above the sibling.              *)
LEMMA StraightenedIs ==
  ASSUME NEW t, NEW sub, NEW bh, NEW x, NEW p, NEW qs, Lacking(t, sub, bh, x, p, qs), p # Null,
         ~Red(t, x), NEW w, w = Kid(t, p, Other(qs)), ~Red(t, w),
         Red(t, Kid(t, w, qs)) \/ Red(t, Kid(t, w, Other(qs))),
         NEW u, u = Straightened(t, p, qs), NEW v, v = Kid(u, p, Other(qs))
  PROVE  /\ SameVals(t, u) /\ ~Red(u, x)
         /\ ~Red(u, v) /\ Red(u, Kid(u, v, Other(qs)))
         /\ \E new, lev : Lacking(u, new, lev, x, p, qs)
<1> DEFINE o == Other(qs)  near == Kid(t, w, qs)  far == Kid(t, w, o)
<1>1. /\ Shape(t, sub) /\ Typed(t) /\ Null \notin Nodes(t) /\ p \in Nodes(t) /\ qs \in Sides
      /\ Kid(t, p, qs) = x /\ LevelBut(t, bh, p, qs) /\ Quiet(t, x, x)
      /\ x \in Links(t) /\ x # t.root /\ x # p /\ (x # Null => x \in Nodes(t) /\ Par(t, x) = p)
      /\ t.root \in Nodes(t) /\ Hue(t, t.root) = 0
      /\ o \in Sides /\ o # qs /\ Other(o) = qs
      /\ w \in Nodes(t) /\ w # Null /\ w # x /\ w # p /\ Par(t, w) = p /\ w # t.root
      /\ \A n \in Nodes(t), s \in Sides :
           Kid(t, n, s) # Null => Kid(t, n, s) \in Nodes(t) /\ Par(t, Kid(t, n, s)) = n
      /\ \A s \in Sides : Kid(t, w, s) # x \/ x = Null
      /\ \A s \in Sides : Kid(t, w, s) # w /\ Kid(t, w, s) # p /\ Kid(t, p, s) # p
  BY SiblingIs
<1>2. /\ p \in Links(t) /\ w \in Links(t) /\ near \in Links(t) /\ far \in Links(t)
  BY <1>1, TypedParts DEF Links
<1>3. Child(t, p, o) = w /\ Child(t, w, qs) = near /\ Child(t, w, o) = far
  BY <1>1, <1>2, Peek
<1>4. Hue(t, w) = 0 BY <1>1, <1>2, Peek
<1>5. CASE Red(t, far)
  <2>1. u = t BY <1>3, <1>5 DEF Straightened
  <2>2. SameVals(t, t) BY DEF SameVals
  <2>3. v = w BY <2>1
  <2> QED BY <1>5, <2>1, <2>2, <2>3
<1>6. CASE ~Red(t, far)
  <2> DEFINE new == Regrouped(t, sub, w, near, o)
             lev == [n \in Nodes(t) |-> IF n = w THEN bh[near] ELSE IF n = near THEN bh[w]
                                        ELSE bh[n]]
  <2>1. u = Rotated(Painted(Painted(t, near, 0), w, 1), w, o)
    BY <1>3, <1>6 DEF Straightened
  <2>2. near \in Nodes(t) /\ near # Null /\ Hue(t, near) = 1 BY <1>1, <1>2, <1>6, Peek
  <2>3. /\ Turned(t, u, w, near, o) /\ Shape(u, new)
        /\ \A n \in Nodes(t) : Hue(u, n) = IF n = w THEN 1 ELSE IF n = near THEN 0 ELSE Hue(t, n)
    BY <1>1, <2>1, <2>2, ExchangeIs
  <2>4. p # near /\ p # w BY <1>1
  <2>5. LevelBut(u, lev, p, qs) BY <1>1, <1>4, <2>2, <2>3, <2>4, ExchangeLevel
  <2>6. ~Red(t, Kid(t, near, o))
    <3>1. Kid(t, near, o) # Null => Hue(t, Kid(t, near, o)) = 0 BY <1>1, <2>2, NoRed
    <3>2. Kid(t, near, o) \in Links(t) BY <1>1, <2>2, TypedParts
    <3> QED BY <1>1, <3>1, <3>2, Peek
  <2>7. Quiet(u, x, x) BY <1>1, <1>6, <2>2, <2>3, <2>6, ExchangeQuiet
  <2>8. Nodes(u) = Nodes(t) /\ SameVals(t, u) /\ Links(u) = Links(t) /\ Typed(u)
    BY <2>3 DEF Turned, SameVals, Links, Shape
  <2>9. /\ Kid(u, p, qs) = x /\ Kid(u, p, o) = near /\ Kid(u, near, o) = w
        /\ u.root = t.root
    BY <1>1, <2>3, <2>4 DEF Turned
  <2>10. Hue(u, u.root) = 0
    <3>1. t.root # near BY <1>1, <2>2, RootIs
    <3> QED BY <1>1, <2>3, <2>9, <3>1
  <2>11. Lacking(u, new, lev, x, p, qs)
    BY <1>1, <2>3, <2>5, <2>7, <2>8, <2>9, <2>10 DEF Lacking
  <2>12. ~Red(u, x)
    <3>1. x # Null => x # w /\ x # near /\ Hue(u, x) = Hue(t, x) BY <1>1, <2>2, <2>3
    <3> QED BY <1>1, <2>8, <3>1, Peek
  <2>13. v = near /\ ~Red(u, near) /\ Red(u, Kid(u, near, o))
    <3>1. near # w /\ Hue(u, near) = 0 /\ Hue(u, w) = 1 BY <1>1, <2>2, <2>3
    <3> QED BY <1>1, <1>2, <2>8, <2>9, <3>1, Peek
  <2> HIDE DEF new, lev
  <2> QED BY <2>8, <2>11, <2>12, <2>13
<1> QED BY <1>5, <1>6

(* The sibling, with a red far nephew, goes above p: nothing is missing.    *)
LEMMA LiftedIs ==
  ASSUME NEW t, NEW sub, NEW bh, NEW x, NEW p, NEW qs, Lacking(t, sub, bh, x, p, qs), p # Null,
         ~Red(t, x), NEW w, w = Kid(t, p, Other(qs)), ~Red(t, w),
         NEW far, far = Kid(t, w, Other(qs)), Red(t, far), NEW u, u = Lifted(t, p, qs)
  PROVE  SameVals(t, u) /\ \E new, lev : Balanced(u, new, lev)
<1> DEFINE o == Other(qs)  h == Hue(t, p)
           a == Painted(t, w, h)
           b == Painted(a, p, 0)
           c == Painted(b, far, 0)
           new == Regrouped(t, sub, p, w, qs)
           lev == [n \in Nodes(t) |-> IF n = p THEN bh[w] ELSE IF n = w THEN bh[p]
                                      ELSE IF n = far THEN bh[far] + 1 ELSE bh[n]]
<1>1. /\ Shape(t, sub) /\ Typed(t) /\ Null \notin Nodes(t) /\ p \in Nodes(t) /\ qs \in Sides
      /\ Kid(t, p, qs) = x /\ LevelBut(t, bh, p, qs) /\ Quiet(t, x, x)
      /\ x \in Links(t) /\ x # t.root /\ x # p /\ (x # Null => x \in Nodes(t) /\ Par(t, x) = p)
      /\ t.root \in Nodes(t) /\ Hue(t, t.root) = 0
      /\ o \in Sides /\ o # qs /\ Other(o) = qs /\ \A r \in Sides : r = qs \/ r = o
      /\ w \in Nodes(t) /\ w # Null /\ w # x /\ w # p /\ Par(t, w) = p /\ w # t.root
      /\ bh[w] = Height(bh, x) + 1 /\ Height(bh, x) \in Nat \ {0}
      /\ \A n \in Nodes(t), s \in Sides :
           Kid(t, n, s) # Null => Kid(t, n, s) \in Nodes(t) /\ Par(t, Kid(t, n, s)) = n
      /\ \A s \in Sides : Kid(t, w, s) # x \/ x = Null
      /\ \A s \in Sides : Kid(t, w, s) # w /\ Kid(t, w, s) # p /\ Kid(t, p, s) # p
  BY SiblingIs
<1>2. /\ p \in Links(t) /\ w \in Links(t) /\ far \in Links(t) /\ p # Null
      /\ h \in {0, 1} /\ 0 \in {0, 1}
  BY <1>1, TypedParts DEF Links
<1>3. Child(t, p, o) = w /\ Child(t, w, o) = far /\ NodeColor(t, p) = h
  BY <1>1, <1>2, Peek
<1>4. Hue(t, w) = 0 BY <1>1, <1>2, Peek
<1>5. far \in Nodes(t) /\ Hue(t, far) = 1 /\ far # p /\ far # w /\ Par(t, far) = w /\ far # x
  BY <1>1, <1>2, Peek
<1>6. /\ Shape(a, sub) /\ a.root = t.root /\ SameKids(t, a) /\ SamePars(t, a) /\ SameVals(t, a)
      /\ Nodes(a) = Nodes(t) /\ Links(a) = Links(t)
      /\ \A m \in Nodes(t) : Hue(a, m) = IF m = w THEN h ELSE Hue(t, m)
  <2>1. /\ Shape(a, sub) /\ a.root = t.root /\ SameKids(t, a) /\ SamePars(t, a)
        /\ SameVals(t, a) /\ Nodes(a) = Nodes(t)
        /\ \A m \in Nodes(t) : Hue(a, m) = IF m = w THEN h ELSE Hue(t, m)
    BY <1>1, <1>2, Recoloured
  <2> QED BY <2>1 DEF Links
<1>7. u = Rotated(c, p, qs) BY <1>3 DEF Lifted
<1> HIDE DEF a
<1>8. /\ Shape(b, sub) /\ b.root = a.root /\ SameKids(a, b) /\ SamePars(a, b) /\ SameVals(a, b)
      /\ Nodes(b) = Nodes(a) /\ Links(b) = Links(a)
      /\ \A m \in Nodes(a) : Hue(b, m) = IF m = p THEN 0 ELSE Hue(a, m)
  <2>1. /\ Shape(b, sub) /\ b.root = a.root /\ SameKids(a, b) /\ SamePars(a, b)
        /\ SameVals(a, b) /\ Nodes(b) = Nodes(a)
        /\ \A m \in Nodes(a) : Hue(b, m) = IF m = p THEN 0 ELSE Hue(a, m)
    BY <1>2, <1>6, Recoloured
  <2> QED BY <2>1 DEF Links
<1> HIDE DEF b
<1>9. /\ Shape(c, sub) /\ c.root = b.root /\ SameKids(b, c) /\ SamePars(b, c) /\ SameVals(b, c)
      /\ Nodes(c) = Nodes(b)
      /\ \A m \in Nodes(b) : Hue(c, m) = IF m = far THEN 0 ELSE Hue(b, m)
  BY <1>2, <1>6, <1>8, Recoloured
<1> HIDE DEF c
<1>10. /\ SameKids(t, c) /\ SamePars(t, c) /\ SameVals(t, c) /\ Nodes(c) = Nodes(t)
       /\ c.root = t.root
  BY <1>6, <1>8, <1>9 DEF SameKids, SamePars, SameVals
<1>11. Kid(c, p, o) = w BY <1>1, <1>10 DEF SameKids
<1>12. Turned(c, u, p, w, qs) /\ SameHues(c, u)
  BY <1>1, <1>7, <1>9, <1>10, <1>11, RotatedIs
<1>13. Turned(t, u, p, w, qs) BY <1>1, <1>10, <1>12, TurnedSame
<1>14. Shape(u, new) BY <1>1, <1>13, ShapeTurned
<1>15. \A n \in Nodes(t) : Hue(u, n) = IF n = far \/ n = p THEN 0 ELSE IF n = w THEN h
                                       ELSE Hue(t, n)
  BY <1>5, <1>6, <1>8, <1>9, <1>10, <1>12 DEF SameHues
<1>16. Nodes(u) = Nodes(t) /\ SameVals(t, u) BY <1>13 DEF Turned, SameVals
<1>17. /\ Kid(u, p, o) = Kid(t, w, qs) /\ Kid(u, p, qs) = x
       /\ Kid(u, w, qs) = p /\ Kid(u, w, o) = far
       /\ \A n \in Nodes(t) \ {p, w}, r \in Sides :
            Kid(u, n, r) = IF Kid(t, n, r) = p THEN w ELSE Kid(t, n, r)
       /\ u.root = IF Par(t, p) = Null THEN w ELSE t.root
  BY <1>1, <1>13 DEF Turned
<1>18. bh \in [Nodes(t) -> Nat \ {0}] BY <1>1 DEF LevelBut
<1>19. \A n \in Nodes(t), s \in Sides :
        /\ Height(bh, Kid(t, n, s)) \in Nat
        /\ bh[n] = IF n = p /\ s = qs THEN Height(bh, Kid(t, n, s)) + 2 - Hue(t, n)
                                      ELSE Height(bh, Kid(t, n, s)) + 1 - Hue(t, n)
  BY <1>1, <1>18 DEF LevelBut, Height
<1>20. /\ lev \in [Nodes(t) -> Nat \ {0}] /\ lev[p] = bh[w] /\ lev[w] = bh[p]
       /\ lev[far] = bh[far] + 1
       /\ \A n \in Nodes(t) : n # p /\ n # w /\ n # far => lev[n] = bh[n]
  BY <1>1, <1>5, <1>18
<1> HIDE DEF lev, new
<1>21. Kid(t, w, qs) # far
  <2>1. far \in sub[far] BY <1>1, <1>5, SubIs
  <2>2. ~Below(t, sub, w, Other(o), far) BY <1>1, <1>5, <2>1, KidIs
  <2> QED BY <1>1, <1>5, <2>1, <2>2 DEF Below
<1>22. /\ bh[w] = Height(bh, Kid(t, w, qs)) + 1 /\ bh[w] = bh[far] + 1
       /\ bh[p] = Height(bh, x) + 2 - h /\ bh[far] \in Nat
  <2>1. bh[w] = Height(bh, Kid(t, w, qs)) + 1 - 0 /\ bh[w] = Height(bh, far) + 1 - 0
    BY <1>1, <1>4, <1>19
  <2> QED BY <1>1, <1>5, <1>18, <1>19, <2>1 DEF Height
<1>23. \A s \in Sides : Kid(t, far, s) # p /\ Kid(t, far, s) # w /\ Kid(t, far, s) # far
  <2>1. \A s \in Sides : Kid(t, far, s) # far BY <1>1, <1>5, KidIs
  <2>2. \A s \in Sides : Kid(t, far, s) # p
    <3>1. Weight(sub, w) < Weight(sub, p) /\ Weight(sub, far) < Weight(sub, w)
      BY <1>1, <1>5, KidIs
    <3>2. \A s \in Sides : Kid(t, far, s) # Null => Weight(sub, Kid(t, far, s)) < Weight(sub, far)
      BY <1>1, <1>5, KidIs
    <3> QED BY <1>1, <1>5, <3>1, <3>2, SubIs
  <2> QED BY <1>1, <1>5, <2>1, <2>2
<1>24. Level(u, lev)
  <2> SUFFICES ASSUME NEW n \in Nodes(t), NEW s \in Sides
               PROVE  lev[n] = Height(lev, Kid(u, n, s)) + 1 - Hue(u, n)
    BY <1>16, <1>20 DEF Level
  <2>1. CASE n = p /\ s = o
    <3>1. Height(lev, Kid(t, w, qs)) = Height(bh, Kid(t, w, qs))
      BY <1>1, <1>20, <1>21 DEF Height
    <3> QED BY <1>1, <1>15, <1>17, <1>19, <1>20, <1>22, <2>1, <3>1
  <2>2. CASE n = p /\ s = qs
    <3>1. Height(lev, x) = Height(bh, x) BY <1>1, <1>5, <1>20 DEF Height
    <3> QED BY <1>1, <1>15, <1>17, <1>20, <1>22, <2>2, <3>1
  <2>3. CASE n = w /\ s = qs
    <3>1. Height(lev, p) = bh[w] BY <1>1, <1>2, <1>20 DEF Height
    <3>2. Hue(u, w) = h BY <1>1, <1>5, <1>15
    <3> QED BY <1>1, <1>2, <1>17, <1>20, <1>22, <2>3, <3>1, <3>2
  <2>4. CASE n = w /\ s = o
    <3>1. Height(lev, far) = bh[w] BY <1>1, <1>5, <1>20, <1>22 DEF Height
    <3>2. Hue(u, w) = h BY <1>1, <1>5, <1>15
    <3> QED BY <1>1, <1>2, <1>17, <1>20, <1>22, <2>4, <3>1, <3>2
  <2>5. CASE n = far
    <3>1. Kid(u, far, s) = Kid(t, far, s) BY <1>5, <1>17, <1>23
    <3>2. Height(lev, Kid(t, far, s)) = Height(bh, Kid(t, far, s))
      BY <1>1, <1>5, <1>20, <1>23 DEF Height
    <3>3. bh[far] = Height(bh, Kid(t, far, s)) + 1 - 1 BY <1>5, <1>19
    <3> QED BY <1>5, <1>15, <1>19, <1>20, <2>5, <3>1, <3>2, <3>3
  <2>6. CASE n # p /\ n # w /\ n # far
    <3>1. Hue(u, n) = Hue(t, n) /\ lev[n] = bh[n] BY <1>15, <1>20, <2>6
    <3>2. bh[n] = Height(bh, Kid(t, n, s)) + 1 - Hue(t, n) BY <1>19, <2>6
    <3>3. Height(lev, Kid(u, n, s)) = Height(bh, Kid(t, n, s))
      <4>1. CASE Kid(t, n, s) = p BY <1>1, <1>17, <1>20, <2>6, <4>1 DEF Height
      <4>2. CASE Kid(t, n, s) # p
        <5>1. Kid(u, n, s) = Kid(t, n, s) BY <1>17, <2>6, <4>2
        <5>2. Kid(t, n, s) # w /\ Kid(t, n, s) # far BY <1>1, <1>5, <2>6
        <5> QED BY <1>1, <1>20, <4>2, <5>1, <5>2 DEF Height
      <4> QED BY <4>1, <4>2
    <3> QED BY <3>1, <3>2, <3>3
  <2> QED BY <1>1, <2>1, <2>2, <2>3, <2>4, <2>5, <2>6
<1>25. Quiet(u, Null, Null)
  <2> SUFFICES ASSUME NEW n \in Nodes(t), NEW s \in Sides, Hue(u, n) = 1, Kid(u, n, s) # Null
               PROVE  Hue(u, Kid(u, n, s)) = 0
    BY <1>16 DEF Quiet
  <2>1. n # p /\ n # far BY <1>15
  <2>2. CASE n = w BY <1>1, <1>5, <1>15, <1>17, <2>2
  <2>3. CASE n # w
    <3>1. Hue(t, n) = 1 BY <1>15, <2>1, <2>3
    <3>2. Kid(t, n, s) # Null => Hue(t, Kid(t, n, s)) = 0 BY <1>1, <3>1, NoRed
    <3>3. CASE Kid(t, n, s) = p
      <4>1. Kid(u, n, s) = w /\ h = 0 BY <1>2, <1>17, <2>1, <2>3, <3>2, <3>3
      <4> QED BY <1>1, <1>5, <1>15, <4>1
    <3>4. CASE Kid(t, n, s) # p
      <4>1. Kid(u, n, s) = Kid(t, n, s) BY <1>17, <2>1, <2>3, <3>4
      <4>2. Kid(t, n, s) # w /\ Kid(t, n, s) \in Nodes(t) BY <1>1, <2>1, <4>1
      <4> QED BY <1>15, <3>2, <4>1, <4>2
    <3> QED BY <3>3, <3>4
  <2> QED BY <2>2, <2>3
<1>26. Hue(u, u.root) = 0
  <2>1. CASE Par(t, p) = Null
    <3>1. p = t.root BY <1>1, <2>1, RootIs
    <3> QED BY <1>1, <1>5, <1>15, <1>17, <2>1, <3>1
  <2>2. CASE Par(t, p) # Null BY <1>1, <1>15, <1>17, <2>2
  <2> QED BY <2>1, <2>2
<1>27. Balanced(u, new, lev) BY <1>14, <1>24, <1>25, <1>26 DEF Balanced
<1> QED BY <1>16, <1>27

Over(s) == s.x = s.tree.root \/ Red(s.tree, s.x)

(* A turn of delete_fixup either ends the loop or brings it higher up.      *)
LEMMA DeleteTurnIs ==
  ASSUME NEW s, NEW sub, NEW bh, NEW qs, Lacking(s.tree, sub, bh, s.x, s.p, qs),
         NEW r, r = DeleteTurn(s)
  PROVE  /\ SameVals(s.tree, r.tree) /\ (Over(s) => r = s)
         /\ \E new, lev, side : /\ Lacking(r.tree, new, lev, r.x, r.p, side)
                                /\ Over(r) \/ Load(new, r.x) > Load(sub, s.x)
<1> DEFINE t == s.tree  x == s.x  p == s.p
<1>1. CASE Over(s)
  <2>1. r = s BY <1>1 DEF DeleteTurn, Over
  <2>2. SameVals(t, t) BY DEF SameVals
  <2> QED BY <1>1, <2>1, <2>2
<1>2. CASE ~Over(s)
  <2>1. p # Null /\ x # t.root /\ ~Red(t, x)
    BY <1>2, NullIsNone DEF Lacking, Over, Shape
  <2>2. /\ Typed(t) /\ Null \notin Nodes(t) /\ p \in Nodes(t) /\ qs \in Sides
        /\ Kid(t, p, qs) = x /\ Other(qs) \in Sides /\ Kid(t, p, Other(qs)) # x
    BY <2>1, SiblingIs
  <2>3. p \in Links(t) BY <2>2 DEF Links
  <2> DEFINE side == IF x = Child(t, p, "left") THEN "left" ELSE "right"
  <2>4. side = qs
    <3>1. Child(t, p, "left") = Kid(t, p, "left") BY <2>1, <2>2, <2>3, Peek DEF Sides
    <3> QED BY <2>2, <3>1 DEF Sides, Other
  <2> DEFINE a == Blackened(t, p, qs)
             w == Kid(a, p, Other(qs))
             up == [tree |-> Painted(a, w, 1), x |-> p, p |-> Parent(a, p)]
             turned == Lifted(Straightened(a, p, qs), p, qs)
             end == [tree |-> turned, x |-> turned.root, p |-> Null]
  <2> HIDE DEF side
  <2>5. /\ SameVals(t, a) /\ ~Red(a, x) /\ ~Red(a, w)
        /\ \E new, lev : Lacking(a, new, lev, x, p, qs) /\ Load(new, x) = Load(sub, x)
    BY <2>1, BlackenedIs
  <2>6. PICK mid, mlev : Lacking(a, mid, mlev, x, p, qs) /\ Load(mid, x) = Load(sub, x)
    BY <2>5
  <2>7. r = IF ~Red(a, Child(a, Child(a, p, Other(qs)), qs))
               /\ ~Red(a, Child(a, Child(a, p, Other(qs)), Other(qs)))
            THEN [tree |-> Painted(a, Child(a, p, Other(qs)), 1), x |-> p, p |-> Parent(a, p)]
            ELSE end
    BY <2>1, <2>4 DEF DeleteTurn, side
  <2> HIDE DEF a
  <2>8. /\ Typed(a) /\ p \in Nodes(a) /\ w \in Nodes(a) /\ w # Null
    BY <2>1, <2>6, SiblingIs
  <2>9. p \in Links(a) /\ w \in Links(a) BY <2>8 DEF Links
  <2>10. /\ Child(a, p, Other(qs)) = w /\ Parent(a, p) = Par(a, p)
         /\ Child(a, w, qs) = Kid(a, w, qs) /\ Child(a, w, Other(qs)) = Kid(a, w, Other(qs))
    BY <2>1, <2>2, <2>8, <2>9, Peek
  <2>11. CASE ~Red(a, Kid(a, w, qs)) /\ ~Red(a, Kid(a, w, Other(qs)))
    <3>1. r = up BY <2>7, <2>10, <2>11
    <3>2. r.tree = Painted(a, w, 1) /\ r.x = p /\ r.p = Par(a, p) BY <2>10, <3>1
    <3>3. /\ SameVals(a, r.tree) /\ Load(mid, p) > Load(mid, x)
          /\ \E lev, d : Lacking(r.tree, mid, lev, p, Par(a, p), d)
      BY <2>1, <2>5, <2>6, <2>11, <3>2, DarkenedIs
    <3>4. SameVals(t, r.tree) BY <2>5, <3>3 DEF SameVals
    <3> QED BY <1>2, <2>6, <3>2, <3>3, <3>4
  <2>12. CASE Red(a, Kid(a, w, qs)) \/ Red(a, Kid(a, w, Other(qs)))
    <3> DEFINE c == Straightened(a, p, qs)  v == Kid(c, p, Other(qs))
    <3>1. r = end BY <2>7, <2>10, <2>12
    <3>2. r.tree = turned /\ r.x = turned.root /\ r.p = Null BY <3>1
    <3>3. /\ SameVals(a, c) /\ ~Red(c, x) /\ ~Red(c, v) /\ Red(c, Kid(c, v, Other(qs)))
          /\ \E new, lev : Lacking(c, new, lev, x, p, qs)
      BY <2>1, <2>5, <2>6, <2>12, StraightenedIs
    <3>4. turned = Lifted(c, p, qs) OBVIOUS
    <3> HIDE DEF c, turned
    <3>5. SameVals(c, turned) /\ \E new, lev : Balanced(turned, new, lev)
      BY <2>1, <3>3, <3>4, LiftedIs
    <3>6. SameVals(t, turned) BY <2>5, <3>3, <3>5 DEF SameVals
    <3>7. \E new, lev, d : Lacking(turned, new, lev, turned.root, Null, d)
      BY <3>5, BalancedLacks
    <3>8. Over(r) BY <3>2 DEF Over
    <3> QED BY <1>2, <3>2, <3>6, <3>7, <3>8
  <2> QED BY <2>11, <2>12
<1> QED BY <1>1, <1>2

DeleteRun(f, s, m) ==
  f = [i \in 0 .. m |-> IF i = 0 THEN s ELSE DeleteTurn(f[i - 1])]

LEMMA DeleteRunExists ==
  ASSUME NEW s, NEW m \in Nat
  PROVE  \E f : DeleteRun(f, s, m)
<1> DEFINE T == {k \in Nat : \E f : DeleteRun(f, s, k)}
<1>1. 0 \in T
  <2> DEFINE f == [i \in 0 .. 0 |-> s]
  <2>1. f = [i \in 0 .. 0 |-> IF i = 0 THEN s ELSE DeleteTurn(f[i - 1])] OBVIOUS
  <2> QED BY <2>1 DEF DeleteRun
<1>2. ASSUME NEW k \in Nat, k \in T PROVE k + 1 \in T
  <2>1. PICK f : DeleteRun(f, s, k) BY <1>2
  <2> DEFINE top == DeleteTurn(f[k])
             h == [i \in 0 .. k + 1 |-> IF i = k + 1 THEN top ELSE f[i]]
  <2> HIDE DEF top
  <2>2. ASSUME NEW i \in 0 .. k + 1
        PROVE  h[i] = IF i = 0 THEN s ELSE DeleteTurn(h[i - 1])
    <3>1. CASE i = 0 BY <2>1, <3>1 DEF DeleteRun
    <3>2. CASE i = k + 1
      <4>1. i # 0 /\ i - 1 = k /\ h[i] = top /\ h[k] = f[k] BY <3>2
      <4> QED BY <3>2, <4>1 DEF top
    <3>3. CASE i # 0 /\ i # k + 1
      <4>1. i \in 0 .. k /\ i - 1 \in 0 .. k /\ h[i] = f[i] /\ h[i - 1] = f[i - 1] BY <3>3
      <4> QED BY <2>1, <3>3, <4>1 DEF DeleteRun
    <3> QED BY <3>1, <3>2, <3>3
  <2>3. h = [i \in 0 .. k + 1 |-> h[i]] OBVIOUS
  <2> HIDE DEF h
  <2>4. DeleteRun(h, s, k + 1) BY <2>2, <2>3 DEF DeleteRun
  <2> QED BY <2>4
<1> HIDE DEF T
<1>3. m \in T BY <1>1, <1>2, Induction
<1> QED BY <1>3 DEF T

LEMMA DeleteFixupBy ==
  ASSUME NEW t, Cardinality(Nodes(t)) \in Nat, NEW x, NEW p,
         NEW s, s = [tree |-> t, x |-> x, p |-> p]
  PROVE  \E f : /\ DeleteRun(f, s, Cardinality(Nodes(t)))
                /\ DeleteFixup(t, x, p) = Painted(f[Cardinality(Nodes(t))].tree,
                                                  f[Cardinality(Nodes(t))].x, 0)
<1> DEFINE c == CHOOSE f : DeleteRun(f, s, Cardinality(Nodes(t)))
<1>1. \E f : DeleteRun(f, s, Cardinality(Nodes(t))) BY DeleteRunExists
<1>2. DeleteRun(c, s, Cardinality(Nodes(t))) BY <1>1
<1>3. DeleteFixup(t, x, p) = Painted(c[Cardinality(Nodes(t))].tree,
                                     c[Cardinality(Nodes(t))].x, 0)
  BY DEF DeleteFixup, DeleteRun, Nodes
<1> QED BY <1>2, <1>3

(* So as many turns as there are nodes end it, in a red-black tree.         *)
LEMMA DeleteFixupIs ==
  ASSUME NEW t, NEW sub, NEW bh, NEW x, NEW p, NEW qs, Lacking(t, sub, bh, x, p, qs),
         NEW u, u = DeleteFixup(t, x, p)
  PROVE  SameVals(t, u) /\ \E new, lev : Balanced(u, new, lev)
<1> DEFINE N == Cardinality(Nodes(t))
           s == [tree |-> t, x |-> x, p |-> p]
<1>1. Shape(t, sub) BY DEF Lacking
<1>2. N \in Nat
  <2>1. IsFiniteSet(Nodes(t)) BY <1>1 DEF Shape, Typed
  <2> QED BY <2>1, FS_CardinalityType
<1>3. PICK f : DeleteRun(f, s, N) /\ u = Painted(f[N].tree, f[N].x, 0)
  BY <1>2, DeleteFixupBy
<1> DEFINE Good(i) ==
             /\ SameVals(t, f[i].tree)
             /\ \E new, lev, d : /\ Lacking(f[i].tree, new, lev, f[i].x, f[i].p, d)
                                 /\ Over(f[i]) \/ Load(new, f[i].x) >= i
           T == {i \in Nat : i <= N => Good(i)}
<1>4. ASSUME NEW a, NEW y, NEW q, NEW new, NEW lev, NEW d, Lacking(a, new, lev, y, q, d)
      PROVE  Load(new, y) \in Nat
  <2>1. Shape(a, new) /\ y \in Links(a) BY <1>4 DEF Lacking
  <2> QED BY <2>1, SubIs DEF Load, Links
<1>5. 0 \in T
  <2>1. f[0] = s BY <1>2, <1>3 DEF DeleteRun
  <2>2. f[0].tree = t /\ f[0].x = x /\ f[0].p = p BY <2>1
  <2>3. Load(sub, x) >= 0 BY <1>4
  <2>4. SameVals(t, t) BY DEF SameVals
  <2> QED BY <2>2, <2>3, <2>4
<1>6. ASSUME NEW i \in Nat, i \in T PROVE i + 1 \in T
  <2> SUFFICES ASSUME i + 1 <= N PROVE Good(i + 1) OBVIOUS
  <2>1. Good(i) BY <1>2, <1>6
  <2>2. f[i + 1] = DeleteTurn(f[i])
    <3>1. i + 1 \in 0 .. N /\ (i + 1) - 1 = i /\ i + 1 # 0 BY <1>2
    <3> QED BY <1>3, <3>1 DEF DeleteRun
  <2>3. PICK new, lev, d : /\ Lacking(f[i].tree, new, lev, f[i].x, f[i].p, d)
                           /\ Over(f[i]) \/ Load(new, f[i].x) >= i
    BY <2>1
  <2>4. /\ SameVals(f[i].tree, f[i + 1].tree) /\ (Over(f[i]) => f[i + 1] = f[i])
        /\ \E new2, lev2, d2 :
             /\ Lacking(f[i + 1].tree, new2, lev2, f[i + 1].x, f[i + 1].p, d2)
             /\ Over(f[i + 1]) \/ Load(new2, f[i + 1].x) > Load(new, f[i].x)
    BY <2>2, <2>3, DeleteTurnIs
  <2>5. SameVals(t, f[i + 1].tree) BY <2>1, <2>4 DEF SameVals
  <2>6. CASE Over(f[i])
    <3>1. f[i + 1] = f[i] BY <2>4, <2>6
    <3> QED BY <2>3, <2>5, <2>6, <3>1
  <2>7. CASE Load(new, f[i].x) >= i
    <3>1. PICK new2, lev2, d2 :
             /\ Lacking(f[i + 1].tree, new2, lev2, f[i + 1].x, f[i + 1].p, d2)
             /\ Over(f[i + 1]) \/ Load(new2, f[i + 1].x) > Load(new, f[i].x)
      BY <2>4
    <3>2. Load(new, f[i].x) \in Nat BY <1>4, <2>3
    <3>3. Load(new2, f[i + 1].x) \in Nat BY <1>4, <3>1
    <3>4. Load(new2, f[i + 1].x) > Load(new, f[i].x) => Load(new2, f[i + 1].x) >= i + 1
      BY <2>7, <3>2, <3>3
    <3> QED BY <2>5, <3>1, <3>4
  <2> QED BY <2>3, <2>6, <2>7
<1> HIDE DEF T
<1>7. N \in T BY <1>2, <1>5, <1>6, Induction
<1>8. Good(N) BY <1>2, <1>7 DEF T
<1>9. PICK new, lev, d : /\ Lacking(f[N].tree, new, lev, f[N].x, f[N].p, d)
                         /\ Over(f[N]) \/ Load(new, f[N].x) >= N
  BY <1>8
<1> DEFINE a == f[N].tree  y == f[N].x
<1>10. Nodes(a) = Nodes(t) BY <1>8 DEF SameVals
<1>11. Over(f[N])
  <2> SUFFICES ASSUME Load(new, y) >= N, y # a.root PROVE FALSE BY <1>9 DEF Over
  <2>1. Shape(a, new) /\ y \in Links(a) /\ a.root \in Links(a) BY <1>9 DEF Lacking, Shape, Typed
  <2>2. \A n \in Nodes(a) : Weight(new, n) \in Nat /\ Weight(new, n) >= 1 /\ Weight(new, n) <= N
    BY <1>10, <2>1, SubIs
  <2>3. CASE y = Null
    <3>1. a.root \in Nodes(a) BY <2>1, <2>3 DEF Links
    <3>2. N >= 1 BY <1>2, <2>2, <3>1
    <3> QED BY <1>2, <2>3, <3>2 DEF Load
  <2>4. CASE y # Null
    <3>1. y \in Nodes(a) BY <2>1, <2>4 DEF Links
    <3>2. Par(a, y) \in Nodes(a) /\ \E s2 \in Sides : Kid(a, Par(a, y), s2) = y BY <2>1, <3>1, RootIs
    <3>3. Weight(new, y) < Weight(new, Par(a, y)) BY <2>1, <2>4, <3>2, KidIs
    <3> QED BY <1>2, <2>2, <2>4, <3>1, <3>2, <3>3 DEF Load
  <2> QED BY <2>3, <2>4
<1>12. y = a.root \/ Red(a, y) BY <1>11 DEF Over
<1>13. SameVals(a, u) /\ \E lev2 : Balanced(u, new, lev2) BY <1>3, <1>9, <1>12, MendedIs
<1>14. SameVals(t, u) BY <1>8, <1>13 DEF SameVals
<1> QED BY <1>13, <1>14

-----------------------------------------------------------------------------
(* Taking a node out. *)

LEMMA WithoutIs ==
  ASSUME NEW t, Typed(t), NEW z \in Nodes(t), t.root # z,
         \A m \in Nodes(t) \ {z} : /\ Par(t, m) # z
                                   /\ \A s \in Sides : Kid(t, m, s) # z,
         NEW u, u = Without(t, z)
  PROVE  /\ Typed(u) /\ u.root = t.root /\ Nodes(u) = Nodes(t) \ {z}
         /\ \A m \in Nodes(u) : /\ Par(u, m) = Par(t, m) /\ Hue(u, m) = Hue(t, m)
                                /\ Val(u, m) = Val(t, m)
                                /\ \A s \in Sides : Kid(u, m, s) = Kid(t, m, s)
<1> DEFINE D == Nodes(t) \ {z}  f == [m \in D |-> t.node[m]]  L == D \cup {Null}
<1>1. u.root = t.root /\ u.node = f /\ u = [root |-> u.root, node |-> u.node]
  BY DEF Without, Typed, Restrict, Nodes
<1>2. DOMAIN f = D /\ \A m \in D : f[m] = t.node[m] OBVIOUS
<1>3. ASSUME NEW m \in D PROVE t.node[m] \in Cell(L)
  <2>1. t.node[m] \in Cell(Links(t)) BY DEF Typed
  <2>2. /\ t.node[m].left # z /\ t.node[m].right # z /\ t.node[m].parent # z
    BY SidesAre DEF Par, Kid
  <2> QED BY <2>1, <2>2 DEF Cell, Links
<1>4. f \in [D -> Cell(L)] BY <1>3
<1> HIDE DEF f
<1>5. Nodes(u) = D BY <1>1, <1>2 DEF Nodes
<1>6. Links(u) = L BY <1>5 DEF Links
<1>7. Typed(u)
  <2>1. IsFiniteSet(D) BY FS_Subset DEF Typed
  <2>2. u.root \in L /\ D \subseteq Keys BY <1>1 DEF Typed, Links
  <2> QED BY <1>1, <1>4, <1>5, <1>6, <2>1, <2>2 DEF Typed
<1> QED BY <1>1, <1>2, <1>5, <1>7 DEF Kid, Par, Hue, Val

(* x, the one child of z, is in its place. *)
Dropped(t, u, z, x) ==
  /\ Typed(u) /\ Nodes(u) = Nodes(t) \ {z}
  /\ u.root = IF Par(t, z) = Null THEN x ELSE t.root
  /\ \A m \in Nodes(u), s \in Sides :
       Kid(u, m, s) = IF Kid(t, m, s) = z THEN x ELSE Kid(t, m, s)
  /\ \A m \in Nodes(u) : /\ Par(u, m) = IF m = x THEN Par(t, z) ELSE Par(t, m)
                         /\ Hue(u, m) = Hue(t, m) /\ Val(u, m) = Val(t, m)

(* A node z without a child on side e, and its other child x.               *)
LEMMA OnlyChild ==
  ASSUME NEW t, NEW sub, Shape(t, sub), NEW z \in Nodes(t), NEW e \in Sides,
         Kid(t, z, e) = Null, NEW x, x = Kid(t, z, Other(e))
  PROVE  /\ Typed(t) /\ Null \notin Nodes(t) /\ x \in Links(t) /\ x # z /\ Par(t, z) # z
         /\ x # Null => x \in Nodes(t) /\ Par(t, x) = z
         /\ \A j \in Nodes(t) \ {z} : j \in sub[z] <=> x # Null /\ j \in sub[x]
         /\ \A n \in Nodes(t), s \in Sides : Kid(t, n, s) = z => n = Par(t, z)
         /\ \A n \in Nodes(t), s \in Sides :
              /\ Kid(t, n, s) # n
              /\ Kid(t, n, s) # Null => Kid(t, n, s) \in Nodes(t) /\ Par(t, Kid(t, n, s)) = n
         /\ \A m \in Nodes(t) : Par(t, m) = z => m = x
<1>1. /\ Typed(t) /\ Null \notin Nodes(t) /\ Other(e) \in Sides
      /\ \A r \in Sides : r = e \/ r = Other(e)
  BY NullIsNone, SidesAre DEF Shape
<1>2. \A n \in Nodes(t), s \in Sides :
        /\ Kid(t, n, s) # n
        /\ Kid(t, n, s) # Null => Kid(t, n, s) \in Nodes(t) /\ Par(t, Kid(t, n, s)) = n
  BY <1>1, KidIs
<1>3. x \in Links(t) BY <1>1, TypedParts
<1>4. \A j \in Nodes(t) \ {z} : j \in sub[z] <=> x # Null /\ j \in sub[x]
  <2> TAKE j \in Nodes(t) \ {z}
  <2>1. j \in sub[z] <=> \E s \in Sides : Below(t, sub, z, s, j) BY DEF Shape, Split
  <2>2. ~Below(t, sub, z, e, j) BY DEF Below
  <2>3. Below(t, sub, z, Other(e), j) <=> x # Null /\ j \in sub[x] BY DEF Below
  <2> QED BY <1>1, <2>1, <2>2, <2>3
<1>5. \A m \in Nodes(t) : Par(t, m) = z => m = x
  <2> SUFFICES ASSUME NEW m \in Nodes(t), Par(t, m) = z PROVE m = x OBVIOUS
  <2>1. m # t.root BY <1>1, RootIs
  <2>2. PICK s \in Sides : Kid(t, z, s) = m BY <2>1, RootIs
  <2>3. s # e BY <1>1, <2>2
  <2> QED BY <1>1, <2>2, <2>3
<1>6. x # z /\ Par(t, z) # z
  <2>1. x # z BY <1>1, <1>2
  <2> QED BY <1>5, <2>1
<1>7. \A n \in Nodes(t), s \in Sides : Kid(t, n, s) = z => n = Par(t, z) BY <1>1, <1>2
<1> QED BY <1>1, <1>2, <1>3, <1>4, <1>5, <1>6, <1>7

(* The first two branches of mcpkg_map_remove drop such a node.             *)
LEMMA DroppedIs ==
  ASSUME NEW t, NEW sub, Shape(t, sub), NEW z \in Nodes(t), NEW e \in Sides,
         Kid(t, z, e) = Null, NEW x, x = Kid(t, z, Other(e)),
         NEW u, u = Without(Transplant(t, z, x), z)
  PROVE  Dropped(t, u, z, x)
<1> DEFINE w == Transplant(t, z, x)
<1>1. /\ Typed(t) /\ Null \notin Nodes(t) /\ x \in Links(t) /\ x # z /\ Par(t, z) # z
      /\ \A m \in Nodes(t) : Par(t, m) = z => m = x
  BY OnlyChild
<1>2. Hangs(t, z) BY ShapeHangs
<1>3. /\ Typed(w) /\ SameHues(t, w) /\ SameVals(t, w)
      /\ w.root = IF Par(t, z) = Null THEN x ELSE t.root
      /\ \A m \in Nodes(t), s \in Sides :
              Kid(w, m, s) = IF Kid(t, m, s) = z THEN x ELSE Kid(t, m, s)
      /\ \A m \in Nodes(t) : Par(w, m) = IF m = x THEN Par(t, z) ELSE Par(t, m)
  BY <1>1, <1>2, TransplantIs
<1> HIDE DEF w
<1>4. Nodes(w) = Nodes(t) BY <1>3 DEF SameVals
<1>5. w.root # z
  <2>1. t.root = z => Par(t, z) = Null BY RootIs
  <2> QED BY <1>1, <1>3, <2>1
<1>6. \A m \in Nodes(w) \ {z} : /\ Par(w, m) # z
                                /\ \A s \in Sides : Kid(w, m, s) # z
  BY <1>1, <1>3, <1>4
<1>7. u = Without(w, z) /\ z \in Nodes(w) BY <1>4 DEF w
<1>8. /\ Typed(u) /\ u.root = w.root /\ Nodes(u) = Nodes(w) \ {z}
      /\ \A m \in Nodes(u) : /\ Par(u, m) = Par(w, m) /\ Hue(u, m) = Hue(w, m)
                             /\ Val(u, m) = Val(w, m)
                             /\ \A s \in Sides : Kid(u, m, s) = Kid(w, m, s)
  BY <1>3, <1>5, <1>6, <1>7, WithoutIs
<1> QED BY <1>3, <1>4, <1>8 DEF Dropped, SameHues, SameVals

Less(t, sub, z) == [n \in Nodes(t) \ {z} |-> sub[n] \ {z}]

LEMMA DroppedShape ==
  ASSUME NEW t, NEW sub, Shape(t, sub), NEW z \in Nodes(t), NEW e \in Sides,
         Kid(t, z, e) = Null, NEW x, x = Kid(t, z, Other(e)),
         NEW u, Dropped(t, u, z, x)
  PROVE  Shape(u, Less(t, sub, z))
<1> DEFINE lo == Less(t, sub, z)
<1>1. /\ Typed(t) /\ Null \notin Nodes(t) /\ x \in Links(t) /\ x # z /\ Par(t, z) # z
      /\ x # Null => x \in Nodes(t) /\ Par(t, x) = z
      /\ \A j \in Nodes(t) \ {z} : j \in sub[z] <=> x # Null /\ j \in sub[x]
      /\ \A n \in Nodes(t), s \in Sides : Kid(t, n, s) = z => n = Par(t, z)
      /\ \A n \in Nodes(t), s \in Sides :
              Kid(t, n, s) # Null => Kid(t, n, s) \in Nodes(t) /\ Par(t, Kid(t, n, s)) = n
  BY OnlyChild
<1>2. /\ Typed(u) /\ Nodes(u) = Nodes(t) \ {z}
      /\ u.root = IF Par(t, z) = Null THEN x ELSE t.root
      /\ \A m \in Nodes(u), s \in Sides :
           Kid(u, m, s) = IF Kid(t, m, s) = z THEN x ELSE Kid(t, m, s)
      /\ \A m \in Nodes(u) : Par(u, m) = IF m = x THEN Par(t, z) ELSE Par(t, m)
  BY DEF Dropped
<1>3. \A n \in Nodes(t) : sub[n] \subseteq Nodes(t) BY SubIs
<1>4. /\ lo \in [Nodes(u) -> SUBSET Nodes(u)]
      /\ \A n \in Nodes(u) : lo[n] = sub[n] \ {z}
  BY <1>2, <1>3 DEF Less
<1> HIDE DEF lo
<1>5. ASSUME NEW n \in Nodes(u), NEW s \in Sides, NEW j \in Nodes(u)
      PROVE  Below(u, lo, n, s, j) <=> Below(t, sub, n, s, j)
  <2>1. CASE Kid(t, n, s) = z
    <3>1. Kid(u, n, s) = x BY <1>2, <2>1
    <3>2. x # Null => lo[x] = sub[x] \ {z} BY <1>1, <1>2, <1>4
    <3>3. j \in sub[z] <=> x # Null /\ j \in sub[x] BY <1>1, <1>2
    <3> QED BY <1>1, <1>2, <2>1, <3>1, <3>2, <3>3 DEF Below
  <2>2. CASE Kid(t, n, s) # z
    <3>1. Kid(u, n, s) = Kid(t, n, s) BY <1>2, <2>2
    <3>2. Kid(t, n, s) # Null => lo[Kid(t, n, s)] = sub[Kid(t, n, s)] \ {z}
      BY <1>1, <1>2, <1>4, <2>2
    <3> QED BY <1>2, <3>1, <3>2 DEF Below
  <2> QED BY <2>1, <2>2
<1>6. Linked(u)
  <2> SUFFICES ASSUME NEW n \in Nodes(u), NEW s \in Sides, Kid(u, n, s) # Null
               PROVE  Par(u, Kid(u, n, s)) = n
    BY DEF Linked
  <2>1. n \in Nodes(t) /\ n # z BY <1>2
  <2>2. CASE Kid(t, n, s) = z
    <3>1. Kid(u, n, s) = x /\ n = Par(t, z) BY <1>1, <1>2, <2>1, <2>2
    <3>2. x \in Nodes(u) BY <1>1, <1>2, <3>1
    <3> QED BY <1>2, <3>1, <3>2
  <2>3. CASE Kid(t, n, s) # z
    <3>1. Kid(u, n, s) = Kid(t, n, s) BY <1>2, <2>3
    <3>2. Kid(t, n, s) \in Nodes(t) /\ Par(t, Kid(t, n, s)) = n BY <1>1, <2>1, <3>1
    <3>3. Kid(t, n, s) # x BY <1>1, <2>1, <3>1, <3>2
    <3>4. Kid(t, n, s) \in Nodes(u) BY <1>2, <2>3, <3>2
    <3> QED BY <1>2, <3>1, <3>2, <3>3, <3>4
  <2> QED BY <2>2, <2>3
<1>7. Rooted(u, lo)
  <2>1. CASE Par(t, z) = Null
    <3>1. t.root = z /\ sub[z] = Nodes(t) /\ u.root = x BY <1>2, <2>1, RootIs
    <3>2. CASE x = Null
      <4>1. Nodes(u) = {} BY <1>1, <1>2, <3>1, <3>2
      <4> QED BY <3>1, <3>2, <4>1 DEF Rooted
    <3>3. CASE x # Null
      <4>1. x \in Nodes(u) /\ Par(u, x) = Null BY <1>1, <1>2, <2>1, <3>3
      <4>2. sub[x] \ {z} = Nodes(u) BY <1>1, <1>2, <1>3, <3>1, <3>3
      <4> QED BY <1>4, <3>1, <3>3, <4>1, <4>2 DEF Rooted
    <3> QED BY <3>2, <3>3
  <2>2. CASE Par(t, z) # Null
    <3>1. /\ t.root # z /\ t.root \in Nodes(t) /\ sub[t.root] = Nodes(t) /\ t.root # Null
          /\ Par(t, t.root) = Null
      BY <2>2, RootIs
    <3>2. t.root # x BY <1>1, <3>1
    <3>3. u.root = t.root /\ t.root \in Nodes(u) BY <1>2, <2>2, <3>1
    <3> QED BY <1>2, <1>4, <3>1, <3>2, <3>3 DEF Rooted
  <2> QED BY <2>1, <2>2
<1>8. Split(u, lo)
  <2> SUFFICES ASSUME NEW n \in Nodes(u), NEW j \in Nodes(u)
               PROVE  j \in lo[n] <=> j = n \/ \E s \in Sides : Below(u, lo, n, s, j)
    BY DEF Split
  <2>1. j \in sub[n] <=> j = n \/ \E s \in Sides : Below(t, sub, n, s, j)
    BY <1>2 DEF Shape, Split
  <2> QED BY <1>2, <1>4, <1>5, <2>1
<1>9. Ordered(u, lo)
  <2> SUFFICES ASSUME NEW n \in Nodes(u), NEW j \in Nodes(u), NEW s \in Sides,
                      Below(u, lo, n, s, j)
               PROVE  Before(s, j, n)
    BY DEF Ordered
  <2>1. Below(t, sub, n, s, j) /\ n \in Nodes(t) /\ j \in Nodes(t) BY <1>2, <1>5
  <2> QED BY <2>1 DEF Shape, Ordered
<1>10. Typed(u) /\ lo \in [Nodes(u) -> SUBSET Nodes(u)] BY <1>2, <1>4
<1>11. Shape(u, lo) BY <1>6, <1>7, <1>8, <1>9, <1>10 DEF Shape
<1> QED BY <1>11 DEF lo

(* Without a red node the tree is balanced; without a black one it lacks    *)
(* one in its place.                                                        *)
LEMMA DroppedHeight ==
  ASSUME NEW t, NEW sub, NEW bh, Balanced(t, sub, bh), NEW z \in Nodes(t), NEW e \in Sides,
         Kid(t, z, e) = Null, NEW x, x = Kid(t, z, Other(e)),
         NEW u, Dropped(t, u, z, x)
  PROVE  \E lev : /\ Red(t, z) => Balanced(u, Less(t, sub, z), lev)
                  /\ ~Red(t, z) => \E qs : Lacking(u, Less(t, sub, z), lev, x, Par(t, z), qs)
<1> DEFINE lo == Less(t, sub, z)
           p == Par(t, z)
           lev == [n \in Nodes(u) |-> bh[n]]
<1>1. /\ Shape(t, sub) /\ Level(t, bh) /\ Quiet(t, Null, Null)
      /\ t.root # Null => Hue(t, t.root) = 0
  BY DEF Balanced
<1>2. /\ Typed(t) /\ Null \notin Nodes(t) /\ x \in Links(t) /\ x # z /\ p # z
      /\ x # Null => x \in Nodes(t) /\ Par(t, x) = z
      /\ \A n \in Nodes(t), s \in Sides : Kid(t, n, s) = z => n = p
      /\ \A n \in Nodes(t), s \in Sides :
              /\ Kid(t, n, s) # n
              /\ Kid(t, n, s) # Null => Kid(t, n, s) \in Nodes(t) /\ Par(t, Kid(t, n, s)) = n
  BY <1>1, OnlyChild
<1>3. /\ Typed(u) /\ Nodes(u) = Nodes(t) \ {z}
      /\ u.root = IF p = Null THEN x ELSE t.root
      /\ \A m \in Nodes(u), s \in Sides :
           Kid(u, m, s) = IF Kid(t, m, s) = z THEN x ELSE Kid(t, m, s)
      /\ \A m \in Nodes(u) : Hue(u, m) = Hue(t, m)
  BY DEF Dropped
<1>4. Shape(u, lo) BY <1>1, DroppedShape
<1>5. bh \in [Nodes(t) -> Nat \ {0}] BY <1>1 DEF Level
<1>6. lev \in [Nodes(u) -> Nat \ {0}] /\ \A n \in Nodes(u) : lev[n] = bh[n]
  BY <1>3, <1>5
<1> HIDE DEF lev, lo
<1>7. \A n \in Nodes(t) : Hue(t, n) \in {0, 1} BY <1>2, TypedParts
<1>8. bh[z] = Height(bh, x) + 1 - Hue(t, z) /\ Height(bh, x) \in Nat \ {0}
  <2>1. Other(e) \in Sides BY SidesAre
  <2> QED BY <1>1, <1>2, <1>5, <2>1 DEF Level, Height
<1>9. Height(lev, x) = Height(bh, x) BY <1>2, <1>3, <1>6 DEF Height
<1>10. ASSUME NEW n \in Nodes(u), NEW s \in Sides
       PROVE  /\ Kid(t, n, s) = z => lev[n] = Height(lev, Kid(u, n, s)) + 2 - Hue(t, z) - Hue(u, n)
              /\ Kid(t, n, s) # z => lev[n] = Height(lev, Kid(u, n, s)) + 1 - Hue(u, n)
  <2>1. n \in Nodes(t) BY <1>3
  <2>2. bh[n] = Height(bh, Kid(t, n, s)) + 1 - Hue(t, n) BY <1>1, <2>1 DEF Level
  <2>3. ASSUME Kid(t, n, s) = z
        PROVE  lev[n] = Height(lev, Kid(u, n, s)) + 2 - Hue(t, z) - Hue(u, n)
    <3>1. Kid(u, n, s) = x /\ Height(bh, Kid(t, n, s)) = bh[z]
      BY <1>2, <1>3, <2>3 DEF Height
    <3>2. Hue(t, n) \in Int /\ Hue(t, z) \in Int /\ Hue(u, n) = Hue(t, n) /\ lev[n] = bh[n]
      BY <1>3, <1>6, <1>7, <2>1
    <3> QED BY <1>8, <1>9, <2>2, <3>1, <3>2
  <2>4. ASSUME Kid(t, n, s) # z
        PROVE  lev[n] = Height(lev, Kid(u, n, s)) + 1 - Hue(u, n)
    <3>1. Kid(u, n, s) = Kid(t, n, s) BY <1>3, <2>4
    <3>2. Height(lev, Kid(t, n, s)) = Height(bh, Kid(t, n, s))
      BY <1>2, <1>3, <1>6, <2>1, <2>4 DEF Height
    <3> QED BY <1>3, <1>6, <2>2, <3>1, <3>2
  <2> QED BY <2>3, <2>4
<1>11. /\ z \in Links(t) /\ z # Null /\ u.root \in Links(u)
       /\ u.root # Null => p = Null \/ Hue(u, u.root) = 0
  <2>1. z \in Links(t) /\ z # Null /\ u.root \in Links(u) BY <1>2, <1>3 DEF Links, Typed
  <2>2. ASSUME u.root # Null, p # Null PROVE Hue(u, u.root) = 0
    <3>1. u.root = t.root /\ u.root \in Nodes(u) BY <1>3, <2>1, <2>2 DEF Links
    <3> QED BY <1>1, <1>3, <2>2, <3>1
  <2> QED BY <2>1, <2>2
<1>12. CASE Red(t, z)
  <2>1. Hue(t, z) = 1 BY <1>2, <1>11, <1>12, Peek
  <2>2. Level(u, lev)
    <3> SUFFICES ASSUME NEW n \in Nodes(u), NEW s \in Sides
                 PROVE  lev[n] = Height(lev, Kid(u, n, s)) + 1 - Hue(u, n)
      BY <1>6 DEF Level
    <3>1. Height(lev, Kid(u, n, s)) \in Int
      <4>1. Kid(u, n, s) \in Links(u) BY <1>3, TypedParts
      <4> QED BY <1>6, <4>1 DEF Height, Links
    <3>2. Hue(u, n) \in Int BY <1>3, <1>7
    <3> QED BY <1>10, <2>1, <3>1, <3>2
  <2>3. Quiet(u, Null, Null)
    <3> SUFFICES ASSUME NEW n \in Nodes(u), NEW s \in Sides, Hue(u, n) = 1, Kid(u, n, s) # Null
                 PROVE  Hue(u, Kid(u, n, s)) = 0
      BY DEF Quiet
    <3>1. n \in Nodes(t) /\ n # Null /\ Hue(t, n) = 1 BY <1>2, <1>3
    <3>2. Kid(t, n, s) # z
      <4>1. Kid(t, n, s) = z => Hue(t, z) = 0 BY <1>1, <1>11, <3>1 DEF Quiet
      <4> QED BY <2>1, <4>1
    <3>3. Kid(u, n, s) = Kid(t, n, s) BY <1>3, <3>2
    <3>4. Hue(t, Kid(t, n, s)) = 0 /\ Kid(t, n, s) \in Nodes(t)
      BY <1>1, <1>2, <3>1, <3>3 DEF Quiet
    <3> QED BY <1>3, <3>2, <3>3, <3>4
  <2>4. p # Null
    <3>1. t.root # z BY <1>1, <1>11, <2>1
    <3> QED BY <1>1, <3>1, RootIs
  <2>5. Balanced(u, lo, lev) BY <1>4, <1>11, <2>2, <2>3, <2>4 DEF Balanced
  <2> QED BY <1>12, <2>5 DEF lo
<1>13. CASE ~Red(t, z)
  <2>1. Hue(t, z) = 0 BY <1>2, <1>11, <1>13, Peek
  <2>2. Quiet(u, x, x)
    <3> SUFFICES ASSUME NEW n \in Nodes(u), NEW s \in Sides, Hue(u, n) = 1, Kid(u, n, s) # Null,
                        Kid(u, n, s) # x
                 PROVE  Hue(u, Kid(u, n, s)) = 0
      BY DEF Quiet
    <3>1. n \in Nodes(t) /\ n # Null /\ Hue(t, n) = 1 BY <1>2, <1>3
    <3>2. Kid(t, n, s) # z /\ Kid(u, n, s) = Kid(t, n, s) BY <1>3
    <3>3. Hue(t, Kid(t, n, s)) = 0 /\ Kid(t, n, s) \in Nodes(t)
      BY <1>1, <1>2, <3>1, <3>2 DEF Quiet
    <3> QED BY <1>3, <3>2, <3>3
  <2>3. x \in Links(u) BY <1>2, <1>3 DEF Links
  <2>4. CASE p = Null
    <3>1. Level(u, lev)
      <4>1. \A n \in Nodes(u), s \in Sides : Kid(t, n, s) # z BY <1>2, <1>3, <2>4
      <4>2. \A n \in Nodes(u), s \in Sides : lev[n] = Height(lev, Kid(u, n, s)) + 1 - Hue(u, n)
        BY <1>10, <4>1
      <4> QED BY <1>6, <4>2 DEF Level
    <3>2. u.root = x BY <1>3, <2>4
    <3>3. Lacking(u, lo, lev, x, p, "left") BY <1>4, <2>2, <2>3, <2>4, <3>1, <3>2 DEF Lacking
    <3> QED BY <1>13, <3>3 DEF lo
  <2>5. CASE p # Null
    <3>1. Hangs(t, z) BY <1>1, ShapeHangs
    <3>2. p \in Nodes(t) /\ \E s \in Sides : Kid(t, p, s) = z /\ Kid(t, p, Other(s)) # z
      BY <2>5, <3>1 DEF Hangs
    <3>3. PICK qs \in Sides : Kid(t, p, qs) = z /\ Kid(t, p, Other(qs)) # z BY <3>2
    <3>4. p \in Nodes(u) /\ Kid(u, p, qs) = x BY <1>2, <1>3, <3>2, <3>3
    <3>5. \A n \in Nodes(u), s \in Sides : Kid(t, n, s) = z <=> n = p /\ s = qs
      BY <1>2, <1>3, <3>3, SidesAre
    <3>6. LevelBut(u, lev, p, qs)
      <4> SUFFICES ASSUME NEW n \in Nodes(u), NEW s \in Sides
                   PROVE  lev[n] = IF n = p /\ s = qs
                                   THEN Height(lev, Kid(u, n, s)) + 2 - Hue(u, n)
                                   ELSE Height(lev, Kid(u, n, s)) + 1 - Hue(u, n)
        BY <1>6 DEF LevelBut
      <4>1. Height(lev, Kid(u, n, s)) \in Int
        <5>1. Kid(u, n, s) \in Links(u) BY <1>3, TypedParts
        <5> QED BY <1>6, <5>1 DEF Height, Links
      <4>2. Hue(u, n) \in Int BY <1>3, <1>7
      <4> QED BY <1>10, <2>1, <3>5, <4>1, <4>2
    <3>7. u.root # Null /\ Hue(u, u.root) = 1 => u.root = x BY <1>11, <2>5
    <3>8. Lacking(u, lo, lev, x, p, qs)
      BY <1>4, <2>2, <2>3, <3>4, <3>6, <3>7 DEF Lacking
    <3> QED BY <1>13, <3>8 DEF lo
  <2> QED BY <2>4, <2>5
<1> QED BY <1>12, <1>13

-----------------------------------------------------------------------------
(* One node for another, in the same place and of the same colour. *)

As(z, y, n) == IF n = z THEN y ELSE n

Renamed(t, u, z, y) ==
  /\ Typed(u) /\ z \in Nodes(t) /\ y \in Keys \ Nodes(t)
  /\ Nodes(u) = (Nodes(t) \ {z}) \cup {y} /\ u.root = As(z, y, t.root)
  /\ \A m \in Nodes(t), s \in Sides : Kid(u, As(z, y, m), s) = As(z, y, Kid(t, m, s))
  /\ \A m \in Nodes(t) : /\ Par(u, As(z, y, m)) = As(z, y, Par(t, m))
                         /\ Hue(u, As(z, y, m)) = Hue(t, m)

Renaming(t, sub, z, y) ==
  [m \in (Nodes(t) \ {z}) \cup {y} |-> {As(z, y, j) : j \in sub[As(y, z, m)]}]

LEMMA AsIs ==
  ASSUME NEW t, Typed(t), NEW u, NEW z, NEW y, Renamed(t, u, z, y)
  PROVE  /\ Null \notin Nodes(t) /\ Null \notin Nodes(u) /\ As(z, y, Null) = Null
         /\ \A i \in Nodes(t) : /\ As(z, y, i) \in Nodes(u) /\ As(z, y, i) # Null
                                /\ As(y, z, As(z, y, i)) = i
         /\ \A i, j \in Links(t) : As(z, y, i) = As(z, y, j) <=> i = j
         /\ \A m \in Nodes(u) : \E i \in Nodes(t) : m = As(z, y, i)
         /\ \A i \in Links(t) : As(z, y, i) = Null <=> i = Null
<1>1. /\ Typed(u) /\ z \in Nodes(t) /\ y \in Keys \ Nodes(t)
      /\ Nodes(u) = (Nodes(t) \ {z}) \cup {y}
  BY DEF Renamed
<1>2. Null \notin Nodes(t) /\ Null \notin Nodes(u) BY <1>1, NullIsNone
<1>3. z # Null /\ y # Null /\ z # y BY <1>1, <1>2
<1>4. \A m \in Nodes(u) : \E i \in Nodes(t) : m = As(z, y, i)
  <2> SUFFICES ASSUME NEW m \in Nodes(u) PROVE \E i \in Nodes(t) : m = As(z, y, i)
    OBVIOUS
  <2>1. CASE m = y BY <1>1, <2>1 DEF As
  <2>2. CASE m # y BY <1>1, <2>2 DEF As
  <2> QED BY <2>1, <2>2
<1> QED BY <1>1, <1>2, <1>3, <1>4 DEF As, Links

(* A node may get another key that lies where its own lay in the order.     *)
LEMMA RenamedShape ==
  ASSUME NEW t, NEW sub, Shape(t, sub), NEW u, NEW z, NEW y, Renamed(t, u, z, y),
         \A n \in Nodes(t), s \in Sides : Below(t, sub, n, s, z) => Before(s, y, n),
         \A j \in Nodes(t), s \in Sides : Below(t, sub, z, s, j) => Before(s, j, y)
  PROVE  Shape(u, Renaming(t, sub, z, y))
<1> DEFINE A(n) == As(z, y, n)
           new == Renaming(t, sub, z, y)
<1>1. Typed(t) BY DEF Shape
<1>2. /\ Null \notin Nodes(t) /\ Null \notin Nodes(u) /\ A(Null) = Null
      /\ \A i \in Nodes(t) : A(i) \in Nodes(u) /\ A(i) # Null /\ As(y, z, A(i)) = i
      /\ \A i, j \in Links(t) : A(i) = A(j) <=> i = j
      /\ \A m \in Nodes(u) : \E i \in Nodes(t) : m = A(i)
      /\ \A i \in Links(t) : A(i) = Null <=> i = Null
  BY <1>1, AsIs
<1>3. /\ Typed(u) /\ z \in Nodes(t) /\ y \in Keys \ Nodes(t)
      /\ Nodes(u) = (Nodes(t) \ {z}) \cup {y} /\ u.root = A(t.root)
      /\ \A m \in Nodes(t), s \in Sides : Kid(u, A(m), s) = A(Kid(t, m, s))
      /\ \A m \in Nodes(t) : Par(u, A(m)) = A(Par(t, m))
  BY DEF Renamed
<1>4. \A n \in Nodes(t) : sub[n] \subseteq Nodes(t) BY SubIs
<1>5. /\ new \in [Nodes(u) -> SUBSET Nodes(u)]
      /\ \A n \in Nodes(t) : new[A(n)] = {A(j) : j \in sub[n]}
  <2>1. new = [m \in Nodes(u) |-> {A(j) : j \in sub[As(y, z, m)]}] BY <1>3 DEF Renaming
  <2> HIDE DEF new
  <2>2. \A n \in Nodes(t) : new[A(n)] = {A(j) : j \in sub[n]} BY <1>2, <2>1
  <2>3. ASSUME NEW m \in Nodes(u) PROVE new[m] \subseteq Nodes(u)
    <3>1. PICK n \in Nodes(t) : m = A(n) BY <1>2
    <3> HIDE DEF A
    <3>2. new[m] = {A(j) : j \in sub[n]} BY <2>2, <3>1
    <3>3. \A j \in sub[n] : A(j) \in Nodes(u) BY <1>2, <1>4
    <3> QED BY <3>2, <3>3
  <2> QED BY <2>1, <2>2, <2>3
<1>6. \A n, i \in Nodes(t) : A(i) \in new[A(n)] <=> i \in sub[n]
  <2> SUFFICES ASSUME NEW n \in Nodes(t), NEW i \in Nodes(t)
               PROVE  A(i) \in new[A(n)] <=> i \in sub[n]
    OBVIOUS
  <2>1. \A j \in sub[n] : A(j) = A(i) <=> j = i BY <1>2, <1>4 DEF Links
  <2>2. new[A(n)] = {A(j) : j \in sub[n]} BY <1>5
  <2> HIDE DEF A, new
  <2> QED BY <2>1, <2>2
<1> HIDE DEF A, new
<1>7. \A n \in Nodes(t), s \in Sides : Kid(t, n, s) \in Links(t)
  BY <1>1, TypedParts
<1>8. ASSUME NEW n \in Nodes(t), NEW s \in Sides, NEW j \in Nodes(t)
      PROVE  Below(u, new, A(n), s, A(j)) <=> Below(t, sub, n, s, j)
  <2>1. Kid(u, A(n), s) = A(Kid(t, n, s)) BY <1>3
  <2>2. A(Kid(t, n, s)) = Null <=> Kid(t, n, s) = Null BY <1>2, <1>7
  <2>3. Kid(t, n, s) # Null => Kid(t, n, s) \in Nodes(t) BY <1>7 DEF Links
  <2> QED BY <1>6, <2>1, <2>2, <2>3 DEF Below
<1>9. Linked(u)
  <2> SUFFICES ASSUME NEW m \in Nodes(u), NEW s \in Sides, Kid(u, m, s) # Null
               PROVE  Par(u, Kid(u, m, s)) = m
    BY DEF Linked
  <2>1. PICK n \in Nodes(t) : m = A(n) BY <1>2
  <2>2. Kid(u, m, s) = A(Kid(t, n, s)) BY <1>3, <2>1
  <2>3. Kid(t, n, s) # Null BY <1>2, <2>2
  <2>4. Kid(t, n, s) \in Nodes(t) /\ Par(t, Kid(t, n, s)) = n BY <2>3, KidIs
  <2> QED BY <1>3, <2>1, <2>2, <2>4
<1>10. Rooted(u, new)
  <2>1. z # t.root \/ z = t.root OBVIOUS
  <2>2. t.root # Null /\ t.root \in Nodes(t) /\ Par(t, t.root) = Null /\ sub[t.root] = Nodes(t)
    BY <1>3, RootIs
  <2>3. u.root # Null /\ Par(u, u.root) = Null BY <1>2, <1>3, <2>2
  <2>4. new[u.root] = Nodes(u)
    <3>1. new[u.root] \subseteq Nodes(u) BY <1>2, <1>3, <1>5, <2>2
    <3>2. ASSUME NEW m \in Nodes(u) PROVE m \in new[u.root]
      <4>1. PICK n \in Nodes(t) : m = A(n) BY <1>2
      <4> QED BY <1>3, <1>6, <2>2, <4>1
    <3> QED BY <3>1, <3>2
  <2> QED BY <2>3, <2>4 DEF Rooted
<1>11. Split(u, new)
  <2> SUFFICES ASSUME NEW m \in Nodes(u), NEW i \in Nodes(u)
               PROVE  i \in new[m] <=> i = m \/ \E s \in Sides : Below(u, new, m, s, i)
    BY DEF Split
  <2>1. PICK n \in Nodes(t) : m = A(n) BY <1>2
  <2>2. PICK j \in Nodes(t) : i = A(j) BY <1>2
  <2>3. j \in sub[n] <=> j = n \/ \E s \in Sides : Below(t, sub, n, s, j)
    BY DEF Shape, Split
  <2>4. i = m <=> j = n BY <1>2, <2>1, <2>2 DEF Links
  <2> QED BY <1>6, <1>8, <2>1, <2>2, <2>3, <2>4
<1>12. Ordered(u, new)
  <2> SUFFICES ASSUME NEW m \in Nodes(u), NEW i \in Nodes(u), NEW s \in Sides,
                      Below(u, new, m, s, i)
               PROVE  Before(s, i, m)
    BY DEF Ordered
  <2>1. PICK n \in Nodes(t) : m = A(n) BY <1>2
  <2>2. PICK j \in Nodes(t) : i = A(j) BY <1>2
  <2>3. Below(t, sub, n, s, j) BY <1>8, <2>1, <2>2
  <2>4. Before(s, j, n) BY <2>3 DEF Shape, Ordered
  <2>5. j # n
    <3>1. Kid(t, n, s) # Null /\ j \in sub[Kid(t, n, s)] BY <2>3 DEF Below
    <3> QED BY <3>1, KidIs
  <2>6. CASE n = z
    <3>1. m = y /\ i = j BY <2>1, <2>2, <2>5, <2>6 DEF A, As
    <3> QED BY <2>3, <2>6, <3>1
  <2>7. CASE j = z
    <3>1. m = n /\ i = y BY <2>1, <2>2, <2>5, <2>7 DEF A, As
    <3> QED BY <2>3, <2>7, <3>1
  <2>8. CASE n # z /\ j # z
    <3>1. m = n /\ i = j BY <2>1, <2>2, <2>8 DEF A, As
    <3> QED BY <2>4, <3>1
  <2> QED BY <2>6, <2>7, <2>8
<1>13. Typed(u) /\ new \in [Nodes(u) -> SUBSET Nodes(u)] BY <1>3, <1>5
<1>14. Shape(u, new) BY <1>9, <1>10, <1>11, <1>12, <1>13 DEF Shape
<1> QED BY <1>14 DEF new

LEMMA RenamedHeight ==
  ASSUME NEW t, NEW sub, Shape(t, sub), NEW u, NEW z, NEW y, Renamed(t, u, z, y),
         NEW new, Shape(u, new), NEW bh
  PROVE  \E lev : /\ Balanced(t, sub, bh) => Balanced(u, new, lev)
                  /\ \A x, p, qs : Lacking(t, sub, bh, x, p, qs)
                       => Lacking(u, new, lev, As(z, y, x), As(z, y, p), qs)
<1> DEFINE A(n) == As(z, y, n)
           lev == [m \in Nodes(u) |-> bh[As(y, z, m)]]
<1>1. Typed(t) BY DEF Shape
<1>2. /\ Null \notin Nodes(t) /\ Null \notin Nodes(u) /\ A(Null) = Null
      /\ \A i \in Nodes(t) : A(i) \in Nodes(u) /\ A(i) # Null /\ As(y, z, A(i)) = i
      /\ \A i, j \in Links(t) : A(i) = A(j) <=> i = j
      /\ \A m \in Nodes(u) : \E i \in Nodes(t) : m = A(i)
      /\ \A i \in Links(t) : A(i) = Null <=> i = Null
  BY <1>1, AsIs
<1>3. /\ u.root = A(t.root)
      /\ \A m \in Nodes(t), s \in Sides : Kid(u, A(m), s) = A(Kid(t, m, s))
      /\ \A m \in Nodes(t) : Hue(u, A(m)) = Hue(t, m)
  BY DEF Renamed
<1>4. \A n \in Nodes(t) : lev[A(n)] = bh[n] BY <1>2
<1>5. ASSUME bh \in [Nodes(t) -> Nat \ {0}] PROVE lev \in [Nodes(u) -> Nat \ {0}]
  <2> SUFFICES ASSUME NEW m \in Nodes(u) PROVE bh[As(y, z, m)] \in Nat \ {0} OBVIOUS
  <2>1. PICK n \in Nodes(t) : m = A(n) BY <1>2
  <2>2. As(y, z, m) = n BY <1>2, <2>1
  <2> QED BY <1>5, <2>2
<1> HIDE DEF A, lev
<1>6. \A n \in Nodes(t), s \in Sides : Kid(t, n, s) \in Links(t) BY <1>1, TypedParts
<1>7. \A n \in Nodes(t), s \in Sides : Height(lev, Kid(u, A(n), s)) = Height(bh, Kid(t, n, s))
  <2> SUFFICES ASSUME NEW n \in Nodes(t), NEW s \in Sides
               PROVE  Height(lev, A(Kid(t, n, s))) = Height(bh, Kid(t, n, s))
    BY <1>3
  <2>1. Kid(t, n, s) = Null \/ Kid(t, n, s) \in Nodes(t) BY <1>6 DEF Links
  <2> QED BY <1>2, <1>4, <2>1 DEF Height
<1>8. ASSUME Level(t, bh) PROVE Level(u, lev)
  <2> SUFFICES ASSUME NEW m \in Nodes(u), NEW s \in Sides
               PROVE  lev[m] = Height(lev, Kid(u, m, s)) + 1 - Hue(u, m)
    BY <1>5, <1>8 DEF Level
  <2>1. PICK n \in Nodes(t) : m = A(n) BY <1>2
  <2>2. bh[n] = Height(bh, Kid(t, n, s)) + 1 - Hue(t, n) BY <1>8 DEF Level
  <2> QED BY <1>3, <1>4, <1>7, <2>1, <2>2
<1>9. ASSUME NEW p \in Nodes(t), NEW qs \in Sides, LevelBut(t, bh, p, qs)
      PROVE  LevelBut(u, lev, A(p), qs)
  <2> SUFFICES ASSUME NEW m \in Nodes(u), NEW s \in Sides
               PROVE  lev[m] = IF m = A(p) /\ s = qs
                               THEN Height(lev, Kid(u, m, s)) + 2 - Hue(u, m)
                               ELSE Height(lev, Kid(u, m, s)) + 1 - Hue(u, m)
    BY <1>5, <1>9 DEF LevelBut
  <2>1. PICK n \in Nodes(t) : m = A(n) BY <1>2
  <2>2. m = A(p) <=> n = p BY <1>2, <2>1 DEF Links
  <2>3. bh[n] = IF n = p /\ s = qs THEN Height(bh, Kid(t, n, s)) + 2 - Hue(t, n)
                                   ELSE Height(bh, Kid(t, n, s)) + 1 - Hue(t, n)
    BY <1>9 DEF LevelBut
  <2> QED BY <1>3, <1>4, <1>7, <2>1, <2>2, <2>3
<1>10. ASSUME NEW a \in Links(t), Quiet(t, a, a) PROVE Quiet(u, A(a), A(a))
  <2> SUFFICES ASSUME NEW m \in Nodes(u), NEW s \in Sides, m # A(a), Hue(u, m) = 1,
                      Kid(u, m, s) # Null, Kid(u, m, s) # A(a)
               PROVE  Hue(u, Kid(u, m, s)) = 0
    BY DEF Quiet
  <2>1. PICK n \in Nodes(t) : m = A(n) BY <1>2
  <2>2. Kid(u, m, s) = A(Kid(t, n, s)) /\ Hue(t, n) = 1 BY <1>3, <2>1
  <2>3. n # a /\ Kid(t, n, s) # Null /\ Kid(t, n, s) # a BY <1>2, <2>1, <2>2
  <2>4. Kid(t, n, s) \in Nodes(t) BY <1>6, <2>3 DEF Links
  <2>5. Hue(t, Kid(t, n, s)) = 0 BY <1>10, <2>2, <2>3 DEF Quiet
  <2> QED BY <1>3, <2>2, <2>4, <2>5
<1>11. t.root \in Links(t) /\ (t.root # Null => t.root \in Nodes(t) /\ Hue(u, u.root) = Hue(t, t.root))
  <2>1. t.root \in Links(t) BY <1>1, TypedParts
  <2>2. t.root # Null => t.root \in Nodes(t) BY <2>1 DEF Links
  <2> QED BY <1>3, <2>1, <2>2
<1>12. u.root = Null <=> t.root = Null BY <1>2, <1>3, <1>11
<1>13. ASSUME Balanced(t, sub, bh) PROVE Balanced(u, new, lev)
  <2>1. Quiet(u, A(Null), A(Null)) /\ Level(u, lev)
    BY <1>8, <1>10, <1>13 DEF Balanced, Links
  <2> QED BY <1>2, <1>11, <1>12, <1>13, <2>1 DEF Balanced
<1>14. ASSUME NEW x, NEW p, NEW qs, Lacking(t, sub, bh, x, p, qs)
       PROVE  Lacking(u, new, lev, A(x), A(p), qs)
  <2>1. x \in Links(t) /\ Quiet(u, A(x), A(x)) BY <1>10, <1>14 DEF Lacking
  <2>2. A(x) \in Links(u) BY <1>2, <2>1 DEF Links
  <2>3. u.root # Null /\ Hue(u, u.root) = 1 => u.root = A(x)
    BY <1>3, <1>11, <1>12, <1>14 DEF Lacking
  <2>4. CASE p = Null /\ x = t.root /\ Level(t, bh)
    <3>1. A(p) = Null /\ A(x) = u.root /\ Level(u, lev) BY <1>2, <1>3, <1>8, <2>4
    <3> QED BY <2>1, <2>2, <2>3, <3>1 DEF Lacking
  <2>5. CASE p \in Nodes(t) /\ qs \in Sides /\ Kid(t, p, qs) = x /\ LevelBut(t, bh, p, qs)
    <3>1. A(p) \in Nodes(u) /\ Kid(u, A(p), qs) = A(x) /\ LevelBut(u, lev, A(p), qs)
      BY <1>2, <1>3, <1>9, <2>5
    <3> QED BY <2>1, <2>2, <2>3, <2>5, <3>1 DEF Lacking
  <2> QED BY <1>14, <2>4, <2>5 DEF Lacking
<1> QED BY <1>13, <1>14 DEF A

-----------------------------------------------------------------------------
(* The last node down one side of a subtree is the first of its nodes.      *)

LEMMA OutermostIs ==
  ASSUME NEW t, NEW sub, Shape(t, sub), NEW n \in Nodes(t), NEW s \in Sides,
         NEW y, y = Outermost(t, n, s)
  PROVE  /\ y \in Nodes(t) /\ y \in sub[n] /\ Kid(t, y, s) = Null
         /\ \A j \in sub[n] : j = y \/ Before(Other(s), j, y)
<1> DEFINE next == [x \in Nodes(t) |-> Kid(t, x, s)]
           rank == [x \in Nodes(t) |-> Weight(sub, x)]
           M == Cardinality(Nodes(t))
           Q(m, e) == /\ e \in sub[m] /\ Kid(t, e, s) = Null
                      /\ \A j \in sub[m] : j = e \/ Before(Other(s), j, e)
           T == {m \in Nodes(t) : Q(m, Last(next, m))}
<1>1. y = Last(next, n) BY DEF Outermost, Nodes, Kid
<1>2. DOMAIN next = Nodes(t) /\ \A m \in Nodes(t) : next[m] = Kid(t, m, s)
  OBVIOUS
<1>3. next = [x \in Nodes(t) |-> next[x]] OBVIOUS
<1> HIDE DEF next
<1>4. \A m \in Nodes(t) : next[m] \in Nodes(t) \cup {Null}
  BY <1>2, TypedParts DEF Shape, Links
<1>5. Walk(next, rank, M)
  <2>1. Null \notin Nodes(t) /\ M \in Nat
    <3>1. IsFiniteSet(Nodes(t)) BY DEF Shape, Typed
    <3> QED BY <3>1, NullIsNone, FS_CardinalityType DEF Shape
  <2>2. \A m \in Nodes(t) : rank[m] = Weight(sub, m) /\ rank[m] \in Nat /\ rank[m] <= M BY SubIs
  <2>3. \A m \in Nodes(t) : next[m] # Null => rank[next[m]] < rank[m]
    BY <1>2, <1>4, <2>2, KidIs
  <2> HIDE DEF M
  <2> QED BY <1>2, <1>3, <1>4, <2>1, <2>2, <2>3 DEF Walk
<1>6. \A m \in Nodes(t) : Last(next, m) = IF next[m] = Null THEN m ELSE Last(next, next[m])
  BY <1>2, <1>5, LastIs
<1>7. ASSUME NEW m \in Nodes(t), next[m] = Null \/ next[m] \in T PROVE m \in T
  <2>1. Nodes(t) \subseteq Nat /\ sub[m] \subseteq Nodes(t) /\ Other(s) \in Sides
        /\ Other(Other(s)) = s /\ \A r \in Sides : r = s \/ r = Other(s)
    BY NodesAreNat, SubIs, SidesAre DEF Shape
  <2>2. ASSUME NEW j \in sub[m], j # m, ~Below(t, sub, m, s, j) PROVE Before(Other(s), j, m)
    <3>1. Below(t, sub, m, Other(s), j) BY <2>1, <2>2 DEF Shape, Split
    <3> QED BY <2>1, <3>1 DEF Shape, Ordered
  <2>3. CASE next[m] = Null
    <3>1. Last(next, m) = m /\ m \in sub[m] /\ Kid(t, m, s) = Null BY <1>2, <1>6, <2>3, SubIs
    <3>2. \A j \in sub[m] : j = m \/ Before(Other(s), j, m) BY <2>2, <3>1 DEF Below
    <3> QED BY <3>1, <3>2
  <2>4. CASE next[m] # Null
    <3> DEFINE c == Kid(t, m, s)  e == Last(next, c)
    <3>1. c # Null /\ c \in T /\ Last(next, m) = e /\ c \in Nodes(t) BY <1>2, <1>6, <1>7, <2>4
    <3>2. Q(c, e) BY <3>1
    <3> HIDE DEF e
    <3>3. sub[c] \subseteq sub[m] /\ Before(s, e, m) /\ e \in Nodes(t) BY <3>1, <3>2, KidIs
    <3>4. Before(Other(s), m, e) BY <2>1, <3>3, BeforeIs
    <3>5. ASSUME NEW j \in sub[m] PROVE j = e \/ Before(Other(s), j, e)
      <4>1. CASE j = m BY <3>4, <4>1
      <4>2. CASE j # m /\ Below(t, sub, m, s, j)
        <5>1. j \in sub[c] BY <4>2 DEF Below
        <5> QED BY <3>2, <5>1
      <4>3. CASE j # m /\ ~Below(t, sub, m, s, j)
        <5>1. Before(Other(s), j, m) BY <2>2, <4>3
        <5>2. j \in Nat /\ m \in Nat /\ e \in Nat BY <2>1, <3>3
        <5> QED BY <2>1, <3>4, <5>1, <5>2, BeforeIs
      <4> QED BY <4>1, <4>2, <4>3
    <3>6. Q(m, e) BY <3>2, <3>3, <3>5
    <3> QED BY <3>1, <3>6
  <2> QED BY <2>3, <2>4
<1> HIDE DEF T
<1>8. \A m \in Nodes(t) : m \in T BY <1>2, <1>5, <1>7, AlongWalk
<1>9. Q(n, y) BY <1>1, <1>8 DEF T
<1> QED BY <1>9, SubIs

-----------------------------------------------------------------------------
(* Of a node with two children y, the least on the right, takes the place.  *)

LEMMA HeirIs ==
  ASSUME NEW t, NEW sub, Shape(t, sub), NEW z \in Nodes(t), NEW l, l = Kid(t, z, "left"),
         NEW r, r = Kid(t, z, "right"), l # Null, r # Null,
         NEW y, y = Outermost(t, r, "left"), NEW x, x = Kid(t, y, "right")
  PROVE  /\ Typed(t) /\ Null \notin Nodes(t) /\ l \in Nodes(t) /\ r \in Nodes(t) /\ l # r
         /\ Par(t, l) = z /\ Par(t, r) = z /\ l # z /\ r # z
         /\ y \in Nodes(t) /\ y # z /\ y # l /\ Kid(t, y, "left") = Null
         /\ Par(t, y) \in Nodes(t) /\ Par(t, y) # Null /\ (Par(t, y) = z <=> y = r)
         /\ x # y /\ x # z /\ x # l /\ x # r /\ Par(t, z) # z
         /\ x # Null => x \in Nodes(t) /\ Par(t, x) = y
         /\ \A n \in Nodes(t), s \in Sides :
              Kid(t, n, s) # Null => Kid(t, n, s) \in Nodes(t) /\ Par(t, Kid(t, n, s)) = n
         /\ \A n \in Nodes(t) \ {y}, s \in Sides : Below(t, sub, n, s, z) => Before(s, y, n)
         /\ \A j \in Nodes(t) \ {y}, s \in Sides : Below(t, sub, z, s, j) => Before(s, j, y)
<1>1. Typed(t) /\ Null \notin Nodes(t) BY NullIsNone DEF Shape
<1>2. /\ l \in Nodes(t) /\ Par(t, l) = z /\ l # z /\ l \in sub[l]
      /\ r \in Nodes(t) /\ Par(t, r) = z /\ r # z /\ r \in sub[r]
      /\ \A j \in sub[l] : j \in Nodes(t) /\ Before("left", j, z)
      /\ \A j \in sub[r] : j \in Nodes(t) /\ Before("right", j, z)
      /\ sub[r] \subseteq sub[z] /\ z \notin sub[r]
  BY SidesAre, KidIs, SubIs
<1>3. Nodes(t) \subseteq Nat BY <1>1, NodesAreNat
<1>4. \A j \in sub[l] : j \notin sub[r] BY <1>2, <1>3 DEF Before
<1>5. l # r BY <1>2, <1>4
<1>6. /\ y \in Nodes(t) /\ y \in sub[r] /\ Kid(t, y, "left") = Null
      /\ \A j \in sub[r] : j = y \/ Before("right", j, y)
  <2>1. Other("left") = "right" BY DEF Other
  <2> QED BY <1>2, <2>1, SidesAre, OutermostIs
<1>7. y # z /\ y # l BY <1>2, <1>4, <1>6
<1>8. \A n \in Nodes(t), s \in Sides :
        Kid(t, n, s) # Null => Kid(t, n, s) \in Nodes(t) /\ Par(t, Kid(t, n, s)) = n
  BY KidIs
<1>9. x # Null => x \in Nodes(t) /\ Par(t, x) = y BY <1>6, <1>8, SidesAre
<1>10. Par(t, y) \in sub[z] /\ Par(t, y) \in Nodes(t) BY <1>2, <1>6, <1>7, ParentIs
<1>11. Par(t, y) = z <=> y = r
  <2>1. ASSUME y # r PROVE Par(t, y) # z
    <3>1. Par(t, y) \in sub[r] BY <1>2, <1>6, <2>1, ParentIs
    <3> QED BY <1>2, <3>1
  <2> QED BY <1>2, <2>1
<1>12. x # z /\ x # y /\ x # l /\ x # r
  <2>1. x # y
    <3>1. x # Null => x # y BY <1>6, SidesAre, KidIs
    <3> QED BY <1>1, <1>6, <3>1
  <2>2. x # l /\ x # r BY <1>1, <1>2, <1>7, <1>9
  <2>3. x # z
    <3>1. x # Null => x \in sub[y] BY <1>6, <1>9, SidesAre, KidIs, SubIs
    <3>2. sub[y] \subseteq sub[r] BY <1>2, <1>6, Nested
    <3> QED BY <1>1, <1>2, <3>1, <3>2
  <2> QED BY <2>1, <2>2, <2>3
<1>13. Par(t, z) # z
  <2>1. z # t.root => \E s \in Sides : Kid(t, Par(t, z), s) = z /\ Par(t, z) \in Nodes(t)
    BY RootIs
  <2>2. z = t.root => Par(t, z) = Null BY RootIs
  <2> QED BY <1>1, <2>1, <2>2, KidIs
<1>14. ASSUME NEW n \in Nodes(t) \ {y}, NEW s \in Sides, Below(t, sub, n, s, z)
       PROVE  Before(s, y, n)
  <2>1. Kid(t, n, s) # Null /\ z \in sub[Kid(t, n, s)] BY <1>14 DEF Below
  <2>2. Kid(t, n, s) \in Nodes(t) BY <1>8, <2>1
  <2>3. sub[z] \subseteq sub[Kid(t, n, s)] BY <2>1, <2>2, Nested
  <2>4. y \in sub[Kid(t, n, s)] BY <1>2, <1>6, <2>3
  <2> QED BY <2>1, <2>4, KidIs
<1>15. ASSUME NEW j \in Nodes(t) \ {y}, NEW s \in Sides, Below(t, sub, z, s, j)
       PROVE  Before(s, j, y)
  <2>1. CASE s = "left"
    <3>1. j \in sub[l] BY <1>15, <2>1 DEF Below
    <3>2. Before("left", j, z) /\ Before("right", y, z) BY <1>2, <1>6, <3>1
    <3>3. j \in Nat /\ y \in Nat /\ z \in Nat BY <1>3, <1>6
    <3> QED BY <2>1, <3>2, <3>3 DEF Before
  <2>2. CASE s = "right"
    <3>1. j \in sub[r] BY <1>15, <2>2 DEF Below
    <3> QED BY <1>6, <2>2, <3>1
  <2> QED BY <2>1, <2>2 DEF Sides
<1>16. Par(t, y) # Null BY <1>1, <1>10
<1> QED BY <1>1, <1>2, <1>5, <1>6, <1>7, <1>8, <1>9, <1>10, <1>11, <1>12, <1>13, <1>14, <1>15,
           <1>16

(* In o the heir y has the right child c it is to have; d is t without y.   *)
Cleared(t, d, o, z, y, c) ==
  /\ Typed(o) /\ SameHues(t, o) /\ SameVals(t, o) /\ o.root = t.root /\ Par(o, z) = Par(t, z)
  /\ Kid(o, y, "right") = c
  /\ \A s \in Sides : Kid(o, z, s) # z /\ Kid(o, y, s) # z
  /\ \A m \in Nodes(t) \ {y, z} : /\ Par(o, m) = IF m = c THEN y ELSE Par(d, m)
                                  /\ \A s \in Sides : Kid(o, m, s) = Kid(d, m, s)

(* The heir taken out: the links are those of t without y, save its own.    *)
LEMMA ClearedIs ==
  ASSUME NEW t, NEW sub, Shape(t, sub), NEW z \in Nodes(t), NEW l, l = Kid(t, z, "left"),
         NEW r, r = Kid(t, z, "right"), l # Null, r # Null,
         NEW y, y = Outermost(t, r, "left"), NEW x, x = Kid(t, y, "right"),
         NEW d, Dropped(t, d, y, x),
         NEW o, o = IF Par(t, y) = z THEN WithParent(t, x, y)
                    ELSE LET moved == Transplant(t, y, x)
                             below == moved.node[z].right
                         IN WithParent(WithChild(moved, y, "right", below), below, y)
  PROVE  Cleared(t, d, o, z, y, Kid(d, z, "right"))
<1> DEFINE c == Kid(d, z, "right")
<1>1. /\ Typed(t) /\ Null \notin Nodes(t) /\ l \in Nodes(t) /\ r \in Nodes(t) /\ l # r
      /\ Par(t, l) = z /\ Par(t, r) = z /\ l # z /\ r # z
      /\ y \in Nodes(t) /\ y # z /\ y # l /\ Kid(t, y, "left") = Null
      /\ Par(t, y) \in Nodes(t) /\ Par(t, y) # Null /\ (Par(t, y) = z <=> y = r)
      /\ x # y /\ x # z /\ x # l /\ x # r /\ Par(t, z) # z
      /\ x # Null => x \in Nodes(t) /\ Par(t, x) = y
      /\ \A n \in Nodes(t), s \in Sides :
              Kid(t, n, s) # Null => Kid(t, n, s) \in Nodes(t) /\ Par(t, Kid(t, n, s)) = n
  BY HeirIs
<1>2. /\ Nodes(d) = Nodes(t) \ {y}
      /\ \A m \in Nodes(d), s \in Sides :
           Kid(d, m, s) = IF Kid(t, m, s) = y THEN x ELSE Kid(t, m, s)
      /\ \A m \in Nodes(d) : Par(d, m) = IF m = x THEN Par(t, y) ELSE Par(t, m)
  BY DEF Dropped
<1>3. "left" \in Sides /\ "right" \in Sides /\ \A s \in Sides : s = "left" \/ s = "right"
  BY DEF Sides
<1>4. c = IF r = y THEN x ELSE r BY <1>1, <1>2, <1>3
<1> HIDE DEF c
<1>5. \A n \in Nodes(t), s \in Sides : n = y \/ n = z => Kid(t, n, s) # z
  BY <1>1, <1>3
<1>6. x \in Links(t) /\ y \in Links(t) /\ r \in Links(t) BY <1>1 DEF Links
<1>7. CASE Par(t, y) = z
  <2>1. o = WithParent(t, x, y) BY <1>7
  <2>2. /\ Typed(o) /\ o.root = t.root /\ SameKids(t, o) /\ SameHues(t, o) /\ SameVals(t, o)
        /\ \A m \in Nodes(t) : Par(o, m) = IF m = x THEN y ELSE Par(t, m)
    BY <1>1, <1>6, <2>1, ParentSet
  <2>3. /\ Kid(o, y, "right") = c /\ Par(o, z) = Par(t, z)
        /\ \A s \in Sides : Kid(o, z, s) # z /\ Kid(o, y, s) # z
    BY <1>1, <1>3, <1>4, <1>5, <1>7, <2>2 DEF SameKids
  <2>4. ASSUME NEW m \in Nodes(t) \ {y, z}
        PROVE  /\ Par(o, m) = IF m = c THEN y ELSE Par(d, m)
               /\ \A s \in Sides : Kid(o, m, s) = Kid(d, m, s)
    <3>1. \A s \in Sides : Kid(t, m, s) # y BY <1>1, <1>7
    <3>2. m \in Nodes(d) /\ c = x BY <1>1, <1>2, <1>4, <1>7
    <3> QED BY <1>2, <2>2, <3>1, <3>2 DEF SameKids
  <2> QED BY <2>2, <2>3, <2>4 DEF Cleared, c
<1>8. CASE Par(t, y) # z
  <2> DEFINE moved == Transplant(t, y, x)
             below == moved.node[z].right
             lent == WithChild(moved, y, "right", below)
  <2>1. o = WithParent(lent, below, y) BY <1>8
  <2>2. Hangs(t, y) BY <1>1, ShapeHangs
  <2>3. /\ Typed(moved) /\ SameHues(t, moved) /\ SameVals(t, moved)
        /\ moved.root = t.root
        /\ \A m \in Nodes(t), s \in Sides :
              Kid(moved, m, s) = IF Kid(t, m, s) = y THEN x ELSE Kid(t, m, s)
        /\ \A m \in Nodes(t) : Par(moved, m) = IF m = x THEN Par(t, y) ELSE Par(t, m)
    BY <1>1, <1>6, <2>2, TransplantIs
  <2>4. below = r
    <3>1. below = Kid(moved, z, "right") BY DEF Kid
    <3> QED BY <1>1, <1>3, <1>8, <2>3, <3>1
  <2>5. Nodes(moved) = Nodes(t) /\ Links(moved) = Links(t) BY <2>3 DEF SameVals, Links
  <2> HIDE DEF moved, below
  <2>6. /\ Typed(lent) /\ lent.root = moved.root
        /\ SamePars(moved, lent) /\ SameHues(moved, lent) /\ SameVals(moved, lent)
        /\ \A m \in Nodes(t), s \in Sides :
              Kid(lent, m, s) = IF m = y /\ s = "right" THEN r ELSE Kid(moved, m, s)
    BY <1>1, <1>3, <1>6, <2>3, <2>4, <2>5, ChildSet
  <2>7. Nodes(lent) = Nodes(t) /\ Links(lent) = Links(t) BY <2>5, <2>6 DEF SameVals, Links
  <2> HIDE DEF lent
  <2>8. /\ Typed(o) /\ o.root = lent.root
        /\ SameKids(lent, o) /\ SameHues(lent, o) /\ SameVals(lent, o)
        /\ \A m \in Nodes(t) : Par(o, m) = IF m = r THEN y ELSE Par(lent, m)
    BY <1>6, <2>1, <2>4, <2>6, <2>7, ParentSet
  <2>9. /\ o.root = t.root /\ SameHues(t, o) /\ SameVals(t, o)
        /\ \A m \in Nodes(t), s \in Sides :
              Kid(o, m, s) = IF m = y /\ s = "right" THEN r
                             ELSE IF Kid(t, m, s) = y THEN x ELSE Kid(t, m, s)
        /\ \A m \in Nodes(t) : Par(o, m) = IF m = r THEN y
                                           ELSE IF m = x THEN Par(t, y) ELSE Par(t, m)
    BY <2>3, <2>5, <2>6, <2>7, <2>8 DEF SameKids, SamePars, SameHues, SameVals
  <2>10. /\ Kid(o, y, "right") = c /\ Par(o, z) = Par(t, z)
         /\ \A s \in Sides : Kid(o, z, s) # z /\ Kid(o, y, s) # z
    BY <1>1, <1>3, <1>4, <1>5, <1>8, <2>9
  <2>11. ASSUME NEW m \in Nodes(t) \ {y, z}
        PROVE  /\ Par(o, m) = IF m = c THEN y ELSE Par(d, m)
               /\ \A s \in Sides : Kid(o, m, s) = Kid(d, m, s)
    <3>1. m \in Nodes(d) /\ c = r BY <1>1, <1>2, <1>4, <1>8
    <3> QED BY <1>2, <2>9, <3>1
  <2> QED BY <2>8, <2>9, <2>10, <2>11 DEF Cleared, c
<1> QED BY <1>7, <1>8

(* The heir in the place of z: the tree without y, z renamed to y.          *)
LEMMA MovedIs ==
  ASSUME NEW t, NEW sub, Shape(t, sub), NEW z \in Nodes(t), NEW l, l = Kid(t, z, "left"),
         NEW r, r = Kid(t, z, "right"), l # Null, r # Null,
         NEW y, y = Outermost(t, r, "left"), NEW x, x = Kid(t, y, "right"),
         NEW d, Dropped(t, d, y, x), NEW lo, Shape(d, lo),
         NEW o, Cleared(t, d, o, z, y, Kid(d, z, "right")),
         NEW hue, hue = Hue(t, z),
         NEW u, u = LET placed == Transplant(o, z, y)
                        full == Painted(WithParent(WithChild(placed, y, "left", l), l, y), y, hue)
                    IN Without(full, z)
  PROVE  /\ Renamed(d, u, z, y) /\ Nodes(u) = Nodes(t) \ {z}
         /\ \A m \in Nodes(u) : Val(u, m) = Val(t, m)
<1> DEFINE c == Kid(d, z, "right")
           placed == Transplant(o, z, y)
           lent == WithChild(placed, y, "left", l)
           owned == WithParent(lent, l, y)
           full == Painted(owned, y, hue)
<1>1. /\ Typed(t) /\ Null \notin Nodes(t) /\ l \in Nodes(t) /\ r \in Nodes(t) /\ l # r
      /\ Par(t, l) = z /\ Par(t, r) = z /\ l # z /\ r # z
      /\ y \in Nodes(t) /\ y # z /\ y # l
      /\ Par(t, y) \in Nodes(t) /\ Par(t, y) # Null /\ (Par(t, y) = z <=> y = r)
      /\ x # y /\ x # z /\ x # l /\ x # r /\ Par(t, z) # z
  BY HeirIs
<1>2. /\ Nodes(d) = Nodes(t) \ {y} /\ d.root = t.root /\ Typed(d) /\ z \in Nodes(d)
      /\ l \in Nodes(d)
      /\ \A m \in Nodes(d), s \in Sides :
           Kid(d, m, s) = IF Kid(t, m, s) = y THEN x ELSE Kid(t, m, s)
      /\ \A m \in Nodes(d) : /\ Par(d, m) = IF m = x THEN Par(t, y) ELSE Par(t, m)
                             /\ Hue(d, m) = Hue(t, m)
  BY <1>1 DEF Dropped
<1>3. "left" \in Sides /\ "right" \in Sides /\ \A s \in Sides : s = "left" \/ s = "right"
  BY DEF Sides
<1>4. Par(d, z) = Par(t, z) /\ Kid(d, z, "left") = l BY <1>1, <1>2, <1>3
<1>5. c # z /\ (c # Null => c \in Nodes(d) /\ Par(d, c) = z)
  <2>1. c # Null => c # z /\ c \in Nodes(d) /\ Par(d, c) = z BY <1>2, <1>3, KidIs
  <2> QED BY <1>1, <2>1
<1>6. \A m \in Nodes(d) : Par(d, m) = z => m = l \/ m = c
  <2> SUFFICES ASSUME NEW m \in Nodes(d), Par(d, m) = z PROVE m = l \/ m = c OBVIOUS
  <2>1. m # d.root BY <1>1, <1>2, RootIs
  <2>2. PICK s \in Sides : Kid(d, z, s) = m BY <2>1, RootIs
  <2> QED BY <1>3, <1>4, <2>2
<1> HIDE DEF c
<1>7. /\ Typed(o) /\ SameHues(t, o) /\ SameVals(t, o) /\ o.root = t.root /\ Par(o, z) = Par(t, z)
      /\ Kid(o, y, "right") = c
      /\ \A s \in Sides : Kid(o, z, s) # z /\ Kid(o, y, s) # z
      /\ \A m \in Nodes(t) \ {y, z} : /\ Par(o, m) = IF m = c THEN y ELSE Par(d, m)
                                      /\ \A s \in Sides : Kid(o, m, s) = Kid(d, m, s)
  BY DEF Cleared, c
<1>8. Nodes(o) = Nodes(t) /\ Links(o) = Links(t) BY <1>7 DEF SameVals, Links
<1>9. Hangs(o, z)
  <2>1. Hangs(d, z) BY <1>2, ShapeHangs
  <2>2. ASSUME NEW m \in Nodes(o), NEW s \in Sides, Kid(o, m, s) = z PROVE m = Par(o, z)
    <3>1. m \in Nodes(t) \ {y, z} /\ m \in Nodes(d) BY <1>2, <1>7, <1>8, <2>2
    <3> QED BY <1>4, <1>7, <2>1, <2>2, <3>1 DEF Hangs
  <2>3. ASSUME Par(o, z) # Null
        PROVE  /\ Par(o, z) \in Nodes(o)
               /\ \E s \in Sides : Kid(o, Par(o, z), s) = z /\ Kid(o, Par(o, z), Other(s)) # z
    <3>1. Par(d, z) \in Nodes(d) /\ Par(d, z) = Par(o, z) BY <1>4, <1>7, <2>1, <2>3 DEF Hangs
    <3>2. PICK s \in Sides : Kid(d, Par(d, z), s) = z /\ Kid(d, Par(d, z), Other(s)) # z
      BY <1>4, <1>7, <2>1, <2>3 DEF Hangs
    <3>3. Par(d, z) \in Nodes(t) \ {y, z} /\ Other(s) \in Sides BY <1>1, <1>2, <1>4, <3>1, SidesAre
    <3>4. Kid(o, Par(d, z), s) = z /\ Kid(o, Par(d, z), Other(s)) # z BY <1>7, <3>2, <3>3
    <3> QED BY <1>8, <3>1, <3>3, <3>4
  <2> QED BY <2>2, <2>3 DEF Hangs
<1>10. y \in Links(o) /\ z \in Nodes(o) /\ l \in Links(o) BY <1>1, <1>8 DEF Links
<1>11. /\ Typed(placed) /\ SameHues(o, placed) /\ SameVals(o, placed)
       /\ placed.root = IF Par(t, z) = Null THEN y ELSE t.root
       /\ \A m \in Nodes(t), s \in Sides :
              Kid(placed, m, s) = IF Kid(o, m, s) = z THEN y ELSE Kid(o, m, s)
       /\ \A m \in Nodes(t) : Par(placed, m) = IF m = y THEN Par(t, z) ELSE Par(o, m)
  BY <1>7, <1>8, <1>9, <1>10, TransplantIs
<1> HIDE DEF placed
<1>12. Nodes(placed) = Nodes(t) /\ Links(placed) = Links(t) BY <1>8, <1>11 DEF SameVals, Links
<1>13. /\ Typed(lent) /\ lent.root = placed.root
       /\ SamePars(placed, lent) /\ SameHues(placed, lent) /\ SameVals(placed, lent)
       /\ \A m \in Nodes(t), s \in Sides :
              Kid(lent, m, s) = IF m = y /\ s = "left" THEN l ELSE Kid(placed, m, s)
  BY <1>1, <1>3, <1>8, <1>10, <1>11, <1>12, ChildSet
<1> HIDE DEF lent
<1>14. Nodes(lent) = Nodes(t) /\ Links(lent) = Links(t) BY <1>12, <1>13 DEF SameVals, Links
<1>15. /\ Typed(owned) /\ owned.root = lent.root
       /\ SameKids(lent, owned) /\ SameHues(lent, owned) /\ SameVals(lent, owned)
       /\ \A m \in Nodes(t) : Par(owned, m) = IF m = l THEN y ELSE Par(lent, m)
  BY <1>8, <1>10, <1>13, <1>14, ParentSet
<1> HIDE DEF owned
<1>16. Nodes(owned) = Nodes(t) /\ Links(owned) = Links(t) BY <1>14, <1>15 DEF SameVals, Links
<1>17. hue \in {0, 1} BY <1>1, TypedParts
<1>18. /\ Typed(full) /\ full.root = owned.root
       /\ SameKids(owned, full) /\ SamePars(owned, full) /\ SameVals(owned, full)
       /\ \A m \in Nodes(t) : Hue(full, m) = IF m = y THEN hue ELSE Hue(owned, m)
  BY <1>8, <1>10, <1>15, <1>16, <1>17, HueSet
<1> HIDE DEF full
<1>19. /\ Nodes(full) = Nodes(t)
       /\ full.root = IF Par(t, z) = Null THEN y ELSE t.root
       /\ \A m \in Nodes(t), s \in Sides :
            Kid(full, m, s) = IF m = y /\ s = "left" THEN l
                              ELSE IF Kid(o, m, s) = z THEN y ELSE Kid(o, m, s)
       /\ \A m \in Nodes(t) :
            /\ Par(full, m) = IF m = l THEN y ELSE IF m = y THEN Par(t, z) ELSE Par(o, m)
            /\ Hue(full, m) = IF m = y THEN hue ELSE Hue(t, m)
            /\ Val(full, m) = Val(t, m)
  BY <1>7, <1>8, <1>11, <1>12, <1>13, <1>14, <1>15, <1>16, <1>18
     DEF SameKids, SamePars, SameHues, SameVals
<1>20. full.root # z
  <2>1. z = t.root => Par(t, z) = Null BY RootIs
  <2> QED BY <1>1, <1>19, <2>1
<1>21. ASSUME NEW m \in Nodes(t) \ {z}
       PROVE  /\ Par(full, m) # z
              /\ \A s \in Sides : Kid(full, m, s) # z
  <2>1. Par(full, m) # z
    <3>1. CASE m = l BY <1>1, <1>19, <3>1
    <3>2. CASE m = y BY <1>1, <1>19, <3>2
    <3>3. CASE m # l /\ m # y
      <4>1. Par(full, m) = IF m = c THEN y ELSE Par(d, m) BY <1>7, <1>19, <3>3
      <4>2. m \in Nodes(d) BY <1>2, <3>3
      <4> QED BY <1>1, <1>6, <3>3, <4>1, <4>2
    <3> QED BY <3>1, <3>2, <3>3
  <2> QED BY <1>1, <1>19, <2>1
<1>22. u = Without(full, z) BY DEF full, owned, lent, placed
<1>23. /\ Typed(u) /\ u.root = full.root /\ Nodes(u) = Nodes(t) \ {z}
       /\ \A m \in Nodes(u) : /\ Par(u, m) = Par(full, m) /\ Hue(u, m) = Hue(full, m)
                              /\ Val(u, m) = Val(full, m)
                              /\ \A s \in Sides : Kid(u, m, s) = Kid(full, m, s)
  BY <1>18, <1>19, <1>20, <1>21, <1>22, WithoutIs
<1> DEFINE A(n) == As(z, y, n)
<1>24. y \in Keys \ Nodes(d) /\ Nodes(u) = (Nodes(d) \ {z}) \cup {y}
  <2>1. y \in Keys BY <1>1, TypedParts
  <2> QED BY <1>1, <1>2, <1>23, <2>1
<1>25. u.root = A(d.root)
  <2>1. z = t.root <=> Par(t, z) = Null BY RootIs
  <2> QED BY <1>2, <1>19, <1>23, <2>1 DEF As
<1>26. ASSUME NEW m \in Nodes(d)
       PROVE  /\ Par(u, A(m)) = A(Par(d, m)) /\ Hue(u, A(m)) = Hue(d, m)
              /\ \A s \in Sides : Kid(u, A(m), s) = A(Kid(d, m, s))
  <2>1. CASE m = z
    <3>1. A(m) = y /\ y \in Nodes(u) BY <1>24, <2>1 DEF As
    <3>2. Par(u, y) = Par(t, z) /\ Hue(u, y) = hue BY <1>1, <1>19, <1>23, <3>1
    <3>3. Kid(u, y, "left") = l /\ Kid(u, y, "right") = c
      BY <1>1, <1>3, <1>5, <1>7, <1>19, <1>23, <3>1
    <3>4. Kid(d, m, "right") = c BY <2>1 DEF c
    <3> QED BY <1>1, <1>2, <1>3, <1>4, <1>5, <2>1, <3>1, <3>2, <3>3, <3>4 DEF As
  <2>2. CASE m # z
    <3>1. A(m) = m /\ m \in Nodes(u) /\ m \in Nodes(t) \ {y, z} BY <1>2, <1>24, <2>2 DEF As
    <3>2. Hue(u, m) = Hue(d, m) BY <1>2, <1>19, <1>23, <3>1
    <3>3. \A s \in Sides : Kid(u, m, s) = A(Kid(d, m, s)) BY <1>7, <1>19, <1>23, <3>1 DEF As
    <3>4. Par(u, m) = A(Par(d, m))
      <4>1. Par(u, m) = IF m = l THEN y ELSE IF m = c THEN y ELSE Par(d, m)
        BY <1>7, <1>19, <1>23, <3>1
      <4>2. m = l => Par(d, m) = z BY <1>1, <1>2
      <4>3. m = c => Par(d, m) = z BY <1>1, <1>5, <3>1
      <4> QED BY <1>6, <4>1, <4>2, <4>3 DEF As
    <3> QED BY <3>1, <3>2, <3>3, <3>4
  <2> QED BY <2>1, <2>2
<1>27. Renamed(d, u, z, y) BY <1>2, <1>23, <1>24, <1>25, <1>26 DEF Renamed
<1> QED BY <1>19, <1>23, <1>27

(* Removal, the whole of it: drop a node with one child, rename its heir.   *)
LEMMA RemovedIs ==
  ASSUME NEW t, NEW sub, NEW bh, Balanced(t, sub, bh), NEW z \in Nodes(t),
         NEW u, u = Removed(t, z)
  PROVE  /\ \E new, lev : Balanced(u, new, lev)
         /\ Nodes(u) = Nodes(t) \ {z} /\ \A m \in Nodes(u) : Val(u, m) = Val(t, m)
<1> DEFINE l == Kid(t, z, "left")  r == Kid(t, z, "right")
<1>1. Shape(t, sub) /\ Typed(t) /\ z \in Links(t) /\ z # Null
  BY NullIsNone DEF Balanced, Shape, Links
<1>2. /\ "left" \in Sides /\ "right" \in Sides
      /\ Other("left") = "right" /\ Other("right") = "left"
  BY DEF Sides, Other
<1>3. ASSUME l = Null \/ r = Null
      PROVE  /\ \E new, lev : Balanced(u, new, lev)
             /\ Nodes(u) = Nodes(t) \ {z} /\ \A m \in Nodes(u) : Val(u, m) = Val(t, m)
  <2> DEFINE x == IF l = Null THEN r ELSE l
             cut == Without(Transplant(t, z, x), z)
  <2>1. u = IF Red(t, z) THEN cut ELSE DeleteFixup(cut, x, Par(t, z))
    BY <1>3 DEF Removed, Kid, Par
  <2> HIDE DEF cut
  <2>2. PICK e \in Sides : Kid(t, z, e) = Null /\ x = Kid(t, z, Other(e))
    <3>1. CASE l = Null BY <1>2, <3>1
    <3>2. CASE l # Null /\ r = Null BY <1>2, <3>2
    <3> QED BY <1>3, <3>1, <3>2
  <2> HIDE DEF x
  <2>3. Dropped(t, cut, z, x) BY <1>1, <2>2, DroppedIs DEF cut
  <2>4. Nodes(cut) = Nodes(t) \ {z} /\ \A m \in Nodes(cut) : Val(cut, m) = Val(t, m)
    BY <2>3 DEF Dropped
  <2>5. PICK lev : /\ Red(t, z) => Balanced(cut, Less(t, sub, z), lev)
                   /\ ~Red(t, z) => \E qs : Lacking(cut, Less(t, sub, z), lev, x, Par(t, z), qs)
    BY <2>2, <2>3, DroppedHeight
  <2>6. CASE Red(t, z) BY <2>1, <2>4, <2>5, <2>6
  <2>7. CASE ~Red(t, z)
    <3>1. PICK qs : Lacking(cut, Less(t, sub, z), lev, x, Par(t, z), qs) BY <2>5, <2>7
    <3>2. u = DeleteFixup(cut, x, Par(t, z)) BY <2>1, <2>7
    <3>3. SameVals(cut, u) /\ \E new, lev2 : Balanced(u, new, lev2) BY <3>1, <3>2, DeleteFixupIs
    <3> QED BY <2>4, <3>3 DEF SameVals
  <2> QED BY <2>6, <2>7
<1>4. ASSUME l # Null, r # Null
      PROVE  /\ \E new, lev : Balanced(u, new, lev)
             /\ Nodes(u) = Nodes(t) \ {z} /\ \A m \in Nodes(u) : Val(u, m) = Val(t, m)
  <2> DEFINE y == Outermost(t, r, "left")
             x == Kid(t, y, "right")
             near == Par(t, y) = z
             o == IF near THEN WithParent(t, x, y)
                  ELSE LET moved == Transplant(t, y, x)
                           below == moved.node[z].right
                       IN WithParent(WithChild(moved, y, "right", below), below, y)
             placed == Transplant(o, z, y)
             full == Painted(WithParent(WithChild(placed, y, "left", l), l, y), y, Hue(t, z))
             w == Without(full, z)
             d == Without(Transplant(t, y, x), y)
  <2>1. NodeColor(t, z) = Hue(t, z) BY <1>1, Peek
  <2>2. u = IF Red(t, y) THEN w ELSE DeleteFixup(w, x, IF near THEN y ELSE Par(t, y))
    BY <1>4, <2>1 DEF Removed, Kid, Par
  <2>3. w = LET at == Transplant(o, z, y)
                all == Painted(WithParent(WithChild(at, y, "left", l), l, y), y, Hue(t, z))
            IN Without(all, z)
    OBVIOUS
  <2> HIDE DEF w, placed, full
  <2>4. o = IF Par(t, y) = z THEN WithParent(t, x, y)
            ELSE LET moved == Transplant(t, y, x)
                     below == moved.node[z].right
                 IN WithParent(WithChild(moved, y, "right", below), below, y)
    OBVIOUS
  <2> HIDE DEF o
  <2>5. d = Without(Transplant(t, y, x), y) OBVIOUS
  <2> HIDE DEF d
  <2>6. y = Outermost(t, r, "left") /\ x = Kid(t, y, "right") OBVIOUS
  <2> HIDE DEF y, x
  <2>7. /\ y \in Nodes(t) /\ y # z /\ Kid(t, y, "left") = Null /\ x # z /\ Par(t, y) # Null
        /\ Null \notin Nodes(t)
        /\ \A n \in Nodes(t) \ {y}, s \in Sides : Below(t, sub, n, s, z) => Before(s, y, n)
        /\ \A j \in Nodes(t) \ {y}, s \in Sides : Below(t, sub, z, s, j) => Before(s, j, y)
    BY <1>1, <1>4, <2>6, HeirIs
  <2>8. Dropped(t, d, y, x) BY <1>1, <1>2, <2>5, <2>6, <2>7, DroppedIs
  <2> DEFINE lo == Less(t, sub, y)
  <2>9. Shape(d, lo) BY <1>1, <1>2, <2>6, <2>7, <2>8, DroppedShape
  <2>10. PICK lev : /\ Red(t, y) => Balanced(d, lo, lev)
                    /\ ~Red(t, y) => \E qs : Lacking(d, lo, lev, x, Par(t, y), qs)
    BY <1>2, <2>6, <2>7, <2>8, DroppedHeight
  <2>11. Cleared(t, d, o, z, y, Kid(d, z, "right"))
    BY <1>1, <1>4, <2>4, <2>6, <2>8, ClearedIs
  <2>12. /\ Renamed(d, w, z, y) /\ Nodes(w) = Nodes(t) \ {z}
         /\ \A m \in Nodes(w) : Val(w, m) = Val(t, m)
    BY <1>1, <1>4, <2>3, <2>6, <2>8, <2>9, <2>11, MovedIs
  <2>13. Nodes(d) = Nodes(t) \ {y} BY <2>8 DEF Dropped
  <2>14. ASSUME NEW n \in Nodes(d), NEW s \in Sides, NEW j \in Nodes(d), Below(d, lo, n, s, j)
         PROVE  Below(t, sub, n, s, j)
    <3>1. Kid(d, n, s) # Null /\ j \in lo[Kid(d, n, s)] BY <2>14 DEF Below
    <3>2. Kid(d, n, s) \in Nodes(d) BY <2>9, <3>1, KidIs
    <3>3. j \in sub[Kid(d, n, s)] BY <2>13, <3>1, <3>2 DEF Less
    <3>4. Kid(d, n, s) = IF Kid(t, n, s) = y THEN x ELSE Kid(t, n, s) BY <2>8 DEF Dropped
    <3>5. CASE Kid(t, n, s) # y BY <3>1, <3>3, <3>4, <3>5 DEF Below
    <3>6. CASE Kid(t, n, s) = y
      <4>1. x # Null /\ j \in sub[x] BY <3>1, <3>3, <3>4, <3>6
      <4>2. j \in sub[y] BY <1>1, <1>2, <2>6, <2>7, <4>1, KidIs
      <4> QED BY <2>7, <3>6, <4>2 DEF Below
    <3> QED BY <3>5, <3>6
  <2>15. z \in Nodes(d) BY <2>7, <2>13
  <2>16. /\ \A n \in Nodes(d), s \in Sides : Below(d, lo, n, s, z) => Before(s, y, n)
         /\ \A j \in Nodes(d), s \in Sides : Below(d, lo, z, s, j) => Before(s, j, y)
    BY <2>7, <2>13, <2>14, <2>15
  <2> DEFINE new == Renaming(d, lo, z, y)
  <2> HIDE DEF lo
  <2>17. Shape(w, new) BY <2>9, <2>12, <2>16, RenamedShape
  <2> HIDE DEF new
  <2>18. PICK lev2 : /\ Balanced(d, lo, lev) => Balanced(w, new, lev2)
                     /\ \A a, p, qs : Lacking(d, lo, lev, a, p, qs)
                          => Lacking(w, new, lev2, As(z, y, a), As(z, y, p), qs)
    BY <2>9, <2>12, <2>17, RenamedHeight
  <2>19. CASE Red(t, y) BY <2>2, <2>10, <2>12, <2>18, <2>19
  <2>20. CASE ~Red(t, y)
    <3> DEFINE p == IF near THEN y ELSE Par(t, y)
    <3>1. PICK qs : Lacking(d, lo, lev, x, Par(t, y), qs) BY <2>10, <2>20
    <3>2. As(z, y, x) = x /\ As(z, y, Par(t, y)) = p BY <2>7 DEF As
    <3>3. Lacking(w, new, lev2, x, p, qs) BY <2>18, <3>1, <3>2
    <3>4. u = DeleteFixup(w, x, p) BY <2>2, <2>20
    <3> HIDE DEF p
    <3>5. SameVals(w, u) /\ \E new3, lev3 : Balanced(u, new3, lev3) BY <3>3, <3>4, DeleteFixupIs
    <3> QED BY <2>12, <3>5 DEF SameVals
  <2> QED BY <2>19, <2>20
<1> QED BY <1>3, <1>4

-----------------------------------------------------------------------------
(* The iterator: b is the least key of S that is not less than k, or Null.  *)

LeastIn(S, k, b) ==
  IF b = Null THEN \A j \in S : ~(j >= k)
  ELSE b \in S /\ b >= k /\ \A j \in S : j >= k => j >= b

LEMMA LeastInIs ==
  ASSUME NEW S, S \subseteq Nat, Null \notin S, NEW k \in Nat
  PROVE  /\ \E b : LeastIn(S, k, b)
         /\ \A a, b : LeastIn(S, k, a) /\ LeastIn(S, k, b) => a = b
<1>1. \E b : LeastIn(S, k, b)
  <2> DEFINE R == {j \in S : j >= k}
  <2>1. CASE R = {}
    <3>1. LeastIn(S, k, Null) BY <2>1 DEF LeastIn
    <3> QED BY <3>1
  <2>2. CASE R # {}
    <3>1. R \subseteq Nat OBVIOUS
    <3>2. PICK b \in R : \A j \in R : ~(j < b) BY <2>2, <3>1, Least
    <3>3. LeastIn(S, k, b) BY <3>2 DEF LeastIn
    <3> QED BY <3>3
  <2> QED BY <2>1, <2>2
<1>2. ASSUME NEW a, NEW b, LeastIn(S, k, a), LeastIn(S, k, b) PROVE a = b
  <2>1. CASE a = Null \/ b = Null BY <1>2, <2>1 DEF LeastIn
  <2>2. CASE a # Null /\ b # Null
    <3>1. a \in S /\ b \in S /\ a >= b /\ b >= a BY <1>2, <2>2 DEF LeastIn
    <3>2. a \in Nat /\ b \in Nat BY <3>1
    <3> QED BY <3>1, <3>2
  <2> QED BY <2>1, <2>2
<1> QED BY <1>1, <1>2

(* Where an iteration begins.                                               *)
LEMMA FirstIs ==
  ASSUME NEW t, NEW sub, Shape(t, sub), NEW b,
         b = IF t.root = Null THEN Null ELSE Outermost(t, t.root, "left")
  PROVE  LeastIn(Nodes(t), 0, b)
<1>1. Nodes(t) \subseteq Nat /\ Null \notin Nodes(t) BY NodesAreNat, NullIsNone DEF Shape
<1>2. CASE t.root = Null BY <1>2 DEF Shape, Rooted, LeastIn
<1>3. CASE t.root # Null
  <2>1. t.root \in Nodes(t) /\ sub[t.root] = Nodes(t)
    BY <1>3, TypedParts DEF Shape, Rooted, Links
  <2>2. Other("left") = "right" BY DEF Other
  <2>3. b \in Nodes(t) /\ \A j \in Nodes(t) : j = b \/ Before("right", j, b)
    BY <1>3, <2>1, <2>2, SidesAre, OutermostIs
  <2>4. \A j \in Nodes(t) : j >= b BY <1>1, <2>3 DEF Before
  <2> QED BY <1>1, <2>3, <2>4 DEF LeastIn
<1> QED BY <1>2, <1>3

(* On the way up: m is n, or n is the last of those that hang under m.      *)
LEMMA ClimbIs ==
  ASSUME NEW t, NEW sub, Shape(t, sub), NEW n \in Nodes(t), Kid(t, n, "right") = Null,
         NEW b, b = Climb(t, n)
  PROVE  LeastIn(Nodes(t), n + 1, b)
<1> DEFINE next == [x \in Nodes(t) |->
                      IF x = Child(t, Parent(t, x), "right") THEN Parent(t, x) ELSE Null]
           N == Cardinality(Nodes(t))
           rank == [x \in Nodes(t) |-> N - Weight(sub, x)]
           End(m) == n \in sub[m] /\ \A j \in sub[m] : j <= n
           T == {m \in Nodes(t) : End(m) => LeastIn(Nodes(t), n + 1, Parent(t, Last(next, m)))}
<1>1. Typed(t) /\ Nodes(t) \subseteq Nat /\ Null \notin Nodes(t)
  BY NodesAreNat, NullIsNone DEF Shape
<1>2. b = Parent(t, Last(next, n)) BY DEF Climb, Nodes
<1>3. "left" \in Sides /\ "right" \in Sides /\ \A s \in Sides : s = "left" \/ s = "right"
  BY DEF Sides
<1>4. DOMAIN next = Nodes(t) /\ next = [x \in Nodes(t) |-> next[x]] OBVIOUS
<1>5. ASSUME NEW m \in Nodes(t)
      PROVE  /\ Parent(t, m) = Par(t, m)
             /\ Par(t, m) = Null \/ Par(t, m) \in Nodes(t)
             /\ next[m] # Null => /\ next[m] = Par(t, m) /\ Par(t, m) \in Nodes(t)
                                  /\ Kid(t, Par(t, m), "right") = m
             /\ next[m] = Null /\ Par(t, m) # Null => Kid(t, Par(t, m), "left") = m
  <2>1. m # Null /\ m \in Links(t) BY <1>1 DEF Links
  <2>2. Parent(t, m) = Par(t, m) BY <1>1, <2>1, Peek
  <2>3. Par(t, m) \in Links(t) BY <1>1, TypedParts
  <2>4. Par(t, m) # Null => Child(t, Par(t, m), "right") = Kid(t, Par(t, m), "right")
    BY <1>1, <1>3, <2>3, Peek
  <2>5. Par(t, m) = Null => Child(t, Par(t, m), "right") = Null BY DEF Child
  <2>6. Par(t, m) # Null => \E s \in Sides : Kid(t, Par(t, m), s) = m
    BY RootIs
  <2>7. next[m] = IF m = Child(t, Par(t, m), "right") THEN Par(t, m) ELSE Null BY <2>2
  <2> HIDE DEF next
  <2> QED BY <1>1, <1>3, <2>1, <2>2, <2>3, <2>4, <2>5, <2>6, <2>7 DEF Links
<1> HIDE DEF next
<1>6. Walk(next, rank, N)
  <2>1. N \in Nat
    <3>1. IsFiniteSet(Nodes(t)) BY <1>1 DEF Typed
    <3> QED BY <3>1, FS_CardinalityType
  <2>2. \A m \in Nodes(t) : /\ Weight(sub, m) \in Nat /\ Weight(sub, m) <= N BY SubIs
  <2> HIDE DEF N
  <2>3. \A m \in Nodes(t) : /\ rank[m] = N - Weight(sub, m) /\ rank[m] \in Nat /\ rank[m] <= N
    BY <2>1, <2>2
  <2>4. rank \in [Nodes(t) -> Nat] BY <2>1, <2>2
  <2> HIDE DEF rank
  <2>5. \A m \in Nodes(t) : next[m] \in Nodes(t) \cup {Null} BY <1>5
  <2>6. ASSUME NEW m \in Nodes(t), next[m] # Null PROVE rank[next[m]] < rank[m]
    <3>1. next[m] \in Nodes(t) /\ Kid(t, next[m], "right") = m BY <1>5, <2>6
    <3>2. Weight(sub, m) < Weight(sub, next[m]) BY <1>1, <1>3, <3>1, KidIs
    <3> QED BY <2>1, <2>2, <2>3, <3>1, <3>2
  <2> QED BY <1>1, <1>4, <2>1, <2>3, <2>4, <2>5, <2>6 DEF Walk
<1>7. \A m \in Nodes(t) : Last(next, m) = IF next[m] = Null THEN m ELSE Last(next, next[m])
  BY <1>4, <1>6, LastIs
<1> HIDE DEF N, rank
<1>8. ASSUME NEW m \in Nodes(t), next[m] = Null \/ next[m] \in T PROVE m \in T
  <2> SUFFICES ASSUME End(m)
               PROVE  LeastIn(Nodes(t), n + 1, Parent(t, Last(next, m)))
    OBVIOUS
  <2> DEFINE p == Par(t, m)
  <2>1. n \in Nat /\ sub[m] \subseteq Nodes(t) /\ n \in sub[m] /\ \A j \in sub[m] : j <= n
    BY <1>1, SubIs
  <2>2. CASE next[m] = Null /\ p = Null
    <3>1. sub[m] = Nodes(t) BY <2>2, RootIs
    <3>2. Parent(t, Last(next, m)) = Null BY <1>5, <1>7, <2>2
    <3>3. \A j \in Nodes(t) : ~(j >= n + 1) BY <1>1, <2>1, <3>1
    <3> QED BY <3>2, <3>3 DEF LeastIn
  <2>3. CASE next[m] = Null /\ p # Null
    <3>1. /\ Parent(t, Last(next, m)) = p /\ p \in Nodes(t) /\ Kid(t, p, "left") = m
      BY <1>5, <1>7, <2>3
    <3>2. \A j \in sub[m] : Before("left", j, p) /\ j \in sub[p]
      BY <1>1, <1>3, <3>1, KidIs
    <3>3. n < p /\ p \in Nat BY <1>1, <2>1, <3>1, <3>2 DEF Before
    <3>4. ASSUME NEW j \in Nodes(t), j >= n + 1 PROVE j >= p
      <4>1. j \notin sub[m] /\ j \in Nat BY <1>1, <2>1, <3>4
      <4>2. CASE j \in sub[p]
        <5>1. j = p \/ \E s \in Sides : Below(t, sub, p, s, j) BY <3>1, <4>2 DEF Shape, Split
        <5>2. ~Below(t, sub, p, "left", j) BY <3>1, <4>1 DEF Below
        <5>3. j = p \/ Below(t, sub, p, "right", j) BY <1>3, <5>1, <5>2
        <5>4. j = p \/ Before("right", j, p) BY <1>3, <3>1, <5>3 DEF Shape, Ordered
        <5> QED BY <3>3, <4>1, <5>4 DEF Before
      <4>3. CASE j \notin sub[p]
        <5>1. PICK s \in Sides : \A i \in sub[p] : Before(s, j, i) BY <3>1, <4>3, Apart
        <5>2. n \in sub[p] /\ p \in sub[p] BY <2>1, <3>1, <3>2, SubIs
        <5>3. Before(s, j, n) /\ Before(s, j, p) BY <5>1, <5>2
        <5> QED BY <1>3, <2>1, <3>3, <3>4, <4>1, <5>3 DEF Before
      <4> QED BY <4>2, <4>3
    <3>5. p >= n + 1 BY <2>1, <3>3
    <3> QED BY <1>1, <3>1, <3>4, <3>5 DEF LeastIn
  <2>4. CASE next[m] # Null
    <3>1. next[m] = p /\ p \in Nodes(t) /\ Kid(t, p, "right") = m BY <1>5, <2>4
    <3>2. \A j \in sub[m] : Before("right", j, p) /\ j \in sub[p]
      BY <1>1, <1>3, <3>1, KidIs
    <3>3. n > p /\ p \in Nat /\ n \in sub[p] BY <1>1, <2>1, <3>1, <3>2 DEF Before
    <3>4. ASSUME NEW j \in sub[p] PROVE j <= n
      <4>1. j \in Nodes(t) /\ j \in Nat BY <1>1, <3>1, SubIs
      <4>2. j = p \/ \E s \in Sides : Below(t, sub, p, s, j) BY <3>1, <3>4, <4>1 DEF Shape, Split
      <4>3. CASE j = p BY <2>1, <3>3, <4>3
      <4>4. CASE Below(t, sub, p, "left", j)
        <5>1. Before("left", j, p) BY <1>3, <3>1, <4>1, <4>4 DEF Shape, Ordered
        <5> QED BY <2>1, <3>3, <4>1, <5>1 DEF Before
      <4>5. CASE Below(t, sub, p, "right", j)
        <5>1. j \in sub[m] BY <3>1, <4>5 DEF Below
        <5> QED BY <2>1, <5>1
      <4> QED BY <1>3, <4>2, <4>3, <4>4, <4>5
    <3>5. p \in T BY <1>8, <2>4, <3>1
    <3>6. LeastIn(Nodes(t), n + 1, Parent(t, Last(next, p))) BY <3>3, <3>4, <3>5
    <3>7. Last(next, m) = Last(next, p) BY <1>7, <2>4, <3>1
    <3> QED BY <3>6, <3>7
  <2> QED BY <2>2, <2>3, <2>4
<1>9. End(n)
  <2>1. n \in Nat /\ n \in sub[n] BY <1>1, SubIs
  <2>2. ASSUME NEW j \in sub[n] PROVE j <= n
    <3>1. j \in Nodes(t) /\ j \in Nat BY <1>1, SubIs
    <3>2. j = n \/ \E s \in Sides : Below(t, sub, n, s, j) BY <3>1 DEF Shape, Split
    <3>3. ~Below(t, sub, n, "right", j) BY DEF Below
    <3>4. j = n \/ Below(t, sub, n, "left", j) BY <1>3, <3>2, <3>3
    <3>5. j = n \/ Before("left", j, n) BY <1>3, <3>1, <3>4 DEF Shape, Ordered
    <3> QED BY <2>1, <3>1, <3>5 DEF Before
  <2> QED BY <2>1, <2>2
<1> HIDE DEF T
<1>10. \A m \in Nodes(t) : m \in T BY <1>4, <1>6, <1>8, AlongWalk
<1> QED BY <1>2, <1>9, <1>10 DEF T

(* Where it goes on, the next key in the order.                             *)
LEMMA SuccessorIs ==
  ASSUME NEW t, NEW sub, Shape(t, sub), NEW n \in Nodes(t), NEW b, b = Successor(t, n)
  PROVE  LeastIn(Nodes(t), n + 1, b)
<1> DEFINE r == Kid(t, n, "right")
<1>1. Nodes(t) \subseteq Nat /\ Null \notin Nodes(t) BY NodesAreNat, NullIsNone DEF Shape
<1>2. "left" \in Sides /\ "right" \in Sides /\ Other("left") = "right"
      /\ \A s \in Sides : s = "left" \/ s = "right"
  BY DEF Sides, Other
<1>3. b = IF r # Null THEN Outermost(t, r, "left") ELSE Climb(t, n) BY DEF Successor, Kid
<1>4. CASE r = Null BY <1>3, <1>4, ClimbIs
<1>5. CASE r # Null
  <2>1. /\ r \in Nodes(t) /\ sub[r] \subseteq sub[n]
        /\ \A j \in sub[r] : j \in Nodes(t) /\ Before("right", j, n)
    BY <1>2, <1>5, KidIs
  <2>2. /\ b \in Nodes(t) /\ b \in sub[r]
        /\ \A j \in sub[r] : j = b \/ Before("right", j, b)
    BY <1>2, <1>3, <1>5, <2>1, OutermostIs
  <2>3. b > n /\ b \in Nat /\ n \in Nat BY <1>1, <2>1, <2>2 DEF Before
  <2>4. ASSUME NEW j \in Nodes(t), j >= n + 1 PROVE j >= b
    <3>1. j \in Nat BY <1>1
    <3>2. CASE j \in sub[r] BY <2>2, <2>3, <3>1, <3>2 DEF Before
    <3>3. CASE j \in sub[n] /\ j \notin sub[r]
      <4>1. j = n \/ \E s \in Sides : Below(t, sub, n, s, j) BY <3>3 DEF Shape, Split
      <4>2. ~Below(t, sub, n, "right", j) BY <3>3 DEF Below
      <4>3. j # n BY <2>3, <2>4
      <4>4. Below(t, sub, n, "left", j) BY <1>2, <4>1, <4>2, <4>3
      <4>5. Before("left", j, n) BY <1>2, <4>4 DEF Shape, Ordered
      <4> QED BY <2>3, <2>4, <3>1, <4>5 DEF Before
    <3>4. CASE j \notin sub[n]
      <4>1. PICK s \in Sides : \A i \in sub[n] : Before(s, j, i) BY <3>4, Apart
      <4>2. Before(s, j, n) /\ Before(s, j, b) BY <2>1, <2>2, <4>1, SubIs
      <4> QED BY <1>2, <2>3, <2>4, <3>1, <4>2 DEF Before
    <3> QED BY <3>2, <3>3, <3>4
  <2>5. b >= n + 1 BY <2>3
  <2> QED BY <1>1, <2>2, <2>4, <2>5 DEF LeastIn
<1> QED BY <1>4, <1>5

(* What the search finds below n, from what it finds below the children.    *)
LEMMA BoundStep ==
  ASSUME NEW t, NEW sub, Shape(t, sub), NEW k \in Nat, NEW n \in Nodes(t), NEW a, NEW b,
         IF Kid(t, n, "left") = Null THEN a = Null ELSE LeastIn(sub[Kid(t, n, "left")], k, a),
         IF Kid(t, n, "right") = Null THEN b = Null ELSE LeastIn(sub[Kid(t, n, "right")], k, b)
  PROVE  LeastIn(sub[n], k, IF k > n THEN b ELSE IF a = Null THEN n ELSE a)
<1> DEFINE l == Kid(t, n, "left")  r == Kid(t, n, "right")
           Low(j) == l # Null /\ j \in sub[l]
           High(j) == r # Null /\ j \in sub[r]
<1>1. Nodes(t) \subseteq Nat /\ Null \notin Nodes(t) /\ n \in Nat
  BY NodesAreNat, NullIsNone DEF Shape
<1>2. "left" \in Sides /\ "right" \in Sides /\ \A s \in Sides : s = "left" \/ s = "right"
  BY DEF Sides
<1>3. sub[n] \subseteq Nat /\ n \in sub[n] /\ n # Null BY <1>1, SubIs
<1>4. ASSUME NEW j \in sub[n] PROVE j = n \/ Low(j) \/ High(j)
  <2>1. j \in Nodes(t) BY SubIs
  <2>2. j = n \/ \E s \in Sides : Below(t, sub, n, s, j) BY <2>1 DEF Shape, Split
  <2> QED BY <1>2, <2>2 DEF Below
<1>5. /\ \A j : Low(j) => j \in sub[n] /\ j < n
      /\ \A j : High(j) => j \in sub[n] /\ j > n
  BY <1>2, KidIs DEF Before
<1>6. \A j \in sub[n] : j \in Nat BY <1>3
<1>7. CASE k > n
  <2>1. \A j \in sub[n] : j >= k => High(j) BY <1>1, <1>4, <1>5, <1>6, <1>7
  <2>2. LeastIn(sub[n], k, b)
    <3>1. CASE b = Null
      <4>1. \A j : High(j) => ~(j >= k) BY <3>1 DEF LeastIn
      <4> QED BY <2>1, <3>1, <4>1 DEF LeastIn
    <3>2. CASE b # Null
      <4>1. High(b) /\ b >= k /\ \A j : High(j) /\ j >= k => j >= b BY <3>2 DEF LeastIn
      <4> QED BY <1>5, <2>1, <3>2, <4>1 DEF LeastIn
    <3> QED BY <3>1, <3>2
  <2> QED BY <1>7, <2>2
<1>8. CASE ~(k > n) /\ a = Null
  <2>1. \A j : Low(j) => ~(j >= k) BY <1>8 DEF LeastIn
  <2>2. \A j \in sub[n] : j >= k => j >= n
    <3> SUFFICES ASSUME NEW j \in sub[n], j >= k PROVE j >= n OBVIOUS
    <3>1. j \in Nat /\ (j = n \/ High(j)) BY <1>4, <1>6, <2>1
    <3> QED BY <1>1, <1>5, <3>1
  <2>3. n >= k BY <1>1, <1>8
  <2>4. LeastIn(sub[n], k, n) BY <1>3, <2>2, <2>3 DEF LeastIn
  <2> QED BY <1>8, <2>4
<1>9. CASE ~(k > n) /\ a # Null
  <2>1. Low(a) /\ a >= k /\ \A j : Low(j) /\ j >= k => j >= a BY <1>9 DEF LeastIn
  <2>2. a \in sub[n] /\ a < n /\ a \in Nat BY <1>5, <1>6, <2>1
  <2>3. \A j \in sub[n] : j >= k => j >= a
    <3> SUFFICES ASSUME NEW j \in sub[n], j >= k PROVE j >= a OBVIOUS
    <3>1. j \in Nat /\ (j = n \/ High(j) \/ Low(j)) BY <1>4, <1>6
    <3>2. High(j) => j > n BY <1>5
    <3> QED BY <1>1, <2>1, <2>2, <3>1, <3>2
  <2>4. LeastIn(sub[n], k, a) BY <1>9, <2>1, <2>2, <2>3 DEF LeastIn
  <2> QED BY <1>9, <2>4
<1> QED BY <1>7, <1>8, <1>9

BoundBy(t, k, f, n) ==
  f[n] = IF n = Null THEN Null
         ELSE IF k > n THEN f[t.node[n].right]
         ELSE IF f[t.node[n].left] = Null THEN n ELSE f[t.node[n].left]

(* Where a seek begins, the least key that is not less.                     *)
LEMMA LowerBoundIs ==
  ASSUME NEW t, NEW sub, Shape(t, sub), NEW k \in Nat, NEW b, b = LowerBound(t, k)
  PROVE  LeastIn(Nodes(t), k, b)
<1> DEFINE L == DOMAIN t.node \cup {Null}
           F(f) == f = [n \in L |->
                          IF n = Null THEN Null
                          ELSE IF k > n THEN f[t.node[n].right]
                          ELSE IF f[t.node[n].left] = Null THEN n ELSE f[t.node[n].left]]
           g == [n \in L |-> IF n = Null THEN Null ELSE CHOOSE x : LeastIn(sub[n], k, x)]
           c == CHOOSE f : F(f)
<1>1. b = c[t.root] BY DEF LowerBound
<1>2. /\ L = Links(t) /\ Nodes(t) \subseteq Nat /\ Null \notin Nodes(t)
      /\ "left" \in Sides /\ "right" \in Sides
  BY NodesAreNat, NullIsNone DEF Shape, Links, Nodes, Sides
<1>3. \A n \in Nodes(t), s \in Sides : Kid(t, n, s) = Null \/ Kid(t, n, s) \in Nodes(t)
  BY TypedParts DEF Shape, Links
<1>4. /\ g = [n \in L |-> g[n]] /\ g[Null] = Null
      /\ \A n \in Nodes(t) : LeastIn(sub[n], k, g[n])
  <2>1. g = [n \in L |-> g[n]] /\ g[Null] = Null OBVIOUS
  <2>2. \A n \in Nodes(t) : g[n] = CHOOSE x : LeastIn(sub[n], k, x) BY <1>2 DEF Links
  <2> HIDE DEF g
  <2>3. ASSUME NEW n \in Nodes(t) PROVE LeastIn(sub[n], k, g[n])
    <3>1. sub[n] \subseteq Nat /\ Null \notin sub[n] BY <1>2, SubIs
    <3>2. \E x : LeastIn(sub[n], k, x) BY <3>1, LeastInIs
    <3> QED BY <2>2, <3>2
  <2> QED BY <2>1, <2>3
<1> HIDE DEF g
<1>5. F(g)
  <2>1. ASSUME NEW n \in Nodes(t)
        PROVE  g[n] = IF k > n THEN g[Kid(t, n, "right")]
                      ELSE IF g[Kid(t, n, "left")] = Null THEN n ELSE g[Kid(t, n, "left")]
    <3> DEFINE v == IF k > n THEN g[Kid(t, n, "right")]
                    ELSE IF g[Kid(t, n, "left")] = Null THEN n ELSE g[Kid(t, n, "left")]
    <3>1. /\ IF Kid(t, n, "left") = Null THEN g[Kid(t, n, "left")] = Null
             ELSE LeastIn(sub[Kid(t, n, "left")], k, g[Kid(t, n, "left")])
          /\ IF Kid(t, n, "right") = Null THEN g[Kid(t, n, "right")] = Null
             ELSE LeastIn(sub[Kid(t, n, "right")], k, g[Kid(t, n, "right")])
      BY <1>2, <1>3, <1>4
    <3>2. LeastIn(sub[n], k, v) BY <3>1, BoundStep
    <3> HIDE DEF v
    <3>3. sub[n] \subseteq Nat /\ Null \notin sub[n] BY <1>2, SubIs
    <3>4. g[n] = v BY <1>4, <3>2, <3>3, LeastInIs
    <3> QED BY <3>4 DEF v
  <2>2. \A n \in L : BoundBy(t, k, g, n) BY <1>2, <1>4, <2>1 DEF BoundBy, Links, Kid
  <2> QED BY <1>4, <2>2 DEF BoundBy
<1>6. F(c) BY <1>5
<1> HIDE DEF c
<1>7. /\ c[Null] = Null
      /\ \A n \in Nodes(t) :
           c[n] = IF k > n THEN c[Kid(t, n, "right")]
                  ELSE IF c[Kid(t, n, "left")] = Null THEN n ELSE c[Kid(t, n, "left")]
  <2>1. \A n \in L : BoundBy(t, k, c, n) BY <1>6 DEF BoundBy
  <2> QED BY <1>2, <2>1 DEF BoundBy, Links, Kid
<1> DEFINE T == {n \in Nodes(t) : LeastIn(sub[n], k, c[n])}
<1>8. ASSUME NEW n \in Nodes(t), \A s \in Sides : Kid(t, n, s) # Null => Kid(t, n, s) \in T
      PROVE  n \in T
  <2>1. /\ IF Kid(t, n, "left") = Null THEN c[Kid(t, n, "left")] = Null
           ELSE LeastIn(sub[Kid(t, n, "left")], k, c[Kid(t, n, "left")])
        /\ IF Kid(t, n, "right") = Null THEN c[Kid(t, n, "right")] = Null
           ELSE LeastIn(sub[Kid(t, n, "right")], k, c[Kid(t, n, "right")])
    BY <1>2, <1>7, <1>8
  <2>2. LeastIn(sub[n], k, c[n]) BY <1>7, <2>1, BoundStep
  <2> QED BY <2>2
<1> HIDE DEF T
<1>9. \A n \in Nodes(t) : n \in T BY <1>8, TreeInduction
<1>10. CASE t.root = Null BY <1>1, <1>7, <1>10 DEF Shape, Rooted, LeastIn
<1>11. CASE t.root # Null
  <2>1. t.root \in Nodes(t) /\ sub[t.root] = Nodes(t)
    BY <1>11, TypedParts DEF Shape, Rooted, Links
  <2> QED BY <1>1, <1>9, <2>1 DEF T
<1> QED BY <1>10, <1>11

(* The black nodes on the way down the left side. *)
HeightBy(t, f, n) == f[n] = IF n = Null THEN 1 ELSE f[t.node[n].left] + 1 - NodeColor(t, n)

(* What RedBlack counts is what Level says.                                 *)
LEMMA BlackHeightIs ==
  ASSUME NEW t, NEW sub, Shape(t, sub), NEW bh, Level(t, bh)
  PROVE  \A n \in Links(t) : BlackHeight(t, n) = Height(bh, n)
<1> DEFINE L == DOMAIN t.node \cup {Null}
           F(f) == f = [n \in L |->
                          IF n = Null THEN 1 ELSE f[t.node[n].left] + 1 - NodeColor(t, n)]
           g == [n \in L |-> Height(bh, n)]
           c == CHOOSE f : F(f)
<1>1. \A n : BlackHeight(t, n) = c[n] BY DEF BlackHeight
<1>2. /\ L = Links(t) /\ Null \notin Nodes(t) /\ "left" \in Sides /\ Typed(t)
  BY NullIsNone DEF Shape, Links, Nodes, Sides
<1>3. \A n \in Nodes(t) : Kid(t, n, "left") \in Links(t) BY <1>2, TypedParts
<1>4. \A n \in Nodes(t) : bh[n] = Height(bh, Kid(t, n, "left")) + 1 - NodeColor(t, n)
  BY <1>2, Peek DEF Level, Links
<1>5. g = [n \in L |-> g[n]] /\ \A n \in L : g[n] = Height(bh, n) OBVIOUS
<1> HIDE DEF g
<1>6. F(g)
  <2>1. ASSUME NEW n \in L PROVE HeightBy(t, g, n)
    <3>1. CASE n = Null BY <1>5, <3>1 DEF HeightBy, Height
    <3>2. CASE n # Null
      <4>1. n \in Nodes(t) BY <1>2, <3>2 DEF Links
      <4>2. g[Kid(t, n, "left")] = Height(bh, Kid(t, n, "left")) BY <1>2, <1>3, <1>5, <4>1
      <4>3. g[n] = bh[n] BY <1>5, <3>2 DEF Height
      <4> QED BY <1>4, <3>2, <4>1, <4>2, <4>3 DEF HeightBy, Kid
    <3> QED BY <3>1, <3>2
  <2> QED BY <1>5, <2>1 DEF HeightBy
<1>7. F(c) BY <1>6
<1> HIDE DEF c
<1>8. \A n \in L : HeightBy(t, c, n) BY <1>7 DEF HeightBy
<1> DEFINE T == {n \in Nodes(t) : c[n] = bh[n]}
<1>9. c[Null] = 1 BY <1>8 DEF HeightBy
<1>10. ASSUME NEW n \in Nodes(t), \A s \in Sides : Kid(t, n, s) # Null => Kid(t, n, s) \in T
       PROVE  n \in T
  <2>1. c[Kid(t, n, "left")] = Height(bh, Kid(t, n, "left"))
    BY <1>2, <1>9, <1>10 DEF Height
  <2>2. n # Null /\ n \in L BY <1>2 DEF Links
  <2>3. c[n] = c[Kid(t, n, "left")] + 1 - NodeColor(t, n) BY <1>8, <2>2 DEF HeightBy, Kid
  <2> QED BY <1>4, <2>1, <2>3
<1> HIDE DEF T
<1>11. \A n \in Nodes(t) : n \in T BY <1>10, TreeInduction
<1> QED BY <1>1, <1>2, <1>9, <1>11 DEF T, Links, Height

-----------------------------------------------------------------------------
(* What every call keeps: the tree is red-black and size is the number of   *)
(* its nodes; the iterator is at one of them or over, and the key that it   *)
(* has still to return is not behind it.                                    *)

TreeInv ==
  /\ \E sub, bh : Balanced(tree, sub, bh)
  /\ size = Cardinality(Nodes(tree))
PlaceInv ==
  /\ it \in Links(tree) /\ due \in Links(tree)
  /\ ~iterating => it = Null
  /\ it = Null => due = Null
  /\ it # Null /\ due # Null => due >= it
MapInv == TreeInv /\ PlaceInv

LEMMA EmptyIs ==
  /\ Balanced(EmptyTree, << >>, << >>) /\ Nodes(EmptyTree) = {} /\ Cardinality(Nodes(EmptyTree)) = 0
  /\ Content(EmptyTree) = << >>
<1> DEFINE e == << >>
<1>1. DOMAIN e = {} OBVIOUS
<1>2. \A S : e \in [{} -> S] OBVIOUS
<1>3. EmptyTree = [root |-> EmptyTree.root, node |-> EmptyTree.node]
      /\ EmptyTree.root = Null /\ EmptyTree.node = e
  BY DEF EmptyTree
<1>4. Content(EmptyTree) = e
  <2>1. Content(EmptyTree) = [k \in {} |-> EmptyTree.node[k].val] BY <1>1, <1>3 DEF Content
  <2> QED BY <1>1, <2>1
<1> HIDE DEF e
<1>5. Nodes(EmptyTree) = {} BY <1>1, <1>3 DEF Nodes
<1>6. Cardinality(Nodes(EmptyTree)) = 0 /\ IsFiniteSet(Nodes(EmptyTree)) BY <1>5, FS_EmptySet
<1>7. Typed(EmptyTree) BY <1>2, <1>3, <1>5, <1>6 DEF Typed, Links
<1>8. Shape(EmptyTree, e)
  <2>1. e \in [Nodes(EmptyTree) -> SUBSET Nodes(EmptyTree)] BY <1>2, <1>5
  <2> QED BY <1>3, <1>5, <1>7, <2>1 DEF Shape, Linked, Rooted, Split, Ordered
<1>9. Balanced(EmptyTree, e, e)
  <2>1. Level(EmptyTree, e) BY <1>2, <1>5 DEF Level
  <2>2. Quiet(EmptyTree, Null, Null) BY <1>5 DEF Quiet
  <2> QED BY <1>3, <1>8, <2>1, <2>2 DEF Balanced
<1> QED BY <1>4, <1>5, <1>6, <1>9 DEF e

(* A new value in a node. *)
LEMMA ValueSet ==
  ASSUME NEW t, NEW sub, NEW bh, Balanced(t, sub, bh), NEW k \in Nodes(t), NEW v \in Values,
         NEW u, u = [t EXCEPT !.node[k].val = v]
  PROVE  /\ Balanced(u, sub, bh) /\ Nodes(u) = Nodes(t)
         /\ \A n \in Nodes(t) : Val(u, n) = IF n = k THEN v ELSE Val(t, n)
<1> DEFINE e == [t.node[k] EXCEPT !.val = v]  f == [t.node EXCEPT ![k] = e]
<1>0. Typed(t) /\ Shape(t, sub) BY DEF Balanced, Shape
<1>1. u.root = t.root /\ u.node = f /\ u = [root |-> u.root, node |-> u.node]
  BY <1>0 DEF Typed
<1>2. t.node[k] \in Cell(Links(t)) BY <1>0 DEF Typed
<1>3. /\ e \in Cell(Links(t)) /\ e.parent = t.node[k].parent /\ e.color = t.node[k].color
      /\ e.val = v /\ \A r \in Sides : e[r] = t.node[k][r]
  BY <1>2 DEF Cell, Sides
<1> HIDE DEF e
<1>4. DOMAIN f = Nodes(t) /\ \A m \in Nodes(t) : f[m] = IF m = k THEN e ELSE t.node[m]
  BY <1>0 DEF Typed, Nodes
<1>5. f \in [Nodes(t) -> Cell(Links(t))] BY <1>0, <1>3 DEF Typed
<1> HIDE DEF f
<1>6. Nodes(u) = Nodes(t) BY <1>1, <1>4 DEF Nodes
<1>7. Typed(u) BY <1>0, <1>1, <1>5, <1>6 DEF Typed, Links
<1>8. /\ SameKids(t, u) /\ SamePars(t, u) /\ SameHues(t, u)
      /\ \A n \in Nodes(t) : Val(u, n) = IF n = k THEN v ELSE Val(t, n)
  BY <1>1, <1>3, <1>4 DEF SameKids, SamePars, SameHues, Kid, Par, Hue, Val
<1>9. Shape(u, sub) BY <1>0, <1>1, <1>6, <1>7, <1>8, ShapeSame
<1>10. Level(u, bh) BY <1>6, <1>8 DEF Balanced, Level, SameKids, SameHues
<1>11. \A n \in Nodes(t), s \in Sides : Kid(t, n, s) # Null => Kid(t, n, s) \in Nodes(t)
  BY <1>0, KidIs
<1>12. Quiet(u, Null, Null)
  BY <1>6, <1>8, <1>11 DEF Balanced, Quiet, SameKids, SameHues
<1>13. u.root # Null => Hue(u, u.root) = 0
  <2>1. t.root # Null => t.root \in Nodes(t) BY <1>0, TypedParts DEF Links
  <2> QED BY <1>1, <1>8, <2>1 DEF Balanced, SameHues
<1> QED BY <1>6, <1>8, <1>9, <1>10, <1>12, <1>13 DEF Balanced

LEMMA HasIs ==
  ASSUME TreeInv, NEW k \in Keys
  PROVE  Found(k) <=> k \in Nodes(tree)
<1>1. PICK sub, bh : Balanced(tree, sub, bh) BY DEF TreeInv
<1>2. Shape(tree, sub) /\ k \in Nat /\ k # Null BY <1>1, MapAssumption DEF Balanced
<1> QED BY <1>2, FoundIs DEF Found

LEMMA ContentIs ==
  \A t : /\ DOMAIN Content(t) = Nodes(t) /\ Content(t) = [k \in Nodes(t) |-> Val(t, k)]
         /\ \A k \in Nodes(t) : Content(t)[k] = Val(t, k)
BY DEF Content, Nodes, Val

LEMMA InitOK == ASSUME Init PROVE MapInv /\ BM!Init
<1>1. tree = EmptyTree /\ size = 0 /\ it = Null /\ due = Null /\ last = BM!Done("new", "ok")
  BY DEF Init
<1> QED BY <1>1, EmptyIs DEF MapInv, TreeInv, PlaceInv, Links, BM!Init

LEMMA ReplaceOK ==
  ASSUME MapInv, NEW k \in Keys, NEW v \in Values, Replace(k, v)
  PROVE  MapInv' /\ BM!Next
<1>1. /\ Found(k) /\ tree' = [tree EXCEPT !.node[k].val = v]
      /\ last' = BM!Answer("set", k, "ok", v)
      /\ size' = size /\ iterating' = iterating /\ it' = it /\ due' = due
  BY DEF Replace, iteration
<1>2. PICK sub, bh : Balanced(tree, sub, bh) BY DEF MapInv, TreeInv
<1>3. k \in Nodes(tree) BY <1>1, HasIs DEF MapInv
<1> DEFINE u == tree'
<1>4. /\ Balanced(u, sub, bh) /\ Nodes(u) = Nodes(tree)
      /\ \A n \in Nodes(tree) : Val(u, n) = IF n = k THEN v ELSE Val(tree, n)
  BY <1>1, <1>2, <1>3, ValueSet
<1>5. MapInv' BY <1>1, <1>4 DEF MapInv, TreeInv, PlaceInv, Links
<1>6. Content(tree)' = [x \in DOMAIN Content(tree) \cup {k} |->
                          IF x = k THEN v ELSE Content(tree)[x]]
  <2>1. Content(u) = [x \in Nodes(u) |-> Val(u, x)] BY ContentIs
  <2>2. DOMAIN Content(tree) \cup {k} = Nodes(u) BY <1>3, <1>4, ContentIs
  <2>3. \A x \in Nodes(u) : Val(u, x) = IF x = k THEN v ELSE Content(tree)[x]
    BY <1>4, ContentIs
  <2> QED BY <2>1, <2>2, <2>3
<1>7. BM!Set(k, v) BY <1>1, <1>6 DEF BM!Set
<1> QED BY <1>5, <1>7 DEF BM!Next

LEMMA InsertOK ==
  ASSUME MapInv, NEW k \in Keys, NEW v \in Values, Insert(k, v)
  PROVE  MapInv' /\ BM!Next
<1>1. /\ ~Found(k) /\ iterating' = iterating /\ it' = it /\ due' = due
      /\ \/ /\ \E res \in {"limit", "nomem"} : last' = BM!Answer("set", k, res, v)
            /\ tree' = tree /\ size' = size
         \/ /\ tree' = Inserted(tree, k, v) /\ size' = size + 1
            /\ last' = BM!Answer("set", k, "ok", v)
  BY DEF Insert, iteration
<1>2. CASE /\ \E res \in {"limit", "nomem"} : last' = BM!Answer("set", k, res, v)
           /\ tree' = tree /\ size' = size
  <2>1. MapInv' BY <1>1, <1>2 DEF MapInv, TreeInv, PlaceInv
  <2>2. BM!Refuse(k, v) BY <1>2 DEF BM!Refuse
  <2> QED BY <2>1, <2>2 DEF BM!Next
<1>3. CASE /\ tree' = Inserted(tree, k, v) /\ size' = size + 1
           /\ last' = BM!Answer("set", k, "ok", v)
  <2>1. PICK sub, bh : Balanced(tree, sub, bh) BY DEF MapInv, TreeInv
  <2>2. k \in Keys \ Nodes(tree) BY <1>1, HasIs DEF MapInv
  <2> DEFINE u == tree'
  <2>3. /\ \E new, lev : Balanced(u, new, lev)
        /\ Nodes(u) = Nodes(tree) \cup {k} /\ Val(u, k) = v
        /\ \A n \in Nodes(tree) : Val(u, n) = Val(tree, n)
    BY <1>3, <2>1, <2>2, InsertedIs
  <2>4. Cardinality(Nodes(u)) = Cardinality(Nodes(tree)) + 1
    <3>1. IsFiniteSet(Nodes(tree)) BY <2>1 DEF Balanced, Shape, Typed
    <3> QED BY <2>2, <2>3, <3>1, FS_AddElement
  <2>5. TreeInv' BY <1>3, <2>3, <2>4 DEF MapInv, TreeInv
  <2>6. PlaceInv' BY <1>1, <2>3 DEF MapInv, PlaceInv, Links
  <2>7. Content(tree)' = [x \in DOMAIN Content(tree) \cup {k} |->
                            IF x = k THEN v ELSE Content(tree)[x]]
    <3>1. Content(u) = [x \in Nodes(u) |-> Val(u, x)] BY ContentIs
    <3>2. DOMAIN Content(tree) \cup {k} = Nodes(u) BY <2>3, ContentIs
    <3>3. \A x \in Nodes(u) : Val(u, x) = IF x = k THEN v ELSE Content(tree)[x]
      BY <2>3, ContentIs
    <3> QED BY <3>1, <3>2, <3>3
  <2>8. BM!Set(k, v) BY <1>3, <2>7 DEF BM!Set
  <2> QED BY <2>5, <2>6, <2>8 DEF MapInv, BM!Next
<1> QED BY <1>1, <1>2, <1>3

LEMMA RemoveOK ==
  ASSUME MapInv, NEW k \in Keys, Remove(k)
  PROVE  MapInv' /\ BM!Next
<1>1. /\ Found(k) /\ tree' = Removed(tree, k) /\ size' = size - 1
      /\ last' = BM!Answer("remove", k, "ok", tree.node[k].val)
      /\ iterating' = (iterating /\ k # it)
      /\ it' = IF iterating /\ k # it THEN it ELSE Null
      /\ due' = IF k \in {it, due} THEN Null ELSE due
  BY DEF Remove, Stopped
<1>2. PICK sub, bh : Balanced(tree, sub, bh) BY DEF MapInv, TreeInv
<1>3. k \in Nodes(tree) BY <1>1, HasIs DEF MapInv
<1> DEFINE u == tree'
<1>4. /\ \E new, lev : Balanced(u, new, lev)
      /\ Nodes(u) = Nodes(tree) \ {k} /\ \A m \in Nodes(u) : Val(u, m) = Val(tree, m)
  BY <1>1, <1>2, <1>3, RemovedIs
<1>5. Cardinality(Nodes(u)) = Cardinality(Nodes(tree)) - 1
  <2>1. IsFiniteSet(Nodes(tree)) BY <1>2 DEF Balanced, Shape, Typed
  <2> QED BY <1>3, <1>4, <2>1, FS_RemoveElement
<1>6. TreeInv' BY <1>1, <1>4, <1>5 DEF MapInv, TreeInv
<1>7. PlaceInv'
  <2>1. /\ it \in Links(tree) /\ due \in Links(tree)
        /\ ~iterating => it = Null
        /\ it = Null => due = Null
        /\ it # Null /\ due # Null => due >= it
    BY DEF MapInv, PlaceInv
  <2>2. CASE iterating /\ k # it
    <3>1. it' = it /\ iterating' /\ it' \in Links(u) BY <1>1, <1>4, <2>1, <2>2 DEF Links
    <3>2. due' = Null \/ (due' = due /\ due # k) BY <1>1
    <3>3. due' \in Links(u) BY <1>4, <2>1, <3>2 DEF Links
    <3> QED BY <2>1, <3>1, <3>2, <3>3 DEF PlaceInv
  <2>3. CASE ~(iterating /\ k # it)
    <3>1. it' = Null /\ ~iterating' BY <1>1, <2>3
    <3>2. due' = Null BY <1>1, <2>1, <2>3
    <3> QED BY <3>1, <3>2 DEF PlaceInv, Links
  <2> QED BY <2>2, <2>3
<1>8. Content(tree)' = Restrict(Content(tree), DOMAIN Content(tree) \ {k})
  <2>1. Content(u) = [x \in Nodes(u) |-> Val(u, x)] BY ContentIs
  <2>2. DOMAIN Content(tree) \ {k} = Nodes(u) BY <1>4, ContentIs
  <2>3. \A x \in Nodes(u) : Val(u, x) = Content(tree)[x] BY <1>4, ContentIs
  <2> QED BY <2>1, <2>2, <2>3 DEF Restrict
<1>9. k \in DOMAIN Content(tree) /\ Content(tree)[k] = tree.node[k].val
  BY <1>3, ContentIs DEF Val
<1>10. BM!Remove(k) BY <1>1, <1>8, <1>9 DEF BM!Remove, Restrict, BM!Restrict
<1> QED BY <1>6, <1>7, <1>10 DEF MapInv, BM!Next

(* A step of the iterator, or of a call that leaves the tree alone. *)
LEMMA Unmoved ==
  ASSUME MapInv, UNCHANGED <<tree, size, iteration>>
  PROVE  MapInv' /\ Content(tree)' = Content(tree)
<1>1. tree' = tree /\ size' = size /\ iterating' = iterating /\ it' = it /\ due' = due
  BY DEF iteration
<1> QED BY <1>1 DEF MapInv, TreeInv, PlaceInv

LEMMA BeginOK ==
  ASSUME MapInv, NEW k \in Nat, NEW n, LeastIn(Nodes(tree), k, n),
         NEW keys, keys \subseteq {j \in Nodes(tree) : j >= k}, Begin(n, keys)
  PROVE  MapInv' /\ UNCHANGED <<Content(tree), last>>
<1>1. /\ iterating' /\ it' = n /\ due' \in keys \cup {Null}
      /\ tree' = tree /\ size' = size /\ last' = last
  BY DEF Begin
<1>2. n \in Links(tree) /\ due' \in Links(tree) BY <1>1 DEF LeastIn, Links
<1>3. n = Null => due' = Null BY <1>1 DEF LeastIn
<1>4. n # Null /\ due' # Null => due' >= n BY <1>1 DEF LeastIn
<1>5. PlaceInv' BY <1>1, <1>2, <1>3, <1>4 DEF PlaceInv, Links
<1> QED BY <1>1, <1>5 DEF MapInv, TreeInv

LEMMA IterNextOK ==
  ASSUME MapInv, IterNext
  PROVE  /\ MapInv' /\ UNCHANGED <<Content(tree), last>>
         /\ it' # Null => it' > it
<1>1. /\ iterating /\ it # Null /\ it' = Successor(tree, it)
      /\ due' = IF due = it THEN Null ELSE due
      /\ tree' = tree /\ size' = size /\ last' = last /\ iterating' = iterating
  BY DEF IterNext
<1>2. PICK sub, bh : Balanced(tree, sub, bh) BY DEF MapInv, TreeInv
<1>3. it \in Nodes(tree) /\ due \in Links(tree) /\ (due # Null => due >= it)
  BY <1>1 DEF MapInv, PlaceInv, Links
<1>4. Shape(tree, sub) /\ Nodes(tree) \subseteq Nat /\ it \in Nat
  BY <1>2, <1>3, NodesAreNat DEF Balanced, Shape
<1>5. LeastIn(Nodes(tree), it + 1, it') BY <1>1, <1>3, <1>4, SuccessorIs
<1>6. it' # Null => it' \in Nodes(tree) /\ it' > it BY <1>4, <1>5 DEF LeastIn
<1>7. due' # Null => due' \in Nodes(tree) /\ due' >= it + 1
  <2> SUFFICES ASSUME due' # Null PROVE due' \in Nodes(tree) /\ due' >= it + 1 OBVIOUS
  <2>1. due' = due /\ due # it /\ due \in Nodes(tree) /\ due >= it BY <1>1, <1>3 DEF Links
  <2> QED BY <1>4, <2>1
<1>8. it' = Null => due' = Null BY <1>5, <1>7 DEF LeastIn
<1>9. it' # Null /\ due' # Null => due' >= it' BY <1>5, <1>7 DEF LeastIn
<1>10. PlaceInv' BY <1>1, <1>6, <1>7, <1>8, <1>9 DEF PlaceInv, Links
<1> QED BY <1>1, <1>6, <1>10 DEF MapInv, TreeInv

(* Each call keeps the invariant and answers as the map does.               *)
LEMMA StepOK ==
  ASSUME MapInv, Next
  PROVE  MapInv' /\ (BM!Next \/ UNCHANGED <<Content(tree), last>>)
<1>1. ASSUME NEW k \in Keys, NEW v \in Values, Replace(k, v) \/ Insert(k, v)
      PROVE  MapInv' /\ BM!Next
  BY <1>1, ReplaceOK, InsertOK
<1>2. ASSUME NEW k \in Keys, Remove(k) PROVE MapInv' /\ BM!Next
  BY <1>2, RemoveOK
<1>3. ASSUME NEW k \in Keys, Get(k) PROVE MapInv' /\ BM!Next
  <2>1. MapInv' /\ Content(tree)' = Content(tree) BY <1>3, Unmoved DEF Get
  <2>2. k \in Nodes(tree) BY <1>3, HasIs DEF MapInv, Get
  <2>3. k \in DOMAIN Content(tree) /\ Content(tree)[k] = tree.node[k].val
    BY <2>2, ContentIs DEF Val
  <2>4. BM!Get(k) BY <1>3, <2>1, <2>3 DEF Get, BM!Get
  <2> QED BY <2>1, <2>4 DEF BM!Next
<1>4. ASSUME NEW k \in Keys, NEW op \in {"remove", "get"}, NotFound(op, k)
      PROVE  MapInv' /\ BM!Next
  <2>1. MapInv' /\ Content(tree)' = Content(tree) BY <1>4, Unmoved DEF NotFound
  <2>2. k \notin Nodes(tree) BY <1>4, HasIs DEF MapInv, NotFound
  <2>3. k \notin DOMAIN Content(tree) BY <2>2, ContentIs
  <2>4. BM!NotFound(op, k) BY <1>4, <2>1, <2>3 DEF NotFound, BM!NotFound
  <2> QED BY <2>1, <2>4 DEF BM!Next
<1>5. ASSUME NEW k \in Keys, IterSeek(k)
      PROVE  MapInv' /\ UNCHANGED <<Content(tree), last>>
  <2> DEFINE n == LowerBound(tree, k)  keys == {j \in DOMAIN tree.node : j >= k}
  <2>1. PICK sub, bh : Balanced(tree, sub, bh) BY DEF MapInv, TreeInv
  <2>2. k \in Nat BY MapAssumption
  <2>3. LeastIn(Nodes(tree), k, n) BY <2>1, <2>2, LowerBoundIs DEF Balanced
  <2>4. Begin(n, keys) BY <1>5 DEF IterSeek
  <2>5. keys \subseteq {j \in Nodes(tree) : j >= k} BY DEF Nodes
  <2> HIDE DEF n, keys
  <2> QED BY <2>2, <2>3, <2>4, <2>5, BeginOK
<1>6. ASSUME IterBegin PROVE MapInv' /\ UNCHANGED <<Content(tree), last>>
  <2> DEFINE n == First  keys == DOMAIN tree.node
  <2>1. PICK sub, bh : Balanced(tree, sub, bh) BY DEF MapInv, TreeInv
  <2>2. LeastIn(Nodes(tree), 0, n) BY <2>1, FirstIs DEF Balanced, First
  <2>3. Begin(n, keys) BY <1>6 DEF IterBegin
  <2>4. keys \subseteq {j \in Nodes(tree) : j >= 0}
    BY <2>1, NodesAreNat DEF Nodes, Balanced, Shape
  <2> HIDE DEF n, keys
  <2> QED BY <2>2, <2>3, <2>4, BeginOK
<1>7. ASSUME IterNext PROVE MapInv' /\ UNCHANGED <<Content(tree), last>>
  BY <1>7, IterNextOK
<1>8. ASSUME NEW p \in PairLimits, NEW b \in ByteLimits, SetLimits(p, b)
      PROVE  MapInv' /\ BM!Next
  <2>1. MapInv' /\ Content(tree)' = Content(tree) BY <1>8, Unmoved DEF SetLimits
  <2>2. BM!SetLimits BY <1>8, <2>1 DEF SetLimits, BM!SetLimits
  <2> QED BY <2>1, <2>2 DEF BM!Next
<1>9. ASSUME Free PROVE MapInv' /\ BM!Next
  <2>1. /\ tree' = EmptyTree /\ size' = 0 /\ last' = BM!Done("free", "ok") /\ due' = Null
        /\ it' = Null /\ ~iterating'
    BY <1>9 DEF Free, Stopped
  <2>2. TreeInv' BY <2>1, EmptyIs DEF TreeInv
  <2>3. PlaceInv' BY <2>1 DEF PlaceInv, Links
  <2>4. Content(tree)' = << >> BY <2>1, EmptyIs
  <2>5. BM!Clear("free") BY <2>1, <2>4 DEF BM!Clear
  <2> QED BY <2>2, <2>3, <2>5 DEF MapInv, BM!Next
<1> QED BY <1>1, <1>2, <1>3, <1>4, <1>5, <1>6, <1>7, <1>8, <1>9 DEF Next

LEMMA Kept == ASSUME MapInv, [Next]_vars PROVE MapInv'
<1>1. CASE Next BY <1>1, StepOK
<1>2. CASE UNCHANGED vars BY <1>2, Unmoved DEF vars
<1> QED BY <1>1, <1>2

(* RedBlack follows from the invariant.                                     *)
LEMMA InvRedBlack == ASSUME MapInv PROVE RedBlack
<1>1. PICK sub, bh : Balanced(tree, sub, bh) BY DEF MapInv, TreeInv
<1>2. /\ Shape(tree, sub) /\ Typed(tree) /\ Level(tree, bh) /\ Quiet(tree, Null, Null)
      /\ tree.root # Null => Hue(tree, tree.root) = 0
      /\ tree.root \in Links(tree) /\ Null \notin Nodes(tree) /\ Nodes(tree) \subseteq Nat
  BY <1>1, NullIsNone, NodesAreNat DEF Balanced, Shape, Typed
<1>3. ~Red(tree, tree.root) BY <1>2, Peek
<1>4. size = Cardinality(DOMAIN tree.node) BY DEF MapInv, TreeInv, Nodes
<1>5. tree.root # Null => tree.node[tree.root].parent = Null
  <2>1. tree.root # Null => tree.root \in Nodes(tree) BY <1>2 DEF Links
  <2> QED BY <1>2, <2>1, RootIs DEF Par
<1>6. ASSUME NEW n \in Nodes(tree)
      PROVE  /\ FindNode(tree, n) = n
             /\ \A side \in Sides :
                  LET c == tree.node[n][side] IN
                  c # Null => tree.node[c].parent = n /\ ~(Red(tree, n) /\ Red(tree, c))
             /\ BlackHeight(tree, tree.node[n].left) = BlackHeight(tree, tree.node[n].right)
  <2>1. FindNode(tree, n) = n BY <1>2, FoundIs
  <2>2. ASSUME NEW s \in Sides, Kid(tree, n, s) # Null
        PROVE  Par(tree, Kid(tree, n, s)) = n /\ ~(Red(tree, n) /\ Red(tree, Kid(tree, n, s)))
    <3>1. Par(tree, Kid(tree, n, s)) = n /\ Kid(tree, n, s) \in Links(tree)
      BY <1>2, <2>2, KidIs DEF Links
    <3>2. n # Null /\ n \in Links(tree) BY <1>2 DEF Links
    <3>3. Hue(tree, n) = 1 => Hue(tree, Kid(tree, n, s)) = 0 BY <1>2, <2>2, <3>2 DEF Quiet
    <3> QED BY <1>2, <3>1, <3>2, <3>3, Peek
  <2>3. BlackHeight(tree, Kid(tree, n, "left")) = BlackHeight(tree, Kid(tree, n, "right"))
    <3> DEFINE l == Kid(tree, n, "left")  r == Kid(tree, n, "right")
    <3>1. l \in Links(tree) /\ r \in Links(tree) BY <1>2, SidesAre, TypedParts
    <3>2. Height(bh, l) \in Nat /\ Height(bh, r) \in Nat
      BY <1>2, <3>1 DEF Height, Level, Links
    <3>3. bh[n] = Height(bh, l) + 1 - Hue(tree, n) /\ bh[n] = Height(bh, r) + 1 - Hue(tree, n)
      BY <1>2, SidesAre DEF Level
    <3>4. Hue(tree, n) \in {0, 1} BY <1>2, TypedParts
    <3>5. Height(bh, l) = Height(bh, r) BY <3>2, <3>3, <3>4
    <3> QED BY <1>2, <3>1, <3>5, BlackHeightIs
  <2> QED BY <2>1, <2>2, <2>3 DEF Kid, Par
<1> QED BY <1>3, <1>4, <1>5, <1>6 DEF RedBlack, Nodes

-----------------------------------------------------------------------------
(* The tree is red-black after every call, whatever keys come and go.       *)
THEOREM AlwaysRedBlack == Spec => []RedBlack
<1>1. Init => MapInv BY InitOK
<1>2. MapInv /\ [Next]_vars => MapInv' BY Kept
<1>3. MapInv => RedBlack BY InvRedBlack
<1> QED BY <1>1, <1>2, <1>3, PTL DEF Spec

(* The iterator never stands at a freed node, goes up, and leaves out no    *)
(* key that stays in the map.                                               *)
THEOREM IterationIsSound == Spec => IteratorSound
<1> DEFINE Sound == /\ iterating' => IF it' = Null THEN due' = Null
                                     ELSE it' \in DOMAIN tree'.node /\ (due' # Null => due' >= it')
                    /\ IterNext /\ it' # Null => it' > it
<1>1. Init => MapInv BY InitOK
<1>2. MapInv /\ [Next]_vars => MapInv' BY Kept
<1>3. MapInv /\ MapInv' => Sound
  <2> SUFFICES ASSUME MapInv, MapInv' PROVE Sound OBVIOUS
  <2>1. iterating' => IF it' = Null THEN due' = Null
                      ELSE it' \in DOMAIN tree'.node /\ (due' # Null => due' >= it')
    BY DEF MapInv, PlaceInv, Links, Nodes
  <2>2. IterNext /\ it' # Null => it' > it BY IterNextOK
  <2> QED BY <2>1, <2>2
<1>4. MapInv /\ MapInv' => [Sound]_vars BY <1>3
<1> HIDE DEF Sound
<1>5. Spec => [][Sound]_vars BY <1>1, <1>2, <1>4, PTL DEF Spec
<1> QED BY <1>5 DEF Sound, IteratorSound

(* Set, get and remove answer as a map would (mcpkg_map.h).                 *)
THEOREM TreeIsMap == Spec => ImplementsBoundedMap
<1>1. Init => MapInv /\ BM!Init BY InitOK
<1>2. MapInv /\ [Next]_vars => MapInv' /\ [BM!Next]_<<Content(tree), last>>
  <2> SUFFICES ASSUME MapInv, [Next]_vars
               PROVE  MapInv' /\ [BM!Next]_<<Content(tree), last>>
    OBVIOUS
  <2>1. CASE Next BY <2>1, StepOK
  <2>2. CASE UNCHANGED vars
    <3>1. MapInv' /\ Content(tree)' = Content(tree) /\ last' = last
      BY <2>2, Unmoved DEF vars
    <3> QED BY <3>1
  <2> QED BY <2>1, <2>2
<1>3. [BM!Next]_<<Content(tree), last>> => [BM!Next]_(BM!vars) BY DEF BM!vars
<1> QED BY <1>1, <1>2, <1>3, PTL DEF Spec, ImplementsBoundedMap, BM!Spec
=============================================================================
