-------------------------- MODULE FileTreeProofs ---------------------------
(***************************************************************************)
(* For any number of processes that make any calls on any trees:           *)
(*                                                                         *)
(*   - mkdir_p fails only for a reason, whatever else is being made.  While *)
(*     nothing is removed the tree grows, a walk that reached a directory  *)
(*     reaches it still, and so there stays an entry at every name that    *)
(*     the call has gone past.                                             *)
(*   - rm_r, unlink and ln_sf remove nothing outside of their paths, if    *)
(*     nobody else makes links.  An entry that comes or goes has nothing   *)
(*     below it, so a path leads where it led, to that entry, or nowhere,  *)
(*     and no link comes to be at a directory that rm_r is in.             *)
(*   - Of the links that ln_sf puts at one path, that of a process which   *)
(*     succeeded is there in the end.  The path leads to one place without *)
(*     going by that place, whichever link is there or none, and who takes *)
(*     a link away is about to put its own there.                          *)
(***************************************************************************)
EXTENDS FileTree, SequenceTheorems, WellFoundedInduction, TLAPS

-----------------------------------------------------------------------------
(* Every non-empty set of numbers has a least one; so a set that has 0, and *)
(* n + 1 with n, has them all.                                              *)
LEMMA Least ==
  ASSUME NEW T, T \subseteq Nat, T # {}
  PROVE  \E x \in T : \A y \in T : ~(y < x)
<1> DEFINE R == {q \in Nat \X Nat : q[1] < q[2]}
<1>1. IsWellFoundedOn(R, Nat)
  BY NatLessThanWellFounded DEF OpToRel
<1>2. ASSUME NEW x \in Nat, NEW y \in Nat, x < y PROVE <<x, y>> \in R
  <2>1. <<x, y>> \in Nat \X Nat /\ <<x, y>>[1] = x /\ <<x, y>>[2] = y
    OBVIOUS
  <2> QED
    BY <1>2, <2>1, Zenon
<1> HIDE DEF R
<1>3. PICK x \in T : \A y \in T : ~(<<y, x>> \in R)
  BY <1>1, WFMin
<1> QED
  BY <1>2, <1>3

(* Induction over the numbers, said of a set of them.                       *)
LEMMA Induction ==
  ASSUME NEW T, 0 \in T, \A n \in Nat : n \in T => n + 1 \in T
  PROVE  \A n \in Nat : n \in T
<1> SUFFICES ASSUME Nat \ T # {} PROVE FALSE
  OBVIOUS
<1>1. PICK x \in Nat \ T : \A y \in Nat \ T : ~(y < x)
  BY Least
<1>2. x - 1 \in Nat /\ x - 1 < x /\ x = (x - 1) + 1
  BY <1>1
<1>3. x - 1 \in T
  BY <1>1, <1>2
<1> QED
  BY <1>1, <1>2, <1>3

-----------------------------------------------------------------------------
(* Sequences of whatever there is.                                         *)

IsSeq(s) == \E S : s \in Seq(S)

LEMMA AppendIs ==
  ASSUME NEW s, IsSeq(s), NEW x
  PROVE  /\ IsSeq(Append(s, x)) /\ Len(s) \in Nat /\ Len(Append(s, x)) = Len(s) + 1
         /\ Append(s, x)[Len(s) + 1] = x
<1>1. PICK S : s \in Seq(S) BY DEF IsSeq
<1> DEFINE T == S \cup {x}
<1>2. s \in Seq(T) /\ x \in T BY <1>1
<1> HIDE DEF T
<1> QED BY <1>2, AppendProperties, LenProperties DEF IsSeq

(* A path with one more name, name by name. *)
LEMMA NameTaken ==
  ASSUME NEW s \in Seq(Names), s # <<>>, NEW n \in Names
  PROVE  /\ Append(s, n) # <<>> /\ Head(Append(s, n)) = Head(s)
         /\ Tail(Append(s, n)) = Append(Tail(s), n) /\ Tail(s) \in Seq(Names)
         /\ Len(Append(s, n)) > 1
<1>1. Len(s) \in Nat \ {0} /\ Append(s, n) \in Seq(Names) /\ Len(Append(s, n)) = Len(s) + 1
  BY AppendProperties, EmptySeq, LenProperties
<1>2. Append(s, n) # <<>> BY <1>1, EmptySeq
<1> QED BY <1>1, <1>2, HeadTailAppend, HeadTailProperties

LEMMA OneName ==
  ASSUME NEW n \in Names
  PROVE  /\ Append(<<>>, n) # <<>> /\ Head(Append(<<>>, n)) = n
         /\ Tail(Append(<<>>, n)) = <<>> /\ Len(Append(<<>>, n)) = 1
<1> DEFINE e == <<>>
<1>1. e \in Seq(Names) /\ Len(e) = 0 OBVIOUS
<1>2. Append(e, n) \in Seq(Names) /\ Len(Append(e, n)) = 1 BY <1>1, AppendProperties
<1>3. Append(e, n) # <<>> BY <1>2, EmptySeq
<1>4. Head(Append(e, n)) = n /\ Tail(Append(e, n)) = <<>> BY <1>1, HeadTailAppend
<1> QED BY <1>2, <1>3, <1>4

-----------------------------------------------------------------------------
(* A walk, place by place.                                                  *)

At(at, names, hops) == [at |-> at, names |-> names, hops |-> hops]
Walked(w, t, path, n) ==
  w = [k \in 0 .. n |-> IF k = 0 THEN At(<<>>, path, MaxLinks) ELSE Onward(t, w[k - 1])]
Steps(path) == Len(path) + MaxLinks * PathMax

LEMMA AtIs ==
  ASSUME NEW at, NEW names, NEW hops
  PROVE  /\ At(at, names, hops).at = at /\ At(at, names, hops).names = names
         /\ At(at, names, hops).hops = hops
BY DEF At

LEMMA WalkedExists ==
  ASSUME NEW t, NEW path, NEW n \in Nat
  PROVE  \E w : Walked(w, t, path, n)
<1> DEFINE T == {k \in Nat : \E w : Walked(w, t, path, k)}
<1>1. 0 \in T
  <2> DEFINE w == [k \in 0 .. 0 |-> At(<<>>, path, MaxLinks)]
  <2>1. w = [k \in 0 .. 0 |-> IF k = 0 THEN At(<<>>, path, MaxLinks) ELSE Onward(t, w[k - 1])]
    OBVIOUS
  <2> QED BY <2>1 DEF Walked
<1>2. ASSUME NEW k \in Nat, k \in T PROVE k + 1 \in T
  <2>1. PICK w : Walked(w, t, path, k) BY <1>2
  <2> DEFINE last == Onward(t, w[k])
             g == [i \in 0 .. k + 1 |-> IF i = k + 1 THEN last ELSE w[i]]
  <2> HIDE DEF last
  <2>2. ASSUME NEW i \in 0 .. k + 1
        PROVE  g[i] = IF i = 0 THEN At(<<>>, path, MaxLinks) ELSE Onward(t, g[i - 1])
    <3>1. CASE i = 0 BY <2>1, <3>1 DEF Walked
    <3>2. CASE i = k + 1
      <4>1. i # 0 /\ i - 1 = k /\ g[i] = last /\ g[k] = w[k] BY <3>2
      <4> QED BY <4>1 DEF last
    <3>3. CASE i # 0 /\ i # k + 1
      <4>1. i \in 0 .. k /\ i - 1 \in 0 .. k /\ g[i] = w[i] /\ g[i - 1] = w[i - 1] BY <3>3
      <4> QED BY <2>1, <3>3, <4>1 DEF Walked
    <3> QED BY <3>1, <3>2, <3>3
  <2>3. g = [i \in 0 .. k + 1 |-> g[i]] OBVIOUS
  <2> HIDE DEF g
  <2>4. Walked(g, t, path, k + 1) BY <2>2, <2>3 DEF Walked
  <2> QED BY <2>4
<1> HIDE DEF T
<1>3. n \in T BY <1>1, <1>2, Induction
<1> QED BY <1>3 DEF T

LEMMA WalkIs ==
  ASSUME NEW t, NEW path \in Seq(Names)
  PROVE  /\ Steps(path) \in Nat
         /\ \E w : /\ Walked(w, t, path, Steps(path))
                   /\ Walk(t, path) = IF w[Steps(path)].names = <<>> THEN w[Steps(path)].at
                                      ELSE Nowhere
<1>1. Steps(path) \in Nat
  <2>1. Len(path) \in Nat /\ PathMax \in Nat BY FileAssumption
  <2> QED BY <2>1 DEF Steps, MaxLinks
<1>2. \E w : Walked(w, t, path, Steps(path)) BY <1>1, WalkedExists
<1>3. \E w : /\ Walked(w, t, path, Steps(path))
             /\ Walk(t, path) = IF w[Steps(path)].names = <<>> THEN w[Steps(path)].at ELSE Nowhere
  BY <1>2 DEF Walk, Walked, At, Steps
<1> QED BY <1>1, <1>3

LEMMA WalkedStep ==
  ASSUME NEW w, NEW t, NEW path, NEW n \in Nat, Walked(w, t, path, n)
  PROVE  /\ w[0] = At(<<>>, path, MaxLinks)
         /\ \A k \in Nat : k + 1 <= n => w[k + 1] = Onward(t, w[k])
<1>1. w[0] = At(<<>>, path, MaxLinks) BY DEF Walked
<1>2. ASSUME NEW k \in Nat, k + 1 <= n PROVE w[k + 1] = Onward(t, w[k])
  <2>1. k + 1 \in 0 .. n /\ k + 1 # 0 /\ (k + 1) - 1 = k BY <1>2
  <2> QED BY <2>1 DEF Walked
<1> QED BY <1>1, <1>2

(* Every step of a walk does one of four things.                            *)
Ahead(t, w) == Append(w.at, Head(w.names))
LEMMA OnwardIs ==
  ASSUME NEW t, NEW w
  PROVE  \/ w.names = <<>> /\ Onward(t, w) = w
         \/ /\ w.names # <<>> /\ Kind(t, Ahead(t, w)) = "dir"
            /\ Onward(t, w) = At(Ahead(t, w), Tail(w.names), w.hops)
         \/ /\ w.names # <<>> /\ Kind(t, Ahead(t, w)) = "link" /\ w.hops > 0
            /\ Onward(t, w) = At(<<>>, t[Ahead(t, w)].to \o Tail(w.names), w.hops - 1)
         \/ /\ w.names # <<>> /\ Kind(t, Ahead(t, w)) # "dir"
            /\ ~(Kind(t, Ahead(t, w)) = "link" /\ w.hops > 0)
            /\ Onward(t, w) =
                 At(IF Kind(t, Ahead(t, w)) # "link" /\ Len(w.names) = 1 THEN Ahead(t, w)
                    ELSE Nowhere, <<>>, w.hops)
<1> DEFINE q == Append(w.at, Head(w.names))
           k == Kind(t, q)
<1>1. CASE w.names = <<>> BY <1>1 DEF Onward
<1>2. CASE w.names # <<>> /\ k = "dir" BY <1>2 DEF Onward, At, Ahead
<1>3. CASE w.names # <<>> /\ k = "link" /\ w.hops > 0 BY <1>3 DEF Onward, At, Ahead
<1>4. CASE w.names # <<>> /\ k # "dir" /\ ~(k = "link" /\ w.hops > 0) BY <1>4 DEF Onward, At, Ahead
<1> QED BY <1>1, <1>2, <1>3, <1>4

-----------------------------------------------------------------------------
(* Where walks lead.                                                       *)

Paths == Seq(Names) \ {<<>>}
TreeOK(t) ==
  /\ DOMAIN t \subseteq Paths
  /\ \A q \in DOMAIN t : /\ t[q].kind \in {"dir", "file", "link"}
                         /\ t[q].kind = "link" => t[q].to \in Seq(Names)

(* A walk gets on only from a directory; elsewhere it is over.              *)
Open(t, d) == Kind(t, d) = "dir"
Lost(t, w) == w.names = <<>> /\ ~Open(t, w.at)

LEMMA NowhereIs == IsSeq(<<>>) /\ IsSeq(Nowhere) /\ Nowhere # <<>>
<1>1. <<>> \in Seq({Null}) /\ <<Null>> \in Seq({Null}) OBVIOUS
<1>2. Len(<<Null>>) = 1 OBVIOUS
<1>3. <<Null>> # <<>>
  <2> DEFINE z == <<Null>>
  <2>1. z \in Seq({Null}) /\ Len(z) = 1 BY <1>1, <1>2
  <2> HIDE DEF z
  <2>2. z # <<>> BY <2>1, EmptySeq
  <2> QED BY <2>2 DEF z
<1> QED BY <1>1, <1>3 DEF IsSeq, Nowhere

LEMMA NowhereIsNoPath == Nowhere \notin Seq(Names)
<1> SUFFICES ASSUME <<Null>> \in Seq(Names) PROVE FALSE BY DEF Nowhere
<1> DEFINE z == <<Null>>
<1>1. z \in Seq(Names) /\ Len(z) = 1 /\ z[1] = Null OBVIOUS
<1> HIDE DEF z
<1>2. z[1] \in Names BY <1>1, ElementOfSeq
<1> QED BY <1>1, <1>2, FileAssumption

LEMMA KindIs ==
  ASSUME NEW t, TreeOK(t), NEW q
  PROVE  /\ q # <<>> => Kind(t, q) = IF q \in DOMAIN t THEN t[q].kind ELSE "none"
         /\ Kind(t, q) \in {"none", "dir", "file", "link"}
         /\ q # <<>> => (q \in DOMAIN t <=> Kind(t, q) # "none")
         /\ q \in DOMAIN t => q \in Paths /\ Kind(t, q) # "none"
         /\ Kind(t, q) = "link" => q \in DOMAIN t /\ t[q].to \in Seq(Names)
         /\ Open(t, <<>>) /\ ~Open(t, Nowhere)
<1>1. Kind(t, q) = IF q = <<>> THEN "dir" ELSE IF q \in DOMAIN t THEN t[q].kind ELSE "none"
  BY DEF Kind
<1>2. Nowhere \notin DOMAIN t BY NowhereIsNoPath DEF TreeOK, Paths
<1>3. Open(t, <<>>) /\ ~Open(t, Nowhere) BY <1>2, NowhereIs DEF Open, Kind
<1>4. CASE q \in DOMAIN t
  <2>1. /\ q \in Paths /\ t[q].kind \in {"dir", "file", "link"}
        /\ t[q].kind = "link" => t[q].to \in Seq(Names)
    BY <1>4 DEF TreeOK
  <2>2. q # <<>> BY <2>1 DEF Paths
  <2> QED BY <1>1, <1>3, <1>4, <2>1, <2>2
<1>5. CASE q \notin DOMAIN t BY <1>1, <1>3, <1>5
<1> QED BY <1>4, <1>5

LEMMA PlacesAreSeqs ==
  ASSUME NEW t, NEW path, NEW n \in Nat, NEW w, Walked(w, t, path, n)
  PROVE  \A k \in Nat : k <= n => IsSeq(w[k].at)
<1> DEFINE T == {k \in Nat : k <= n => IsSeq(w[k].at)}
<1>1. 0 \in T
  <2>0. w[0] = At(<<>>, path, MaxLinks) BY WalkedStep
  <2>1. w[0].at = <<>> BY <2>0 DEF At
  <2> QED BY <2>1, NowhereIs
<1>2. ASSUME NEW k \in Nat, k \in T PROVE k + 1 \in T
  <2> SUFFICES ASSUME k + 1 <= n PROVE IsSeq(w[k + 1].at) OBVIOUS
  <2>1. IsSeq(w[k].at) BY <1>2
  <2>2. w[k + 1] = Onward(t, w[k]) BY WalkedStep
  <2>3. IsSeq(Ahead(t, w[k])) BY <2>1, AppendIs DEF Ahead
  <2>5. Onward(t, w[k]).at \in {w[k].at, Ahead(t, w[k]), <<>>, Nowhere}
    BY OnwardIs, AtIs
  <2>4. w[k + 1].at \in {w[k].at, Ahead(t, w[k]), <<>>, Nowhere} BY <2>2, <2>5
  <2> QED BY NowhereIs, <2>1, <2>3, <2>4
<1> HIDE DEF T
<1>3. \A k \in Nat : k \in T BY <1>1, <1>2, Induction
<1> QED BY <1>3 DEF T

LEMMA NoEmptyAppend ==
  ASSUME NEW d, IsSeq(d), NEW n
  PROVE  Append(d, n) # <<>>
<1>1. Len(d) \in Nat /\ Len(Append(d, n)) = Len(d) + 1 BY AppendIs
<1>2. Len(<<>>) = 0 OBVIOUS
<1> QED BY <1>1, <1>2

LEMMA AheadIs ==
  ASSUME NEW t, NEW w, IsSeq(w.at)
  PROVE  Ahead(t, w) # <<>>
BY NoEmptyAppend DEF Ahead

(* A directory that was reached stays where it is while the tree grows.     *)
Grows(t, u) == DOMAIN t \subseteq DOMAIN u /\ \A q \in DOMAIN t : u[q] = t[q]

LEMMA GrownKind ==
  ASSUME NEW t, TreeOK(t), NEW u, Grows(t, u), NEW q, Kind(t, q) # "none"
  PROVE  Kind(u, q) = Kind(t, q) /\ (q # <<>> => u[q] = t[q])
BY KindIs DEF Grows, Kind

LEMMA WalkStays ==
  ASSUME NEW t, TreeOK(t), NEW u, Grows(t, u), NEW path \in Seq(Names),
         Open(t, Walk(t, path))
  PROVE  Walk(u, path) = Walk(t, path)
<1> DEFINE n == Steps(path)
<1>1. PICK w : /\ Walked(w, t, path, n)
               /\ Walk(t, path) = IF w[n].names = <<>> THEN w[n].at ELSE Nowhere
  BY WalkIs
<1>2. PICK v : /\ Walked(v, u, path, n)
               /\ Walk(u, path) = IF v[n].names = <<>> THEN v[n].at ELSE Nowhere
  BY WalkIs
<1>3. n \in Nat BY WalkIs
<1> HIDE DEF n
<1> DEFINE T == {k \in Nat : k <= n => v[k] = w[k] \/ Lost(t, w[k])}
<1>4. 0 \in T BY <1>1, <1>2, <1>3, WalkedStep
<1>5. ASSUME NEW k \in Nat, k \in T PROVE k + 1 \in T
  <2> SUFFICES ASSUME k + 1 <= n, ~Lost(t, w[k + 1]) PROVE v[k + 1] = w[k + 1] OBVIOUS
  <2> DEFINE q == Ahead(t, w[k])
  <2>1. w[k + 1] = Onward(t, w[k]) /\ v[k + 1] = Onward(u, v[k])
    BY <1>1, <1>2, <1>3, WalkedStep
  <2>2. v[k] = w[k] \/ Lost(t, w[k]) BY <1>3, <1>5
  <2>3. CASE w[k].names = <<>>
    <3>1. w[k + 1] = w[k] BY <2>1, <2>3, OnwardIs
    <3>2. v[k] = w[k] BY <2>2, <3>1
    <3>3. v[k + 1] = v[k] BY <2>1, <2>3, <3>2, OnwardIs
    <3> QED BY <3>1, <3>2, <3>3
  <2>4. CASE w[k].names # <<>>
    <3>1. v[k] = w[k] BY <2>2, <2>4 DEF Lost
    <3>2. \/ Kind(t, q) = "dir" /\ w[k + 1] = At(q, Tail(w[k].names), w[k].hops)
          \/ /\ Kind(t, q) = "link" /\ w[k].hops > 0
             /\ w[k + 1] = At(<<>>, t[q].to \o Tail(w[k].names), w[k].hops - 1)
      <4>1. SUFFICES ASSUME Kind(t, q) # "dir",
                            w[k + 1] = At(IF Kind(t, q) # "link" /\ Len(w[k].names) = 1 THEN q
                                          ELSE Nowhere, <<>>, w[k].hops)
                     PROVE  FALSE
        BY <2>1, <2>4, OnwardIs
      <4>2. q # <<>> \/ q = <<>> OBVIOUS
      <4>3. w[k + 1].names = <<>> /\ w[k + 1].at \in {q, Nowhere} BY <4>1 DEF At
      <4>4. ~Open(t, Nowhere) BY KindIs
      <4> QED BY <2>4, <4>1, <4>3, <4>4 DEF Lost, Open
    <3>2a. q # <<>>
      <4>1. k \in Nat /\ k <= n BY <1>3
      <4>2. IsSeq(w[k].at) BY <1>1, <1>3, <4>1, PlacesAreSeqs
      <4> QED BY <4>2, AheadIs
    <3>3. Kind(u, q) = Kind(t, q) /\ u[q] = t[q] BY <3>2, <3>2a, GrownKind
    <3>4. Ahead(u, v[k]) = Ahead(t, w[k]) BY <3>1 DEF Ahead
    <3>5. v[k + 1] = Onward(u, w[k]) BY <2>1, <3>1
    <3>6. Ahead(u, w[k]) = q BY <3>1, <3>4
    <3> HIDE DEF q
    <3>7. CASE Kind(t, q) = "dir" /\ w[k + 1] = At(q, Tail(w[k].names), w[k].hops)
      BY <2>4, <3>3, <3>5, <3>6, <3>7, OnwardIs
    <3>8. CASE /\ Kind(t, q) = "link" /\ w[k].hops > 0
               /\ w[k + 1] = At(<<>>, t[q].to \o Tail(w[k].names), w[k].hops - 1)
      <4>1. Onward(u, w[k]) = At(<<>>, u[q].to \o Tail(w[k].names), w[k].hops - 1)
        BY <2>4, <3>3, <3>6, <3>8, OnwardIs
      <4> QED BY <3>3, <3>5, <3>8, <4>1
    <3> QED BY <3>2, <3>7, <3>8
  <2> QED BY <2>3, <2>4
<1> HIDE DEF T
<1>6. v[n] = w[n] \/ Lost(t, w[n])
  <2>1. n \in T BY <1>3, <1>4, <1>5, Induction
  <2> QED BY <1>3, <2>1 DEF T
<1>7. ~Lost(t, w[n]) BY <1>1, KindIs DEF Lost
<1> QED BY <1>1, <1>2, <1>6, <1>7
-----------------------------------------------------------------------------
(* The walk along a path is the walk along all but its last name and, if   *)
(* that one leads to a directory, one name more.                           *)
Abreast(t, n, w, v) ==
  /\ w.names \in Seq(Names) /\ v = At(w.at, Append(w.names, n), w.hops)
  /\ w.names = <<>> => Open(t, w.at)
Reached(t, n, w, v) ==
  /\ w.names = <<>> /\ Open(t, w.at)
  /\ Kind(t, Append(w.at, n)) # "link" => v.names = <<>> /\ v.at = Append(w.at, n)
Astray(t, w, v) == w.names = <<>> /\ ~Open(t, w.at) /\ v.names = <<>> /\ v.at = Nowhere
Along(t, n, w, v) == Abreast(t, n, w, v) \/ Reached(t, n, w, v) \/ Astray(t, w, v)

LEMMA AlongStep ==
  ASSUME NEW t, TreeOK(t), NEW n \in Names, NEW w, NEW v, IsSeq(w.at), Along(t, n, w, v)
  PROVE  \/ Astray(t, Onward(t, w), Onward(t, v))
         \/ w.names # <<>> /\ Abreast(t, n, Onward(t, w), Onward(t, v))
         \/ w.names = <<>> /\ Reached(t, n, Onward(t, w), Onward(t, v))
<1> DEFINE q == Append(w.at, n)
<1>1. CASE /\ w.names \in Seq(Names) /\ w.names # <<>>
           /\ v = At(w.at, Append(w.names, n), w.hops)
  <2> DEFINE p == Ahead(t, w)
             s == Tail(w.names)
             r == Append(w.names, n)
  <2>1. /\ r # <<>> /\ Head(r) = Head(w.names) /\ Tail(r) = Append(s, n)
        /\ s \in Seq(Names) /\ Len(r) > 1
    BY <1>1, NameTaken
  <2>2. v.at = w.at /\ v.names = r /\ v.hops = w.hops
    <3>1. v = At(w.at, r, w.hops) BY <1>1
    <3> HIDE DEF r
    <3> QED BY <3>1, AtIs
  <2>3. Ahead(t, v) = p BY <2>1, <2>2 DEF Ahead
  <2>4. p # <<>> BY AheadIs
  <2> HIDE DEF p, s, r
  <2>5. CASE Kind(t, p) = "dir"
    <3>1. Onward(t, w) = At(p, s, w.hops) BY <1>1, <2>5, OnwardIs DEF p, s
    <3>2. Onward(t, v) = At(p, Append(s, n), w.hops) BY <2>1, <2>2, <2>3, <2>5, OnwardIs
    <3>3. /\ Onward(t, w).at = p /\ Onward(t, w).names = s /\ Onward(t, w).hops = w.hops
      BY <3>1, AtIs
    <3>4. Open(t, p) BY <2>5 DEF Open
    <3> QED BY <1>1, <2>1, <3>2, <3>3, <3>4 DEF Abreast
  <2>6. CASE Kind(t, p) = "link" /\ w.hops > 0
    <3> DEFINE to == t[p].to
    <3>1. to \in Seq(Names) BY <2>6, KindIs
    <3>2. Onward(t, w) = At(<<>>, to \o s, w.hops - 1) BY <1>1, <2>6, OnwardIs DEF p, s
    <3>3. Onward(t, v) = At(<<>>, to \o Append(s, n), w.hops - 1)
      BY <2>1, <2>2, <2>3, <2>6, OnwardIs
    <3> HIDE DEF to
    <3>4. to \o s \in Seq(Names) /\ to \o Append(s, n) = Append(to \o s, n)
      <4>1. to \o s \in Seq(Names) /\ <<n>> \in Seq(Names) BY <2>1, <3>1, ConcatProperties
      <4>2. Append(s, n) = s \o <<n>> BY <2>1, AppendIsConcat
      <4>3. Append(to \o s, n) = (to \o s) \o <<n>> BY <4>1, AppendIsConcat
      <4>4. to \o (s \o <<n>>) = (to \o s) \o <<n>> BY <2>1, <3>1, <4>1, ConcatAssociative
      <4> QED BY <4>1, <4>2, <4>3, <4>4
    <3>5. /\ Onward(t, w).at = <<>> /\ Onward(t, w).names = to \o s
          /\ Onward(t, w).hops = w.hops - 1
      <4> DEFINE m == to \o s
                 h == w.hops - 1
      <4>1. Onward(t, w) = At(<<>>, m, h) BY <3>2
      <4> HIDE DEF m, h
      <4>2. Onward(t, w).at = <<>> /\ Onward(t, w).names = m /\ Onward(t, w).hops = h
        BY <4>1, AtIs
      <4> QED BY <4>2 DEF m, h
    <3>6. Onward(t, v) = At(<<>>, Append(to \o s, n), w.hops - 1) BY <3>3, <3>4
    <3>7. Open(t, <<>>) BY KindIs
    <3> DEFINE m == to \o s
               h == w.hops - 1
               o == Onward(t, w)
    <3>8. /\ o.at = <<>> /\ o.names = m /\ o.hops = h /\ m \in Seq(Names)
          /\ Onward(t, v) = At(<<>>, Append(m, n), h)
      BY <3>4, <3>5, <3>6
    <3> HIDE DEF m, h, o
    <3>9. Abreast(t, n, o, Onward(t, v)) BY <3>7, <3>8 DEF Abreast
    <3> QED BY <1>1, <3>9 DEF o
  <2>7. CASE Kind(t, p) # "dir" /\ ~(Kind(t, p) = "link" /\ w.hops > 0)
    <3>1. \E d \in {p, Nowhere} : Onward(t, w) = At(d, <<>>, w.hops)
      BY <1>1, <2>7, OnwardIs DEF p
    <3>2. Onward(t, v) = At(Nowhere, <<>>, w.hops)
      BY <2>1, <2>2, <2>3, <2>7, OnwardIs
    <3>3. Onward(t, v).at = Nowhere /\ Onward(t, v).names = <<>> BY <3>2, AtIs
    <3>4. Onward(t, w).at \in {p, Nowhere} /\ Onward(t, w).names = <<>> BY <3>1, AtIs
    <3>5. ~Open(t, p) /\ ~Open(t, Nowhere) BY <2>4, <2>7, KindIs DEF Open
    <3> QED BY <3>3, <3>4, <3>5 DEF Astray
  <2> QED BY <2>5, <2>6, <2>7
<1>2. CASE /\ w.names = <<>> /\ Open(t, w.at)
           /\ v = At(w.at, Append(w.names, n), w.hops)
  <2>1. Onward(t, w) = w BY <1>2, OnwardIs
  <2>2. v.at = w.at /\ v.names = Append(<<>>, n) /\ v.hops = w.hops BY <1>2, AtIs
  <2>3. Ahead(t, v) = q BY <2>2, OneName DEF Ahead
  <2>4. v.names # <<>> /\ Tail(v.names) = <<>> /\ Len(v.names) = 1 BY <2>2, OneName
  <2> HIDE DEF q
  <2>5. ASSUME Kind(t, q) # "link" PROVE Onward(t, v) = At(q, <<>>, v.hops)
    BY <2>3, <2>4, <2>5, OnwardIs
  <2>6. Kind(t, q) # "link" => Onward(t, v).names = <<>> /\ Onward(t, v).at = q
    BY <2>5, AtIs
  <2> QED BY <1>2, <2>1, <2>6 DEF Reached, q
<1>3. CASE /\ w.names = <<>> /\ Open(t, w.at)
           /\ Kind(t, q) # "link" => v.names = <<>> /\ v.at = q
  <2>1. Onward(t, w) = w BY <1>3, OnwardIs
  <2>2. Kind(t, q) # "link" => Onward(t, v) = v BY <1>3, OnwardIs
  <2> QED BY <1>3, <2>1, <2>2 DEF Reached
<1>4. CASE w.names = <<>> /\ ~Open(t, w.at) /\ v.names = <<>> /\ v.at = Nowhere
  <2>1. Onward(t, w) = w BY <1>4, OnwardIs
  <2>2. Onward(t, v) = v BY <1>4, OnwardIs
  <2> QED BY <1>4, <2>1, <2>2 DEF Astray
<1> QED BY <1>1, <1>2, <1>3, <1>4 DEF Along, Abreast, Reached, Astray

LEMMA WalkLast ==
  ASSUME NEW t, TreeOK(t), NEW front \in Seq(Names), NEW n \in Names
  PROVE  LET d == Walk(t, front)
             q == Append(d, n)
         IN  \/ ~Open(t, d) /\ Walk(t, Append(front, n)) = Nowhere
             \/ Open(t, d) /\ (Kind(t, q) # "link" => Walk(t, Append(front, n)) = q)
<1> DEFINE full == Append(front, n)
           N == Steps(front)
<1>1. full \in Seq(Names) /\ Len(full) = Len(front) + 1 BY AppendProperties
<1>2. N \in Nat BY WalkIs
<1>3. Steps(full) = N + 1
  <2>1. Len(front) \in Nat /\ PathMax \in Nat BY FileAssumption
  <2> QED BY <1>1, <2>1 DEF Steps, MaxLinks
<1>4. PICK w : /\ Walked(w, t, front, N)
               /\ Walk(t, front) = IF w[N].names = <<>> THEN w[N].at ELSE Nowhere
  BY WalkIs
<1> HIDE DEF N
<1>5. PICK v : /\ Walked(v, t, full, N + 1)
               /\ Walk(t, full) = IF v[N + 1].names = <<>> THEN v[N + 1].at ELSE Nowhere
  BY <1>1, <1>3, WalkIs
<1> DEFINE T == {k \in Nat : k <= N => Along(t, n, w[k], v[k])}
<1>6. 0 \in T
  <2>1. w[0] = At(<<>>, front, MaxLinks) BY <1>2, <1>4, WalkedStep
  <2>2. v[0] = At(<<>>, full, MaxLinks) BY <1>2, <1>5, WalkedStep
  <2>3. w[0].at = <<>> /\ w[0].names = front /\ w[0].hops = MaxLinks BY <2>1, AtIs
  <2>4. Open(t, <<>>) BY KindIs
  <2>5. Along(t, n, w[0], v[0]) BY <2>2, <2>3, <2>4 DEF Along, Abreast
  <2> QED BY <2>5
<1>7. ASSUME NEW k \in Nat, k \in T PROVE k + 1 \in T
  <2> SUFFICES ASSUME k + 1 <= N PROVE Along(t, n, w[k + 1], v[k + 1]) OBVIOUS
  <2>1. k <= N /\ k + 1 <= N + 1 BY <1>2
  <2>2. w[k + 1] = Onward(t, w[k]) BY <1>2, <1>4, WalkedStep
  <2>3. v[k + 1] = Onward(t, v[k]) BY <1>2, <1>5, <2>1, WalkedStep
  <2>4. IsSeq(w[k].at) BY <1>2, <1>4, <2>1, PlacesAreSeqs
  <2>5. Along(t, n, w[k], v[k]) BY <1>7, <2>1
  <2>6. Along(t, n, Onward(t, w[k]), Onward(t, v[k])) BY <2>4, <2>5, AlongStep DEF Along
  <2> QED BY <2>2, <2>3, <2>6
<1>8. Along(t, n, w[N], v[N])
  <2> HIDE DEF T
  <2>1. N \in T BY <1>2, <1>6, <1>7, Induction
  <2> QED BY <1>2, <2>1 DEF T
<1> DEFINE o == Onward(t, w[N])
<1>9. \/ Astray(t, o, v[N + 1])
      \/ w[N].names # <<>> /\ Abreast(t, n, o, v[N + 1])
      \/ w[N].names = <<>> /\ Reached(t, n, o, v[N + 1])
  <2>1. v[N + 1] = Onward(t, v[N]) BY <1>2, <1>5, WalkedStep
  <2>2. IsSeq(w[N].at) BY <1>2, <1>4, PlacesAreSeqs
  <2> QED BY <1>8, <2>1, <2>2, AlongStep
<1> HIDE DEF full
<1>10. CASE w[N].names = <<>>
  <2>1. o = w[N] /\ Walk(t, front) = w[N].at BY <1>4, <1>10, OnwardIs
  <2>2. CASE Astray(t, w[N], v[N + 1]) BY <1>5, <2>1, <2>2 DEF Astray, full
  <2>3. CASE Reached(t, n, w[N], v[N + 1]) BY <1>5, <2>1, <2>3 DEF Reached, full
  <2> QED BY <1>9, <1>10, <2>1, <2>2, <2>3
<1>11. CASE w[N].names # <<>>
  <2>1. Walk(t, front) = Nowhere /\ ~Open(t, Nowhere) BY <1>4, <1>11, KindIs
  <2>2. Walk(t, full) = Nowhere
    <3>1. CASE Astray(t, o, v[N + 1]) BY <1>5, <3>1 DEF Astray
    <3>2. CASE Abreast(t, n, o, v[N + 1])
      <4>1. v[N + 1].names = Append(o.names, n) /\ o.names \in Seq(Names)
        <5>1. v[N + 1] = At(o.at, Append(o.names, n), o.hops) BY <3>2 DEF Abreast
        <5> HIDE DEF o
        <5> DEFINE r == Append(o.names, n)
        <5>2. v[N + 1] = At(o.at, r, o.hops) BY <5>1
        <5> HIDE DEF r
        <5>3. v[N + 1].names = r BY <5>2, AtIs
        <5> QED BY <3>2, <5>3 DEF Abreast, r
      <4>2. v[N + 1].names # <<>>
        <5> DEFINE m == o.names
        <5>1. m \in Seq(Names) /\ v[N + 1].names = Append(m, n) BY <4>1
        <5> HIDE DEF m
        <5>2. CASE m = <<>> BY <5>1, <5>2, OneName
        <5>3. CASE m # <<>> BY <5>1, <5>3, NameTaken
        <5> QED BY <5>2, <5>3
      <4> QED BY <1>5, <4>2
    <3> QED BY <1>9, <1>11, <3>1, <3>2
  <2> QED BY <2>1, <2>2 DEF full
<1> QED BY <1>10, <1>11
-----------------------------------------------------------------------------
(* The part of a path that mkdir_p is about, one name after the other.     *)
LEMMA UptoIs ==
  ASSUME NEW path \in Seq(Names), NEW i \in 1 .. Len(path)
  PROVE  /\ i \in Nat \ {0} /\ path[i] \in Names
         /\ Upto(path, i - 1) \in Seq(Names) /\ Upto(path, i) \in Seq(Names)
         /\ Len(Upto(path, i)) = i
         /\ Upto(path, i) = Append(Upto(path, i - 1), path[i])
         /\ Front(Upto(path, i)) = Upto(path, i - 1) /\ Last(Upto(path, i)) = path[i]
<1> DEFINE f == Upto(path, i - 1)
           u == Upto(path, i)
           a == Append(f, path[i])
<1>1. Len(path) \in Nat /\ i \in Nat \ {0} /\ i - 1 \in Nat /\ i <= Len(path)
  BY LenProperties
<1>2. \A j \in 1 .. Len(path) : path[j] \in Names BY ElementOfSeq
<1>3. f \in Seq(Names) /\ Len(f) = i - 1 /\ \A j \in 1 .. i - 1 : f[j] = path[j]
  <2>1. \A j \in 1 .. i - 1 : path[j] \in Names BY <1>1, <1>2
  <2>2. /\ f \in Seq(Names) /\ Len(f) = IF 1 <= i - 1 THEN (i - 1) - 1 + 1 ELSE 0
        /\ \A j \in 1 .. (i - 1) - 1 + 1 : f[j] = path[1 + j - 1]
    BY <1>1, <2>1, SubSeqProperties DEF Upto
  <2> QED BY <1>1, <2>2
<1>4. u \in Seq(Names) /\ Len(u) = i /\ \A j \in 1 .. i : u[j] = path[j]
  <2>1. \A j \in 1 .. i : path[j] \in Names BY <1>1, <1>2
  <2>2. /\ u \in Seq(Names) /\ Len(u) = IF 1 <= i THEN i - 1 + 1 ELSE 0
        /\ \A j \in 1 .. i - 1 + 1 : u[j] = path[1 + j - 1]
    BY <1>1, <2>1, SubSeqProperties DEF Upto
  <2> QED BY <1>1, <2>2
<1>5. a \in Seq(Names) /\ Len(a) = i /\ \A j \in 1 .. i : a[j] = path[j]
  <2> HIDE DEF f
  <2>1. /\ a \in Seq(Names) /\ Len(a) = Len(f) + 1
        /\ \A j \in 1 .. Len(f) : a[j] = f[j]
        /\ a[Len(f) + 1] = path[i]
    BY <1>2, <1>3, AppendProperties
  <2> QED BY <1>1, <1>3, <2>1
<1>6. u = a
  <2> HIDE DEF a, u
  <2> QED BY <1>4, <1>5, SeqEqual
<1>7. Front(u) = f
  <2> DEFINE g == SubSeq(u, 1, i - 1)
  <2>1. \A j \in 1 .. i - 1 : u[j] \in Names BY <1>1, <1>2, <1>4
  <2> HIDE DEF u
  <2>2. /\ g \in Seq(Names) /\ Len(g) = IF 1 <= i - 1 THEN (i - 1) - 1 + 1 ELSE 0
        /\ \A j \in 1 .. (i - 1) - 1 + 1 : g[j] = u[1 + j - 1]
    BY <1>1, <2>1, SubSeqProperties
  <2>3. Len(g) = i - 1 /\ \A j \in 1 .. i - 1 : g[j] = path[j] BY <1>1, <1>4, <2>2
  <2> HIDE DEF g, f
  <2>4. g = f BY <1>3, <2>2, <2>3, SeqEqual
  <2> QED BY <1>4, <2>4 DEF Front, g
<1>8. Last(u) = path[i] BY <1>1, <1>4 DEF Last
<1> HIDE DEF f, u, a
<1> QED BY <1>1, <1>2, <1>3, <1>4, <1>6, <1>7, <1>8 DEF f, u, a

LEMMA WalkIsSeq ==
  ASSUME NEW t, NEW path \in Seq(Names)
  PROVE  IsSeq(Walk(t, path))
<1>1. PICK w : /\ Walked(w, t, path, Steps(path))
               /\ Walk(t, path) = IF w[Steps(path)].names = <<>> THEN w[Steps(path)].at
                                  ELSE Nowhere
  BY WalkIs
<1>2. Steps(path) \in Nat /\ Steps(path) <= Steps(path) BY WalkIs
<1>3. IsSeq(w[Steps(path)].at) BY <1>1, <1>2, PlacesAreSeqs
<1> QED BY <1>1, <1>3, NowhereIs

LEMMA WalkNothing ==
  ASSUME NEW t
  PROVE  Walk(t, <<>>) = <<>>
<1> DEFINE n == Steps(<<>>)
<1>0. <<>> \in Seq(Names) OBVIOUS
<1>1. PICK w : /\ Walked(w, t, <<>>, n)
               /\ Walk(t, <<>>) = IF w[n].names = <<>> THEN w[n].at ELSE Nowhere
  BY <1>0, WalkIs
<1>2. n \in Nat BY <1>0, WalkIs
<1> HIDE DEF n
<1> DEFINE T == {k \in Nat : k <= n => w[k].names = <<>> /\ w[k].at = <<>>}
<1>3. 0 \in T
  <2>1. w[0] = At(<<>>, <<>>, MaxLinks) BY <1>1, <1>2, WalkedStep
  <2> QED BY <2>1, AtIs
<1>4. ASSUME NEW k \in Nat, k \in T PROVE k + 1 \in T
  <2> SUFFICES ASSUME k + 1 <= n PROVE w[k + 1].names = <<>> /\ w[k + 1].at = <<>> OBVIOUS
  <2>1. w[k].names = <<>> /\ w[k].at = <<>> BY <1>2, <1>4
  <2>2. w[k + 1] = Onward(t, w[k]) BY <1>1, <1>2, WalkedStep
  <2>3. Onward(t, w[k]) = w[k] BY <2>1, OnwardIs
  <2> QED BY <2>1, <2>2, <2>3
<1>5. n \in T
  <2> HIDE DEF T
  <2> QED BY <1>2, <1>3, <1>4, Induction
<1> QED BY <1>1, <1>2, <1>5

-----------------------------------------------------------------------------
(* Where an entry lies, whose path is no longer than it may be.            *)
LEMMA PlaceIs ==
  ASSUME NEW t, TreeOK(t), NEW path \in Seq(Names), NEW i \in 1 .. Len(path), i <= PathMax
  PROVE  LET d == Walk(t, Upto(path, i - 1)) IN
         /\ Place(t, Upto(path, i)) = IF Open(t, d) THEN Append(d, path[i]) ELSE Nowhere
         /\ Append(d, path[i]) # Nowhere
         /\ Real(t, Upto(path, i)) = Walk(t, Upto(path, i))
<1> DEFINE f == Upto(path, i - 1)
           u == Upto(path, i)
           d == Walk(t, f)
<1>1. PathMax \in Nat BY FileAssumption
<1>2. /\ i \in Nat \ {0} /\ path[i] \in Names /\ f \in Seq(Names) /\ Len(u) = i
      /\ Front(u) = f /\ Last(u) = path[i]
  BY UptoIs
<1>3. Len(f) <= PathMax
  <2>1. CASE i = 1
    <3>1. f = <<>> BY <2>1, SubSeqEmpty DEF Upto
    <3>2. Len(<<>>) = 0 OBVIOUS
    <3> QED BY <1>1, <3>1, <3>2
  <2>2. CASE i # 1
    <3>1. i - 1 \in 1 .. Len(path)
      <4>1. Len(path) \in Nat BY LenProperties
      <4> QED BY <2>2, <4>1
    <3>2. Len(f) = i - 1 BY <3>1, UptoIs
    <3> QED BY <1>1, <1>2, <3>2
  <2> QED BY <2>1, <2>2
<1>4. IsSeq(d) BY <1>2, WalkIsSeq
<1>5. Append(d, path[i]) # Nowhere
  <2> SUFFICES ASSUME Append(d, path[i]) = <<Null>> PROVE FALSE BY DEF Nowhere
  <2> DEFINE z == <<Null>>
  <2>1. Len(z) = 1 /\ z[1] = Null OBVIOUS
  <2>2. Append(d, path[i]) = z OBVIOUS
  <2> HIDE DEF z, d
  <2>3. Len(d) \in Nat /\ Len(z) = Len(d) + 1 /\ z[Len(d) + 1] = path[i]
    BY <1>4, <2>2, AppendIs
  <2>4. Len(d) + 1 = 1 BY <2>1, <2>3
  <2>5. path[i] = Null BY <2>1, <2>3, <2>4
  <2> QED BY <1>2, <2>5, FileAssumption
<1>6. Real(t, u) = Walk(t, u) /\ Real(t, f) = d
  <2> HIDE DEF f, u
  <2> QED BY <1>1, <1>2, <1>3 DEF Real, d
<1>7. Place(t, u) = IF Open(t, d) THEN Append(d, path[i]) ELSE Nowhere
  <2> HIDE DEF f, u
  <2>1. Place(t, u) = IF Kind(t, d) # "dir" THEN Nowhere ELSE Append(d, path[i])
    BY <1>1, <1>2, <1>6 DEF Place
  <2> QED BY <2>1 DEF Open
<1> QED BY <1>5, <1>6, <1>7

(* A directory that a path leads to has an entry at its last name, which    *)
(* stays while the tree grows; and where an entry with the next name would  *)
(* lie nowhere, the last name is that of a file or leads to no directory.   *)
LEMMA RealPlace ==
  ASSUME NEW t, TreeOK(t), NEW path \in Seq(Names), NEW i \in 1 .. Len(path),
         Kind(t, Real(t, Upto(path, i))) = "dir"
  PROVE  Place(t, Upto(path, i)) \in DOMAIN t
<1> DEFINE f == Upto(path, i - 1)
           u == Upto(path, i)
           d == Walk(t, f)
           q == Append(d, path[i])
<1>0. PathMax \in Nat BY FileAssumption
<1>1. /\ i \in Nat \ {0} /\ path[i] \in Names /\ f \in Seq(Names) /\ Len(u) = i
      /\ u = Append(f, path[i])
  BY UptoIs
<1>2. ~Open(t, Nowhere) BY KindIs
<1>3. i <= PathMax
  <2>1. Kind(t, Real(t, u)) = "dir" OBVIOUS
  <2> HIDE DEF u
  <2>2. Real(t, u) # Nowhere BY <1>2, <2>1 DEF Open
  <2> QED BY <1>0, <1>1, <2>2 DEF Real
<1>4. Real(t, u) = Walk(t, u) /\ Place(t, u) = IF Open(t, d) THEN q ELSE Nowhere
  BY <1>3, PlaceIs
<1>5. \/ ~Open(t, d) /\ Walk(t, u) = Nowhere
      \/ Open(t, d) /\ (Kind(t, q) # "link" => Walk(t, u) = q)
  BY <1>1, WalkLast
<1>9. q # <<>> BY <1>1, WalkIsSeq, NoEmptyAppend
<1> HIDE DEF q, d, f, u
<1>6. Open(t, d) BY <1>2, <1>4, <1>5 DEF Open, u
<1>7. Kind(t, q) \in {"link", "dir"} BY <1>4, <1>5, <1>6 DEF u
<1>8. q \in DOMAIN t BY <1>7, <1>9, KindIs
<1> QED BY <1>4, <1>6, <1>8 DEF u

LEMMA PlaceStays ==
  ASSUME NEW t, TreeOK(t), NEW u, TreeOK(u), Grows(t, u),
         NEW path \in Seq(Names), NEW i \in 1 .. Len(path),
         Place(t, Upto(path, i)) # Nowhere
  PROVE  Place(u, Upto(path, i)) = Place(t, Upto(path, i))
<1> DEFINE f == Upto(path, i - 1)
           d == Walk(t, f)
<1>0. i <= PathMax
  <2>1. Len(Upto(path, i)) = i /\ i \in Nat /\ PathMax \in Nat BY UptoIs, FileAssumption
  <2> QED BY <2>1 DEF Place
<1>1. f \in Seq(Names) BY UptoIs
<1>2. Place(t, Upto(path, i)) = IF Open(t, d) THEN Append(d, path[i]) ELSE Nowhere
  BY <1>0, PlaceIs
<1>3. Open(t, d) BY <1>2
<1>4. Walk(u, f) = d BY <1>1, <1>3, WalkStays
<1>5. Open(u, d)
  <2> HIDE DEF d
  <2> QED BY <1>3, GrownKind DEF Open
<1>6. Place(u, Upto(path, i)) = IF Open(u, Walk(u, f)) THEN Append(Walk(u, f), path[i])
                                ELSE Nowhere
  BY <1>0, PlaceIs
<1> HIDE DEF d, f
<1> QED BY <1>2, <1>3, <1>4, <1>5, <1>6

Barred(t, path, i) ==
  LET k == Kind(t, Place(t, Upto(path, i))) IN
  k = "file" \/ (k = "link" /\ Kind(t, Real(t, Upto(path, i))) # "dir")

LEMMA NowhereToGo ==
  ASSUME NEW t, TreeOK(t), NEW path \in Seq(Names), NEW i \in 1 .. Len(path), i <= PathMax,
         i > 1 => Place(t, Upto(path, i - 1)) \in DOMAIN t,
         Place(t, Upto(path, i)) = Nowhere
  PROVE  i > 1 /\ Barred(t, path, i - 1)
<1> DEFINE f == Upto(path, i - 1)
           d == Walk(t, f)
<1>1. i \in Nat \ {0} /\ Len(path) \in Nat /\ i <= Len(path) /\ PathMax \in Nat
  BY FileAssumption, LenProperties
<1>2. ~Open(t, d)
  <2>1. /\ Place(t, Upto(path, i)) = IF Open(t, d) THEN Append(d, path[i]) ELSE Nowhere
        /\ Append(d, path[i]) # Nowhere
    BY PlaceIs
  <2> QED BY <2>1
<1>3. i > 1
  <2> SUFFICES ASSUME i = 1 PROVE FALSE BY <1>1
  <2>1. f = <<>> BY SubSeqEmpty DEF Upto
  <2>2. d = <<>> BY <2>1, WalkNothing
  <2> QED BY <1>2, <2>2, KindIs
<1> DEFINE j == i - 1
           e == Walk(t, Upto(path, j - 1))
           q == Append(e, path[j])
<1>4. j \in 1 .. Len(path) /\ j <= PathMax BY <1>1, <1>3
<1>5. /\ path[j] \in Names /\ Upto(path, j - 1) \in Seq(Names)
      /\ f = Append(Upto(path, j - 1), path[j])
  <2> HIDE DEF j
  <2>1. /\ path[j] \in Names /\ Upto(path, j - 1) \in Seq(Names)
        /\ Upto(path, j) = Append(Upto(path, j - 1), path[j])
    BY <1>4, UptoIs
  <2> QED BY <2>1 DEF j
<1>6. /\ Place(t, f) = IF Open(t, e) THEN q ELSE Nowhere
      /\ Real(t, f) = d
  <2> HIDE DEF j
  <2>1. /\ Place(t, Upto(path, j)) = IF Open(t, e) THEN q ELSE Nowhere
        /\ Real(t, Upto(path, j)) = Walk(t, Upto(path, j))
    BY <1>4, PlaceIs
  <2> QED BY <2>1 DEF j
<1>7. \/ ~Open(t, e) /\ d = Nowhere
      \/ Open(t, e) /\ (Kind(t, q) # "link" => d = q)
  BY <1>5, WalkLast
<1>8. Place(t, f) \in DOMAIN t BY <1>3
<1> HIDE DEF d, e, q
<1>9. Open(t, e) /\ Place(t, f) = q /\ q \in DOMAIN t
  BY <1>6, <1>8, NowhereIsNoPath DEF TreeOK, Paths
<1>10. Kind(t, q) \in {"dir", "file", "link"}
  <2>1. q \in DOMAIN t BY <1>9
  <2>2. Kind(t, q) \in {"none", "dir", "file", "link"} /\ Kind(t, q) # "none"
    BY <2>1, KindIs
  <2> QED BY <2>2
<1>11. Kind(t, d) # "dir" BY <1>2 DEF Open
<1>12. Kind(t, q) # "dir" BY <1>7, <1>9, <1>11
<1> QED BY <1>3, <1>6, <1>9, <1>10, <1>11, <1>12 DEF Barred

-----------------------------------------------------------------------------
(* What a path leads to is a path, and lies in a directory.                *)
LiesIn(t, q) == q \in Paths /\ Open(t, Front(q))
Landing(t, w) ==
  /\ w.names \in Seq(Names)
  /\ \/ w.at \in Seq(Names) /\ Open(t, w.at)
     \/ w.names = <<>> /\ (w.at = Nowhere \/ LiesIn(t, w.at))

LEMMA AppendPath ==
  ASSUME NEW d \in Seq(Names), NEW n \in Names
  PROVE  Append(d, n) \in Paths /\ Front(Append(d, n)) = d /\ Last(Append(d, n)) = n
<1> DEFINE q == Append(d, n)
           f == SubSeq(q, 1, Len(q) - 1)
<1>1. /\ q \in Seq(Names) /\ Len(q) = Len(d) + 1 /\ q[Len(d) + 1] = n /\ Len(d) \in Nat
      /\ \A i \in 1 .. Len(d) : q[i] = d[i]
  BY AppendProperties, LenProperties
<1>2. q # <<>> BY NoEmptyAppend DEF IsSeq
<1> HIDE DEF q
<1>3. \A i \in 1 .. Len(d) : q[i] \in Names BY <1>1, ElementOfSeq
<1>4. /\ f \in Seq(Names) /\ Len(f) = IF 1 <= Len(d) THEN Len(d) - 1 + 1 ELSE 0
      /\ \A i \in 1 .. Len(d) - 1 + 1 : f[i] = q[1 + i - 1]
  BY <1>1, <1>3, SubSeqProperties
<1>5. Len(f) = Len(d) /\ \A i \in 1 .. Len(d) : f[i] = d[i] BY <1>1, <1>4
<1> HIDE DEF f
<1>6. f = d BY <1>4, <1>5, SeqEqual
<1> QED BY <1>1, <1>2, <1>6 DEF f, Front, Last, q, Paths

LEMMA LandingStep ==
  ASSUME NEW t, TreeOK(t), NEW w, Landing(t, w)
  PROVE  Landing(t, Onward(t, w))
<1> DEFINE q == Ahead(t, w)
<1>1. CASE w.names = <<>> BY <1>1, OnwardIs
<1>2. CASE w.names # <<>>
  <2>1. /\ w.at \in Seq(Names) /\ Open(t, w.at) /\ Head(w.names) \in Names
        /\ Tail(w.names) \in Seq(Names)
    BY <1>2, HeadTailProperties DEF Landing
  <2>2. q \in Paths /\ q \in Seq(Names) /\ LiesIn(t, q) BY <2>1, AppendPath DEF Ahead, LiesIn, Paths
  <2> HIDE DEF q
  <2>3. CASE Kind(t, q) = "dir"
    <3>1. Onward(t, w) = At(q, Tail(w.names), w.hops) BY <1>2, <2>3, OnwardIs DEF q
    <3>2. Onward(t, w).at = q /\ Onward(t, w).names = Tail(w.names) BY <3>1, AtIs
    <3> QED BY <2>1, <2>2, <2>3, <3>2 DEF Landing, Open
  <2>4. CASE Kind(t, q) = "link" /\ w.hops > 0
    <3>0. t[q].to \in Seq(Names) BY <2>4, KindIs
    <3> DEFINE m == t[q].to \o Tail(w.names)
               h == w.hops - 1
    <3>1. m \in Seq(Names) BY <2>1, <3>0, ConcatProperties
    <3>2. Onward(t, w) = At(<<>>, m, h) BY <1>2, <2>4, OnwardIs DEF q
    <3> HIDE DEF m, h
    <3>3. Onward(t, w).at = <<>> /\ Onward(t, w).names = m BY <3>2, AtIs
    <3>4. <<>> \in Seq(Names) /\ Open(t, <<>>) BY KindIs
    <3> QED BY <3>1, <3>3, <3>4 DEF Landing
  <2>5. CASE Kind(t, q) # "dir" /\ ~(Kind(t, q) = "link" /\ w.hops > 0)
    <3>1. \E d \in {q, Nowhere} : Onward(t, w) = At(d, <<>>, w.hops)
      BY <1>2, <2>5, OnwardIs DEF q
    <3>2. Onward(t, w).at \in {q, Nowhere} /\ Onward(t, w).names = <<>> BY <3>1, AtIs
    <3>3. <<>> \in Seq(Names) OBVIOUS
    <3> QED BY <2>2, <3>2, <3>3 DEF Landing
  <2> QED BY <2>3, <2>4, <2>5
<1> QED BY <1>1, <1>2

LEMMA Landings ==
  ASSUME NEW t, TreeOK(t), NEW path \in Seq(Names), NEW n \in Nat, NEW w, Walked(w, t, path, n)
  PROVE  \A k \in Nat : k <= n => Landing(t, w[k])
<1> DEFINE T == {k \in Nat : k <= n => Landing(t, w[k])}
<1>1. 0 \in T
  <2>1. w[0] = At(<<>>, path, MaxLinks) BY WalkedStep
  <2>2. w[0].at = <<>> /\ w[0].names = path BY <2>1, AtIs
  <2>3. Open(t, <<>>) /\ <<>> \in Seq(Names) BY KindIs
  <2>4. Landing(t, w[0]) BY <2>2, <2>3 DEF Landing
  <2> QED BY <2>4
<1>2. ASSUME NEW k \in Nat, k \in T PROVE k + 1 \in T
  <2> SUFFICES ASSUME k + 1 <= n PROVE Landing(t, w[k + 1]) OBVIOUS
  <2>1. Landing(t, w[k]) BY <1>2
  <2>2. w[k + 1] = Onward(t, w[k]) BY WalkedStep
  <2> QED BY <2>1, <2>2, LandingStep
<1> HIDE DEF T
<1>3. \A k \in Nat : k \in T BY <1>1, <1>2, Induction
<1> QED BY <1>3 DEF T

LEMMA WalkLands ==
  ASSUME NEW t, TreeOK(t), NEW path \in Seq(Names)
  PROVE  \/ Walk(t, path) = Nowhere
         \/ Walk(t, path) \in Seq(Names) /\ Open(t, Walk(t, path))
         \/ LiesIn(t, Walk(t, path))
<1> DEFINE n == Steps(path)
<1>1. PICK w : /\ Walked(w, t, path, n)
               /\ Walk(t, path) = IF w[n].names = <<>> THEN w[n].at ELSE Nowhere
  BY WalkIs
<1>2. n \in Nat BY WalkIs
<1> HIDE DEF n
<1>3. Landing(t, w[n])
  <2>1. n <= n BY <1>2
  <2> QED BY <1>1, <1>2, <2>1, Landings
<1> QED BY <1>1, <1>3 DEF Landing

LEMMA FrontOfPath ==
  ASSUME NEW path \in Paths
  PROVE  /\ Len(path) \in Nat \ {0} /\ Front(path) \in Seq(Names) /\ Last(path) \in Names
         /\ path = Upto(path, Len(path)) /\ Front(path) = Upto(path, Len(path) - 1)
         /\ Last(path) = path[Len(path)] /\ Len(path) \in 1 .. Len(path)
<1>1. Len(path) \in Nat \ {0} BY EmptySeq, LenProperties DEF Paths
<1>2. path = Upto(path, Len(path)) BY <1>1, SubSeqFull DEF Upto, Paths
<1>3. Len(path) \in 1 .. Len(path) BY <1>1
<1>4. /\ path[Len(path)] \in Names /\ Upto(path, Len(path) - 1) \in Seq(Names)
  BY <1>3, UptoIs DEF Paths
<1>5. Front(path) = Upto(path, Len(path) - 1) /\ Last(path) = path[Len(path)]
  BY DEF Front, Upto, Last
<1> QED BY <1>1, <1>2, <1>3, <1>4, <1>5

LEMMA PlaceLies ==
  ASSUME NEW t, TreeOK(t), NEW path \in Paths
  PROVE  Place(t, path) = Nowhere \/ LiesIn(t, Place(t, path))
<1> SUFFICES ASSUME Place(t, path) # Nowhere PROVE LiesIn(t, Place(t, path)) OBVIOUS
<1> DEFINE d == Real(t, Front(path))
<1>1. Front(path) \in Seq(Names) /\ Last(path) \in Names BY FrontOfPath
<1>2. Place(t, path) = Append(d, Last(path)) /\ Open(t, d) BY DEF Place, Open
<1>3. d \in Seq(Names)
  <2>1. d = Nowhere \/ d = Walk(t, Front(path)) BY DEF Real
  <2>2. d # Nowhere BY <1>2, KindIs
  <2> QED BY <1>1, <2>1, <2>2, WalkLands DEF LiesIn, Paths
<1> HIDE DEF d
<1> QED BY <1>1, <1>2, <1>3, AppendPath DEF LiesIn

LEMMA RealLies ==
  ASSUME NEW t, TreeOK(t), NEW path \in Paths
  PROVE  Real(t, path) = Nowhere \/ Open(t, Real(t, path)) \/ LiesIn(t, Real(t, path))
<1>1. Real(t, path) = Nowhere \/ Real(t, path) = Walk(t, path) BY DEF Real
<1> QED BY <1>1, WalkLands DEF Paths

-----------------------------------------------------------------------------
(* A tree in which one entry is made or removed.  Paths that lead elsewhere *)
(* then end there: below it there is nothing.                               *)
Closed(t) == \A d \in Seq(Names), n \in Names : Append(d, n) \in DOMAIN t => Open(t, d)
ButFor(t, u, q) ==
  \A x : x # q => (x \in DOMAIN t <=> x \in DOMAIN u) /\ (x \in DOMAIN t => u[x] = t[x])
Leaf(u, q) ==
  q \in Paths /\ Kind(u, q) # "link" /\ \A n \in Names : Append(q, n) \notin DOMAIN u
Made(t, u, q) ==
  /\ LiesIn(t, q) /\ q \notin DOMAIN t /\ DOMAIN u = DOMAIN t \cup {q}
  /\ \A x \in DOMAIN t : u[x] = t[x]
  /\ u[q].kind \in {"dir", "file", "link"} /\ (u[q].kind = "link" => u[q].to \in Seq(Names))
Gone(t, u, q) ==
  /\ q \in DOMAIN t /\ DOMAIN u = DOMAIN t \ {q} /\ \A x \in DOMAIN u : u[x] = t[x]
  /\ Kind(t, q) = "dir" => \A n \in Names : Append(q, n) \notin DOMAIN t

LEMMA KindOther ==
  ASSUME NEW t, NEW u, NEW q, ButFor(t, u, q), NEW x, x # q
  PROVE  Kind(u, x) = Kind(t, x) /\ (x \in DOMAIN t => u[x] = t[x])
BY DEF ButFor, Kind

LEMMA MadeTree ==
  ASSUME NEW t, TreeOK(t), Closed(t), NEW u, NEW q, Made(t, u, q)
  PROVE  /\ TreeOK(u) /\ Closed(u) /\ ButFor(t, u, q) /\ Grows(t, u)
         /\ Kind(u, q) = u[q].kind /\ (Kind(u, q) # "link" => Leaf(u, q))
<1>1. q \in Paths /\ Open(t, Front(q)) BY DEF Made, LiesIn
<1>2. TreeOK(u)
  <2>1. ASSUME NEW x \in DOMAIN u
        PROVE  /\ x \in Paths /\ u[x].kind \in {"dir", "file", "link"}
               /\ u[x].kind = "link" => u[x].to \in Seq(Names)
    <3>1. CASE x = q BY <1>1, <3>1 DEF Made
    <3>2. CASE x # q
      <4>1. x \in DOMAIN t /\ u[x] = t[x] BY <3>2 DEF Made
      <4>2. /\ x \in Paths /\ t[x].kind \in {"dir", "file", "link"}
            /\ t[x].kind = "link" => t[x].to \in Seq(Names)
        BY <4>1 DEF TreeOK
      <4> QED BY <4>1, <4>2
    <3> QED BY <3>1, <3>2
  <2> QED BY <2>1 DEF TreeOK
<1>3. Grows(t, u) /\ ButFor(t, u, q) BY DEF Made, Grows, ButFor
<1>4. q # <<>> /\ q \in DOMAIN u BY <1>1 DEF Made, Paths
<1>5. Kind(u, q) = u[q].kind BY <1>4 DEF Kind
<1>6. \A d \in Seq(Names) : Open(t, d) => Open(u, d) BY <1>3, GrownKind DEF Open
<1>7. Closed(u)
  <2> SUFFICES ASSUME NEW d \in Seq(Names), NEW n \in Names, Append(d, n) \in DOMAIN u
               PROVE  Open(u, d)
    BY DEF Closed
  <2>1. CASE Append(d, n) = q
    <3>1. Front(q) = d BY <2>1, AppendPath
    <3> QED BY <1>1, <1>6, <3>1
  <2>2. CASE Append(d, n) # q BY <1>6, <2>2 DEF Closed, Made
  <2> QED BY <2>1, <2>2
<1>8. ASSUME NEW n \in Names PROVE Append(q, n) \notin DOMAIN u
  <2> SUFFICES ASSUME Append(q, n) \in DOMAIN u PROVE FALSE OBVIOUS
  <2>1. q \in Seq(Names) /\ ~Open(t, q)
    <3>1. Kind(t, q) = "none" BY <1>4 DEF Kind, Made
    <3> QED BY <1>1, <3>1 DEF Open, Paths
  <2>2. Append(q, n) # q
    <3>1. Len(q) \in Nat /\ Len(Append(q, n)) = Len(q) + 1
      BY <2>1, AppendProperties, LenProperties
    <3> QED BY <3>1
  <2>3. Append(q, n) \in DOMAIN t BY <2>2 DEF Made
  <2> QED BY <2>1, <2>3 DEF Closed
<1> QED BY <1>1, <1>2, <1>3, <1>5, <1>7, <1>8 DEF Leaf

LEMMA GoneTree ==
  ASSUME NEW t, TreeOK(t), Closed(t), NEW u, NEW q, Gone(t, u, q)
  PROVE  TreeOK(u) /\ Closed(u) /\ ButFor(t, u, q) /\ Leaf(u, q)
<1>1. q \in Paths /\ q \in Seq(Names) /\ q # <<>> BY DEF Gone, TreeOK, Paths
<1>2. TreeOK(u) BY DEF Gone, TreeOK
<1>3. ButFor(t, u, q) BY DEF Gone, ButFor
<1>4. Kind(u, q) = "none" BY <1>1 DEF Kind, Gone
<1>5. \A n \in Names : Append(q, n) \notin DOMAIN t BY <1>1 DEF Closed, Gone, Open
<1>6. Closed(u)
  <2> SUFFICES ASSUME NEW d \in Seq(Names), NEW n \in Names, Append(d, n) \in DOMAIN u
               PROVE  Open(u, d)
    BY DEF Closed
  <2>1. Append(d, n) \in DOMAIN t BY DEF Gone
  <2>2. Open(t, d) BY <2>1 DEF Closed
  <2>3. d # q BY <1>5, <2>1
  <2> QED BY <1>3, <2>2, <2>3, KindOther DEF Open
<1> QED BY <1>1, <1>2, <1>3, <1>4, <1>5, <1>6 DEF Leaf, Gone

(* A walk goes where it went before the change, or to the place of the      *)
(* change, or nowhere.                                                      *)
Aside(u, q, v) == v.at = q \/ (v.names = <<>> /\ ~Open(u, v.at))

LEMMA AsideStep ==
  ASSUME NEW u, TreeOK(u), NEW q, Leaf(u, q), NEW v, Landing(u, v), Aside(u, q, v)
  PROVE  Aside(u, q, Onward(u, v))
<1>1. CASE v.names = <<>> BY <1>1, OnwardIs
<1>2. CASE v.names # <<>>
  <2> DEFINE x == Ahead(u, v)
  <2>1. v.at = q /\ Head(v.names) \in Names BY <1>2, HeadTailProperties DEF Aside, Landing
  <2>2. x \notin DOMAIN u BY <2>1 DEF Leaf, Ahead
  <2>3. x # <<>>
    <3>1. q \in Seq(Names) BY DEF Leaf, Paths
    <3>2. x \in Paths BY <2>1, <3>1, AppendPath DEF Ahead
    <3> QED BY <3>2 DEF Paths
  <2> HIDE DEF x
  <2>4. Kind(u, x) = "none" BY <2>2, <2>3 DEF Kind
  <2>5. \E d \in {x, Nowhere} : Onward(u, v) = At(d, <<>>, v.hops)
    BY <1>2, <2>4, OnwardIs DEF x
  <2>6. Onward(u, v).at \in {x, Nowhere} /\ Onward(u, v).names = <<>> BY <2>5, AtIs
  <2>7. ~Open(u, x) /\ ~Open(u, Nowhere) BY <2>4, KindIs DEF Open
  <2> QED BY <2>6, <2>7 DEF Aside
<1> QED BY <1>1, <1>2

LEMMA ApartStep ==
  ASSUME NEW t, TreeOK(t), NEW u, TreeOK(u), NEW q, ButFor(t, u, q), Leaf(u, q), NEW v
  PROVE  Onward(u, v) = Onward(t, v) \/ Aside(u, q, Onward(u, v))
<1> DEFINE x == Ahead(u, v)
<1>1. CASE v.names = <<>> BY <1>1, OnwardIs
<1>2. CASE v.names # <<>> /\ x = q
  <2>1. CASE Kind(u, q) = "dir"
    <3>1. Onward(u, v) = At(q, Tail(v.names), v.hops) BY <1>2, <2>1, OnwardIs
    <3>2. Onward(u, v).at = q BY <3>1, AtIs
    <3> QED BY <3>2 DEF Aside
  <2>2. CASE Kind(u, q) # "dir"
    <3>1. Kind(u, q) # "link" BY DEF Leaf
    <3>2. \E d \in {q, Nowhere} : Onward(u, v) = At(d, <<>>, v.hops)
      BY <1>2, <2>2, <3>1, OnwardIs
    <3>3. Onward(u, v).at \in {q, Nowhere} /\ Onward(u, v).names = <<>> BY <3>2, AtIs
    <3>4. ~Open(u, q) /\ ~Open(u, Nowhere) BY <2>2, KindIs DEF Open
    <3> QED BY <3>3, <3>4 DEF Aside
  <2> QED BY <2>1, <2>2
<1>3. CASE v.names # <<>> /\ x # q
  <2>1. x = Ahead(t, v) BY DEF Ahead
  <2> HIDE DEF x
  <2>2. Kind(u, x) = Kind(t, x) /\ (x \in DOMAIN t => u[x] = t[x]) BY <1>3, KindOther
  <2>3. CASE Kind(t, x) = "dir"
    <3>1. Onward(u, v) = At(x, Tail(v.names), v.hops) BY <1>3, <2>2, <2>3, OnwardIs DEF x
    <3>2. Onward(t, v) = At(x, Tail(v.names), v.hops) BY <1>3, <2>1, <2>3, OnwardIs
    <3> QED BY <3>1, <3>2
  <2>4. CASE Kind(t, x) = "link" /\ v.hops > 0
    <3>1. u[x] = t[x] BY <2>2, <2>4, KindIs
    <3>2. Onward(u, v) = At(<<>>, u[x].to \o Tail(v.names), v.hops - 1)
      BY <1>3, <2>2, <2>4, OnwardIs DEF x
    <3>3. Onward(t, v) = At(<<>>, t[x].to \o Tail(v.names), v.hops - 1)
      BY <1>3, <2>1, <2>4, OnwardIs
    <3> QED BY <3>1, <3>2, <3>3
  <2>5. CASE Kind(t, x) # "dir" /\ ~(Kind(t, x) = "link" /\ v.hops > 0)
    <3> DEFINE d == IF Kind(t, x) # "link" /\ Len(v.names) = 1 THEN x ELSE Nowhere
    <3>1. Onward(u, v) = At(d, <<>>, v.hops) BY <1>3, <2>2, <2>5, OnwardIs DEF x
    <3>2. Onward(t, v) = At(d, <<>>, v.hops) BY <1>3, <2>1, <2>5, OnwardIs
    <3> QED BY <3>1, <3>2
  <2> QED BY <2>3, <2>4, <2>5
<1> QED BY <1>1, <1>2, <1>3

LEMMA WalkMoves ==
  ASSUME NEW t, TreeOK(t), NEW u, TreeOK(u), NEW q, ButFor(t, u, q), Leaf(u, q),
         NEW path \in Seq(Names)
  PROVE  Walk(u, path) \in {Walk(t, path), q} \/ ~Open(u, Walk(u, path))
<1> DEFINE n == Steps(path)
<1>1. PICK w : /\ Walked(w, t, path, n)
               /\ Walk(t, path) = IF w[n].names = <<>> THEN w[n].at ELSE Nowhere
  BY WalkIs
<1>2. PICK v : /\ Walked(v, u, path, n)
               /\ Walk(u, path) = IF v[n].names = <<>> THEN v[n].at ELSE Nowhere
  BY WalkIs
<1>3. n \in Nat BY WalkIs
<1> HIDE DEF n
<1> DEFINE T == {k \in Nat : k <= n => v[k] = w[k] \/ Aside(u, q, v[k])}
<1>4. 0 \in T BY <1>1, <1>2, <1>3, WalkedStep
<1>5. ASSUME NEW k \in Nat, k \in T PROVE k + 1 \in T
  <2> SUFFICES ASSUME k + 1 <= n PROVE v[k + 1] = w[k + 1] \/ Aside(u, q, v[k + 1]) OBVIOUS
  <2>1. w[k + 1] = Onward(t, w[k]) /\ v[k + 1] = Onward(u, v[k])
    BY <1>1, <1>2, <1>3, WalkedStep
  <2>2. k <= n BY <1>3
  <2>3. v[k] = w[k] \/ Aside(u, q, v[k]) BY <1>5, <2>2
  <2>4. Landing(u, v[k]) BY <1>2, <1>3, <2>2, Landings
  <2>5. CASE v[k] = w[k]
    <3>1. Onward(u, v[k]) = Onward(t, v[k]) \/ Aside(u, q, Onward(u, v[k])) BY ApartStep
    <3> QED BY <2>1, <2>5, <3>1
  <2>6. CASE Aside(u, q, v[k]) BY <2>1, <2>4, <2>6, AsideStep
  <2> QED BY <2>3, <2>5, <2>6
<1> HIDE DEF T
<1>6. v[n] = w[n] \/ Aside(u, q, v[n])
  <2>1. n \in T BY <1>3, <1>4, <1>5, Induction
  <2> QED BY <1>3, <2>1 DEF T
<1>7. ~Open(u, Nowhere) BY KindIs
<1> QED BY <1>1, <1>2, <1>6, <1>7 DEF Aside

(* So where there was no link there is none.                                *)
NoLink(t, path) == Kind(t, Place(t, path)) # "link"

LEMMA NoLinkStays ==
  ASSUME NEW t, TreeOK(t), NEW u, TreeOK(u), NEW q, ButFor(t, u, q), Leaf(u, q),
         NEW path \in Paths, NoLink(t, path)
  PROVE  NoLink(u, path)
<1> DEFINE f == Front(path)
           n == Last(path)
           x == Place(u, path)
<1>1. f \in Seq(Names) /\ n \in Names BY FrontOfPath
<1>2. Kind(u, Nowhere) # "link" BY KindIs, NowhereIsNoPath DEF Paths
<1>3. CASE x = Nowhere BY <1>2, <1>3 DEF NoLink
<1>4. CASE x # Nowhere
  <2>1. /\ ~(Len(path) > PathMax) /\ Open(u, Real(u, f))
        /\ x = Append(Real(u, f), n)
    BY <1>4 DEF Place, Open
  <2>2. Real(u, f) # Nowhere /\ Real(u, f) = Walk(u, f)
    <3>1. Real(u, f) # Nowhere BY <2>1, KindIs
    <3> QED BY <3>1 DEF Real
  <2>3. Walk(u, f) \in {Walk(t, f), q} BY <1>1, <2>1, <2>2, WalkMoves
  <2> HIDE DEF f, n, x
  <2>4. CASE Walk(u, f) = q
    <3>1. x \notin DOMAIN u BY <1>1, <2>1, <2>2, <2>4 DEF Leaf
    <3> QED BY <3>1, KindIs DEF NoLink, x
  <2>5. CASE Walk(u, f) = Walk(t, f) /\ Walk(u, f) # q
    <3>1. Real(t, f) = Walk(t, f)
      <4>1. ~(Len(f) > PathMax) BY <2>2 DEF Real
      <4> QED BY <4>1 DEF Real
    <3>2. Open(t, Walk(t, f)) BY <2>1, <2>2, <2>5, KindOther DEF Open
    <3>3. Place(t, path) = x BY <2>1, <2>2, <2>5, <3>1, <3>2 DEF Place, Open, f, n
    <3>4. Kind(t, x) # "link" BY <3>3 DEF NoLink
    <3>5. CASE x = q BY <3>5 DEF Leaf, NoLink, x
    <3>6. CASE x # q BY <3>4, <3>6, KindOther DEF NoLink, x
    <3> QED BY <3>5, <3>6
  <2> QED BY <2>3, <2>4, <2>5
<1> QED BY <1>3, <1>4

-----------------------------------------------------------------------------
(* A path below another one, with no link there, leads below it.            *)
LEMMA PrefixIs ==
  ASSUME NEW s \in Seq(Names), NEW t \in Seq(Names)
  PROVE  IsPrefix(s, t) <=> Len(s) <= Len(t) /\ \A i \in 1 .. Len(s) : s[i] = t[i]
<1> SUFFICES ASSUME Len(s) <= Len(t)
             PROVE  SubSeq(s, 1, Len(s)) = SubSeq(t, 1, Len(s))
                      <=> \A i \in 1 .. Len(s) : s[i] = t[i]
  BY DEF IsPrefix
<1> DEFINE a == SubSeq(s, 1, Len(s))
           b == SubSeq(t, 1, Len(s))
<1>1. /\ Len(s) \in Nat /\ Len(t) \in Nat /\ \A i \in 1 .. Len(s) : s[i] \in Names /\ t[i] \in Names
  BY LenProperties, ElementOfSeq
<1>2. /\ a \in Seq(Names) /\ Len(a) = Len(s) /\ \A i \in 1 .. Len(s) : a[i] = s[i]
  <2>1. /\ a \in Seq(Names) /\ Len(a) = IF 1 <= Len(s) THEN Len(s) - 1 + 1 ELSE 0
        /\ \A i \in 1 .. Len(s) - 1 + 1 : a[i] = s[1 + i - 1]
    BY <1>1, SubSeqProperties
  <2> QED BY <1>1, <2>1
<1>3. /\ b \in Seq(Names) /\ Len(b) = Len(s) /\ \A i \in 1 .. Len(s) : b[i] = t[i]
  <2>1. /\ b \in Seq(Names) /\ Len(b) = IF 1 <= Len(s) THEN Len(s) - 1 + 1 ELSE 0
        /\ \A i \in 1 .. Len(s) - 1 + 1 : b[i] = t[1 + i - 1]
    BY <1>1, SubSeqProperties
  <2> QED BY <1>1, <2>1
<1> HIDE DEF a, b
<1>4. a = b <=> \A i \in 1 .. Len(s) : a[i] = b[i]
  <2>1. ASSUME \A i \in 1 .. Len(s) : a[i] = b[i] PROVE a = b BY <1>2, <1>3, <2>1, SeqEqual
  <2> QED BY <2>1
<1> QED BY <1>2, <1>3, <1>4 DEF a, b

LEMMA PrefixSelf ==
  ASSUME NEW s \in Seq(Names)
  PROVE  IsPrefix(s, s)
<1>1. Len(s) \in Nat BY LenProperties
<1> QED BY <1>1, PrefixIs

LEMMA PlaceNext ==
  ASSUME NEW t, TreeOK(t), NEW path \in Seq(Names), NEW n \in Nat \ {0}, n + 1 \in 1 .. Len(path),
         NoLink(t, Upto(path, n)), Place(t, Upto(path, n + 1)) # Nowhere
  PROVE  /\ Place(t, Upto(path, n)) # Nowhere /\ Place(t, Upto(path, n)) \in Seq(Names)
         /\ Place(t, Upto(path, n + 1)) = Append(Place(t, Upto(path, n)), path[n + 1])
<1> DEFINE d == Walk(t, Upto(path, n - 1))
           e == Walk(t, Upto(path, n))
           q == Append(d, path[n])
           m == n + 1
<1>1. n \in 1 .. Len(path) /\ Len(path) \in Nat /\ m \in 1 .. Len(path) /\ m - 1 = n
  BY LenProperties
<1>2. /\ path[n] \in Names /\ Upto(path, n - 1) \in Seq(Names) /\ Upto(path, n) \in Seq(Names)
      /\ Upto(path, n) = Append(Upto(path, n - 1), path[n]) /\ Len(Upto(path, n)) = n
  BY <1>1, UptoIs
<1> HIDE DEF m
<1>3. m <= PathMax /\ n <= PathMax
  <2>1. Len(Upto(path, m)) = m /\ m \in Nat /\ PathMax \in Nat BY <1>1, UptoIs, FileAssumption
  <2>2. m <= PathMax BY <2>1 DEF Place, m
  <2> QED BY <2>1, <2>2 DEF m
<1>4. Place(t, Upto(path, m)) = IF Open(t, e) THEN Append(e, path[m]) ELSE Nowhere
  <2>1. Place(t, Upto(path, m)) = IF Open(t, Walk(t, Upto(path, m - 1)))
                                  THEN Append(Walk(t, Upto(path, m - 1)), path[m]) ELSE Nowhere
    BY <1>1, <1>3, PlaceIs
  <2> QED BY <1>1, <2>1
<1>5. Open(t, e) /\ Place(t, Upto(path, m)) = Append(e, path[m]) BY <1>4 DEF m
<1>6. /\ Place(t, Upto(path, n)) = IF Open(t, d) THEN q ELSE Nowhere
      /\ q # Nowhere
  BY <1>1, <1>3, PlaceIs
<1>7. \/ ~Open(t, d) /\ e = Nowhere
      \/ Open(t, d) /\ (Kind(t, q) # "link" => e = q)
  BY <1>2, WalkLast
<1>8. ~Open(t, Nowhere) BY KindIs
<1>9. e # Nowhere /\ e \in Seq(Names)
  <2>1. e # Nowhere BY <1>5, <1>8
  <2> QED BY <1>2, <2>1, WalkLands DEF LiesIn, Paths
<1> HIDE DEF d, e, q
<1>10. Open(t, d) BY <1>5, <1>7, <1>8
<1>11. Place(t, Upto(path, n)) = q /\ q # Nowhere BY <1>6, <1>10
<1>12. e = q BY <1>7, <1>10, <1>11 DEF NoLink
<1> QED BY <1>5, <1>9, <1>11, <1>12 DEF m

-----------------------------------------------------------------------------
(* Activation records of a call c: their paths are paths, the names they    *)
(* read are names, mkdir_p is at a name of its path, and what removes       *)
(* belongs to a call that removes.                                         *)
Removing == {"rm_r", "unlink", "ln_sf"}
Needs(fn) ==
  {"fn", "at"} \cup IF fn \in {"cp_dir", "cp_file"} THEN {"path", "dst"}
                    ELSE IF fn = "write_all" THEN {"dst"} ELSE {"path"}
FrameOK(c, f) ==
  /\ c # Null /\ "fn" \in DOMAIN f /\ Needs(f.fn) \subseteq DOMAIN f
  /\ \A x \in {"path", "dst"} \cap DOMAIN f : f[x] \in Paths
  /\ f.at = "readdir" => f.names \subseteq Names
  /\ f.fn = "mkdir_p" => "i" \in DOMAIN f /\ f.i \in 1 .. Len(f.path)
  /\ f.fn \in Removing => f.fn = c.fn /\ (f.fn # "rm_r" => f.path = c.path)
  /\ f.fn = "ln_sf" => "to" \in DOMAIN f /\ f.to \in Seq(Names) /\ f.to = c.to
AllOK(c, s) == IsSeq(s) /\ \A i \in 1 .. Len(s) : FrameOK(c, s[i])

LEMMA OneFrame ==
  ASSUME NEW f
  PROVE  /\ IsSeq(<<f>>) /\ Len(<<f>>) = 1 /\ <<f>>[1] = f /\ <<f>> # <<>>
         /\ Head(<<f>>) = f /\ Tail(<<f>>) = <<>>
<1> DEFINE z == <<f>>
<1>1. z \in Seq({f}) /\ Len(z) = 1 /\ z[1] = f OBVIOUS
<1> HIDE DEF z
<1>2. z # <<>> BY <1>1, EmptySeq
<1>3. Head(z) = f /\ Tail(z) \in Seq({f}) /\ Len(Tail(z)) = 0
  BY <1>1, <1>2, HeadTailProperties
<1>4. Tail(z) = <<>> BY <1>3, EmptySeq
<1> QED BY <1>1, <1>2, <1>3, <1>4 DEF z, IsSeq

LEMMA AllOKTail ==
  ASSUME NEW c, NEW s, AllOK(c, s), s # <<>>
  PROVE  AllOK(c, Tail(s)) /\ FrameOK(c, Head(s))
<1>1. PICK S : s \in Seq(S) BY DEF AllOK, IsSeq
<1>2. /\ Tail(s) \in Seq(S) /\ Len(Tail(s)) = Len(s) - 1 /\ Len(s) \in Nat \ {0}
      /\ \A i \in 1 .. Len(Tail(s)) : Tail(s)[i] = s[i + 1]
  BY <1>1, HeadTailProperties, EmptySeq, LenProperties
<1>3. Head(s) = s[1] BY <1>1
<1>4. 1 \in 1 .. Len(s) BY <1>2
<1>5. ASSUME NEW i \in 1 .. Len(Tail(s)) PROVE FrameOK(c, Tail(s)[i])
  <2>1. i + 1 \in 1 .. Len(s) /\ Tail(s)[i] = s[i + 1] BY <1>2
  <2> QED BY <2>1 DEF AllOK
<1> QED BY <1>2, <1>3, <1>4, <1>5 DEF AllOK, IsSeq

LEMMA AllOKConcat ==
  ASSUME NEW c, NEW r, AllOK(c, r), NEW s, AllOK(c, s)
  PROVE  AllOK(c, r \o s)
<1>1. PICK R : r \in Seq(R) BY DEF AllOK, IsSeq
<1>2. PICK S : s \in Seq(S) BY DEF AllOK, IsSeq
<1> DEFINE T == R \cup S
<1>3. r \in Seq(T) /\ s \in Seq(T) BY <1>1, <1>2
<1> HIDE DEF T
<1>4. /\ r \o s \in Seq(T) /\ Len(r \o s) = Len(r) + Len(s)
      /\ \A i \in 1 .. Len(r) + Len(s) :
           (r \o s)[i] = IF i <= Len(r) THEN r[i] ELSE s[i - Len(r)]
      /\ Len(r) \in Nat /\ Len(s) \in Nat
  BY <1>3, ConcatProperties, LenProperties
<1>5. ASSUME NEW i \in 1 .. Len(r \o s) PROVE FrameOK(c, (r \o s)[i])
  <2>1. CASE i <= Len(r)
    <3>1. i \in 1 .. Len(r) /\ (r \o s)[i] = r[i] BY <1>4, <2>1
    <3> QED BY <3>1 DEF AllOK
  <2>2. CASE ~(i <= Len(r))
    <3>1. i - Len(r) \in 1 .. Len(s) /\ (r \o s)[i] = s[i - Len(r)] BY <1>4, <2>2
    <3> QED BY <3>1 DEF AllOK
  <2> QED BY <2>1, <2>2
<1> QED BY <1>4, <1>5 DEF AllOK, IsSeq

LEMMA AllOKOne ==
  ASSUME NEW c, NEW f, FrameOK(c, f)
  PROVE  AllOK(c, <<f>>)
<1> DEFINE z == <<f>>
<1>1. IsSeq(z) /\ Len(z) = 1 /\ z[1] = f BY OneFrame
<1> HIDE DEF z
<1>2. AllOK(c, z) BY <1>1 DEF AllOK
<1> QED BY <1>2 DEF z

LEMMA AllOKNone ==
  ASSUME NEW c
  PROVE  AllOK(c, <<>>)
<1>1. Len(<<>>) = 0 OBVIOUS
<1> QED BY <1>1, NowhereIs DEF AllOK

LEMMA FirstName ==
  ASSUME NEW path \in Paths
  PROVE  1 \in 1 .. Len(path)
<1>1. Len(path) \in Nat \ {0} BY FrontOfPath
<1> QED BY <1>1

LEMMA MkdirPOK ==
  ASSUME NEW c, c # Null, NEW path \in Paths
  PROVE  FrameOK(c, MkdirP(path))
<1> DEFINE m == MkdirP(path)
<1>1. /\ DOMAIN m = {"fn", "at", "path", "i"} /\ m.fn = "mkdir_p" /\ m.at = "stat"
      /\ m.path = path /\ m["path"] = path /\ m.i = 1
  BY DEF MkdirP
<1>2. 1 \in 1 .. Len(path) BY FirstName
<1> HIDE DEF m
<1>3. FrameOK(c, m) BY <1>1, <1>2 DEF FrameOK, Needs, Removing
<1> QED BY <1>3 DEF m

LEMMA EnteredOK ==
  ASSUME NEW c, NEW f, FrameOK(c, f)
  PROVE  AllOK(c, Entered(f))
<1>1. CASE f.fn = "cp_dir"
  <2> DEFINE m == MkdirP(f.dst)
  <2>1. f.dst \in Paths BY <1>1 DEF FrameOK, Needs
  <2>2. FrameOK(c, m) BY <2>1, MkdirPOK DEF FrameOK
  <2>3. Entered(f) = <<m>> \o <<f>>
    <3> HIDE DEF m
    <3>1. <<m, f>> = <<m>> \o <<f>> OBVIOUS
    <3> QED BY <1>1, <3>1 DEF Entered, m
  <2> HIDE DEF m
  <2>4. AllOK(c, <<m>>) /\ AllOK(c, <<f>>) BY <2>2, AllOKOne
  <2> QED BY <2>3, <2>4, AllOKConcat
<1>2. CASE f.fn # "cp_dir" BY <1>2, AllOKOne DEF Entered
<1> QED BY <1>1, <1>2

(* What the functions do to their records.                                  *)
LEMMA GoOn ==
  ASSUME NEW c, NEW f, FrameOK(c, f)
  PROVE  /\ \A a : a # "readdir" => FrameOK(c, [f EXCEPT !.at = a])
         /\ \A a : FrameOK(c, [f EXCEPT !.seen = a]) /\ FrameOK(c, [f EXCEPT !.pos = a])
         /\ f.fn = "mkdir_p" /\ f.i # Len(f.path)
              => FrameOK(c, [f EXCEPT !.at = "stat", !.i = @ + 1])
<1>1. ASSUME NEW a, a # "readdir" PROVE FrameOK(c, [f EXCEPT !.at = a])
  <2> DEFINE g == [f EXCEPT !.at = a]
  <2>1. "at" \in DOMAIN f BY DEF FrameOK, Needs
  <2>2. /\ DOMAIN g = DOMAIN f /\ g.at = a /\ \A x \in DOMAIN f \ {"at"} : g[x] = f[x] BY <2>1
  <2>3. g.fn = f.fn BY <2>2 DEF FrameOK
  <2>4. "path" \in DOMAIN f => g.path = f.path BY <2>2
  <2>5. "to" \in DOMAIN f => g.to = f.to BY <2>2
  <2>6. "i" \in DOMAIN f => g.i = f.i BY <2>2
  <2> HIDE DEF g
  <2>7. FrameOK(c, g) BY <1>1, <2>2, <2>3, <2>4, <2>5, <2>6 DEF FrameOK, Needs, Removing
  <2> QED BY <2>7 DEF g
<1>2. ASSUME NEW a PROVE FrameOK(c, [f EXCEPT !.seen = a]) /\ FrameOK(c, [f EXCEPT !.pos = a])
  BY DEF FrameOK, Needs, Removing
<1>3. ASSUME f.fn = "mkdir_p", f.i # Len(f.path)
      PROVE  FrameOK(c, [f EXCEPT !.at = "stat", !.i = @ + 1])
  <2> DEFINE j == f.i + 1
             g == [f EXCEPT !.at = "stat", !.i = j]
  <2>1. {"at", "fn", "path", "i"} \subseteq DOMAIN f /\ f.path \in Paths /\ f.i \in 1 .. Len(f.path)
    BY <1>3 DEF FrameOK, Needs
  <2>2. j \in 1 .. Len(f.path)
    <3>1. Len(f.path) \in Nat BY <2>1, FrontOfPath
    <3> QED BY <1>3, <2>1, <3>1
  <2>3. [f EXCEPT !.at = "stat", !.i = @ + 1] = g OBVIOUS
  <2> HIDE DEF j
  <2>4. /\ DOMAIN g = DOMAIN f /\ g.at = "stat" /\ g.i = j
        /\ \A x \in DOMAIN f \ {"at", "i"} : g[x] = f[x]
    BY <2>1
  <2>5. g.fn = f.fn /\ g.path = f.path BY <2>1, <2>4
  <2> HIDE DEF g
  <2>6. FrameOK(c, g) BY <1>3, <2>1, <2>2, <2>4, <2>5 DEF FrameOK, Needs, Removing
  <2> QED BY <2>3, <2>6
<1> QED BY <1>1, <1>2, <1>3

LEMMA HavingOK ==
  ASSUME NEW c, NEW f, FrameOK(c, f), NEW more,
         "at" \in DOMAIN more, {"fn", "to", "path", "dst", "i"} \cap DOMAIN more = {},
         more.at = "readdir" => "names" \in DOMAIN more /\ more.names \subseteq Names
  PROVE  FrameOK(c, Having(f, more))
<1> DEFINE g == Having(f, more)
<1>1. /\ DOMAIN g = DOMAIN f \cup DOMAIN more
      /\ \A x \in DOMAIN g : g[x] = IF x \in DOMAIN more THEN more[x] ELSE f[x]
  BY DEF Having
<1>2. g.at = more.at /\ ("names" \in DOMAIN more => g.names = more.names) BY <1>1
<1>3. g.fn = f.fn BY <1>1 DEF FrameOK
<1>4. /\ "path" \in DOMAIN f => g.path = f.path
      /\ "to" \in DOMAIN f => g.to = f.to
      /\ "i" \in DOMAIN f => g.i = f.i
  BY <1>1
<1>5. \A x \in {"path", "dst"} \cap DOMAIN g : x \in DOMAIN f /\ g[x] = f[x] BY <1>1
<1> HIDE DEF g
<1>6. FrameOK(c, g) BY <1>1, <1>2, <1>3, <1>4, <1>5 DEF FrameOK, Needs, Removing
<1> QED BY <1>6 DEF g

LEMMA NewFrames ==
  ASSUME NEW c, c # Null, NEW s \in Paths, NEW d \in Paths, NEW over
  PROVE  /\ FrameOK(c, CpDir(s, d, over)) /\ FrameOK(c, CpFile(s, d, over))
         /\ c.fn = "rm_r" => FrameOK(c, RmR(s))
<1>1. FrameOK(c, CpDir(s, d, over))
  <2> DEFINE g == CpDir(s, d, over)
  <2>1. /\ DOMAIN g = {"fn", "at", "path", "dst", "over"} /\ g.fn = "cp_dir" /\ g.at = "opendir"
        /\ g["path"] = s /\ g["dst"] = d
    BY DEF CpDir
  <2> HIDE DEF g
  <2>2. FrameOK(c, g) BY <2>1 DEF FrameOK, Needs, Removing
  <2> QED BY <2>2 DEF g
<1>2. FrameOK(c, CpFile(s, d, over))
  <2> DEFINE g == CpFile(s, d, over)
  <2>1. /\ DOMAIN g = {"fn", "at", "path", "dst", "over"} /\ g.fn = "cp_file" /\ g.at = "in"
        /\ g["path"] = s /\ g["dst"] = d
    BY DEF CpFile
  <2> HIDE DEF g
  <2>2. FrameOK(c, g) BY <2>1 DEF FrameOK, Needs, Removing
  <2> QED BY <2>2 DEF g
<1>3. ASSUME c.fn = "rm_r" PROVE FrameOK(c, RmR(s))
  <2> DEFINE g == RmR(s)
  <2>1. DOMAIN g = {"fn", "at", "path"} /\ g.fn = "rm_r" /\ g.at = "lstat" /\ g["path"] = s
    BY DEF RmR
  <2> HIDE DEF g
  <2>2. FrameOK(c, g) BY <1>3, <2>1 DEF FrameOK, Needs, Removing
  <2> QED BY <2>2 DEF g
<1> QED BY <1>1, <1>2, <1>3

LEMMA CallFrame ==
  ASSUME NEW c \in Calls
  PROVE  c # Null /\ FrameOK(c, c)
<1>0. c # Null BY CallAssumption
<1>1. /\ "fn" \in DOMAIN c /\ \A x \in {"path", "dst"} \cap DOMAIN c : c[x] \in Paths
  BY CallAssumption DEF Paths
<1>2. CASE c.fn = "mkdir_p" /\ c = MkdirP(c.path)
  <2>1. DOMAIN c = {"fn", "at", "path", "i"} BY <1>2 DEF MkdirP
  <2>2. c.path \in Paths BY <1>1, <2>1
  <2> QED BY <1>2, <2>2, <1>0, MkdirPOK
<1>3. CASE c.fn = "cp_dir" /\ c = CpDir(c.path, c.dst, c.over)
  <2>1. DOMAIN c = {"fn", "at", "path", "dst", "over"} BY <1>3 DEF CpDir
  <2>2. c.path \in Paths /\ c.dst \in Paths BY <1>1, <2>1
  <2> QED BY <1>0, <1>3, <2>2, NewFrames
<1>4. CASE c.fn = "cp_file" /\ c = CpFile(c.path, c.dst, c.over)
  <2>1. DOMAIN c = {"fn", "at", "path", "dst", "over"} BY <1>4 DEF CpFile
  <2>2. c.path \in Paths /\ c.dst \in Paths BY <1>1, <2>1
  <2> QED BY <1>0, <1>4, <2>2, NewFrames
<1>5. CASE c.fn = "write_all" /\ c = WriteAll(c.dst, c.body, c.over)
  <2>1. DOMAIN c = {"fn", "at", "dst", "body", "over"} /\ c.at = "out" BY <1>5 DEF WriteAll
  <2> QED BY <1>0, <1>1, <1>5, <2>1 DEF FrameOK, Needs, Removing
<1>6. CASE c.fn = "rm_r" /\ c = RmR(c.path)
  <2>1. DOMAIN c = {"fn", "at", "path"} BY <1>6 DEF RmR
  <2>2. c.path \in Paths BY <1>1, <2>1
  <2> QED BY <1>0, <1>6, <2>2, NewFrames
<1>7. CASE c.fn = "unlink" /\ c = Unlink(c.path)
  <2>1. DOMAIN c = {"fn", "at", "path"} /\ c.at = "lstat" BY <1>7 DEF Unlink
  <2> QED BY <1>0, <1>1, <1>7, <2>1 DEF FrameOK, Needs, Removing
<1>8. CASE c.fn = "ln_sf" /\ c = LnSf(c.to, c.path, c.at = "lstat") /\ c.to \in Seq(Names)
  <2>1. DOMAIN c = {"fn", "at", "path", "to"} /\ c.at \in {"lstat", "symlink"} BY <1>8 DEF LnSf
  <2> QED BY <1>0, <1>1, <1>8, <2>1 DEF FrameOK, Needs, Removing
<1>9. CASE c.fn = "touch" /\ c = Touch(c.path)
  <2>1. DOMAIN c = {"fn", "at", "path"} /\ c.at = "open" BY <1>9 DEF Touch
  <2> QED BY <1>0, <1>1, <1>9, <2>1 DEF FrameOK, Needs, Removing
<1> QED BY <1>0, <1>2, <1>3, <1>4, <1>5, <1>6, <1>7, <1>8, <1>9, CallAssumption

-----------------------------------------------------------------------------
(* What a step does to the activation records.                             *)
StackInv ==
  /\ DOMAIN stack = Procs /\ DOMAIN res = Procs /\ DOMAIN call = Procs /\ DOMAIN made = Procs
  /\ \A p \in Procs : /\ AllOK(call[p], stack[p]) /\ made[p] \in Nat
                      /\ call[p] \in Calls \cup {Null}
                      /\ res[p] = "ok" => stack[p] = <<>> /\ call[p] # Null

(* Nothing but p's records, and they are as they ought to be.              *)
StackStep(p) ==
  /\ AllOK(call[p], stack'[p]) /\ DOMAIN stack' = Procs /\ DOMAIN res' = Procs
  /\ call[p] # Null /\ (res'[p] = "ok" => stack'[p] = <<>>)
  /\ \A q \in Procs \ {p} : stack'[q] = stack[q] /\ res'[q] = res[q]

LEMMA TopOK ==
  ASSUME StackInv, NEW p \in Procs, Busy(p)
  PROVE  /\ FrameOK(call[p], Top(p)) /\ AllOK(call[p], Tail(stack[p]))
         /\ call[p] # Null /\ call[p] \in Calls /\ res[p] # "ok"
<1>1. FrameOK(call[p], Top(p)) /\ AllOK(call[p], Tail(stack[p]))
  BY AllOKTail DEF StackInv, Busy, Top
<1> QED BY <1>1 DEF StackInv, Busy, FrameOK

LEMMA GotoStep ==
  ASSUME StackInv, NEW p \in Procs, Busy(p), NEW f, FrameOK(call[p], f), Goto(p, f)
  PROVE  StackStep(p)
<1>1. AllOK(call[p], Tail(stack[p])) /\ call[p] # Null /\ res[p] # "ok" BY TopOK
<1> DEFINE s == <<f>> \o Tail(stack[p])
<1>2. AllOK(call[p], s)
  <2>1. AllOK(call[p], <<f>>) BY AllOKOne
  <2> QED BY <1>1, <2>1, AllOKConcat
<1> HIDE DEF s
<1>3. stack' = [stack EXCEPT ![p] = s] /\ res' = res BY DEF Goto, s
<1> QED BY <1>1, <1>2, <1>3 DEF StackInv, StackStep

LEMMA EnterStep ==
  ASSUME StackInv, NEW p \in Procs, Busy(p), NEW f, FrameOK(call[p], f),
         NEW g, FrameOK(call[p], g), Enter(p, f, g)
  PROVE  StackStep(p)
<1>1. AllOK(call[p], Tail(stack[p])) /\ call[p] # Null /\ res[p] # "ok" BY TopOK
<1> DEFINE s == Entered(g) \o <<f>> \o Tail(stack[p])
<1>2. AllOK(call[p], s)
  <2>1. AllOK(call[p], <<f>>) /\ AllOK(call[p], Entered(g)) BY AllOKOne, EnteredOK
  <2>2. AllOK(call[p], Entered(g) \o <<f>>) BY <2>1, AllOKConcat
  <2> QED BY <1>1, <2>2, AllOKConcat
<1> HIDE DEF s
<1>3. stack' = [stack EXCEPT ![p] = s] /\ res' = res BY DEF Enter, s
<1> QED BY <1>1, <1>2, <1>3 DEF StackInv, StackStep

LEMMA TailOfOne ==
  ASSUME NEW s, IsSeq(s), Len(s) = 1
  PROVE  Tail(s) = <<>>
<1>1. PICK S : s \in Seq(S) BY DEF IsSeq
<1>2. s # <<>> BY <1>1, EmptySeq
<1>3. Tail(s) \in Seq(S) /\ Len(Tail(s)) = 0 BY <1>1, <1>2, HeadTailProperties
<1> QED BY <1>3, EmptySeq

LEMMA OkStep ==
  ASSUME StackInv, NEW p \in Procs, Busy(p), Ok(p)
  PROVE  StackStep(p)
<1> DEFINE s == Tail(stack[p])
<1>1. AllOK(call[p], s) /\ call[p] # Null /\ res[p] # "ok" BY TopOK
<1>2. Len(stack[p]) = 1 => s = <<>> BY TailOfOne DEF StackInv, AllOK
<1> HIDE DEF s
<1>3. stack' = [stack EXCEPT ![p] = s] BY DEF Ok, s
<1>4. /\ DOMAIN res' = Procs /\ \A q \in Procs \ {p} : res'[q] = res[q]
      /\ res'[p] = "ok" => Len(stack[p]) = 1
  BY <1>1 DEF Ok, StackInv
<1> QED BY <1>1, <1>2, <1>3, <1>4 DEF StackInv, StackStep

LEMMA FailedStep ==
  ASSUME StackInv, NEW p \in Procs, Busy(p), Failed(p)
  PROVE  StackStep(p)
<1>1. AllOK(call[p], <<>>) /\ call[p] # Null BY AllOKNone, TopOK
<1> QED BY <1>1 DEF Failed, StackInv, StackStep

-----------------------------------------------------------------------------
(* What a step of p does to the tree: nothing, or it makes one entry, a     *)
(* link only by ln_sf, or it removes the entry at the path in hand.         *)
Kept == UNCHANGED <<tree, removers, made>>
Makes(p) ==
  /\ removers' = removers /\ made' = [made EXCEPT ![p] = @ + 1]
  /\ \E q : Made(tree, tree', q) /\ (tree'[q].kind = "link" => call[p].fn = "ln_sf")
Removes(p) ==
  /\ removers' = removers \cup {p} /\ made' = made
  /\ Busy(p) /\ call[p].fn \in Removing
  /\ Top(p).fn = call[p].fn /\ Top(p).at \in {"unlink", "rmdir"}
  /\ Gone(tree, tree', Place(tree, Top(p).path))
TreeStep(p) == Kept \/ Makes(p) \/ Removes(p)

LEMMA MakeStep ==
  ASSUME TreeOK(tree), NEW p \in Procs, NEW q, q \notin DOMAIN tree, LiesIn(tree, q),
         NEW entry, entry.kind \in {"dir", "file", "link"},
         entry.kind = "link" => entry.to \in Seq(Names) /\ call[p].fn = "ln_sf",
         Make(p, q, entry), UNCHANGED removers
  PROVE  TreeStep(p)
<1>1. /\ DOMAIN tree' = DOMAIN tree \cup {q}
      /\ \A x \in DOMAIN tree' : tree'[x] = IF x = q THEN entry ELSE tree[x]
      /\ made' = [made EXCEPT ![p] = @ + 1]
  BY DEF Make
<1>2. tree'[q] = entry /\ \A x \in DOMAIN tree : tree'[x] = tree[x] BY <1>1
<1>3. Made(tree, tree', q) BY <1>1, <1>2 DEF Made
<1> QED BY <1>1, <1>2, <1>3 DEF TreeStep, Makes

LEMMA DropStep ==
  ASSUME StackInv, TreeOK(tree), NEW p \in Procs, Busy(p), Top(p).fn \in Removing,
         Top(p).at \in {"unlink", "rmdir"},
         LET q == Place(tree, Top(p).path) IN
           /\ Drop(p, q) /\ Kind(tree, q) \in {"dir", "file", "link"}
           /\ Kind(tree, q) = "dir" => NamesIn(tree, q) = {}
  PROVE  TreeStep(p)
<1> DEFINE q == Place(tree, Top(p).path)
<1>1. FrameOK(call[p], Top(p)) BY TopOK
<1>2. Top(p).path \in Paths BY <1>1 DEF FrameOK, Needs, Removing
<1>3. Top(p).fn = call[p].fn BY <1>1 DEF FrameOK
<1>4. /\ Drop(p, q) /\ Kind(tree, q) # "none" /\ (Kind(tree, q) = "dir" => NamesIn(tree, q) = {})
  OBVIOUS
<1>5. q = Nowhere \/ q \in Paths BY <1>2, PlaceLies DEF LiesIn
<1> HIDE DEF q
<1>6. q # Nowhere
  <2>1. Nowhere \notin DOMAIN tree BY NowhereIsNoPath DEF TreeOK, Paths
  <2>2. Kind(tree, Nowhere) = "none" BY <2>1, NowhereIs, KindIs
  <2> QED BY <1>4, <2>2
<1>7. q \in DOMAIN tree /\ q \in Paths BY <1>4, <1>5, <1>6, KindIs DEF Paths
<1>8. /\ DOMAIN tree' = DOMAIN tree \ {q} /\ \A x \in DOMAIN tree' : tree'[x] = tree[x]
      /\ removers' = removers \cup {p} /\ made' = made
  BY <1>4 DEF Drop, Restrict
<1>9. ASSUME Kind(tree, q) = "dir", NEW n \in Names, Append(q, n) \in DOMAIN tree PROVE FALSE
  <2>1. Front(Append(q, n)) = q BY <1>7, AppendPath DEF Paths
  <2>2. Last(Append(q, n)) \in NamesIn(tree, q) BY <1>9, <2>1 DEF NamesIn
  <2> QED BY <1>4, <1>9, <2>2
<1>10. Gone(tree, tree', q) BY <1>7, <1>8, <1>9 DEF Gone
<1> QED BY <1>3, <1>8, <1>10 DEF TreeStep, Removes, q

LEMMA TreeStepKeeps ==
  ASSUME TreeOK(tree), Closed(tree), NEW p \in Procs, TreeStep(p)
  PROVE  /\ TreeOK(tree') /\ Closed(tree') /\ removers \subseteq removers'
         /\ Grows(tree, tree') \/ removers' # {}
<1>1. CASE Kept BY <1>1 DEF Kept, Grows
<1>2. CASE Makes(p) BY <1>2, MadeTree DEF Makes
<1>3. CASE Removes(p) BY <1>3, GoneTree DEF Removes
<1> QED BY <1>1, <1>2, <1>3 DEF TreeStep

LEMMA NamesAreNames ==
  ASSUME NEW t, TreeOK(t), NEW d
  PROVE  NamesIn(t, d) \subseteq Names
<1> SUFFICES ASSUME NEW q \in DOMAIN t PROVE Last(q) \in Names BY DEF NamesIn
<1>1. q \in Paths BY DEF TreeOK
<1> QED BY <1>1, FrontOfPath

LEMMA KeptTree ==
  ASSUME UNCHANGED <<tree, removers, made>>, NEW p
  PROVE  TreeStep(p)
BY DEF TreeStep, Kept

(* Every step of a call. *)
LEMMA StepIs ==
  ASSUME StackInv, TreeOK(tree), NEW p \in Procs, Step(p)
  PROVE  StackStep(p) /\ TreeStep(p) /\ UNCHANGED call
<1> DEFINE f == Top(p)
           Goal == StackStep(p) /\ TreeStep(p)
<1>1. SUFFICES Goal BY DEF Step
<1>2. ASSUME Busy(p)
      PROVE  /\ FrameOK(call[p], f) /\ call[p] # Null
             /\ \A x \in {"path", "dst"} \cap DOMAIN f : f[x] \in Paths
             /\ Needs(f.fn) \subseteq DOMAIN f
  BY <1>2, TopOK DEF FrameOK
<1>3. ASSUME Busy(p), f.fn = "mkdir_p", Further(p, f) PROVE StackStep(p)
  <2>0. f.i # Len(f.path) => FrameOK(call[p], [f EXCEPT !.at = "stat", !.i = @ + 1])
    <3>1. FrameOK(call[p], f) BY <1>2, <1>3
    <3> QED BY <1>3, <3>1, GoOn
  <2> HIDE DEF f
  <2>2. CASE Ok(p) BY <1>3, <2>2, OkStep
  <2>3. CASE f.i # Len(f.path) /\ Goto(p, [f EXCEPT !.at = "stat", !.i = @ + 1])
    BY <1>3, <2>0, <2>3, GotoStep
  <2> QED BY <1>3, <2>2, <2>3 DEF Further
<1>4. CASE DirExists(p)
  <2>1. Busy(p) /\ f.fn = "mkdir_p" /\ UNCHANGED <<tree, removers, made>>
    BY <1>4 DEF DirExists, In, files, history
  <2>2. FrameOK(call[p], [f EXCEPT !.at = "mkdir"]) BY <1>2, <2>1, GoOn
  <2>3. Further(p, f) \/ Goto(p, [f EXCEPT !.at = "mkdir"]) BY <1>4 DEF DirExists
  <2> HIDE DEF f
  <2> QED BY <1>3, <2>1, <2>2, <2>3, GotoStep, KeptTree
<1>5. CASE Mkdir(p)
  <2> DEFINE q == Place(tree, Upto(f.path, f.i))
  <2>1. Busy(p) /\ f.fn = "mkdir_p" /\ UNCHANGED removers BY <1>5 DEF Mkdir, In, history
  <2>2. \/ Failed(p) /\ UNCHANGED files
        \/ /\ Further(p, f) /\ q # Nowhere
           /\ UNCHANGED files \/ (q \notin DOMAIN tree /\ Make(p, q, Dir(Inode(p))))
    BY <1>5 DEF Mkdir
  <2> DEFINE e == Dir(Inode(p))
  <2>3. e.kind = "dir" BY DEF Dir
  <2>9. q = Nowhere \/ LiesIn(tree, q)
    <3>1. f.path \in Paths /\ f.i \in 1 .. Len(f.path) BY <1>2, <2>1 DEF FrameOK, Needs
    <3>2. Upto(f.path, f.i) \in Seq(Names) /\ Len(Upto(f.path, f.i)) = f.i /\ f.i # 0
      BY <3>1, UptoIs DEF Paths
    <3>3. Upto(f.path, f.i) \in Paths BY <3>2, EmptySeq DEF Paths
    <3> QED BY <3>3, PlaceLies
  <2> HIDE DEF f, q, e
  <2>4. StackStep(p) BY <1>3, <2>1, <2>2, FailedStep
  <2>5. CASE UNCHANGED files BY <2>1, <2>4, <2>5, KeptTree DEF files
  <2>6. CASE q # Nowhere /\ q \notin DOMAIN tree /\ Make(p, q, Dir(Inode(p)))
    <3>1. Make(p, q, e) BY <2>6 DEF e
    <3>2. TreeStep(p) BY <2>1, <2>3, <2>6, <2>9, <3>1, MakeStep
    <3> QED BY <2>4, <3>2
  <2> QED BY <2>2, <2>4, <2>5, <2>6
<1>6. CASE OpenDir(p)
  <2> DEFINE d == Real(tree, f.path)
             more == [at |-> "readdir", dir |-> d, ino |-> Ino(tree, d), seen |-> {},
                      names |-> NamesIn(tree, d)]
  <2>1. Busy(p) /\ UNCHANGED <<tree, removers, made>> BY <1>6 DEF OpenDir, In, files, history
  <2>2. /\ "at" \in DOMAIN more /\ {"fn", "to", "path", "dst", "i"} \cap DOMAIN more = {}
        /\ "names" \in DOMAIN more /\ more.names = NamesIn(tree, d)
    OBVIOUS
  <2>2a. NamesIn(tree, d) \subseteq Names BY NamesAreNames
  <2>3. Failed(p) \/ Goto(p, Having(f, more)) BY <1>6 DEF OpenDir
  <2> HIDE DEF f, more
  <2>4. FrameOK(call[p], Having(f, more)) BY <1>2, <2>1, <2>2, <2>2a, HavingOK
  <2> QED BY <2>1, <2>3, <2>4, FailedStep, GotoStep, KeptTree
<1>7. CASE NextEntry(p)
  <2>1. /\ Busy(p) /\ f.fn \in {"cp_dir", "rm_r"} /\ f.at = "readdir"
        /\ UNCHANGED <<tree, removers, made>>
    BY <1>7 DEF NextEntry, In, files, history
  <2>2. PICK n \in (f.names \cup Listing(f)) \ f.seen :
               LET g == [f EXCEPT !.seen = @ \cup {n}]
                   s == Append(g.path, n)
               IN \/ g.fn = "rm_r" /\ Enter(p, g, RmR(s))
                  \/ g.fn = "cp_dir" /\ Enter(p, g, CpDir(s, Append(g.dst, n), g.over))
                  \/ g.fn = "cp_dir" /\ Enter(p, g, CpFile(s, Append(g.dst, n), g.over))
                  \/ Goto(p, g)
    BY <1>7 DEF NextEntry
  <2>3. FrameOK(call[p], f) BY <1>2, <2>1
  <2>4. n \in Names
    <3>1. f.names \subseteq Names BY <2>1, <2>3 DEF FrameOK
    <3>2. Listing(f) \subseteq Names BY NamesAreNames DEF Listing
    <3> QED BY <3>1, <3>2
  <2> DEFINE g == [f EXCEPT !.seen = @ \cup {n}]
             s == Append(f.path, n)
             d == Append(f.dst, n)
  <2>5. FrameOK(call[p], g) BY <2>3, GoOn
  <2>6. g.fn = f.fn /\ g.path = f.path /\ g.dst = f.dst
    BY <2>1
  <2>7. s \in Paths
    <3>1. f.path \in Paths BY <2>1, <2>3 DEF FrameOK, Needs
    <3> QED BY <2>4, <3>1, AppendPath DEF Paths
  <2>8. g.fn = "cp_dir" => d \in Paths
    <3> SUFFICES ASSUME g.fn = "cp_dir" PROVE d \in Paths OBVIOUS
    <3>1. f.dst \in Paths BY <2>3, <2>6 DEF FrameOK, Needs
    <3> QED BY <2>4, <3>1, AppendPath DEF Paths
  <2>9. g.fn = "rm_r" => call[p].fn = "rm_r" BY <2>5 DEF FrameOK, Removing
  <2>10. \/ g.fn = "rm_r" /\ Enter(p, g, RmR(s))
         \/ g.fn = "cp_dir" /\ Enter(p, g, CpDir(s, d, g.over))
         \/ g.fn = "cp_dir" /\ Enter(p, g, CpFile(s, d, g.over))
         \/ Goto(p, g)
    BY <2>2, <2>6
  <2> HIDE DEF f, g, s, d
  <2>11. CASE Goto(p, g) BY <2>1, <2>5, <2>11, GotoStep, KeptTree
  <2>12. ASSUME NEW h, FrameOK(call[p], h), Enter(p, g, h) PROVE Goal
    BY <2>1, <2>5, <2>12, EnterStep, KeptTree
  <2>13. call[p] # Null BY <2>3 DEF FrameOK
  <2>14. CASE g.fn = "rm_r" /\ Enter(p, g, RmR(s))
    <3>1. FrameOK(call[p], RmR(s)) BY <2>7, <2>9, <2>13, <2>14, NewFrames
    <3> QED BY <2>12, <2>14, <3>1
  <2>15. CASE g.fn = "cp_dir" /\ Enter(p, g, CpDir(s, d, g.over))
    <3>1. FrameOK(call[p], CpDir(s, d, g.over)) BY <2>7, <2>8, <2>13, <2>15, NewFrames
    <3> QED BY <2>12, <2>15, <3>1
  <2>16. CASE g.fn = "cp_dir" /\ Enter(p, g, CpFile(s, d, g.over))
    <3>1. FrameOK(call[p], CpFile(s, d, g.over)) BY <2>7, <2>8, <2>13, <2>16, NewFrames
    <3> QED BY <2>12, <2>16, <3>1
  <2> QED BY <2>10, <2>11, <2>14, <2>15, <2>16
<1>18. CASE SkipEntry(p)
  <2>1. Busy(p) /\ UNCHANGED <<tree, removers, made>> BY <1>18 DEF SkipEntry, In, files
  <2>2. PICK n : Goto(p, [f EXCEPT !.seen = @ \cup {n}]) BY <1>18 DEF SkipEntry
  <2> DEFINE g == [f EXCEPT !.seen = @ \cup {n}]
  <2>3. FrameOK(call[p], g) BY <1>2, <2>1, GoOn
  <2> HIDE DEF f, g
  <2> QED BY <2>1, <2>2, <2>3, GotoStep, KeptTree DEF g
<1>8. CASE NoMoreEntries(p)
  <2>1. Busy(p) /\ UNCHANGED <<tree, removers, made>> BY <1>8 DEF NoMoreEntries, In, files
  <2>2. FrameOK(call[p], [f EXCEPT !.at = "rmdir"]) BY <1>2, <2>1, GoOn
  <2>3. Ok(p) \/ Goto(p, [f EXCEPT !.at = "rmdir"]) BY <1>8 DEF NoMoreEntries
  <2> HIDE DEF f
  <2> QED BY <2>1, <2>2, <2>3, OkStep, GotoStep, KeptTree
<1>9. CASE Lstat(p)
  <2>1. Busy(p) /\ UNCHANGED <<tree, removers, made>> BY <1>9 DEF Lstat, In, files, history
  <2>2. Failed(p) \/ \E at : at # "readdir" /\ Goto(p, [f EXCEPT !.at = at]) BY <1>9 DEF Lstat
  <2>3. \A at : at # "readdir" => FrameOK(call[p], [f EXCEPT !.at = at]) BY <1>2, <2>1, GoOn
  <2> HIDE DEF f
  <2> QED BY <2>1, <2>2, <2>3, FailedStep, GotoStep, KeptTree
<1>10. CASE RemoveEntry(p)
  <2> DEFINE q == Place(tree, f.path)
  <2>1. Busy(p) /\ Top(p).fn \in Removing /\ Top(p).at \in {"unlink", "rmdir"}
    BY <1>10 DEF RemoveEntry, In, Removing
  <2>2. \/ Failed(p) /\ UNCHANGED <<tree, removers, made>>
        \/ /\ Drop(p, q) /\ (Goto(p, [f EXCEPT !.at = "symlink"]) \/ Ok(p))
           /\ Kind(tree, q) \in {"file", "link"}
    BY <1>10 DEF RemoveEntry, files, history
  <2>3. FrameOK(call[p], [f EXCEPT !.at = "symlink"]) BY <1>2, <2>1, GoOn
  <2>4. Drop(p, q) /\ Kind(tree, q) \in {"file", "link"} => TreeStep(p) BY <2>1, DropStep
  <2> HIDE DEF f, q
  <2> QED BY <2>1, <2>2, <2>3, <2>4, FailedStep, GotoStep, OkStep, KeptTree
<1>11. CASE RemoveDir(p)
  <2> DEFINE q == Place(tree, f.path)
  <2>1. Busy(p) /\ Top(p).fn \in Removing /\ Top(p).at \in {"unlink", "rmdir"}
    BY <1>11 DEF RemoveDir, In, Removing
  <2>2. \/ Failed(p) /\ UNCHANGED <<tree, removers, made>>
        \/ Drop(p, q) /\ Kind(tree, q) = "dir" /\ NamesIn(tree, q) = {} /\ Ok(p)
    BY <1>11 DEF RemoveDir, files, history
  <2>3. Drop(p, q) /\ Kind(tree, q) = "dir" /\ NamesIn(tree, q) = {} => TreeStep(p)
    BY <2>1, DropStep
  <2> HIDE DEF f, q
  <2> QED BY <2>1, <2>2, <2>3, FailedStep, OkStep, KeptTree
<1>12. CASE Symlink(p)
  <2> DEFINE q == Place(tree, f.path)
  <2>1. Busy(p) /\ f.fn = "ln_sf" /\ UNCHANGED removers BY <1>12 DEF Symlink, In, history
  <2>2. \/ Failed(p) /\ UNCHANGED files
        \/ /\ q # Nowhere /\ q \notin DOMAIN tree /\ Make(p, q, Link(Inode(p), f.to))
           /\ Ok(p)
    BY <1>12 DEF Symlink
  <2>3. f.to \in Seq(Names) /\ call[p].fn = "ln_sf" /\ f.path \in Paths
    BY <1>2, <2>1 DEF FrameOK, Removing, Needs
  <2>9. q = Nowhere \/ LiesIn(tree, q) BY <2>3, PlaceLies
  <2>4. /\ Link(Inode(p), f.to).kind = "link"
        /\ Link(Inode(p), f.to).to = f.to
    BY DEF Link
  <2> HIDE DEF f, q
  <2>5. CASE Failed(p) /\ UNCHANGED files BY <2>1, <2>5, FailedStep, KeptTree DEF files
  <2>6. CASE /\ q # Nowhere /\ q \notin DOMAIN tree /\ Make(p, q, Link(Inode(p), f.to))
             /\ Ok(p)
    <3>1. StackStep(p) BY <2>1, <2>6, OkStep
    <3> DEFINE e == Link(Inode(p), f.to)
    <3>2. e.kind = "link" /\ e.to \in Seq(Names) /\ Make(p, q, e) BY <2>3, <2>4, <2>6
    <3> HIDE DEF e
    <3>3. TreeStep(p) BY <2>1, <2>3, <2>6, <2>9, <3>2, MakeStep
    <3> QED BY <3>1, <3>3
  <2> QED BY <2>2, <2>5, <2>6
<1>13. CASE OpenIn(p)
  <2> DEFINE q == Real(tree, f.path)
             more == [at |-> "out", in |-> Ino(tree, q)]
  <2>1. Busy(p) /\ UNCHANGED <<tree, removers, made>> BY <1>13 DEF OpenIn, In, files, history
  <2>2. /\ "at" \in DOMAIN more /\ {"fn", "to", "path", "dst", "i"} \cap DOMAIN more = {}
        /\ more.at # "readdir"
    OBVIOUS
  <2>3. Failed(p) \/ Goto(p, Having(f, more)) BY <1>13 DEF OpenIn
  <2> HIDE DEF f, more
  <2>4. FrameOK(call[p], Having(f, more)) BY <1>2, <2>1, <2>2, HavingOK
  <2> QED BY <2>1, <2>3, <2>4, FailedStep, GotoStep, KeptTree
<1>3a. CASE OpenOut(p)
  <2> DEFINE q == IF f.over THEN Real(tree, f.dst) ELSE Place(tree, f.dst)
             more(i) == [at |-> "write", out |-> i, pos |-> 0]
  <2>1. Busy(p) /\ UNCHANGED removers BY <1>3a DEF OpenOut, In, history
  <2>2. \A i : /\ "at" \in DOMAIN more(i) /\ more(i).at # "readdir"
               /\ {"fn", "to", "path", "dst", "i"} \cap DOMAIN more(i) = {}
    OBVIOUS
  <2>3. \/ Failed(p) /\ UNCHANGED <<tree, made>>
        \/ \E i : Goto(p, Having(f, more(i))) /\ UNCHANGED <<tree, made>>
        \/ /\ q # Nowhere /\ ~Open(tree, q) /\ q \notin DOMAIN tree /\ Make(p, q, File(Inode(p)))
           /\ \E i : Goto(p, Having(f, more(i)))
    BY <1>3a DEF OpenOut, files, Open
  <2> DEFINE e == File(Inode(p))
  <2>4. e.kind = "file" BY DEF File
  <2>9. q = Nowhere \/ Open(tree, q) \/ LiesIn(tree, q)
    <3>1. f.fn \in {"cp_file", "write_all"} BY <1>3a DEF OpenOut, In
    <3>2. f.dst \in Paths BY <1>2, <2>1, <3>1 DEF Needs
    <3> QED BY <3>2, PlaceLies, RealLies
  <2> HIDE DEF f, q, more, e
  <2>5. \A i : FrameOK(call[p], Having(f, more(i))) BY <1>2, <2>1, <2>2, HavingOK
  <2>6. StackStep(p) BY <2>1, <2>3, <2>5, FailedStep, GotoStep
  <2>7. CASE UNCHANGED <<tree, made>> BY <2>1, <2>6, <2>7, KeptTree
  <2>8. CASE /\ q # Nowhere /\ ~Open(tree, q) /\ q \notin DOMAIN tree
             /\ Make(p, q, File(Inode(p)))
    <3>1. Make(p, q, e) BY <2>8 DEF e
    <3>2. TreeStep(p) BY <2>1, <2>4, <2>8, <2>9, <3>1, MakeStep
    <3> QED BY <2>6, <3>2
  <2> QED BY <2>3, <2>6, <2>7, <2>8
<1>15. CASE Write(p)
  <2>1. Busy(p) /\ UNCHANGED <<tree, removers, made>> BY <1>15 DEF Write, In, history
  <2>2. FrameOK(call[p], [f EXCEPT !.pos = @ + 1]) BY <1>2, <2>1, GoOn
  <2>3. Failed(p) \/ Ok(p) \/ Goto(p, [f EXCEPT !.pos = @ + 1]) BY <1>15 DEF Write
  <2> HIDE DEF f
  <2> QED BY <2>1, <2>2, <2>3, FailedStep, OkStep, GotoStep, KeptTree
<1>16. CASE OpenOnly(p)
  <2> DEFINE q == Real(tree, f.path)
             e == File(Inode(p))
  <2>1. Busy(p) /\ f.fn = "touch" /\ UNCHANGED removers BY <1>16 DEF OpenOnly, In, history
  <2>2. \/ (Failed(p) \/ Ok(p)) /\ UNCHANGED <<tree, made>>
        \/ /\ q # Nowhere /\ ~Open(tree, q) /\ q \notin DOMAIN tree
           /\ Make(p, q, e) /\ Ok(p)
    BY <1>16 DEF OpenOnly, files, Open
  <2>3. e.kind = "file" BY DEF File
  <2>4. q = Nowhere \/ Open(tree, q) \/ LiesIn(tree, q)
    <3>1. f.path \in Paths BY <1>2, <2>1 DEF Needs
    <3> QED BY <3>1, RealLies
  <2> HIDE DEF f, q, e
  <2>5. StackStep(p) BY <2>1, <2>2, FailedStep, OkStep
  <2>6. CASE UNCHANGED <<tree, made>> BY <2>1, <2>5, <2>6, KeptTree
  <2>7. CASE q # Nowhere /\ ~Open(tree, q) /\ q \notin DOMAIN tree /\ Make(p, q, e)
    <3>1. TreeStep(p) BY <2>1, <2>3, <2>4, <2>7, MakeStep
    <3> QED BY <2>5, <3>1
  <2> QED BY <2>2, <2>5, <2>6, <2>7
<1>17. CASE Fault(p)
  <2>1. Busy(p) /\ Failed(p) /\ UNCHANGED <<tree, removers, made>> BY <1>17 DEF Fault, files
  <2> QED BY <2>1, FailedStep, KeptTree
<1> QED
  BY <1>4, <1>5, <1>6, <1>7, <1>8, <1>9, <1>10, <1>11, <1>12, <1>13, <1>3a, <1>15, <1>16,
     <1>17, <1>18 DEF Step

-----------------------------------------------------------------------------
(* How far a mkdir_p is: while nothing was removed there is an entry at     *)
(* every name that it has gone past.                                        *)
MkdirFrame(at, path, i) == [fn |-> "mkdir_p", at |-> at, path |-> path, i |-> i]
Passed(t, r, path, i) == (r = {} /\ i > 1) => Place(t, Upto(path, i - 1)) \in DOMAIN t
Making(t, r, c, s) ==
  (c # Null /\ c.fn = "mkdir_p") =>
    \/ s = <<>>
    \/ \E at \in {"stat", "mkdir"}, i \in 1 .. Len(c.path) :
         s = <<MkdirFrame(at, c.path, i)>> /\ Passed(t, r, c.path, i)
Moved ==
  /\ TreeOK(tree') /\ removers \subseteq removers'
  /\ Grows(tree, tree') \/ removers' # {}
Inv ==
  /\ StackInv /\ TreeOK(tree) /\ Closed(tree)
  /\ \A p \in Procs : Making(tree, removers, call[p], stack[p])

LEMMA MkdirCall ==
  ASSUME NEW c \in Calls \cup {Null}, c # Null, c.fn = "mkdir_p"
  PROVE  c.path \in Seq(Names) \ {<<>>} /\ c = MkdirP(c.path)
<1>1. FrameOK(c, c) BY CallFrame
<1>2. c.path \in Paths BY <1>1 DEF FrameOK, Needs
<1> QED BY <1>2, CallAssumption DEF Paths

LEMMA FrameIs ==
  ASSUME NEW at, NEW path, NEW i
  PROVE  /\ MkdirFrame(at, path, i).fn = "mkdir_p" /\ MkdirFrame(at, path, i).at = at
         /\ MkdirFrame(at, path, i).path = path /\ MkdirFrame(at, path, i).i = i
BY DEF MkdirFrame

LEMMA PassedStays ==
  ASSUME TreeOK(tree), Moved, NEW path \in Seq(Names), NEW i \in 1 .. Len(path),
         Passed(tree, removers, path, i)
  PROVE  Passed(tree', removers', path, i)
<1> DEFINE j == i - 1
           q == Place(tree, Upto(path, j))
<1> SUFFICES ASSUME removers' = {}, i > 1
             PROVE  Place(tree', Upto(path, j)) \in DOMAIN tree'
  BY DEF Passed
<1>1. removers = {} /\ Grows(tree, tree') /\ TreeOK(tree') BY DEF Moved
<1>2. q \in DOMAIN tree /\ q # Nowhere
  BY <1>1, NowhereIsNoPath DEF Passed, TreeOK, Paths
<1>3. j \in 1 .. Len(path)
  <2>1. Len(path) \in Nat BY LenProperties
  <2> QED BY <2>1
<1> HIDE DEF j
<1>4. Place(tree', Upto(path, j)) = q BY <1>1, <1>2, <1>3, PlaceStays
<1> QED BY <1>1, <1>2, <1>4 DEF Grows

LEMMA MakingStays ==
  ASSUME TreeOK(tree), Moved, NEW c \in Calls \cup {Null}, NEW s, Making(tree, removers, c, s)
  PROVE  Making(tree', removers', c, s)
<1> SUFFICES ASSUME c # Null, c.fn = "mkdir_p", s # <<>>
             PROVE  \E at \in {"stat", "mkdir"}, i \in 1 .. Len(c.path) :
                      s = <<MkdirFrame(at, c.path, i)>> /\ Passed(tree', removers', c.path, i)
  BY DEF Making
<1>1. c.path \in Seq(Names) BY MkdirCall
<1>2. PICK at \in {"stat", "mkdir"}, i \in 1 .. Len(c.path) :
        s = <<MkdirFrame(at, c.path, i)>> /\ Passed(tree, removers, c.path, i)
  BY DEF Making
<1>3. Passed(tree', removers', c.path, i) BY <1>1, <1>2, PassedStays
<1> QED BY <1>2, <1>3

(* Its own step takes mkdir_p past a name at which there is an entry then.   *)
LEMMA OwnStep ==
  ASSUME StackInv, TreeOK(tree), NEW p \in Procs, Step(p), Moved,
         Making(tree, removers, call[p], stack[p]), call[p] # Null, call[p].fn = "mkdir_p"
  PROVE  Making(tree', removers', call[p], stack'[p])
<1> DEFINE path == call[p].path
           Goal == \/ stack'[p] = <<>>
                   \/ \E a \in {"stat", "mkdir"}, j \in 1 .. Len(path) :
                        /\ stack'[p] = <<MkdirFrame(a, path, j)>>
                        /\ Passed(tree', removers', path, j)
<1>0. path \in Seq(Names) \ {<<>>} BY MkdirCall DEF StackInv
<1>1. SUFFICES Goal BY <1>0 DEF Making
<1>2. Busy(p) BY DEF Step, DirExists, Mkdir, OpenDir, NextEntry, SkipEntry, NoMoreEntries, Lstat,
                    RemoveEntry, RemoveDir, Symlink, OpenIn, OpenOut, Write, OpenOnly, Fault, In
<1>3. PICK at \in {"stat", "mkdir"}, i \in 1 .. Len(path) :
        stack[p] = <<MkdirFrame(at, path, i)>> /\ Passed(tree, removers, path, i)
  BY <1>2 DEF Making, Busy
<1> DEFINE f == MkdirFrame(at, path, i)
<1>3a. f = MkdirFrame(at, path, i) OBVIOUS
<1> HIDE DEF path, f
<1>4. Top(p) = f /\ Tail(stack[p]) = <<>> BY <1>3, OneFrame DEF Top, f
<1>5. f.fn = "mkdir_p" /\ f.path = path /\ f.i = i BY <1>3a, FrameIs
<1>6. DirExists(p) \/ Mkdir(p) \/ Fault(p)
  BY <1>4, <1>5 DEF Step, OpenDir, NextEntry, SkipEntry, NoMoreEntries, Lstat, RemoveEntry, RemoveDir,
                    Symlink, OpenIn, OpenOut, Write, OpenOnly, In
<1>7. ASSUME NEW g, Goto(p, g) PROVE stack'[p] = <<g>>
  <2>1. <<g>> \o <<>> = <<g>> OBVIOUS
  <2> QED BY <1>4, <1>7, <2>1 DEF Goto, StackInv
<1>8. ASSUME Ok(p) \/ Failed(p) PROVE stack'[p] = <<>>
  BY <1>4, <1>8 DEF Ok, Failed, StackInv
<1>9. i \in Nat \ {0} /\ Len(path) \in Nat /\ i <= Len(path) BY <1>0, LenProperties
<1>10. ASSUME Further(p, f), removers' = {} => Place(tree', Upto(path, i)) \in DOMAIN tree'
       PROVE  Goal
  <2>1. CASE i = Len(path) BY <1>5, <1>8, <1>10, <2>1 DEF Further
  <2>2. CASE i # Len(path)
    <3>1. Goto(p, MkdirFrame("stat", path, i + 1))
      <4>1. Goto(p, [f EXCEPT !.at = "stat", !.i = @ + 1]) BY <1>5, <1>10, <2>2 DEF Further
      <4>2. [f EXCEPT !.at = "stat", !.i = @ + 1] = MkdirFrame("stat", path, i + 1)
        <5> DEFINE g == [f EXCEPT !.at = "stat"]
        <5>1. g = MkdirFrame("stat", path, i) BY <1>3a DEF MkdirFrame
        <5>2. [g EXCEPT !.i = @ + 1] = MkdirFrame("stat", path, i + 1)
          <6> DEFINE j == i + 1
          <6> HIDE DEF g
          <6>1. g.i = i BY <5>1 DEF MkdirFrame
          <6>2. [g EXCEPT !.i = @ + 1] = [g EXCEPT !.i = j] BY <6>1
          <6> HIDE DEF j
          <6>3. [g EXCEPT !.i = j] = MkdirFrame("stat", path, j) BY <5>1 DEF MkdirFrame
          <6> QED BY <6>2, <6>3 DEF j
        <5> QED BY <5>2
      <4> QED BY <4>1, <4>2
    <3>2. stack'[p] = <<MkdirFrame("stat", path, i + 1)>> BY <1>7, <3>1
    <3>3. i + 1 \in 1 .. Len(path) /\ (i + 1) - 1 = i BY <1>9, <2>2
    <3>4. Passed(tree', removers', path, i + 1) BY <1>10, <3>3 DEF Passed
    <3> QED BY <3>2, <3>3, <3>4
  <2> QED BY <2>1, <2>2
<1>11. CASE DirExists(p)
  <2>1. UNCHANGED <<tree, removers>> BY <1>11 DEF DirExists, files, history
  <2>2. CASE Kind(tree, Real(tree, Upto(path, i))) = "dir"
    <3>1. Place(tree, Upto(path, i)) \in DOMAIN tree BY <1>0, <2>2, RealPlace
    <3>2. Further(p, f) BY <1>4, <1>5, <1>11, <2>2 DEF DirExists
    <3> QED BY <1>10, <2>1, <3>1, <3>2
  <2>3. CASE Kind(tree, Real(tree, Upto(path, i))) # "dir"
    <3>1. Goto(p, [f EXCEPT !.at = "mkdir"]) BY <1>4, <1>5, <1>11, <2>3 DEF DirExists
    <3>2. [f EXCEPT !.at = "mkdir"] = MkdirFrame("mkdir", path, i) BY <1>3a DEF MkdirFrame
    <3>3. stack'[p] = <<MkdirFrame("mkdir", path, i)>> BY <1>7, <3>1, <3>2
    <3>4. Passed(tree', removers', path, i) BY <1>3, <2>1
    <3> QED BY <3>3, <3>4
  <2> QED BY <2>2, <2>3
<1>12. CASE Mkdir(p)
  <2> DEFINE q == Place(tree, Upto(path, i))
  <2>1. \/ Failed(p)
        \/ /\ Further(p, f) /\ q # Nowhere
           /\ \/ q \in DOMAIN tree /\ UNCHANGED tree
              \/ \E e : Make(p, q, e)
    BY <1>4, <1>5, <1>12 DEF Mkdir, files
  <2>2. CASE Failed(p) BY <1>8, <2>2
  <2>3. CASE /\ Further(p, f) /\ q # Nowhere
             /\ \/ q \in DOMAIN tree /\ UNCHANGED tree
                \/ \E e : Make(p, q, e)
    <3>1. q \in DOMAIN tree' BY <2>3 DEF Make
    <3>2. removers' = {} => Grows(tree, tree') /\ TreeOK(tree') BY DEF Moved
    <3>3. removers' = {} => Place(tree', Upto(path, i)) = q
      BY <1>0, <2>3, <3>2, PlaceStays
    <3> QED BY <1>10, <2>3, <3>1, <3>3
  <2> QED BY <2>1, <2>2, <2>3
<1>13. CASE Fault(p) BY <1>8, <1>13 DEF Fault
<1> QED BY <1>6, <1>11, <1>12, <1>13

-----------------------------------------------------------------------------
(* The invariant, and what it is for.                                      *)
LEMMA InitInv ==
  ASSUME Init
  PROVE  Inv
<1>1. StackInv BY AllOKNone, FileAssumption DEF Init, StackInv
<1>2. TreeOK(tree) /\ Closed(tree)
  <2>1. PICK v \in Trees :
          tree = [q \in DOMAIN v |-> IF v[q].kind = "link" THEN Link(<<Null, q>>, v[q].to)
                                     ELSE [kind |-> v[q].kind, ino |-> <<Null, q>>]]
    BY DEF Init
  <2>2. DOMAIN tree = DOMAIN v /\ DOMAIN v \subseteq Paths BY <2>1, FileAssumption DEF Paths
  <2>3. ASSUME NEW q \in DOMAIN tree
        PROVE  /\ tree[q].kind = v[q].kind /\ tree[q].kind \in {"dir", "file", "link"}
               /\ tree[q].kind = "link" => tree[q].to \in Seq(Names)
    <3>1. /\ q \in DOMAIN v /\ v[q].kind \in {"dir", "file", "link"}
          /\ v[q].kind = "link" => v[q].to \in Seq(Names)
      BY <2>2, <2>3, FileAssumption
    <3>2. CASE v[q].kind = "link"
      <4>1. tree[q] = Link(<<Null, q>>, v[q].to) BY <2>1, <3>1, <3>2
      <4> QED BY <3>1, <3>2, <4>1 DEF Link
    <3>3. CASE v[q].kind # "link"
      <4>1. tree[q] = [kind |-> v[q].kind, ino |-> <<Null, q>>] BY <2>1, <3>1, <3>3
      <4>2. tree[q].kind = v[q].kind BY <4>1
      <4> QED BY <3>1, <3>3, <4>2
    <3> QED BY <3>2, <3>3
  <2>4. TreeOK(tree) BY <2>2, <2>3 DEF TreeOK
  <2>5. ASSUME NEW d \in Seq(Names), NEW n \in Names, Append(d, n) \in DOMAIN tree
        PROVE  Open(tree, d)
    <3>1. CASE d = <<>> BY <2>4, <3>1, KindIs
    <3>2. CASE d # <<>>
      <4> DEFINE q == Append(d, n)
      <4>1. q \in DOMAIN v /\ Front(q) = d /\ Len(q) > 1
        <5>1. Len(q) = Len(d) + 1 /\ Len(d) \in Nat \ {0}
          BY <3>2, AppendProperties, EmptySeq, LenProperties
        <5> QED BY <2>2, <2>5, <5>1, AppendPath
      <4> HIDE DEF q
      <4>2. d \in DOMAIN v /\ v[d].kind = "dir" BY <4>1, FileAssumption
      <4>3. d \in DOMAIN tree /\ tree[d].kind = "dir" BY <2>2, <2>3, <4>2
      <4> QED BY <3>2, <4>3 DEF Open, Kind
    <3> QED BY <3>1, <3>2
  <2> QED BY <2>4, <2>5 DEF Closed
<1>3. \A p \in Procs : call[p] = Null BY DEF Init
<1> QED BY <1>1, <1>2, <1>3 DEF Inv, Making

LEMMA NextInv ==
  ASSUME Inv, [Next]_vars
  PROVE  Inv'
<1>1. ASSUME NEW p \in Procs, Step(p) PROVE Inv'
  <2>1. StackStep(p) /\ TreeStep(p) /\ UNCHANGED call BY <1>1, StepIs DEF Inv
  <2>1a. Moved /\ Closed(tree') BY <2>1, TreeStepKeeps DEF Inv, Moved
  <2>2. StackInv'
    <3>1. ASSUME NEW q \in Procs
          PROVE  /\ AllOK(call[q], stack'[q])
                 /\ res'[q] = "ok" => stack'[q] = <<>> /\ call[q] # Null
      <4>1. CASE q = p BY <2>1, <4>1 DEF StackStep
      <4>2. CASE q # p BY <2>1, <4>2 DEF StackStep, Inv, StackInv
      <4> QED BY <4>1, <4>2
    <3>2. DOMAIN made' = Procs /\ \A q \in Procs : made'[q] \in Nat
      BY <2>1 DEF TreeStep, Kept, Makes, Removes, Inv, StackInv
    <3> QED BY <2>1, <3>1, <3>2 DEF StackInv, StackStep, Inv
  <2>3. TreeOK(tree') /\ Closed(tree') BY <2>1a DEF Moved
  <2>4. ASSUME NEW q \in Procs PROVE Making(tree', removers', call'[q], stack'[q])
    <3>1. call'[q] = call[q] BY <2>1
    <3>2. CASE q # p
      <4>1. stack'[q] = stack[q] BY <2>1, <3>2 DEF StackStep
      <4>2. Making(tree, removers, call[q], stack[q]) BY DEF Inv
      <4>3. Making(tree', removers', call[q], stack[q])
        BY <2>1a, <4>2, MakingStays DEF Inv, StackInv
      <4> QED BY <3>1, <4>1, <4>3
    <3>3. CASE q = p
      <4>1. CASE call[p] # Null /\ call[p].fn = "mkdir_p"
        <5>1. Making(tree, removers, call[p], stack[p]) BY DEF Inv
        <5>2. Making(tree', removers', call[p], stack'[p])
          BY <1>1, <2>1a, <4>1, <5>1, OwnStep DEF Inv
        <5> QED BY <3>1, <3>3, <5>2
      <4>2. CASE ~(call[p] # Null /\ call[p].fn = "mkdir_p")
        BY <3>1, <3>3, <4>2 DEF Making
      <4> QED BY <4>1, <4>2
    <3> QED BY <3>2, <3>3
  <2> QED BY <2>2, <2>3, <2>4 DEF Inv
<1>2. ASSUME NEW p \in Procs, NEW c \in Calls, Begin(p, c) PROVE Inv'
  <2>1. /\ UNCHANGED <<tree, removers, res, made>> /\ call[p] = Null
        /\ call' = [call EXCEPT ![p] = c] /\ stack' = [stack EXCEPT ![p] = Entered(c)]
    BY <1>2 DEF Begin, files, history
  <2>2. c # Null /\ FrameOK(c, c) BY CallFrame
  <2>3. /\ DOMAIN stack' = Procs /\ DOMAIN call' = Procs /\ DOMAIN res' = Procs
        /\ stack'[p] = Entered(c) /\ call'[p] = c
        /\ \A q \in Procs \ {p} : stack'[q] = stack[q] /\ call'[q] = call[q]
    BY <2>1 DEF Inv, StackInv
  <2>4. AllOK(c, Entered(c)) BY <2>2, EnteredOK
  <2>5. StackInv'
    <3>1. ASSUME NEW q \in Procs
          PROVE  /\ AllOK(call'[q], stack'[q]) /\ call'[q] \in Calls \cup {Null}
                 /\ res'[q] = "ok" => stack'[q] = <<>> /\ call'[q] # Null
      <4>1. CASE q = p
        <5>1. res'[p] # "ok" BY <2>1 DEF Inv, StackInv
        <5> QED BY <2>3, <2>4, <4>1, <5>1
      <4>2. CASE q # p BY <2>1, <2>3, <4>2 DEF Inv, StackInv
      <4> QED BY <4>1, <4>2
    <3> QED BY <2>1, <2>3, <3>1 DEF Inv, StackInv
  <2>6. Making(tree, removers, c, Entered(c))
    <3> SUFFICES ASSUME c.fn = "mkdir_p"
                 PROVE  \E at \in {"stat", "mkdir"}, i \in 1 .. Len(c.path) :
                          /\ Entered(c) = <<MkdirFrame(at, c.path, i)>>
                          /\ Passed(tree, removers, c.path, i)
      BY DEF Making
    <3>1. c.path \in Seq(Names) \ {<<>>} /\ c = MkdirP(c.path) BY <2>2, MkdirCall
    <3>2. c = MkdirFrame("stat", c.path, 1) BY <3>1 DEF MkdirP, MkdirFrame
    <3>3. Entered(c) = <<c>> BY DEF Entered
    <3>4. 1 \in 1 .. Len(c.path)
      <4>1. Len(c.path) \in Nat \ {0} BY <3>1, EmptySeq, LenProperties
      <4> QED BY <4>1
    <3>5. Passed(tree, removers, c.path, 1) BY DEF Passed
    <3> QED BY <3>1, <3>2, <3>3, <3>4, <3>5
  <2>7. ASSUME NEW q \in Procs PROVE Making(tree', removers', call'[q], stack'[q])
    <3>1. CASE q = p BY <2>1, <2>3, <2>6, <3>1
    <3>2. CASE q # p BY <2>1, <2>3, <3>2 DEF Inv
    <3> QED BY <3>1, <3>2
  <2> QED BY <2>1, <2>5, <2>7 DEF Inv
<1>3. CASE UNCHANGED vars
  <2>1. UNCHANGED <<tree, removers, call, stack, res, made>> BY <1>3 DEF vars, files, history
  <2> QED BY <2>1 DEF Inv, StackInv
<1> QED BY <1>1, <1>2, <1>3 DEF Next

(* A mkdir_p that fails, and meets no failing call, has something removed   *)
(* behind it or an entry in its way.                                        *)
LEMMA FailsForReason ==
  ASSUME Inv, [Next]_vars, NEW p \in Procs, call[p] # Null, call[p].fn = "mkdir_p",
         res[p] # "failed", res'[p] = "failed", p \notin faulty', removers = {}
  PROVE  InTheWay(call[p].path)
<1> DEFINE path == call[p].path
<1>1. Step(p)
  <2>1. ~(UNCHANGED vars) BY DEF vars
  <2>2. ASSUME NEW r \in Procs, NEW c \in Calls, Begin(r, c) PROVE FALSE BY <2>2 DEF Begin
  <2>3. ASSUME NEW r \in Procs, r # p, Step(r) PROVE FALSE
    <3>1. StackStep(r) BY <2>3, StepIs DEF Inv
    <3> QED BY <2>3, <3>1 DEF StackStep
  <2> QED BY <2>1, <2>2, <2>3 DEF Next
<1>2. Busy(p) BY <1>1 DEF Step, DirExists, Mkdir, OpenDir, NextEntry, SkipEntry, NoMoreEntries, Lstat,
                  RemoveEntry, RemoveDir, Symlink, OpenIn, OpenOut, Write, OpenOnly, Fault, In
<1>3. path \in Seq(Names) /\ PathMax \in Nat BY FileAssumption, MkdirCall DEF Inv, StackInv
<1>4. PICK at \in {"stat", "mkdir"}, i \in 1 .. Len(path) :
        stack[p] = <<MkdirFrame(at, path, i)>> /\ Passed(tree, removers, path, i)
  BY <1>2 DEF Inv, Making, Busy
<1> DEFINE f == MkdirFrame(at, path, i)
<1>5. f.fn = "mkdir_p" /\ f.path = path /\ f.i = i BY FrameIs
<1> HIDE DEF path, f
<1>6. Top(p) = f BY <1>4, OneFrame DEF Top, f
<1>7. DirExists(p) \/ Mkdir(p) \/ Fault(p)
  BY <1>1, <1>5, <1>6 DEF Step, OpenDir, NextEntry, SkipEntry, NoMoreEntries, Lstat, RemoveEntry, RemoveDir,
                    Symlink, OpenIn, OpenOut, Write, OpenOnly, In
<1>8. ~Ok(p) /\ \A g : ~Goto(p, g) BY DEF Ok, Goto, Inv, StackInv
<1>9. ~DirExists(p) BY <1>8 DEF DirExists, Further
<1>10. ~Fault(p) BY DEF Fault
<1>11. Place(tree, Upto(path, i)) = Nowhere
  <2>1. ~Further(p, f) BY <1>8 DEF Further
  <2> QED BY <1>5, <1>6, <1>7, <1>9, <1>10, <2>1 DEF Mkdir
<1>12. CASE Len(path) > PathMax BY <1>12 DEF InTheWay, path
<1>13. CASE ~(Len(path) > PathMax)
  <2>1. i <= PathMax /\ i \in Nat /\ Len(path) \in Nat /\ i <= Len(path)
    BY <1>3, <1>13, LenProperties
  <2>2. i > 1 => Place(tree, Upto(path, i - 1)) \in DOMAIN tree BY <1>4 DEF Passed
  <2>3. i > 1 /\ Barred(tree, path, i - 1) BY <1>3, <1>11, <2>1, <2>2, NowhereToGo DEF Inv
  <2>4. i - 1 \in 1 .. Len(path) BY <2>1, <2>3
  <2>5. InTheWay(path) BY <2>3, <2>4 DEF InTheWay, Barred
  <2> QED BY <2>5 DEF path
<1> QED BY <1>12, <1>13

(* Processes that make overlapping paths at the same time do not get in     *)
(* each other's way (line 80), however many they are, whatever else they    *)
(* and the others call and whatever tree they begin with.                    *)
THEOREM MkdirFailsForReason == Spec => MkdirsMeet
<1> DEFINE Meet == \A p \in Procs :
             (/\ call[p] # Null /\ call[p].fn = "mkdir_p"
              /\ res[p] # "failed" /\ res'[p] = "failed" /\ p \notin faulty')
               => removers # {} \/ InTheWay(call[p].path)
<1>1. Init => Inv BY InitInv
<1>2. Inv /\ [Next]_vars => Inv' BY NextInv
<1>3. Inv /\ [Next]_vars => [Meet]_vars BY FailsForReason
<1> QED BY <1>1, <1>2, <1>3, PTL DEF Spec, MkdirsMeet

-----------------------------------------------------------------------------
(* rm_r: its records go down one name at a time from the path it was called *)
(* with, and there is no link at any directory it is in.                    *)
LEMMA PrefixOfAppend ==
  ASSUME NEW s \in Seq(Names), NEW n \in Names, NEW t \in Seq(Names), IsPrefix(Append(s, n), t)
  PROVE  IsPrefix(s, t)
<1> DEFINE u == Append(s, n)
<1>1. /\ u \in Seq(Names) /\ Len(u) = Len(s) + 1 /\ \A i \in 1 .. Len(s) : u[i] = s[i]
      /\ Len(s) \in Nat /\ Len(t) \in Nat
  BY AppendProperties, LenProperties
<1> HIDE DEF u
<1>2. Len(u) <= Len(t) /\ \A i \in 1 .. Len(u) : u[i] = t[i]
  BY <1>1, PrefixIs DEF u
<1>3. Len(s) <= Len(t) /\ \A i \in 1 .. Len(s) : s[i] = t[i] BY <1>1, <1>2
<1> QED BY <1>3, PrefixIs

LEMMA PlaceAppend ==
  ASSUME NEW t, TreeOK(t), NEW path \in Paths, NEW n \in Names, NoLink(t, path),
         Place(t, Append(path, n)) # Nowhere
  PROVE  /\ Place(t, path) # Nowhere /\ Place(t, path) \in Seq(Names)
         /\ Place(t, Append(path, n)) = Append(Place(t, path), n)
<1> DEFINE q == Append(path, n)
           m == Len(path)
<1>1. /\ q \in Paths /\ q \in Seq(Names) /\ Front(q) = path /\ Last(q) = n
      /\ Len(q) = m + 1 /\ m \in Nat \ {0}
  BY AppendPath, AppendProperties, FrontOfPath DEF Paths
<1> HIDE DEF q, m
<1>2. /\ q = Upto(q, m + 1) /\ path = Upto(q, m) /\ n = q[m + 1] /\ m + 1 \in 1 .. Len(q)
  <2>1. m + 1 - 1 = m BY <1>1
  <2> QED BY <1>1, <2>1, FrontOfPath
<1>3. Place(t, Upto(q, m + 1)) # Nowhere /\ NoLink(t, Upto(q, m)) BY <1>2 DEF q
<1>4. /\ Place(t, Upto(q, m)) # Nowhere /\ Place(t, Upto(q, m)) \in Seq(Names)
      /\ Place(t, Upto(q, m + 1)) = Append(Place(t, Upto(q, m)), q[m + 1])
  BY <1>1, <1>2, <1>3, PlaceNext
<1> QED BY <1>2, <1>4 DEF q

Inside == {"opendir", "readdir", "rmdir"}
Removal(t, top, s) ==
  \A k \in 1 .. Len(s) :
    /\ s[k].fn = "rm_r" /\ s[k].path \in Paths
    /\ s[k].at \in Inside => NoLink(t, s[k].path)
    /\ k = Len(s) => s[k].path = top
    /\ k < Len(s) => /\ s[k + 1].at = "readdir"
                     /\ \E n \in Names : s[k].path = Append(s[k + 1].path, n)

LEMMA RemovalBelow ==
  ASSUME NEW t, TreeOK(t), NEW top, NEW s, IsSeq(s), s # <<>>, Removal(t, top, s),
         Place(t, s[1].path) # Nowhere
  PROVE  IsPrefix(Place(t, top), Place(t, s[1].path))
<1> DEFINE P(k) == Place(t, s[k].path)
           T == {m \in Nat : m + 1 <= Len(s) =>
                   P(m + 1) # Nowhere /\ P(m + 1) \in Seq(Names) /\ IsPrefix(P(m + 1), P(1))}
<1>1. Len(s) \in Nat \ {0} BY EmptySeq, LenProperties DEF IsSeq
<1>2. P(1) # Nowhere /\ P(1) \in Seq(Names)
  <2>1. s[1].path \in Paths BY <1>1 DEF Removal
  <2> QED BY <2>1, PlaceLies DEF LiesIn, Paths
<1> HIDE DEF P
<1>3. 0 \in T
  <2>1. 0 + 1 = 1 /\ IsPrefix(P(1), P(1)) BY <1>2, PrefixSelf
  <2>2. P(0 + 1) = P(1) BY <2>1
  <2> QED BY <1>2, <2>1, <2>2
<1>4. ASSUME NEW m \in Nat, m \in T PROVE m + 1 \in T
  <2> SUFFICES ASSUME m + 1 + 1 <= Len(s)
               PROVE  /\ P(m + 1 + 1) # Nowhere /\ P(m + 1 + 1) \in Seq(Names)
                      /\ IsPrefix(P(m + 1 + 1), P(1))
    OBVIOUS
  <2> DEFINE k == m + 1
  <2>1. k \in 1 .. Len(s) /\ k < Len(s) /\ k + 1 \in 1 .. Len(s) BY <1>1
  <2>2. P(k) # Nowhere /\ P(k) \in Seq(Names) /\ IsPrefix(P(k), P(1)) BY <1>4, <2>1
  <2> HIDE DEF k
  <2>3. s[k + 1].path \in Paths /\ NoLink(t, s[k + 1].path)
    <3>1. s[k + 1].at = "readdir" BY <2>1 DEF Removal
    <3> QED BY <2>1, <3>1 DEF Removal, Inside
  <2>4. PICK n \in Names : s[k].path = Append(s[k + 1].path, n) BY <2>1 DEF Removal
  <2>5. /\ P(k + 1) # Nowhere /\ P(k + 1) \in Seq(Names) /\ P(k) = Append(P(k + 1), n)
    BY <2>2, <2>3, <2>4, PlaceAppend DEF P
  <2>6. IsPrefix(P(k + 1), P(1)) BY <1>2, <2>2, <2>5, PrefixOfAppend
  <2> QED BY <2>5, <2>6 DEF k
<1> HIDE DEF T
<1>5. \A m \in Nat : m \in T BY <1>3, <1>4, Induction
<1>6. IsPrefix(P(Len(s)), P(1))
  <2>1. Len(s) - 1 \in Nat /\ Len(s) - 1 + 1 = Len(s) BY <1>1
  <2>2. Len(s) - 1 \in T BY <1>5, <2>1
  <2>3. IsPrefix(P(Len(s) - 1 + 1), P(1)) BY <1>1, <2>1, <2>2 DEF T
  <2> QED BY <2>1, <2>3
<1>7. s[Len(s)].path = top BY <1>1 DEF Removal
<1> QED BY <1>6, <1>7 DEF P

LEMMA ConsIs ==
  ASSUME NEW f, NEW s, IsSeq(s)
  PROVE  /\ IsSeq(<<f>> \o s) /\ Len(<<f>> \o s) = Len(s) + 1 /\ Len(s) \in Nat
         /\ (<<f>> \o s)[1] = f /\ \A k \in 1 .. Len(s) : (<<f>> \o s)[k + 1] = s[k]
<1> DEFINE z == <<f>>
<1>1. IsSeq(z) /\ Len(z) = 1 /\ z[1] = f BY OneFrame
<1>2. PICK S : s \in Seq(S) BY DEF IsSeq
<1>3. PICK Z : z \in Seq(Z) BY <1>1 DEF IsSeq
<1> DEFINE T == Z \cup S
<1> HIDE DEF z
<1>4. z \in Seq(T) /\ s \in Seq(T) BY <1>2, <1>3
<1> HIDE DEF T
<1>5. /\ z \o s \in Seq(T) /\ Len(z \o s) = 1 + Len(s) /\ Len(s) \in Nat
      /\ \A i \in 1 .. 1 + Len(s) : (z \o s)[i] = IF i <= 1 THEN z[i] ELSE s[i - 1]
  <2>1. /\ z \o s \in Seq(T) /\ Len(z \o s) = Len(z) + Len(s)
        /\ \A i \in 1 .. Len(z) + Len(s) :
             (z \o s)[i] = IF i <= Len(z) THEN z[i] ELSE s[i - Len(z)]
    BY <1>4, ConcatProperties
  <2> QED BY <1>1, <1>4, <2>1, LenProperties
<1>6. (z \o s)[1] = f BY <1>1, <1>5
<1>7. ASSUME NEW k \in 1 .. Len(s) PROVE (z \o s)[k + 1] = s[k]
  <2>1. k + 1 \in 1 .. 1 + Len(s) /\ ~(k + 1 <= 1) /\ k + 1 - 1 = k BY <1>5
  <2> QED BY <1>5, <2>1
<1> QED BY <1>5, <1>6, <1>7 DEF z, IsSeq

LEMMA TailIs ==
  ASSUME NEW s, IsSeq(s), s # <<>>
  PROVE  /\ IsSeq(Tail(s)) /\ Len(s) \in Nat \ {0} /\ Len(Tail(s)) = Len(s) - 1
         /\ Head(s) = s[1] /\ \A k \in 1 .. Len(s) - 1 : Tail(s)[k] = s[k + 1]
<1>1. PICK S : s \in Seq(S) BY DEF IsSeq
<1>2. /\ Tail(s) \in Seq(S) /\ Len(Tail(s)) = Len(s) - 1 /\ Len(s) \in Nat \ {0}
      /\ \A i \in 1 .. Len(Tail(s)) : Tail(s)[i] = s[i + 1]
  BY <1>1, HeadTailProperties, EmptySeq, LenProperties
<1>3. Head(s) = s[1] BY <1>1
<1> QED BY <1>2, <1>3 DEF IsSeq

(* One record is put in the place of the first, put before it, or popped.   *)
LEMMA RemovalGoesOn ==
  ASSUME NEW t, NEW top, NEW s, IsSeq(s), s # <<>>, Removal(t, top, s), NEW f,
         f.fn = "rm_r", f.path = Head(s).path, f.at \in Inside => NoLink(t, f.path)
  PROVE  Removal(t, top, <<f>> \o Tail(s))
<1> DEFINE u == <<f>> \o Tail(s)
<1>1. /\ IsSeq(Tail(s)) /\ Len(s) \in Nat \ {0} /\ Len(Tail(s)) = Len(s) - 1
      /\ Head(s) = s[1] /\ \A k \in 1 .. Len(s) - 1 : Tail(s)[k] = s[k + 1]
  BY TailIs
<1>2. /\ Len(u) = Len(s) /\ u[1] = f /\ \A k \in 1 .. Len(s) - 1 : u[k + 1] = s[k + 1]
  BY <1>1, ConsIs
<1> HIDE DEF u
<1>3. ASSUME NEW k \in 1 .. Len(s), k # 1 PROVE u[k] = s[k]
  <2>1. k - 1 \in 1 .. Len(s) - 1 /\ k - 1 + 1 = k BY <1>1, <1>3
  <2> QED BY <1>2, <2>1
<1>4. ASSUME NEW k \in 1 .. Len(u)
      PROVE  /\ u[k].fn = "rm_r" /\ u[k].path = s[k].path
             /\ u[k].at \in Inside => NoLink(t, u[k].path)
  BY <1>1, <1>2, <1>3, <1>4 DEF Removal
<1>5. ASSUME NEW k \in 1 .. Len(u)
      PROVE  /\ u[k].path \in Paths /\ (k = Len(u) => u[k].path = top)
             /\ k < Len(u) => /\ u[k + 1].at = "readdir"
                              /\ \E n \in Names : u[k].path = Append(u[k + 1].path, n)
  <2>1. k \in 1 .. Len(s) /\ u[k].path = s[k].path BY <1>2, <1>4
  <2>2. k < Len(s) => u[k + 1] = s[k + 1] BY <1>1, <1>3, <2>1
  <2> QED BY <1>2, <2>1, <2>2 DEF Removal
<1>6. Removal(t, top, u) BY <1>4, <1>5 DEF Removal
<1> QED BY <1>6 DEF u

LEMMA RemovalEnters ==
  ASSUME NEW t, NEW top, NEW s, IsSeq(s), s # <<>>, Removal(t, top, s), NEW n \in Names,
         Head(s).at = "readdir"
  PROVE  Removal(t, top, <<RmR(Append(Head(s).path, n))>> \o s)
<1> DEFINE g == RmR(Append(Head(s).path, n))
           u == <<g>> \o s
<1>1. Len(s) \in Nat \ {0} /\ Head(s) = s[1] BY TailIs
<1>2. Len(u) = Len(s) + 1 /\ u[1] = g /\ \A k \in 1 .. Len(s) : u[k + 1] = s[k] BY ConsIs
<1>3. /\ g.fn = "rm_r" /\ g.at = "lstat" /\ g.path = Append(s[1].path, n) BY <1>1 DEF RmR
<1> HIDE DEF g, u
<1>4. s[1].path \in Paths /\ 1 \in 1 .. Len(s) BY <1>1 DEF Removal
<1>5. g.path \in Paths BY <1>3, <1>4, AppendPath DEF Paths
<1>6. ASSUME NEW k \in 1 .. Len(u)
      PROVE  /\ u[k].fn = "rm_r" /\ u[k].path \in Paths
             /\ u[k].at \in Inside => NoLink(t, u[k].path)
             /\ k = Len(u) => u[k].path = top
             /\ k < Len(u) => /\ u[k + 1].at = "readdir"
                              /\ \E m \in Names : u[k].path = Append(u[k + 1].path, m)
  <2>1. CASE k = 1
    <3>1. u[k + 1] = s[1] /\ k # Len(u) BY <1>1, <1>2, <1>4, <2>1
    <3> QED BY <1>1, <1>2, <1>3, <1>5, <2>1, <3>1 DEF Inside
  <2>2. CASE k # 1
    <3>1. k - 1 \in 1 .. Len(s) /\ k - 1 + 1 = k BY <1>1, <1>2, <2>2
    <3> DEFINE j == k - 1
    <3>2. u[k] = s[j] /\ (k = Len(u) => j = Len(s)) BY <1>1, <1>2, <3>1
    <3>3. k < Len(u) => j < Len(s) /\ u[k + 1] = s[j + 1] BY <1>1, <1>2, <3>1
    <3>4. j \in 1 .. Len(s) BY <3>1
    <3> HIDE DEF j
    <3> QED BY <3>2, <3>3, <3>4 DEF Removal
  <2> QED BY <2>1, <2>2
<1>7. Removal(t, top, u) BY <1>6 DEF Removal
<1> QED BY <1>7 DEF g, u

LEMMA RemovalPops ==
  ASSUME NEW t, NEW top, NEW s, IsSeq(s), s # <<>>, Removal(t, top, s)
  PROVE  Removal(t, top, Tail(s))
<1> DEFINE u == Tail(s)
<1>1. /\ Len(s) \in Nat \ {0} /\ Len(u) = Len(s) - 1 /\ \A k \in 1 .. Len(s) - 1 : u[k] = s[k + 1]
  BY TailIs
<1> HIDE DEF u
<1>2. ASSUME NEW k \in 1 .. Len(u)
      PROVE  /\ u[k].fn = "rm_r" /\ u[k].path \in Paths
             /\ u[k].at \in Inside => NoLink(t, u[k].path)
             /\ k = Len(u) => u[k].path = top
             /\ k < Len(u) => /\ u[k + 1].at = "readdir"
                              /\ \E m \in Names : u[k].path = Append(u[k + 1].path, m)
  <2> DEFINE j == k + 1
  <2>1. /\ u[k] = s[j] /\ j \in 1 .. Len(s) /\ (k = Len(u) => j = Len(s))
        /\ (k < Len(u) => j < Len(s) /\ u[k + 1] = s[j + 1])
    BY <1>1
  <2> HIDE DEF j
  <2> QED BY <2>1 DEF Removal
<1>3. Removal(t, top, u) BY <1>2 DEF Removal
<1> QED BY <1>3 DEF u

(* Nothing but a new link takes a removal to another place.                 *)
LEMMA RemovalStays ==
  ASSUME NEW t, TreeOK(t), NEW u, TreeOK(u), NEW q, ButFor(t, u, q), Leaf(u, q),
         NEW top, NEW s, Removal(t, top, s)
  PROVE  Removal(u, top, s)
<1>1. \A path \in Paths : NoLink(t, path) => NoLink(u, path) BY NoLinkStays
<1> QED BY <1>1 DEF Removal

-----------------------------------------------------------------------------
(* A step of rm_r, on the tree it finds.                                    *)
LEMMA RemovalNone ==
  ASSUME NEW t, NEW top
  PROVE  Removal(t, top, <<>>)
<1>1. 1 .. Len(<<>>) = {} OBVIOUS
<1> QED BY <1>1 DEF Removal

LEMMA ConsCons ==
  ASSUME NEW g, NEW f, NEW s, IsSeq(s)
  PROVE  <<g>> \o <<f>> \o s = <<g>> \o (<<f>> \o s)
<1> DEFINE x == <<g>>
           y == <<f>>
<1>1. IsSeq(x) /\ IsSeq(y) BY OneFrame
<1> HIDE DEF x, y
<1>2. PICK X : x \in Seq(X) BY <1>1 DEF IsSeq
<1>3. PICK Y : y \in Seq(Y) BY <1>1 DEF IsSeq
<1>4. PICK S : s \in Seq(S) BY DEF IsSeq
<1> DEFINE T == X \cup Y \cup S
<1>5. x \in Seq(T) /\ y \in Seq(T) /\ s \in Seq(T) BY <1>2, <1>3, <1>4
<1> HIDE DEF T
<1>6. x \o y \o s = x \o (y \o s) BY <1>5, ConcatAssociative
<1> QED BY <1>6 DEF x, y

LEMMA OwnRemoval ==
  ASSUME StackInv, TreeOK(tree), NEW p \in Procs, Step(p), NEW top,
         call[p].fn = "rm_r", Removal(tree, top, stack[p])
  PROVE  Removal(tree, top, stack'[p])
<1> DEFINE f == Top(p)
           Goal == Removal(tree, top, stack'[p])
<1>1. Busy(p) BY DEF Step, DirExists, Mkdir, OpenDir, NextEntry, SkipEntry, NoMoreEntries, Lstat,
                    RemoveEntry, RemoveDir, Symlink, OpenIn, OpenOut, Write, OpenOnly, Fault, In
<1>2. IsSeq(stack[p]) /\ stack[p] # <<>> /\ f = Head(stack[p]) /\ FrameOK(call[p], f)
  BY <1>1, TopOK DEF StackInv, AllOK, Busy, Top
<1>3. /\ f.fn = "rm_r" /\ f.path \in Paths /\ (f.at \in Inside => NoLink(tree, f.path))
      /\ IsSeq(Tail(stack[p])) /\ {"fn", "at", "path"} \subseteq DOMAIN f
  <2>1. Len(stack[p]) \in Nat \ {0} /\ f = stack[p][1] /\ IsSeq(Tail(stack[p])) BY <1>2, TailIs
  <2>2. 1 \in 1 .. Len(stack[p]) BY <2>1
  <2>3. f.fn = "rm_r" /\ f.path \in Paths /\ (f.at \in Inside => NoLink(tree, f.path))
    BY <2>1, <2>2 DEF Removal
  <2> QED BY <1>2, <2>1, <2>3 DEF FrameOK, Needs
<1>4. \A g : Goto(p, g) => stack'[p] = <<g>> \o Tail(stack[p]) BY DEF Goto, StackInv
<1> HIDE DEF f
<1>5. ASSUME Failed(p) PROVE Goal
  <2>1. stack'[p] = <<>> BY <1>5 DEF Failed, StackInv
  <2> QED BY <2>1, RemovalNone
<1>6. ASSUME Ok(p) PROVE Goal
  <2>1. stack'[p] = Tail(stack[p]) BY <1>6 DEF Ok, StackInv
  <2> QED BY <1>2, <2>1, RemovalPops
<1>7. ASSUME NEW g, Goto(p, g), g.fn = f.fn, g.path = f.path,
             g.at \in Inside => NoLink(tree, f.path)
      PROVE  Goal
  <2>1. stack'[p] = <<g>> \o Tail(stack[p]) BY <1>4, <1>7
  <2>2. g.path = Head(stack[p]).path BY <1>2, <1>7
  <2> QED BY <1>2, <1>3, <1>7, <2>1, <2>2, RemovalGoesOn
<1>8. ASSUME NEW a, a \in Inside => NoLink(tree, f.path), Goto(p, [f EXCEPT !.at = a])
      PROVE  Goal
  <2> DEFINE g == [f EXCEPT !.at = a]
  <2>1. g.fn = f.fn /\ g.path = f.path /\ g.at = a BY <1>3
  <2>2. Goto(p, g) BY <1>8
  <2> HIDE DEF g
  <2> QED BY <1>7, <1>8, <2>1, <2>2
<1>9. CASE OpenDir(p)
  <2> DEFINE d == Real(tree, f.path)
             more == [at |-> "readdir", dir |-> d, ino |-> Ino(tree, d), seen |-> {},
                      names |-> NamesIn(tree, d)]
             g == Having(f, more)
  <2>1. Failed(p) \/ Goto(p, g) BY <1>9 DEF OpenDir, f
  <2>2. f.at = "opendir" BY <1>9 DEF OpenDir, In, f
  <2>3. /\ DOMAIN more = {"at", "dir", "ino", "seen", "names"} /\ more.at = "readdir" OBVIOUS
  <2> HIDE DEF more
  <2>4. g.fn = f.fn /\ g.path = f.path BY <1>3, <2>3 DEF Having
  <2> HIDE DEF g
  <2> QED BY <1>3, <1>5, <1>7, <2>1, <2>2, <2>4 DEF Inside
<1>10. CASE NextEntry(p)
  <2>1. f.at = "readdir" BY <1>10 DEF NextEntry, In, f
  <2>2. PICK n \in (f.names \cup Listing(f)) \ f.seen :
          LET g == [f EXCEPT !.seen = @ \cup {n}] IN
          Enter(p, g, RmR(Append(g.path, n))) \/ Goto(p, g)
    BY <1>3, <1>10 DEF NextEntry, f
  <2> DEFINE g == [f EXCEPT !.seen = @ \cup {n}]
  <2>3. g.fn = f.fn /\ g.path = f.path /\ g.at = f.at BY <1>3
  <2>4. n \in Names
    <3>1. f.names \subseteq Names BY <1>2, <2>1 DEF FrameOK
    <3>2. Listing(f) \subseteq Names BY NamesAreNames DEF Listing
    <3> QED BY <3>1, <3>2
  <2>5. Enter(p, g, RmR(Append(g.path, n))) \/ Goto(p, g) BY <2>2
  <2>6. NoLink(tree, f.path) BY <1>3, <2>1 DEF Inside
  <2> HIDE DEF g
  <2>7. CASE Goto(p, g) BY <1>7, <2>3, <2>6, <2>7
  <2>8. CASE Enter(p, g, RmR(Append(g.path, n)))
    <3> DEFINE h == RmR(Append(g.path, n))
               u == <<g>> \o Tail(stack[p])
    <3>1. h.fn = "rm_r" BY DEF RmR
    <3>2. Removal(tree, top, u)
      <4>1. g.path = Head(stack[p]).path /\ g.fn = "rm_r" /\ NoLink(tree, g.path)
        BY <1>2, <1>3, <2>3, <2>6
      <4> QED BY <1>2, <4>1, RemovalGoesOn
    <3>3. /\ IsSeq(u) /\ Len(u) = Len(Tail(stack[p])) + 1 /\ Len(Tail(stack[p])) \in Nat
          /\ u[1] = g
      BY <1>3, ConsIs
    <3>4. stack'[p] = <<h>> \o u
      <4>1. Entered(h) = <<h>> BY <3>1 DEF Entered
      <4> HIDE DEF h, u
      <4>2. stack'[p] = Entered(h) \o <<g>> \o Tail(stack[p]) BY <2>8 DEF Enter, StackInv, h
      <4> QED BY <1>3, <4>1, <4>2, ConsCons DEF u
    <3> HIDE DEF u
    <3>5. u # <<>> /\ Head(u) = g
      <4>1. Len(<<>>) = 0 OBVIOUS
      <4>2. u # <<>> BY <3>3, <4>1
      <4> QED BY <3>3, <4>2, TailIs
    <3>6. h = RmR(Append(Head(u).path, n)) /\ Head(u).at = "readdir" BY <2>1, <2>3, <3>5
    <3> HIDE DEF h
    <3>7. Removal(tree, top, <<RmR(Append(Head(u).path, n))>> \o u)
      BY <2>4, <3>2, <3>3, <3>5, <3>6, RemovalEnters
    <3> QED BY <3>4, <3>6, <3>7
  <2> QED BY <2>5, <2>7, <2>8
<1>11. CASE NoMoreEntries(p)
  <2>1. Ok(p) \/ Goto(p, [f EXCEPT !.at = "rmdir"]) BY <1>11 DEF NoMoreEntries, f
  <2>2. NoLink(tree, f.path) BY <1>3, <1>11 DEF NoMoreEntries, In, Inside, f
  <2> QED BY <1>6, <1>8, <2>1, <2>2
<1>12. CASE Lstat(p)
  <2>1. \/ Failed(p)
        \/ Goto(p, [f EXCEPT !.at = "symlink"]) \/ Goto(p, [f EXCEPT !.at = "unlink"])
        \/ Kind(tree, Place(tree, f.path)) = "dir" /\ \E a : Goto(p, [f EXCEPT !.at = a])
    BY <1>12 DEF Lstat, f
  <2> QED BY <1>5, <1>8, <2>1 DEF Inside, NoLink
<1>13. CASE RemoveEntry(p)
  <2>1. Failed(p) \/ Ok(p) BY <1>3, <1>13 DEF RemoveEntry, f
  <2> QED BY <1>5, <1>6, <2>1
<1>14. CASE RemoveDir(p) BY <1>5, <1>6, <1>14 DEF RemoveDir
<1>15. CASE Fault(p) BY <1>5, <1>15 DEF Fault
<1>16. \/ OpenDir(p) \/ NextEntry(p) \/ NoMoreEntries(p) \/ Lstat(p) \/ RemoveEntry(p)
       \/ RemoveDir(p) \/ Fault(p)
  BY <1>3 DEF Step, DirExists, Mkdir, SkipEntry, Symlink, OpenIn, OpenOut, Write, OpenOnly, In, f
<1> QED BY <1>9, <1>10, <1>11, <1>12, <1>13, <1>14, <1>15, <1>16

(* As long as nobody makes links.                                           *)
LinkFree == \A r \in Procs : call[r] # Null => call[r].fn # "ln_sf"
RmInv ==
  LinkFree => \A p \in Procs : (call[p] # Null /\ call[p].fn = "rm_r")
                                 => Removal(tree, call[p].path, stack[p])

LEMMA InitRm ==
  ASSUME Init
  PROVE  RmInv
BY DEF Init, RmInv

LEMMA NextRm ==
  ASSUME Inv, RmInv, [Next]_vars
  PROVE  RmInv'
<1>1. ASSUME NEW p \in Procs, Step(p) PROVE RmInv'
  <2>1. StackStep(p) /\ TreeStep(p) /\ UNCHANGED call BY <1>1, StepIs DEF Inv
  <2>2. SUFFICES ASSUME LinkFree, NEW q \in Procs, call[q] # Null, call[q].fn = "rm_r"
                 PROVE  Removal(tree', call[q].path, stack'[q])
    BY <2>1 DEF RmInv, LinkFree
  <2>3. Removal(tree, call[q].path, stack[q]) BY <2>2 DEF RmInv
  <2>4. Removal(tree, call[q].path, stack'[q])
    <3>1. CASE q = p BY <1>1, <2>2, <2>3, <3>1, OwnRemoval DEF Inv
    <3>2. CASE q # p BY <2>1, <2>3, <3>2 DEF StackStep
    <3> QED BY <3>1, <3>2
  <2>5. CASE Kept BY <2>4, <2>5 DEF Kept
  <2>6. ASSUME NEW x, TreeOK(tree'), ButFor(tree, tree', x), Leaf(tree', x)
        PROVE  Removal(tree', call[q].path, stack'[q])
    BY <2>4, <2>6, RemovalStays DEF Inv
  <2>7. CASE Makes(p)
    <3>1. PICK x : Made(tree, tree', x) /\ (tree'[x].kind = "link" => call[p].fn = "ln_sf")
      BY <2>7 DEF Makes
    <3>2. tree'[x].kind # "link" BY <2>1, <2>2, <3>1 DEF LinkFree, StackStep
    <3> QED BY <2>6, <3>1, <3>2, MadeTree DEF Inv
  <2>8. CASE Removes(p) BY <2>6, <2>8, GoneTree DEF Inv, Removes
  <2> QED BY <2>1, <2>5, <2>7, <2>8 DEF TreeStep
<1>2. ASSUME NEW p \in Procs, NEW c \in Calls, Begin(p, c) PROVE RmInv'
  <2>1. /\ UNCHANGED tree /\ call[p] = Null /\ call'[p] = c /\ stack'[p] = Entered(c)
        /\ \A q \in Procs \ {p} : call'[q] = call[q] /\ stack'[q] = stack[q]
    BY <1>2 DEF Begin, files, Inv, StackInv
  <2>2. SUFFICES ASSUME LinkFree', NEW q \in Procs, call'[q] # Null, call'[q].fn = "rm_r"
                 PROVE  Removal(tree, call'[q].path, stack'[q])
    BY <2>1 DEF RmInv
  <2>3. LinkFree BY <2>1, <2>2 DEF LinkFree
  <2>4. CASE q # p BY <2>1, <2>2, <2>3, <2>4 DEF RmInv
  <2>5. CASE q = p
    <3>1. c.fn = "rm_r" /\ FrameOK(c, c) BY <2>1, <2>2, <2>5, CallFrame
    <3>2. c.path \in Paths /\ c.at = "lstat"
      <4>1. c.path \in Paths BY <3>1 DEF FrameOK, Needs
      <4>2. c = RmR(c.path) BY <3>1, CallAssumption
      <4>3. RmR(c.path).at = "lstat" BY DEF RmR
      <4> QED BY <4>1, <4>2, <4>3
    <3>3. Entered(c) = <<c>> BY <3>1 DEF Entered
    <3> DEFINE z == <<c>>
    <3>4. Len(z) = 1 /\ z[1] = c BY OneFrame
    <3> HIDE DEF z
    <3>5. Removal(tree, c.path, z) BY <3>1, <3>2, <3>4 DEF Removal, Inside
    <3> QED BY <2>1, <2>5, <3>3, <3>5 DEF z
  <2> QED BY <2>4, <2>5
<1>3. CASE UNCHANGED vars BY <1>3 DEF vars, files, RmInv, LinkFree
<1> QED BY <1>1, <1>2, <1>3 DEF Next

LEMMA RemovesBelow ==
  ASSUME Inv, RmInv, [Next]_vars, NEW q \in DOMAIN tree \ DOMAIN tree'
  PROVE  \E p \in Procs :
           /\ Busy(p) /\ call[p].fn \in {"rm_r", "unlink", "ln_sf"}
           /\ \/ IsPrefix(Place(tree, call[p].path), q)
              \/ \E r \in Procs \ {p} : call[r] # Null /\ call[r].fn = "ln_sf"
<1>1. PICK p \in Procs : Step(p) /\ Removes(p) /\ StackStep(p)
  <2>1. ~(UNCHANGED vars) BY DEF vars, files
  <2>2. ASSUME NEW r \in Procs, NEW c \in Calls, Begin(r, c) PROVE FALSE
    BY <2>2 DEF Begin, files
  <2>3. PICK p \in Procs : Step(p) BY <2>1, <2>2 DEF Next
  <2>4. StackStep(p) /\ TreeStep(p) BY <2>3, StepIs DEF Inv
  <2>5. ~Kept /\ ~Makes(p) BY DEF Kept, Makes, Made
  <2> QED BY <2>3, <2>4, <2>5 DEF TreeStep
<1> DEFINE f == Top(p)
<1>2. /\ Busy(p) /\ call[p].fn \in Removing /\ f.fn = call[p].fn
      /\ DOMAIN tree' = DOMAIN tree \ {Place(tree, f.path)} /\ call[p] # Null
  BY <1>1 DEF Removes, Gone, StackStep
<1>3. q = Place(tree, f.path) /\ q \in Paths BY <1>2 DEF Inv, TreeOK
<1>4. FrameOK(call[p], f) BY <1>2, TopOK DEF Inv
<1>5. q # Nowhere BY <1>3, NowhereIsNoPath DEF Paths
<1> SUFFICES ASSUME \A r \in Procs \ {p} : ~(call[r] # Null /\ call[r].fn = "ln_sf")
             PROVE  IsPrefix(Place(tree, call[p].path), q)
  BY <1>2 DEF Removing
<1>6. CASE call[p].fn # "rm_r"
  <2>1. f.path = call[p].path BY <1>2, <1>4, <1>6 DEF FrameOK
  <2>2. IsPrefix(q, q) BY <1>3, PrefixSelf DEF Paths
  <2> QED BY <1>3, <2>1, <2>2
<1>7. CASE call[p].fn = "rm_r"
  <2>1. LinkFree BY <1>7 DEF LinkFree
  <2>2. Removal(tree, call[p].path, stack[p]) BY <1>2, <1>7, <2>1 DEF RmInv
  <2>3. IsSeq(stack[p]) /\ stack[p] # <<>> BY <1>2 DEF Inv, StackInv, AllOK, Busy
  <2>4. f = stack[p][1] BY <2>3, TailIs DEF Top
  <2> HIDE DEF f
  <2>5. Place(tree, stack[p][1].path) = q BY <1>3, <2>4
  <2> QED BY <1>5, <2>2, <2>3, <2>5, RemovalBelow DEF Inv
<1> QED BY <1>6, <1>7

(* rm_r removes nothing outside of its path, however many processes change  *)
(* the tree under it, and however deep it is, as long as no other process   *)
(* makes links; unlink and ln_sf remove nothing but the entry at theirs.    *)
THEOREM RemovalsStayBelow == Spec => RemovalStaysBelow
<1> DEFINE Contained ==
      \A q \in DOMAIN tree \ DOMAIN tree' :
        \E p \in Procs :
          /\ Busy(p) /\ call[p].fn \in {"rm_r", "unlink", "ln_sf"}
          /\ \/ IsPrefix(Place(tree, call[p].path), q)
             \/ \E r \in Procs \ {p} : call[r] # Null /\ call[r].fn = "ln_sf"
<1>1. Init => Inv /\ RmInv BY InitInv, InitRm
<1>2. Inv /\ RmInv /\ [Next]_vars => (Inv /\ RmInv)' BY NextInv, NextRm
<1>3. Inv /\ RmInv /\ [Next]_vars => [Contained]_vars BY RemovesBelow
<1> QED BY <1>1, <1>2, <1>3, PTL DEF Spec, RemovalStaysBelow

-----------------------------------------------------------------------------
(* ln_sf: one record, at the path and with the target of the call.          *)
Sole(s) == s = <<>> \/ (Len(s) = 1 /\ s[1].fn = "ln_sf")
AtSymlink(s) == s # <<>> /\ s[1].at = "symlink"
Links(p) ==
  LET q == Place(tree, call[p].path) IN
  /\ Made(tree, tree', q) /\ tree'[q].kind = "link" /\ tree'[q].to = call[p].to
  /\ UNCHANGED removers /\ res'[p] = "ok"
Unlinks(p) ==
  /\ Gone(tree, tree', Place(tree, call[p].path))
  /\ AtSymlink(stack'[p]) /\ res'[p] # "ok"
Idles(p) ==
  /\ Kept /\ res'[p] # "ok"
  /\ AtSymlink(stack[p]) =>
       faulty' # {} \/ Place(tree, call[p].path) \in DOMAIN tree \cup {Nowhere}

LEMMA LnStep ==
  ASSUME Inv, NEW p \in Procs, Step(p), call[p].fn = "ln_sf", Sole(stack[p])
  PROVE  Sole(stack'[p]) /\ (Idles(p) \/ Links(p) \/ Unlinks(p))
<1> DEFINE f == Top(p)
           q == Place(tree, call[p].path)
           Goal == Sole(stack'[p]) /\ (Idles(p) \/ Links(p) \/ Unlinks(p))
<1>1. Busy(p) BY DEF Step, DirExists, Mkdir, OpenDir, NextEntry, SkipEntry, NoMoreEntries, Lstat,
                    RemoveEntry, RemoveDir, Symlink, OpenIn, OpenOut, Write, OpenOnly, Fault, In
<1>2. /\ IsSeq(stack[p]) /\ stack[p] # <<>> /\ FrameOK(call[p], f) /\ res[p] # "ok"
      /\ call[p] # Null /\ Len(stack[p]) = 1 /\ f = stack[p][1] /\ Tail(stack[p]) = <<>>
  <2>1. /\ IsSeq(stack[p]) /\ stack[p] # <<>> /\ FrameOK(call[p], f) /\ res[p] # "ok"
        /\ call[p] # Null
    BY <1>1, TopOK DEF Inv, StackInv, AllOK, Busy
  <2>2. Len(stack[p]) = 1 BY <2>1 DEF Sole
  <2>3. f = stack[p][1] BY <2>1, TailIs DEF Top
  <2> QED BY <2>1, <2>2, <2>3, TailOfOne
<1>3. f.fn = "ln_sf" /\ f.path = call[p].path /\ f.to = call[p].to /\ {"fn", "at"} \subseteq DOMAIN f
  BY <1>2 DEF Sole, FrameOK, Removing, Needs
<1> HIDE DEF f, q
<1>4. ASSUME Failed(p) PROVE Sole(stack'[p]) /\ res'[p] # "ok"
  BY <1>4 DEF Failed, Sole, Inv, StackInv
<1>5. ASSUME Ok(p) PROVE Sole(stack'[p]) /\ res'[p] = "ok"
  BY <1>2, <1>5 DEF Ok, Sole, Inv, StackInv
<1>6. ASSUME NEW a, Goto(p, [f EXCEPT !.at = a])
      PROVE  Sole(stack'[p]) /\ res'[p] # "ok" /\ (a = "symlink" => AtSymlink(stack'[p]))
  <2> DEFINE g == [f EXCEPT !.at = a]
             z == <<g>>
  <2>1. g.fn = "ln_sf" /\ g.at = a BY <1>3
  <2> HIDE DEF g
  <2>2. z \o <<>> = z OBVIOUS
  <2>3. Len(z) = 1 /\ z[1] = g /\ z # <<>> BY OneFrame
  <2> HIDE DEF z
  <2>4. stack'[p] = z
    <3>1. stack'[p] = <<g>> \o Tail(stack[p]) BY <1>6 DEF Goto, Inv, StackInv, g
    <3> QED BY <1>2, <2>2, <3>1 DEF z
  <2>5. res'[p] # "ok" BY <1>2, <1>6 DEF Goto
  <2> QED BY <2>1, <2>3, <2>4, <2>5 DEF Sole, AtSymlink
<1>7. CASE Lstat(p)
  <2>1. f.at = "lstat" /\ Kept BY <1>7 DEF Lstat, In, files, history, Kept, f
  <2>2. Failed(p) \/ \E a : Goto(p, [f EXCEPT !.at = a]) BY <1>7 DEF Lstat, f
  <2>3. ~AtSymlink(stack[p]) BY <1>2, <2>1 DEF AtSymlink
  <2> QED BY <1>4, <1>6, <2>1, <2>2, <2>3 DEF Idles
<1>8. CASE RemoveEntry(p)
  <2>1. f.at = "unlink" BY <1>8 DEF RemoveEntry, In, f
  <2>2. ~AtSymlink(stack[p]) BY <1>2, <2>1 DEF AtSymlink
  <2>3. \/ Failed(p) /\ Kept
        \/ /\ Drop(p, q) /\ Goto(p, [f EXCEPT !.at = "symlink"])
    BY <1>3, <1>8 DEF RemoveEntry, files, history, Kept, f, q
  <2>4. CASE Failed(p) /\ Kept BY <1>4, <2>2, <2>4 DEF Idles
  <2>5. CASE Drop(p, q) /\ Goto(p, [f EXCEPT !.at = "symlink"])
    <3>1. Gone(tree, tree', q)
      <4>1. TreeStep(p) BY <1>8, StepIs DEF Inv
      <4>2. p \in removers' /\ made' = made BY <2>5 DEF Drop
      <4>3. DOMAIN tree' = DOMAIN tree \ {q} BY <2>5 DEF Drop, Restrict
      <4>4. ~Makes(p)
        <5>1. made[p] \in Nat /\ DOMAIN made = Procs BY DEF Inv, StackInv
        <5>2. made[p] # made[p] + 1 BY <5>1
        <5> QED BY <4>2, <5>1, <5>2 DEF Makes
      <4>5. Kind(tree, q) \in {"file", "link"}
        <5>1. ~Failed(p) BY <2>5, <1>4, <1>6 DEF Goto, Failed, Inv, StackInv
        <5> QED BY <1>3, <1>8, <5>1 DEF RemoveEntry, f, q
      <4>6. q \in DOMAIN tree BY <4>5 DEF Kind
      <4>7. ~Kept BY <4>3, <4>6 DEF Kept
      <4>8. Removes(p) BY <4>1, <4>4, <4>7 DEF TreeStep
      <4>9. Place(tree, Top(p).path) = q BY <1>3 DEF f, q
      <4> QED BY <4>8, <4>9 DEF Removes
    <3> QED BY <1>6, <2>5, <3>1 DEF Unlinks, q
  <2> QED BY <2>3, <2>4, <2>5
<1>9. CASE Symlink(p)
  <2>1. \/ Failed(p) /\ Kept /\ q \in DOMAIN tree \cup {Nowhere}
        \/ /\ q # Nowhere /\ q \notin DOMAIN tree /\ Make(p, q, Link(Inode(p), f.to)) /\ Ok(p)
           /\ UNCHANGED removers
    BY <1>3, <1>9 DEF Symlink, files, history, Kept, f, q
  <2>2. CASE Failed(p) /\ Kept /\ q \in DOMAIN tree \cup {Nowhere}
    BY <1>4, <2>2 DEF Idles, q
  <2>3. CASE /\ q # Nowhere /\ q \notin DOMAIN tree /\ Make(p, q, Link(Inode(p), f.to)) /\ Ok(p)
             /\ UNCHANGED removers
    <3> DEFINE e == Link(Inode(p), f.to)
    <3>1. e.kind = "link" /\ e.to = call[p].to BY <1>3 DEF Link
    <3>2. Make(p, q, e) BY <2>3
    <3> HIDE DEF e
    <3>3. /\ DOMAIN tree' = DOMAIN tree \cup {q} /\ tree'[q] = e
          /\ \A x \in DOMAIN tree : tree'[x] = tree[x]
      BY <2>3, <3>2 DEF Make
    <3>4. LiesIn(tree, q)
      <4>1. call[p].path \in Paths BY <1>2, <1>3 DEF FrameOK, Needs
      <4> QED BY <2>3, <4>1, PlaceLies DEF q, Inv
    <3>5. call[p].to \in Seq(Names) BY <1>2, <1>3 DEF FrameOK
    <3>6. Made(tree, tree', q) BY <2>3, <3>1, <3>3, <3>4, <3>5 DEF Made
    <3>7. Links(p) BY <1>5, <2>3, <3>1, <3>3, <3>6 DEF Links, q
    <3> QED BY <1>5, <2>3, <3>7
  <2> QED BY <2>1, <2>2, <2>3
<1>10. CASE Fault(p)
  <2>1. Failed(p) /\ Kept /\ faulty' # {} BY <1>10 DEF Fault, files, Kept
  <2> QED BY <1>4, <2>1 DEF Idles
<1>11. Lstat(p) \/ RemoveEntry(p) \/ Symlink(p) \/ Fault(p)
  BY <1>3 DEF Step, DirExists, Mkdir, OpenDir, NextEntry, SkipEntry, NoMoreEntries, RemoveDir,
              OpenIn, OpenOut, Write, OpenOnly, In, f
<1> QED BY <1>7, <1>8, <1>9, <1>10, <1>11

-----------------------------------------------------------------------------
(* A path leads to q, and not by way of q: it does so in a part of the tree *)
(* without q.                                                               *)
Steady(t, path, q) ==
  \E u : TreeOK(u) /\ Grows(u, t) /\ q \notin DOMAIN u /\ q # Nowhere /\ Place(u, path) = q

LEMMA WholePath ==
  ASSUME NEW t, TreeOK(t), NEW u, TreeOK(u), Grows(t, u), NEW path \in Paths,
         Place(t, path) # Nowhere
  PROVE  Place(u, path) = Place(t, path)
<1>1. path = Upto(path, Len(path)) /\ Len(path) \in 1 .. Len(path) /\ path \in Seq(Names)
  BY FrontOfPath DEF Paths
<1> QED BY <1>1, PlaceStays

LEMMA SteadyIs ==
  ASSUME NEW t, TreeOK(t), NEW path \in Paths, NEW q, Steady(t, path, q)
  PROVE  Place(t, path) = q /\ q # Nowhere
<1>1. PICK u : TreeOK(u) /\ Grows(u, t) /\ q \notin DOMAIN u /\ q # Nowhere /\ Place(u, path) = q
  BY DEF Steady
<1> QED BY <1>1, WholePath

LEMMA SteadyStays ==
  ASSUME NEW t, NEW path, NEW q, Steady(t, path, q), NEW t2,
         \/ Grows(t, t2)
         \/ Gone(t, t2, q)
  PROVE  Steady(t2, path, q)
<1>1. PICK u : TreeOK(u) /\ Grows(u, t) /\ q \notin DOMAIN u /\ q # Nowhere /\ Place(u, path) = q
  BY DEF Steady
<1>2. Grows(u, t2) BY <1>1 DEF Grows, Gone
<1> QED BY <1>1, <1>2 DEF Steady

LEMMA SteadyBegins ==
  ASSUME NEW t, TreeOK(t), NEW t2, NEW path, NEW q, Made(t, t2, q), q # Nowhere,
         Place(t, path) = q
  PROVE  Steady(t2, path, q)
BY DEF Steady, Made, Grows

-----------------------------------------------------------------------------
(* Until something but links is made, or something else is removed than the *)
(* entry at a path that processes link: where one of them has made its      *)
(* link there is a link, and if there is none, one that took it away is     *)
(* about to make its own.                                                   *)
Linking(r) == call[r] # Null /\ call[r].fn = "ln_sf"
Quiet(path) ==
  /\ faulty = {} /\ \A r \in Procs : made[r] > 0 => call[r].fn = "ln_sf"
  /\ \A r \in removers : call[r].fn = "ln_sf" /\ call[r].path = path
Linker(r, q) ==
  Linking(r) /\ res[r] = "ok" /\ Steady(tree, call[r].path, q) /\ call[r].to = tree[q].to
Linked(path) ==
  \E q : /\ Steady(tree, path, q)
         /\ \/ Kind(tree, q) = "link" /\ q \in DOMAIN tree /\ \E r \in Procs : Linker(r, q)
            \/ /\ q \notin DOMAIN tree
               /\ \E r \in Procs : /\ Linking(r) /\ call[r].path = path
                                   /\ AtSymlink(stack[r])
LnInv ==
  /\ removers \subseteq Procs
  /\ \A p \in Procs : call[p] = Null => made[p] = 0 /\ p \notin removers
  /\ \A p \in Procs : Linking(p) => Sole(stack[p])
  /\ \A p \in Procs : Linking(p) /\ res[p] = "ok" /\ Quiet(call[p].path) => Linked(call[p].path)

LEMMA LnPath ==
  ASSUME Inv, NEW r \in Procs, Linking(r)
  PROVE  call[r].path \in Paths
<1>1. FrameOK(call[r], call[r]) BY CallFrame DEF Inv, StackInv, Linking
<1> QED BY <1>1 DEF FrameOK, Needs, Linking

LEMMA InitLn ==
  ASSUME Init
  PROVE  LnInv
BY DEF Init, LnInv, Linking

LEMMA QuietBefore ==
  ASSUME Inv, NEW p \in Procs, Step(p), NEW path, Quiet(path)'
  PROVE  Quiet(path) /\ UNCHANGED faulty
<1>1. TreeStep(p) /\ UNCHANGED call BY StepIs DEF Inv
<1>2. faulty \subseteq faulty' BY DEF Step, DirExists, Mkdir, OpenDir, NextEntry, SkipEntry,
        NoMoreEntries, Lstat, RemoveEntry, RemoveDir, Symlink, OpenIn, OpenOut, Write, OpenOnly,
        Fault, history, Drop
<1>3. removers \subseteq removers' BY <1>1 DEF TreeStep, Kept, Makes, Removes
<1>4. ASSUME NEW r \in Procs, made[r] > 0 PROVE made'[r] > 0
  <2>1. DOMAIN made = Procs /\ made[r] \in Nat /\ made[p] \in Nat BY DEF Inv, StackInv
  <2>2. CASE made' = made BY <1>4, <2>2
  <2>3. CASE made' = [made EXCEPT ![p] = @ + 1] BY <1>4, <2>1, <2>3
  <2> QED BY <1>1, <2>2, <2>3 DEF TreeStep, Kept, Makes, Removes
<1> QED BY <1>1, <1>2, <1>3, <1>4 DEF Quiet

(* While it is quiet a step does nothing to the tree, or is one of ln_sf.    *)
LEMMA QuietStep ==
  ASSUME Inv, LnInv, NEW p \in Procs, Step(p), NEW path, Quiet(path)'
  PROVE  \/ Kept /\ (Linking(p) => Idles(p))
         \/ Linking(p) /\ Links(p)
         \/ Linking(p) /\ Unlinks(p) /\ call[p].path = path
<1>1. StackStep(p) /\ TreeStep(p) /\ UNCHANGED call BY StepIs DEF Inv
<1>2. CASE Linking(p)
  <2>1. Sole(stack[p]) BY <1>2 DEF LnInv
  <2>2. Idles(p) \/ Links(p) \/ Unlinks(p) BY <1>2, <2>1, LnStep DEF Linking
  <2>3. ASSUME Unlinks(p) PROVE call[p].path = path
    <3>1. ~Kept /\ ~Makes(p) BY <2>3 DEF Unlinks, Gone, Kept, Makes, Made
    <3>2. p \in removers' BY <1>1, <3>1 DEF TreeStep, Removes
    <3> QED BY <1>1, <3>2 DEF Quiet
  <2> QED BY <1>2, <2>2, <2>3 DEF Idles
<1>3. CASE ~Linking(p)
  <2>1. call[p].fn # "ln_sf" BY <1>1, <1>3 DEF StackStep, Linking
  <2>2. ~Makes(p)
    <3>1. DOMAIN made = Procs /\ made[p] \in Nat BY DEF Inv, StackInv
    <3> SUFFICES ASSUME Makes(p) PROVE FALSE OBVIOUS
    <3>2. made'[p] = made[p] + 1 BY <3>1 DEF Makes
    <3>3. made'[p] > 0 BY <3>1, <3>2
    <3> QED BY <1>1, <2>1, <3>3 DEF Quiet
  <2>3. ~Removes(p) BY <1>1, <2>1 DEF Removes, Quiet
  <2> QED BY <1>1, <1>3, <2>2, <2>3 DEF TreeStep
<1> QED BY <1>2, <1>3

LEMMA LinkedStep ==
  ASSUME Inv, LnInv, NEW p \in Procs, Step(p), NEW p0 \in Procs, Linking(p0),
         res'[p0] = "ok", NEW path \in Paths, call[p0].path = path, Quiet(path)'
  PROVE  Linked(path)'
<1>1. StackStep(p) /\ UNCHANGED call /\ Busy(p)
  <2>1. Busy(p) BY DEF Step, DirExists, Mkdir, OpenDir, NextEntry, SkipEntry, NoMoreEntries, Lstat,
                     RemoveEntry, RemoveDir, Symlink, OpenIn, OpenOut, Write, OpenOnly, Fault, In
  <2> QED BY <2>1, StepIs DEF Inv
<1>2. Quiet(path) /\ faulty' = {} BY QuietBefore DEF Quiet
<1>4. /\ TreeOK(tree) /\ res[p] # "ok"
      /\ \A r \in Procs \ {p} : res'[r] = res[r] /\ stack'[r] = stack[r]
  BY <1>1, TopOK DEF Inv, StackStep
<1>5. \A r \in Procs : Linking(r)' <=> Linking(r) BY <1>1 DEF Linking
<1>6. \/ Kept /\ (Linking(p) => Idles(p))
      \/ Linking(p) /\ Links(p)
      \/ Linking(p) /\ Unlinks(p) /\ call[p].path = path
  BY QuietStep
(* p itself has just made its link.                                         *)
<1>7. ASSUME Linking(p), Links(p)
      PROVE  \E x :
             /\ x = Place(tree, call[p].path)
             /\ Made(tree, tree', x) /\ Steady(tree', call[p].path, x) /\ x # Nowhere
             /\ Kind(tree', x) = "link" /\ x \in DOMAIN tree' /\ Linker(p, x)'
  <2>0. PICK x : x = Place(tree, call[p].path) OBVIOUS
  <2>1. Made(tree, tree', x) /\ tree'[x].kind = "link" /\ tree'[x].to = call[p].to /\ res'[p] = "ok"
    BY <1>7, <2>0 DEF Links
  <2>2. x \in Paths /\ x # Nowhere BY <2>1, NowhereIsNoPath DEF Made, LiesIn, Paths
  <2>3. Steady(tree', call[p].path, x) BY <1>4, <2>0, <2>1, <2>2, SteadyBegins
  <2>4. x \in DOMAIN tree' /\ Kind(tree', x) = "link" BY <2>1, <2>2 DEF Made, Kind, Paths
  <2>5. Linker(p, x)' BY <1>1, <1>5, <1>7, <2>1, <2>3 DEF Linker
  <2> QED BY <2>0, <2>1, <2>2, <2>3, <2>4, <2>5
<1>8. CASE p0 = p
  <2>1. Linking(p) /\ Links(p) BY <1>6, <1>8 DEF Idles, Unlinks
  <2>2. PICK x : Steady(tree', path, x) /\ Kind(tree', x) = "link" /\ x \in DOMAIN tree'
                 /\ Linker(p, x)'
    BY <1>7, <1>8, <2>1
  <2> QED BY <2>2 DEF Linked
<1>9. CASE p0 # p
  <2>1. res[p0] = "ok" BY <1>4, <1>9
  <2>2. PICK q : /\ Steady(tree, path, q)
                 /\ \/ Kind(tree, q) = "link" /\ q \in DOMAIN tree /\ \E r \in Procs : Linker(r, q)
                    \/ /\ q \notin DOMAIN tree
                       /\ \E r \in Procs : /\ Linking(r) /\ call[r].path = path
                                           /\ AtSymlink(stack[r])
    BY <1>2, <2>1 DEF LnInv, Linked
  <2>3. Place(tree, path) = q /\ q # Nowhere BY <1>4, <2>2, SteadyIs
  (* Where there is a link it stays, or p takes it away to make its own.    *)
  <2>4. ASSUME Kind(tree, q) = "link", q \in DOMAIN tree, NEW r \in Procs, Linker(r, q)
        PROVE  Linked(path)'
    <3>1. r # p /\ res'[r] = "ok" BY <1>4, <2>4 DEF Linker
    <3>2. ASSUME Grows(tree, tree') PROVE Linked(path)'
      <4>1. Steady(tree', path, q) /\ Steady(tree', call[r].path, q)
        BY <2>2, <2>4, <3>2, SteadyStays DEF Linker
      <4>2. q \in DOMAIN tree' /\ tree'[q] = tree[q] /\ Kind(tree', q) = "link"
        BY <2>4, <3>2 DEF Grows, Kind
      <4>3. Linker(r, q)' BY <1>1, <1>5, <2>4, <3>1, <4>1, <4>2 DEF Linker
      <4> QED BY <1>1, <4>1, <4>2, <4>3 DEF Linked
    <3>3. CASE Kept BY <3>2, <3>3 DEF Kept, Grows
    <3>4. CASE Links(p) BY <3>2, <3>4 DEF Links, Made, Grows
    <3>5. CASE Linking(p) /\ Unlinks(p) /\ call[p].path = path
      <4>1. Gone(tree, tree', q) /\ AtSymlink(stack'[p]) BY <2>3, <3>5 DEF Unlinks
      <4>2. Steady(tree', path, q) BY <2>2, <4>1, SteadyStays
      <4>3. q \notin DOMAIN tree' BY <4>1 DEF Gone
      <4> QED BY <1>1, <1>5, <3>5, <4>1, <4>2, <4>3 DEF Linked
    <3> QED BY <1>6, <3>3, <3>4, <3>5
  (* Where there is none, another makes one or the one that is about to.    *)
  <2>5. ASSUME q \notin DOMAIN tree, NEW r \in Procs, Linking(r), call[r].path = path,
               AtSymlink(stack[r])
        PROVE  Linked(path)'
    <3>1. ASSUME r # p, Grows(tree, tree'), q \notin DOMAIN tree' PROVE Linked(path)'
      <4>1. Steady(tree', path, q) BY <2>2, <3>1, SteadyStays
      <4>2. AtSymlink(stack'[r]) BY <1>4, <2>5, <3>1
      <4> QED BY <1>1, <1>5, <2>5, <3>1, <4>1, <4>2 DEF Linked
    <3>2. CASE Kept /\ (Linking(p) => Idles(p))
      <4>1. r # p
        <5> SUFFICES ASSUME r = p PROVE FALSE OBVIOUS
        <5>1. Idles(p) BY <2>5, <3>2
        <5>2. q \in DOMAIN tree \cup {Nowhere}
          BY <1>2, <2>3, <2>5, <5>1 DEF Idles
        <5> QED BY <2>3, <2>5, <5>2
      <4> QED BY <2>5, <3>1, <3>2, <4>1 DEF Kept, Grows
    <3>3. CASE Linking(p) /\ Links(p)
      <4>1. PICK x : /\ x = Place(tree, call[p].path) /\ Made(tree, tree', x)
                     /\ Kind(tree', x) = "link" /\ x \in DOMAIN tree' /\ Linker(p, x)'
        BY <1>7, <3>3
      <4>2. r = p => x = q BY <2>3, <2>5, <4>1
      <4>3. Grows(tree, tree') BY <4>1 DEF Made, Grows
      <4>4. CASE x = q
        <5>1. Steady(tree', path, q) BY <2>2, <4>3, SteadyStays
        <5> QED BY <1>1, <4>1, <4>4, <5>1 DEF Linked
      <4>5. CASE x # q
        <5>1. q \notin DOMAIN tree' BY <2>5, <4>1, <4>5 DEF Made
        <5> QED BY <3>1, <4>2, <4>3, <4>5, <5>1
      <4> QED BY <4>4, <4>5
    <3>4. CASE Unlinks(p) /\ call[p].path = path
      BY <2>3, <2>5, <3>4 DEF Unlinks, Gone
    <3> QED BY <1>6, <3>2, <3>3, <3>4
  <2> QED BY <2>2, <2>4, <2>5
<1> QED BY <1>8, <1>9

LEMMA NextLn ==
  ASSUME Inv, LnInv, [Next]_vars
  PROVE  LnInv'
<1>1. ASSUME NEW p \in Procs, Step(p) PROVE LnInv'
  <2>1. StackStep(p) /\ TreeStep(p) /\ UNCHANGED call BY <1>1, StepIs DEF Inv
  <2>2. removers' \subseteq Procs /\ removers' \subseteq removers \cup {p}
    BY <2>1 DEF TreeStep, Kept, Makes, Removes, LnInv
  <2>3. ASSUME NEW r \in Procs, call'[r] = Null PROVE made'[r] = 0 /\ r \notin removers'
    <3>1. r # p /\ call[r] = Null BY <2>1, <2>3 DEF StackStep
    <3>2. made'[r] = made[r]
      <4>1. DOMAIN made = Procs BY DEF Inv, StackInv
      <4> QED BY <2>1, <3>1, <4>1 DEF TreeStep, Kept, Makes, Removes
    <3> QED BY <2>2, <3>1, <3>2 DEF LnInv
  <2>4. ASSUME NEW r \in Procs, Linking(r)' PROVE Sole(stack'[r])
    <3>1. Linking(r) BY <2>1, <2>4 DEF Linking
    <3>2. Sole(stack[r]) BY <3>1 DEF LnInv
    <3>3. CASE r = p BY <1>1, <3>1, <3>2, <3>3, LnStep DEF Linking
    <3>4. CASE r # p BY <2>1, <3>2, <3>4 DEF StackStep
    <3> QED BY <3>3, <3>4
  <2>5. ASSUME NEW r \in Procs, Linking(r)', res'[r] = "ok", Quiet(call[r].path)'
        PROVE  Linked(call[r].path)'
    <3>1. Linking(r) BY <2>1, <2>5 DEF Linking
    <3>2. PICK path : path = call[r].path OBVIOUS
    <3>3. path \in Paths BY <3>1, <3>2, LnPath
    <3>4. Quiet(path)' BY <2>1, <2>5, <3>2 DEF Quiet
    <3>5. Linked(path)' BY <1>1, <2>5, <3>1, <3>2, <3>3, <3>4, LinkedStep
    <3> QED BY <2>1, <3>2, <3>5 DEF Linked
  <2> QED BY <2>2, <2>3, <2>4, <2>5 DEF LnInv
<1>2. ASSUME NEW p \in Procs, NEW c \in Calls, Begin(p, c) PROVE LnInv'
  <2>1. /\ UNCHANGED <<tree, made, res, removers, faulty>> /\ call[p] = Null
        /\ call'[p] = c /\ stack'[p] = Entered(c) /\ c # Null /\ FrameOK(c, c)
        /\ \A r \in Procs \ {p} : call'[r] = call[r] /\ stack'[r] = stack[r]
    BY <1>2, CallFrame DEF Begin, files, history, Inv, StackInv
  <2>2. made[p] = 0 /\ p \notin removers /\ removers \subseteq Procs /\ res[p] # "ok"
    BY <2>1 DEF LnInv, Inv, StackInv
  <2>3. ASSUME NEW r \in Procs, call'[r] = Null PROVE made'[r] = 0 /\ r \notin removers'
    BY <2>1, <2>3 DEF LnInv
  <2>4. ASSUME NEW r \in Procs, Linking(r)' PROVE Sole(stack'[r])
    <3>1. CASE r # p BY <2>1, <2>4, <3>1 DEF LnInv, Linking
    <3>2. CASE r = p
      <4>1. c.fn = "ln_sf" BY <2>1, <2>4, <3>2 DEF Linking
      <4>2. Entered(c) = <<c>> BY <4>1 DEF Entered
      <4> DEFINE z == <<c>>
      <4>3. Len(z) = 1 /\ z[1] = c BY OneFrame
      <4> HIDE DEF z
      <4>4. Sole(z) BY <4>1, <4>3 DEF Sole
      <4> QED BY <2>1, <3>2, <4>2, <4>4 DEF z
    <3> QED BY <3>1, <3>2
  <2>5. ASSUME NEW r \in Procs, Linking(r)', res'[r] = "ok", Quiet(call[r].path)'
        PROVE  Linked(call[r].path)'
    <3>1. r # p /\ Linking(r) /\ res[r] = "ok" /\ call'[r] = call[r]
      BY <2>1, <2>2, <2>5 DEF Linking
    <3>2. PICK path : path = call[r].path OBVIOUS
    <3>3. Quiet(path)' BY <2>5, <3>1, <3>2 DEF Quiet
    <3>4. Quiet(path)
      <4>1. ASSUME NEW x \in Procs, made[x] > 0 PROVE call[x].fn = "ln_sf"
        <5>1. x # p BY <2>2, <4>1
        <5> QED BY <2>1, <3>3, <4>1, <5>1 DEF Quiet
      <4>2. ASSUME NEW x \in removers PROVE call[x].fn = "ln_sf" /\ call[x].path = path
        <5>1. x # p /\ x \in Procs BY <2>2
        <5> QED BY <2>1, <3>3, <5>1 DEF Quiet
      <4> QED BY <2>1, <3>3, <4>1, <4>2 DEF Quiet
    <3>5. Linked(path) BY <3>1, <3>2, <3>4 DEF LnInv
    <3>6. PICK q : /\ Steady(tree, path, q)
                   /\ \/ Kind(tree, q) = "link" /\ q \in DOMAIN tree
                        /\ \E x \in Procs : Linker(x, q)
                      \/ /\ q \notin DOMAIN tree
                         /\ \E x \in Procs : /\ Linking(x) /\ call[x].path = path
                                             /\ AtSymlink(stack[x])
      BY <3>5 DEF Linked
    <3>7. ASSUME NEW x \in Procs, Linking(x)
          PROVE  Linking(x)' /\ call'[x] = call[x] /\ stack'[x] = stack[x]
      BY <2>1, <3>7 DEF Linking
    <3>8. ASSUME NEW x \in Procs, Linker(x, q) PROVE Linker(x, q)'
      BY <2>1, <3>7, <3>8 DEF Linker
    <3>9. Linked(path)' BY <2>1, <3>6, <3>7, <3>8 DEF Linked
    <3> QED BY <3>1, <3>2, <3>9 DEF Linked
  <2> QED BY <2>1, <2>2, <2>3, <2>4, <2>5 DEF LnInv
<1>3. CASE UNCHANGED vars
  BY <1>3 DEF vars, files, history, LnInv, Linking, Quiet, Linked, Linker
<1> QED BY <1>1, <1>2, <1>3 DEF Next

LEMMA Survives ==
  ASSUME Inv, LnInv
  PROVE  LinkSurvives
<1> SUFFICES ASSUME NEW p \in Procs, Linking(p), res[p] = "ok", \A r \in Procs : ~Busy(r),
                    Quiet(call[p].path)
             PROVE  LET q == Place(tree, call[p].path) IN
                    /\ Kind(tree, q) = "link"
                    /\ \E r \in Procs : /\ call[r] # Null /\ call[r].fn = "ln_sf" /\ res[r] = "ok"
                                        /\ Place(tree, call[r].path) = q
                                        /\ call[r].to = tree[q].to
  BY DEF LinkSurvives, Linking, Quiet
<1> DEFINE path == call[p].path
<1>1. path \in Paths BY LnPath
<1>2. Linked(path) BY DEF LnInv
<1>3. \A r \in Procs : ~AtSymlink(stack[r]) BY DEF AtSymlink, Busy
<1> HIDE DEF path
<1>4. PICK q : /\ Steady(tree, path, q) /\ Kind(tree, q) = "link"
               /\ \E r \in Procs : Linker(r, q)
  BY <1>2, <1>3 DEF Linked
<1>5. Place(tree, path) = q BY <1>1, <1>4, SteadyIs DEF Inv
<1>6. PICK r \in Procs : /\ Linking(r) /\ res[r] = "ok" /\ call[r].to = tree[q].to
                         /\ Steady(tree, call[r].path, q)
  BY <1>4 DEF Linker
<1>7. call[r].path \in Paths BY <1>6, LnPath
<1>8. Place(tree, call[r].path) = q BY <1>6, <1>7, SteadyIs DEF Inv
<1> QED BY <1>4, <1>5, <1>6, <1>8 DEF Linking, path

(* However many processes link one path at once, to whatever targets and    *)
(* through whatever links, the one that is there in the end is of a process *)
(* that was told it had succeeded.                                          *)
THEOREM OneLinkSurvives == Spec => []LinkSurvives
<1>1. Init => Inv /\ LnInv BY InitInv, InitLn
<1>2. Inv /\ LnInv /\ [Next]_vars => (Inv /\ LnInv)' BY NextInv, NextLn
<1>3. Inv /\ LnInv => LinkSurvives BY Survives
<1> QED BY <1>1, <1>2, <1>3, PTL DEF Spec
=============================================================================
