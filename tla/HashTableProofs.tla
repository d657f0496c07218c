-------------------------- MODULE HashTableProofs ---------------------------
(***************************************************************************)
(* A hash table answers as a map would, for any keys, values, hash values, *)
(* sizes of the first table and limits.                                    *)
(***************************************************************************)
EXTENDS HashTable, FiniteSetTheorems, WellFoundedInduction, TLAPS

-----------------------------------------------------------------------------
(* Numbers.                                                                *)

LEMMA Least ==
  ASSUME NEW T, T \subseteq Nat, T # {}
  PROVE  \E x \in T : \A y \in T : ~(y < x)
<1> DEFINE R == {q \in Nat \X Nat : q[1] < q[2]}
<1>1. IsWellFoundedOn(R, Nat)
  BY NatLessThanWellFounded DEF OpToRel
<1>2. ASSUME NEW x \in Nat, NEW y \in Nat, x < y PROVE <<x, y>> \in R
  <2>1. <<x, y>> \in Nat \X Nat /\ <<x, y>>[1] = x /\ <<x, y>>[2] = y
    OBVIOUS
  <2> QED
    BY <1>2, <2>1, Zenon
<1> HIDE DEF R
<1>3. PICK x \in T : \A y \in T : ~(<<y, x>> \in R)
  BY <1>1, WFMin
<1> QED
  BY <1>2, <1>3

LEMMA Induction ==
  ASSUME NEW T, 0 \in T, \A n \in Nat : n \in T => n + 1 \in T
  PROVE  \A n \in Nat : n \in T
<1> SUFFICES ASSUME Nat \ T # {} PROVE FALSE
  OBVIOUS
<1>1. PICK x \in Nat \ T : \A y \in Nat \ T : ~(y < x)
  BY Least
<1>2. x - 1 \in Nat /\ x - 1 < x /\ x = (x - 1) + 1
  BY <1>1
<1>3. x - 1 \in T
  BY <1>1, <1>2
<1> QED
  BY <1>1, <1>2, <1>3

LEMMA MinIs ==
  ASSUME NEW T, T \subseteq Nat, T # {}
  PROVE  Min(T) \in T /\ \A y \in T : Min(T) <= y
<1>1. PICK x \in T : \A y \in T : ~(y < x) BY Least
<1>2. \A y \in T : x <= y BY <1>1
<1> QED BY <1>1, <1>2 DEF Min

(* Fewer than n steps on, another place of the circle.                     *)
LEMMA StepsApart ==
  ASSUME NEW n \in Nat \ {0}, NEW h \in Nat, NEW i \in 0 .. n - 1, NEW j \in 0 .. n - 1,
         (h + i) % n = (h + j) % n
  PROVE  i = j
<1>1. ASSUME NEW a \in 0 .. n - 1, NEW b \in 0 .. n - 1, (h + a) % n = (h + b) % n, a < b
      PROVE FALSE
  <2> DEFINE q == (h + a) \div n  r == (h + b) \div n  m == (h + a) % n
  <2>1. h + a = n * q + m /\ h + b = n * r + m /\ q \in Int /\ r \in Int /\ m \in Int
    BY <1>1
  <2> HIDE DEF q, r, m
  <2>2. n * (r - q) = n * r - n * q BY <2>1
  <2>3. n * (r - q) = b - a BY <2>1, <2>2
  <2>4. r - q \in Int /\ b - a \in 1 .. n - 1 BY <1>1, <2>1
  <2> DEFINE d == r - q
  <2>5. n * d = b - a /\ d \in Int BY <2>3, <2>4
  <2> HIDE DEF d
  <2>6. CASE d <= 0
    <3>1. n * d <= 0 BY <2>5, <2>6
    <3> QED BY <2>4, <2>5, <3>1
  <2>7. CASE d >= 1
    <3>1. n * d >= n BY <2>5, <2>7
    <3> QED BY <2>4, <2>5, <3>1
  <2> QED BY <2>5, <2>6, <2>7
<1> QED BY <1>1

-----------------------------------------------------------------------------
(* Slots.                                                                  *)

Size(s) == Cardinality(DOMAIN s)
Slot(e) == e = Empty \/ e = Tomb \/ \E k \in Keys, v \in Values : e = Full(k, v)
Table(s) ==
  /\ Size(s) \in Nat /\ DOMAIN s = 0 .. Size(s) - 1
  /\ \A p \in DOMAIN s : Slot(s[p])
Hashed == hash \in [Keys -> Hashes]

(* No key is in two slots.                                                 *)
Unique(s) == \A p, q \in Occupied(s) : s[p].key = s[q].key => p = q

(* Steps from its home, of which none is an empty slot, lead k to p.        *)
Way(s, k, i, p) ==
  Probe(s, k, i) = p /\ \A j \in 0 .. i - 1 : s[Probe(s, k, j)] # Empty
Reach(s) == \A p \in Occupied(s) : \E i \in 0 .. MaxProbe : Way(s, s[p].key, i, p)

Sound(s) == Table(s) /\ Unique(s) /\ Reach(s)

LEMMA SlotIs ==
  ASSUME NEW e, Slot(e)
  PROVE  /\ e.st = "empty" <=> e = Empty
         /\ e.st = "tomb" <=> e = Tomb
         /\ e.st = "full" <=> e # Empty /\ e # Tomb
         /\ e.st = "full" => e.key \in Keys /\ e.val \in Values /\ e = Full(e.key, e.val)
<1>1. Empty.st = "empty" /\ Tomb.st = "tomb" BY DEF Empty, Tomb
<1>2. ASSUME NEW k, NEW v
      PROVE Full(k, v).st = "full" /\ Full(k, v).key = k /\ Full(k, v).val = v
  BY DEF Full
<1> QED BY <1>1, <1>2 DEF Slot

LEMMA FullIs ==
  ASSUME NEW k \in Keys, NEW v \in Values
  PROVE  /\ Full(k, v).st = "full" /\ Full(k, v).key = k /\ Full(k, v).val = v
         /\ Slot(Full(k, v)) /\ Full(k, v) # Empty /\ Full(k, v) # Tomb
<1>1. Full(k, v).st = "full" /\ Full(k, v).key = k /\ Full(k, v).val = v BY DEF Full
<1>2. Slot(Full(k, v)) BY DEF Slot
<1> QED BY <1>1, <1>2, SlotIs

LEMMA FreeIs ==
  /\ Slot(Empty) /\ Slot(Tomb) /\ Empty # Tomb
  /\ Empty.st = "empty" /\ Tomb.st = "tomb"
BY DEF Slot, Empty, Tomb

LEMMA ProbeIs ==
  ASSUME Hashed, NEW s, Table(s), Size(s) # 0, NEW k \in Keys, NEW i \in Nat
  PROVE  Probe(s, k, i) \in DOMAIN s
<1>1. hash[k] \in Nat BY HashAssumption DEF Hashed
<1>2. Size(s) \in Nat \ {0} /\ hash[k] + i \in Nat BY <1>1 DEF Table
<1>3. (hash[k] + i) % Size(s) \in 0 .. Size(s) - 1 BY <1>2
<1> QED BY <1>3 DEF Probe, Table, Size

LEMMA OccupiedIs ==
  ASSUME NEW s, Table(s)
  PROVE  /\ Occupied(s) \subseteq DOMAIN s /\ IsFiniteSet(DOMAIN s) /\ IsFiniteSet(Occupied(s))
         /\ Cardinality(Occupied(s)) \in Nat /\ Cardinality(Occupied(s)) <= Size(s)
         /\ \A p \in DOMAIN s : p \notin Occupied(s) => s[p] = Empty \/ s[p] = Tomb
         /\ \A p \in Occupied(s) : /\ s[p].key \in Keys /\ s[p].val \in Values
                                   /\ s[p] = Full(s[p].key, s[p].val)
<1>1. Occupied(s) \subseteq DOMAIN s BY DEF Occupied
<1>2. IsFiniteSet(DOMAIN s)
  BY FS_Interval DEF Table
<1>3. IsFiniteSet(Occupied(s)) /\ Cardinality(Occupied(s)) <= Cardinality(DOMAIN s)
  BY <1>1, <1>2, FS_Subset
<1>4. Cardinality(Occupied(s)) \in Nat BY <1>3, FS_CardinalityType
<1> QED BY <1>1, <1>2, <1>3, <1>4, SlotIs DEF Occupied, Table, Size

-----------------------------------------------------------------------------
(* Finding a slot.                                                         *)

Ends(s, k) == {i \in 0 .. MaxProbe : Holds(s, Probe(s, k, i), k) \/ s[Probe(s, k, i)] = Empty}

LEMMA FindSlotIs ==
  ASSUME NEW s, NEW k
  PROVE  FindSlot(s, k) =
           IF Ends(s, k) = {} THEN [res |-> "bound"]
           ELSE IF Holds(s, Probe(s, k, Min(Ends(s, k))), k)
           THEN [res |-> "found", pos |-> Probe(s, k, Min(Ends(s, k)))]
           ELSE [res |-> "absent",
                 pos |-> FirstTomb(s, k, Probe(s, k, Min(Ends(s, k))), Min(Ends(s, k)))]
BY DEF FindSlot, Ends

(* A key that is in the table is found, where it is.                       *)
LEMMA FindsKey ==
  ASSUME Hashed, NEW s, Sound(s), NEW p \in Occupied(s)
  PROVE  FindSlot(s, s[p].key) = [res |-> "found", pos |-> p]
<1> DEFINE k == s[p].key  m == Min(Ends(s, k))
<1>1. PICK i \in 0 .. MaxProbe : Way(s, k, i, p) BY DEF Sound, Reach
<1>2. Holds(s, p, k) BY DEF Holds, Occupied
<1>3. i \in Ends(s, k) BY <1>1, <1>2 DEF Ends, Way
<1>4. m \in Ends(s, k) /\ m <= i
  <2>1. Ends(s, k) \subseteq Nat BY HashAssumption DEF Ends
  <2> QED BY <1>3, <2>1, MinIs
<1>5. m \in Nat /\ i \in Nat BY <1>4, HashAssumption DEF Ends
<1>6. Holds(s, Probe(s, k, m), k)
  <2>1. CASE m = i BY <1>1, <1>2, <2>1 DEF Way
  <2>2. CASE m # i
    <3>1. m \in 0 .. i - 1 BY <1>4, <1>5, <2>2
    <3>2. s[Probe(s, k, m)] # Empty BY <1>1, <3>1 DEF Way
    <3> QED BY <1>4, <3>2 DEF Ends
  <2> QED BY <2>1, <2>2
<1>7. Probe(s, k, m) \in DOMAIN s
  <2>1. p \in DOMAIN s /\ k \in Keys /\ Size(s) # 0 BY OccupiedIs DEF Sound, Table
  <2> QED BY <1>5, <2>1, ProbeIs DEF Sound
<1>8. Probe(s, k, m) = p
  BY <1>6, <1>7 DEF Sound, Unique, Holds, Occupied
<1> HIDE DEF k, m
<1>9. FindSlot(s, k) = [res |-> "found", pos |-> p]
  BY <1>4, <1>6, <1>8, FindSlotIs DEF m
<1> QED BY <1>9 DEF k

(* What is found holds the key.                                            *)
LEMMA FoundHolds ==
  ASSUME Hashed, NEW s, Table(s), Size(s) # 0, NEW k \in Keys, FindSlot(s, k).res = "found"
  PROVE  FindSlot(s, k).pos \in Occupied(s) /\ s[FindSlot(s, k).pos].key = k
<1> DEFINE m == Min(Ends(s, k))
<1>1. Ends(s, k) # {} /\ Holds(s, Probe(s, k, m), k) /\ FindSlot(s, k).pos = Probe(s, k, m)
  BY FindSlotIs
<1>2. m \in Nat
  <2>1. Ends(s, k) \subseteq Nat BY HashAssumption DEF Ends
  <2> QED BY <1>1, <2>1, MinIs
<1>3. Probe(s, k, m) \in DOMAIN s BY <1>2, ProbeIs
<1> QED BY <1>1, <1>3 DEF Holds, Occupied

(* A key that is not found is nowhere, and the slot that it would get can   *)
(* be reached.                                                             *)
LEMMA AbsentIsFree ==
  ASSUME Hashed, NEW s, Sound(s), Size(s) # 0, NEW k \in Keys, FindSlot(s, k).res = "absent"
  PROVE  LET p == FindSlot(s, k).pos IN
         p \in DOMAIN s \ Occupied(s) /\ \E i \in 0 .. MaxProbe : Way(s, k, i, p)
<1> DEFINE m == Min(Ends(s, k))
           tombs == {i \in 0 .. m : s[Probe(s, k, i)] = Tomb}
           p == FindSlot(s, k).pos
<1>1. /\ Ends(s, k) # {} /\ ~Holds(s, Probe(s, k, m), k)
      /\ p = FirstTomb(s, k, Probe(s, k, m), m)
  <2>1. /\ [res |-> "bound"].res = "bound"
        /\ [res |-> "found", pos |-> Probe(s, k, m)].res = "found"
    OBVIOUS
  <2> QED BY <2>1, FindSlotIs
<1>2. m \in Ends(s, k) /\ \A i \in Ends(s, k) : m <= i
  <2>1. Ends(s, k) \subseteq Nat BY HashAssumption DEF Ends
  <2> QED BY <1>1, <2>1, MinIs
<1>3. m \in 0 .. MaxProbe /\ s[Probe(s, k, m)] = Empty BY <1>1, <1>2 DEF Ends
<1>4. ASSUME NEW j \in 0 .. m - 1 PROVE s[Probe(s, k, j)] # Empty
  <2>1. j \in 0 .. MaxProbe /\ ~(m <= j) BY <1>3, HashAssumption
  <2> QED BY <1>2, <2>1 DEF Ends
<1> HIDE DEF m
<1>5. \E i \in 0 .. MaxProbe : /\ p = Probe(s, k, i) /\ i <= m
                               /\ s[p] = Empty \/ s[p] = Tomb
  <2>1. CASE tombs = {} BY <1>1, <1>3, <2>1 DEF FirstTomb
  <2>2. CASE tombs # {}
    <3>1. Min(tombs) \in tombs
      <4>1. tombs \subseteq Nat BY <1>3, HashAssumption
      <4> QED BY <2>2, <4>1, MinIs
    <3>2. p = Probe(s, k, Min(tombs)) BY <1>1, <2>2 DEF FirstTomb
    <3>3. Min(tombs) \in 0 .. MaxProbe /\ Min(tombs) <= m BY <1>3, <3>1, HashAssumption
    <3> QED BY <3>1, <3>2, <3>3
  <2> QED BY <2>1, <2>2
<1>6. PICK i \in 0 .. MaxProbe : p = Probe(s, k, i) /\ i <= m /\ (s[p] = Empty \/ s[p] = Tomb)
  BY <1>5
<1>7. Way(s, k, i, p)
  <2>1. \A j \in 0 .. i - 1 : j \in 0 .. m - 1 BY <1>3, <1>6, HashAssumption
  <2> QED BY <1>4, <1>6, <2>1 DEF Way
<1>8. p \in DOMAIN s
  <2>1. i \in Nat BY HashAssumption
  <2> QED BY <1>6, <2>1, ProbeIs DEF Sound
<1>9. p \notin Occupied(s) BY <1>6, FreeIs DEF Occupied
<1> QED BY <1>6, <1>7, <1>8, <1>9

-----------------------------------------------------------------------------
(* What a table holds, and what becomes of it when a slot changes.         *)

Map(s) ==
  [k \in {s[i].key : i \in Occupied(s)} |->
     s[CHOOSE i \in Occupied(s) : s[i].key = k].val]

(* A map in which k has the value v.                                       *)
With(f, k, v) == [x \in DOMAIN f \cup {k} |-> IF x = k THEN v ELSE f[x]]

LEMMA MapIs ==
  ASSUME NEW s, Unique(s)
  PROVE  /\ \A k : k \in DOMAIN Map(s) <=> \E p \in Occupied(s) : s[p].key = k
         /\ \A p \in Occupied(s) : Map(s)[s[p].key] = s[p].val
<1>1. \A k : k \in DOMAIN Map(s) <=> \E p \in Occupied(s) : s[p].key = k BY DEF Map
<1>2. ASSUME NEW p \in Occupied(s) PROVE Map(s)[s[p].key] = s[p].val
  <2> DEFINE c == CHOOSE i \in Occupied(s) : s[i].key = s[p].key
  <2>1. c \in Occupied(s) /\ s[c].key = s[p].key OBVIOUS
  <2>2. c = p BY <2>1 DEF Unique
  <2> HIDE DEF c
  <2>3. Map(s)[s[p].key] = s[c].val BY DEF Map, c
  <2> QED BY <2>2, <2>3
<1> QED BY <1>1, <1>2

LEMMA MapEqual ==
  ASSUME NEW s, Unique(s), NEW f, f = [k \in DOMAIN f |-> f[k]],
         \A k : k \in DOMAIN f <=> \E p \in Occupied(s) : s[p].key = k,
         \A p \in Occupied(s) : f[s[p].key] = s[p].val
  PROVE  f = Map(s)
<1>1. DOMAIN f = DOMAIN Map(s) BY MapIs
<1>2. \A k \in DOMAIN f : f[k] = Map(s)[k] BY MapIs
<1>3. Map(s) = [k \in DOMAIN Map(s) |-> Map(s)[k]] BY DEF Map
<1> HIDE DEF Map
<1> QED BY <1>1, <1>2, <1>3, Zenon

Changed(s, p, e) == [s EXCEPT ![p] = e]
LEMMA SlotChanged ==
  ASSUME NEW s, Table(s), NEW p \in DOMAIN s, NEW e, Slot(e), NEW t, t = Changed(s, p, e)
  PROVE  /\ Table(t) /\ DOMAIN t = DOMAIN s /\ Size(t) = Size(s)
         /\ Occupied(t) = IF e.st = "full" THEN Occupied(s) \cup {p} ELSE Occupied(s) \ {p}
         /\ \A q \in DOMAIN s : t[q] = IF q = p THEN e ELSE s[q]
         /\ \A k, i : Probe(t, k, i) = Probe(s, k, i)
<1>1. DOMAIN t = DOMAIN s BY DEF Changed
<1>2. \A q \in DOMAIN s : t[q] = IF q = p THEN e ELSE s[q] BY DEF Table, Changed
<1>3. Occupied(t) = IF e.st = "full" THEN Occupied(s) \cup {p} ELSE Occupied(s) \ {p}
  BY <1>1, <1>2 DEF Occupied
<1>4. Table(t) /\ Size(t) = Size(s) BY <1>1, <1>2 DEF Table, Size
<1>5. \A k, i : Probe(t, k, i) = Probe(s, k, i) BY <1>1 DEF Probe
<1> QED BY <1>1, <1>2, <1>3, <1>4, <1>5

(* A slot that was not empty and does not become empty is in nobody's way.  *)
LEMMA WayStays ==
  ASSUME Hashed, NEW s, Table(s), NEW t, DOMAIN t = DOMAIN s,
         \A q \in DOMAIN s : s[q] # Empty => t[q] # Empty,
         Size(s) # 0, NEW k \in Keys, NEW i \in Nat, NEW p, Way(s, k, i, p)
  PROVE  Way(t, k, i, p)
<1>1. \A j : Probe(t, k, j) = Probe(s, k, j) BY DEF Probe
<1>2. \A j \in 0 .. i - 1 : Probe(s, k, j) \in DOMAIN s BY ProbeIs
<1> QED BY <1>1, <1>2 DEF Way

(* The value of a key is replaced.                                         *)
LEMMA Replaced ==
  ASSUME Hashed, NEW s, Sound(s), NEW p \in Occupied(s), NEW v \in Values,
         NEW t, t = Changed(s, p, Full(s[p].key, v))
  PROVE  /\ Sound(t) /\ Size(t) = Size(s) /\ Occupied(t) = Occupied(s)
         /\ Map(t) = With(Map(s), s[p].key, v)
<1> DEFINE k == s[p].key  f == With(Map(s), k, v)
<1>0. Table(s) /\ Unique(s) /\ Reach(s) BY DEF Sound
<1>1. p \in DOMAIN s /\ k \in Keys /\ Size(s) # 0 BY <1>0, OccupiedIs DEF Table
<1>2. /\ Full(k, v).st = "full" /\ Full(k, v).key = k /\ Full(k, v).val = v
      /\ Slot(Full(k, v)) /\ Full(k, v) # Empty
  BY <1>1, FullIs
<1>3. /\ Table(t) /\ DOMAIN t = DOMAIN s /\ Size(t) = Size(s) /\ Occupied(t) = Occupied(s) \cup {p}
      /\ \A q \in DOMAIN s : t[q] = IF q = p THEN Full(k, v) ELSE s[q]
  <2>1. t = Changed(s, p, Full(k, v)) OBVIOUS
  <2> HIDE DEF k
  <2> QED BY <1>0, <1>1, <1>2, <2>1, SlotChanged
<1>4. Occupied(t) = Occupied(s) /\ Occupied(s) \subseteq DOMAIN s BY <1>0, <1>3, OccupiedIs
<1>5. \A q \in Occupied(t) : t[q].key = s[q].key BY <1>2, <1>3, <1>4
<1>6. Unique(t) BY <1>0, <1>4, <1>5 DEF Unique
<1>7. Reach(t)
  <2> SUFFICES ASSUME NEW q \in Occupied(t)
               PROVE  \E i \in 0 .. MaxProbe : Way(t, t[q].key, i, q)
    BY DEF Reach
  <2>1. PICK i \in 0 .. MaxProbe : Way(s, s[q].key, i, q) BY <1>0, <1>4 DEF Reach
  <2>2. i \in Nat /\ s[q].key \in Keys BY <1>0, <1>4, OccupiedIs, HashAssumption
  <2>3. Way(t, s[q].key, i, q) BY <1>0, <1>1, <1>2, <1>3, <2>1, <2>2, WayStays
  <2> QED BY <1>5, <2>3
<1>8. f = Map(t)
  <2>1. f = [x \in DOMAIN f |-> f[x]] BY DEF With
  <2>2. DOMAIN f = DOMAIN Map(s) \cup {k} BY DEF With
  <2>3. \A x \in DOMAIN f : f[x] = IF x = k THEN v ELSE Map(s)[x] BY DEF With
  <2> HIDE DEF f
  <2>4. \A x : x \in DOMAIN f <=> \E q \in Occupied(t) : t[q].key = x
    BY <1>0, <1>4, <1>5, <2>2, MapIs
  <2>5. \A q \in Occupied(t) : f[t[q].key] = t[q].val
    <3> SUFFICES ASSUME NEW q \in Occupied(t) PROVE f[t[q].key] = t[q].val OBVIOUS
    <3>1. t[q].key \in DOMAIN f BY <2>4
    <3>2. CASE q = p BY <1>2, <1>3, <1>4, <2>3, <3>1, <3>2
    <3>3. CASE q # p
      <4>1. t[q].key # k BY <1>0, <1>4, <1>5, <3>3 DEF Unique
      <4>2. t[q] = s[q] BY <1>3, <1>4, <3>3
      <4>3. Map(s)[s[q].key] = s[q].val BY <1>0, <1>4, MapIs
      <4> QED BY <2>3, <3>1, <4>1, <4>2, <4>3
    <3> QED BY <3>2, <3>3
  <2> QED BY <1>6, <2>1, <2>4, <2>5, MapEqual
<1> QED BY <1>3, <1>4, <1>6, <1>7, <1>8 DEF Sound

(* A key that is nowhere gets a slot that can be reached.  The bound of the *)
(* way matters only for the table in which it is looked up.                 *)
LEMMA Added ==
  ASSUME Hashed, NEW s, Sound(s), NEW k \in Keys, NEW v \in Values,
         NEW p \in DOMAIN s \ Occupied(s), NEW i \in 0 .. MaxProbe, Way(s, k, i, p),
         \A q \in Occupied(s) : s[q].key # k,
         NEW t, t = Changed(s, p, Full(k, v))
  PROVE  /\ Sound(t) /\ Size(t) = Size(s) /\ Occupied(t) = Occupied(s) \cup {p}
         /\ Map(t) = With(Map(s), k, v)
<1> DEFINE f == With(Map(s), k, v)
<1>0. Table(s) /\ Unique(s) /\ Reach(s) /\ i \in Nat BY HashAssumption DEF Sound
<1>1. p \in DOMAIN s /\ Size(s) # 0 BY <1>0 DEF Table
<1>2. /\ Full(k, v).st = "full" /\ Full(k, v).key = k /\ Full(k, v).val = v
      /\ Slot(Full(k, v)) /\ Full(k, v) # Empty
  BY FullIs
<1>3. /\ Table(t) /\ DOMAIN t = DOMAIN s /\ Size(t) = Size(s) /\ Occupied(t) = Occupied(s) \cup {p}
      /\ \A q \in DOMAIN s : t[q] = IF q = p THEN Full(k, v) ELSE s[q]
  BY <1>0, <1>1, <1>2, SlotChanged
<1>4. Occupied(s) \subseteq DOMAIN s BY <1>0, OccupiedIs
<1>5. \A q \in Occupied(s) : t[q] = s[q] BY <1>3, <1>4
<1>6. t[p] = Full(k, v) BY <1>1, <1>3
<1>7. Unique(t) BY <1>0, <1>2, <1>3, <1>5, <1>6 DEF Unique
<1>8. Reach(t)
  <2> SUFFICES ASSUME NEW q \in Occupied(t)
               PROVE  \E j \in 0 .. MaxProbe : Way(t, t[q].key, j, q)
    BY DEF Reach
  <2>1. CASE q = p
    <3>1. Way(t, k, i, p) BY <1>0, <1>1, <1>2, <1>3, WayStays
    <3> QED BY <1>2, <1>6, <2>1, <3>1
  <2>2. CASE q # p
    <3>1. q \in Occupied(s) BY <1>3, <2>2
    <3>2. PICK j \in 0 .. MaxProbe : Way(s, s[q].key, j, q) BY <1>0, <3>1 DEF Reach
    <3>3. j \in Nat /\ s[q].key \in Keys BY <1>0, <3>1, OccupiedIs, HashAssumption
    <3>4. Way(t, s[q].key, j, q) BY <1>0, <1>1, <1>2, <1>3, <3>2, <3>3, WayStays
    <3> QED BY <1>5, <3>1, <3>4
  <2> QED BY <2>1, <2>2
<1>9. f = Map(t)
  <2>1. f = [x \in DOMAIN f |-> f[x]] BY DEF With
  <2>2. DOMAIN f = DOMAIN Map(s) \cup {k} BY DEF With
  <2>3. \A x \in DOMAIN f : f[x] = IF x = k THEN v ELSE Map(s)[x] BY DEF With
  <2> HIDE DEF f
  <2>4. \A x : x \in DOMAIN f <=> \E q \in Occupied(t) : t[q].key = x
    BY <1>0, <1>2, <1>3, <1>5, <1>6, <2>2, MapIs
  <2>5. \A q \in Occupied(t) : f[t[q].key] = t[q].val
    <3> SUFFICES ASSUME NEW q \in Occupied(t) PROVE f[t[q].key] = t[q].val OBVIOUS
    <3>1. t[q].key \in DOMAIN f BY <2>4
    <3>2. CASE q = p BY <1>2, <1>6, <2>3, <3>1, <3>2
    <3>3. CASE q # p
      <4>1. q \in Occupied(s) /\ t[q] = s[q] BY <1>3, <1>5, <3>3
      <4>2. Map(s)[s[q].key] = s[q].val /\ s[q].key # k BY <1>0, <4>1, MapIs
      <4> QED BY <2>3, <3>1, <4>1, <4>2
    <3> QED BY <3>2, <3>3
  <2> QED BY <1>7, <2>1, <2>4, <2>5, MapEqual
<1> QED BY <1>3, <1>7, <1>8, <1>9 DEF Sound

(* A tombstone takes the place of a key.                                   *)
LEMMA TakenOut ==
  ASSUME Hashed, NEW s, Sound(s), NEW p \in Occupied(s),
         NEW t, t = Changed(s, p, Tomb)
  PROVE  /\ Sound(t) /\ Size(t) = Size(s) /\ Occupied(t) = Occupied(s) \ {p}
         /\ Map(t) = Restrict(Map(s), DOMAIN Map(s) \ {s[p].key})
<1> DEFINE k == s[p].key  f == Restrict(Map(s), DOMAIN Map(s) \ {k})
<1>0. Table(s) /\ Unique(s) /\ Reach(s) BY DEF Sound
<1>1. p \in DOMAIN s /\ Size(s) # 0 BY <1>0, OccupiedIs DEF Table
<1>2. /\ Table(t) /\ DOMAIN t = DOMAIN s /\ Size(t) = Size(s) /\ Occupied(t) = Occupied(s) \ {p}
      /\ \A q \in DOMAIN s : t[q] = IF q = p THEN Tomb ELSE s[q]
  BY <1>0, <1>1, FreeIs, SlotChanged
<1>3. Occupied(s) \subseteq DOMAIN s BY <1>0, OccupiedIs
<1>4. \A q \in Occupied(t) : q \in Occupied(s) /\ t[q] = s[q] BY <1>2, <1>3
<1>5. Unique(t) BY <1>0, <1>4 DEF Unique
<1>6. Reach(t)
  <2> SUFFICES ASSUME NEW q \in Occupied(t)
               PROVE  \E i \in 0 .. MaxProbe : Way(t, t[q].key, i, q)
    BY DEF Reach
  <2>1. PICK i \in 0 .. MaxProbe : Way(s, s[q].key, i, q) BY <1>0, <1>4 DEF Reach
  <2>2. i \in Nat /\ s[q].key \in Keys BY <1>0, <1>4, OccupiedIs, HashAssumption
  <2>3. Way(t, s[q].key, i, q) BY <1>0, <1>1, <1>2, <2>1, <2>2, FreeIs, WayStays
  <2> QED BY <1>4, <2>3
<1>7. f = Map(t)
  <2>1. f = [x \in DOMAIN f |-> f[x]] BY DEF Restrict
  <2>2. DOMAIN f = DOMAIN Map(s) \ {k} BY DEF Restrict
  <2>3. \A x \in DOMAIN f : f[x] = Map(s)[x] BY DEF Restrict
  <2> HIDE DEF f
  <2>4. \A x : x \in DOMAIN f <=> \E q \in Occupied(t) : t[q].key = x
    <3> TAKE x
    <3>1. x \in DOMAIN f <=> x # k /\ \E q \in Occupied(s) : s[q].key = x BY <1>0, <2>2, MapIs
    <3>2. \A q \in Occupied(s) : s[q].key # k <=> q # p BY <1>0 DEF Unique
    <3> QED BY <1>2, <1>4, <3>1, <3>2
  <2>5. \A q \in Occupied(t) : f[t[q].key] = t[q].val
    <3> SUFFICES ASSUME NEW q \in Occupied(t) PROVE f[t[q].key] = t[q].val OBVIOUS
    <3>1. t[q].key \in DOMAIN f BY <2>4
    <3>2. Map(s)[s[q].key] = s[q].val BY <1>0, <1>4, MapIs
    <3> QED BY <1>4, <2>3, <3>1, <3>2
  <2> QED BY <1>5, <2>1, <2>4, <2>5, MapEqual
<1> QED BY <1>2, <1>5, <1>6, <1>7 DEF Sound

-----------------------------------------------------------------------------
(* Rebuilding.  A key goes past occupied slots only, so no farther than     *)
(* there are other keys in the new table.                                  *)

LEMMA FullRun ==
  ASSUME Hashed, NEW t, Table(t), NEW k \in Keys, NEW c \in Nat, c <= Size(t),
         \A j \in 0 .. c - 1 : Probe(t, k, j) \in Occupied(t)
  PROVE  c <= Cardinality(Occupied(t))
<1> DEFINE g == [j \in 0 .. c - 1 |-> Probe(t, k, j)]
<1>1. IsFiniteSet(Occupied(t)) BY OccupiedIs
<1>2. g \in [0 .. c - 1 -> Occupied(t)] OBVIOUS
<1>3. ASSUME NEW i \in 0 .. c - 1, NEW j \in 0 .. c - 1, g[i] = g[j] PROVE i = j
  <2>1. hash[k] \in Nat BY HashAssumption DEF Hashed
  <2>2. Size(t) \in Nat \ {0} /\ i \in 0 .. Size(t) - 1 /\ j \in 0 .. Size(t) - 1 BY DEF Table
  <2>3. (hash[k] + i) % Size(t) = (hash[k] + j) % Size(t) BY <1>3 DEF Probe, Size
  <2> QED BY <2>1, <2>2, <2>3, StepsApart
<1> HIDE DEF g
<1>4. g \in Injection(0 .. c - 1, Occupied(t)) BY <1>2, <1>3 DEF Injection, IsInjective
<1>5. Cardinality(0 .. c - 1) <= Cardinality(Occupied(t)) BY <1>1, <1>4, FS_Injection
<1>6. Cardinality(0 .. c - 1) = c BY FS_Interval
<1> QED BY <1>5, <1>6

LEMMA FirstFreeIs ==
  ASSUME Hashed, NEW t, Table(t), NEW k \in Keys, Cardinality(Occupied(t)) < Size(t)
  PROVE  /\ FirstFree(t, k) \in DOMAIN t \ Occupied(t)
         /\ \E i \in Nat : i <= Cardinality(Occupied(t)) /\ Way(t, k, i, FirstFree(t, k))
<1> DEFINE F == {i \in DOMAIN t : t[Probe(t, k, i)].st # "full"}
<1>1. /\ Size(t) \in Nat \ {0} /\ DOMAIN t = 0 .. Size(t) - 1
      /\ Cardinality(Occupied(t)) \in Nat
  BY OccupiedIs DEF Table
<1>2. \A i \in Nat : Probe(t, k, i) \in DOMAIN t BY <1>1, ProbeIs
<1>3. \A i \in DOMAIN t : i \notin F <=> Probe(t, k, i) \in Occupied(t)
  <2>1. DOMAIN t \subseteq Nat BY <1>1
  <2> QED BY <1>2, <2>1 DEF Occupied
<1>4. F # {}
  <2> SUFFICES ASSUME F = {} PROVE FALSE OBVIOUS
  <2>1. \A j \in 0 .. Size(t) - 1 : Probe(t, k, j) \in Occupied(t) BY <1>1, <1>3
  <2>2. Size(t) <= Cardinality(Occupied(t)) BY <1>1, <2>1, FullRun
  <2> QED BY <1>1, <2>2
<1> DEFINE i == Min(F)
<1>5. i \in F /\ \A j \in F : i <= j
  <2>1. F \subseteq Nat BY <1>1
  <2> HIDE DEF F
  <2> QED BY <1>4, <2>1, MinIs
<1>6. FirstFree(t, k) = Probe(t, k, i) BY DEF FirstFree
<1>7. i \in Nat /\ i < Size(t) BY <1>1, <1>5
<1>8. \A j \in 0 .. i - 1 : Probe(t, k, j) \in Occupied(t)
  <2> TAKE j \in 0 .. i - 1
  <2>1. j \in DOMAIN t /\ ~(i <= j) BY <1>1, <1>7
  <2> QED BY <1>3, <1>5, <2>1
<1>9. i <= Cardinality(Occupied(t))
  <2>1. i <= Size(t) BY <1>1, <1>7
  <2> HIDE DEF i
  <2> QED BY <1>7, <1>8, <2>1, FullRun
<1>10. Way(t, k, i, FirstFree(t, k))
  <2>1. \A p \in Occupied(t) : t[p] # Empty BY FreeIs DEF Occupied
  <2> QED BY <1>6, <1>8, <2>1 DEF Way
<1>11. FirstFree(t, k) \in DOMAIN t \ Occupied(t) BY <1>2, <1>5, <1>6, <1>7 DEF Occupied
<1> QED BY <1>7, <1>9, <1>10, <1>11

Blank(n) == [p \in 0 .. n - 1 |-> Empty]
NextMoved(s, t, i) == IF s[i - 1].st = "full" THEN Insert(t, s[i - 1]) ELSE t
Moves(m, s, n, j) ==
  m = [i \in 0 .. j |-> IF i = 0 THEN Blank(n) ELSE NextMoved(s, m[i - 1], i)]

LEMMA MovesExist ==
  ASSUME NEW s, NEW n, NEW j \in Nat
  PROVE  \E m : Moves(m, s, n, j)
<1> DEFINE T == {k \in Nat : \E m : Moves(m, s, n, k)}
<1>1. 0 \in T
  <2> DEFINE m == [i \in 0 .. 0 |-> Blank(n)]
  <2>1. m = [i \in 0 .. 0 |-> IF i = 0 THEN Blank(n) ELSE NextMoved(s, m[i - 1], i)] OBVIOUS
  <2> QED BY <2>1 DEF Moves
<1>2. ASSUME NEW k \in Nat, k \in T PROVE k + 1 \in T
  <2>1. PICK m : Moves(m, s, n, k) BY <1>2
  <2> DEFINE top == NextMoved(s, m[k], k + 1)
             g == [i \in 0 .. k + 1 |-> IF i = k + 1 THEN top ELSE m[i]]
  <2> HIDE DEF top
  <2>2. ASSUME NEW i \in 0 .. k + 1
        PROVE  g[i] = IF i = 0 THEN Blank(n) ELSE NextMoved(s, g[i - 1], i)
    <3>1. CASE i = 0 BY <2>1, <3>1 DEF Moves
    <3>2. CASE i = k + 1
      <4>1. i # 0 /\ i - 1 = k /\ g[i] = top /\ g[k] = m[k] BY <3>2
      <4> QED BY <3>2, <4>1 DEF top
    <3>3. CASE i # 0 /\ i # k + 1
      <4>1. i \in 0 .. k /\ i - 1 \in 0 .. k /\ g[i] = m[i] /\ g[i - 1] = m[i - 1] BY <3>3
      <4> QED BY <2>1, <3>3, <4>1 DEF Moves
    <3> QED BY <3>1, <3>2, <3>3
  <2>3. g = [i \in 0 .. k + 1 |-> g[i]] OBVIOUS
  <2> HIDE DEF g
  <2>4. Moves(g, s, n, k + 1) BY <2>2, <2>3 DEF Moves
  <2> QED BY <2>4
<1> HIDE DEF T
<1>3. j \in T BY <1>1, <1>2, Induction
<1> QED BY <1>3 DEF T

LEMMA RehashedBy ==
  ASSUME NEW s, Size(s) \in Nat, NEW n
  PROVE  \E m : Moves(m, s, n, Size(s)) /\ Rehashed(s, n) = m[Size(s)]
<1> DEFINE c == CHOOSE m : Moves(m, s, n, Size(s))
<1>1. \E m : Moves(m, s, n, Size(s)) BY MovesExist
<1>2. Moves(c, s, n, Size(s)) BY <1>1
<1>3. Rehashed(s, n) = c[Size(s)] BY DEF Rehashed, Moves, NextMoved, Blank, Size
<1> QED BY <1>2, <1>3

(* The first i slots have been gone through.                               *)
Half(s, t, n, i) ==
  /\ Sound(t) /\ Size(t) = n /\ Cardinality(Occupied(t)) <= i
  /\ \A p \in Occupied(t) : \E q \in Occupied(s) : q < i /\ t[p] = s[q]
  /\ \A q \in Occupied(s) : q < i => \E p \in Occupied(t) : t[p] = s[q]

LEMMA HalfBlank ==
  ASSUME NEW s, Table(s), NEW n \in Nat \ {0}
  PROVE  Half(s, Blank(n), n, 0)
<1> DEFINE t == Blank(n)
<1>1. DOMAIN t = 0 .. n - 1 /\ \A p \in DOMAIN t : t[p] = Empty BY DEF Blank
<1>2. Size(t) = n BY <1>1, FS_Interval DEF Size
<1>3. Occupied(t) = {} BY <1>1, FreeIs DEF Occupied
<1>4. Cardinality(Occupied(t)) = 0 BY <1>3, FS_EmptySet
<1>5. Sound(t) BY <1>1, <1>2, <1>3, FreeIs DEF Sound, Table, Unique, Reach
<1>6. \A q \in Occupied(s) : ~(q < 0) BY OccupiedIs DEF Table
<1> HIDE DEF t
<1>7. Half(s, t, n, 0) BY <1>2, <1>3, <1>4, <1>5, <1>6 DEF Half
<1> QED BY <1>7 DEF t

LEMMA HalfMoved ==
  ASSUME Hashed, NEW s, Sound(s), Size(s) <= MaxProbe + 1,
         NEW n \in Nat, Size(s) <= n,
         NEW i \in Nat, i < Size(s), NEW t, Half(s, t, n, i)
  PROVE  Half(s, NextMoved(s, t, i + 1), n, i + 1)
<1>0. Table(s) /\ Unique(s) /\ i \in DOMAIN s /\ (i + 1) - 1 = i /\ Size(s) \in Nat /\ MaxProbe \in Nat
  BY HashAssumption DEF Sound, Table
<1>1. /\ Sound(t) /\ Table(t) /\ Size(t) = n /\ Cardinality(Occupied(t)) <= i
      /\ \A p \in Occupied(t) : \E q \in Occupied(s) : q < i /\ t[p] = s[q]
      /\ \A q \in Occupied(s) : q < i => \E p \in Occupied(t) : t[p] = s[q]
      /\ Cardinality(Occupied(t)) \in Nat
  BY OccupiedIs DEF Half, Sound
<1>2. \A q \in Occupied(s) : q \in Nat /\ (q < i + 1 <=> q < i \/ q = i)
  BY <1>0, OccupiedIs DEF Table
<1>3. CASE i \notin Occupied(s)
  <2>1. NextMoved(s, t, i + 1) = t BY <1>0, <1>3 DEF NextMoved, Occupied
  <2>2. Half(s, t, n, i + 1) BY <1>1, <1>2, <1>3 DEF Half
  <2> QED BY <2>1, <2>2
<1>4. CASE i \in Occupied(s)
  <2> DEFINE k == s[i].key  v == s[i].val  p == FirstFree(t, k)  u == Changed(t, p, Full(k, v))
  <2>1. k \in Keys /\ v \in Values /\ s[i] = Full(k, v) BY <1>0, <1>4, OccupiedIs
  <2>2. NextMoved(s, t, i + 1) = u
    BY <1>0, <1>4, <2>1 DEF NextMoved, Occupied, Insert, Changed
  <2> HIDE DEF k, v
  <2>3. Cardinality(Occupied(t)) < Size(t) BY <1>0, <1>1
  <2>4. /\ p \in DOMAIN t \ Occupied(t)
        /\ \E j \in Nat : j <= Cardinality(Occupied(t)) /\ Way(t, k, j, p)
    BY <1>1, <2>1, <2>3, FirstFreeIs
  <2>5. PICK j \in 0 .. MaxProbe : Way(t, k, j, p) BY <1>0, <1>1, <2>4
  <2>6. \A q \in Occupied(t) : t[q].key # k
    <3> SUFFICES ASSUME NEW q \in Occupied(t), t[q].key = k PROVE FALSE OBVIOUS
    <3>1. PICK o \in Occupied(s) : o < i /\ t[q] = s[o] BY <1>1
    <3>2. s[o].key = s[i].key BY <3>1 DEF k
    <3>3. o = i BY <1>0, <1>4, <3>2 DEF Unique
    <3> QED BY <3>1, <3>3
  <2> HIDE DEF p
  <2>7. Sound(u) /\ Size(u) = Size(t) /\ Occupied(u) = Occupied(t) \cup {p}
    <3>1. Sound(t) /\ k \in Keys /\ v \in Values BY <1>1, <2>1
    <3>2. p \in DOMAIN t \ Occupied(t) BY <2>4
    <3>3. j \in 0 .. MaxProbe /\ Way(t, k, j, p) BY <2>5
    <3> HIDE DEF u
    <3>4. u = Changed(t, p, Full(k, v)) BY DEF u
    <3> QED BY <2>6, <3>1, <3>2, <3>3, <3>4, Added
  <2>8. p \in DOMAIN t /\ \A q \in DOMAIN t : u[q] = IF q = p THEN Full(k, v) ELSE t[q]
    BY <2>4 DEF Table, Changed
  <2> HIDE DEF u
  <2>9. Cardinality(Occupied(u)) <= i + 1
    <3>1. Cardinality(Occupied(u)) = Cardinality(Occupied(t)) + 1
      <4>1. IsFiniteSet(Occupied(t)) BY <1>1, OccupiedIs
      <4> QED BY <2>4, <2>7, <4>1, FS_AddElement
    <3> QED BY <1>1, <3>1
  <2>10. u[p] = s[i] /\ \A q \in Occupied(t) : u[q] = t[q]
    BY <1>1, <2>1, <2>4, <2>8, OccupiedIs
  <2>11. Half(s, u, n, i + 1)
    <3>1. \A x \in Occupied(u) : \E q \in Occupied(s) : q < i + 1 /\ u[x] = s[q]
      BY <1>1, <1>2, <1>4, <2>7, <2>10
    <3>2. \A q \in Occupied(s) : q < i + 1 => \E x \in Occupied(u) : u[x] = s[q]
      BY <1>1, <1>2, <1>4, <2>7, <2>10
    <3> QED BY <1>1, <2>7, <2>9, <3>1, <3>2 DEF Half
  <2> QED BY <2>2, <2>11
<1> QED BY <1>3, <1>4

(* Nothing is lost when the table is rebuilt.                              *)
LEMMA RehashedIs ==
  ASSUME Hashed, NEW s, Sound(s), Size(s) <= MaxProbe + 1,
         NEW n \in Nat \ {0}, Size(s) <= n
  PROVE  /\ Sound(Rehashed(s, n)) /\ Size(Rehashed(s, n)) = n
         /\ Map(Rehashed(s, n)) = Map(s)
<1>0. Table(s) /\ Size(s) \in Nat BY DEF Sound, Table
<1>1. PICK m : Moves(m, s, n, Size(s)) /\ Rehashed(s, n) = m[Size(s)] BY <1>0, RehashedBy
<1> DEFINE T == {i \in Nat : i <= Size(s) => Half(s, m[i], n, i)}
<1>2. 0 \in T
  <2>1. m[0] = Blank(n) BY <1>0, <1>1 DEF Moves
  <2> QED BY <1>0, <2>1, HalfBlank
<1>3. ASSUME NEW i \in Nat, i \in T PROVE i + 1 \in T
  <2> SUFFICES ASSUME i + 1 <= Size(s) PROVE Half(s, m[i + 1], n, i + 1) OBVIOUS
  <2>1. Half(s, m[i], n, i) BY <1>0, <1>3
  <2>2. i + 1 \in 0 .. Size(s) /\ i + 1 # 0 /\ (i + 1) - 1 = i BY <1>0
  <2>3. m[i + 1] = NextMoved(s, m[i], i + 1) BY <1>1, <2>2 DEF Moves
  <2>4. i < Size(s) BY <1>0
  <2> QED BY <2>1, <2>3, <2>4, HalfMoved
<1>4. Size(s) \in T
  <2> HIDE DEF T
  <2> QED BY <1>0, <1>2, <1>3, Induction
<1> DEFINE t == m[Size(s)]  f == Map(s)
<1>5. Half(s, t, n, Size(s)) BY <1>0, <1>4
<1>6. \A q \in Occupied(s) : q < Size(s) BY <1>0, OccupiedIs DEF Table
<1> HIDE DEF t
<1>7. Map(s) = Map(t)
  <2>1. Unique(s) /\ Unique(t) BY <1>5 DEF Half, Sound
  <2>2. f = [x \in DOMAIN f |-> f[x]] BY DEF Map
  <2>3. /\ \A p \in Occupied(t) : \E q \in Occupied(s) : t[p] = s[q]
        /\ \A q \in Occupied(s) : \E p \in Occupied(t) : t[p] = s[q]
    BY <1>5, <1>6 DEF Half
  <2>4. /\ \A k : k \in DOMAIN Map(s) <=> \E p \in Occupied(s) : s[p].key = k
        /\ \A p \in Occupied(s) : Map(s)[s[p].key] = s[p].val
    BY <2>1, MapIs
  <2> HIDE DEF f
  <2>5. \A k : k \in DOMAIN f <=> \E p \in Occupied(t) : t[p].key = k BY <2>3, <2>4 DEF f
  <2>6. \A p \in Occupied(t) : f[t[p].key] = t[p].val BY <2>3, <2>4 DEF f
  <2>7. f = Map(t) BY <2>1, <2>2, <2>5, <2>6, MapEqual
  <2> QED BY <2>7 DEF f
<1> QED BY <1>1, <1>5, <1>7 DEF Half, t

LEMMA RehashedSize ==
  ASSUME NEW s, Size(s) \in Nat, NEW n \in Nat
  PROVE  DOMAIN Rehashed(s, n) = 0 .. n - 1 /\ Size(Rehashed(s, n)) = n
<1>1. PICK m : Moves(m, s, n, Size(s)) /\ Rehashed(s, n) = m[Size(s)] BY RehashedBy
<1> DEFINE T == {i \in Nat : i <= Size(s) => DOMAIN m[i] = 0 .. n - 1}
<1>2. 0 \in T
  <2>1. m[0] = Blank(n) BY <1>1 DEF Moves
  <2> QED BY <2>1 DEF Blank
<1>3. ASSUME NEW i \in Nat, i \in T PROVE i + 1 \in T
  <2> SUFFICES ASSUME i + 1 <= Size(s) PROVE DOMAIN m[i + 1] = 0 .. n - 1 OBVIOUS
  <2>1. DOMAIN m[i] = 0 .. n - 1 BY <1>3
  <2>2. i + 1 \in 0 .. Size(s) /\ i + 1 # 0 /\ (i + 1) - 1 = i OBVIOUS
  <2>3. m[i + 1] = NextMoved(s, m[i], i + 1) BY <1>1, <2>2 DEF Moves
  <2> QED BY <2>1, <2>3 DEF NextMoved, Insert
<1>4. Size(s) \in T
  <2> HIDE DEF T
  <2> QED BY <1>2, <1>3, Induction
<1>5. DOMAIN Rehashed(s, n) = 0 .. n - 1 BY <1>1, <1>4
<1>6. Cardinality(0 .. n - 1) = n BY FS_Interval
<1> QED BY <1>5, <1>6 DEF Size

(* There are as many keys as occupied slots.                               *)
LEMMA CountIs ==
  ASSUME NEW s, Table(s), Unique(s)
  PROVE  Cardinality(DOMAIN Map(s)) = Cardinality(Occupied(s))
<1> DEFINE D == DOMAIN Map(s)  g == [p \in Occupied(s) |-> s[p].key]
<1>1. \A k : k \in D <=> \E p \in Occupied(s) : s[p].key = k BY MapIs
<1> HIDE DEF D
<1>2. g \in [Occupied(s) -> D] BY <1>1
<1>3. \A p, q \in Occupied(s) : g[p] = g[q] => p = q BY DEF Unique
<1>4. \A k \in D : \E p \in Occupied(s) : g[p] = k BY <1>1
<1> HIDE DEF g
<1>5. g \in Bijection(Occupied(s), D)
  BY <1>2, <1>3, <1>4 DEF Bijection, Injection, Surjection, IsInjective
<1>6. ExistsBijection(Occupied(s), D) BY <1>5 DEF ExistsBijection
<1>7. IsFiniteSet(Occupied(s)) BY OccupiedIs
<1> QED BY <1>6, <1>7, FS_Bijection DEF D

-----------------------------------------------------------------------------
(* The invariant, and what the parts of mcpkg_hash_set leave of it.         *)

Inv ==
  /\ Hashed /\ Sound(slot) /\ cap = Size(slot) /\ len = Cardinality(Occupied(slot))

(* No table has more than twice as many slots as a probe visits.           *)
Short == cap <= 2 * (MaxProbe + 1)

Counted(o) == Sound(o.slot) /\ o.len = Cardinality(Occupied(o.slot))
Kept(o) ==
  /\ Counted(o) /\ o.res \in {"ok", "limit", "nomem"} /\ Map(o.slot) = Map(slot)
  /\ o.res = "ok" => Size(o.slot) # 0
Settled(o, k, v) ==
  /\ Counted(o)
  /\ \/ o.res = "ok" /\ Map(o.slot) = With(Map(slot), k, v)
     \/ o.res \in {"limit", "nomem"} /\ Map(o.slot) = Map(slot)

LEMMA OutcomeIs ==
  ASSUME NEW res, NEW s, NEW n
  PROVE  /\ Outcome(res, s, n).res = res /\ Outcome(res, s, n).slot = s
         /\ Outcome(res, s, n).len = n
BY DEF Outcome

LEMMA RehashKeeps ==
  ASSUME Inv, NEW s, Sound(s), Map(s) = Map(slot), NEW n \in Nat \ {0}, Size(s) <= n,
         NEW o \in Rehash(s, n), Size(o.slot) = n => Size(s) <= MaxProbe + 1
  PROVE  Kept(o)
<1>1. len = Cardinality(Occupied(s))
  BY CountIs DEF Inv, Sound
<1>2. CASE o.res # "ok"
  <2>1. \E res \in {"limit", "nomem"} : o = Outcome(res, s, len)
    BY <1>2, OutcomeIs DEF Rehash
  <2> QED BY <1>1, <1>2, <2>1, OutcomeIs DEF Kept, Counted
<1>3. CASE o.res = "ok"
  <2> DEFINE t == Rehashed(s, n)
  <2>1. o = Outcome("ok", t, Cardinality(Occupied(t))) BY <1>3, OutcomeIs DEF Rehash
  <2>2. o.slot = t /\ o.len = Cardinality(Occupied(t)) BY <2>1, OutcomeIs
  <2>3. Size(t) = n BY RehashedSize DEF Sound, Table
  <2>4. Sound(t) /\ Map(t) = Map(s) BY <2>2, <2>3, RehashedIs DEF Inv
  <2> QED BY <1>3, <2>2, <2>3, <2>4 DEF Kept, Counted
<1> QED BY <1>2, <1>3

LEMMA RehashSize ==
  ASSUME NEW s, Size(s) \in Nat, NEW n \in Nat, NEW o \in Rehash(s, n)
  PROVE  \/ o.res # "ok" /\ o.slot = s
         \/ o.res = "ok" /\ Size(o.slot) = n /\ o.slot = Rehashed(s, n)
BY RehashedSize, OutcomeIs DEF Rehash

LEMMA PutSettles ==
  ASSUME Inv, NEW g, Kept(g), g.res = "ok", NEW k \in Keys, NEW v \in Values,
         FindSlot(g.slot, k).res # "bound", NEW o \in Put(g, FindSlot(g.slot, k), k, v)
  PROVE  Settled(o, k, v)
<1> DEFINE s == g.slot  f == FindSlot(s, k)  t == Changed(s, f.pos, Full(k, v))
<1>1. Hashed /\ Sound(s) /\ Table(s) /\ Size(s) # 0 /\ g.len = Cardinality(Occupied(s)) /\ Map(s) = Map(slot)
  BY DEF Inv, Kept, Counted, Sound
<1>2. CASE f.res = "found"
  <2>1. o = Outcome("ok", t, g.len) BY <1>2 DEF Put, Changed
  <2>2. f.pos \in Occupied(s) /\ s[f.pos].key = k BY <1>1, <1>2, FoundHolds
  <2> HIDE DEF f, s
  <2>3. Sound(t) /\ Occupied(t) = Occupied(s) /\ Map(t) = With(Map(s), k, v)
    <3> DEFINE p == f.pos
    <3> HIDE DEF p
    <3>1. p \in Occupied(s) /\ s[p].key = k BY <2>2 DEF p
    <3>2. t = Changed(s, p, Full(s[p].key, v)) BY <3>1 DEF p
    <3> HIDE DEF t
    <3> QED BY <1>1, <3>1, <3>2, Replaced
  <2> QED BY <1>1, <2>1, <2>3, OutcomeIs DEF Settled, Counted
<1>3. CASE f.res = "absent"
  <2>1. o = Outcome("nomem", s, g.len) \/ o = Outcome("ok", t, g.len + 1)
    <3>1. f.res # "found" BY <1>3
    <3> QED BY <3>1 DEF Put, Changed
  <2>2. f.pos \in DOMAIN s \ Occupied(s) /\ \E i \in 0 .. MaxProbe : Way(s, k, i, f.pos)
    BY <1>1, <1>3, AbsentIsFree
  <2>3. \A q \in Occupied(s) : s[q].key # k
    <3> SUFFICES ASSUME NEW q \in Occupied(s), s[q].key = k PROVE FALSE OBVIOUS
    <3>1. f = [res |-> "found", pos |-> q] BY <1>1, FindsKey
    <3> QED BY <1>3, <3>1
  <2> HIDE DEF f, s
  <2>4. /\ Sound(t) /\ Occupied(t) = Occupied(s) \cup {f.pos}
        /\ Map(t) = With(Map(s), k, v)
    <3> DEFINE p == f.pos
    <3> HIDE DEF p
    <3>1. PICK i \in 0 .. MaxProbe : Way(s, k, i, p) BY <2>2 DEF p
    <3>2. p \in DOMAIN s \ Occupied(s) /\ t = Changed(s, p, Full(k, v)) BY <2>2 DEF p
    <3> HIDE DEF t
    <3>3. Sound(t) /\ Occupied(t) = Occupied(s) \cup {p} /\ Map(t) = With(Map(s), k, v)
      BY <1>1, <2>3, <3>1, <3>2, Added
    <3> QED BY <3>3 DEF p
  <2>5. Cardinality(Occupied(t)) = g.len + 1
    <3>1. IsFiniteSet(Occupied(s)) BY <1>1, OccupiedIs
    <3> HIDE DEF t
    <3> QED BY <1>1, <2>2, <2>4, <3>1, FS_AddElement
  <2> HIDE DEF t
  <2> QED BY <1>1, <2>1, <2>4, <2>5, OutcomeIs DEF Settled, Counted
<1>4. f.res \in {"found", "absent", "bound"} BY FindSlotIs
<1> QED BY <1>2, <1>3, <1>4

LEMMA PutSize ==
  ASSUME NEW g, NEW f, NEW k, NEW v, NEW o \in Put(g, f, k, v)
  PROVE  Size(o.slot) = Size(g.slot)
<1>1. DOMAIN [g.slot EXCEPT ![f.pos] = Full(k, v)] = DOMAIN g.slot OBVIOUS
<1> QED BY <1>1, OutcomeIs DEF Put, Size

LEMMA RetrySize ==
  ASSUME NEW g, NEW k, NEW v, NEW o \in Retry(g, k, v)
  PROVE  Size(o.slot) = Size(g.slot)
BY PutSize, OutcomeIs DEF Retry

LEMMA RetrySettles ==
  ASSUME Inv, NEW g, Kept(g), NEW k \in Keys, NEW v \in Values, NEW o \in Retry(g, k, v)
  PROVE  Settled(o, k, v)
<1>1. CASE g.res # "ok" BY <1>1 DEF Retry, Kept, Settled
<1>2. CASE g.res = "ok" /\ FindSlot(g.slot, k).res = "bound"
  <2>1. o = Outcome("limit", g.slot, g.len) BY <1>2 DEF Retry
  <2> QED BY <2>1, OutcomeIs DEF Kept, Settled, Counted
<1>3. CASE g.res = "ok" /\ FindSlot(g.slot, k).res # "bound"
  <2>1. o \in Put(g, FindSlot(g.slot, k), k, v) BY <1>3 DEF Retry
  <2> QED BY <1>3, <2>1, PutSettles
<1> QED BY <1>1, <1>2, <1>3

LEMMA StoredSettles ==
  ASSUME Inv, NEW g, Kept(g), NEW k \in Keys, NEW v \in Values, NEW o \in Stored(g, k, v),
         Size(o.slot) <= 2 * (MaxProbe + 1)
  PROVE  Settled(o, k, v)
<1>0. Sound(g.slot) /\ Table(g.slot) /\ Map(g.slot) = Map(slot) /\ Size(g.slot) \in Nat
  BY DEF Kept, Counted, Sound, Table
<1>1. CASE g.res # "ok" BY <1>1 DEF Stored, Kept, Settled
<1>2. CASE g.res = "ok" /\ FindSlot(g.slot, k).res # "bound"
  <2>1. o \in Put(g, FindSlot(g.slot, k), k, v) BY <1>2 DEF Stored
  <2> QED BY <1>2, <2>1, PutSettles
<1>3. CASE g.res = "ok" /\ FindSlot(g.slot, k).res = "bound"
  <2> DEFINE n == 2 * Size(g.slot)
  <2>1. PICK h \in Rehash(g.slot, n) : o \in Retry(h, k, v) BY <1>3 DEF Stored, Size
  <2>2. n \in Nat \ {0} /\ Size(g.slot) <= n BY <1>0, <1>3 DEF Kept
  <2>3. Size(o.slot) = Size(h.slot) BY <2>1, RetrySize
  <2>4. Size(h.slot) = n => Size(g.slot) <= MaxProbe + 1 BY <1>0, <2>3, HashAssumption
  <2> HIDE DEF n
  <2>5. Kept(h) BY <1>0, <2>1, <2>2, <2>4, RehashKeeps
  <2> QED BY <2>1, <2>5, RetrySettles
<1> QED BY <1>1, <1>2, <1>3

LEMMA StoredSize ==
  ASSUME NEW g, Size(g.slot) \in Nat, NEW k, NEW v, NEW o \in Stored(g, k, v)
  PROVE  Size(o.slot) \in Nat /\ Size(g.slot) <= Size(o.slot)
<1>1. CASE g.res # "ok" BY <1>1 DEF Stored
<1>2. CASE g.res = "ok" /\ FindSlot(g.slot, k).res # "bound"
  BY <1>2, PutSize DEF Stored
<1>3. CASE g.res = "ok" /\ FindSlot(g.slot, k).res = "bound"
  <2> DEFINE n == 2 * Size(g.slot)
  <2>1. PICK h \in Rehash(g.slot, n) : o \in Retry(h, k, v) BY <1>3 DEF Stored, Size
  <2>2. Size(o.slot) = Size(h.slot) BY <2>1, RetrySize
  <2>3. n \in Nat /\ Size(g.slot) <= n OBVIOUS
  <2> HIDE DEF n
  <2>4. Size(h.slot) \in {Size(g.slot), n} BY <2>1, <2>3, RehashSize
  <2> QED BY <2>2, <2>3, <2>4
<1> QED BY <1>1, <1>2, <1>3

LEMMA MaybeGrowKeeps ==
  ASSUME Inv, NEW g \in MaybeGrow, Size(g.slot) <= 2 * (MaxProbe + 1)
  PROVE  Kept(g)
<1>0. Sound(slot) /\ Table(slot) /\ cap = Size(slot) /\ cap \in Nat /\ MaxProbe \in Nat
  BY HashAssumption DEF Inv, Sound, Table
<1>1. CASE cap = 0
  <2>1. g \in Rehash(slot, MinCap) BY <1>1 DEF MaybeGrow
  <2>2. MinCap \in Nat \ {0} /\ Size(slot) <= MinCap /\ Size(slot) <= MaxProbe + 1
    BY <1>0, <1>1, HashAssumption
  <2> QED BY <1>0, <2>1, <2>2, RehashKeeps
<1>2. CASE cap # 0 /\ g \in Rehash(slot, 2 * cap)
  <2> DEFINE n == 2 * cap
  <2>1. n \in Nat \ {0} /\ Size(slot) <= n BY <1>0, <1>2
  <2>2. Size(g.slot) = n => Size(slot) <= MaxProbe + 1 BY <1>0
  <2> HIDE DEF n
  <2>3. g \in Rehash(slot, n) BY <1>2 DEF n
  <2> QED BY <1>0, <2>1, <2>2, <2>3, RehashKeeps
<1>3. CASE cap # 0 /\ g = Outcome("ok", slot, len)
  BY <1>0, <1>3, OutcomeIs DEF Kept, Counted, Inv
<1> QED BY <1>1, <1>2, <1>3 DEF MaybeGrow

LEMMA MaybeGrowSize ==
  ASSUME Inv, NEW g \in MaybeGrow
  PROVE  Size(g.slot) \in Nat
<1>1. Size(slot) \in Nat /\ cap = Size(slot) /\ MinCap \in Nat /\ 2 * cap \in Nat
  BY HashAssumption DEF Inv, Sound, Table
<1>2. CASE g \in Rehash(slot, MinCap) BY <1>1, <1>2, RehashSize
<1>3. CASE g \in Rehash(slot, 2 * cap)
  <2> DEFINE n == 2 * cap
  <2>1. n \in Nat BY <1>1
  <2> HIDE DEF n
  <2>2. g \in Rehash(slot, n) BY <1>3 DEF n
  <2> QED BY <1>1, <2>1, <2>2, RehashSize
<1>4. CASE g = Outcome("ok", slot, len) BY <1>1, <1>4, OutcomeIs
<1> QED BY <1>2, <1>3, <1>4 DEF MaybeGrow

(* What mcpkg_hash_set leaves, unless the table has become too large.       *)
LEMMA SetSettles ==
  ASSUME Inv, NEW k \in Keys, NEW v \in Values,
         NEW g \in MaybeGrow, NEW o \in Stored(g, k, v), Size(o.slot) <= 2 * (MaxProbe + 1)
  PROVE  Settled(o, k, v)
<1>1. Size(g.slot) \in Nat /\ Size(o.slot) \in Nat /\ Size(g.slot) <= Size(o.slot)
  BY MaybeGrowSize, StoredSize
<1>2. Size(g.slot) <= 2 * (MaxProbe + 1) BY <1>1, HashAssumption
<1>3. Kept(g) BY <1>2, MaybeGrowKeeps
<1> QED BY <1>3, StoredSettles

-----------------------------------------------------------------------------
(* Every step is one of the map.                                           *)

LEMMA ContentsAre == contents = Map(slot)
BY DEF contents, Map

LEMMA FoundIs ==
  ASSUME Inv, NEW k \in Keys
  PROVE  /\ Found(k) <=> k \in DOMAIN Map(slot)
         /\ Found(k) => /\ FindSlot(slot, k).pos \in Occupied(slot)
                        /\ slot[FindSlot(slot, k).pos].key = k
                        /\ slot[FindSlot(slot, k).pos].val = Map(slot)[k]
<1>1. /\ Hashed /\ Sound(slot) /\ Table(slot) /\ Unique(slot) /\ cap = Size(slot)
      /\ len = Cardinality(Occupied(slot))
  BY DEF Inv, Sound
<1>2. ASSUME Found(k)
      PROVE  /\ FindSlot(slot, k).pos \in Occupied(slot)
             /\ slot[FindSlot(slot, k).pos].key = k
             /\ slot[FindSlot(slot, k).pos].val = Map(slot)[k]
             /\ k \in DOMAIN Map(slot)
  <2>1. FindSlot(slot, k).pos \in Occupied(slot) /\ slot[FindSlot(slot, k).pos].key = k
    BY <1>1, <1>2, FoundHolds DEF Found
  <2> QED BY <1>1, <2>1, MapIs
<1>3. ASSUME k \in DOMAIN Map(slot) PROVE Found(k)
  <2>1. PICK p \in Occupied(slot) : slot[p].key = k BY <1>1, <1>3, MapIs
  <2>2. FindSlot(slot, slot[p].key) = [res |-> "found", pos |-> p] BY <1>1, FindsKey
  <2>3. FindSlot(slot, k).res = "found" BY <2>1, <2>2
  <2>4. len # 0 BY <1>1, <2>1, OccupiedIs, FS_EmptySet
  <2>5. cap # 0 BY <1>1, <2>1, OccupiedIs DEF Table
  <2> QED BY <2>3, <2>4, <2>5 DEF Found
<1> QED BY <1>2, <1>3

LEMMA EmptyIs ==
  ASSUME NEW s, \A p \in DOMAIN s : s[p] = Empty
  PROVE  Occupied(s) = {} /\ Map(s) = << >> /\ Cardinality(Occupied(s)) = 0
<1>1. Occupied(s) = {} BY FreeIs DEF Occupied
<1>2. Map(s) = << >> BY <1>1 DEF Map
<1> QED BY <1>1, <1>2, FS_EmptySet

LEMMA NoneIs ==
  /\ Sound(<< >>) /\ Size(<< >>) = 0 /\ Occupied(<< >>) = {} /\ Map(<< >>) = << >>
  /\ Cardinality(Occupied(<< >>)) = 0
<1> DEFINE s == << >>
<1>1. DOMAIN s = {} OBVIOUS
<1>2. Size(s) = 0 BY <1>1, FS_EmptySet DEF Size
<1>3. DOMAIN s = 0 .. Size(s) - 1 BY <1>1, <1>2
<1>4. Occupied(s) = {} /\ Map(s) = << >> /\ Cardinality(Occupied(s)) = 0 BY <1>1, EmptyIs
<1> HIDE DEF s
<1>5. Sound(s) BY <1>1, <1>2, <1>3, <1>4 DEF Sound, Table, Unique, Reach
<1> QED BY <1>2, <1>4, <1>5 DEF s

LEMMA InitOK ==
  ASSUME Init
  PROVE  Inv /\ BM!Init
<1>1. Inv BY NoneIs DEF Init, Inv, Hashed
<1>2. contents = << >> BY ContentsAre, NoneIs DEF Init
<1> QED BY <1>1, <1>2 DEF Init, BM!Init

(* The hash values stay as they are, so a table remains sound.              *)
LEMMA SoundNext ==
  ASSUME Hashed, hash' = hash, NEW s, Sound(s), slot' = s,
         cap' = Size(s), len' = Cardinality(Occupied(s))
  PROVE  Inv' /\ contents' = Map(s)
<1>1. Hashed' BY DEF Hashed
<1>2. Sound(slot)' BY DEF Sound, Table, Unique, Reach, Way, Probe, Size, Occupied
<1>3. cap' = Size(slot)' /\ len' = Cardinality(Occupied(slot))' BY DEF Size, Occupied
<1>4. contents' = Map(s) BY DEF contents, Map, Occupied
<1> QED BY <1>1, <1>2, <1>3, <1>4 DEF Inv

LEMMA Unmoved ==
  ASSUME Inv, UNCHANGED <<table, hash>>
  PROVE  Inv' /\ contents' = contents
BY SoundNext, ContentsAre DEF Inv, table

LEMMA SetStep ==
  ASSUME Inv, NEW k \in Keys, NEW v \in Values, Set(k, v), Short'
  PROVE  Inv' /\ BM!Next
<1>1. hash' = hash /\ Hashed BY DEF Set, Inv
<1>2. CASE len >= max_pairs
  <2>1. Inv' /\ contents' = contents BY <1>1, <1>2, Unmoved DEF Set
  <2>2. BM!Refuse(k, v) BY <1>2, <2>1 DEF Set, BM!Refuse
  <2> QED BY <2>1, <2>2 DEF BM!Next
<1>3. CASE ~(len >= max_pairs)
  <2>1. PICK g \in MaybeGrow : \E o \in Stored(g, k, v) :
           /\ slot' = o.slot /\ cap' = Cardinality(DOMAIN o.slot) /\ len' = o.len
           /\ last' = BM!Answer("set", k, o.res, v)
    BY <1>3 DEF Set
  <2>2. PICK o \in Stored(g, k, v) :
           /\ slot' = o.slot /\ cap' = Cardinality(DOMAIN o.slot) /\ len' = o.len
           /\ last' = BM!Answer("set", k, o.res, v)
    BY <2>1
  <2>3. Size(o.slot) <= 2 * (MaxProbe + 1) BY <2>2 DEF Short, Size
  <2>4. Settled(o, k, v) BY <2>3, SetSettles
  <2>5. Inv' /\ contents' = Map(o.slot)
    <3>1. Sound(o.slot) /\ cap' = Size(o.slot) /\ len' = Cardinality(Occupied(o.slot))
      BY <2>2, <2>4 DEF Settled, Counted, Size
    <3> QED BY <1>1, <2>2, <3>1, SoundNext
  <2>6. CASE o.res = "ok" /\ Map(o.slot) = With(Map(slot), k, v)
    <3>1. BM!Set(k, v) BY <2>2, <2>5, <2>6, ContentsAre DEF BM!Set, With
    <3> QED BY <2>5, <3>1 DEF BM!Next
  <2>7. CASE o.res \in {"limit", "nomem"} /\ Map(o.slot) = Map(slot)
    <3>1. BM!Refuse(k, v) BY <2>2, <2>5, <2>7, ContentsAre DEF BM!Refuse
    <3> QED BY <2>5, <3>1 DEF BM!Next
  <2> QED BY <2>4, <2>6, <2>7 DEF Settled
<1> QED BY <1>2, <1>3

LEMMA RemoveStep ==
  ASSUME Inv, NEW k \in Keys, Remove(k)
  PROVE  Inv' /\ BM!Next
<1> DEFINE p == FindSlot(slot, k).pos  t == Changed(slot, p, Tomb)
<1>1. /\ p \in Occupied(slot) /\ slot[p].key = k /\ slot[p].val = Map(slot)[k]
      /\ k \in DOMAIN Map(slot)
  BY FoundIs DEF Remove
<1>2. /\ slot' = t /\ last' = BM!Answer("remove", k, "ok", slot[p].val)
      /\ len' = len - 1 /\ cap' = cap /\ hash' = hash
  BY DEF Remove, Changed
<1>3. Hashed /\ Sound(slot) /\ Table(slot) /\ cap = Size(slot) /\ len = Cardinality(Occupied(slot))
  BY DEF Inv, Sound
<1> HIDE DEF p
<1>4. /\ Sound(t) /\ Size(t) = Size(slot) /\ Occupied(t) = Occupied(slot) \ {p}
      /\ Map(t) = Restrict(Map(slot), DOMAIN Map(slot) \ {k})
  BY <1>1, <1>3, TakenOut
<1> HIDE DEF t
<1>5. Cardinality(Occupied(t)) = len - 1
  <2>1. IsFiniteSet(Occupied(slot)) BY <1>3, OccupiedIs
  <2> QED BY <1>1, <1>3, <1>4, <2>1, FS_RemoveElement
<1>6. Inv' /\ contents' = Map(t) BY <1>2, <1>3, <1>4, <1>5, SoundNext
<1>7. BM!Remove(k) BY <1>1, <1>2, <1>4, <1>6, ContentsAre DEF BM!Remove, Restrict, BM!Restrict
<1> QED BY <1>6, <1>7 DEF BM!Next

LEMMA StepOK ==
  ASSUME Inv, Next, Short'
  PROVE  Inv' /\ BM!Next
<1>1. ASSUME NEW k \in Keys, NEW v \in Values, Set(k, v) PROVE Inv' /\ BM!Next
  BY <1>1, SetStep
<1>2. ASSUME NEW k \in Keys, Remove(k) PROVE Inv' /\ BM!Next
  BY <1>2, RemoveStep
<1>3. ASSUME NEW k \in Keys, Get(k) PROVE Inv' /\ BM!Next
  <2>1. Inv' /\ contents' = contents BY <1>3, Unmoved DEF Get
  <2>2. BM!Get(k) BY <1>3, <2>1, FoundIs, ContentsAre DEF Get, BM!Get
  <2> QED BY <2>1, <2>2 DEF BM!Next
<1>4. ASSUME NEW k \in Keys, NEW op \in {"remove", "get"}, NotFound(op, k) PROVE Inv' /\ BM!Next
  <2>1. Inv' /\ contents' = contents BY <1>4, Unmoved DEF NotFound
  <2>2. BM!NotFound(op, k) BY <1>4, <2>1, FoundIs, ContentsAre DEF NotFound, BM!NotFound
  <2> QED BY <2>1, <2>2 DEF BM!Next
<1>5. ASSUME RemoveAll PROVE Inv' /\ BM!Next
  <2> DEFINE t == [p \in DOMAIN slot |-> Empty]
  <2>1. DOMAIN t = DOMAIN slot /\ \A p \in DOMAIN t : t[p] = Empty OBVIOUS
  <2> HIDE DEF t
  <2>2. Occupied(t) = {} /\ Map(t) = << >> /\ Cardinality(Occupied(t)) = 0 BY <2>1, EmptyIs
  <2>3. Size(t) = Size(slot) BY <2>1 DEF Size
  <2>4. Sound(t) BY <2>1, <2>2, <2>3, FreeIs DEF Inv, Sound, Table, Unique, Reach
  <2>5. slot' = t /\ len' = 0 /\ cap' = cap /\ hash' = hash BY <1>5 DEF RemoveAll, t
  <2>6. Inv' /\ contents' = << >> BY <2>2, <2>3, <2>4, <2>5, SoundNext DEF Inv
  <2>7. BM!Clear("clear") BY <1>5, <2>6 DEF RemoveAll, BM!Clear
  <2> QED BY <2>6, <2>7 DEF BM!Next
<1>6. ASSUME NEW p \in PairLimits, NEW b \in ByteLimits, SetLimits(p, b) PROVE Inv' /\ BM!Next
  <2>1. Inv' /\ contents' = contents BY <1>6, Unmoved DEF SetLimits
  <2>2. BM!SetLimits BY <1>6, <2>1 DEF SetLimits, BM!SetLimits
  <2> QED BY <2>1, <2>2 DEF BM!Next
<1>7. ASSUME Free PROVE Inv' /\ BM!Next
  <2>1. slot' = << >> /\ cap' = 0 /\ len' = 0 /\ hash' = hash /\ last' = BM!Done("free", "ok")
    BY <1>7 DEF Free
  <2>2. Hashed BY DEF Inv
  <2>3. Inv' /\ contents' = << >> BY <2>1, <2>2, NoneIs, SoundNext
  <2>4. BM!Clear("free") BY <2>1, <2>3 DEF BM!Clear
  <2> QED BY <2>3, <2>4 DEF BM!Next
<1> QED BY <1>1, <1>2, <1>3, <1>4, <1>5, <1>6, <1>7 DEF Next

(* As long as no table has more than twice as many slots as a probe visits, *)
(* set, get, remove and clear answer as a map would, whatever keys collide, *)
(* wherever tombstones are left and whenever memory fails (mcpkg_hash.h).   *)
(* In a larger table a rebuilding may put a key out of reach.               *)
THEOREM TableIsMap == Spec /\ []Short => ImplementsBoundedMap
<1>1. Init => Inv /\ BM!Init BY InitOK
<1>2. Inv /\ Short' /\ [Next]_vars => Inv' /\ [BM!Next]_<<contents, last>>
  <2> SUFFICES ASSUME Inv, Short', [Next]_vars
               PROVE  Inv' /\ [BM!Next]_<<contents, last>>
    OBVIOUS
  <2>1. CASE Next BY <2>1, StepOK
  <2>2. CASE UNCHANGED vars
    <3>1. UNCHANGED <<table, hash>> /\ last' = last BY <2>2 DEF vars, table
    <3> QED BY <3>1, Unmoved
  <2> QED BY <2>1, <2>2
<1>3. [BM!Next]_<<contents, last>> => [BM!Next]_(BM!vars) BY DEF BM!vars
<1> QED BY <1>1, <1>2, <1>3, PTL DEF Spec, ImplementsBoundedMap, BM!Spec

-----------------------------------------------------------------------------
(* No table takes more bytes than it may, so that a byte limit keeps it     *)
(* within the reach of a probe.                                             *)

FitsIn(s) == Size(s) \in Nat /\ Size(s) * SlotBytes <= max_bytes
Within == max_bytes \in ByteLimits /\ cap = Size(slot) /\ FitsIn(slot)

LEMMA RehashFits ==
  ASSUME NEW s, FitsIn(s), NEW n \in Nat, NEW o \in Rehash(s, n), max_bytes \in Nat
  PROVE  FitsIn(o.slot)
<1>1. n * SlotBytes \in Nat BY HashAssumption
<1>2. CASE n * SlotBytes > max_bytes
  <2>1. o = Outcome("limit", s, len) BY <1>2 DEF Rehash
  <2> QED BY <2>1, OutcomeIs
<1>3. CASE ~(n * SlotBytes > max_bytes)
  <2>1. n * SlotBytes <= max_bytes BY <1>1, <1>3
  <2>2. o.slot = s \/ Size(o.slot) = n BY RehashSize DEF FitsIn
  <2> QED BY <2>1, <2>2 DEF FitsIn
<1> QED BY <1>2, <1>3

LEMMA MaybeGrowFits ==
  ASSUME Within, max_bytes \in Nat, NEW g \in MaybeGrow PROVE FitsIn(g.slot)
<1>1. MinCap \in Nat /\ 2 * cap \in Nat BY HashAssumption DEF Within, FitsIn
<1>2. CASE g \in Rehash(slot, MinCap) BY <1>1, <1>2, RehashFits DEF Within
<1>3. CASE g \in Rehash(slot, 2 * cap)
  <2> DEFINE n == 2 * cap
  <2>1. n \in Nat /\ g \in Rehash(slot, n) BY <1>1, <1>3
  <2> HIDE DEF n
  <2> QED BY <2>1, RehashFits DEF Within
<1>4. CASE g = Outcome("ok", slot, len) BY <1>4, OutcomeIs DEF Within
<1> QED BY <1>2, <1>3, <1>4 DEF MaybeGrow

LEMMA StoredFits ==
  ASSUME NEW g, FitsIn(g.slot), max_bytes \in Nat, NEW k, NEW v, NEW o \in Stored(g, k, v)
  PROVE  FitsIn(o.slot)
<1>1. CASE g.res # "ok" BY <1>1 DEF Stored
<1>2. CASE g.res = "ok" /\ FindSlot(g.slot, k).res # "bound"
  BY <1>2, PutSize DEF Stored, FitsIn
<1>3. CASE g.res = "ok" /\ FindSlot(g.slot, k).res = "bound"
  <2> DEFINE n == 2 * Size(g.slot)
  <2>1. PICK h \in Rehash(g.slot, n) : o \in Retry(h, k, v) BY <1>3 DEF Stored, Size
  <2>2. n \in Nat BY DEF FitsIn
  <2> HIDE DEF n
  <2>3. FitsIn(h.slot) BY <2>1, <2>2, RehashFits
  <2> QED BY <2>1, <2>3, RetrySize DEF FitsIn
<1> QED BY <1>1, <1>2, <1>3

LEMMA StaysWithin == ASSUME Within, [Next]_vars PROVE Within'
<1>0. max_bytes \in Nat /\ \A b \in ByteLimits : b \in Nat BY HashAssumption DEF Within
<1>1. ASSUME max_bytes' = max_bytes, cap' = Size(slot'), FitsIn(slot') PROVE Within'
  BY <1>1 DEF Within, FitsIn, Size
<1>2. ASSUME max_bytes' = max_bytes, cap' = cap, DOMAIN slot' = DOMAIN slot PROVE Within'
  BY <1>2 DEF Within, FitsIn, Size
<1>3. ASSUME NEW k \in Keys, NEW v \in Values, Set(k, v) PROVE Within'
  <2>1. CASE len >= max_pairs BY <1>2, <1>3, <2>1 DEF Set, table, limits
  <2>2. CASE ~(len >= max_pairs)
    <3>1. PICK g \in MaybeGrow : \E o \in Stored(g, k, v) :
            slot' = o.slot /\ cap' = Cardinality(DOMAIN o.slot)
      BY <1>3, <2>2 DEF Set
    <3>2. PICK o \in Stored(g, k, v) : slot' = o.slot /\ cap' = Size(o.slot)
      BY <3>1 DEF Size
    <3>3. FitsIn(o.slot) BY <1>0, MaybeGrowFits, StoredFits
    <3> QED BY <1>1, <1>3, <3>2, <3>3 DEF Set, limits
  <2> QED BY <2>1, <2>2
<1>4. ASSUME NEW k \in Keys, Remove(k) PROVE Within'
  <2>1. slot' = [slot EXCEPT ![FindSlot(slot, k).pos] = Tomb] BY <1>4 DEF Remove
  <2>2. DOMAIN slot' = DOMAIN slot BY <2>1
  <2> QED BY <1>2, <1>4, <2>2 DEF Remove, limits
<1>5. ASSUME RemoveAll PROVE Within'
  <2>1. DOMAIN slot' = DOMAIN slot BY <1>5 DEF RemoveAll
  <2> QED BY <1>2, <1>5, <2>1 DEF RemoveAll, limits
<1>6. ASSUME NEW p \in PairLimits, NEW b \in ByteLimits, SetLimits(p, b) PROVE Within'
  <2>1. UNCHANGED table BY <1>6 DEF SetLimits
  <2>2. CASE UNCHANGED limits BY <1>2, <2>1, <2>2 DEF table, limits
  <2>3. CASE max_bytes' = b /\ ~(cap * SlotBytes > b)
    <3>1. slot' = slot /\ cap' = cap BY <2>1 DEF table
    <3>2. cap * SlotBytes \in Nat /\ b \in Nat BY <1>0, HashAssumption DEF Within, FitsIn
    <3>3. cap * SlotBytes <= b BY <2>3, <3>2
    <3> QED BY <2>3, <3>1, <3>3 DEF Within, FitsIn, Size
  <2> QED BY <1>6, <2>2, <2>3 DEF SetLimits
<1>7. ASSUME Free PROVE Within'
  <2>1. slot' = << >> /\ cap' = 0 /\ max_bytes' = max_bytes BY <1>7 DEF Free, limits
  <2>2. Size(slot') = 0 BY <2>1, NoneIs
  <2>3. FitsIn(slot') BY <1>0, <2>2, HashAssumption DEF FitsIn
  <2> QED BY <1>1, <2>1, <2>2, <2>3
<1>8. ASSUME UNCHANGED <<table, limits>> PROVE Within'
  BY <1>2, <1>8 DEF table, limits
<1>9. ASSUME NEW k \in Keys, NEW op, Get(k) \/ NotFound(op, k) PROVE Within'
  BY <1>8, <1>9 DEF Get, NotFound
<1> QED BY <1>3, <1>4, <1>5, <1>6, <1>7, <1>8, <1>9 DEF Next, vars, table, limits

(* When the byte limits allow no table of more than twice as many slots as  *)
(* a probe visits (130; the tables have a power of two, so 128), the hash   *)
(* table is a map without further ado: of such are those that TLC checks.   *)
THEOREM SmallTableIsMap ==
  ASSUME \A b \in ByteLimits : b <= 2 * (MaxProbe + 1) * SlotBytes
  PROVE  Spec => ImplementsBoundedMap
<1>1. Init => Within
  <2> SUFFICES ASSUME Init PROVE Within OBVIOUS
  <2>1. slot = << >> /\ cap = 0 /\ max_bytes \in ByteLimits BY DEF Init
  <2>2. Size(slot) = 0 BY <2>1, NoneIs
  <2>3. FitsIn(slot) BY <2>1, <2>2, HashAssumption DEF FitsIn
  <2> QED BY <2>1, <2>2, <2>3 DEF Within
<1>2. Within => Short
  <2> SUFFICES ASSUME Within PROVE Short OBVIOUS
  <2> DEFINE n == 2 * (MaxProbe + 1)
  <2>1. n \in Nat /\ cap \in Nat /\ SlotBytes \in Nat \ {0} BY HashAssumption DEF Within, FitsIn
  <2>2. max_bytes \in Nat /\ max_bytes <= n * SlotBytes BY HashAssumption DEF Within
  <2> HIDE DEF n
  <2>3. cap * SlotBytes <= n * SlotBytes
    <3>1. cap * SlotBytes \in Nat /\ n * SlotBytes \in Nat BY <2>1
    <3>2. cap * SlotBytes <= max_bytes BY DEF Within, FitsIn
    <3> QED BY <2>2, <3>1, <3>2
  <2>4. cap <= n
    <3> SUFFICES ASSUME cap >= n + 1 PROVE FALSE BY <2>1
    <3>1. cap * SlotBytes >= (n + 1) * SlotBytes BY <2>1
    <3>2. (n + 1) * SlotBytes = n * SlotBytes + SlotBytes BY <2>1
    <3> QED BY <2>1, <2>3, <3>1, <3>2
  <2> QED BY <2>4 DEF Short, n
<1>3. Spec => []Within BY <1>1, StaysWithin, PTL DEF Spec
<1> QED BY <1>2, <1>3, TableIsMap, PTL
=============================================================================
