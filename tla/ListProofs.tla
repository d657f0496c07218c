----------------------------- MODULE ListProofs -----------------------------
(***************************************************************************)
(* The invariants of List, for every set of strings, element size and set  *)
(* of limits.  Growth is where they meet: the lemmas about EnsureCapFor    *)
(* say that a call which reports OK has room when the element limit binds, *)
(* and never more than the byte limit allows; the lemmas about Owned say   *)
(* what becomes of the owners of strings when cells move.  At the end List *)
(* is shown to implement StringSeq.                                        *)
(***************************************************************************)
EXTENDS List, SequenceTheorems, TLAPS

-----------------------------------------------------------------------------
(* Growth.                                                                  *)

(* b \div e is the largest number of elements of size e in b bytes. *)
LEMMA Quotient ==
  ASSUME NEW b \in Nat, NEW e \in Nat \ {0}
  PROVE  /\ b \div e \in Nat
         /\ (b \div e) * e <= b
         /\ \A x \in Nat : x * e <= b => x <= b \div e
<1> DEFINE q == b \div e
<1>1. q \in Nat /\ b = q * e + (b % e) /\ b % e \in 0 .. e - 1
  BY SMTT(30)
<1>2. q * e <= b
  BY <1>1, SMTT(30)
<1>3. ASSUME NEW x \in Nat, x * e <= b
      PROVE  x <= q
  <2>1. SUFFICES ASSUME x >= q + 1
                 PROVE  FALSE
    BY <1>1
  <2>2. PICK k \in Nat : x = q + 1 + k
    <3>1. x - q - 1 \in Nat /\ x = q + 1 + (x - q - 1)
      BY <2>1, <1>1
    <3> QED  BY <3>1
  <2>3. x * e = q * e + e + k * e
    BY <2>2, <1>1, SMTT(30)
  <2>4. k * e \in Nat /\ q * e \in Nat
    BY <1>1, SMTT(30)
  <2> QED  BY <1>1, <1>3, <2>3, <2>4
<1> QED  BY <1>1, <1>2, <1>3

(* Fewer elements take fewer bytes. *)
LEMMA FewerBytes ==
  ASSUME NEW x \in Nat, NEW y \in Nat, NEW e \in Nat, x <= y
  PROVE  x * e <= y * e
<1>1. PICK k \in Nat : y = x + k
  <2>1. y - x \in Nat /\ y = x + (y - x)
    OBVIOUS
  <2> QED  BY <2>1
<1>2. y * e = x * e + k * e /\ k * e \in Nat /\ x * e \in Nat
  BY <1>1, SMTT(30)
<1> QED  BY <1>2

(* EffectiveMax is the number of elements that both limits allow. *)
LEMMA EffectiveMaxFacts ==
  ASSUME NEW count \in Nat, NEW bytes \in Nat
  PROVE  /\ EffectiveMax(count, bytes) \in Nat
         /\ EffectiveMax(count, bytes) * ElemSize <= bytes
         /\ \A x \in Nat : x <= count /\ x * ElemSize <= bytes
                             => x <= EffectiveMax(count, bytes)
<1>0. ElemSize \in Nat \ {0}
  BY ListAssumption
<1> DEFINE q == bytes \div ElemSize
<1>1. q \in Nat /\ q * ElemSize <= bytes
      /\ \A x \in Nat : x * ElemSize <= bytes => x <= q
  BY <1>0, Quotient
<1> HIDE DEF q
<1>2. EffectiveMax(count, bytes) = IF count <= q THEN count ELSE q
  BY DEF EffectiveMax, q
<1>3. CASE count <= q
  <2>1. count * ElemSize <= q * ElemSize
    BY <1>0, <1>1, <1>3, FewerBytes
  <2>2. count * ElemSize \in Nat /\ q * ElemSize \in Nat
    BY <1>0, <1>1, SMTT(30)
  <2> QED  BY <1>1, <1>2, <1>3, <2>1, <2>2
<1>4. CASE ~(count <= q)
  BY <1>1, <1>2, <1>4
<1> QED  BY <1>3, <1>4

(* What grow_to leaves: no less, within the bytes, and at least m cells of  *)
(* the n asked for if the limits allow m.                                   *)
LEMMA GrowToFacts ==
  ASSUME TypeOK, ArrayWithinBytes, NEW n \in Nat, NEW g \in GrowTo(n)
  PROVE  /\ g.cap \in Nat
         /\ cap <= g.cap
         /\ g.cap * ElemSize <= max_bytes
         /\ g.result = "ok" =>
              \A m \in Nat : /\ m <= n
                             /\ m <= max_elements
                             /\ m * ElemSize <= max_bytes
                             => m <= g.cap
<1> DEFINE most == EffectiveMax(max_elements, max_bytes)
           goal == IF n <= most THEN n ELSE most
<1>0. ElemSize \in Nat \ {0} /\ cap \in Nat /\ max_elements \in Nat /\ max_bytes \in Nat
  BY ListAssumption DEF TypeOK
<1>1. most \in Nat /\ most * ElemSize <= max_bytes
      /\ \A x \in Nat : x <= max_elements /\ x * ElemSize <= max_bytes => x <= most
  BY <1>0, EffectiveMaxFacts
<1>2. \/ n <= cap /\ g = [result |-> "ok", cap |-> cap]
      \/ most = 0 /\ g = [result |-> "limit", cap |-> cap]
      \/ goal <= cap /\ g = [result |-> "ok", cap |-> cap]
      \/ g = [result |-> "no_mem", cap |-> cap]
      \/ ~(goal <= cap) /\ g = [result |-> "ok", cap |-> goal]
  BY DEF GrowTo
<1> HIDE DEF most
<1>3. goal \in Nat /\ goal <= most
  BY <1>1
<1>4. goal * ElemSize <= max_bytes
  <2>1. goal * ElemSize <= most * ElemSize
    BY <1>0, <1>1, <1>3, FewerBytes
  <2>2. goal * ElemSize \in Nat /\ most * ElemSize \in Nat
    BY <1>0, <1>1, <1>3, SMTT(30)
  <2> QED  BY <1>0, <1>1, <2>1, <2>2
<1>5. \A m \in Nat : m <= n /\ m <= max_elements /\ m * ElemSize <= max_bytes
        => m <= goal
  BY <1>1
<1> HIDE DEF goal
<1>6. g.cap \in Nat /\ cap <= g.cap
  BY <1>0, <1>2, <1>3
<1>7. g.cap * ElemSize <= max_bytes
  BY <1>2, <1>4 DEF ArrayWithinBytes
<1>8. ASSUME g.result = "ok", NEW m \in Nat, m <= n, m <= max_elements,
             m * ElemSize <= max_bytes
      PROVE  m <= g.cap
  <2>1. m <= goal
    BY <1>5, <1>8
  <2> QED  BY <1>0, <1>2, <1>3, <1>8, <2>1
<1> QED  BY <1>6, <1>7, <1>8

(* What ensure_cap_for leaves; the room is there unless the bytes bind. *)
LEMMA EnsureFacts ==
  ASSUME TypeOK, ArrayWithinBytes, NEW n \in Nat, NEW g \in EnsureCapFor(n)
  PROVE  /\ g.cap \in Nat
         /\ cap <= g.cap
         /\ g.cap * ElemSize <= max_bytes
         /\ g.result = "ok" => /\ n <= max_elements
                               /\ n <= g.cap \/ max_bytes < max_elements * ElemSize
<1>0. ElemSize \in Nat \ {0} /\ FirstCap \in Nat \ {0}
      /\ cap \in Nat /\ max_elements \in Nat /\ max_bytes \in Nat
  BY ListAssumption DEF TypeOK
<1> DEFINE doubled == IF cap = 0 THEN FirstCap ELSE 2 * cap
           asked == IF doubled < n THEN n ELSE doubled
<1>1. asked \in Nat /\ n <= asked
  BY <1>0
<1>2. \/ ~(n <= max_elements) /\ g = [result |-> "limit", cap |-> cap]
      \/ n <= max_elements /\ n <= cap /\ g = [result |-> "ok", cap |-> cap]
      \/ n <= max_elements /\ g \in GrowTo(asked)
  BY <1>0 DEF EnsureCapFor
<1> HIDE DEF asked, doubled
<1>3. CASE g = [result |-> "limit", cap |-> cap]
  BY <1>0, <1>3 DEF ArrayWithinBytes
<1>4. CASE n <= max_elements /\ n <= cap /\ g = [result |-> "ok", cap |-> cap]
  BY <1>0, <1>4 DEF ArrayWithinBytes
<1>5. CASE n <= max_elements /\ g \in GrowTo(asked)
  <2>1. /\ g.cap \in Nat
        /\ cap <= g.cap
        /\ g.cap * ElemSize <= max_bytes
        /\ g.result = "ok" =>
             \A m \in Nat : m <= asked /\ m <= max_elements /\ m * ElemSize <= max_bytes
                              => m <= g.cap
    BY <1>1, <1>5, GrowToFacts
  <2>2. n * ElemSize \in Nat /\ max_elements * ElemSize \in Nat
    BY <1>0, SMTT(30)
  <2>3. n * ElemSize <= max_elements * ElemSize
    BY <1>0, <1>5, FewerBytes
  <2>4. ASSUME g.result = "ok", ~(max_bytes < max_elements * ElemSize)
        PROVE  n <= g.cap
    <3>1. n * ElemSize <= max_bytes
      BY <1>0, <2>2, <2>3, <2>4
    <3> QED  BY <1>1, <1>5, <2>1, <2>4, <3>1
  <2> QED  BY <1>5, <2>1, <2>4
<1> QED  BY <1>2, <1>3, <1>4, <1>5

-----------------------------------------------------------------------------
(* Ownership: cells 0 .. n - 1 of d and the caller's strings g share out    *)
(* the allocated strings h, each to one owner.                              *)

Owned(d, n, h, g) ==
  /\ \A i \in 0 .. n - 1 : d[i] \in h \ g
  /\ \A i, j \in 0 .. n - 1 : d[i] = d[j] => i = j
  /\ h = {d[i] : i \in 0 .. n - 1} \cup g

(* A fresh string put at position i. *)
LEMMA OwnedPut ==
  ASSUME NEW d, NEW e, NEW n \in Nat, NEW i \in 0 .. n, NEW s, NEW h, NEW g,
         Owned(d, n, h, g), s \notin h,
         \A j \in 0 .. n : e[j] = IF j < i THEN d[j] ELSE IF j = i THEN s ELSE d[j - 1]
  PROVE  Owned(e, n + 1, h \cup {s}, g)
<1>0. g \subseteq h /\ 0 .. (n + 1) - 1 = 0 .. n
  BY DEF Owned
<1>1. ASSUME NEW j \in 0 .. n
      PROVE  /\ e[j] \in (h \cup {s}) \ g
             /\ e[j] = s \/ e[j] \in {d[k] : k \in 0 .. n - 1}
  BY <1>0 DEF Owned
<1>2. ASSUME NEW j \in 0 .. n, NEW k \in 0 .. n, e[j] = e[k]
      PROVE  j = k
  <2>1. \A m \in 0 .. n - 1 : d[m] # s
    BY DEF Owned
  <2>2. CASE j = i \/ k = i
    BY <1>2, <2>1, <2>2
  <2>3. CASE j # i /\ k # i
    <3> DEFINE from(m) == IF m < i THEN m ELSE m - 1
    <3>1. from(j) \in 0 .. n - 1 /\ from(k) \in 0 .. n - 1
      BY <2>3
    <3>2. e[j] = d[from(j)] /\ e[k] = d[from(k)]
      BY <2>3
    <3>3. from(j) = from(k)
      BY <1>2, <3>1, <3>2 DEF Owned
    <3> QED  BY <2>3, <3>3
  <2> QED  BY <2>2, <2>3
<1>3. h \cup {s} = {e[j] : j \in 0 .. n} \cup g
  <2>1. ASSUME NEW k \in 0 .. n - 1
        PROVE  d[k] \in {e[j] : j \in 0 .. n}
    <3>1. CASE k < i
      BY <3>1
    <3>2. CASE ~(k < i)
      <4>1. k + 1 \in 0 .. n /\ e[k + 1] = d[(k + 1) - 1] /\ (k + 1) - 1 = k
        BY <3>2
      <4> QED  BY <4>1
    <3> QED  BY <3>1, <3>2
  <2>2. s \in {e[j] : j \in 0 .. n}
    <3>1. e[i] = s
      OBVIOUS
    <3> QED  BY <3>1
  <2> QED  BY <1>1, <2>1, <2>2 DEF Owned
<1> QED  BY <1>0, <1>1, <1>2, <1>3 DEF Owned

(* The string at position i taken out. *)
LEMMA OwnedCut ==
  ASSUME NEW d, NEW e, NEW n \in Nat, NEW i \in 0 .. n - 1, NEW h, NEW g,
         Owned(d, n, h, g),
         \A j \in 0 .. n - 2 : e[j] = IF j < i THEN d[j] ELSE d[j + 1]
  PROVE  Owned(e, n - 1, h \ {d[i]}, g)
<1> DEFINE from(m) == IF m < i THEN m ELSE m + 1
<1>0. 0 .. (n - 1) - 1 = 0 .. n - 2
  OBVIOUS
<1>1. \A j \in 0 .. n - 2 : from(j) \in 0 .. n - 1 /\ from(j) # i /\ e[j] = d[from(j)]
  OBVIOUS
<1>2. \A j, k \in 0 .. n - 2 : from(j) = from(k) => j = k
  OBVIOUS
<1>3. \A k \in 0 .. n - 1 : k # i => \E j \in 0 .. n - 2 : k = from(j)
  <2> TAKE k \in 0 .. n - 1
  <2>1. CASE k < i
    BY <2>1
  <2>2. CASE k > i
    <3>1. k - 1 \in 0 .. n - 2 /\ k = from(k - 1)
      BY <2>2
    <3> QED  BY <3>1
  <2> QED  BY <2>1, <2>2
<1> HIDE DEF from
<1>4. \A j \in 0 .. n - 2 : e[j] \in (h \ {d[i]}) \ g
  BY <1>1 DEF Owned
<1>5. \A j, k \in 0 .. n - 2 : e[j] = e[k] => j = k
  BY <1>1, <1>2 DEF Owned
<1>6. \A k \in 0 .. n - 1 : k # i => d[k] \in {e[j] : j \in 0 .. n - 2}
  BY <1>1, <1>3
<1>7. h \ {d[i]} = {e[j] : j \in 0 .. n - 2} \cup g
  <2>1. d[i] \notin g /\ g \subseteq h
    BY DEF Owned
  <2>2. {e[j] : j \in 0 .. n - 2} \cup g \subseteq h \ {d[i]}
    BY <1>4, <2>1
  <2>3. ASSUME NEW x \in h, x # d[i]
        PROVE  x \in {e[j] : j \in 0 .. n - 2} \cup g
    <3>1. x \in g \/ \E k \in 0 .. n - 1 : x = d[k] /\ k # i
      BY <2>3 DEF Owned
    <3> QED  BY <1>6, <3>1
  <2> QED  BY <2>2, <2>3
<1> QED  BY <1>0, <1>4, <1>5, <1>7 DEF Owned

(* The strings from position m on destroyed. *)
LEMMA OwnedTruncate ==
  ASSUME NEW d, NEW e, NEW n \in Nat, NEW m \in 0 .. n, NEW h, NEW g,
         Owned(d, n, h, g),
         \A j \in 0 .. m - 1 : e[j] = d[j]
  PROVE  Owned(e, m, h \ {d[i] : i \in m .. n - 1}, g)
<1> DEFINE D == {d[i] : i \in m .. n - 1}
<1>1. \A j \in 0 .. m - 1 : j \in 0 .. n - 1 /\ d[j] \notin D
  BY DEF Owned
<1>2. \A j \in 0 .. n - 1 : j \in 0 .. m - 1 \/ d[j] \in D
  OBVIOUS
<1>3. \A x \in D : x \in h \ g
  BY DEF Owned
<1>4. {e[j] : j \in 0 .. m - 1} = {d[j] : j \in 0 .. m - 1}
  OBVIOUS
<1> HIDE DEF D
<1>5. \A j \in 0 .. m - 1 : e[j] \in (h \ D) \ g
  BY <1>1 DEF Owned
<1>6. \A j, k \in 0 .. m - 1 : e[j] = e[k] => j = k
  BY <1>1 DEF Owned
<1>7. h \ D = {e[j] : j \in 0 .. m - 1} \cup g
  BY <1>1, <1>2, <1>3, <1>4 DEF Owned
<1> QED  BY <1>5, <1>6, <1>7 DEF Owned, D

(* Fresh strings put at the end; k is what is allocated then. *)
LEMMA OwnedExtend ==
  ASSUME NEW d, NEW e, NEW n \in Nat, NEW m \in Nat, n <= m, NEW h, NEW g, NEW k,
         Owned(d, n, h, g),
         \A j \in 0 .. n - 1 : e[j] = d[j],
         \A j \in n .. m - 1 : e[j] \notin h,
         \A i, j \in n .. m - 1 : e[i] = e[j] => i = j,
         \A x : x \in k <=> x \in h \/ \E j \in n .. m - 1 : x = e[j]
  PROVE  Owned(e, m, k, g)
<1>1. \A j \in 0 .. m - 1 :
        \/ j \in 0 .. n - 1 /\ e[j] = d[j] /\ e[j] \in h
        \/ j \in n .. m - 1 /\ e[j] \notin h
  BY DEF Owned
<1>2. \A j \in 0 .. n - 1 : e[j] = d[j] /\ j \in 0 .. m - 1
  OBVIOUS
<1>3. \A j \in n .. m - 1 : j \in 0 .. m - 1
  OBVIOUS
<1>4. \A j \in 0 .. m - 1 : e[j] \in k \ g
  <2>1. g \subseteq h
    BY DEF Owned
  <2> QED  BY <1>1, <2>1 DEF Owned
<1>5. \A i, j \in 0 .. m - 1 : e[i] = e[j] => i = j
  BY <1>1 DEF Owned
<1>6. k = {e[j] : j \in 0 .. m - 1} \cup g
  <2>1. \A x \in h : x \in g \/ \E j \in 0 .. n - 1 : x = d[j]
    BY DEF Owned
  <2>2. \A x \in k : x \in g \/ \E j \in 0 .. m - 1 : x = e[j]
    BY <1>2, <1>3, <2>1
  <2>3. g \subseteq k
    BY DEF Owned
  <2> QED  BY <1>4, <2>2, <2>3
<1> QED  BY <1>4, <1>5, <1>6 DEF Owned

(* The last string handed to the caller. *)
LEMMA OwnedHand ==
  ASSUME NEW d, NEW e, NEW n \in Nat \ {0}, NEW h, NEW g,
         Owned(d, n, h, g),
         \A j \in 0 .. n - 2 : e[j] = d[j]
  PROVE  Owned(e, n - 1, h, g \cup {d[n - 1]})
<1>0. 0 .. (n - 1) - 1 = 0 .. n - 2 /\ n - 1 \in 0 .. n - 1
  OBVIOUS
<1>1. \A j \in 0 .. n - 2 : j \in 0 .. n - 1 /\ j # n - 1 /\ e[j] = d[j]
  OBVIOUS
<1>2. \A j \in 0 .. n - 1 : j \in 0 .. n - 2 \/ j = n - 1
  OBVIOUS
<1>3. \A j \in 0 .. n - 2 : e[j] \in h \ (g \cup {d[n - 1]})
  BY <1>0, <1>1 DEF Owned
<1>4. \A j, k \in 0 .. n - 2 : e[j] = e[k] => j = k
  BY <1>1 DEF Owned
<1>5. h = {e[j] : j \in 0 .. n - 2} \cup (g \cup {d[n - 1]})
  BY <1>0, <1>1, <1>2 DEF Owned
<1> QED  BY <1>0, <1>3, <1>4, <1>5 DEF Owned

-----------------------------------------------------------------------------
(* The inductive invariant.  OwnedOnce speaks of the cells below len, so it *)
(* needs them to be cells of the array (InRoom); that in turn rests on what *)
(* growth leaves, and so on ArrayWithinBytes.                               *)

InRoom == ~overrun => len <= cap

IInv ==
  /\ TypeOK
  /\ ArrayWithinBytes
  /\ CountRespected
  /\ OverrunOnlyByBytes
  /\ InRoom
  /\ OwnedOnce
  /\ NothingFreedTwice

LEMMA OwnedOnceIsOwned ==
  OwnedOnce <=> (~overrun => Owned(data, len, heap, given))
BY DEF OwnedOnce, Owned, Cells

(* What a state in use gives the proofs below. *)
LEMMA StateFacts ==
  ASSUME IInv, ~overrun
  PROVE  /\ len \in Nat /\ cap \in Nat /\ len <= cap
         /\ ElemSize \in Nat \ {0} /\ max_elements \in Nat /\ max_bytes \in Nat
         /\ cap * ElemSize <= max_bytes
         /\ data \in [0 .. cap - 1 -> Pointers]
         /\ Owned(data, len, heap, given)
         /\ heap \subseteq Strings /\ given \subseteq heap /\ Null \notin heap
BY ListAssumption, OwnedOnceIsOwned
   DEF IInv, TypeOK, InRoom, ArrayWithinBytes, Owned

LEMMA InitInv == Init => IInv
<1> SUFFICES ASSUME Init PROVE IInv
  OBVIOUS
<1>1. len = 0 /\ cap = 0 /\ heap = {} /\ given = {} /\ ~overrun /\ ~misfreed
  BY DEF Init
<1>2. data \in [0 .. cap - 1 -> Pointers]
  BY <1>1 DEF Init
<1>3. TypeOK
  <2>1. max_elements \in CountLimits /\ max_bytes \in ByteLimits /\ ~freed
        /\ freed \in BOOLEAN /\ overrun \in BOOLEAN /\ misfreed \in BOOLEAN
    BY DEF Init
  <2> QED  BY <1>1, <1>2, <2>1 DEF TypeOK
<1>4. ArrayWithinBytes /\ CountRespected /\ OverrunOnlyByBytes /\ InRoom
  BY <1>1, ListAssumption
     DEF Init, ArrayWithinBytes, CountRespected, OverrunOnlyByBytes, InRoom
<1>5. OwnedOnce /\ NothingFreedTwice
  BY <1>1 DEF OwnedOnce, NothingFreedTwice, Cells
<1> QED  BY <1>3, <1>4, <1>5 DEF IInv

(* A call that is refused, or a step of nobody, changes nothing of it. *)
LEMMA RefusedInv ==
  ASSUME IInv,
         UNCHANGED <<data, len, cap, max_elements, max_bytes, heap, given, freed,
                     overrun, misfreed>>
  PROVE  IInv'
BY DEF IInv, TypeOK, ArrayWithinBytes, CountRespected, OverrunOnlyByBytes, InRoom,
       OwnedOnce, NothingFreedTwice, Cells

LEMMA RefuseInv ==
  ASSUME IInv, NEW op, NEW why, Refuse(op, why)
  PROVE  IInv'
BY RefusedInv DEF Refuse, limits, memory

(* The array after realloc: the old cells, the rest junk. *)
LEMMA ReallocFacts ==
  ASSUME TypeOK, NEW n \in Nat, cap <= n
  PROVE  /\ Realloc(n) \in [0 .. n - 1 -> Pointers]
         /\ \A i \in 0 .. cap - 1 : Realloc(n)[i] = data[i]
<1>1. DOMAIN data = 0 .. cap - 1 /\ cap \in Nat
  BY DEF TypeOK
<1>2. \A i \in 0 .. n - 1 : Realloc(n)[i] = IF i \in 0 .. cap - 1 THEN data[i] ELSE Junk
  BY <1>1 DEF Realloc
<1>3. \A i \in 0 .. cap - 1 : i \in 0 .. n - 1
  BY <1>1
<1>4. \A i \in 0 .. n - 1 : Realloc(n)[i] \in Pointers
  BY <1>1, <1>2 DEF TypeOK, Pointers
<1>5. Realloc(n) = [i \in 0 .. n - 1 |-> Realloc(n)[i]]
  BY DEF Realloc
<1> QED  BY <1>1, <1>2, <1>3, <1>4, <1>5

(* The strings destroyed in the cells of I below len are allocated. *)
LEMMA DestroyFacts ==
  ASSUME IInv, ~overrun, NEW I \in SUBSET (0 .. len - 1), Destroy(data, I, heap)
  PROVE  /\ heap' = heap \ {data[i] : i \in I}
         /\ misfreed' = misfreed
<1>1. \A i \in I : data[i] \in heap /\ data[i] # Null
  BY StateFacts DEF Owned
<1>2. {data[i] : i \in I} \ {Null} = {data[i] : i \in I}
  BY <1>1
<1>3. {data[i] : i \in I} \subseteq heap
  BY <1>1
<1>4. misfreed \in BOOLEAN
  BY DEF IInv, TypeOK
<1> QED  BY <1>2, <1>3, <1>4 DEF Destroy

(* Everything but the owners, for a step that does not grow the list. *)
LEMMA ShorterInv ==
  ASSUME IInv, ~overrun,
         UNCHANGED <<cap, max_elements, max_bytes, overrun>>,
         data' \in [0 .. cap - 1 -> Pointers],
         len' \in Nat, len' <= len,
         heap' \subseteq heap, given' \subseteq Strings,
         freed' \in BOOLEAN, misfreed' = misfreed,
         Owned(data', len', heap', given')
  PROVE  IInv'
<1>1. heap' \subseteq Strings /\ len <= cap /\ len \in Nat /\ cap \in Nat
  BY StateFacts
<1>2. TypeOK'
  BY <1>1 DEF IInv, TypeOK
<1>3. ArrayWithinBytes' /\ OverrunOnlyByBytes'
  BY DEF IInv, ArrayWithinBytes, OverrunOnlyByBytes
<1>4. CountRespected' /\ InRoom'
  BY <1>1, StateFacts DEF IInv, TypeOK, CountRespected, InRoom
<1>5. OwnedOnce' /\ NothingFreedTwice'
  BY DEF OwnedOnce, Owned, Cells, NothingFreedTwice, IInv
<1> QED  BY <1>2, <1>3, <1>4, <1>5 DEF IInv

(* push and add: the list grows by one, in an array that grew first. *)
LEMMA StoreInv ==
  ASSUME IInv, ~overrun, NEW op, NEW i \in 0 .. len, NEW s \in Strings \ heap,
         NEW g \in EnsureCapFor(len + 1), g.result = "ok", Store(op, i, s, g.cap)
  PROVE  IInv'
<1> DEFINE new == g.cap
<1>0. /\ len \in Nat /\ cap \in Nat /\ len <= cap
      /\ max_elements \in Nat /\ max_bytes \in Nat
      /\ data \in [0 .. cap - 1 -> Pointers]
      /\ Owned(data, len, heap, given)
      /\ heap \subseteq Strings /\ given \subseteq heap
  BY StateFacts
<1>1. /\ new \in Nat /\ cap <= new /\ new * ElemSize <= max_bytes
      /\ len + 1 <= max_elements
      /\ len + 1 <= new \/ max_bytes < max_elements * ElemSize
  <2>1. TypeOK /\ ArrayWithinBytes /\ len + 1 \in Nat
    BY <1>0 DEF IInv
  <2> QED  BY <2>1, EnsureFacts
<1>2. /\ Realloc(new) \in [0 .. new - 1 -> Pointers]
      /\ \A j \in 0 .. cap - 1 : Realloc(new)[j] = data[j]
  BY <1>1, ReallocFacts DEF IInv
<1> HIDE DEF new
<1> DEFINE moved == ShiftUp(Realloc(new), i)
<1>3. /\ data' = [j \in 0 .. new - 1 |-> IF j = i THEN s ELSE moved[j]]
      /\ overrun' = (len >= new)
      /\ cap' = new
      /\ len' = len + 1
      /\ heap' = heap \cup {s}
      /\ UNCHANGED <<max_elements, max_bytes, given, freed, misfreed>>
  BY DEF Store, new, limits
<1>4. \A j \in 0 .. new - 1 :
        moved[j] = IF i < j /\ j <= len THEN Realloc(new)[j - 1] ELSE Realloc(new)[j]
  BY <1>2 DEF ShiftUp
<1> HIDE DEF moved
<1>5. data' \in [0 .. new - 1 -> Pointers]
  <2>1. \A j \in 0 .. new - 1 : i < j => j - 1 \in 0 .. new - 1
    BY <1>0, <1>1
  <2>2. \A j \in 0 .. new - 1 : moved[j] \in Pointers
    BY <1>2, <1>4, <2>1
  <2>3. s \in Pointers
    BY DEF Pointers
  <2> QED  BY <1>3, <2>2, <2>3
<1>6. TypeOK'
  <2>1. (len >= new) \in BOOLEAN
    OBVIOUS
  <2> QED  BY <1>0, <1>1, <1>3, <1>5, <2>1 DEF IInv, TypeOK
<1>r. overrun' <=> len >= new
  <2>1. overrun' = (len >= new)
    BY <1>3
  <2> QED  BY <2>1, Zenon
<1>7. ArrayWithinBytes' /\ CountRespected' /\ InRoom' /\ NothingFreedTwice'
  <2>1. ArrayWithinBytes' /\ CountRespected'
    BY <1>1, <1>3 DEF ArrayWithinBytes, CountRespected
  <2>2. InRoom'
    BY <1>0, <1>1, <1>3, <1>r DEF InRoom
  <2>3. NothingFreedTwice'
    BY <1>3 DEF IInv, NothingFreedTwice
  <2> QED  BY <2>1, <2>2, <2>3
<1>8. OverrunOnlyByBytes'
  <2>1. overrun' => ~(len + 1 <= new)
    BY <1>0, <1>1, <1>r
  <2> QED  BY <1>1, <1>3, <2>1 DEF OverrunOnlyByBytes
<1>9. OwnedOnce'
  <2>1. SUFFICES ASSUME ~overrun'
                 PROVE  Owned(data', len + 1, heap \cup {s}, given)
    BY <1>3 DEF OwnedOnce, Owned, Cells
  <2>2. len < new
    BY <1>0, <1>1, <1>r, <2>1
  <2>3. \A j \in 0 .. len :
          data'[j] = IF j < i THEN data[j] ELSE IF j = i THEN s ELSE data[j - 1]
    <3> TAKE j \in 0 .. len
    <3>1. j \in 0 .. new - 1
      BY <1>0, <1>1, <2>2
    <3>2. data'[j] = IF j = i THEN s ELSE moved[j]
      BY <1>3, <3>1
    <3>3. CASE j = i
      BY <1>0, <3>2, <3>3
    <3>4. CASE j < i
      <4>1. j \in 0 .. cap - 1 /\ ~(i < j) /\ j # i
        BY <1>0, <3>4
      <4> QED  BY <1>2, <1>4, <3>1, <3>2, <3>4, <4>1
    <3>5. CASE i < j
      <4>1. j - 1 \in 0 .. cap - 1 /\ j <= len /\ ~(j < i) /\ j # i
        BY <1>0, <3>5
      <4> QED  BY <1>2, <1>4, <3>1, <3>2, <3>5, <4>1
    <3> QED  BY <1>0, <3>3, <3>4, <3>5
  <2> QED  BY <1>0, <2>3, OwnedPut
<1> QED  BY <1>6, <1>7, <1>8, <1>9 DEF IInv

LEMMA InsertInv ==
  ASSUME IInv, NEW op, NEW i \in Nat, Insert(op, i)
  PROVE  IInv'
<1>1. ~overrun
  BY DEF Insert, InUse
<1>2. CASE \E why : Refuse(op, why)
  BY <1>2, RefuseInv
<1>3. CASE /\ i <= len
           /\ \E g \in EnsureCapFor(len + 1) :
                /\ g.result = "ok"
                /\ \E s \in Strings \ heap : Store(op, i, s, g.cap)
  <2>1. i \in 0 .. len
    BY <1>1, <1>3, StateFacts
  <2> QED  BY <1>1, <1>3, <2>1, StoreInv
<1> QED  BY <1>2, <1>3 DEF Insert

LEMMA RemoveAtInv ==
  ASSUME IInv, NEW i \in Nat, RemoveAt(i)
  PROVE  IInv'
<1>1. ~overrun
  BY DEF RemoveAt, InUse
<1>2. CASE Refuse("remove_at", "range")
  BY <1>2, RefuseInv
<1>3. CASE ~Refuse("remove_at", "range")
  <2>0. /\ len \in Nat /\ cap \in Nat /\ len <= cap
        /\ data \in [0 .. cap - 1 -> Pointers]
        /\ Owned(data, len, heap, given)
        /\ given \subseteq Strings
    BY <1>1, StateFacts
  <2>1. /\ i < len
        /\ Destroy(data, {i}, heap)
        /\ data' = ShiftDown(Nulled(data, {i}), i)
        /\ len' = len - 1
        /\ UNCHANGED <<cap, max_elements, max_bytes, given, freed, overrun>>
    BY <1>3 DEF RemoveAt, limits
  <2>2. {i} \in SUBSET (0 .. len - 1) /\ i \in 0 .. len - 1
    BY <2>0, <2>1
  <2>3. heap' = heap \ {data[i]} /\ misfreed' = misfreed
    <3>1. heap' = heap \ {data[k] : k \in {i}} /\ misfreed' = misfreed
      BY <1>1, <2>1, <2>2, DestroyFacts
    <3>2. {data[k] : k \in {i}} = {data[i]}
      OBVIOUS
    <3> QED  BY <3>1, <3>2
  <2>4. Nulled(data, {i}) = [j \in 0 .. cap - 1 |-> IF j = i THEN Null ELSE data[j]]
    BY <2>0 DEF Nulled
  <2>5. data' = [j \in 0 .. cap - 1 |-> IF i <= j /\ j < len - 1
                                         THEN Nulled(data, {i})[j + 1]
                                         ELSE Nulled(data, {i})[j]]
    BY <2>1, <2>4 DEF ShiftDown
  <2>6. \A j \in 0 .. cap - 1 : j < len - 1 => j + 1 \in 0 .. cap - 1
    BY <2>0
  <2>7. data' \in [0 .. cap - 1 -> Pointers]
    <3>1. \A j \in 0 .. cap - 1 : Nulled(data, {i})[j] \in Pointers
      BY <2>0, <2>4 DEF Pointers
    <3> QED  BY <2>5, <2>6, <3>1
  <2>8. \A j \in 0 .. len - 2 : data'[j] = IF j < i THEN data[j] ELSE data[j + 1]
    <3> TAKE j \in 0 .. len - 2
    <3>1. j \in 0 .. cap - 1 /\ j + 1 \in 0 .. cap - 1 /\ j < len - 1
      BY <2>0
    <3>2. CASE j < i
      BY <2>0, <2>4, <2>5, <3>1, <3>2
    <3>3. CASE ~(j < i)
      <4>1. i <= j /\ j + 1 # i
        BY <3>1, <3>3
      <4> QED  BY <2>0, <2>4, <2>5, <3>1, <3>3, <4>1
    <3> QED  BY <3>2, <3>3
  <2>9. Owned(data', len - 1, heap', given')
    BY <2>0, <2>1, <2>2, <2>3, <2>8, OwnedCut
  <2>10. len - 1 \in Nat /\ len - 1 <= len
    BY <2>0, <2>2
  <2>11. freed' \in BOOLEAN
    BY <2>1 DEF IInv, TypeOK
  <2> QED  BY <1>1, <2>0, <2>1, <2>3, <2>7, <2>9, <2>10, <2>11, ShorterInv
<1> QED  BY <1>2, <1>3

(* Clearing cells leaves an array of the same size and the other cells. *)
LEMMA NulledFacts ==
  ASSUME data \in [0 .. cap - 1 -> Pointers], NEW I
  PROVE  /\ Nulled(data, I) \in [0 .. cap - 1 -> Pointers]
         /\ \A j \in 0 .. cap - 1 :
              Nulled(data, I)[j] = IF j \in I THEN Null ELSE data[j]
<1>1. Nulled(data, I) = [j \in 0 .. cap - 1 |-> IF j \in I THEN Null ELSE data[j]]
  BY DEF Nulled
<1> QED  BY <1>1 DEF Pointers

(* resize to less, remove_all, pop without out: the cells from n on go. *)
LEMMA CutInv ==
  ASSUME IInv, ~overrun, NEW n \in 0 .. len,
         Destroy(data, n .. len - 1, heap),
         data' = Nulled(data, n .. len - 1),
         len' = n,
         UNCHANGED <<cap, max_elements, max_bytes, given, freed, overrun>>
  PROVE  IInv'
<1>0. /\ len \in Nat /\ cap \in Nat /\ len <= cap
      /\ data \in [0 .. cap - 1 -> Pointers]
      /\ Owned(data, len, heap, given)
      /\ given \subseteq Strings /\ freed \in BOOLEAN
  BY StateFacts DEF IInv, TypeOK
<1>1. n .. len - 1 \in SUBSET (0 .. len - 1)
  BY <1>0
<1>2. heap' = heap \ {data[i] : i \in n .. len - 1} /\ misfreed' = misfreed
  BY <1>1, DestroyFacts
<1>3. data' \in [0 .. cap - 1 -> Pointers]
  BY <1>0, NulledFacts
<1>4. \A j \in 0 .. n - 1 : data'[j] = data[j]
  <2> TAKE j \in 0 .. n - 1
  <2>1. j \in 0 .. cap - 1 /\ j \notin n .. len - 1
    BY <1>0
  <2> QED  BY <1>0, <2>1, NulledFacts
<1>5. Owned(data', n, heap', given')
  BY <1>0, <1>2, <1>4, OwnedTruncate
<1>6. n \in Nat /\ n <= len
  BY <1>0
<1> QED  BY <1>0, <1>2, <1>3, <1>5, <1>6, ShorterInv

LEMMA ShrinkInv ==
  ASSUME IInv, NEW op, NEW n \in Nat, Shrink(op, n)
  PROVE  IInv'
<1>1. ~overrun /\ n <= len
  BY DEF Shrink, InUse
<1>2. n \in 0 .. len
  BY <1>1, StateFacts
<1> QED  BY <1>1, <1>2, CutInv DEF Shrink, limits

LEMMA PopFreeInv == IInv /\ PopFree => IInv'
<1> SUFFICES ASSUME IInv, PopFree PROVE IInv'
  OBVIOUS
<1>1. ~overrun /\ len \in Nat /\ len > 0
  BY StateFacts DEF PopFree, InUse
<1>2. {len - 1} = (len - 1) .. len - 1 /\ len - 1 \in 0 .. len
  BY <1>1
<1> DEFINE n == len - 1
<1>3. /\ Destroy(data, n .. len - 1, heap)
      /\ data' = Nulled(data, n .. len - 1)
      /\ len' = n
      /\ UNCHANGED <<cap, max_elements, max_bytes, given, freed, overrun>>
  BY <1>2 DEF PopFree, limits
<1>4. n \in 0 .. len
  BY <1>2
<1> HIDE DEF n
<1> QED  BY <1>1, <1>3, <1>4, CutInv

(* pop with out: the last string changes hands and its cell is cleared. *)
LEMMA PopOutInv == IInv /\ PopOut => IInv'
<1> SUFFICES ASSUME IInv, PopOut PROVE IInv'
  OBVIOUS
<1>0. /\ ~overrun /\ len \in Nat /\ len > 0 /\ cap \in Nat /\ len <= cap
      /\ data \in [0 .. cap - 1 -> Pointers]
      /\ Owned(data, len, heap, given)
      /\ heap \subseteq Strings /\ given \subseteq Strings /\ freed \in BOOLEAN
      /\ misfreed \in BOOLEAN
  BY StateFacts DEF PopOut, InUse, IInv, TypeOK
<1> DEFINE cleared == Nulled(data, {len - 1})
<1>1. /\ given' = given \cup {data[len - 1]}
      /\ Destroy(cleared, {len - 1}, heap)
      /\ data' = cleared
      /\ len' = len - 1
      /\ UNCHANGED <<cap, max_elements, max_bytes, freed, overrun>>
  BY DEF PopOut, limits
<1>2. /\ cleared \in [0 .. cap - 1 -> Pointers]
      /\ \A j \in 0 .. cap - 1 : cleared[j] = IF j = len - 1 THEN Null ELSE data[j]
  BY <1>0, NulledFacts
<1> HIDE DEF cleared
<1>3. heap' = heap /\ misfreed' = misfreed
  <2>1. cleared[len - 1] = Null
    BY <1>0, <1>2
  <2>2. {cleared[i] : i \in {len - 1}} \ {Null} = {}
    BY <2>1
  <2> QED  BY <1>0, <1>1, <2>2 DEF Destroy
<1>4. \A j \in 0 .. len - 2 : data'[j] = data[j]
  <2> TAKE j \in 0 .. len - 2
  <2>1. j \in 0 .. cap - 1 /\ j # len - 1
    BY <1>0
  <2> QED  BY <1>1, <1>2, <2>1
<1>5. Owned(data', len - 1, heap', given')
  <2>1. len \in Nat \ {0}
    BY <1>0
  <2>2. Owned(data', len - 1, heap, given \cup {data[len - 1]})
    BY <1>0, <1>4, <2>1, OwnedHand
  <2> QED  BY <1>1, <1>3, <2>2
<1>6. data[len - 1] \in Strings
  BY <1>0 DEF Owned
<1>7. given' \subseteq Strings /\ heap' \subseteq heap /\ len - 1 \in Nat /\ len - 1 <= len
  BY <1>0, <1>1, <1>3, <1>6
<1> QED  BY <1>0, <1>1, <1>2, <1>3, <1>5, <1>7, ShorterInv

LEMMA FreeInv == IInv /\ Free => IInv'
<1> SUFFICES ASSUME IInv, Free PROVE IInv'
  OBVIOUS
<1>0. /\ ~overrun /\ len \in Nat /\ cap \in Nat
      /\ Owned(data, len, heap, given)
      /\ heap \subseteq Strings /\ given \subseteq Strings
      /\ ElemSize \in Nat /\ max_elements \in Nat /\ max_bytes \in Nat
  BY StateFacts DEF Free, InUse, IInv, TypeOK
<1>1. /\ Destroy(data, 0 .. len - 1, heap)
      /\ data' = [i \in {} |-> Junk]
      /\ len' = 0 /\ cap' = 0 /\ freed' = TRUE
      /\ UNCHANGED <<max_elements, max_bytes, given, overrun>>
  BY DEF Free, limits
<1>2. heap' = heap \ {data[i] : i \in 0 .. len - 1} /\ misfreed' = misfreed
  BY <1>0, <1>1, DestroyFacts
<1>3. Owned(data', 0, heap', given')
  <2>1. 0 \in 0 .. len /\ 0 .. 0 - 1 = {}
    BY <1>0
  <2>2. \A j \in 0 .. 0 - 1 : data'[j] = data[j]
    BY <2>1
  <2>3. Owned(data', 0, heap \ {data[i] : i \in 0 .. len - 1}, given)
    BY <1>0, <2>1, <2>2, OwnedTruncate
  <2>4. given' = given
    BY <1>1
  <2> QED  BY <1>2, <2>3, <2>4
<1>4. data' \in [0 .. 0 - 1 -> Pointers]
  BY <1>1
<1>5. TypeOK'
  BY <1>0, <1>1, <1>2, <1>4 DEF IInv, TypeOK
<1>6. ArrayWithinBytes' /\ CountRespected' /\ OverrunOnlyByBytes' /\ InRoom'
  BY <1>0, <1>1 DEF ArrayWithinBytes, CountRespected, OverrunOnlyByBytes, InRoom
<1>7. OwnedOnce' /\ NothingFreedTwice'
  BY <1>1, <1>2, <1>3 DEF OwnedOnce, Owned, Cells, NothingFreedTwice, IInv
<1> QED  BY <1>5, <1>6, <1>7 DEF IInv

LEMMA CallerFreesInv ==
  ASSUME IInv, NEW s \in Strings, CallerFrees(s)
  PROVE  IInv'
<1>0. /\ ~overrun /\ len \in Nat
      /\ data \in [0 .. cap - 1 -> Pointers]
      /\ Owned(data, len, heap, given)
      /\ given \subseteq heap /\ given \subseteq Strings /\ s \in given
      /\ freed \in BOOLEAN /\ misfreed \in BOOLEAN
  BY StateFacts DEF CallerFrees, IInv, TypeOK
<1>1. /\ given' = given \ {s} /\ heap' = heap \ {s} /\ misfreed' = misfreed
      /\ UNCHANGED <<data, len, cap, max_elements, max_bytes, freed, overrun>>
  BY <1>0 DEF CallerFrees, limits
<1>2. Owned(data, len, heap \ {s}, given \ {s})
  BY <1>0 DEF Owned
<1> QED  BY <1>0, <1>1, <1>2, ShorterInv

LEMMA SetLimitsInv ==
  ASSUME IInv, NEW e \in CountLimits \cup {0}, NEW b \in ByteLimits \cup {0},
         SetLimits(e, b)
  PROVE  IInv'
<1> DEFINE count == IF e = 0 THEN max_elements ELSE e
           bytes == IF b = 0 THEN max_bytes ELSE b
<1>1. CASE Refuse("set_limits", "limit")
  BY <1>1, RefuseInv
<1>2. CASE /\ len <= count /\ cap * ElemSize <= bytes
           /\ max_elements' = count /\ max_bytes' = bytes
           /\ UNCHANGED <<data, len, cap, memory, freed, overrun>>
  <2>1. count \in CountLimits /\ bytes \in ByteLimits
    BY DEF IInv, TypeOK
  <2>2. TypeOK'
    BY <1>2, <2>1 DEF IInv, TypeOK, memory
  <2>3. ~overrun
    BY DEF SetLimits, InUse
  <2>4. /\ ArrayWithinBytes' /\ CountRespected' /\ OverrunOnlyByBytes' /\ InRoom'
    BY <1>2, <2>3
       DEF IInv, ArrayWithinBytes, CountRespected, OverrunOnlyByBytes, InRoom
  <2>5. OwnedOnce' /\ NothingFreedTwice'
    BY <1>2 DEF IInv, OwnedOnce, Cells, NothingFreedTwice, memory
  <2> QED  BY <2>2, <2>4, <2>5 DEF IInv
<1> QED  BY <1>1, <1>2 DEF SetLimits

LEMMA ReserveInv ==
  ASSUME IInv, NEW n \in Nat, Reserve(n)
  PROVE  IInv'
<1>0. /\ ~overrun /\ len \in Nat /\ cap \in Nat /\ len <= cap
      /\ data \in [0 .. cap - 1 -> Pointers]
  BY StateFacts DEF Reserve, InUse
<1>1. PICK g \in GrowTo(n) : cap' = g.cap /\ data' = Realloc(g.cap)
  BY DEF Reserve
<1>2. UNCHANGED <<len, max_elements, max_bytes, heap, given, misfreed, freed, overrun>>
  BY DEF Reserve, limits, memory
<1>3. g.cap \in Nat /\ cap <= g.cap /\ g.cap * ElemSize <= max_bytes
  BY GrowToFacts DEF IInv
<1>4. /\ data' \in [0 .. cap' - 1 -> Pointers]
      /\ \A i \in 0 .. cap - 1 : data'[i] = data[i]
  BY <1>1, <1>3, ReallocFacts DEF IInv
<1>5. \A i \in 0 .. len - 1 : data'[i] = data[i]
  BY <1>0, <1>4
<1>6. TypeOK'
  BY <1>0, <1>1, <1>2, <1>3, <1>4 DEF IInv, TypeOK
<1>7. ArrayWithinBytes' /\ CountRespected' /\ OverrunOnlyByBytes' /\ InRoom'
  BY <1>0, <1>1, <1>2, <1>3
     DEF IInv, ArrayWithinBytes, CountRespected, OverrunOnlyByBytes, InRoom
<1>8. Cells' = Cells
  BY <1>2, <1>5 DEF Cells
<1>9. OwnedOnce' /\ NothingFreedTwice'
  BY <1>2, <1>5, <1>8 DEF IInv, OwnedOnce, NothingFreedTwice
<1> QED  BY <1>6, <1>7, <1>9 DEF IInv

(* What a resize to more changes besides cells and strings. *)
LEMMA GrownInv ==
  ASSUME IInv, ~overrun, NEW n \in Nat, n > len,
         NEW g \in EnsureCapFor(n), g.result = "ok",
         cap' = g.cap,
         UNCHANGED <<max_elements, max_bytes, given, freed>>,
         misfreed' = misfreed,
         data' \in [0 .. g.cap - 1 -> Pointers],
         heap' \subseteq Strings,
         len' \in Nat, len' <= n,
         \/ overrun' /\ n > g.cap
         \/ ~overrun' /\ n <= g.cap /\ overrun' = overrun
            /\ Owned(data', len', heap', given')
  PROVE  IInv'
<1>0. /\ len \in Nat /\ cap \in Nat /\ max_elements \in Nat /\ max_bytes \in Nat
  BY StateFacts
<1>1. /\ g.cap \in Nat /\ g.cap * ElemSize <= max_bytes /\ n <= max_elements
      /\ n <= g.cap \/ max_bytes < max_elements * ElemSize
  BY EnsureFacts DEF IInv
<1>2. overrun' \in BOOLEAN
  BY DEF IInv, TypeOK
<1> QED
  <2>1. TypeOK'
    BY <1>1, <1>2 DEF IInv, TypeOK
  <2>2. ArrayWithinBytes' /\ CountRespected' /\ InRoom'
    BY <1>0, <1>1 DEF ArrayWithinBytes, CountRespected, InRoom
  <2>3. OverrunOnlyByBytes'
    BY <1>0, <1>1 DEF OverrunOnlyByBytes
  <2>4. OwnedOnce' /\ NothingFreedTwice'
    BY DEF OwnedOnce, Owned, Cells, NothingFreedTwice, IInv
  <2> QED  BY <2>1, <2>2, <2>3, <2>4 DEF IInv

(* The array of a resize after its cells up to k were filled with f. *)
LEMMA FilledFacts ==
  ASSUME IInv, ~overrun, NEW n \in Nat, NEW new \in Nat, cap <= new, n <= new, len < n,
         NEW k \in len .. n, NEW f \in FreshStrings(k)
  PROVE  /\ Filled(n, new, f) \in [0 .. new - 1 -> Pointers]
         /\ \A j \in 0 .. len - 1 : Filled(n, new, f)[j] = data[j]
         /\ \A j \in len .. k - 1 : Filled(n, new, f)[j] = f[j]
         /\ \A j \in k .. n - 1 : Filled(n, new, f)[j] = Null
         /\ \A j \in len .. k - 1 : f[j] \in Strings \ heap
         /\ \A i, j \in len .. k - 1 : f[i] = f[j] => i = j
         /\ DOMAIN f = len .. k - 1
<1>0. /\ len \in Nat /\ cap \in Nat /\ len <= cap
      /\ data \in [0 .. cap - 1 -> Pointers]
  BY StateFacts
<1>1. /\ f \in [len .. k - 1 -> Strings \ heap]
      /\ \A i, j \in len .. k - 1 : f[i] = f[j] => i = j
  BY DEF FreshStrings
<1>2. /\ Realloc(new) \in [0 .. new - 1 -> Pointers]
      /\ \A j \in 0 .. cap - 1 : Realloc(new)[j] = data[j]
  BY ReallocFacts DEF IInv
<1>3. Filled(n, new, f) =
        [j \in 0 .. new - 1 |-> IF j \in len .. k - 1 THEN f[j]
                               ELSE IF len <= j /\ j < n THEN Null
                               ELSE Realloc(new)[j]]
  <2>1. DOMAIN f = len .. k - 1
    BY <1>1
  <2> QED  BY <2>1 DEF Filled
<1>4. \A j \in 0 .. new - 1 :
        Filled(n, new, f)[j] = IF j \in len .. k - 1 THEN f[j]
                               ELSE IF len <= j /\ j < n THEN Null
                               ELSE Realloc(new)[j]
  BY <1>3
<1>5. Filled(n, new, f) \in [0 .. new - 1 -> Pointers]
  BY <1>1, <1>2, <1>3 DEF Pointers
<1>6. \A j \in 0 .. len - 1 : Filled(n, new, f)[j] = data[j]
  <2> TAKE j \in 0 .. len - 1
  <2>1. j \in 0 .. new - 1 /\ j \in 0 .. cap - 1 /\ ~(len <= j) /\ j \notin len .. k - 1
    BY <1>0
  <2> QED  BY <1>2, <1>4, <2>1
<1>7. \A j \in len .. n - 1 : j \in 0 .. new - 1
  BY <1>0
<1>8. \A j \in len .. k - 1 : j \in len .. n - 1
  BY <1>0
<1>9. \A j \in k .. n - 1 : j \in len .. n - 1 /\ j \notin len .. k - 1 /\ len <= j /\ j < n
  BY <1>0
<1> QED  BY <1>1, <1>4, <1>5, <1>6, <1>7, <1>8, <1>9

LEMMA AllFilledFacts ==
  ASSUME IInv, ~overrun, NEW n \in Nat, NEW new \in Nat, cap <= new, n <= new, len < n,
         NEW f \in FreshStrings(n)
  PROVE  /\ Filled(n, new, f) \in [0 .. new - 1 -> Pointers]
         /\ \A j \in 0 .. len - 1 : Filled(n, new, f)[j] = data[j]
         /\ \A j \in len .. n - 1 : Filled(n, new, f)[j] = f[j]
         /\ \A j \in len .. n - 1 : f[j] \in Strings \ heap
         /\ \A i, j \in len .. n - 1 : f[i] = f[j] => i = j
         /\ DOMAIN f = len .. n - 1
<1>1. len \in Nat
  BY StateFacts
<1>2. n \in len .. n
  BY <1>1
<1> QED  BY <1>2, FilledFacts

LEMMA FillInv ==
  ASSUME IInv, ~overrun, NEW n \in Nat, n > len,
         NEW g \in EnsureCapFor(n), g.result = "ok", n <= g.cap,
         cap' = g.cap, Fill(n, g.cap),
         UNCHANGED <<max_elements, max_bytes, given, freed, overrun>>
  PROVE  IInv'
<1> DEFINE new == g.cap
<1>0. /\ len \in Nat /\ new \in Nat /\ cap <= new
      /\ Owned(data, len, heap, given) /\ heap \subseteq Strings
  BY StateFacts, EnsureFacts DEF IInv
<1>1. PICK f \in FreshStrings(n) :
        /\ data' = Filled(n, new, f)
        /\ heap' = heap \cup {f[j] : j \in DOMAIN f}
        /\ len' = n
        /\ UNCHANGED misfreed
  BY DEF Fill
<1>2. n \in len .. n /\ n <= new /\ len < n
  BY <1>0
<1> HIDE DEF new
<1>f. /\ Filled(n, new, f) \in [0 .. new - 1 -> Pointers]
      /\ \A j \in 0 .. len - 1 : Filled(n, new, f)[j] = data[j]
      /\ \A j \in len .. n - 1 : Filled(n, new, f)[j] = f[j]
      /\ \A j \in len .. n - 1 : f[j] \in Strings \ heap
      /\ \A i, j \in len .. n - 1 : f[i] = f[j] => i = j
      /\ DOMAIN f = len .. n - 1
  BY <1>0, <1>2, AllFilledFacts
<1>3. /\ data' \in [0 .. new - 1 -> Pointers]
      /\ \A j \in 0 .. len - 1 : data'[j] = data[j]
      /\ \A j \in len .. n - 1 : data'[j] = f[j]
      /\ \A j \in len .. n - 1 : f[j] \in Strings \ heap
      /\ \A i, j \in len .. n - 1 : f[i] = f[j] => i = j
      /\ DOMAIN f = len .. n - 1
  BY <1>1, <1>f
<1>4. Owned(data', n, heap', given)
  <2>1. /\ len <= n
        /\ \A j \in len .. n - 1 : data'[j] \notin heap
        /\ \A i, j \in len .. n - 1 : data'[i] = data'[j] => i = j
    BY <1>0, <1>2, <1>3
  <2>2. \A x : x \in heap' <=> x \in heap \/ \E j \in len .. n - 1 : x = data'[j]
    BY <1>1, <1>3
  <2> QED  BY <1>0, <1>3, <2>1, <2>2, OwnedExtend
<1>5. Owned(data', len', heap', given')
  BY <1>1, <1>4
<1>6. heap' \subseteq Strings
  BY <1>0, <1>1, <1>3
<1>7. len' \in Nat /\ len' <= n /\ ~overrun'
  BY <1>1
<1> QED  BY <1>1, <1>3, <1>5, <1>6, <1>7, GrownInv DEF new

LEMMA FillFailedInv ==
  ASSUME IInv, ~overrun, NEW n \in Nat, n > len,
         NEW g \in EnsureCapFor(n), g.result = "ok", n <= g.cap,
         cap' = g.cap, FillFailed(n, g.cap),
         UNCHANGED <<max_elements, max_bytes, given, freed, overrun>>
  PROVE  IInv'
<1> DEFINE new == g.cap
<1>0. /\ len \in Nat /\ new \in Nat /\ cap <= new
      /\ Owned(data, len, heap, given) /\ heap \subseteq Strings /\ Null \notin Strings
      /\ misfreed \in BOOLEAN
  BY StateFacts, EnsureFacts, ListAssumption DEF IInv, TypeOK
<1>p. PICK k \in len .. n - 1 : \E f \in FreshStrings(k) :
        /\ Destroy(Filled(n, new, f), len .. n - 1, heap \cup {f[j] : j \in DOMAIN f})
        /\ data' = Nulled(Filled(n, new, f), len .. n - 1)
        /\ UNCHANGED len
  BY DEF FillFailed
<1>1. PICK f \in FreshStrings(k) :
        /\ Destroy(Filled(n, new, f), len .. n - 1, heap \cup {f[j] : j \in DOMAIN f})
        /\ data' = Nulled(Filled(n, new, f), len .. n - 1)
        /\ UNCHANGED len
  BY <1>p
<1> HIDE DEF new
<1> DEFINE filled == Filled(n, new, f)
           F == {f[j] : j \in len .. k - 1}
<1>2. k \in len .. n
  BY <1>0
<1>3. /\ filled \in [0 .. new - 1 -> Pointers]
      /\ \A j \in 0 .. len - 1 : filled[j] = data[j]
      /\ \A j \in len .. k - 1 : filled[j] = f[j]
      /\ \A j \in k .. n - 1 : filled[j] = Null
      /\ \A j \in len .. k - 1 : f[j] \in Strings \ heap
      /\ DOMAIN f = len .. k - 1
  BY <1>0, <1>2, FilledFacts DEF new
<1> HIDE DEF filled
<1>4. {filled[j] : j \in len .. n - 1} \ {Null} = F
  <2>1. \A j \in len .. n - 1 : j \in len .. k - 1 \/ j \in k .. n - 1
    BY <1>0
  <2>2. \A j \in len .. k - 1 : j \in len .. n - 1 /\ filled[j] # Null
    BY <1>0, <1>3
  <2> QED  BY <1>3, <2>1, <2>2
<1>5. heap' = heap /\ misfreed' = misfreed
  <2>1. /\ heap' = (heap \cup F) \ F
        /\ misfreed' = (misfreed \/ ~(F \subseteq heap \cup F))
    BY <1>1, <1>3, <1>4 DEF Destroy, filled
  <2>2. \A x \in F : x \notin heap
    BY <1>3
  <2> QED  BY <1>0, <2>1, <2>2
<1>6. /\ data' \in [0 .. new - 1 -> Pointers]
      /\ \A j \in 0 .. len - 1 : data'[j] = data[j]
  <2>1. data' = [j \in 0 .. new - 1 |-> IF j \in len .. n - 1 THEN Null ELSE filled[j]]
    BY <1>1, <1>3 DEF Nulled, filled
  <2>2. \A j \in 0 .. len - 1 : j \in 0 .. new - 1 /\ j \notin len .. n - 1
    BY <1>0 DEF new
  <2> QED  BY <1>3, <2>1, <2>2 DEF Pointers
<1>7. Owned(data', len, heap, given)
  <2>1. {data'[j] : j \in 0 .. len - 1} = {data[j] : j \in 0 .. len - 1}
    BY <1>6
  <2> QED  BY <1>0, <1>6, <2>1 DEF Owned
<1> QED  BY <1>0, <1>1, <1>5, <1>6, <1>7, GrownInv DEF new

LEMMA GrowInv ==
  ASSUME IInv, NEW n \in Nat, Grow(n)
  PROVE  IInv'
<1>1. ~overrun /\ n > len
  BY DEF Grow, InUse
<1>2. CASE \E why : Refuse("resize", why)
  BY <1>2, RefuseInv
<1>3. CASE ~\E why : Refuse("resize", why)
  <2>1. PICK g \in EnsureCapFor(n) :
          /\ g.result = "ok"
          /\ cap' = g.cap
          /\ \/ n > g.cap /\ Overrun(n, g.cap)
             \/ n <= g.cap /\ UNCHANGED overrun /\ Fill(n, g.cap)
             \/ n <= g.cap /\ UNCHANGED overrun /\ FillFailed(n, g.cap)
          /\ UNCHANGED <<max_elements, max_bytes, given, freed>>
    BY <1>3 DEF Grow, limits
  <2>2. CASE n > g.cap /\ Overrun(n, g.cap)
    <3>1. g.cap \in Nat /\ cap <= g.cap
      BY EnsureFacts DEF IInv
    <3>2. data' \in [0 .. g.cap - 1 -> Pointers]
      BY <2>2, <3>1, ReallocFacts DEF Overrun, IInv
    <3>3. overrun' /\ UNCHANGED <<heap, misfreed>> /\ len' = n /\ heap' \subseteq Strings
      BY <2>2 DEF Overrun, IInv, TypeOK
    <3> QED  BY <1>1, <2>1, <2>2, <3>2, <3>3, GrownInv
  <2>3. CASE n <= g.cap /\ UNCHANGED overrun /\ Fill(n, g.cap)
    BY <1>1, <2>1, <2>3, FillInv
  <2>4. CASE n <= g.cap /\ UNCHANGED overrun /\ FillFailed(n, g.cap)
    BY <1>1, <2>1, <2>4, FillFailedInv
  <2> QED  BY <2>1, <2>2, <2>3, <2>4
<1> QED  BY <1>2, <1>3

LEMMA NextInv == IInv /\ [Next]_vars => IInv'
<1> SUFFICES ASSUME IInv, [Next]_vars PROVE IInv'
  OBVIOUS
<1>0. len \in Nat /\ Sizes \subseteq Nat
  BY ListAssumption DEF IInv, TypeOK
<1>1. CASE Push
  BY <1>0, <1>1, InsertInv DEF Push
<1>2. ASSUME NEW i \in 0 .. len + 1, Add(i)
      PROVE  IInv'
  BY <1>0, <1>2, InsertInv DEF Add
<1>3. ASSUME NEW i \in 0 .. len + 1, RemoveAt(i)
      PROVE  IInv'
  BY <1>0, <1>3, RemoveAtInv
<1>4. CASE PopOut \/ PopFree
  BY <1>4, PopOutInv, PopFreeInv
<1>5. CASE PopEmpty
  BY <1>5, RefuseInv DEF PopEmpty
<1>6. ASSUME NEW n \in Sizes, Shrink("shrink", n) \/ Grow(n) \/ Reserve(n)
      PROVE  IInv'
  BY <1>0, <1>6, ShrinkInv, GrowInv, ReserveInv
<1>7. CASE Shrink("remove_all", 0)
  BY <1>7, ShrinkInv
<1>8. ASSUME NEW e \in CountLimits \cup {0}, NEW b \in ByteLimits \cup {0},
             SetLimits(e, b)
      PROVE  IInv'
  BY <1>8, SetLimitsInv
<1>9. CASE Free
  BY <1>9, FreeInv
<1>10. ASSUME NEW s \in Strings, CallerFrees(s)
       PROVE  IInv'
  BY <1>10, CallerFreesInv
<1>11. CASE UNCHANGED vars
  BY <1>11, RefusedInv DEF vars
<1> QED  BY <1>1, <1>2, <1>3, <1>4, <1>5, <1>6, <1>7, <1>8, <1>9, <1>10, <1>11 DEF Next

(* Every reachable list satisfies the inductive invariant. *)
LEMMA AlwaysIInv == Spec => []IInv
BY InitInv, NextInv, PTL DEF Spec

(* The list's fields keep their types. *)
THEOREM ListTypeCorrect == Spec => []TypeOK
<1>1. IInv => TypeOK
  BY DEF IInv
<1> QED  BY <1>1, AlwaysIInv, PTL

(* The array stays within the byte limit and the list within the element    *)
(* limit, whatever the sequence of growth and new limits.                  *)
THEOREM LimitsKept == Spec => []InLimits
<1>1. IInv => InLimits
  BY DEF IInv, InLimits
<1> QED  BY <1>1, AlwaysIInv, PTL

(* A write behind the array needs a byte limit below the element limit.     *)
THEOREM RoomIsThere == Spec => []OverrunOnlyByBytes
<1>1. IInv => OverrunOnlyByBytes
  BY DEF IInv
<1> QED  BY <1>1, AlwaysIInv, PTL

(* Every string allocated has one owner, a cell of the list or the caller,  *)
(* and nothing is freed that is not allocated.                              *)
THEOREM StringsOwned == Spec => []OneOwner
<1>1. IInv => OneOwner
  BY DEF IInv, OneOwner
<1> QED  BY <1>1, AlwaysIInv, PTL

-----------------------------------------------------------------------------
(* List implements StringSeq: each call, up to a write behind the array, is  *)
(* one step of the sequence of strings, or shows nothing.                   *)

(* The contents are a sequence, whatever the array holds. *)
LEMMA ContentsFacts ==
  IInv /\ ~overrun =>
    /\ len \in Nat /\ len <= cap /\ len <= max_elements
    /\ Contents \in Seq(Pointers) /\ Len(Contents) = len
    /\ \A i \in 1 .. len : Contents[i] = data[i - 1]
<1> SUFFICES ASSUME IInv, ~overrun
             PROVE  /\ len \in Nat /\ len <= cap /\ len <= max_elements
                    /\ Contents \in Seq(Pointers) /\ Len(Contents) = len
                    /\ \A i \in 1 .. len : Contents[i] = data[i - 1]
  OBVIOUS
<1>1. /\ len \in Nat /\ cap \in Nat /\ len <= cap /\ len <= max_elements
      /\ data \in [0 .. cap - 1 -> Pointers]
  BY StateFacts DEF IInv, CountRespected
<1>2. ASSUME NEW i \in 1 .. len PROVE data[i - 1] \in Pointers
  <2>1. i - 1 \in 0 .. cap - 1
    BY <1>1
  <2> QED
    BY <1>1, <2>1
<1>3. Contents \in [1 .. len -> Pointers]
  BY <1>2 DEF Contents
<1> QED
  BY <1>1, <1>3, SeqDef, LenProperties DEF Contents

(* What a step leads to, when it did not write behind the array. *)
LEMMA NextContents ==
  (IInv /\ ~overrun)' =>
    /\ len' \in Nat /\ len' <= max_elements'
    /\ Contents' \in Seq(Pointers) /\ Len(Contents') = len'
    /\ \A i \in 1 .. len' : Contents'[i] = data'[i - 1]
<1>1. (IInv /\ ~overrun =>
         /\ len \in Nat /\ len <= cap /\ len <= max_elements
         /\ Contents \in Seq(Pointers) /\ Len(Contents) = len
         /\ \A i \in 1 .. len : Contents[i] = data[i - 1])'
  BY ContentsFacts, PTL
<1> QED
  BY <1>1

-----------------------------------------------------------------------------
(* Sequences, cell by cell. *)

LEMMA SeqPut ==
  ASSUME NEW S, NEW s \in Seq(S), NEW t \in Seq(S), NEW i \in 1 .. Len(s) + 1, NEW x \in S,
         Len(t) = Len(s) + 1,
         \A j \in 1 .. Len(t) :
           t[j] = IF j < i THEN s[j] ELSE IF j = i THEN x ELSE s[j - 1]
  PROVE  t = Promise!InsertAt(s, i, x)
<1> DEFINE a == SubSeq(s, 1, i - 1)
           b == SubSeq(s, i, Len(s))
           n == Len(s)
<1>1. n \in Nat /\ i \in Nat /\ 1 <= i /\ i <= n + 1
  BY LenProperties
<1>2. /\ a \in Seq(S) /\ Len(a) = i - 1
      /\ \A j \in 1 .. i - 1 : a[j] = s[j]
  <2>1. \A j \in 1 .. i - 1 : s[j] \in S /\ 1 + j - 1 = j
    BY <1>1, ElementOfSeq
  <2> QED
    BY <1>1, <2>1, SubSeqProperties
<1>3. /\ b \in Seq(S) /\ Len(b) = n - i + 1
      /\ \A j \in 1 .. n - i + 1 : b[j] = s[i + j - 1]
  <2>1. \A j \in i .. n : s[j] \in S
    BY <1>1, ElementOfSeq
  <2> QED
    BY <1>1, <2>1, SubSeqProperties
<1>4. <<x>> \in Seq(S) /\ Len(<<x>>) = 1 /\ <<x>>[1] = x
  OBVIOUS
<1> HIDE DEF a, b, n
<1> DEFINE c == a \o <<x>>
<1>5. /\ c \in Seq(S) /\ Len(c) = i
      /\ \A j \in 1 .. i : c[j] = IF j <= i - 1 THEN a[j] ELSE <<x>>[j - (i - 1)]
  <2>1. Len(a) + Len(<<x>>) = i
    BY <1>1, <1>2, <1>4
  <2> QED
    BY <1>2, <1>4, <2>1, ConcatProperties
<1> HIDE DEF c
<1>6. /\ c \o b \in Seq(S) /\ Len(c \o b) = n + 1
      /\ \A j \in 1 .. n + 1 : (c \o b)[j] = IF j <= i THEN c[j] ELSE b[j - i]
  <2>1. Len(c) + Len(b) = n + 1 /\ Len(c) = i
    BY <1>1, <1>3, <1>5
  <2>2. /\ c \o b \in Seq(S) /\ Len(c \o b) = Len(c) + Len(b)
        /\ \A j \in 1 .. Len(c) + Len(b) :
             (c \o b)[j] = IF j <= Len(c) THEN c[j] ELSE b[j - Len(c)]
    BY <1>3, <1>5, ConcatProperties
  <2> QED
    BY <2>1, <2>2
<1>7. ASSUME NEW j \in 1 .. n + 1 PROVE t[j] = (c \o b)[j]
  <2>0. t[j] = IF j < i THEN s[j] ELSE IF j = i THEN x ELSE s[j - 1]
    BY DEF n
  <2>1. CASE j < i
    <3>1. j \in 1 .. i - 1 /\ j \in 1 .. i /\ j <= i - 1
      BY <1>1, <2>1
    <3> QED
      BY <1>2, <1>5, <1>6, <2>0, <2>1, <3>1
  <2>2. CASE j = i
    <3>1. j \in 1 .. i /\ j <= i /\ ~(j <= i - 1) /\ j - (i - 1) = 1 /\ ~(j < i)
      BY <1>1, <2>2
    <3>2. t[j] = x /\ c[j] = <<x>>[1]
      BY <1>5, <2>0, <2>2, <3>1
    <3>3. (c \o b)[j] = c[j]
      BY <1>6, <3>1
    <3> QED
      BY <1>4, <3>2, <3>3
  <2>3. CASE i < j
    <3>1. ~(j <= i) /\ ~(j < i) /\ j # i /\ j - i \in 1 .. n - i + 1 /\ i + (j - i) - 1 = j - 1
      BY <1>1, <2>3
    <3> QED
      BY <1>3, <1>6, <2>0, <3>1
  <2>4. j < i \/ j = i \/ i < j
    BY <1>1
  <2> QED
    BY <2>1, <2>2, <2>3, <2>4
<1>8. t = c \o b
  <2>1. Len(t) = n + 1
    BY DEF n
  <2> QED
    BY <1>6, <1>7, <2>1, SeqEqual
<1> QED
  BY <1>8 DEF Promise!InsertAt, a, b, c, n

LEMMA SeqTake ==
  ASSUME NEW S, NEW s \in Seq(S), NEW t \in Seq(S), NEW i \in 1 .. Len(s),
         Len(t) = Len(s) - 1,
         \A j \in 1 .. Len(t) : t[j] = IF j < i THEN s[j] ELSE s[j + 1]
  PROVE  t = Promise!RemoveAt(s, i)
<1> DEFINE a == SubSeq(s, 1, i - 1)
           b == SubSeq(s, i + 1, Len(s))
           n == Len(s)
<1>1. n \in Nat /\ i \in Nat /\ 1 <= i /\ i <= n
  BY LenProperties
<1>2. /\ a \in Seq(S) /\ Len(a) = i - 1
      /\ \A j \in 1 .. i - 1 : a[j] = s[j]
  <2>1. \A j \in 1 .. i - 1 : s[j] \in S /\ 1 + j - 1 = j
    BY <1>1, ElementOfSeq
  <2> QED
    BY <1>1, <2>1, SubSeqProperties
<1>3. /\ b \in Seq(S) /\ Len(b) = n - i
      /\ \A j \in 1 .. n - i : b[j] = s[i + j]
  <2>1. \A j \in i + 1 .. n : s[j] \in S
    BY <1>1, ElementOfSeq
  <2>2. i + 1 \in Int /\ n - (i + 1) + 1 = n - i
        /\ (IF i + 1 <= n THEN n - (i + 1) + 1 ELSE 0) = n - i
    BY <1>1
  <2>3. \A j \in 1 .. n - i : i + 1 + j - 1 = i + j
    BY <1>1
  <2> QED
    BY <1>1, <2>1, <2>2, <2>3, SubSeqProperties
<1> HIDE DEF a, b, n
<1>4. /\ a \o b \in Seq(S) /\ Len(a \o b) = n - 1
      /\ \A j \in 1 .. n - 1 : (a \o b)[j] = IF j <= i - 1 THEN a[j] ELSE b[j - (i - 1)]
  <2>1. Len(a) + Len(b) = n - 1 /\ Len(a) = i - 1
    BY <1>1, <1>2, <1>3
  <2>2. /\ a \o b \in Seq(S) /\ Len(a \o b) = Len(a) + Len(b)
        /\ \A j \in 1 .. Len(a) + Len(b) :
             (a \o b)[j] = IF j <= Len(a) THEN a[j] ELSE b[j - Len(a)]
    BY <1>2, <1>3, ConcatProperties
  <2> QED
    BY <2>1, <2>2
<1>5. ASSUME NEW j \in 1 .. n - 1 PROVE t[j] = (a \o b)[j]
  <2>0. t[j] = IF j < i THEN s[j] ELSE s[j + 1]
    BY DEF n
  <2>1. CASE j < i
    <3>1. j \in 1 .. i - 1 /\ j <= i - 1
      BY <1>1, <2>1
    <3> QED
      BY <1>2, <1>4, <2>0, <2>1, <3>1
  <2>2. CASE ~(j < i)
    <3>1. ~(j <= i - 1) /\ j - (i - 1) \in 1 .. n - i /\ i + (j - (i - 1)) = j + 1
      BY <1>1, <2>2
    <3> QED
      BY <1>3, <1>4, <2>0, <2>2, <3>1
  <2> QED
    BY <2>1, <2>2
<1>6. t = a \o b
  <2>1. Len(t) = n - 1
    BY DEF n
  <2> QED
    BY <1>4, <1>5, <2>1, SeqEqual
<1> QED
  BY <1>6 DEF Promise!RemoveAt, a, b, n

LEMMA SeqCut ==
  ASSUME NEW S, NEW s \in Seq(S), NEW t \in Seq(S), Len(t) <= Len(s),
         \A j \in 1 .. Len(t) : t[j] = s[j]
  PROVE  t = SubSeq(s, 1, Len(t))
<1> DEFINE n == Len(t)
<1>1. n \in Nat /\ Len(s) \in Nat /\ n <= Len(s)
  BY LenProperties
<1>2. \A j \in 1 .. n : s[j] \in S /\ 1 + j - 1 = j
  BY <1>1, ElementOfSeq
<1>3. /\ SubSeq(s, 1, n) \in Seq(S) /\ Len(SubSeq(s, 1, n)) = n
      /\ \A j \in 1 .. n : SubSeq(s, 1, n)[j] = s[j]
  BY <1>1, <1>2, SubSeqProperties
<1> QED
  BY <1>3, SeqEqual

-----------------------------------------------------------------------------
(* The calls. *)

LEMMA Results ==
  ASSUME NEW n, NEW g, g \in EnsureCapFor(n) \/ g \in GrowTo(n)
  PROVE  g.result \in {"ok", "limit", "no_mem"}
<1>1. ASSUME NEW k, g \in GrowTo(k) PROVE g.result \in {"ok", "limit", "no_mem"}
  BY <1>1 DEF GrowTo
<1>2. CASE g \in EnsureCapFor(n)
  BY <1>1, <1>2 DEF EnsureCapFor
<1> QED
  BY <1>1, <1>2

LEMMA RefuseShown ==
  ASSUME NEW op, NEW why, Refuse(op, why),
         \/ op \in {"push", "add", "resize", "reserve"} /\ why \in {"limit", "no_mem"}
         \/ op \in {"add", "remove_at", "pop"} /\ why = "range"
         \/ op = "set_limits" /\ why = "limit"
  PROVE  Promise!Next
<1>1. UNCHANGED <<Contents, max_elements>> /\ last' = [op |-> op, result |-> why]
  BY DEF Refuse, Returns, Contents, limits
<1>2. Promise!Refuse(op, why)
  BY <1>1 DEF Promise!Refuse, Promise!Returns
<1> QED
  BY <1>2 DEF Promise!Next, Promise!Growing, Promise!Ranged

(* The cells after a string was stored at i, in an array that has room. *)
LEMMA StoreCells ==
  ASSUME IInv, ~overrun, NEW op, NEW i \in 0 .. len, NEW s, NEW new \in Nat,
         cap <= new, len < new, Store(op, i, s, new)
  PROVE  \A j \in 0 .. len :
           data'[j] = IF j < i THEN data[j] ELSE IF j = i THEN s ELSE data[j - 1]
<1> DEFINE moved == ShiftUp(Realloc(new), i)
<1>1. /\ len \in Nat /\ cap \in Nat /\ len <= cap
      /\ Realloc(new) \in [0 .. new - 1 -> Pointers]
      /\ \A j \in 0 .. cap - 1 : Realloc(new)[j] = data[j]
  BY StateFacts, ReallocFacts DEF IInv
<1>2. \A j \in 0 .. new - 1 :
        moved[j] = IF i < j /\ j <= len THEN Realloc(new)[j - 1] ELSE Realloc(new)[j]
  BY <1>1 DEF ShiftUp
<1>3. data' = [j \in 0 .. new - 1 |-> IF j = i THEN s ELSE moved[j]]
  BY DEF Store
<1> HIDE DEF moved
<1> TAKE j \in 0 .. len
<1>4. j \in 0 .. new - 1
  BY <1>1
<1>5. data'[j] = IF j = i THEN s ELSE moved[j]
  BY <1>3, <1>4
<1>6. CASE j = i
  BY <1>1, <1>5, <1>6
<1>7. CASE j < i
  <2>1. j \in 0 .. cap - 1 /\ ~(i < j) /\ j # i
    BY <1>1, <1>7
  <2> QED
    BY <1>1, <1>2, <1>4, <1>5, <1>7, <2>1
<1>8. CASE i < j
  <2>1. j - 1 \in 0 .. cap - 1 /\ j <= len /\ ~(j < i) /\ j # i
    BY <1>1, <1>8
  <2> QED
    BY <1>1, <1>2, <1>4, <1>5, <1>8, <2>1
<1> QED
  BY <1>1, <1>6, <1>7, <1>8

LEMMA InsertShown ==
  ASSUME IInv, IInv', NEW op \in {"push", "add"}, NEW i \in Nat, Insert(op, i),
         op = "push" => i = len
  PROVE  overrun' \/ Promise!Next
<1>0. ~overrun /\ len \in Nat /\ cap \in Nat
  BY StateFacts DEF Insert, InUse
<1>1. CASE Refuse(op, "no_mem") \/ (i > len /\ Refuse(op, "range"))
  <2>1. i > len => op = "add"
    BY <1>0
  <2> QED
    BY <1>1, <2>1, RefuseShown
<1>2. CASE \E g \in EnsureCapFor(len + 1) : g.result # "ok" /\ Refuse(op, g.result)
  BY <1>2, Results, RefuseShown
<1>3. ASSUME i <= len, ~overrun',
             NEW g \in EnsureCapFor(len + 1), g.result = "ok",
             NEW s \in Strings \ heap, Store(op, i, s, g.cap)
      PROVE  Promise!Next
  <2>1. /\ len' = len + 1 /\ overrun' = (len >= g.cap) /\ max_elements' = max_elements
        /\ last' = [op |-> op, result |-> "ok"]
    BY <1>3 DEF Store, Returns, limits
  <2>2. g.cap \in Nat /\ cap <= g.cap /\ i \in 0 .. len
    <3>1. TypeOK /\ ArrayWithinBytes /\ len + 1 \in Nat
      BY <1>0 DEF IInv
    <3> QED
      BY <1>0, <1>3, <3>1, EnsureFacts
  <2>3. len < g.cap
    <3>1. ~(len >= g.cap)
      BY <1>3, <2>1, Zenon
    <3> QED
      BY <1>0, <2>2, <3>1
  <2>4. \A j \in 0 .. len :
          data'[j] = IF j < i THEN data[j] ELSE IF j = i THEN s ELSE data[j - 1]
    <3> DEFINE new == g.cap
    <3>1. new \in Nat /\ cap <= new /\ len < new /\ Store(op, i, s, new)
      BY <1>3, <2>2, <2>3
    <3> HIDE DEF new
    <3> QED
      BY <1>0, <2>2, <3>1, StoreCells
  <2>5. /\ Contents \in Seq(Pointers) /\ Len(Contents) = len
        /\ \A j \in 1 .. len : Contents[j] = data[j - 1]
    BY <1>0, ContentsFacts
  <2>6. /\ Contents' \in Seq(Pointers) /\ Len(Contents') = len + 1
        /\ len + 1 <= max_elements
        /\ \A j \in 1 .. len + 1 : Contents'[j] = data'[j - 1]
    <3>1. (IInv /\ ~overrun)'
      BY <1>3
    <3> QED
      BY <2>1, <3>1, NextContents
  <2>7. ASSUME NEW j \in 1 .. len + 1
        PROVE  Contents'[j] = IF j < i + 1 THEN Contents[j]
                              ELSE IF j = i + 1 THEN s ELSE Contents[j - 1]
    <3>1. j - 1 \in 0 .. len /\ i \in Nat
      BY <1>0
    <3>2. Contents'[j] = IF j - 1 < i THEN data[j - 1]
                         ELSE IF j - 1 = i THEN s ELSE data[(j - 1) - 1]
      BY <2>4, <2>6, <3>1
    <3>3. CASE j < i + 1
      <4>1. j \in 1 .. len /\ j - 1 < i
        BY <1>0, <2>2, <3>3
      <4> QED
        BY <2>5, <3>2, <3>3, <4>1
    <3>4. CASE j = i + 1
      <4>1. ~(j - 1 < i) /\ j - 1 = i /\ ~(j < i + 1)
        BY <2>2, <3>4
      <4> QED
        BY <3>2, <3>4, <4>1
    <3>5. CASE i + 1 < j
      <4>1. ~(j - 1 < i) /\ j - 1 # i /\ ~(j < i + 1) /\ j # i + 1 /\ j - 1 \in 1 .. len
        BY <1>0, <2>2, <3>5
      <4> QED
        BY <2>5, <3>2, <4>1
    <3>6. j < i + 1 \/ j = i + 1 \/ i + 1 < j
      BY <2>2
    <3> QED
      BY <3>3, <3>4, <3>5, <3>6
  <2>8. Contents' = Promise!InsertAt(Contents, i + 1, s)
    <3>1. s \in Pointers /\ i + 1 \in 1 .. len + 1
      BY <1>0, <2>2 DEF Pointers
    <3> DEFINE a == Contents
               b == Contents'
               k == i + 1
    <3>2. /\ a \in Seq(Pointers) /\ b \in Seq(Pointers) /\ Len(b) = Len(a) + 1
          /\ k \in 1 .. Len(a) + 1
          /\ \A j \in 1 .. Len(b) :
               b[j] = IF j < k THEN a[j] ELSE IF j = k THEN s ELSE a[j - 1]
      BY <2>5, <2>6, <2>7, <3>1
    <3> HIDE DEF a, b, k
    <3>3. b = Promise!InsertAt(a, k, s)
      BY <3>1, <3>2, SeqPut
    <3> QED
      BY <3>3 DEF a, b, k
  <2>9. i + 1 \in 1 .. Len(Contents) + 1 /\ s \in Strings
    BY <1>0, <2>2, <2>5
  <2>10. Len(Contents) < max_elements
    <3>1. max_elements \in Nat
      BY <1>0, StateFacts
    <3> QED
      BY <1>0, <2>5, <2>6, <3>1
  <2>11. op = "push" => i + 1 = Len(Contents) + 1
    BY <2>5
  <2>12. Promise!Put(op, i + 1, s)
    BY <2>1, <2>8, <2>10, <2>11 DEF Promise!Put, Promise!Returns
  <2> QED
    BY <2>9, <2>12 DEF Promise!Next
<1>4. overrun' \in BOOLEAN
  BY DEF IInv, TypeOK
<1> QED
  BY <1>1, <1>2, <1>3, <1>4 DEF Insert

(* Contents whose first cells stay are cut; contents that grow keep theirs. *)
LEMMA CutShown ==
  ASSUME IInv, ~overrun, (IInv /\ ~overrun)', len' <= len,
         \A j \in 0 .. len' - 1 : data'[j] = data[j]
  PROVE  /\ len' \in 0 .. Len(Contents)
         /\ Contents' = SubSeq(Contents, 1, len')
         /\ len' = len => Contents' = Contents
<1> DEFINE a == Contents
           b == Contents'
           n == len'
<1>1. a \in Seq(Pointers) /\ Len(a) = len /\ \A j \in 1 .. len : a[j] = data[j - 1]
  BY ContentsFacts
<1>2. b \in Seq(Pointers) /\ Len(b) = n /\ \A j \in 1 .. n : b[j] = data'[j - 1]
  BY NextContents
<1>3. len \in Nat /\ n \in Nat /\ n <= len
  BY ContentsFacts, NextContents
<1>4. ASSUME NEW j \in 1 .. n PROVE b[j] = a[j]
  <2>1. j - 1 \in 0 .. n - 1 /\ j \in 1 .. len
    BY <1>3
  <2> QED
    BY <1>1, <1>2, <2>1
<1> HIDE DEF a, b, n
<1>5. b = SubSeq(a, 1, n)
  BY <1>1, <1>2, <1>3, <1>4, SeqCut
<1>6. n = len => b = a
  BY <1>1, <1>2, <1>4, SeqEqual
<1> QED
  BY <1>1, <1>3, <1>5, <1>6 DEF a, b, n

LEMMA RemoveAtShown ==
  ASSUME IInv, IInv', NEW i \in Nat, RemoveAt(i)
  PROVE  Promise!Next
<1>0. /\ ~overrun /\ len \in Nat /\ cap \in Nat /\ len <= cap
      /\ data \in [0 .. cap - 1 -> Pointers]
  BY StateFacts DEF RemoveAt, InUse
<1>1. CASE Refuse("remove_at", "range")
  BY <1>1, RefuseShown
<1>2. CASE ~Refuse("remove_at", "range")
  <2>1. /\ i < len /\ data' = ShiftDown(Nulled(data, {i}), i) /\ len' = len - 1
        /\ UNCHANGED <<max_elements, overrun>>
        /\ last' = [op |-> "remove_at", result |-> "ok"]
    BY <1>2 DEF RemoveAt, Returns, limits
  <2>2. /\ Nulled(data, {i}) \in [0 .. cap - 1 -> Pointers]
        /\ \A j \in 0 .. cap - 1 : Nulled(data, {i})[j] = IF j \in {i} THEN Null ELSE data[j]
    BY <1>0, NulledFacts
  <2> DEFINE nulled == Nulled(data, {i})
  <2>3. data' = [j \in 0 .. cap - 1 |-> IF i <= j /\ j < len - 1 THEN nulled[j + 1]
                                         ELSE nulled[j]]
    BY <2>1, <2>2 DEF ShiftDown
  <2> HIDE DEF nulled
  <2>4. ASSUME NEW j \in 0 .. len - 2
        PROVE  data'[j] = IF j < i THEN data[j] ELSE data[j + 1]
    <3>1. j \in 0 .. cap - 1 /\ j + 1 \in 0 .. cap - 1 /\ j < len - 1
      BY <1>0
    <3>2. data'[j] = IF i <= j THEN nulled[j + 1] ELSE nulled[j]
      BY <2>3, <3>1
    <3>3. CASE j < i
      <4>1. ~(i <= j) /\ j \notin {i}
        BY <3>1, <3>3
      <4> QED
        BY <2>2, <3>1, <3>2, <3>3, <4>1 DEF nulled
    <3>4. CASE ~(j < i)
      <4>1. i <= j /\ j + 1 \notin {i}
        BY <3>1, <3>4
      <4> QED
        BY <2>2, <3>1, <3>2, <3>4, <4>1 DEF nulled
    <3> QED
      BY <3>3, <3>4
  <2> DEFINE a == Contents
             b == Contents'
             k == i + 1
  <2>5. a \in Seq(Pointers) /\ Len(a) = len /\ \A j \in 1 .. len : a[j] = data[j - 1]
    BY <1>0, ContentsFacts
  <2>6. b \in Seq(Pointers) /\ Len(b) = len - 1 /\ \A j \in 1 .. len - 1 : b[j] = data'[j - 1]
    <3>1. (IInv /\ ~overrun)'
      BY <1>0, <2>1
    <3> QED
      BY <2>1, <3>1, NextContents
  <2>7. k \in 1 .. len
    BY <1>0, <2>1
  <2>8. ASSUME NEW j \in 1 .. len - 1
        PROVE  b[j] = IF j < k THEN a[j] ELSE a[j + 1]
    <3>1. j - 1 \in 0 .. len - 2 /\ j \in 1 .. len /\ j + 1 \in 1 .. len
          /\ (j + 1) - 1 = (j - 1) + 1 /\ (j < k <=> j - 1 < i)
      BY <1>0
    <3>2. b[j] = IF j - 1 < i THEN data[j - 1] ELSE data[(j - 1) + 1]
      BY <2>4, <2>6, <3>1
    <3>3. a[j] = data[j - 1] /\ a[j + 1] = data[(j - 1) + 1]
      BY <2>5, <3>1
    <3> QED
      BY <3>1, <3>2, <3>3
  <2> HIDE DEF a, b, k
  <2>9. b = Promise!RemoveAt(a, k) /\ k \in 1 .. Len(a)
    <3>1. \A j \in 1 .. Len(b) : b[j] = IF j < k THEN a[j] ELSE a[j + 1]
      BY <2>6, <2>8
    <3>2. Len(b) = Len(a) - 1 /\ k \in 1 .. Len(a)
      BY <2>5, <2>6, <2>7
    <3> QED
      BY <2>5, <2>6, <3>1, <3>2, SeqTake
  <2>10. Promise!Take("remove_at", k)
    BY <2>1, <2>9 DEF Promise!Take, Promise!Returns, a, b
  <2>11. k \in 1 .. Len(Contents)
    BY <2>9 DEF a
  <2> HIDE DEF Promise!Take
  <2> QED
    BY <2>10, <2>11 DEF Promise!Next
<1> QED
  BY <1>1, <1>2

(* pop, with a place for the string or without. *)
LEMMA PopShown ==
  ASSUME IInv, IInv', PopOut \/ PopFree
  PROVE  Promise!Next
<1>0. /\ ~overrun /\ len \in Nat /\ len > 0 /\ cap \in Nat /\ len <= cap
      /\ data \in [0 .. cap - 1 -> Pointers]
  BY StateFacts DEF PopOut, PopFree, InUse
<1>1. /\ data' = Nulled(data, {len - 1}) /\ len' = len - 1
      /\ UNCHANGED <<max_elements, overrun>> /\ last' = [op |-> "pop", result |-> "ok"]
  BY DEF PopOut, PopFree, Returns, limits
<1>2. \A j \in 0 .. len' - 1 : data'[j] = data[j]
  <2> TAKE j \in 0 .. len' - 1
  <2>1. j \in 0 .. cap - 1 /\ j \notin {len - 1}
    BY <1>0, <1>1
  <2> QED
    BY <1>0, <1>1, <2>1, NulledFacts
<1> DEFINE a == Contents
           b == Contents'
<1>3. a \in Seq(Pointers) /\ Len(a) = len /\ \A j \in 1 .. len : a[j] = data[j - 1]
  BY <1>0, ContentsFacts
<1>4. b \in Seq(Pointers) /\ Len(b) = len - 1 /\ \A j \in 1 .. len - 1 : b[j] = data'[j - 1]
  <2>1. (IInv /\ ~overrun)'
    BY <1>0, <1>1
  <2> QED
    BY <1>1, <2>1, NextContents
<1>5. ASSUME NEW j \in 1 .. len - 1 PROVE j < len /\ b[j] = a[j]
  <2>1. j - 1 \in 0 .. len' - 1 /\ j \in 1 .. len /\ j < len
    BY <1>0, <1>1
  <2> QED
    BY <1>2, <1>3, <1>4, <2>1
<1> HIDE DEF a, b
<1>6. b = Promise!RemoveAt(a, len) /\ len \in 1 .. Len(a) /\ len = Len(a)
  <2>1. len \in 1 .. Len(a)
    BY <1>0, <1>3
  <2>2. \A j \in 1 .. Len(b) : b[j] = IF j < len THEN a[j] ELSE a[j + 1]
    BY <1>4, <1>5
  <2> QED
    BY <1>3, <1>4, <2>1, <2>2, SeqTake
<1>7. Promise!Take("pop", len) /\ len \in 1 .. Len(Contents)
  BY <1>1, <1>6 DEF Promise!Take, Promise!Returns, a, b
<1> HIDE DEF Promise!Take
<1> QED
  BY <1>7 DEF Promise!Next

LEMMA TruncateShown ==
  ASSUME IInv, ~overrun, (IInv /\ ~overrun)', UNCHANGED max_elements,
         NEW op \in {"shrink", "remove_all", "free"},
         op # "shrink" => len' = 0, len' <= len, last' = [op |-> op, result |-> "ok"],
         \A j \in 0 .. len' - 1 : data'[j] = data[j]
  PROVE  Promise!Next
<1> DEFINE n == len'
<1>1. n \in 0 .. Len(Contents) /\ Contents' = SubSeq(Contents, 1, n)
  BY CutShown
<1> HIDE DEF n
<1>2. op \in {"remove_all", "free"} => n = 0
  BY DEF n
<1>3. Promise!Truncate(op, n)
  BY <1>1, <1>2 DEF Promise!Truncate, Promise!Returns
<1> HIDE DEF Promise!Truncate
<1> QED
  BY <1>1, <1>3 DEF Promise!Next

LEMMA ShrinkShown ==
  ASSUME IInv, IInv', NEW op \in {"shrink", "remove_all"}, NEW n \in Nat, Shrink(op, n),
         op = "remove_all" => n = 0
  PROVE  Promise!Next
<1>0. /\ ~overrun /\ len \in Nat /\ cap \in Nat /\ len <= cap
      /\ data \in [0 .. cap - 1 -> Pointers]
  BY StateFacts DEF Shrink, InUse
<1>1. /\ n <= len /\ data' = Nulled(data, n .. len - 1) /\ len' = n
      /\ UNCHANGED <<max_elements, overrun>> /\ last' = [op |-> op, result |-> "ok"]
  BY DEF Shrink, Returns, limits
<1>2. \A j \in 0 .. len' - 1 : data'[j] = data[j]
  <2> TAKE j \in 0 .. len' - 1
  <2>1. j \in 0 .. cap - 1 /\ j \notin n .. len - 1
    BY <1>0, <1>1
  <2> QED
    BY <1>0, <1>1, <2>1, NulledFacts
<1>3. (IInv /\ ~overrun)' /\ (op # "shrink" => len' = 0)
  BY <1>0, <1>1
<1> QED
  BY <1>0, <1>1, <1>2, <1>3, TruncateShown

LEMMA FreeShown ==
  ASSUME IInv, IInv', Free
  PROVE  Promise!Next
<1>1. ~overrun /\ len \in Nat
  BY StateFacts DEF Free, InUse
<1>2. /\ len' = 0 /\ UNCHANGED <<max_elements, overrun>>
      /\ last' = [op |-> "free", result |-> "ok"]
  BY DEF Free, Returns, limits
<1>3. (IInv /\ ~overrun)' /\ len' <= len /\ \A j \in 0 .. len' - 1 : data'[j] = data[j]
  BY <1>1, <1>2
<1> QED
  BY <1>1, <1>2, <1>3, TruncateShown

-----------------------------------------------------------------------------
LEMMA FillShown ==
  ASSUME IInv, ~overrun, (IInv /\ ~overrun)', UNCHANGED max_elements,
         NEW n \in Nat, len < n, NEW new \in Nat, cap <= new, n <= new, Fill(n, new)
  PROVE  Promise!Next
<1>1. PICK f \in FreshStrings(n) :
        /\ data' = Filled(n, new, f) /\ len' = n
        /\ last' = [op |-> "resize", result |-> "ok"]
  BY DEF Fill, Returns
<1>2. \A j \in 0 .. len - 1 : data'[j] = data[j]
  BY <1>1, AllFilledFacts
<1> DEFINE a == Contents
           b == Contents'
<1>3. /\ a \in Seq(Pointers) /\ Len(a) = len /\ \A j \in 1 .. len : a[j] = data[j - 1]
      /\ len \in Nat
  BY ContentsFacts
<1>4. /\ b \in Seq(Pointers) /\ Len(b) = n /\ \A j \in 1 .. n : b[j] = data'[j - 1]
      /\ n <= max_elements
  BY <1>1, NextContents
<1>5. ASSUME NEW j \in 1 .. len PROVE a[j] = b[j]
  <2>1. j - 1 \in 0 .. len - 1 /\ j \in 1 .. n
    BY <1>3
  <2> QED
    BY <1>2, <1>3, <1>4, <2>1
<1> HIDE DEF a, b
<1>6. SubSeq(a, 1, len) = SubSeq(b, 1, len)
  <2>1. \A j \in 1 .. len : a[j] \in Pointers /\ b[j] \in Pointers
        /\ j \in 1 .. len - 1 + 1 /\ 1 + j - 1 = j
    <3> TAKE j \in 1 .. len
    <3>1. a[j] \in Pointers
      BY <1>3, ElementOfSeq
    <3> QED
      BY <1>3, <1>5, <3>1
  <2> DEFINE sa == SubSeq(a, 1, len)
             sb == SubSeq(b, 1, len)
             m == IF 1 <= len THEN len - 1 + 1 ELSE 0
  <2>2. /\ sa \in Seq(Pointers) /\ Len(sa) = m
        /\ \A j \in 1 .. len - 1 + 1 : sa[j] = a[1 + j - 1]
    BY <1>3, <2>1, SubSeqProperties
  <2>3. /\ sb \in Seq(Pointers) /\ Len(sb) = m
        /\ \A j \in 1 .. len - 1 + 1 : sb[j] = b[1 + j - 1]
    BY <1>3, <2>1, SubSeqProperties
  <2>4. m = len
    BY <1>3
  <2> HIDE DEF sa, sb, m
  <2>5. \A j \in 1 .. len : sa[j] = sb[j]
    BY <1>5, <2>1, <2>2, <2>3
  <2>6. sa = sb
    BY <2>2, <2>3, <2>4, <2>5, SeqEqual
  <2> QED
    BY <2>6 DEF sa, sb
<1>7. Promise!IsPrefix(a, b)
  BY <1>3, <1>4, <1>6 DEF Promise!IsPrefix
<1>8. Promise!Extend
  BY <1>1, <1>4, <1>7 DEF Promise!Extend, Promise!Returns, a, b
<1> QED
  BY <1>8 DEF Promise!Next

LEMMA FillFailedShown ==
  ASSUME IInv, ~overrun, (IInv /\ ~overrun)', UNCHANGED max_elements,
         NEW n \in Nat, len < n, NEW new \in Nat, cap <= new, n <= new, FillFailed(n, new)
  PROVE  Promise!Next
<1>1. PICK k \in len .. n - 1 : \E f \in FreshStrings(k) :
        /\ data' = Nulled(Filled(n, new, f), len .. n - 1)
        /\ UNCHANGED len
        /\ last' = [op |-> "resize", result |-> "no_mem"]
  BY DEF FillFailed, Returns
<1>2. PICK f \in FreshStrings(k) : data' = Nulled(Filled(n, new, f), len .. n - 1)
  BY <1>1
<1>3. len \in Nat /\ k \in len .. n
  BY StateFacts
<1>4. /\ Filled(n, new, f) \in [0 .. new - 1 -> Pointers]
      /\ \A j \in 0 .. len - 1 : Filled(n, new, f)[j] = data[j]
  BY <1>3, FilledFacts
<1>5. ASSUME NEW j \in 0 .. len - 1 PROVE data'[j] = data[j]
  <2>1. j \in 0 .. new - 1 /\ j \notin len .. n - 1
    BY <1>3
  <2>2. data' = [i \in 0 .. new - 1 |-> IF i \in len .. n - 1 THEN Null
                                        ELSE Filled(n, new, f)[i]]
    BY <1>2, <1>4 DEF Nulled
  <2> QED
    BY <1>4, <2>1, <2>2
<1>6. Contents' = Contents
  <2>1. len' = len /\ len' <= len
    BY <1>1, <1>3
  <2> QED
    BY <1>5, <2>1, CutShown
<1>7. Promise!Refuse("resize", "no_mem")
  BY <1>1, <1>6 DEF Promise!Refuse, Promise!Returns
<1> QED
  BY <1>7 DEF Promise!Next, Promise!Growing

LEMMA GrowShown ==
  ASSUME IInv, IInv', NEW n \in Nat, Grow(n)
  PROVE  overrun' \/ Promise!Next
<1>1. ~overrun /\ n > len /\ len \in Nat
  BY StateFacts DEF Grow, InUse
<1>2. CASE \E g \in EnsureCapFor(n) : g.result # "ok" /\ Refuse("resize", g.result)
  BY <1>2, Results, RefuseShown
<1>3. ASSUME NEW g \in EnsureCapFor(n),
             \/ n > g.cap /\ Overrun(n, g.cap)
             \/ n <= g.cap /\ UNCHANGED overrun /\ Fill(n, g.cap)
             \/ n <= g.cap /\ UNCHANGED overrun /\ FillFailed(n, g.cap),
             UNCHANGED max_elements
      PROVE  overrun' \/ Promise!Next
  <2> DEFINE new == g.cap
  <2>1. new \in Nat /\ cap <= new /\ len < n
    BY <1>1, EnsureFacts DEF IInv
  <2>2. CASE Overrun(n, new)
    BY <2>2 DEF Overrun
  <2>3. CASE n <= new /\ UNCHANGED overrun /\ (Fill(n, new) \/ FillFailed(n, new))
    <3>1. (IInv /\ ~overrun)'
      BY <1>1, <2>3
    <3> HIDE DEF new
    <3> QED
      BY <1>1, <1>3, <2>1, <2>3, <3>1, FillShown, FillFailedShown
  <2> QED
    BY <1>3, <2>2, <2>3
<1> QED
  BY <1>2, <1>3 DEF Grow, limits

LEMMA ReserveShown ==
  ASSUME IInv, IInv', NEW n \in Nat, Reserve(n)
  PROVE  Promise!Next
<1>0. /\ ~overrun /\ len \in Nat /\ cap \in Nat /\ len <= cap
  BY StateFacts DEF Reserve, InUse
<1>1. PICK g \in GrowTo(n) :
        data' = Realloc(g.cap) /\ last' = [op |-> "reserve", result |-> g.result]
  BY DEF Reserve, Returns
<1>2. UNCHANGED <<len, max_elements, overrun>>
  BY DEF Reserve, limits
<1>3. g.cap \in Nat /\ cap <= g.cap
  BY GrowToFacts DEF IInv
<1>4. \A j \in 0 .. cap - 1 : data'[j] = data[j]
  BY <1>1, <1>3, ReallocFacts DEF IInv
<1>5. Contents' = Contents
  <2>1. (IInv /\ ~overrun)' /\ len' = len /\ len' <= len
    BY <1>0, <1>2
  <2>2. \A j \in 0 .. len' - 1 : data'[j] = data[j]
    BY <1>0, <1>4, <2>1
  <2> QED
    BY <1>0, <2>1, <2>2, CutShown
<1>6. CASE g.result = "ok"
  <2>1. Promise!Reserve
    BY <1>1, <1>2, <1>5, <1>6 DEF Promise!Reserve, Promise!Returns
  <2> QED
    BY <2>1 DEF Promise!Next
<1>7. CASE g.result # "ok"
  <2>1. g.result \in {"limit", "no_mem"}
    BY <1>7, Results
  <2>2. Promise!Refuse("reserve", g.result)
    BY <1>1, <1>2, <1>5 DEF Promise!Refuse, Promise!Returns
  <2> QED
    BY <2>1, <2>2 DEF Promise!Next, Promise!Growing
<1> QED
  BY <1>6, <1>7

LEMMA SetLimitsShown ==
  ASSUME IInv, NEW e, NEW b, SetLimits(e, b)
  PROVE  Promise!Next
<1>1. CASE Refuse("set_limits", "limit")
  BY <1>1, RefuseShown
<1>2. CASE ~Refuse("set_limits", "limit")
  <2>1. /\ ~overrun /\ len <= max_elements' /\ UNCHANGED <<data, len>>
        /\ last' = [op |-> "set_limits", result |-> "ok"]
    BY <1>2 DEF SetLimits, InUse, Returns
  <2>2. Contents' = Contents
    BY <2>1 DEF Contents
  <2>3. Len(Contents) = len /\ len \in Nat
    BY <2>1, ContentsFacts
  <2>4. max_elements' >= Len(Contents)
    BY <2>1, <2>3
  <2>5. Promise!SetLimit
    BY <2>1, <2>2, <2>4 DEF Promise!SetLimit, Promise!Returns
  <2> QED
    BY <2>5 DEF Promise!Next
<1> QED
  BY <1>1, <1>2

-----------------------------------------------------------------------------
LEMMA InitShown == Init => Promise!Init
<1> SUFFICES ASSUME Init PROVE Promise!Init
  OBVIOUS
<1>1. Contents = <<>>
  BY DEF Init, Contents
<1>2. max_elements \in Nat \ {0} /\ last = [op |-> "new", result |-> "ok"]
  BY ListAssumption DEF Init
<1> QED
  BY <1>1, <1>2 DEF Promise!Init

LEMMA NextShown ==
  IInv /\ IInv' /\ [Next]_vars =>
    [overrun' \/ Promise!Next]_<<Contents, max_elements, last>>
<1> SUFFICES ASSUME IInv, IInv', [Next]_vars
             PROVE  overrun' \/ Promise!Next \/ UNCHANGED <<Contents, max_elements, last>>
  OBVIOUS
<1>0. len \in Nat /\ Sizes \subseteq Nat
  BY ListAssumption DEF IInv, TypeOK
<1>1. CASE Push
  BY <1>0, <1>1, InsertShown DEF Push
<1>2. ASSUME NEW i \in 0 .. len + 1, Add(i)
      PROVE  overrun' \/ Promise!Next
  BY <1>0, <1>2, InsertShown DEF Add
<1>3. ASSUME NEW i \in 0 .. len + 1, RemoveAt(i)
      PROVE  Promise!Next
  BY <1>0, <1>3, RemoveAtShown
<1>4. CASE PopOut \/ PopFree
  BY <1>4, PopShown
<1>5. CASE PopEmpty
  BY <1>5, RefuseShown DEF PopEmpty
<1>6. ASSUME NEW n \in Sizes, Shrink("shrink", n) \/ Grow(n) \/ Reserve(n)
      PROVE  overrun' \/ Promise!Next
  BY <1>0, <1>6, ShrinkShown, GrowShown, ReserveShown
<1>7. CASE Shrink("remove_all", 0)
  BY <1>7, ShrinkShown
<1>8. ASSUME NEW e \in CountLimits \cup {0}, NEW b \in ByteLimits \cup {0},
             SetLimits(e, b)
      PROVE  Promise!Next
  BY <1>8, SetLimitsShown
<1>9. CASE Free
  BY <1>9, FreeShown
<1>10. ASSUME NEW s \in Strings, CallerFrees(s)
       PROVE  UNCHANGED <<Contents, max_elements, last>>
  BY <1>10 DEF CallerFrees, limits, Contents
<1>11. CASE UNCHANGED vars
  BY <1>11 DEF vars, Contents
<1> QED
  BY <1>1, <1>2, <1>3, <1>4, <1>5, <1>6, <1>7, <1>8, <1>9, <1>10, <1>11 DEF Next

(* A list is the sequence of strings its header promises: insertion at a    *)
(* place, removal, truncation and extension, each whole or refused and then *)
(* without effect, up to a write behind the array, which needs a byte limit *)
(* below the element limit (mcpkg_list.c and mcpkg_str_list.c).             *)
THEOREM IsStringSeq == Spec => ImplementsStringSeq
<1>1. Spec => []IInv
  BY AlwaysIInv
<1>2. IInv' => OverrunOnlyByBytes'
  BY DEF IInv
<1> QED
  BY <1>1, <1>2, InitShown, NextShown, PTL DEF Spec, ImplementsStringSeq
=============================================================================
