-------------------------------- MODULE List --------------------------------
(***************************************************************************)
(* container/mcpkg_list.c, an array that grows by doubling under a limit   *)
(* on its elements and one on its bytes, with the elements that            *)
(* container/mcpkg_str_list.c puts into it: pointers to strings that the   *)
(* list owns and frees through its dtor hook.  (A list without hooks is    *)
(* the same with the heap left out.)  Lists are used by one thread at a    *)
(* time, so a call is one action.                                          *)
(*                                                                         *)
(* A write behind the array is undefined: the model ends there, with       *)
(* overrun set.                                                            *)
(***************************************************************************)
EXTENDS Integers, FiniteSets

CONSTANTS
  Strings,      \* allocations a string can have; a freed one may be reused
  Null,         \* the NULL pointer
  Junk,         \* what realloc leaves in cells nobody has written
  ElemSize,     \* lst->elem_size
  FirstCap,     \* the first capacity, 8 in the code
  CountLimits,  \* values callers give for max_elements
  ByteLimits,   \* values callers give for max_bytes
  Sizes         \* sizes callers resize to or reserve

ASSUME ListAssumption ==
  /\ IsFiniteSet(Strings)
  /\ Null \notin Strings /\ Junk \notin Strings /\ Null # Junk
  /\ ElemSize \in Nat \ {0}
  /\ FirstCap \in Nat \ {0}
  /\ CountLimits \subseteq Nat \ {0}
  /\ ByteLimits \subseteq Nat \ {0}
  /\ Sizes \subseteq Nat

VARIABLES
  data,          \* lst->data, a function on 0 .. cap - 1
  len,           \* lst->len
  cap,           \* lst->cap
  max_elements,  \* lst->max_elements
  max_bytes,     \* lst->max_bytes
  heap,          \* the strings allocated now
  given,         \* those of them that pop handed to the caller
  freed,         \* has the list been freed?
  overrun,       \* has a call written behind the array?
  misfreed,      \* has free() been called on what is not allocated?
  last           \* the last call and its result

limits == <<max_elements, max_bytes>>
memory == <<heap, given, misfreed>>
vars == <<data, len, cap, max_elements, max_bytes, heap, given, freed, overrun,
          misfreed, last>>

Pointers == Strings \cup {Null, Junk}

TypeOK ==
  /\ len \in Nat /\ cap \in Nat
  /\ data \in [0 .. cap - 1 -> Pointers]
  /\ max_elements \in CountLimits
  /\ max_bytes \in ByteLimits
  /\ heap \subseteq Strings
  /\ given \subseteq Strings
  /\ freed \in BOOLEAN
  /\ overrun \in BOOLEAN
  /\ misfreed \in BOOLEAN

Cells == {data[i] : i \in 0 .. len - 1}

-----------------------------------------------------------------------------
(* mcpkg_effective_max_elements *)
EffectiveMax(count, bytes) ==
  IF count <= bytes \div ElemSize THEN count ELSE bytes \div ElemSize

(* An operator named Op_Slip is Op with a slip a programmer could make; the *)
(* mutants of PROJECT.json put it in the place of Op.                       *)

(* mcpkg_list_new, with the limits it accepts. *)
Init ==
  /\ max_elements \in CountLimits
  /\ max_bytes \in ByteLimits
  /\ EffectiveMax(max_elements, max_bytes) # 0
  /\ data = [i \in {} |-> Junk]
  /\ len = 0 /\ cap = 0
  /\ heap = {} /\ given = {}
  /\ freed = FALSE /\ overrun = FALSE /\ misfreed = FALSE
  /\ last = [op |-> "new", result |-> "ok"]

Returns(op, result) == last' = [op |-> op, result |-> result]
InUse == ~freed /\ ~overrun

(* grow_to: what may become of the capacity when n cells are asked for, and *)
(* what the function returns.  It asks for no more than the limits allow,   *)
(* and returns OK when that is less than n.                                 *)
GrowTo(n) ==
  LET most == EffectiveMax(max_elements, max_bytes)
      goal == IF n <= most THEN n ELSE most
      same(result) == [result |-> result, cap |-> cap]
  IN  IF n <= cap THEN {same("ok")}
      ELSE IF most = 0 THEN {same("limit")}
      ELSE IF goal <= cap THEN {same("ok")}
      ELSE {same("no_mem"), [result |-> "ok", cap |-> goal]}

(* ensure_cap_for; the bound by EffectiveMax made here is made again by     *)
(* grow_to.                                                                 *)
EnsureCapFor(n) ==
  LET doubled == IF cap = 0 THEN FirstCap ELSE 2 * cap
  IN  IF n > max_elements THEN {[result |-> "limit", cap |-> cap]}
      ELSE IF n <= cap THEN {[result |-> "ok", cap |-> cap]}
      ELSE GrowTo(IF doubled < n THEN n ELSE doubled)

(* The array after realloc to n cells. *)
Realloc(n) ==
  [i \in 0 .. n - 1 |-> IF i \in DOMAIN data THEN data[i] ELSE Junk]

(* memmove of the cells from i on by one cell up, in array d. *)
ShiftUp(d, i) == [j \in DOMAIN d |-> IF i < j /\ j <= len THEN d[j - 1] ELSE d[j]]

ShiftDown_Short(d, i) ==
  [j \in DOMAIN d |-> IF i <= j /\ j < len - 2 THEN d[j + 1] ELSE d[j]]

(* memmove of the cells behind i by one cell down, in array d. *)
ShiftDown(d, i) ==
  [j \in DOMAIN d |-> IF i <= j /\ j < len - 1 THEN d[j + 1] ELSE d[j]]

(* strlist_elem_dtor on the cells of I in array d, when live is allocated:  *)
(* free what is not NULL and store NULL.                                    *)
Destroy(d, I, live) ==
  LET dead == {d[i] : i \in I} \ {Null}
  IN  /\ heap' = live \ dead
      /\ misfreed' = (misfreed \/ ~(dead \subseteq live))

Nulled(d, I) == [j \in DOMAIN d |-> IF j \in I THEN Null ELSE d[j]]

-----------------------------------------------------------------------------
(* mcpkg_stringlist_push, _add, mcpkg_list_push, _add: strdup, make room,   *)
(* shift, store; the copy is freed when there is no room.                   *)
Store(op, i, s, new) ==
  LET moved == ShiftUp(Realloc(new), i)
  IN  /\ data' = [j \in 0 .. new - 1 |-> IF j = i THEN s ELSE moved[j]]
      /\ overrun' = (len >= new)
      /\ cap' = new
      /\ len' = len + 1
      /\ heap' = heap \cup {s}
      /\ Returns(op, "ok")
      /\ UNCHANGED <<limits, given, freed, misfreed>>

Refuse(op, result) ==
  /\ Returns(op, result)
  /\ UNCHANGED <<data, len, cap, limits, memory, freed, overrun>>

Insert(op, i) ==
  /\ InUse
  /\ \/ Refuse(op, "no_mem")                       \* strdup failed
     \/ i > len /\ Refuse(op, "range")
     \/ /\ i <= len
        /\ \E g \in EnsureCapFor(len + 1) :
             \/ g.result # "ok" /\ Refuse(op, g.result)
             \/ /\ g.result = "ok"
                /\ \E s \in Strings \ heap : Store(op, i, s, g.cap)

Push == Insert("push", len)
Add(i) == Insert("add", i)

(* mcpkg_list_remove_at *)
RemoveAt(i) ==
  /\ InUse
  /\ \/ i >= len /\ Refuse("remove_at", "range")
     \/ /\ i < len
        /\ Destroy(data, {i}, heap)
        /\ data' = ShiftDown(Nulled(data, {i}), i)
        /\ len' = len - 1
        /\ Returns("remove_at", "ok")
        /\ UNCHANGED <<cap, limits, given, freed, overrun>>

(* mcpkg_stringlist_pop with out: hand the string over and clear its cell,  *)
(* so that mcpkg_list_pop destroys nothing; without out: destroy it.        *)
PopOut ==
  /\ InUse /\ len > 0
  /\ LET cleared == Nulled(data, {len - 1})
     IN  /\ given' = given \cup {data[len - 1]}
         /\ Destroy(cleared, {len - 1}, heap)
         /\ data' = cleared
  /\ len' = len - 1
  /\ Returns("pop", "ok")
  /\ UNCHANGED <<cap, limits, freed, overrun>>

PopFree ==
  /\ InUse /\ len > 0
  /\ Destroy(data, {len - 1}, heap)
  /\ data' = Nulled(data, {len - 1})
  /\ len' = len - 1
  /\ Returns("pop", "ok")
  /\ UNCHANGED <<cap, limits, given, freed, overrun>>

PopEmpty == InUse /\ len = 0 /\ Refuse("pop", "range")

(* mcpkg_list_resize to no more than the length ("shrink"), and remove_all *)
Shrink(op, n) ==
  /\ InUse /\ n <= len
  /\ Destroy(data, n .. len - 1, heap)
  /\ data' = Nulled(data, n .. len - 1)
  /\ len' = n
  /\ Returns(op, "ok")
  /\ UNCHANGED <<cap, limits, given, freed, overrun>>

(* Fresh strings for the cells len .. k - 1. *)
FreshStrings(k) ==
  {f \in [len .. k - 1 -> Strings \ heap] :
     \A i, j \in len .. k - 1 : f[i] = f[j] => i = j}

(* The array grown to new cells, zeroed from len to n, with the strings f.  *)
Filled(n, new, f) ==
  [j \in 0 .. new - 1 |-> IF j \in DOMAIN f THEN f[j]
                          ELSE IF len <= j /\ j < n THEN Null
                          ELSE Realloc(new)[j]]

(* mcpkg_stringlist_resize to more: mcpkg_list_resize zeroes the new cells  *)
(* and strdup("") fills them one by one ...                                 *)
Fill(n, new) ==
  \E f \in FreshStrings(n) :
    /\ data' = Filled(n, new, f)
    /\ heap' = heap \cup {f[j] : j \in DOMAIN f}
    /\ len' = n
    /\ Returns("resize", "ok")
    /\ UNCHANGED misfreed

FillFailed_KeepStrings(n, new) ==
  \E k \in len .. n - 1 : \E f \in FreshStrings(k) :
    /\ heap' = heap \cup {f[j] : j \in DOMAIN f}
    /\ data' = Filled(n, new, f)
    /\ Returns("resize", "no_mem")
    /\ UNCHANGED <<len, misfreed>>

(* ... or fills some and fails: the list shrinks back, keeps its capacity,  *)
(* and destroys what it had filled.                                         *)
FillFailed(n, new) ==
  \E k \in len .. n - 1 : \E f \in FreshStrings(k) :
    /\ Destroy(Filled(n, new, f), len .. n - 1, heap \cup {f[j] : j \in DOMAIN f})
    /\ data' = Nulled(Filled(n, new, f), len .. n - 1)
    /\ Returns("resize", "no_mem")
    /\ UNCHANGED len

(* The new cells are not all there. *)
Overrun(n, new) ==
  /\ overrun' = TRUE
  /\ data' = Realloc(new)
  /\ len' = n
  /\ Returns("resize", "ok")
  /\ UNCHANGED <<heap, misfreed>>

Grow(n) ==
  /\ InUse /\ n > len
  /\ \E g \in EnsureCapFor(n) :
       \/ g.result # "ok" /\ Refuse("resize", g.result)
       \/ /\ g.result = "ok"
          /\ cap' = g.cap
          /\ \/ n > g.cap /\ Overrun(n, g.cap)
             \/ n <= g.cap /\ UNCHANGED overrun /\ Fill(n, g.cap)
             \/ n <= g.cap /\ UNCHANGED overrun /\ FillFailed(n, g.cap)
          /\ UNCHANGED <<limits, given, freed>>

(* mcpkg_list_reserve_at_least *)
Reserve(n) ==
  /\ InUse
  /\ \E g \in GrowTo(n) :
       /\ cap' = g.cap
       /\ data' = Realloc(g.cap)
       /\ Returns("reserve", g.result)
  /\ UNCHANGED <<len, limits, memory, freed, overrun>>

(* mcpkg_list_set_limits; 0 leaves a limit as it is. *)
SetLimits(e, b) ==
  LET count == IF e = 0 THEN max_elements ELSE e
      bytes == IF b = 0 THEN max_bytes ELSE b
      fits == /\ len <= count
              /\ cap * ElemSize <= bytes
              /\ EffectiveMax(count, bytes) # 0
  IN  /\ InUse
      /\ \/ ~fits /\ Refuse("set_limits", "limit")
         \/ /\ fits
            /\ max_elements' = count /\ max_bytes' = bytes
            /\ Returns("set_limits", "ok")
            /\ UNCHANGED <<data, len, cap, memory, freed, overrun>>

(* mcpkg_list_free *)
Free ==
  /\ InUse
  /\ Destroy(data, 0 .. len - 1, heap)
  /\ data' = [i \in {} |-> Junk]
  /\ len' = 0 /\ cap' = 0
  /\ freed' = TRUE
  /\ Returns("free", "ok")
  /\ UNCHANGED <<limits, given, overrun>>

(* The caller frees a string that pop gave it. *)
CallerFrees(s) ==
  /\ ~overrun /\ s \in given
  /\ given' = given \ {s}
  /\ heap' = heap \ {s}
  /\ misfreed' = (misfreed \/ s \notin heap)
  /\ UNCHANGED <<data, len, cap, limits, freed, overrun, last>>

Next ==
  \/ Push
  \/ \E i \in 0 .. len + 1 : Add(i) \/ RemoveAt(i)
  \/ PopOut \/ PopFree \/ PopEmpty
  \/ \E n \in Sizes : Shrink("shrink", n) \/ Grow(n) \/ Reserve(n)
  \/ Shrink("remove_all", 0)
  \/ \E e \in CountLimits \cup {0}, b \in ByteLimits \cup {0} : SetLimits(e, b)
  \/ Free
  \/ \E s \in Strings : CallerFrees(s)

Spec == Init /\ [][Next]_vars

-----------------------------------------------------------------------------
(* The array never takes more than max_bytes, through growth by doubling,   *)
(* reservation and changes of the limits: grow_to asks for no more and      *)
(* set_limits accepts nothing below what is allocated.                      *)
ArrayWithinBytes == cap * ElemSize <= max_bytes

(* The list never holds more than max_elements elements: ensure_cap_for     *)
(* tests a limit that set_limits may have moved since.                      *)
CountRespected == len <= max_elements

(* Both limits hold, whatever the sequence of growth and new limits. *)
InLimits == ArrayWithinBytes /\ CountRespected

(* Only a byte limit that leaves less room than the element limit makes a   *)
(* call write behind the array: where max_elements binds, growth that       *)
(* reports OK has made the room.                                            *)
OverrunOnlyByBytes == overrun => max_bytes < max_elements * ElemSize

(* While the list is in order its cells are different allocated strings,    *)
(* the caller's strings are others, and nothing else is allocated: no       *)
(* sequence of calls, failed ones among them, leaks a string, or leaves two *)
(* owners for one.                                                          *)
OwnedOnce ==
  ~overrun =>
    /\ \A i \in 0 .. len - 1 : data[i] \in heap \ given
    /\ \A i, j \in 0 .. len - 1 : data[i] = data[j] => i = j
    /\ heap = Cells \cup given

(* free() is never called on a string that is not allocated: dtor, the      *)
(* clean-up of a failed push or resize, and the caller of pop each free     *)
(* what they own.                                                           *)
NothingFreedTwice == ~misfreed

(* Every string has one owner, and is freed once at the most. *)
OneOwner == OwnedOnce /\ NothingFreedTwice

Contents == [i \in 1 .. len |-> data[i - 1]]

Promise == INSTANCE StringSeq WITH seq <- Contents, limit <- max_elements

(* The calls of mcpkg_list.c and mcpkg_str_list.c read and change the list  *)
(* as a sequence, up to a write behind the array; that one happens only     *)
(* where the byte limit leaves less room than the element limit.            *)
ImplementsStringSeq ==
  /\ Promise!Init
  /\ [][(overrun' /\ OverrunOnlyByBytes') \/ Promise!Next]_<<Contents, max_elements, last>>
=============================================================================
