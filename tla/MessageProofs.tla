---------------------------- MODULE MessageProofs ----------------------------
(***************************************************************************)
(* Proofs about what is made of messages.  First the unpack functions:     *)
(* whatever types there are, however deep they nest and wherever a call    *)
(* fails, nothing leaks, and what is reported as a success is whole.  Then *)
(* the registry: every object has one owner, and what was selected reads   *)
(* back from the bytes it is saved in.                                     *)
(***************************************************************************)
EXTENDS MsgUnpack, Registry, FiniteSetTheorems, SequenceTheorems, WellFoundedInduction,
        TLAPS

-----------------------------------------------------------------------------
(* The unpack functions.                                                   *)

Fields(type) == {Reads[type][i].field : i \in DOMAIN Reads[type]}

(* An object is not the null pointer. *)
ObjectsAreNotNull == \A type \in DOMAIN Reads : DOMAIN Null # Fields(type)

-----------------------------------------------------------------------------
(* Sequences of whatever there is.                                         *)

IsSeq(s) == \E S : s \in Seq(S)

(* A sequence without its last element. *)
LEMMA PopSeq ==
  ASSUME NEW s, IsSeq(s), s # << >>
  PROVE  LET t == SubSeq(s, 1, Len(s) - 1) IN
         /\ IsSeq(t) /\ Len(t) = Len(s) - 1 /\ Len(t) \in Nat
         /\ DOMAIN t = 1 .. Len(s) - 1 /\ DOMAIN s = 1 .. Len(s) /\ Len(s) \in Nat \ {0}
         /\ \A i \in DOMAIN t : t[i] = s[i]
<1>1. PICK S : s \in Seq(S) BY DEF IsSeq
<1>2. /\ Len(s) \in Nat \ {0} /\ DOMAIN s = 1 .. Len(s)
  BY <1>1, EmptySeq, LenProperties
<1>3. \A i \in 1 .. Len(s) - 1 : s[i] \in S BY <1>1, <1>2, ElementOfSeq
<1> DEFINE t == SubSeq(s, 1, Len(s) - 1)
<1>4. t = [i \in 1 .. Len(s) - 1 |-> s[i]] BY <1>1, <1>2
<1>5. t \in Seq(S) /\ Len(t) = Len(s) - 1 BY <1>1, <1>2, <1>3, <1>4
<1>6. QED BY <1>2, <1>4, <1>5 DEF IsSeq

(* A sequence with one more element. *)
LEMMA PushSeq ==
  ASSUME NEW s, IsSeq(s), NEW e
  PROVE  LET t == Append(s, e) IN
         /\ IsSeq(t) /\ Len(t) = Len(s) + 1 /\ Len(s) \in Nat
         /\ DOMAIN t = 1 .. Len(s) + 1 /\ DOMAIN s = 1 .. Len(s)
         /\ t[Len(s) + 1] = e
         /\ \A i \in DOMAIN s : t[i] = s[i]
<1>1. PICK S : s \in Seq(S) BY DEF IsSeq
<1> DEFINE T == S \cup {e}
<1>2. s \in Seq(T) /\ e \in T BY <1>1
<1> HIDE DEF T
<1>3. /\ Append(s, e) \in Seq(T) /\ Len(Append(s, e)) = Len(s) + 1
      /\ Len(s) \in Nat /\ DOMAIN s = 1 .. Len(s)
      /\ Append(s, e)[Len(s) + 1] = e
      /\ \A i \in 1 .. Len(s) : Append(s, e)[i] = s[i]
  BY <1>2, AppendProperties, LenProperties
<1>4. DOMAIN Append(s, e) = 1 .. Len(s) + 1 BY <1>3, LenProperties
<1>5. QED BY <1>3, <1>4 DEF IsSeq

(* A sequence with another last element. *)
LEMMA ReplaceSeq ==
  ASSUME NEW s, IsSeq(s), s # << >>, NEW e
  PROVE  LET t == [s EXCEPT ![Len(s)] = e] IN
         /\ IsSeq(t) /\ Len(t) = Len(s) /\ Len(s) \in Nat \ {0}
         /\ DOMAIN t = 1 .. Len(s) /\ DOMAIN s = 1 .. Len(s)
         /\ t[Len(s)] = e
         /\ \A i \in DOMAIN s : i # Len(s) => t[i] = s[i]
<1>1. PICK S : s \in Seq(S) BY DEF IsSeq
<1> DEFINE T == S \cup {e}
           t == [s EXCEPT ![Len(s)] = e]
<1>2. s \in Seq(T) /\ e \in T BY <1>1
<1> HIDE DEF T
<1>3. Len(s) \in Nat \ {0} /\ DOMAIN s = 1 .. Len(s) BY <1>2, EmptySeq, LenProperties
<1>4. t \in Seq(T) /\ Len(t) = Len(s) BY <1>2, <1>3, ExceptSeq
<1>5. QED BY <1>3, <1>4 DEF IsSeq

-----------------------------------------------------------------------------
(* The invariant.                                                          *)

(* h is of the object that call d made, and its free function reaches it.   *)
Freeable(h, d) ==
  /\ DOMAIN h = {"kind", "depth", "way"} /\ h.kind = "object" /\ h.depth = d
  /\ \A e \in h.way : <<e.field, e.part>> \in Owned[e.type]

(* A call in progress: only within a list does it loop. *)
ReadAt(f) == Reads[f.type][f.at]
Frame(f) ==
  /\ DOMAIN f = {"type", "msg", "obj", "at", "looping", "elems"}
  /\ f.type \in DOMAIN Reads /\ DOMAIN f.obj = Fields(f.type)
  /\ f.at \in Nat \ {0}
  /\ f.looping => /\ f.at \in DOMAIN Reads[f.type]
                  /\ ReadAt(f).how \in {"objects", "hashes"}

(* A call that has called the unpack function of a nested object. *)
Asks(f) ==
  /\ f.at \in DOMAIN Reads[f.type]
  /\ \/ f.looping /\ ReadAt(f).how = "objects"
     \/ ~f.looping /\ ReadAt(f).how = "object"

(* What is allocated is of a call in progress, or of the object that the    *)
(* last call returned.                                                      *)
Good == ret.res = "ok" /\ ret.obj # Null
HeldBy(h, d) ==
  \/ h = Reader(d) \/ Freeable(h, d)
  \/ stack[d].looping /\ h = Cursor(d)
Held(h) == (\E d \in 1 .. Depth : HeldBy(h, d)) \/ (Good /\ Freeable(h, Depth + 1))

Frames == IsSeq(stack) /\ \A d \in DOMAIN stack : Frame(stack[d])
Asking == \A d \in DOMAIN stack : d < Depth \/ ret # Pending => Asks(stack[d])
AllHeld == \A h \in live : Held(h)
UnpackInv == input \in Inputs /\ Frames /\ Asking /\ AllHeld

(* When nothing was returned, or an error, only calls in progress hold.     *)
LEMMA HeldInProgress ==
  ASSUME UnpackInv, ~Good, NEW h \in live
  PROVE  \E d \in 1 .. Depth : HeldBy(h, d)
BY DEF UnpackInv, AllHeld, Held

LEMMA PendingIsNotGood == ASSUME ret = Pending PROVE ~Good
BY DEF Pending, Result, Good

(* The depth of the calls in progress. *)
LEMMA Depths ==
  ASSUME UnpackInv, stack # << >>
  PROVE  /\ Depth \in Nat \ {0} /\ DOMAIN stack = 1 .. Depth /\ Depth \in DOMAIN stack
         /\ Frame(Top)
BY PopSeq DEF UnpackInv, Frames, Depth, Top

-----------------------------------------------------------------------------
(* The ways a step changes the stack.                                      *)

(* A call ends: what was its own is gone, or is the object it returns.      *)
Leaves ==
  /\ stack # << >> /\ stack' = SubSeq(stack, 1, Depth - 1)
  /\ live' \subseteq live
  /\ Reader(Depth) \notin live'
  /\ Top.looping => Cursor(Depth) \notin live'
  /\ \A h \in live' : Freeable(h, Depth) => Good'
  /\ \A h \in live' : ~(Good /\ Freeable(h, Depth + 1))
  /\ input' = input

LEMMA LeavingKeeps == ASSUME UnpackInv, Leaves PROVE UnpackInv'
<1>1. /\ Depth \in Nat \ {0} /\ DOMAIN stack = 1 .. Depth
  BY Depths DEF Leaves
<1>2. /\ IsSeq(stack') /\ Depth' = Depth - 1 /\ DOMAIN stack' = 1 .. Depth - 1
      /\ \A d \in DOMAIN stack' : stack'[d] = stack[d]
  BY PopSeq DEF Leaves, UnpackInv, Frames, Depth
<1>3. Frames' BY <1>1, <1>2 DEF UnpackInv, Frames
<1>4. Asking' BY <1>1, <1>2 DEF UnpackInv, Asking
<1>5. ASSUME NEW h \in live' PROVE Held(h)'
  <2>1. Held(h) /\ ~(Good /\ Freeable(h, Depth + 1))
    BY <1>5 DEF UnpackInv, AllHeld, Leaves
  <2>2. PICK d \in 1 .. Depth : HeldBy(h, d) BY <2>1 DEF Held
  <2>3. CASE d = Depth
    <3>1. Freeable(h, Depth) BY <2>2, <2>3, <1>5 DEF HeldBy, Leaves, Top
    <3>2. Good' BY <3>1, <1>5 DEF Leaves
    <3>3. Freeable(h, Depth' + 1) BY <3>1, <1>1, <1>2
    <3>4. QED BY <3>2, <3>3 DEF Held, Freeable
  <2>4. CASE d # Depth
    <3>1. d \in 1 .. Depth' /\ stack'[d] = stack[d] BY <1>1, <1>2, <2>4
    <3>2. HeldBy(h, d)' BY <2>2, <3>1 DEF HeldBy, Freeable
    <3>3. QED BY <3>1, <3>2 DEF Held
  <2>5. QED BY <2>3, <2>4
<1>6. QED BY <1>3, <1>4, <1>5 DEF UnpackInv, AllHeld, Leaves

(* A call goes on: it becomes f, and what it allocates, or takes over from  *)
(* the call that returned, is its own.                                      *)
GoesOnAs(f) ==
  /\ stack # << >> /\ stack' = [stack EXCEPT ![Depth] = f]
  /\ Frame(f) /\ (ret' # Pending => Asks(f))
  /\ \A h \in live' :
       \/ h \in live /\ (Top.looping /\ ~f.looping => h # Cursor(Depth))
                     /\ (Good /\ Freeable(h, Depth + 1) => Good')
       \/ Freeable(h, Depth)
       \/ f.looping /\ h = Cursor(Depth)
  /\ input' = input

LEMMA GoingOnKeeps == ASSUME UnpackInv, NEW f, GoesOnAs(f) PROVE UnpackInv'
<1>1. /\ Depth \in Nat \ {0} /\ DOMAIN stack = 1 .. Depth
  BY Depths DEF GoesOnAs
<1>2. /\ IsSeq(stack') /\ Depth' = Depth /\ DOMAIN stack' = 1 .. Depth
      /\ stack'[Depth] = f
      /\ \A d \in DOMAIN stack : d # Depth => stack'[d] = stack[d]
  BY ReplaceSeq DEF GoesOnAs, UnpackInv, Frames, Depth
<1>3. Frames' BY <1>1, <1>2 DEF UnpackInv, Frames, GoesOnAs
<1>4. Asking'
  <2> SUFFICES ASSUME NEW d \in DOMAIN stack', d < Depth' \/ ret' # Pending
               PROVE  Asks(stack'[d])
    BY DEF Asking, Pending, Asks, ReadAt
  <2>1. CASE d = Depth BY <2>1, <1>1, <1>2 DEF GoesOnAs
  <2>2. CASE d # Depth BY <2>2, <1>1, <1>2 DEF UnpackInv, Asking
  <2>3. QED BY <2>1, <2>2
<1>5. ASSUME NEW h \in live' PROVE Held(h)'
  <2>1. CASE Freeable(h, Depth) \/ (f.looping /\ h = Cursor(Depth))
    <3>1. HeldBy(h, Depth)' BY <2>1, <1>1, <1>2 DEF HeldBy, Freeable, Cursor
    <3>2. QED BY <3>1, <1>1, <1>2 DEF Held, HeldBy, Freeable, Cursor, Reader
  <2>2. CASE /\ h \in live /\ (Top.looping /\ ~f.looping => h # Cursor(Depth))
             /\ (Good /\ Freeable(h, Depth + 1) => Good')
    <3>1. Held(h) BY <2>2 DEF UnpackInv, AllHeld
    <3>2. CASE Good /\ Freeable(h, Depth + 1)
      BY <2>2, <3>2, <1>2 DEF Held, Freeable
    <3>3. ASSUME NEW d \in 1 .. Depth, HeldBy(h, d) PROVE Held(h)'
      <4>1. CASE d = Depth
        BY <4>1, <3>3, <2>2, <1>1, <1>2 DEF Held, HeldBy, Freeable, Cursor, Reader, Top
      <4>2. CASE d # Depth
        BY <4>2, <3>3, <1>1, <1>2 DEF Held, HeldBy, Freeable, Cursor, Reader
      <4>3. QED BY <4>1, <4>2
    <3>4. QED BY <3>1, <3>2, <3>3 DEF Held
  <2>3. QED BY <1>5, <2>1, <2>2 DEF GoesOnAs
<1>6. QED BY <1>3, <1>4, <1>5 DEF UnpackInv, AllHeld, GoesOnAs

-----------------------------------------------------------------------------
(* What the steps are made of.                                             *)

(* What an error leaves behind.                                             *)
LEMMA FailKeeps ==
  ASSUME UnpackInv, stack # << >>, NEW res, NEW more, Fail(res, more), input' = input,
         Top.looping => Cursor(Depth) \in more,
         \A h \in live : Good /\ Freeable(h, Depth + 1) => h \in more
  PROVE  UnpackInv'
<1>1. live' = live \ (FreedBy(Depth) \cup {Reader(Depth)} \cup more)
      /\ stack' = SubSeq(stack, 1, Depth - 1)
  BY DEF Fail, Return
<1>2. ASSUME NEW h \in live' PROVE ~Freeable(h, Depth)
  BY <1>1, <1>2 DEF FreedBy, Freeable
<1>3. Leaves BY <1>1, <1>2 DEF Leaves
<1>4. QED BY <1>3, LeavingKeeps

(* An error before anything was returned, outside a list or with its cursor *)
(* closed.                                                                  *)
LEMMA PlainFailKeeps ==
  ASSUME UnpackInv, stack # << >>, ret = Pending, NEW res, NEW more, Fail(res, more),
         input' = input, Top.looping => Cursor(Depth) \in more
  PROVE  UnpackInv'
<1>1. ~Good BY PendingIsNotGood
<1>2. QED BY <1>1, FailKeeps

LEMMA FinishKeeps ==
  ASSUME UnpackInv, ObjectsAreNotNull, stack # << >>, ret = Pending,
         Top.at > Len(Reads[Top.type]), Finish, input' = input
  PROVE  UnpackInv'
<1>1. Frame(Top) BY Depths
<1>2. ~Good BY PendingIsNotGood
<1>3. ~Top.looping
  <2>1. Top.type \in DOMAIN Reads /\ Top.at \in Nat BY <1>1 DEF Frame
  <2>2. Top.at \notin DOMAIN Reads[Top.type] BY <2>1, TypesAssumption
  <2>3. QED BY <1>1, <2>2 DEF Frame
<1>4. Good'
  <2>1. ret' = Result("ok", Top.obj) BY DEF Finish, Return
  <2>2. Top.obj # Null BY <1>1 DEF ObjectsAreNotNull, Frame
  <2>3. QED BY <2>1, <2>2 DEF Good, Result
<1>5. Leaves BY <1>2, <1>3, <1>4 DEF Leaves, Finish, Return
<1>6. QED BY <1>5, LeavingKeeps

(* The frame a call goes on with.                                           *)
LEMMA ProceedKeeps ==
  ASSUME UnpackInv, stack # << >>, ret = Pending, ~Top.looping,
         NEW obj, DOMAIN obj = Fields(Top.type),
         NEW more, \A h \in more : Freeable(h, Depth), Proceed(obj, more),
         input' = input
  PROVE  UnpackInv'
<1> DEFINE f == [Top EXCEPT !.obj = obj, !.at = @ + 1, !.looping = FALSE, !.elems = << >>]
<1>1. Frame(Top) /\ Depth \in DOMAIN stack BY Depths
<1>2. stack' = [stack EXCEPT ![Depth] = f] BY <1>1 DEF Proceed, Top, Frame
<1>3. Frame(f)
  <2>1. Top.at + 1 \in Nat \ {0} BY <1>1 DEF Frame
  <2>2. QED BY <1>1, <2>1 DEF Frame
<1>4. ret' = Pending /\ live' = live \cup more BY DEF Proceed
<1>5. ~Good BY PendingIsNotGood
<1>6. GoesOnAs(f) BY <1>2, <1>3, <1>4, <1>5 DEF GoesOnAs
<1>7. QED BY <1>6, GoingOnKeeps

(* A value in its field leaves the fields what they are.                    *)
LEMMA StoredKeepsFields ==
  ASSUME Frame(Top), NEW v
  PROVE  DOMAIN WithField(v) = Fields(Top.type)
BY DEF WithField, Frame

(* What is stored in the field being read the free function frees.          *)
LEMMA HereIsFreed ==
  ASSUME Frame(Top), Top.at \in DOMAIN Reads[Top.type],
         NEW part, \/ part = "self" /\ Allocates(Step)
                   \/ part = "each" /\ Step.how = "objects"
  PROVE  <<Here(part).field, Here(part).part>> \in Owned[Here(part).type]
BY TypesAssumption DEF Frame, Here, Edge, Step

LEMMA MemoryIsFreeable ==
  ASSUME Frame(Top), Top.at \in DOMAIN Reads[Top.type], Allocates(Step)
  PROVE  Freeable(Memory(Depth, {Here("self")}), Depth)
BY HereIsFreed DEF Freeable, Memory

LEMMA AtIsARead ==
  ASSUME UnpackInv, Reading
  PROVE  /\ stack # << >> /\ ret = Pending /\ Frame(Top)
         /\ Top.at \in DOMAIN Reads[Top.type]
<1>1. Frame(Top) BY Depths DEF Reading
<1>2. Top.type \in DOMAIN Reads /\ Top.at \in Nat \ {0} BY <1>1 DEF Frame
<1>3. QED BY <1>1, <1>2, TypesAssumption DEF Reading

(* A call of the unpack function of a type: by the program, or by a read.   *)
LEMMA CallKeeps ==
  ASSUME UnpackInv, ret = Pending, stack = << >> \/ Asks(Top),
         NEW type \in DOMAIN Reads, NEW data, Call(type, data), input' = input
  PROVE  UnpackInv'
<1>1. CASE EnterFails(type, data)
  <2>1. PICK res \in {"invalid", "parse", "no_memory"} :
           ret' = Result(res, Null) /\ stack' = stack /\ live' = live
    BY <1>1 DEF EnterFails
  <2>2. Frames' BY <2>1 DEF UnpackInv, Frames
  <2>3. Asking'
    <3>1. CASE stack = << >> BY <3>1, <2>1 DEF Asking
    <3>2. CASE stack # << >>
      <4>1. DOMAIN stack = 1 .. Depth /\ Depth \in Nat BY <3>2, Depths
      <4>2. QED BY <4>1, <2>1, <3>2 DEF UnpackInv, Asking, Top, Depth
    <3>3. QED BY <3>1, <3>2
  <2>4. AllHeld'
    <3>1. ~Good BY PendingIsNotGood
    <3>2. QED BY <2>1, <3>1 DEF UnpackInv, AllHeld, Held, HeldBy, Freeable, Depth
  <2>5. QED BY <2>2, <2>3, <2>4 DEF UnpackInv
<1>2. CASE Enter(type, data)
  <2> DEFINE f == [type |-> type, msg |-> data.msg, obj |-> Blank(type), at |-> 1,
                   looping |-> FALSE, elems |-> << >>]
  <2>1. /\ stack' = Append(stack, f) /\ ret' = Pending
        /\ live' = live \cup {Reader(Depth + 1), Memory(Depth + 1, {})}
    BY <1>2 DEF Enter
  <2>2. Frame(f)
    <3>1. DOMAIN Blank(type) = Fields(type)
      <4>1. DOMAIN Blank(type) = {r.field : r \in ReadsOf(type)} BY DEF Blank
      <4> QED BY <4>1 DEF ReadsOf, Fields
    <3>2. QED BY <3>1 DEF Frame
  <2> HIDE DEF f
  <2>3. /\ IsSeq(stack') /\ Depth' = Depth + 1 /\ Depth \in Nat
        /\ DOMAIN stack' = 1 .. Depth + 1 /\ DOMAIN stack = 1 .. Depth
        /\ stack'[Depth + 1] = f
        /\ \A d \in DOMAIN stack : stack'[d] = stack[d]
    BY <2>1, PushSeq DEF UnpackInv, Frames, Depth
  <2>4. Frames' BY <2>2, <2>3 DEF UnpackInv, Frames
  <2>5. Asking'
    <3>1. ASSUME stack # << >> PROVE Asks(stack[Depth]) BY <3>1 DEF Top
    <3>2. QED BY <2>1, <2>3, <3>1, Depths DEF UnpackInv, Asking
  <2>6. ASSUME NEW h \in live' PROVE Held(h)'
    <3>1. CASE h = Reader(Depth + 1) BY <3>1, <2>3 DEF Held, HeldBy
    <3>2. CASE h = Memory(Depth + 1, {})
      <4>1. Freeable(h, Depth + 1) BY <3>2 DEF Freeable, Memory
      <4>2. QED BY <4>1, <2>3 DEF Held, HeldBy, Freeable
    <3>3. CASE h \in live
      <4>1. ~Good BY PendingIsNotGood
      <4>2. PICK d \in 1 .. Depth : HeldBy(h, d) BY <4>1, <3>3, HeldInProgress
      <4>3. HeldBy(h, d)' /\ d \in 1 .. Depth' BY <4>2, <2>3 DEF HeldBy, Freeable
      <4>4. QED BY <4>3 DEF Held
    <3>4. QED BY <2>1, <3>1, <3>2, <3>3
  <2>7. QED BY <2>4, <2>5, <2>6 DEF UnpackInv, AllHeld
<1>3. QED BY <1>1, <1>2 DEF Call

-----------------------------------------------------------------------------
(* One lemma per kind of step.                                             *)

LEMMA BeginKeeps == ASSUME UnpackInv, Begin, input' = input PROVE UnpackInv'
<1>1. input.type \in DOMAIN Reads BY TypesAssumption DEF UnpackInv
<1>2. QED BY <1>1, CallKeeps DEF Begin

LEMMA PlainKeeps == ASSUME UnpackInv, Plain, input' = input PROVE UnpackInv'
<1>1. /\ stack # << >> /\ ret = Pending /\ Frame(Top) /\ ~Top.looping
      /\ Top.at \in DOMAIN Reads[Top.type]
  BY AtIsARead DEF Plain
<1>2. DOMAIN Top.obj = Fields(Top.type) BY <1>1 DEF Frame
<1>3. ASSUME NEW res, Fail(res, {}) PROVE UnpackInv'
  BY <1>1, <1>3, PlainFailKeeps
<1>4. ASSUME NEW obj, DOMAIN obj = Fields(Top.type), Proceed(obj, {}) PROVE UnpackInv'
  BY <1>1, <1>4, ProceedKeeps
<1>5. CASE ReadInt
  <2> DEFINE g == IF Step.how \in {"u64", "i64"} THEN GetU64(Top.msg, Step.key)
                  ELSE GetU32(Top.msg, Step.key)
  <2> HIDE DEF g
  <2>1. \/ Fail("parse", {}) \/ Proceed(WithField(AsStored(g)), {}) \/ Proceed(Top.obj, {})
    BY <1>5 DEF ReadInt, g
  <2>2. DOMAIN WithField(AsStored(g)) = Fields(Top.type) BY <1>1, StoredKeepsFields
  <2>3. QED BY <2>1, <2>2, <1>2, <1>3, <1>4
<1>6. CASE ReadBytes
  <2> DEFINE g == GetBin(Top.msg, Step.key)
  <2> HIDE DEF g
  <2>1. \/ Fail("parse", {}) \/ Proceed(WithField(g.val.raw), {}) \/ Proceed(Top.obj, {})
    BY <1>6 DEF ReadBytes, g
  <2>2. DOMAIN WithField(g.val.raw) = Fields(Top.type) BY <1>1, StoredKeepsFields
  <2>3. QED BY <2>1, <2>2, <1>2, <1>3, <1>4
<1>7. CASE ReadText
  <2> DEFINE g == IF Step.how = "str" THEN GetStr(Top.msg, Step.key)
                  ELSE GetStrList(Top.msg, Step.key)
  <2> HIDE DEF g
  <2>1. /\ Step.how \in {"str", "strlist"}
        /\ \/ Fail("parse", {}) \/ Fail("no_memory", {})
           \/ Proceed(WithField(g.val), {Memory(Depth, {Here("self")})})
           \/ Proceed(Top.obj, {})
    BY <1>7 DEF ReadText, g
  <2>2. DOMAIN WithField(g.val) = Fields(Top.type) BY <1>1, StoredKeepsFields
  <2>3. Freeable(Memory(Depth, {Here("self")}), Depth)
    BY <1>1, <2>1, MemoryIsFreeable DEF Allocates
  <2>4. ASSUME Proceed(WithField(g.val), {Memory(Depth, {Here("self")})}) PROVE UnpackInv'
    BY <1>1, <2>2, <2>3, <2>4, ProceedKeeps
  <2>5. QED BY <2>1, <2>4, <1>2, <1>3, <1>4
<1>8. QED BY <1>5, <1>6, <1>7 DEF Plain

LEMMA NestedKeeps == ASSUME UnpackInv, Nested, input' = input PROVE UnpackInv'
<1>1. /\ stack # << >> /\ ret = Pending /\ Frame(Top) /\ ~Top.looping
      /\ Top.at \in DOMAIN Reads[Top.type]
  BY AtIsARead DEF Nested
<1> DEFINE g == GetBin(Top.msg, Step.key)
<1> HIDE DEF g
<1>2. /\ Step.how = "object"
      /\ Fail("parse", {}) \/ Call(Step.type, g.val) \/ Proceed(Top.obj, {})
  BY DEF Nested, ReadNested, g
<1>3. CASE Fail("parse", {}) BY <1>1, <1>3, PlainFailKeeps
<1>4. CASE Call(Step.type, g.val)
  <2>1. Asks(Top) BY <1>1, <1>2 DEF Asks, ReadAt, Step
  <2>2. Step.type \in DOMAIN Reads
    BY <1>1, <1>2, TypesAssumption DEF Step, Frame
  <2>3. QED BY <1>1, <1>4, <2>1, <2>2, CallKeeps
<1>5. CASE Proceed(Top.obj, {})
  <2>1. DOMAIN Top.obj = Fields(Top.type) BY <1>1 DEF Frame
  <2>2. QED BY <1>1, <1>5, <2>1, ProceedKeeps
<1>6. QED BY <1>2, <1>3, <1>4, <1>5

LEMMA ListKeeps == ASSUME UnpackInv, List, input' = input PROVE UnpackInv'
<1>1. /\ stack # << >> /\ ret = Pending /\ Frame(Top) /\ ~Top.looping
      /\ Top.at \in DOMAIN Reads[Top.type]
  BY AtIsARead DEF List
<1> DEFINE g == GetArrayCur(Top.msg, Step.key)
           f == [Top EXCEPT !.obj = WithField(<< >>), !.looping = TRUE, !.elems = g.val]
<1> HIDE DEF g
<1>2. /\ Step.how \in {"objects", "hashes"}
      /\ \/ Fail("parse", {}) \/ Fail("no_memory", {}) \/ Proceed(Top.obj, {})
         \/ /\ stack' = [stack EXCEPT ![Depth].obj = WithField(<< >>),
                                      ![Depth].looping = TRUE,
                                      ![Depth].elems = g.val]
            /\ live' = live \cup {Cursor(Depth), Memory(Depth, {Here("self")})}
            /\ UNCHANGED ret
  BY DEF List, OpenList, g
<1>3. ASSUME NEW res, Fail(res, {}) PROVE UnpackInv'
  BY <1>1, <1>3, PlainFailKeeps
<1>4. CASE Proceed(Top.obj, {})
  <2>1. DOMAIN Top.obj = Fields(Top.type) BY <1>1 DEF Frame
  <2>2. QED BY <1>1, <1>4, <2>1, ProceedKeeps
<1>5. CASE /\ stack' = [stack EXCEPT ![Depth].obj = WithField(<< >>),
                                     ![Depth].looping = TRUE,
                                     ![Depth].elems = g.val]
           /\ live' = live \cup {Cursor(Depth), Memory(Depth, {Here("self")})}
           /\ UNCHANGED ret
  <2>1. Depth \in DOMAIN stack BY <1>1, Depths
  <2>2. stack' = [stack EXCEPT ![Depth] = f] BY <1>1, <1>5, <2>1 DEF Top, Frame
  <2>3. DOMAIN WithField(<< >>) = Fields(Top.type) BY <1>1, StoredKeepsFields
  <2>4. Frame(f) BY <1>1, <1>2, <2>3 DEF Frame, ReadAt, Step
  <2>5. Freeable(Memory(Depth, {Here("self")}), Depth)
    BY <1>1, <1>2, MemoryIsFreeable DEF Allocates
  <2>6. ~Good /\ f.looping BY <1>1, PendingIsNotGood DEF Frame
  <2> HIDE DEF f
  <2>7. GoesOnAs(f) BY <1>1, <1>5, <2>2, <2>4, <2>5, <2>6 DEF GoesOnAs
  <2>8. QED BY <2>7, GoingOnKeeps
<1>6. QED BY <1>2, <1>3, <1>4, <1>5

LEMMA ElementKeeps == ASSUME UnpackInv, Element, input' = input PROVE UnpackInv'
<1>1. /\ stack # << >> /\ ret = Pending /\ Frame(Top) /\ Top.looping
      /\ Top.at \in DOMAIN Reads[Top.type] /\ Depth \in DOMAIN stack
  BY AtIsARead, Depths DEF Element
<1>2. ~Good BY <1>1, PendingIsNotGood
<1>3. CASE ReadElement
  <2> DEFINE g == ArrayGetBin(Head(Top.elems))
             f == [Top EXCEPT !.obj = Pushed(g.val.raw), !.elems = Tail(@)]
  <2> HIDE DEF g
  <2>1. \/ Fail("ok", {Cursor(Depth)}) \/ Fail("parse", {Cursor(Depth)})
        \/ Fail("no_memory", {Cursor(Depth)})
        \/ Step.how = "objects" /\ Call(Step.type, g.val)
        \/ NextElement(Pushed(g.val.raw)) /\ UNCHANGED <<live, ret>>
    BY <1>3 DEF ReadElement, g
  <2>2. ASSUME NEW res, Fail(res, {Cursor(Depth)}) PROVE UnpackInv'
    BY <1>1, <2>2, PlainFailKeeps
  <2>3. CASE Step.how = "objects" /\ Call(Step.type, g.val)
    <3>1. Asks(Top) BY <1>1, <2>3 DEF Asks, ReadAt, Step
    <3>2. Step.type \in DOMAIN Reads
      BY <1>1, <2>3, TypesAssumption DEF Step, Frame
    <3>3. QED BY <1>1, <2>3, <3>1, <3>2, CallKeeps
  <2>4. CASE NextElement(Pushed(g.val.raw)) /\ UNCHANGED <<live, ret>>
    <3>1. stack' = [stack EXCEPT ![Depth] = f]
      BY <1>1, <2>4 DEF NextElement, Top, Frame
    <3>2. DOMAIN Pushed(g.val.raw) = Fields(Top.type)
      BY <1>1, StoredKeepsFields DEF Pushed
    <3>3. Frame(f) /\ f.looping BY <1>1, <3>2 DEF Frame, ReadAt
    <3> HIDE DEF f
    <3>4. GoesOnAs(f) BY <1>1, <1>2, <2>4, <3>1, <3>3 DEF GoesOnAs
    <3>5. QED BY <3>4, GoingOnKeeps
  <2>5. QED BY <2>1, <2>2, <2>3, <2>4
<1>4. CASE CloseList
  <2> DEFINE f == [Top EXCEPT !.looping = FALSE, !.at = @ + 1]
  <2>1. /\ stack' = [stack EXCEPT ![Depth] = f]
        /\ live' = live \ {Cursor(Depth)} /\ ret' = ret
    BY <1>1, <1>4 DEF CloseList, Top, Frame
  <2>2. Frame(f)
    <3>1. Top.at + 1 \in Nat \ {0} BY <1>1 DEF Frame
    <3>2. QED BY <1>1, <3>1 DEF Frame
  <2> HIDE DEF f
  <2>3. GoesOnAs(f) BY <1>1, <1>2, <2>1, <2>2 DEF GoesOnAs
  <2>4. QED BY <2>3, GoingOnKeeps
<1>5. QED BY <1>3, <1>4 DEF Element

(* What the call that returned made becomes part of the object of its       *)
(* caller, by an edge that the caller's free function follows.              *)
LEMMA AdoptedHeld ==
  ASSUME UnpackInv, stack # << >>, NEW edge, <<edge.field, edge.part>> \in Owned[edge.type],
         NEW h \in Adopted(edge)
  PROVE  \/ h \in live /\ ~(Good /\ Freeable(h, Depth + 1))
         \/ Freeable(h, Depth)
<1>1. Depth \in Nat BY Depths
<1>2. PICK x \in live : h = IF x.depth = Depth + 1
                            THEN [x EXCEPT !.depth = Depth, !.way = @ \cup {edge}]
                            ELSE x
  BY DEF Adopted
<1>3. CASE x.depth # Depth + 1 BY <1>2, <1>3 DEF Freeable
<1>4. CASE x.depth = Depth + 1
  <2>1. Held(x) BY DEF UnpackInv, AllHeld
  <2>2. ASSUME NEW d \in 1 .. Depth, HeldBy(x, d) PROVE FALSE
    <3>1. x.depth = d BY <2>2 DEF HeldBy, Reader, Cursor, Freeable
    <3>2. QED BY <3>1, <1>1, <1>4
  <2>3. Freeable(x, Depth + 1) BY <2>1, <2>2 DEF Held
  <2>4. h = [x EXCEPT !.depth = Depth, !.way = @ \cup {edge}] BY <1>2, <1>4
  <2>5. /\ DOMAIN h = {"kind", "depth", "way"} /\ h.kind = "object" /\ h.depth = Depth
        /\ h.way = x.way \cup {edge}
    BY <2>3, <2>4 DEF Freeable
  <2>6. QED BY <2>3, <2>5 DEF Freeable
<1>5. QED BY <1>3, <1>4

LEMMA TakeKeeps == ASSUME UnpackInv, Take, input' = input PROVE UnpackInv'
<1>1. /\ stack # << >> /\ ret # Pending /\ Frame(Top) /\ Asks(Top)
      /\ Depth \in Nat /\ Depth \in DOMAIN stack /\ DOMAIN stack = 1 .. Depth
  BY Depths DEF Take, Taking, UnpackInv, Asking, Top
<1>2. Top.at \in DOMAIN Reads[Top.type] BY <1>1 DEF Asks
<1>3. CASE TakeNested
  <2>1. ~Top.looping /\ Step.how = "object"
    BY <1>1, <1>3 DEF TakeNested, Asks, ReadAt, Step
  <2>2. CASE ret.res # "ok"
    <3>1. Fail("parse", {}) BY <1>3, <2>2 DEF TakeNested
    <3>2. ~Good BY <2>2 DEF Good
    <3>3. QED BY <1>1, <2>1, <3>1, <3>2, FailKeeps
  <2>3. CASE ret.res = "ok"
    <3> DEFINE f == [Top EXCEPT !.obj = WithField(ret.obj), !.at = @ + 1]
               edge == Here("self")
    <3>1. /\ stack' = [stack EXCEPT ![Depth] = f]
          /\ live' = Adopted(edge) /\ ret' = Pending
      BY <1>1, <1>3, <2>3 DEF TakeNested, Top, Frame
    <3>2. DOMAIN WithField(ret.obj) = Fields(Top.type) BY <1>1, StoredKeepsFields
    <3>3. Frame(f) /\ ~f.looping
      <4>1. Top.at + 1 \in Nat \ {0} BY <1>1 DEF Frame
      <4>2. QED BY <1>1, <2>1, <3>2, <4>1 DEF Frame
    <3>4. <<edge.field, edge.part>> \in Owned[edge.type]
      BY <1>1, <1>2, <2>1, HereIsFreed DEF Allocates
    <3> HIDE DEF f, edge
    <3>5. GoesOnAs(f)
      BY <1>1, <2>1, <3>1, <3>3, <3>4, AdoptedHeld DEF GoesOnAs
    <3>6. QED BY <3>5, GoingOnKeeps
  <2>4. QED BY <2>2, <2>3
<1>4. CASE Top.looping /\ TakeElement
  <2>1. Step.how = "objects" BY <1>1, <1>4 DEF Asks, ReadAt, Step
  <2>2. CASE ret.res # "ok" /\ Fail("parse", {Cursor(Depth)})
    <3>1. ~Good BY <2>2 DEF Good
    <3>2. QED BY <1>1, <2>2, <3>1, FailKeeps
  <2>3. CASE Fail("no_memory", {Cursor(Depth)} \cup FreedBy(Depth + 1))
    <3>1. \A h \in live : Freeable(h, Depth + 1) => h \in FreedBy(Depth + 1)
      BY DEF Freeable, FreedBy
    <3>2. QED BY <1>1, <2>3, <3>1, FailKeeps
  <2>4. CASE /\ NextElement(Pushed(ret.obj))
             /\ live' = Adopted(Here("each")) /\ ret' = Pending
    <3> DEFINE f == [Top EXCEPT !.obj = Pushed(ret.obj), !.elems = Tail(@)]
               edge == Here("each")
    <3>1. /\ stack' = [stack EXCEPT ![Depth] = f]
          /\ live' = Adopted(edge) /\ ret' = Pending
      BY <1>1, <2>4 DEF NextElement, Top, Frame
    <3>2. DOMAIN Pushed(ret.obj) = Fields(Top.type)
      BY <1>1, StoredKeepsFields DEF Pushed
    <3>3. Frame(f) /\ f.looping BY <1>1, <1>4, <3>2 DEF Frame, ReadAt
    <3>4. <<edge.field, edge.part>> \in Owned[edge.type]
      BY <1>1, <1>2, <2>1, HereIsFreed
    <3> HIDE DEF f, edge
    <3>5. GoesOnAs(f)
      BY <1>1, <3>1, <3>3, <3>4, AdoptedHeld DEF GoesOnAs
    <3>6. QED BY <3>5, GoingOnKeeps
  <2>5. QED BY <1>4, <2>2, <2>3, <2>4 DEF TakeElement
<1>5. QED BY <1>3, <1>4 DEF Take

LEMMA EndKeeps == ASSUME UnpackInv, ObjectsAreNotNull, End, input' = input PROVE UnpackInv'
BY FinishKeeps DEF End

-----------------------------------------------------------------------------
LEMMA UnpackStarts == UnpackInit => UnpackInv
<1> SUFFICES ASSUME UnpackInit PROVE UnpackInv OBVIOUS
<1>1. IsSeq(stack)
  <2>1. stack \in Seq({}) BY DEF UnpackInit
  <2>2. QED BY <2>1 DEF IsSeq
<1>2. QED BY <1>1 DEF UnpackInit, UnpackInv, Frames, Asking, AllHeld

LEMMA UnpackKeeps ==
  ASSUME ObjectsAreNotNull, UnpackInv, [UnpackNext]_unpackVars PROVE UnpackInv'
<1>1. CASE UNCHANGED unpackVars
  BY <1>1 DEF unpackVars, UnpackInv, Frames, Asking, AllHeld, Held, HeldBy, Freeable,
              Good, Depth
<1>2. CASE UnpackNext
  <2>1. /\ input' = input
        /\ Begin \/ Plain \/ Nested \/ List \/ Element \/ Take \/ End
    BY <1>2 DEF UnpackNext
  <2>2. QED
    BY <2>1, BeginKeeps, PlainKeeps, NestedKeeps, ListKeeps, ElementKeeps, TakeKeeps, EndKeeps
<1>3. QED BY <1>1, <1>2

(* A call that fails leaves nothing allocated, wherever it fails and        *)
(* however deep the object is that it was making; one that succeeds leaves  *)
(* its object, whose free function releases all that is left: for all types *)
(* whose free functions free what their reads allocate (TypesAssumption).   *)
THEOREM NeverLeaks == ASSUME ObjectsAreNotNull PROVE UnpackSpec => []NothingLeaked
<1>1. UnpackInit => UnpackInv BY UnpackStarts
<1>2. ASSUME UnpackInv, [UnpackNext]_unpackVars PROVE UnpackInv' BY <1>2, UnpackKeeps
<1>3. UnpackInv => NothingLeaked
  <2> SUFFICES ASSUME UnpackInv, Over PROVE live = (IF ret.obj = Null THEN {} ELSE FreedBy(1))
    BY DEF NothingLeaked
  <2>1. Depth = 0 BY DEF Over, Depth
  <2>2. \A h \in live : Good /\ Freeable(h, 1) BY <2>1 DEF UnpackInv, AllHeld, Held
  <2>3. QED BY <2>2 DEF Good, FreedBy, Freeable
<1>4. QED BY <1>1, <1>2, <1>3, PTL DEF UnpackSpec

-----------------------------------------------------------------------------
(* The least of some numbers.                                              *)

LEMMA LeastNumber ==
  ASSUME NEW T, T \subseteq Nat, T # {}
  PROVE  Min(T) \in T /\ \A y \in T : Min(T) <= y
<1> DEFINE R == {q \in Nat \X Nat : q[1] < q[2]}
<1>1. IsWellFoundedOn(R, Nat) BY NatLessThanWellFounded DEF OpToRel
<1>2. ASSUME NEW x \in Nat, NEW y \in Nat, x < y PROVE <<x, y>> \in R
  <2>1. <<x, y>> \in Nat \X Nat /\ <<x, y>>[1] = x /\ <<x, y>>[2] = y OBVIOUS
  <2> QED BY <1>2, <2>1, Zenon
<1> HIDE DEF R
<1>3. PICK x \in T : \A y \in T : ~(<<y, x>> \in R) BY <1>1, WFMin
<1>4. ASSUME NEW y \in T PROVE x <= y
  <2>1. x \in Nat /\ y \in Nat OBVIOUS
  <2>2. ~(y < x) BY <1>2, <1>3, <2>1
  <2> QED BY <2>1, <2>2
<1> QED BY <1>4 DEF Min

(* Induction over numbers, for a set.                                       *)
LEMMA Induction ==
  ASSUME NEW T, 0 \in T, \A n \in Nat : n \in T => n + 1 \in T
  PROVE  \A n \in Nat : n \in T
<1> SUFFICES ASSUME Nat \ T # {} PROVE FALSE OBVIOUS
<1>1. PICK x \in Nat \ T : \A y \in Nat \ T : x <= y
  <2>1. Nat \ T \subseteq Nat OBVIOUS
  <2> QED BY <2>1, LeastNumber
<1>2. x - 1 \in Nat /\ x - 1 < x /\ x = (x - 1) + 1 BY <1>1
<1>3. x - 1 \in T BY <1>1, <1>2
<1> QED BY <1>1, <1>2, <1>3

-----------------------------------------------------------------------------
(* Objects and messages within one another, level by level.                 *)

ObjectRun(f, type, o, m) ==
  f = [n \in 0 .. m |->
         IF n = 0 THEN {<<type, o>>} ELSE UNION {ObjectsIn(p) : p \in f[n - 1]}]
MessageRun(f, type, msg, m) ==
  f = [n \in 0 .. m |->
         IF n = 0 THEN {<<type, msg>>} ELSE UNION {MessagesIn(p) : p \in f[n - 1]}]

LEMMA ObjectRunExists ==
  ASSUME NEW type, NEW o, NEW m \in Nat
  PROVE  \E f : ObjectRun(f, type, o, m)
<1> DEFINE T == {k \in Nat : \E f : ObjectRun(f, type, o, k)}
<1>1. 0 \in T
  <2> DEFINE f == [n \in 0 .. 0 |-> {<<type, o>>}]
  <2>1. f = [n \in 0 .. 0 |->
               IF n = 0 THEN {<<type, o>>} ELSE UNION {ObjectsIn(p) : p \in f[n - 1]}]
    OBVIOUS
  <2> QED BY <2>1 DEF ObjectRun
<1>2. ASSUME NEW k \in Nat, k \in T PROVE k + 1 \in T
  <2>1. PICK f : ObjectRun(f, type, o, k) BY <1>2
  <2> DEFINE top == UNION {ObjectsIn(p) : p \in f[k]}
             h == [n \in 0 .. k + 1 |-> IF n = k + 1 THEN top ELSE f[n]]
  <2> HIDE DEF top
  <2>2. ASSUME NEW n \in 0 .. k + 1
        PROVE  h[n] = IF n = 0 THEN {<<type, o>>} ELSE UNION {ObjectsIn(p) : p \in h[n - 1]}
    <3>1. CASE n = 0 BY <2>1, <3>1 DEF ObjectRun
    <3>2. CASE n = k + 1
      <4>1. n # 0 /\ n - 1 = k /\ h[n] = top /\ h[k] = f[k] BY <3>2
      <4> QED BY <3>2, <4>1 DEF top
    <3>3. CASE n # 0 /\ n # k + 1
      <4>1. n \in 0 .. k /\ n - 1 \in 0 .. k /\ h[n] = f[n] /\ h[n - 1] = f[n - 1] BY <3>3
      <4> QED BY <2>1, <3>3, <4>1 DEF ObjectRun
    <3> QED BY <3>1, <3>2, <3>3
  <2>3. h = [n \in 0 .. k + 1 |-> h[n]] OBVIOUS
  <2> HIDE DEF h
  <2>4. ObjectRun(h, type, o, k + 1) BY <2>2, <2>3 DEF ObjectRun
  <2> QED BY <2>4
<1> HIDE DEF T
<1>3. m \in T BY <1>1, <1>2, Induction
<1> QED BY <1>3 DEF T

LEMMA MessageRunExists ==
  ASSUME NEW type, NEW msg, NEW m \in Nat
  PROVE  \E f : MessageRun(f, type, msg, m)
<1> DEFINE T == {k \in Nat : \E f : MessageRun(f, type, msg, k)}
<1>1. 0 \in T
  <2> DEFINE f == [n \in 0 .. 0 |-> {<<type, msg>>}]
  <2>1. f = [n \in 0 .. 0 |->
               IF n = 0 THEN {<<type, msg>>} ELSE UNION {MessagesIn(p) : p \in f[n - 1]}]
    OBVIOUS
  <2> QED BY <2>1 DEF MessageRun
<1>2. ASSUME NEW k \in Nat, k \in T PROVE k + 1 \in T
  <2>1. PICK f : MessageRun(f, type, msg, k) BY <1>2
  <2> DEFINE top == UNION {MessagesIn(p) : p \in f[k]}
             h == [n \in 0 .. k + 1 |-> IF n = k + 1 THEN top ELSE f[n]]
  <2> HIDE DEF top
  <2>2. ASSUME NEW n \in 0 .. k + 1
        PROVE  h[n] = IF n = 0 THEN {<<type, msg>>} ELSE UNION {MessagesIn(p) : p \in h[n - 1]}
    <3>1. CASE n = 0 BY <2>1, <3>1 DEF MessageRun
    <3>2. CASE n = k + 1
      <4>1. n # 0 /\ n - 1 = k /\ h[n] = top /\ h[k] = f[k] BY <3>2
      <4> QED BY <3>2, <4>1 DEF top
    <3>3. CASE n # 0 /\ n # k + 1
      <4>1. n \in 0 .. k /\ n - 1 \in 0 .. k /\ h[n] = f[n] /\ h[n - 1] = f[n - 1] BY <3>3
      <4> QED BY <2>1, <3>3, <4>1 DEF MessageRun
    <3> QED BY <3>1, <3>2, <3>3
  <2>3. h = [n \in 0 .. k + 1 |-> h[n]] OBVIOUS
  <2> HIDE DEF h
  <2>4. MessageRun(h, type, msg, k + 1) BY <2>2, <2>3 DEF MessageRun
  <2> QED BY <2>4
<1> HIDE DEF T
<1>3. m \in T BY <1>1, <1>2, Induction
<1> QED BY <1>3 DEF T

LEMMA ObjectLevelsAre ==
  ASSUME NEW type, NEW o, NEW l, l = ObjectLevels(type, o)
  PROVE  /\ l[0] = {<<type, o>>}
         /\ \A n \in 1 .. Deepest : l[n] = UNION {ObjectsIn(p) : p \in l[n - 1]}
<1>1. Deepest \in Nat BY NestingAssumption
<1>2. \E f : ObjectRun(f, type, o, Deepest) BY <1>1, ObjectRunExists
<1>3. l = CHOOSE f : ObjectRun(f, type, o, Deepest) BY Zenon DEF ObjectLevels, ObjectRun
<1>4. ObjectRun(l, type, o, Deepest) BY <1>2, <1>3
<1>5. \A n \in 0 .. Deepest :
        l[n] = IF n = 0 THEN {<<type, o>>} ELSE UNION {ObjectsIn(p) : p \in l[n - 1]}
  BY Zenon, <1>4 DEF ObjectRun
<1>6. l[0] = {<<type, o>>}
  <2>1. 0 \in 0 .. Deepest BY <1>1
  <2> QED BY Zenon, <1>5, <2>1
<1>7. ASSUME NEW n \in 1 .. Deepest PROVE l[n] = UNION {ObjectsIn(p) : p \in l[n - 1]}
  <2>1. n \in 0 .. Deepest /\ n # 0 BY <1>1
  <2> QED BY Zenon, <1>5, <2>1
<1> QED BY Zenon, <1>6, <1>7

LEMMA MessageLevelsAre ==
  ASSUME NEW type, NEW msg, NEW l, l = MessageLevels(type, msg)
  PROVE  /\ l[0] = {<<type, msg>>}
         /\ \A n \in 1 .. Deepest : l[n] = UNION {MessagesIn(p) : p \in l[n - 1]}
<1>1. Deepest \in Nat BY NestingAssumption
<1>2. \E f : MessageRun(f, type, msg, Deepest) BY <1>1, MessageRunExists
<1>3. l = CHOOSE f : MessageRun(f, type, msg, Deepest) BY Zenon DEF MessageLevels, MessageRun
<1>4. MessageRun(l, type, msg, Deepest) BY <1>2, <1>3
<1>5. \A n \in 0 .. Deepest :
        l[n] = IF n = 0 THEN {<<type, msg>>} ELSE UNION {MessagesIn(p) : p \in l[n - 1]}
  BY Zenon, <1>4 DEF MessageRun
<1>6. l[0] = {<<type, msg>>}
  <2>1. 0 \in 0 .. Deepest BY <1>1
  <2> QED BY Zenon, <1>5, <2>1
<1>7. ASSUME NEW n \in 1 .. Deepest PROVE l[n] = UNION {MessagesIn(p) : p \in l[n - 1]}
  <2>1. n \in 0 .. Deepest /\ n # 0 BY <1>1
  <2> QED BY Zenon, <1>5, <2>1
<1> QED BY Zenon, <1>6, <1>7

(* What is within an object is the object or within one of those in it.     *)
LEMMA Within ==
  ASSUME NEW type, NEW o, NEW n \in Nat, n + 1 <= Deepest,
         NEW x \in ObjectLevels(type, o)[n + 1]
  PROVE  \E q \in ObjectsIn(<<type, o>>) : x \in ObjectLevels(q[1], q[2])[n]
<1> DEFINE l == ObjectLevels(type, o)
           T == {k \in Nat : k + 1 <= Deepest =>
                   \A y \in l[k + 1] : \E q \in ObjectsIn(<<type, o>>) :
                      y \in ObjectLevels(q[1], q[2])[k]}
<1>0. Deepest \in Nat BY NestingAssumption
<1>1. /\ l[0] = {<<type, o>>}
      /\ \A k \in 1 .. Deepest : l[k] = UNION {ObjectsIn(p) : p \in l[k - 1]}
  BY ObjectLevelsAre
<1>2. \A q \in ObjectsIn(<<type, o>>) : \E t, v : q = <<t, v>> /\ q[1] = t /\ q[2] = v
  BY DEF ObjectsIn, FieldObjects
<1>3. ASSUME NEW q \in ObjectsIn(<<type, o>>)
      PROVE  /\ ObjectLevels(q[1], q[2])[0] = {q}
             /\ \A k \in 1 .. Deepest : ObjectLevels(q[1], q[2])[k] =
                   UNION {ObjectsIn(p) : p \in ObjectLevels(q[1], q[2])[k - 1]}
  BY <1>2, ObjectLevelsAre
<1> HIDE DEF l
<1>4. 0 \in T
  <2> SUFFICES ASSUME 1 <= Deepest, NEW y \in l[1]
               PROVE  \E q \in ObjectsIn(<<type, o>>) : y \in ObjectLevels(q[1], q[2])[0]
    OBVIOUS
  <2>1. 1 \in 1 .. Deepest /\ 1 - 1 = 0 BY <1>0
  <2>2. l[1] = UNION {ObjectsIn(p) : p \in l[0]} BY <1>1, <2>1
  <2>3. y \in ObjectsIn(<<type, o>>) BY <1>1, <2>2
  <2> QED BY <1>3, <2>3
<1>5. ASSUME NEW k \in Nat, k \in T PROVE k + 1 \in T
  <2> SUFFICES ASSUME k + 1 + 1 <= Deepest, NEW y \in l[k + 1 + 1]
               PROVE  \E q \in ObjectsIn(<<type, o>>) : y \in ObjectLevels(q[1], q[2])[k + 1]
    OBVIOUS
  <2>1. /\ k + 1 + 1 \in 1 .. Deepest /\ (k + 1 + 1) - 1 = k + 1 /\ k + 1 <= Deepest
        /\ k + 1 \in 1 .. Deepest /\ (k + 1) - 1 = k
    BY <1>0
  <2>2. l[k + 1 + 1] = UNION {ObjectsIn(p) : p \in l[k + 1]} BY <1>1, <2>1
  <2>3. PICK p \in l[k + 1] : y \in ObjectsIn(p) BY <2>2
  <2>4. PICK q \in ObjectsIn(<<type, o>>) : p \in ObjectLevels(q[1], q[2])[k]
    BY <1>5, <2>1, <2>3
  <2>5. ObjectLevels(q[1], q[2])[k + 1] = UNION {ObjectsIn(r) : r \in ObjectLevels(q[1], q[2])[k]}
    BY <1>3, <2>1
  <2> QED BY <2>3, <2>4, <2>5
<1> HIDE DEF T
<1>6. n \in T BY <1>4, <1>5, Induction
<1>7. \A y \in l[n + 1] : \E q \in ObjectsIn(<<type, o>>) : y \in ObjectLevels(q[1], q[2])[n]
  BY <1>6 DEF T
<1> QED BY <1>7 DEF l

(* An object is whole when it has what it requires and those in it are.     *)
FieldWhole(r, o) ==
  /\ r.required /\ r.how \in {"str", "strlist", "object"} => o[r.field] # Null
  /\ \A q \in FieldObjects(r, o[r.field]) : WholeObject(q[1], q[2])

LEMMA WholeFrom ==
  ASSUME NEW type, NEW o, o # Null, \A r \in ReadsOf(type) : FieldWhole(r, o)
  PROVE  WholeObject(type, o)
<1>0. Deepest \in Nat BY NestingAssumption
<1>1. HasRequired(<<type, o>>)
  <2>1. <<type, o>>[1] = type /\ <<type, o>>[2] = o OBVIOUS
  <2> QED BY <2>1 DEF HasRequired, FieldWhole
<1>2. ObjectLevels(type, o)[0] = {<<type, o>>} BY ObjectLevelsAre
<1>3. ASSUME NEW n \in 0 .. Deepest, NEW x \in ObjectLevels(type, o)[n]
      PROVE  HasRequired(x)
  <2>1. CASE n = 0 BY <1>1, <1>2, <1>3, <2>1
  <2>2. CASE n # 0
    <3>1. n - 1 \in Nat /\ (n - 1) + 1 = n /\ n - 1 \in 0 .. Deepest BY <1>0, <2>2
    <3>2. PICK q \in ObjectsIn(<<type, o>>) : x \in ObjectLevels(q[1], q[2])[n - 1]
      BY <1>0, <1>3, <3>1, Within
    <3>3. PICK r \in ReadsOf(type) : q \in FieldObjects(r, o[r.field]) BY <3>2 DEF ObjectsIn
    <3>4. WholeObject(q[1], q[2]) BY <3>3 DEF FieldWhole
    <3> QED BY <3>1, <3>2, <3>4 DEF WholeObject, ObjectsWithin
  <2> QED BY <2>1, <2>2
<1> QED BY <1>3 DEF WholeObject, ObjectsWithin

LEMMA WholeIsThere == ASSUME NEW type, NEW o, WholeObject(type, o) PROVE o # Null
<1>1. 0 \in 0 .. Deepest BY NestingAssumption
<1>2. ObjectLevels(type, o)[0] = {<<type, o>>} BY ObjectLevelsAre
<1>3. HasRequired(<<type, o>>) BY <1>1, <1>2 DEF WholeObject, ObjectsWithin
<1> QED BY <1>3 DEF HasRequired

LEMMA MessageBelow ==
  ASSUME NEW type, NEW msg, NEW n \in Nat, n + 1 <= Deepest,
         NEW p \in MessageLevels(type, msg)[n], NEW q \in MessagesIn(p)
  PROVE  q \in MessageLevels(type, msg)[n + 1]
<1>1. n + 1 \in 1 .. Deepest /\ (n + 1) - 1 = n BY NestingAssumption
<1>2. MessageLevels(type, msg)[n + 1] =
         UNION {MessagesIn(x) : x \in MessageLevels(type, msg)[(n + 1) - 1]}
  BY <1>1, MessageLevelsAre
<1> QED BY <1>1, <1>2

-----------------------------------------------------------------------------
(* The invariant.                                                          *)

Levels == MessageLevels(input.type, input.data.msg)
Excused == HasBadElement(input.type, input.data.msg)

(* The type that the call at depth d was asked for.                         *)
TypeOf(d) == IF d = 1 THEN input.type ELSE ReadAt(stack[d - 1]).type

(* Call d reads a message that lies d - 1 levels in the input, and the list  *)
(* it is in what is left of one in that message.                            *)
Placed(f, d) ==
  /\ f.type = TypeOf(d)
  /\ <<f.type, f.msg>> \in Levels[d - 1] /\ Rank[f.type] + d <= Deepest + 1
  /\ f.looping => f.elems \in Seq(Inner(ReadAt(f), f.msg))

(* The fields that were read are whole, those to be read name no object.    *)
SoFar(f) ==
  \A i \in DOMAIN Reads[f.type] :
    LET r == Reads[f.type][i]  v == f.obj[r.field] IN
    IF i < f.at THEN FieldWhole(r, f.obj)
    ELSE IF i = f.at /\ f.looping
    THEN IsSeq(v) /\ (r.how = "objects" => \A j \in DOMAIN v : WholeObject(r.type, v[j]))
    ELSE r.how \in {"object", "objects"} => v = Null

Placing == \A d \in DOMAIN stack : Placed(stack[d], d)
(* A call that waits for another within a list has an element before it.    *)
Waiting == \A d \in DOMAIN stack :
  (d < Depth \/ ret # Pending) /\ stack[d].looping => stack[d].elems # << >>
Answered == ret.res = "ok" => WholeObject(TypeOf(Depth + 1), ret.obj)
WholeInv ==
  /\ stack # << >> => IsMessage(input.data)
  /\ Placing /\ Waiting
  /\ Excused \/ (Answered /\ \A d \in DOMAIN stack : SoFar(stack[d]))

-----------------------------------------------------------------------------
(* The ways a step changes the stack.                                      *)

LEMMA ReturnWhole ==
  ASSUME UnpackInv, WholeInv, stack # << >>, NEW res, NEW obj, Return(res, obj),
         res = "ok" => Excused \/ WholeObject(Top.type, obj), input' = input
  PROVE  WholeInv'
<1>1. /\ Depth \in Nat \ {0} /\ DOMAIN stack = 1 .. Depth /\ Depth \in DOMAIN stack
  BY Depths
<1>2. /\ Depth' = Depth - 1 /\ DOMAIN stack' = 1 .. Depth - 1
      /\ \A d \in DOMAIN stack' : stack'[d] = stack[d]
  BY PopSeq DEF Return, UnpackInv, Frames, Depth
<1>3. Excused' = Excused /\ Levels' = Levels BY DEF Excused, Levels
<1>4. ASSUME NEW d \in 1 .. Depth PROVE TypeOf(d)' = TypeOf(d)
  <2>1. CASE d = 1 BY <2>1 DEF TypeOf
  <2>2. CASE d # 1
    <3>1. d - 1 \in DOMAIN stack' BY <1>1, <1>2, <2>2
    <3> QED BY <1>2, <2>2, <3>1 DEF TypeOf
  <2> QED BY <2>1, <2>2
<1>5. Placing'
  <2> SUFFICES ASSUME NEW d \in DOMAIN stack' PROVE Placed(stack[d], d)'
    BY DEF Placing
  <2>1. d \in 1 .. Depth /\ d \in DOMAIN stack /\ stack'[d] = stack[d] BY <1>1, <1>2
  <2>2. Placed(stack[d], d) BY <2>1 DEF WholeInv, Placing
  <2> QED BY <1>3, <1>4, <2>1, <2>2 DEF Placed
<1>6. stack' # << >> => IsMessage(input'.data) BY DEF WholeInv
<1>8. Waiting' BY <1>1, <1>2 DEF WholeInv, Waiting
<1>7. ASSUME ~Excused PROVE Answered' /\ \A d \in DOMAIN stack' : SoFar(stack'[d])
  <2>1. \A d \in DOMAIN stack' : SoFar(stack'[d]) BY <1>1, <1>2, <1>7 DEF WholeInv
  <2>2. ret'.res = res /\ ret'.obj = obj BY DEF Return, Result
  <2>3. TypeOf(Depth + 1)' = Top.type
    <3>1. (Depth + 1)' = Depth /\ Depth \in 1 .. Depth BY <1>1, <1>2
    <3>2. TypeOf(Depth + 1)' = TypeOf(Depth) BY <1>4, <3>1 DEF TypeOf
    <3>3. Top.type = TypeOf(Depth) BY <1>1 DEF WholeInv, Placing, Placed, Top
    <3> QED BY <3>2, <3>3
  <2>4. Answered' BY <1>7, <2>2, <2>3 DEF Answered
  <2> QED BY <2>1, <2>4
<1> QED BY <1>3, <1>5, <1>6, <1>7, <1>8 DEF WholeInv

LEMMA GoingOnWhole ==
  ASSUME UnpackInv, WholeInv, stack # << >>, NEW f, stack' = [stack EXCEPT ![Depth] = f],
         f.type = Top.type, f.msg = Top.msg,
         f.looping => f.elems \in Seq(Inner(ReadAt(f), f.msg)),
         Excused \/ SoFar(f), ret' = Pending, input' = input
  PROVE  WholeInv'
<1>1. /\ Depth \in Nat \ {0} /\ DOMAIN stack = 1 .. Depth /\ Depth \in DOMAIN stack
  BY Depths
<1>2. /\ DOMAIN stack' = 1 .. Depth /\ stack'[Depth] = f
      /\ \A d \in DOMAIN stack : d # Depth => stack'[d] = stack[d]
  BY ReplaceSeq DEF UnpackInv, Frames, Depth
<1>3. Excused' = Excused /\ Levels' = Levels BY DEF Excused, Levels
<1>4. ASSUME NEW d \in 1 .. Depth PROVE TypeOf(d)' = TypeOf(d)
  <2>1. CASE d = 1 BY <2>1 DEF TypeOf
  <2>2. CASE d # 1
    <3>1. d - 1 \in DOMAIN stack /\ d - 1 # Depth BY <1>1, <2>2
    <3> QED BY <1>2, <2>2, <3>1 DEF TypeOf
  <2> QED BY <2>1, <2>2
<1>5. Placing'
  <2> SUFFICES ASSUME NEW d \in DOMAIN stack' PROVE Placed(stack[d], d)'
    BY DEF Placing
  <2>1. d \in 1 .. Depth /\ d \in DOMAIN stack BY <1>1, <1>2
  <2>2. Placed(stack[d], d) BY <2>1 DEF WholeInv, Placing
  <2>3. CASE d = Depth BY <1>2, <1>3, <1>4, <2>1, <2>2, <2>3 DEF Placed, Top
  <2>4. CASE d # Depth BY <1>2, <1>3, <1>4, <2>1, <2>2, <2>4 DEF Placed
  <2> QED BY <2>3, <2>4
<1>6. IsMessage(input'.data) BY DEF WholeInv
<1>8. Waiting'
  <2>1. Depth' = Depth BY ReplaceSeq DEF UnpackInv, Frames, Depth
  <2> QED BY <1>1, <1>2, <2>1 DEF WholeInv, Waiting
<1>7. ASSUME ~Excused PROVE Answered' /\ \A d \in DOMAIN stack' : SoFar(stack'[d])
  <2>1. \A d \in DOMAIN stack' : SoFar(stack'[d]) BY <1>1, <1>2, <1>7 DEF WholeInv
  <2>2. Answered' BY DEF Answered, Pending, Result
  <2> QED BY <2>1, <2>2
<1> QED BY <1>3, <1>5, <1>6, <1>7, <1>8 DEF WholeInv

(* A new object has no nested object.                                       *)
LEMMA BlankSoFar ==
  ASSUME NEW type \in DOMAIN Reads, NEW f, f.type = type, f.obj = Blank(type),
         f.at = 1, ~f.looping
  PROVE  SoFar(f)
<1> SUFFICES ASSUME NEW i \in DOMAIN Reads[type],
                    Reads[type][i].how \in {"object", "objects"}
             PROVE  Blank(type)[Reads[type][i].field] = Null
  <2>1. \A i \in DOMAIN Reads[type] : ~(i < 1) BY TypesAssumption
  <2> QED BY <2>1 DEF SoFar
<1> DEFINE r == Reads[type][i]
<1>1. r \in ReadsOf(type) BY DEF ReadsOf
<1>2. \A x \in ReadsOf(type) : x.field = r.field => x = r
  BY NestingAssumption DEF ReadsOf
<1>3. (CHOOSE x \in ReadsOf(type) : x.field = r.field) = r BY <1>1, <1>2
<1>4. Blank(type)[r.field] = ZeroOf(r.how) BY <1>1, <1>3 DEF Blank
<1> QED BY <1>4 DEF ZeroOf

LEMMA CallWhole ==
  ASSUME UnpackInv, WholeInv, NEW type \in DOMAIN Reads, NEW data, Call(type, data),
         type = TypeOf(Depth + 1), ret = Pending, input' = input,
         stack # << >> /\ Top.looping => Top.elems # << >>,
         IsMessage(data) => /\ IsMessage(input.data) /\ <<type, data.msg>> \in Levels[Depth]
                            /\ Rank[type] + Depth <= Deepest
  PROVE  WholeInv'
<1>3. Excused' = Excused /\ Levels' = Levels BY DEF Excused, Levels
<1>1. CASE EnterFails(type, data)
  <2>1. PICK res \in {"invalid", "parse", "no_memory"} :
           ret' = Result(res, Null) /\ stack' = stack
    BY <1>1 DEF EnterFails
  <2>2. Answered' BY <2>1 DEF Answered, Result
  <2>3. Placing' BY <1>3, <2>1 DEF WholeInv, Placing, Placed, TypeOf
  <2>4. Excused \/ \A d \in DOMAIN stack' : SoFar(stack'[d]) BY <2>1 DEF WholeInv
  <2>5. stack' # << >> => IsMessage(input'.data) BY <2>1 DEF WholeInv
  <2>6. Waiting'
    <3>1. CASE stack = << >> BY <2>1, <3>1 DEF Waiting
    <3>2. CASE stack # << >>
      <4>1. DOMAIN stack = 1 .. Depth /\ Depth \in Nat BY <3>2, Depths
      <4> QED BY <2>1, <3>2, <4>1 DEF WholeInv, Waiting, Top, Depth
    <3> QED BY <3>1, <3>2
  <2> QED BY <1>3, <2>2, <2>3, <2>4, <2>5, <2>6 DEF WholeInv
<1>2. CASE Enter(type, data)
  <2> DEFINE f == [type |-> type, msg |-> data.msg, obj |-> Blank(type), at |-> 1,
                   looping |-> FALSE, elems |-> << >>]
  <2>1. stack' = Append(stack, f) /\ ret' = Pending /\ IsMessage(data)
    BY <1>2 DEF Enter
  <2>2. /\ f.type = type /\ f.msg = data.msg /\ f.obj = Blank(type) /\ f.at = 1
        /\ ~f.looping
    OBVIOUS
  <2> HIDE DEF f
  <2>3. /\ Depth \in Nat /\ DOMAIN stack' = 1 .. Depth + 1 /\ DOMAIN stack = 1 .. Depth
        /\ stack'[Depth + 1] = f
        /\ \A d \in DOMAIN stack : stack'[d] = stack[d]
    BY <2>1, PushSeq DEF UnpackInv, Frames, Depth
  <2>4. ASSUME NEW d \in 1 .. Depth + 1 PROVE TypeOf(d)' = TypeOf(d)
    <3>1. CASE d = 1 BY <3>1 DEF TypeOf
    <3>2. CASE d # 1
      <4>1. d - 1 \in DOMAIN stack BY <2>3, <3>2
      <4> QED BY <2>3, <3>2, <4>1 DEF TypeOf
    <3> QED BY <3>1, <3>2
  <2>5. Placing'
    <3> SUFFICES ASSUME NEW d \in DOMAIN stack' PROVE Placed(stack[d], d)'
      BY DEF Placing
    <3>1. CASE d = Depth + 1
      <4>1. /\ <<type, data.msg>> \in Levels[d - 1] /\ Rank[type] + d <= Deepest + 1
        <5>1. Rank[type] \in Nat /\ Deepest \in Nat BY NestingAssumption
        <5>2. d - 1 = Depth BY <2>3, <3>1
        <5> QED BY <2>1, <2>3, <3>1, <5>1, <5>2
      <4> QED BY <1>3, <2>2, <2>3, <2>4, <3>1, <4>1 DEF Placed
    <3>2. CASE d # Depth + 1
      <4>1. d \in DOMAIN stack /\ stack'[d] = stack[d] /\ TypeOf(d)' = TypeOf(d)
        BY <2>3, <2>4, <3>2
      <4>2. Placed(stack[d], d) BY <4>1 DEF WholeInv, Placing
      <4> QED BY <1>3, <4>1, <4>2 DEF Placed
    <3> QED BY <3>1, <3>2
  <2>6. SoFar(f) BY <2>2, BlankSoFar
  <2>7. Excused \/ \A d \in DOMAIN stack' : SoFar(stack'[d])
    BY <2>3, <2>6 DEF WholeInv
  <2>8. Answered' BY <2>1 DEF Answered, Pending, Result
  <2>9. Waiting'
    <3> SUFFICES ASSUME NEW d \in DOMAIN stack', stack'[d].looping PROVE stack'[d].elems # << >>
      BY DEF Waiting
    <3>1. CASE d = Depth + 1 BY <2>2, <2>3, <3>1
    <3>2. CASE d # Depth + 1
      <4>1. d \in DOMAIN stack /\ stack'[d] = stack[d] /\ d <= Depth BY <2>3, <3>2
      <4>2. stack # << >> BY <4>1
      <4>3. CASE d = Depth BY <4>1, <4>2, <4>3 DEF Top
      <4>4. CASE d # Depth
        <5>1. d < Depth BY <2>3, <4>1, <4>4
        <5> QED BY <4>1, <5>1 DEF WholeInv, Waiting
      <4> QED BY <4>3, <4>4
    <3> QED BY <3>1, <3>2
  <2> QED BY <1>3, <2>1, <2>5, <2>7, <2>8, <2>9 DEF WholeInv
<1> QED BY <1>1, <1>2 DEF Call

-----------------------------------------------------------------------------
(* What the steps are made of.                                             *)

LEMMA NoObjects ==
  /\ \A r : FieldObjects(r, Null) = {}
  /\ \A r, v : r.how \notin {"object", "objects"} => FieldObjects(r, v) = {}
<1>1. \A r : FieldObjects(r, Null) = {} BY DEF FieldObjects
<1>2. ASSUME NEW r, NEW v, r.how \notin {"object", "objects"} PROVE FieldObjects(r, v) = {}
  <2>1. CASE v = Null BY <2>1 DEF FieldObjects
  <2>2. CASE v # Null BY <1>2, <2>2 DEF FieldObjects
  <2> QED BY <2>1, <2>2
<1> QED BY <1>1, <1>2

LEMMA ListObjects ==
  ASSUME NEW r, NEW v, r.how = "objects", NEW q \in FieldObjects(r, v)
  PROVE  \E j \in DOMAIN v : q = <<r.type, v[j]>> /\ q[1] = r.type /\ q[2] = v[j]
<1>1. v # Null BY DEF FieldObjects
<1> QED BY <1>1 DEF FieldObjects

LEMMA OneObject ==
  ASSUME NEW r, NEW v, r.how = "object", NEW q \in FieldObjects(r, v)
  PROVE  q[1] = r.type /\ q[2] = v
<1>1. v # Null BY DEF FieldObjects
<1> QED BY <1>1 DEF FieldObjects

(* One more field is whole.                                                *)
LEMMA OneMore ==
  ASSUME Frame(Top), Top.at \in DOMAIN Reads[Top.type], SoFar(Top),
         NEW f, f.type = Top.type, f.at = Top.at + 1, ~f.looping,
         \A g \in Fields(Top.type) : g # Step.field => f.obj[g] = Top.obj[g],
         FieldWhole(Step, f.obj)
  PROVE  SoFar(f)
<1>1. /\ Top.type \in DOMAIN Reads /\ Top.at \in Nat
      /\ DOMAIN Reads[Top.type] \subseteq Nat
  BY TypesAssumption DEF Frame
<1> SUFFICES ASSUME NEW i \in DOMAIN Reads[Top.type], NEW r, r = Reads[Top.type][i],
                    NEW v, v = f.obj[r.field]
             PROVE  IF i < f.at THEN FieldWhole(r, f.obj)
                    ELSE r.how \in {"object", "objects"} => v = Null
  BY DEF SoFar
<1>2. CASE i = Top.at
  <2>1. r = Step BY <1>2 DEF Step
  <2> QED BY <1>1, <1>2, <2>1
<1>3. CASE i # Top.at
  <2>1. r.field # Step.field BY <1>1, <1>3, NestingAssumption DEF Step
  <2>2. f.obj[r.field] = Top.obj[r.field] BY <2>1 DEF Fields
  <2>3. CASE i < Top.at
    <3>1. FieldWhole(r, Top.obj) BY <2>3 DEF SoFar
    <3>2. FieldWhole(r, f.obj) BY <2>2, <3>1 DEF FieldWhole
    <3> QED BY <1>1, <2>3, <3>2
  <2>4. CASE ~(i < Top.at)
    <3>1. ~(i < f.at) BY <1>1, <1>3, <2>4
    <3>2. r.how \in {"object", "objects"} => Top.obj[r.field] = Null
      BY <1>3, <2>4 DEF SoFar
    <3> QED BY <2>2, <3>1, <3>2
  <2> QED BY <2>3, <2>4
<1> QED BY <1>2, <1>3

(* The list being read grows.                                              *)
LEMMA OneMoreElement ==
  ASSUME Frame(Top), Top.at \in DOMAIN Reads[Top.type], SoFar(Top),
         NEW f, f.type = Top.type, f.at = Top.at, f.looping,
         \A g \in Fields(Top.type) : g # Step.field => f.obj[g] = Top.obj[g],
         IsSeq(f.obj[Step.field]),
         Step.how = "objects" =>
           \A j \in DOMAIN f.obj[Step.field] : WholeObject(Step.type, f.obj[Step.field][j])
  PROVE  SoFar(f)
<1>1. /\ Top.type \in DOMAIN Reads /\ Top.at \in Nat
      /\ DOMAIN Reads[Top.type] \subseteq Nat
  BY TypesAssumption DEF Frame
<1> SUFFICES ASSUME NEW i \in DOMAIN Reads[Top.type], NEW r, r = Reads[Top.type][i],
                    NEW v, v = f.obj[r.field]
             PROVE  IF i < f.at THEN FieldWhole(r, f.obj)
                    ELSE IF i = f.at
                    THEN /\ IsSeq(v)
                         /\ r.how = "objects" => \A j \in DOMAIN v : WholeObject(r.type, v[j])
                    ELSE r.how \in {"object", "objects"} => v = Null
  BY DEF SoFar
<1>2. CASE i = Top.at
  <2>1. r = Step BY <1>2 DEF Step
  <2> QED BY <1>1, <1>2, <2>1
<1>3. CASE i # Top.at
  <2>1. r.field # Step.field BY <1>1, <1>3, NestingAssumption DEF Step
  <2>2. f.obj[r.field] = Top.obj[r.field] BY <2>1 DEF Fields
  <2>3. CASE i < Top.at
    <3>1. FieldWhole(r, Top.obj) BY <2>3 DEF SoFar
    <3>2. FieldWhole(r, f.obj) BY <2>2, <3>1 DEF FieldWhole
    <3> QED BY <1>1, <2>3, <3>2
  <2>4. CASE ~(i < Top.at)
    <3>1. ~(i < f.at) /\ i # f.at BY <1>1, <1>3, <2>4
    <3>2. r.how \in {"object", "objects"} => Top.obj[r.field] = Null
      BY <1>3, <2>4 DEF SoFar
    <3> QED BY <2>2, <3>1, <3>2
  <2> QED BY <2>3, <2>4
<1> QED BY <1>2, <1>3

(* The fields of the object after a value went into one of them.            *)
LEMMA StoredIs ==
  ASSUME Frame(Top), Top.at \in DOMAIN Reads[Top.type], NEW v
  PROVE  /\ WithField(v)[Step.field] = v
         /\ \A g \in Fields(Top.type) : g # Step.field => WithField(v)[g] = Top.obj[g]
<1>1. Step.field \in DOMAIN Top.obj BY DEF Frame, Fields, Step
<1> QED BY <1>1 DEF WithField, Frame

(* A field is read.                                                        *)
LEMMA ProceedWhole ==
  ASSUME UnpackInv, WholeInv, Reading, ~Top.looping, input' = input,
         NEW obj, NEW more, Proceed(obj, more),
         \A g \in Fields(Top.type) : g # Step.field => obj[g] = Top.obj[g],
         Excused \/ (SoFar(Top) => FieldWhole(Step, obj))
  PROVE  WholeInv'
<1> DEFINE f == [Top EXCEPT !.obj = obj, !.at = @ + 1, !.looping = FALSE, !.elems = << >>]
<1>1. /\ Frame(Top) /\ Depth \in DOMAIN stack /\ stack # << >>
      /\ Top.at \in DOMAIN Reads[Top.type]
  BY AtIsARead, Depths
<1>2. stack' = [stack EXCEPT ![Depth] = f] /\ ret' = Pending
  BY <1>1 DEF Proceed, Top, Frame
<1>3. /\ f.type = Top.type /\ f.msg = Top.msg /\ f.obj = obj /\ f.at = Top.at + 1
      /\ ~f.looping
  BY <1>1 DEF Frame
<1> HIDE DEF f
<1>4. Excused \/ SoFar(f)
  <2>1. Excused \/ SoFar(Top) BY <1>1 DEF WholeInv, Top
  <2> QED BY <1>1, <1>3, <2>1, OneMore
<1> QED BY <1>1, <1>2, <1>3, <1>4, GoingOnWhole

LEMMA FailWhole ==
  ASSUME UnpackInv, WholeInv, stack # << >>, input' = input,
         NEW res, NEW more, Fail(res, more), res = "ok" => Excused
  PROVE  WholeInv'
<1>1. Return(res, Null) BY DEF Fail
<1> QED BY <1>1, ReturnWhole

LEMMA GotBin ==
  ASSUME NEW msg, NEW key, NEW g, g = GetBin(msg, key), g.res = "got", g.val # Null
  PROVE  g.val = FindMapKey(msg, key)
BY DEF GetBin, Missing, Bad, Got

LEMMA GotArray ==
  ASSUME NEW msg, NEW key, NEW g, g = GetArrayCur(msg, key), g.res = "got", g.val # Null
  PROVE  FindMapKey(msg, key).kind = "array" /\ g.val = FindMapKey(msg, key).elems
BY DEF GetArrayCur, Missing, Bad, Got

-----------------------------------------------------------------------------
(* One lemma per kind of step.                                             *)

LEMMA BeginWhole ==
  ASSUME UnpackInv, WholeInv, Begin, input' = input
  PROVE  WholeInv'
<1>1. /\ stack = << >> /\ ret = Pending /\ Call(input.type, input.data) /\ Depth = 0
      /\ input.type \in DOMAIN Reads
  BY TypesAssumption DEF Begin, UnpackInv, Depth
<1>2. TypeOf(Depth + 1) = input.type BY <1>1 DEF TypeOf
<1>3. <<input.type, input.data.msg>> \in Levels[Depth] BY <1>1, MessageLevelsAre DEF Levels
<1>4. Rank[input.type] + Depth <= Deepest
  <2>1. Rank[input.type] \in 0 .. Deepest BY <1>1, NestingAssumption
  <2> QED BY <1>1, <2>1, NestingAssumption
<1> QED BY <1>1, <1>2, <1>3, <1>4, CallWhole

LEMMA PlainWhole ==
  ASSUME UnpackInv, WholeInv, Plain, input' = input
  PROVE  WholeInv'
<1>1. /\ Reading /\ stack # << >> /\ Frame(Top) /\ ~Top.looping
      /\ Top.at \in DOMAIN Reads[Top.type]
  BY AtIsARead DEF Plain
<1>2. ASSUME NEW res, Fail(res, {}), res # "ok" PROVE WholeInv'
  BY <1>1, <1>2, FailWhole
<1>3. ASSUME NEW obj, NEW more, Proceed(obj, more), Step.how \notin {"object", "objects"},
             obj = Top.obj \/ \E v : obj = WithField(v),
             Step.required /\ Step.how \in {"str", "strlist"} => obj[Step.field] # Null
      PROVE  WholeInv'
  <2>1. \A g \in Fields(Top.type) : g # Step.field => obj[g] = Top.obj[g]
    BY <1>1, <1>3, StoredIs
  <2>2. FieldObjects(Step, obj[Step.field]) = {} BY <1>3, NoObjects
  <2>3. FieldWhole(Step, obj) BY <1>3, <2>2 DEF FieldWhole
  <2> QED BY <1>1, <1>3, <2>1, <2>3, ProceedWhole
<1>4. CASE ReadInt
  <2> DEFINE g == IF Step.how \in {"u64", "i64"} THEN GetU64(Top.msg, Step.key)
                  ELSE GetU32(Top.msg, Step.key)
  <2> HIDE DEF g
  <2>1. /\ Step.how \in {"u32", "i32", "u64", "i64"}
        /\ \/ Fail("parse", {}) \/ Proceed(WithField(AsStored(g)), {}) \/ Proceed(Top.obj, {})
    BY <1>4 DEF ReadInt, g
  <2>2. Step.how \notin {"object", "objects", "str", "strlist"} BY <2>1
  <2> QED BY <2>1, <2>2, <1>2, <1>3
<1>5. CASE ReadBytes
  <2> DEFINE g == GetBin(Top.msg, Step.key)
  <2> HIDE DEF g
  <2>1. /\ Step.how = "bytes"
        /\ \/ Fail("parse", {}) \/ Proceed(WithField(g.val.raw), {}) \/ Proceed(Top.obj, {})
    BY <1>5 DEF ReadBytes, g
  <2> QED BY <2>1, <1>2, <1>3
<1>6. CASE ReadText
  <2> DEFINE g == IF Step.how = "str" THEN GetStr(Top.msg, Step.key)
                  ELSE GetStrList(Top.msg, Step.key)
  <2> HIDE DEF g
  <2>1. /\ Step.how \in {"str", "strlist"}
        /\ \/ Fail("parse", {}) \/ Fail("no_memory", {})
           \/ Proceed(WithField(g.val), {Memory(Depth, {Here("self")})}) /\ g.val # Null
           \/ Proceed(Top.obj, {}) /\ ~Step.required
    BY <1>6 DEF ReadText, g
  <2>2. WithField(g.val)[Step.field] = g.val BY <1>1, StoredIs
  <2> QED BY <2>1, <2>2, <1>2, <1>3
<1> QED BY <1>4, <1>5, <1>6 DEF Plain

(* The message that the innermost call reads is one of those in the input.  *)
LEMMA TopWithin ==
  ASSUME UnpackInv, WholeInv, stack # << >>
  PROVE  /\ <<Top.type, Top.msg>> \in MessagesWithin(input.type, input.data.msg)
         /\ IsMessage(input.data) /\ Top.type \in DOMAIN Reads
<1>1. Depth \in Nat \ {0} /\ Depth \in DOMAIN stack /\ Frame(Top) BY Depths
<1>2. Placed(Top, Depth) BY <1>1 DEF WholeInv, Placing, Top
<1>3. Depth - 1 \in 0 .. Deepest
  <2>1. Rank[Top.type] \in Nat /\ Deepest \in Nat BY <1>1, NestingAssumption DEF Frame
  <2> QED BY <1>1, <1>2, <2>1 DEF Placed
<1> QED BY <1>1, <1>2, <1>3 DEF Placed, Levels, MessagesWithin, WholeInv, Frame

(* So are those that it finds there and calls an unpack function with.      *)
LEMMA InnerPlaced ==
  ASSUME UnpackInv, WholeInv, stack # << >>, Top.at \in DOMAIN Reads[Top.type],
         Step.how \in {"object", "objects"}, NEW data \in Inner(Step, Top.msg)
  PROVE  /\ Step.type \in DOMAIN Reads /\ Step.type = TypeOf(Depth + 1)
         /\ IsMessage(data) => /\ IsMessage(input.data)
                               /\ <<Step.type, data.msg>> \in Levels[Depth]
                               /\ Rank[Step.type] + Depth <= Deepest
<1>1. Depth \in Nat \ {0} /\ Depth \in DOMAIN stack /\ Frame(Top) BY Depths
<1>2. Placed(Top, Depth) BY <1>1 DEF WholeInv, Placing, Top
<1>3. Step \in ReadsOf(Top.type) /\ Top.type \in DOMAIN Reads
  BY <1>1 DEF Frame, ReadsOf, Step
<1>4. Step.type \in DOMAIN Reads BY <1>3, TypesAssumption DEF Step
<1>5. Step.type = TypeOf(Depth + 1)
  <2>1. Depth + 1 # 1 /\ (Depth + 1) - 1 = Depth BY <1>1
  <2> QED BY <2>1 DEF TypeOf, ReadAt, Step, Top
<1>6. /\ Rank[Step.type] \in Nat /\ Rank[Top.type] \in Nat /\ Deepest \in Nat
      /\ Rank[Step.type] < Rank[Top.type]
  BY <1>3, <1>4, NestingAssumption
<1>7. Rank[Step.type] + Depth <= Deepest /\ Depth <= Deepest /\ Depth - 1 \in Nat
      /\ (Depth - 1) + 1 = Depth
  BY <1>1, <1>2, <1>6 DEF Placed
<1>8. ASSUME IsMessage(data) PROVE <<Step.type, data.msg>> \in Levels[Depth]
  <2>1. <<Step.type, data.msg>> \in MessagesOf(Step, Top.msg) BY <1>8 DEF MessagesOf
  <2>2. <<Step.type, data.msg>> \in MessagesIn(<<Top.type, Top.msg>>)
    BY <1>3, <2>1 DEF MessagesIn
  <2>3. <<Top.type, Top.msg>> \in MessageLevels(input.type, input.data.msg)[Depth - 1]
    BY <1>2 DEF Placed, Levels
  <2>4. <<Step.type, data.msg>> \in MessageLevels(input.type, input.data.msg)[(Depth - 1) + 1]
    BY <1>7, <2>2, <2>3, MessageBelow
  <2> QED BY <1>7, <2>4 DEF Levels
<1> QED BY <1>4, <1>5, <1>7, <1>8, TopWithin

LEMMA NestedWhole ==
  ASSUME UnpackInv, WholeInv, Nested, input' = input
  PROVE  WholeInv'
<1>1. /\ Reading /\ stack # << >> /\ ret = Pending /\ Frame(Top) /\ ~Top.looping
      /\ Top.at \in DOMAIN Reads[Top.type] /\ Depth \in DOMAIN stack
  BY AtIsARead, Depths DEF Nested
<1> DEFINE g == GetBin(Top.msg, Step.key)
           here == g.res = "got" /\ g.val # Null /\ g.val.size # 0
<1>2. /\ Step.how = "object"
      /\ \/ Fail("parse", {})
         \/ here /\ Call(Step.type, g.val)
         \/ Proceed(Top.obj, {}) /\ ~Step.required
  BY DEF Nested, ReadNested
<1>3. CASE Fail("parse", {}) BY <1>1, <1>3, FailWhole
<1>4. CASE here /\ Call(Step.type, g.val)
  <2>1. g.val = FindMapKey(Top.msg, Step.key) BY <1>4, GotBin
  <2>2. g.val \in Inner(Step, Top.msg) BY <1>2, <2>1 DEF Inner
  <2> HIDE DEF g
  <2> QED BY <1>1, <1>2, <1>4, <2>2, InnerPlaced, CallWhole
<1>5. CASE Proceed(Top.obj, {}) /\ ~Step.required
  <2>1. SoFar(Top) => Top.obj[Step.field] = Null
    BY <1>1, <1>2 DEF SoFar, Step, Frame
  <2>2. SoFar(Top) => FieldWhole(Step, Top.obj) BY <1>5, <2>1, NoObjects DEF FieldWhole
  <2> QED BY <1>1, <1>5, <2>2, ProceedWhole
<1> QED BY <1>2, <1>3, <1>4, <1>5

LEMMA ListWhole ==
  ASSUME UnpackInv, WholeInv, List, input' = input
  PROVE  WholeInv'
<1>1. /\ Reading /\ stack # << >> /\ ret = Pending /\ Frame(Top) /\ ~Top.looping
      /\ Top.at \in DOMAIN Reads[Top.type] /\ Depth \in DOMAIN stack
  BY AtIsARead, Depths DEF List
<1> DEFINE g == GetArrayCur(Top.msg, Step.key)
           f == [Top EXCEPT !.obj = WithField(<< >>), !.looping = TRUE, !.elems = g.val]
<1>2. /\ Step.how \in {"objects", "hashes"}
      /\ \/ Fail("parse", {}) \/ Fail("no_memory", {}) \/ Proceed(Top.obj, {})
         \/ /\ g.res = "got" /\ g.val # Null
            /\ stack' = [stack EXCEPT ![Depth].obj = WithField(<< >>),
                                      ![Depth].looping = TRUE,
                                      ![Depth].elems = g.val]
            /\ UNCHANGED ret
  BY DEF List, OpenList
<1>3. ASSUME NEW res, Fail(res, {}), res # "ok" PROVE WholeInv' BY <1>1, <1>3, FailWhole
<1>4. CASE Proceed(Top.obj, {})
  <2>1. SoFar(Top) => FieldWhole(Step, Top.obj)
    <3> SUFFICES ASSUME SoFar(Top) PROVE FieldWhole(Step, Top.obj) OBVIOUS
    <3>1. CASE Step.how = "objects"
      <4>1. Top.obj[Step.field] = Null BY <1>1, <3>1 DEF SoFar, Step, Frame
      <4> QED BY <3>1, <4>1, NoObjects DEF FieldWhole
    <3>2. CASE Step.how = "hashes" BY <3>2, NoObjects DEF FieldWhole
    <3> QED BY <1>2, <3>1, <3>2
  <2> QED BY <1>1, <1>4, <2>1, ProceedWhole
<1>5. CASE /\ g.res = "got" /\ g.val # Null
           /\ stack' = [stack EXCEPT ![Depth].obj = WithField(<< >>),
                                     ![Depth].looping = TRUE,
                                     ![Depth].elems = g.val]
           /\ UNCHANGED ret
  <2>1. stack' = [stack EXCEPT ![Depth] = f] BY <1>1, <1>5 DEF Top, Frame
  <2>2. /\ f.type = Top.type /\ f.msg = Top.msg /\ f.obj = WithField(<< >>)
        /\ f.at = Top.at /\ f.looping /\ f.elems = g.val
    BY <1>1 DEF Frame
  <2>3. f.elems \in Seq(Inner(ReadAt(f), f.msg))
    <3>1. /\ FindMapKey(Top.msg, Step.key).kind = "array"
          /\ g.val = FindMapKey(Top.msg, Step.key).elems
      BY <1>5, GotArray
    <3>2. Step \in ReadsOf(Top.type) BY <1>1 DEF Frame, ReadsOf, Step
    <3>3. /\ <<Top.type, Top.msg>> \in MessagesWithin(input.type, input.data.msg)
          /\ IsMessage(input.data) /\ input \in Inputs
      BY <1>1, TopWithin DEF UnpackInv
    <3>4. \A p \in MessagesWithin(input.type, input.data.msg) : \A r \in ReadsOf(p[1]) :
            r.how \in {"objects", "hashes"} /\ FindMapKey(p[2], r.key).kind = "array"
              => FindMapKey(p[2], r.key).elems \in Seq(Inner(r, p[2]))
      BY <3>3, InputsAssumption
    <3>5. <<Top.type, Top.msg>>[1] = Top.type /\ <<Top.type, Top.msg>>[2] = Top.msg OBVIOUS
    <3>6. FindMapKey(Top.msg, Step.key).elems \in Seq(Inner(Step, Top.msg))
      BY <1>2, <3>1, <3>2, <3>3, <3>4, <3>5
    <3>7. ReadAt(f) = Step BY <2>2 DEF ReadAt, Step
    <3> QED BY <2>2, <3>1, <3>6, <3>7
  <2> HIDE DEF f
  <2>4. Excused \/ SoFar(f)
    <3>1. Excused \/ SoFar(Top) BY <1>1 DEF WholeInv, Top
    <3>2. /\ WithField(<< >>)[Step.field] = << >>
          /\ \A h \in Fields(Top.type) : h # Step.field => WithField(<< >>)[h] = Top.obj[h]
      BY <1>1, StoredIs
    <3>3. << >> \in Seq({}) /\ DOMAIN << >> = {} OBVIOUS
    <3>4. IsSeq(<< >>) BY <3>3 DEF IsSeq
    <3> QED BY <1>1, <2>2, <3>1, <3>2, <3>3, <3>4, OneMoreElement
  <2> QED BY <1>1, <1>5, <2>1, <2>2, <2>3, <2>4, GoingOnWhole
<1> QED BY <1>2, <1>3, <1>4, <1>5

LEMMA FirstElement ==
  ASSUME NEW S, NEW s \in Seq(S), s # << >>
  PROVE  Head(s) \in S /\ Tail(s) \in Seq(S)
BY HeadTailProperties

(* An element goes to the end of the list.                                  *)
LEMMA PushedWhole ==
  ASSUME UnpackInv, WholeInv, stack # << >>, Top.looping, Top.elems # << >>,
         Top.at \in DOMAIN Reads[Top.type], input' = input,
         NEW v, NextElement(Pushed(v)), ret' = Pending,
         Excused \/ (Step.how = "objects" => WholeObject(Step.type, v))
  PROVE  WholeInv'
<1> DEFINE f == [Top EXCEPT !.obj = Pushed(v), !.elems = Tail(@)]
           old == Top.obj[Step.field]
<1>1. Frame(Top) /\ Depth \in DOMAIN stack BY Depths
<1>2. stack' = [stack EXCEPT ![Depth] = f] BY <1>1 DEF NextElement, Top, Frame
<1>3. /\ f.type = Top.type /\ f.msg = Top.msg /\ f.obj = Pushed(v) /\ f.at = Top.at
      /\ f.looping /\ f.elems = Tail(Top.elems)
  BY <1>1 DEF Frame
<1> HIDE DEF f
<1>4. f.elems \in Seq(Inner(ReadAt(f), f.msg))
  <2>1. Top.elems \in Seq(Inner(ReadAt(Top), Top.msg))
    BY <1>1 DEF WholeInv, Placing, Placed, Top
  <2>2. ReadAt(f) = ReadAt(Top) BY <1>3 DEF ReadAt
  <2> QED BY <1>3, <2>1, <2>2, FirstElement
<1>5. ASSUME ~Excused PROVE SoFar(f)
  <2>1. SoFar(Top) BY <1>1, <1>5 DEF WholeInv, Top
  <2>2. /\ IsSeq(old)
        /\ Step.how = "objects" => \A j \in DOMAIN old : WholeObject(Step.type, old[j])
    <3>1. ~(Top.at < Top.at) BY <1>1 DEF Frame
    <3>2. /\ IsSeq(Top.obj[Step.field])
          /\ Step.how = "objects" =>
               \A j \in DOMAIN Top.obj[Step.field] :
                  WholeObject(Step.type, Top.obj[Step.field][j])
      BY Zenon, <2>1, <3>1 DEF SoFar, Step
    <3> QED BY Zenon, <3>2
  <2> DEFINE new == Append(old, v)
  <2> HIDE DEF old
  <2>3. /\ IsSeq(new) /\ DOMAIN new = 1 .. Len(old) + 1 /\ DOMAIN old = 1 .. Len(old)
        /\ Len(old) \in Nat /\ new[Len(old) + 1] = v /\ \A j \in DOMAIN old : new[j] = old[j]
    BY <2>2, PushSeq
  <2> HIDE DEF new
  <2>4. Step.how = "objects" => \A j \in DOMAIN new : WholeObject(Step.type, new[j])
    <3> SUFFICES ASSUME Step.how = "objects", NEW j \in DOMAIN new
                 PROVE  WholeObject(Step.type, new[j])
      OBVIOUS
    <3>1. CASE j = Len(old) + 1 BY <1>5, <2>3, <3>1
    <3>2. CASE j # Len(old) + 1
      <4>1. j \in DOMAIN old BY <2>3, <3>2
      <4> QED BY <2>2, <2>3, <4>1
    <3> QED BY <3>1, <3>2
  <2>5. /\ f.obj[Step.field] = new
        /\ \A g \in Fields(Top.type) : g # Step.field => f.obj[g] = Top.obj[g]
    <3>1. Pushed(v) = WithField(new) BY DEF Pushed, new, old
    <3>2. /\ WithField(new)[Step.field] = new
          /\ \A g \in Fields(Top.type) : g # Step.field => WithField(new)[g] = Top.obj[g]
      BY <1>1, StoredIs
    <3> QED BY <1>3, <3>1, <3>2
  <2>6. /\ IsSeq(f.obj[Step.field])
        /\ Step.how = "objects" =>
             \A j \in DOMAIN f.obj[Step.field] : WholeObject(Step.type, f.obj[Step.field][j])
    BY Zenon, <2>3, <2>4, <2>5
  <2> QED BY Zenon, <1>1, <1>3, <2>1, <2>5, <2>6, OneMoreElement
<1> QED BY <1>2, <1>3, <1>4, <1>5, GoingOnWhole

LEMMA ElementWhole ==
  ASSUME UnpackInv, WholeInv, Element, input' = input
  PROVE  WholeInv'
<1>1. /\ stack # << >> /\ ret = Pending /\ Frame(Top) /\ Top.looping
      /\ Top.at \in DOMAIN Reads[Top.type] /\ Depth \in DOMAIN stack
  BY AtIsARead, Depths DEF Element
<1>2. Step.how \in {"objects", "hashes"} BY <1>1 DEF Frame, ReadAt, Step
<1>3. Top.elems \in Seq(Inner(Step, Top.msg))
  <2>1. Top.elems \in Seq(Inner(ReadAt(Top), Top.msg))
    BY <1>1 DEF WholeInv, Placing, Placed, Top
  <2> QED BY <2>1 DEF ReadAt, Step
<1>4. CASE ReadElement
  <2> DEFINE e == Head(Top.elems)
             g == ArrayGetBin(e)
  <2>1. Top.elems # << >> BY <1>4 DEF ReadElement
  <2>2. e \in Inner(Step, Top.msg) BY <1>3, <2>1, FirstElement
  <2> HIDE DEF e
  <2>3. \/ g.res = "parse" /\ Fail("ok", {Cursor(Depth)})
        \/ Fail("parse", {Cursor(Depth)}) \/ Fail("no_memory", {Cursor(Depth)})
        \/ g.res = "got" /\ Step.how = "objects" /\ Call(Step.type, g.val)
        \/ Step.how = "hashes" /\ NextElement(Pushed(g.val.raw)) /\ UNCHANGED <<live, ret>>
    BY <1>4 DEF ReadElement, e
  <2>4. CASE g.res = "parse" /\ Fail("ok", {Cursor(Depth)})
    <3>1. e.kind # "bin" BY <2>4 DEF ArrayGetBin, Got
    <3>2. Step \in ReadsOf(Top.type) BY <1>1 DEF Frame, ReadsOf, Step
    <3>3. <<Top.type, Top.msg>> \in MessagesWithin(input.type, input.data.msg)
      BY <1>1, TopWithin
    <3>4. <<Top.type, Top.msg>>[1] = Top.type /\ <<Top.type, Top.msg>>[2] = Top.msg OBVIOUS
    <3>5. Excused
      BY <1>2, <2>2, <3>1, <3>2, <3>3, <3>4 DEF Excused, HasBadElement
    <3> QED BY <1>1, <2>4, <3>5, FailWhole
  <2>5. ASSUME NEW res, Fail(res, {Cursor(Depth)}), res # "ok" PROVE WholeInv'
    BY <1>1, <2>5, FailWhole
  <2>6. CASE g.res = "got" /\ Step.how = "objects" /\ Call(Step.type, g.val)
    <3>1. g.val = e BY <2>6 DEF ArrayGetBin, Got, Bad
    <3> QED BY <1>1, <2>1, <2>2, <2>6, <3>1, InnerPlaced, CallWhole
  <2>7. CASE Step.how = "hashes" /\ NextElement(Pushed(g.val.raw)) /\ UNCHANGED <<live, ret>>
    BY <1>1, <2>1, <2>7, PushedWhole
  <2> QED BY <2>3, <2>4, <2>5, <2>6, <2>7
<1>5. CASE CloseList
  <2> DEFINE f == [Top EXCEPT !.looping = FALSE, !.at = @ + 1]
  <2>1. stack' = [stack EXCEPT ![Depth] = f] /\ ret' = Pending
    BY <1>1, <1>5 DEF CloseList, Top, Frame
  <2>2. /\ f.type = Top.type /\ f.msg = Top.msg /\ f.obj = Top.obj
        /\ f.at = Top.at + 1 /\ ~f.looping
    BY <1>1 DEF Frame
  <2> HIDE DEF f
  <2>3. ASSUME ~Excused PROVE SoFar(f)
    <3>1. SoFar(Top) BY <1>1, <2>3 DEF WholeInv, Top
    <3>2. ~(Top.at < Top.at) BY <1>1 DEF Frame
    <3>3. Step.how = "objects" =>
             \A j \in DOMAIN Top.obj[Step.field] :
                WholeObject(Step.type, Top.obj[Step.field][j])
      BY Zenon, <1>1, <3>1, <3>2 DEF SoFar, Step
    <3>4. ASSUME NEW q \in FieldObjects(Step, Top.obj[Step.field])
          PROVE  WholeObject(q[1], q[2])
      <4>1. Step.how = "objects" BY <1>2, NoObjects
      <4>2. PICK j \in DOMAIN Top.obj[Step.field] :
               q[1] = Step.type /\ q[2] = Top.obj[Step.field][j]
        BY <4>1, ListObjects
      <4> QED BY <3>3, <4>1, <4>2
    <3>5. FieldWhole(Step, Top.obj) BY <1>2, <3>4 DEF FieldWhole
    <3> QED BY <1>1, <2>2, <3>1, <3>5, OneMore
  <2> QED BY <1>1, <2>1, <2>2, <2>3, GoingOnWhole
<1> QED BY <1>4, <1>5 DEF Element

LEMMA TakeWhole ==
  ASSUME UnpackInv, WholeInv, Take, input' = input
  PROVE  WholeInv'
<1>1. /\ stack # << >> /\ ret # Pending /\ Frame(Top) /\ Asks(Top)
      /\ Depth \in Nat \ {0} /\ Depth \in DOMAIN stack /\ DOMAIN stack = 1 .. Depth
      /\ Top.at \in DOMAIN Reads[Top.type]
  BY Depths DEF Take, Taking, UnpackInv, Asking, Top, Asks
<1>2. TypeOf(Depth + 1) = Step.type
  <2>1. Depth + 1 # 1 /\ (Depth + 1) - 1 = Depth BY <1>1
  <2> QED BY <2>1 DEF TypeOf, ReadAt, Step, Top
<1>3. ret.res = "ok" => Excused \/ WholeObject(Step.type, ret.obj)
  BY <1>2 DEF WholeInv, Answered
<1>4. CASE TakeNested
  <2>1. ~Top.looping /\ Step.how = "object"
    BY <1>1, <1>4 DEF TakeNested, Asks, ReadAt, Step
  <2>2. CASE ret.res # "ok"
    <3>1. Fail("parse", {}) BY <1>4, <2>2 DEF TakeNested
    <3> QED BY <1>1, <3>1, FailWhole
  <2>3. CASE ret.res = "ok"
    <3> DEFINE f == [Top EXCEPT !.obj = WithField(ret.obj), !.at = @ + 1]
    <3>1. stack' = [stack EXCEPT ![Depth] = f] /\ ret' = Pending
      BY <1>1, <1>4, <2>3 DEF TakeNested, Top, Frame
    <3>2. /\ f.type = Top.type /\ f.msg = Top.msg /\ f.obj = WithField(ret.obj)
          /\ f.at = Top.at + 1 /\ ~f.looping
      BY <1>1, <2>1 DEF Frame
    <3> HIDE DEF f
    <3>3. /\ WithField(ret.obj)[Step.field] = ret.obj
          /\ \A g \in Fields(Top.type) : g # Step.field => WithField(ret.obj)[g] = Top.obj[g]
      BY <1>1, StoredIs
    <3>4. ASSUME ~Excused PROVE SoFar(f)
      <4>1. SoFar(Top) BY <1>1, <3>4 DEF WholeInv, Top
      <4>2. WholeObject(Step.type, ret.obj) /\ ret.obj # Null
        BY <1>3, <2>3, <3>4, WholeIsThere
      <4>3. FieldWhole(Step, f.obj)
        BY <2>1, <3>2, <3>3, <4>2, OneObject DEF FieldWhole
      <4>4. \A g \in Fields(Top.type) : g # Step.field => f.obj[g] = Top.obj[g]
        BY <3>2, <3>3
      <4> QED BY <1>1, <3>2, <4>1, <4>3, <4>4, OneMore
    <3> QED BY <1>1, <3>1, <3>2, <3>4, GoingOnWhole
  <2> QED BY <2>2, <2>3
<1>5. CASE Top.looping /\ TakeElement
  <2>1. ASSUME NEW res, NEW more, Fail(res, more), res # "ok" PROVE WholeInv'
    BY <1>1, <2>1, FailWhole
  <2>2. CASE /\ NextElement(Pushed(ret.obj)) /\ ret' = Pending /\ ret.res = "ok"
    <3>1. Top.elems # << >> BY <1>1, <1>5 DEF WholeInv, Waiting, Top
    <3> QED BY <1>1, <1>3, <1>5, <2>2, <3>1, PushedWhole
  <2> QED BY <1>5, <2>1, <2>2 DEF TakeElement
<1> QED BY <1>4, <1>5 DEF Take

LEMMA EndWhole ==
  ASSUME UnpackInv, WholeInv, ObjectsAreNotNull, End, input' = input
  PROVE  WholeInv'
<1>1. /\ stack # << >> /\ Frame(Top) /\ Depth \in DOMAIN stack
      /\ Top.at > Len(Reads[Top.type])
  BY Depths DEF End
<1>2. Return("ok", Top.obj) BY DEF End, Finish
<1>3. ASSUME ~Excused PROVE WholeObject(Top.type, Top.obj)
  <2>1. SoFar(Top) BY <1>1, <1>3 DEF WholeInv, Top
  <2>2. Top.obj # Null BY <1>1 DEF ObjectsAreNotNull, Frame
  <2>3. /\ Top.type \in DOMAIN Reads /\ Top.at \in Nat
        /\ \A i \in DOMAIN Reads[Top.type] : i < Top.at
    BY <1>1, TypesAssumption DEF Frame
  <2>4. ASSUME NEW r \in ReadsOf(Top.type) PROVE FieldWhole(r, Top.obj)
    <3>1. PICK i \in DOMAIN Reads[Top.type] : r = Reads[Top.type][i] BY DEF ReadsOf
    <3> QED BY <2>1, <2>3, <3>1 DEF SoFar
  <2> QED BY <2>2, <2>4, WholeFrom
<1> QED BY <1>1, <1>2, <1>3, ReturnWhole

-----------------------------------------------------------------------------
(* An unpack function that reports success gives an object with everything  *)
(* its type requires, in all the objects nested in it as well, unless some  *)
(* list in the bytes has an element that is no bytes: for all types that    *)
(* nest to a bounded depth, and all bytes.                                  *)
THEOREM WholeOnSuccess == ASSUME ObjectsAreNotNull PROVE UnpackSpec => []SuccessIsWhole
<1> DEFINE Inv == UnpackInv /\ WholeInv
<1>1. UnpackInit => Inv
  <2> SUFFICES ASSUME UnpackInit PROVE Inv OBVIOUS
  <2>1. UnpackInv BY UnpackStarts
  <2>2. stack = << >> /\ ret = Pending /\ DOMAIN stack = {} BY DEF UnpackInit
  <2>3. Answered BY <2>2 DEF Answered, Pending, Result
  <2> QED BY <2>1, <2>2, <2>3 DEF WholeInv, Placing, Waiting
<1>2. ASSUME Inv, [UnpackNext]_unpackVars PROVE Inv'
  <2>1. UnpackInv' BY <1>2, UnpackKeeps
  <2>2. CASE UNCHANGED unpackVars
    <3>1. UNCHANGED <<input, stack, ret>> BY <2>2 DEF unpackVars
    <3> QED
      BY <1>2, <2>1, <3>1 DEF WholeInv, Placing, Placed, TypeOf, Levels, Excused, Waiting,
                              Answered, Depth
  <2>3. CASE UnpackNext
    <3>1. /\ input' = input
          /\ Begin \/ Plain \/ Nested \/ List \/ Element \/ Take \/ End
      BY <2>3 DEF UnpackNext
    <3> QED
      BY <1>2, <2>1, <3>1, BeginWhole, PlainWhole, NestedWhole, ListWhole, ElementWhole,
         TakeWhole, EndWhole
  <2> QED BY <1>2, <2>2, <2>3
<1>3. Inv => SuccessIsWhole
  <2> SUFFICES ASSUME Inv, Over, ret.res = "ok"
               PROVE  WholeObject(input.type, ret.obj) \/ Excused
    BY DEF SuccessIsWhole, Excused
  <2>1. Depth + 1 = 1 BY DEF Over, Depth
  <2>2. TypeOf(Depth + 1) = input.type BY <2>1 DEF TypeOf
  <2> QED BY <2>2 DEF WholeInv, Answered
<1> QED BY <1>1, <1>2, <1>3, PTL DEF UnpackSpec

-----------------------------------------------------------------------------
(* The registry.                                                           *)

-----------------------------------------------------------------------------
(* Numbers.                                                                *)

(* The remainder of a number that is at most once around the modulus.       *)
LEMMA OnceAround ==
  ASSUME NEW m \in Nat, m > 0, NEW r \in 0 .. m - 1
  PROVE  r % m = r /\ (r + m) % m = r /\ (r - m) % m = r
<1>1. r % m = r OBVIOUS
<1>2. (r + m) % m = r OBVIOUS
<1>3. (r - m) % m = r OBVIOUS
<1> QED BY <1>1, <1>2, <1>3

LEMMA RemainderInRange ==
  ASSUME NEW m \in Nat, m > 0, NEW r \in Int
  PROVE  r % m \in 0 .. m - 1
OBVIOUS

LEMMA Widths ==
  /\ Half32 \in Nat /\ Half32 > 32767 /\ 2 * Half32 \in Nat /\ 2 * Half32 > 0
  /\ Half64 \in Nat /\ Half64 >= 2 * Half32 /\ 2 * Half64 \in Nat /\ 2 * Half64 > 0
BY WidthAssumption, RegistryAssumption DEF UnknownProvider

(* A number in range is not changed by the cast to its type.                *)
LEMMA WrappedInRange ==
  ASSUME NEW half \in Nat, half > 0, NEW n \in Int, -half <= n, n < half
  PROVE  Wrapped(n, half) = n
<1>1. 2 * half \in Nat /\ 2 * half > 0 /\ n + half \in 0 .. 2 * half - 1 OBVIOUS
<1>2. (n + half) % (2 * half) = n + half BY <1>1, OnceAround
<1> QED BY <1>2 DEF Wrapped

LEMMA SmallIsItself ==
  ASSUME NEW n \in Int, -32768 < n, n < 32768 PROVE AsI32(n) = n
BY Widths, WrappedInRange DEF AsI32

LEMMA AsI64IsInt == ASSUME NEW n \in Int PROVE AsI64(n) \in Int
<1>1. (n + Half64) % (2 * Half64) \in 0 .. 2 * Half64 - 1 BY Widths, RemainderInRange
<1> QED BY <1>1, Widths DEF AsI64, Wrapped

LEMMA I32IsI64 ==
  ASSUME NEW n \in Int, -Half32 <= n, n < 2 * Half32 PROVE AsI64(n) = n
BY Widths, WrappedInRange DEF AsI64

(* An enum cast to int, and back from its bytes.                            *)
LEMMA EnumReadsBack ==
  ASSUME NEW id \in Enums
  PROVE  /\ AsI32(id) \in Int /\ AsI64(AsI32(id)) = AsI32(id)
         /\ AsI32(id) % (2 * Half32) = id
<1> DEFINE m == 2 * Half32
<1>0. m \in Nat /\ m > 0 /\ id \in 0 .. m - 1 BY Widths DEF Enums
<1>1. CASE id < Half32
  <2>1. AsI32(id) = id BY <1>1, Widths, WrappedInRange DEF AsI32, Enums
  <2>2. id % m = id BY <1>0, OnceAround
  <2> QED BY <2>1, <2>2, Widths, I32IsI64 DEF Enums
<1>2. CASE id >= Half32
  <2>1. id + Half32 = (id - Half32) + m /\ id - Half32 \in 0 .. m - 1
    BY <1>0, <1>2, Widths
  <2>2. (id + Half32) % m = id - Half32 BY <1>0, <2>1, OnceAround
  <2>3. AsI32(id) = id - m BY <2>2, <1>0, Widths DEF AsI32, Wrapped
  <2>4. (id - m) % m = id BY <1>0, OnceAround
  <2>5. AsI64(id - m) = id - m BY <1>0, <1>2, Widths, I32IsI64
  <2> QED BY <2>3, <2>4, <2>5, <1>0
<1> QED BY <1>0, <1>1, <1>2, Widths

-----------------------------------------------------------------------------
(* Reading a message.                                                      *)

Hits(msg, key) == {i \in DOMAIN msg : msg[i].key # Null /\ AsI32(msg[i].key) = key}

(* A key found is a pair of the message; a key that one pair has is there.  *)
LEMMA Found ==
  ASSUME NEW msg, Len(msg) \in Nat, DOMAIN msg = 1 .. Len(msg), NEW key
  PROVE  \/ FindMapKey(msg, key) = Absent
         \/ \E i \in DOMAIN msg : FindMapKey(msg, key) = msg[i].value
<1>1. CASE Hits(msg, key) = {} BY <1>1 DEF FindMapKey, Hits
<1>2. CASE Hits(msg, key) # {}
  <2>1. Hits(msg, key) \subseteq Nat BY DEF Hits
  <2>2. Min(Hits(msg, key)) \in Hits(msg, key) BY <1>2, <2>1, LeastNumber
  <2>3. FindMapKey(msg, key) = msg[Min(Hits(msg, key))].value
    BY <1>2 DEF FindMapKey, Hits
  <2> QED BY <2>2, <2>3 DEF Hits
<1> QED BY <1>1, <1>2

LEMMA FoundAt ==
  ASSUME NEW msg, NEW key, NEW i \in Nat, Hits(msg, key) = {i}
  PROVE  FindMapKey(msg, key) = msg[i].value
<1>1. Min({i}) = i BY LeastNumber
<1> QED BY <1>1 DEF FindMapKey, Hits

(* What well-formed bytes hold.                                             *)
LEMMA FoundDecoded ==
  ASSUME NEW data, WellFormed(data), IsMessage(data), NEW key
  PROVE  Decoded(FindMapKey(data.msg, key))
<1>1. \/ FindMapKey(data.msg, key) = Absent
      \/ \E i \in DOMAIN data.msg : FindMapKey(data.msg, key) = data.msg[i].value
  BY Found DEF WellFormed
<1>2. Decoded(Absent) BY DEF Decoded, Absent
<1> QED BY <1>1, <1>2 DEF WellFormed

LEMMA GotNumber ==
  ASSUME NEW data, WellFormed(data), IsMessage(data), NEW key,
         GetI64(data.msg, key).res = "got"
  PROVE  GetI64(data.msg, key).val \in Int
<1> DEFINE v == FindMapKey(data.msg, key)
<1>1. Decoded(v) BY FoundDecoded
<1> HIDE DEF v
<1>2. v.kind = "int" /\ GetI64(data.msg, key) = Got(AsI64(v.n))
  BY DEF GetI64, v, Got, Missing, Bad
<1>3. v.n \in Int BY <1>1, <1>2 DEF Decoded
<1> QED BY <1>2, <1>3, AsI64IsInt DEF Got

LEMMA GotU32 ==
  ASSUME NEW data, WellFormed(data), IsMessage(data), NEW key,
         GetU32(data.msg, key).res = "got"
  PROVE  GetU32(data.msg, key).val \in Enums
<1> DEFINE g == GetI64(data.msg, key)
<1>1. g.res = "got" /\ GetU32(data.msg, key) = g /\ ~(g.val < 0) /\ ~(g.val >= 2 * Half32)
  BY DEF GetU32, GetU64, Bad
<1>2. g.val \in Int BY <1>1, GotNumber
<1> QED BY <1>1, <1>2, Widths DEF Enums

LEMMA GotText ==
  ASSUME NEW data, WellFormed(data), IsMessage(data), NEW key
  PROVE  Else(GetStr(data.msg, key), Null) \in Texts
<1> DEFINE v == FindMapKey(data.msg, key)
<1>1. Decoded(v) BY FoundDecoded
<1> HIDE DEF v
<1>2. \/ v.kind = "str" /\ GetStr(data.msg, key) = Got(v.s)
      \/ GetStr(data.msg, key) = Got(Null)
      \/ GetStr(data.msg, key) = Missing \/ GetStr(data.msg, key) = Bad
  BY DEF GetStr, v
<1> QED BY <1>1, <1>2 DEF Decoded, Got, Missing, Bad, Else, Texts

LEMMA GotTexts ==
  ASSUME NEW data, WellFormed(data), IsMessage(data), NEW key,
         GetStrList(data.msg, key).res # "parse"
  PROVE  GetStrList(data.msg, key).val \in Seq(STRING) \cup {Null}
<1> DEFINE v == FindMapKey(data.msg, key)
<1>1. Decoded(v) BY FoundDecoded
<1> HIDE DEF v
<1>2. \/ GetStrList(data.msg, key) = Got(Null)
      \/ /\ v.kind = "array" /\ \A i \in DOMAIN v.elems : v.elems[i].kind = "str"
         /\ GetStrList(data.msg, key) = Got([i \in DOMAIN v.elems |-> v.elems[i].s])
  BY DEF GetStrList, v, Bad
<1>3. CASE /\ v.kind = "array" /\ \A i \in DOMAIN v.elems : v.elems[i].kind = "str"
           /\ GetStrList(data.msg, key) = Got([i \in DOMAIN v.elems |-> v.elems[i].s])
  <2>1. /\ Len(v.elems) \in Nat /\ DOMAIN v.elems = 1 .. Len(v.elems)
        /\ \A i \in DOMAIN v.elems : v.elems[i].s \in STRING
    BY <1>1, <1>3 DEF Decoded
  <2>2. [i \in DOMAIN v.elems |-> v.elems[i].s] \in [1 .. Len(v.elems) -> STRING]
    BY <2>1
  <2>3. [i \in DOMAIN v.elems |-> v.elems[i].s] \in Seq(STRING)
    BY <2>1, <2>2, SeqDef
  <2> QED BY <1>3, <2>3 DEF Got
<1> QED BY <1>2, <1>3 DEF Got

-----------------------------------------------------------------------------
(* Objects.                                                                *)

(* The identity of an object has an entry in its table, or is the one that  *)
(* stands for none.                                                         *)
UnknownId(k) == IF k = "provider" THEN UnknownProvider ELSE 0
Proper(k) ==
  {o \in Objects(k) : k = "family" \/ Known(k, o.id) \/ o.id = UnknownId(k)}
Cells == (UNION {Proper(k) : k \in Kinds}) \cup {Null}

LEMMA ProperIsCell ==
  ASSUME NEW k \in Kinds, NEW o \in Proper(k)
  PROVE  o \in Cells /\ o # Null /\ o.kind = k /\ Null \notin Proper(k)
<1>1. Null \notin Objects(k) BY RegistryAssumption
<1>2. o.kind = k BY DEF Proper, Objects
<1> QED BY <1>1, <1>2 DEF Proper, Cells

(* The kind of an object tells what fields it has.                          *)
LEMMA KindTells ==
  ASSUME NEW o \in Cells, o # Null
  PROVE  o.kind \in Kinds /\ o \in Proper(o.kind)
<1>1. PICK k \in Kinds : o \in Proper(k) BY DEF Cells
<1>2. o.kind = k BY <1>1 DEF Proper, Objects
<1> QED BY <1>1, <1>2

LEMMA SmallEnums == 0 \in Enums /\ UnknownProvider \in Enums
BY Widths DEF Enums, UnknownProvider

LEMMA TemplateProper ==
  ASSUME NEW k \in {"provider", "loader"}, NEW id, Known(k, id)
  PROVE  Template(k, id) \in Proper(k) /\ Template(k, id).id = id /\ ~Template(k, id).owns
<1>1. PICK i \in DOMAIN Templates[k] : Templates[k][i].id = id BY DEF Known
<1> DEFINE j == CHOOSE n \in DOMAIN Templates[k] : Templates[k][n].id = id
<1>2. j \in DOMAIN Templates[k] /\ Templates[k][j].id = id BY <1>1
<1>3. Template(k, id) = Templates[k][j] BY DEF Template
<1> HIDE DEF j
<1>4. Templates[k] \in Seq(Objects(k)) /\ ~Templates[k][j].owns
  BY <1>2, RegistryAssumption
<1>5. Templates[k][j] \in Objects(k) BY <1>2, <1>4
<1> QED BY <1>1, <1>2, <1>3, <1>4, <1>5 DEF Proper

(* The entries of a table.                                                  *)
LEMMA EntryProper ==
  ASSUME NEW k \in {"provider", "loader"}, NEW i \in DOMAIN Templates[k]
  PROVE  /\ Templates[k][i] \in Proper(k) /\ Parts(Templates[k][i]) = 0
         /\ Templates[k] \in Seq(Objects(k))
<1>1. Templates[k] \in Seq(Objects(k)) /\ ~Templates[k][i].owns
  BY RegistryAssumption
<1>2. Templates[k][i] \in Objects(k) BY <1>1
<1>3. Known(k, Templates[k][i].id) BY DEF Known
<1>4. Templates[k][i].kind = k BY <1>2 DEF Objects
<1> QED BY <1>1, <1>2, <1>3, <1>4 DEF Proper, Parts

LEMMA FamilyProper ==
  ASSUME NEW id \in Enums, NEW snapshot \in {0, 1},
         NEW versions \in Seq(STRING) \cup {Null}
  PROVE  Family(id, snapshot, versions) \in Proper("family")
BY DEF Family, Proper, Objects

Onlines(k) == IF k = "provider" THEN {0, 1} ELSE {0}

LEMMA SiteFields ==
  ASSUME NEW k \in {"provider", "loader"}, NEW o \in Proper(k)
  PROVE  /\ o.kind = k /\ o.id \in Enums /\ o.url \in Texts /\ o.owns \in BOOLEAN
         /\ o.flags \in Enums /\ o.online \in Onlines(k)
         /\ Known(k, o.id) \/ o.id = UnknownId(k)
<1>1. o \in [kind : {k}, id : Enums, url : Texts, owns : BOOLEAN, online : Onlines(k),
             flags : Enums]
  BY DEF Proper, Objects, Onlines
<1> QED BY <1>1 DEF Proper

Updated(o, url, owns, online, flags) ==
  [o EXCEPT !.url = url, !.owns = owns, !.online = online, !.flags = flags]
LEMMA SiteUpdated ==
  ASSUME NEW k \in {"provider", "loader"}, NEW o \in Proper(k), NEW url \in Texts,
         NEW owns \in BOOLEAN, NEW online \in Onlines(k), NEW flags \in Enums,
         NEW p, p = Updated(o, url, owns, online, flags)
  PROVE  /\ p \in Proper(k) /\ p.id = o.id /\ p.url = url /\ p.owns = owns
         /\ p.online = online /\ p.flags = flags /\ p.kind = k
<1> DEFINE Sites == [kind : {k}, id : Enums, url : Texts, owns : BOOLEAN,
                     online : Onlines(k), flags : Enums]
<1>1. o \in Sites /\ (Known(k, o.id) \/ o.id = UnknownId(k))
  BY DEF Proper, Objects, Onlines
<1>2. p \in Sites BY <1>1 DEF Updated
<1>3. /\ p.id = o.id /\ p.url = url /\ p.owns = owns
      /\ p.online = online /\ p.flags = flags /\ p.kind = k
  BY <1>1 DEF Updated
<1>4. Sites = Objects(k) BY DEF Objects, Onlines
<1> QED BY <1>1, <1>2, <1>3, <1>4 DEF Proper

WithUrl(o, url, owns) ==
  [o EXCEPT !.url = url, !.owns = owns]
LEMMA SiteUrlChanged ==
  ASSUME NEW k \in {"provider", "loader"}, NEW o \in Proper(k), NEW url \in Texts,
         NEW owns \in BOOLEAN,
         NEW p, p = WithUrl(o, url, owns)
  PROVE  /\ p \in Proper(k) /\ p.id = o.id /\ p.kind = k
         /\ p.url = url /\ p.owns = owns /\ p.flags = o.flags /\ p.online = o.online
<1> DEFINE Sites == [kind : {k}, id : Enums, url : Texts, owns : BOOLEAN,
                     online : Onlines(k), flags : Enums]
<1>1. o \in Sites /\ (Known(k, o.id) \/ o.id = UnknownId(k))
  BY DEF Proper, Objects, Onlines
<1>2. p \in Sites BY <1>1 DEF WithUrl
<1>3. /\ p.id = o.id /\ p.kind = k /\ p.url = url /\ p.owns = owns /\ p.flags = o.flags /\ p.online = o.online
  BY <1>1 DEF WithUrl
<1>4. Sites = Objects(k) BY DEF Objects, Onlines
<1> QED BY <1>1, <1>2, <1>3, <1>4 DEF Proper

WithFlags(o, flags) ==
  [o EXCEPT !.flags = flags]
LEMMA SiteFlagsChanged ==
  ASSUME NEW k \in {"provider", "loader"}, NEW o \in Proper(k), NEW flags \in Enums,
         NEW p, p = WithFlags(o, flags)
  PROVE  /\ p \in Proper(k) /\ p.id = o.id /\ p.kind = k
         /\ p.url = o.url /\ p.owns = o.owns /\ p.flags = flags /\ p.online = o.online
<1> DEFINE Sites == [kind : {k}, id : Enums, url : Texts, owns : BOOLEAN,
                     online : Onlines(k), flags : Enums]
<1>1. o \in Sites /\ (Known(k, o.id) \/ o.id = UnknownId(k))
  BY DEF Proper, Objects, Onlines
<1>2. p \in Sites BY <1>1 DEF WithFlags
<1>3. /\ p.id = o.id /\ p.kind = k /\ p.url = o.url /\ p.owns = o.owns /\ p.flags = flags /\ p.online = o.online
  BY <1>1 DEF WithFlags
<1>4. Sites = Objects(k) BY DEF Objects, Onlines
<1> QED BY <1>1, <1>2, <1>3, <1>4 DEF Proper

Switched(o, online, flags) ==
  [o EXCEPT !.online = online, !.flags = flags]
LEMMA SiteSwitched ==
  ASSUME NEW k \in {"provider", "loader"}, NEW o \in Proper(k), NEW online \in Onlines(k),
         NEW flags \in Enums,
         NEW p, p = Switched(o, online, flags)
  PROVE  /\ p \in Proper(k) /\ p.id = o.id /\ p.kind = k
         /\ p.url = o.url /\ p.owns = o.owns /\ p.flags = flags /\ p.online = online
<1> DEFINE Sites == [kind : {k}, id : Enums, url : Texts, owns : BOOLEAN,
                     online : Onlines(k), flags : Enums]
<1>1. o \in Sites /\ (Known(k, o.id) \/ o.id = UnknownId(k))
  BY DEF Proper, Objects, Onlines
<1>2. p \in Sites BY <1>1 DEF Switched
<1>3. /\ p.id = o.id /\ p.kind = k /\ p.url = o.url /\ p.owns = o.owns /\ p.flags = flags /\ p.online = online
  BY <1>1 DEF Switched
<1>4. Sites = Objects(k) BY DEF Objects, Onlines
<1> QED BY <1>1, <1>2, <1>3, <1>4 DEF Proper

LEMMA FamilyFields ==
  ASSUME NEW o \in Proper("family")
  PROVE  /\ o = Family(o.id, o.snapshot, o.versions)
         /\ o.id \in Enums /\ o.snapshot \in {0, 1}
         /\ o.versions \in Seq(STRING) \cup {Null} /\ o.kind = "family"
BY DEF Proper, Objects, Family

(* What unpack starts from.                                                 *)
LEMMA MadeProper ==
  ASSUME NEW k \in {"provider", "loader"}, NEW id
  PROVE  /\ Make(k, id) \in Proper(k)
         /\ IF Known(k, id) THEN Make(k, id) = Template(k, id) /\ Make(k, id).id = id
            ELSE Make(k, id).id = UnknownId(k)
<1>1. CASE Known(k, id)
  <2>1. Make(k, id) = Template(k, id) BY <1>1 DEF Make
  <2> QED BY <1>1, <2>1, TemplateProper
<1>2. CASE ~Known(k, id)
  <2>1. Make(k, id) = Site(k, UnknownId(k), Null, 0, 0) BY <1>2 DEF Make, UnknownId
  <2>2. UnknownId(k) \in Enums /\ 0 \in Enums BY SmallEnums DEF UnknownId
  <2>3. Null \in Texts /\ 0 \in Onlines(k) BY DEF Texts, Onlines
  <2>4. Make(k, id) \in [kind : {k}, id : Enums, url : Texts, owns : BOOLEAN,
                         online : Onlines(k), flags : Enums]
    BY <2>1, <2>2, <2>3 DEF Site
  <2>5. Make(k, id) \in Objects(k) BY <2>4 DEF Objects, Onlines
  <2>6. Make(k, id).id = UnknownId(k) BY <2>1 DEF Site
  <2> QED BY <1>2, <2>5, <2>6 DEF Proper
<1> QED BY <1>1, <1>2

(* What unpack makes of well-formed bytes.                                  *)
LEMMA UnpackProper ==
  ASSUME NEW k \in Kinds, NEW data, WellFormed(data), Unpackable(k, data)
  PROVE  Unpack(k, data) \in Proper(k)
<1>1. IsMessage(data) /\ GetI64(data.msg, 2).res = "got" BY DEF Unpackable, Readable
<1>2. EnumOf(data.msg) \in Enums
  <2>1. GetI64(data.msg, 2).val \in Int BY <1>1, GotNumber
  <2> QED BY <2>1, Widths, RemainderInRange DEF EnumOf, Enums
<1>3. CASE k = "family"
  <2>1. GetStrList(data.msg, 4).val \in Seq(STRING) \cup {Null}
    BY <1>1, <1>3, GotTexts DEF Unpackable
  <2>2. AsBool(Else(GetI64(data.msg, 3), 0)) \in {0, 1} BY DEF AsBool
  <2> QED BY <1>2, <1>3, <2>1, <2>2, FamilyProper DEF Unpack, UnpackFamily
<1>4. CASE k # "family"
  <2> DEFINE made == Make(k, EnumOf(data.msg))
             url == Else(GetStr(data.msg, 4), Null)
             flags == GetU32(data.msg, IF k = "provider" THEN 6 ELSE 5)
             online == AsBool(Else(GetI64(data.msg, 5), 0))
  <2>0. k \in {"provider", "loader"} BY <1>4 DEF Kinds
  <2>1. made \in Proper(k) BY <2>0, MadeProper
  <2>2. url \in Texts BY <1>1, GotText
  <2>3. Else(flags, 0) \in Enums BY <1>1, GotU32, SmallEnums DEF Else
  <2>4. online \in {0, 1} BY DEF AsBool
  <2> DEFINE newUrl == IF url \in {Null, ""} THEN made.url ELSE url
             newOwns == url \notin {Null, ""}
             newOnline == IF k = "provider" THEN online ELSE made.online
             o == Unpack(k, data)
  <2>5. made.url \in Texts /\ made.online \in Onlines(k) BY <2>0, <2>1, SiteFields
  <2>6. o = [made EXCEPT !.url = newUrl, !.owns = newOwns, !.online = newOnline,
                         !.flags = Else(flags, 0)]
    <3>1. o = UnpackSite(k, data.msg) BY <1>4 DEF Unpack
    <3> HIDE DEF o
    <3>2. UnpackSite(k, data.msg) =
            [made EXCEPT !.url = newUrl, !.owns = newOwns, !.online = newOnline,
                         !.flags = Else(flags, 0)]
      BY Zenon DEF UnpackSite
    <3> HIDE DEF made, newUrl, newOwns, newOnline, flags
    <3> QED BY <3>1, <3>2
  <2>7. newUrl \in Texts /\ newOwns \in BOOLEAN /\ newOnline \in Onlines(k)
    <3> HIDE DEF made, url, online
    <3>1. newUrl \in Texts BY <2>2, <2>5
    <3>2. newOwns \in BOOLEAN OBVIOUS
    <3>3. newOnline \in Onlines(k) BY <2>4, <2>5 DEF Onlines
    <3> QED BY <3>1, <3>2, <3>3
  <2> HIDE DEF made, flags, newUrl, newOwns, newOnline, o
  <2>9. o = Updated(made, newUrl, newOwns, newOnline, Else(flags, 0))
    BY <2>6, Zenon DEF Updated
  <2>8. o \in Proper(k) BY <2>0, <2>1, <2>3, <2>9, <2>7, SiteUpdated
  <2> QED BY <2>8 DEF o
<1> QED BY <1>3, <1>4

(* The copy that a selection by identity makes.                             *)
LEMMA CopyProper ==
  ASSUME NEW k \in Kinds, NEW o \in Proper(k), k # "family" => Known(k, o.id),
         NEW copy \in Copies(o)
  PROVE  copy \in Proper(k) /\ copy.id = o.id
<1>1. CASE k = "family"
  <2>0. o \in Proper("family") /\ o.kind = "family" /\ copy \in FamilyCopies(o)
    BY <1>1, FamilyFields DEF Copies
  <2>1. o.id \in Enums /\ o.snapshot \in {0, 1} /\ o.versions \in Seq(STRING) \cup {Null}
    BY <2>0, FamilyFields
  <2>2. CASE o.versions = Null
    <3>1. copy = Family(o.id, o.snapshot, << >>) /\ << >> \in Seq(STRING)
      BY <2>0, <2>2 DEF FamilyCopies
    <3>2. copy.id = o.id BY <3>1 DEF Family
    <3> QED BY <1>1, <2>1, <3>1, <3>2, FamilyProper
  <2>3. CASE o.versions # Null
    <3>1. PICK kept \in Subsequences(o.versions) :
            copy = Family(o.id, o.snapshot, [i \in DOMAIN kept |-> o.versions[kept[i]]])
      BY <2>0, <2>3 DEF FamilyCopies
    <3>2. PICK n \in 0 .. Len(o.versions) : kept \in [1 .. n -> DOMAIN o.versions]
      BY <3>1 DEF Subsequences
    <3>3. o.versions \in Seq(STRING) /\ n \in Nat BY <2>1, <2>3, <3>2
    <3> DEFINE vs == [i \in DOMAIN kept |-> o.versions[kept[i]]]
    <3>4. vs \in [1 .. n -> STRING] BY <3>2, <3>3
    <3>5. vs \in Seq(STRING) BY <3>3, <3>4, SeqDef
    <3> HIDE DEF vs
    <3>6. copy.id = o.id BY <3>1 DEF Family
    <3> QED BY <1>1, <2>1, <3>1, <3>5, <3>6, FamilyProper DEF vs
  <2> QED BY <2>2, <2>3
<1>2. CASE k # "family"
  <2>0. k \in {"provider", "loader"} /\ o.kind = k BY <1>2, ProperIsCell DEF Kinds
  <2> DEFINE t == Template(k, o.id)  new == [t EXCEPT !.flags = o.flags]
  <2>1. copy = new \/ (o.url # Null /\ copy = [new EXCEPT !.url = o.url, !.owns = TRUE])
    BY <1>2, <2>0 DEF Copies, SiteCopies
  <2>2. t \in Proper(k) /\ t.id = o.id BY <1>2, <2>0, TemplateProper
  <2> HIDE DEF t
  <2>3. /\ t.url \in Texts /\ t.owns \in BOOLEAN /\ t.online \in Onlines(k)
        /\ o.url \in Texts /\ o.flags \in Enums
    BY <2>0, <2>2, SiteFields
  <2>4. new \in Proper(k) /\ new.id = t.id
    <3>1. new = WithFlags(t, o.flags) BY DEF WithFlags
    <3> QED BY <3>1, <2>0, <2>2, <2>3, SiteFlagsChanged
  <2> HIDE DEF new
  <2>6. CASE copy = new BY <2>2, <2>4, <2>6
  <2>7. CASE copy = [new EXCEPT !.url = o.url, !.owns = TRUE]
    <3> DEFINE owns == TRUE
    <3>1. owns \in BOOLEAN /\ copy = WithUrl(new, o.url, owns) BY <2>7 DEF WithUrl
    <3> HIDE DEF owns
    <3>2. copy \in Proper(k) /\ copy.id = new.id
      BY <2>0, <2>3, <2>4, <3>1, SiteUrlChanged
    <3> QED BY <2>2, <2>4, <3>2
  <2> QED BY <2>1, <2>6, <2>7 DEF new
<1> QED BY <1>1, <1>2

-----------------------------------------------------------------------------
(* Counting the URL strings and version lists.                             *)

Marked(H) == {a \in Addrs : H[a] # Null /\ Parts(H[a]) = 1}
Count(H) == Cardinality(Marked(H))
Weight(o) == IF o # Null /\ Parts(o) = 1 THEN 1 ELSE 0

LEMMA CountType ==
  ASSUME NEW H PROVE IsFiniteSet(Marked(H)) /\ Count(H) \in Nat
<1>1. Marked(H) \subseteq Addrs /\ IsFiniteSet(Addrs)
  BY RegistryAssumption DEF Marked
<1>2. IsFiniteSet(Marked(H)) BY <1>1, FS_Subset
<1> QED BY <1>2, FS_CardinalityType DEF Count

LEMMA PartsIsBit == ASSUME NEW o PROVE Parts(o) \in {0, 1} /\ (o # Null => Weight(o) = Parts(o))
BY DEF Parts, Weight

(* One address changes.                                                     *)
LEMMA CountOne ==
  ASSUME NEW S, NEW H \in [Addrs -> S], NEW a \in Addrs, NEW o
  PROVE  Count([H EXCEPT ![a] = o]) = Count(H) + Weight(o) - Weight(H[a])
<1> DEFINE G == [H EXCEPT ![a] = o]
<1>0. /\ G[a] = o /\ \A x \in Addrs : x # a => G[x] = H[x]
  OBVIOUS
<1> HIDE DEF G
<1>1. IsFiniteSet(Marked(H)) /\ Count(H) \in Nat /\ IsFiniteSet(Marked(G)) /\ Count(G) \in Nat
  BY CountType
<1>2. CASE Weight(o) = 1 /\ Weight(H[a]) = 0
  <2>1. Marked(G) = Marked(H) \cup {a} /\ a \notin Marked(H)
    BY <1>0, <1>2 DEF Marked, Weight
  <2>2. Count(G) = Count(H) + 1 BY <1>1, <2>1, FS_AddElement DEF Count
  <2> QED BY <1>1, <1>2, <2>2 DEF G
<1>3. CASE Weight(o) = 0 /\ Weight(H[a]) = 1
  <2>1. Marked(G) = Marked(H) \ {a} /\ a \in Marked(H)
    BY <1>0, <1>3 DEF Marked, Weight
  <2>2. Count(G) = Count(H) - 1 BY <1>1, <2>1, FS_RemoveElement DEF Count
  <2> QED BY <1>1, <1>3, <2>2 DEF G
<1>4. CASE Weight(o) = Weight(H[a])
  <2>1. Marked(G) = Marked(H)
    BY <1>0, <1>4 DEF Marked, Weight
  <2> QED BY <1>1, <1>4, <2>1 DEF Count, G, Weight
<1>5. Weight(o) \in {0, 1} /\ Weight(H[a]) \in {0, 1} BY DEF Weight
<1> QED BY <1>2, <1>3, <1>4, <1>5

(* Many are freed.                                                          *)
LEMMA CountFreed ==
  ASSUME NEW cells, cells \subseteq Addrs, \A a \in cells : heap[a] # Null
  PROVE  Count(Freed(cells)) = Count(heap) - PartsOf(cells)
<1> DEFINE M == Marked(heap)  C == {a \in cells : Parts(heap[a]) = 1}
<1>1. Marked(Freed(cells)) = M \ C BY DEF Marked, Freed
<1>2. C \subseteq M BY DEF Marked
<1>3. IsFiniteSet(M) /\ Cardinality(M) \in Nat BY CountType DEF Count
<1>4. IsFiniteSet(C) BY <1>2, <1>3, FS_Subset
<1> HIDE DEF M, C
<1>5. Cardinality(M \ C) = Cardinality(M) - Cardinality(M \cap C) /\ M \cap C = C
  BY <1>2, <1>3, FS_Difference
<1> QED BY <1>1, <1>5 DEF Count, PartsOf, M, C

-----------------------------------------------------------------------------
(* The invariant: everything is of its kind, nobody has what another has,   *)
(* what somebody has is an object and every object somebody has, and as     *)
(* many parts are allocated as the objects own and unpack wrote over.       *)

TypesInv ==
  /\ kinds \subseteq Kinds /\ mine \subseteq Addrs
  /\ heap \in [Addrs -> Cells]
  /\ list \in [Kinds -> Seq(Addrs)]
  /\ current \in [Kinds -> Addrs \cup {Null}]
  /\ \A k \in Kinds : \A i \in DOMAIN list[k] : heap[list[k][i]] \in Proper(k)
  /\ \A k \in Kinds : current[k] # Null => heap[current[k]] \in Proper(k)

Listed(a) == \E k \in Kinds : \E i \in DOMAIN list[k] : list[k][i] = a
Current(a) == \E k \in Kinds : current[k] = a
Apart ==
  /\ \A a \in mine : ~Listed(a) /\ ~Current(a)
  /\ \A a \in Addrs : ~(Listed(a) /\ Current(a))
  /\ \A j, k \in Kinds : current[j] = current[k] /\ current[j] # Null => j = k
  /\ \A j, k \in Kinds : \A i \in DOMAIN list[j] : \A m \in DOMAIN list[k] :
       list[j][i] = list[k][m] => j = k /\ i = m
Had == \A a \in Addrs : heap[a] # Null <=> a \in mine \/ Listed(a) \/ Current(a)

IInv == TypesInv /\ Apart /\ Had /\ lost \in Nat /\ parts = Count(heap) + lost

LEMMA ListElement ==
  ASSUME TypesInv, NEW k \in Kinds, NEW i \in DOMAIN list[k]
  PROVE  list[k][i] \in Addrs /\ heap[list[k][i]] \in Proper(k) /\ list[k] \in Seq(Addrs)
BY DEF TypesInv

(* An object changes, what it owns being freed or lost; or the program has  *)
(* one more.                                                                *)
LEMMA InPlaceKeeps ==
  ASSUME IInv, NEW a \in Addrs, heap[a] # Null, NEW o \in Proper(heap[a].kind),
         heap' = [heap EXCEPT ![a] = o], lost' \in Nat,
         parts' = parts + Parts(o) - Parts(heap[a]) + (lost' - lost),
         UNCHANGED <<list, current, mine, kinds>>
  PROVE  IInv'
<1>1. heap[a] \in Cells /\ heap[a].kind \in Kinds /\ heap[a] \in Proper(heap[a].kind)
  BY KindTells DEF IInv, TypesInv
<1>2. o \in Cells /\ o # Null BY <1>1, ProperIsCell
<1>3. /\ heap' \in [Addrs -> Cells] /\ heap'[a] = o
      /\ \A x \in Addrs : x # a => heap'[x] = heap[x]
  BY <1>2 DEF IInv, TypesInv
<1>4. ASSUME NEW k \in Kinds, heap[a] \in Proper(k) PROVE heap'[a] \in Proper(k)
  <2>1. heap[a].kind = k BY <1>4, ProperIsCell
  <2> QED BY <2>1, <1>3
<1>5. TypesInv'
  <2>1. ASSUME NEW k \in Kinds, NEW i \in DOMAIN list[k]
        PROVE  heap'[list[k][i]] \in Proper(k)
    BY <1>3, <1>4, ListElement DEF IInv
  <2>2. ASSUME NEW k \in Kinds, current[k] # Null PROVE heap'[current[k]] \in Proper(k)
    BY <1>3, <1>4, <2>2 DEF IInv, TypesInv
  <2> QED BY <1>3, <2>1, <2>2 DEF IInv, TypesInv
<1>6. Apart' BY DEF IInv, Apart, Listed, Current
<1>7. Had' BY <1>2, <1>3 DEF IInv, Had, Listed, Current
<1>8. Count(heap') = Count(heap) + Weight(o) - Weight(heap[a])
  BY CountOne DEF IInv, TypesInv
<1>9. parts' = Count(heap') + lost'
  BY <1>1, <1>2, <1>8, CountType, PartsIsBit DEF IInv
<1> QED BY <1>5, <1>6, <1>7, <1>9 DEF IInv, Count, Marked

(* What is free nobody has.                                                 *)
LEMMA FreshIsFree ==
  ASSUME IInv, NEW a \in Fresh
  PROVE  /\ a \in Addrs /\ heap[a] = Null /\ a \notin mine /\ ~Listed(a) /\ ~Current(a)
         /\ a # Null
BY RegistryAssumption DEF IInv, Had, Fresh

LEMMA NewKeeps ==
  ASSUME IInv, NEW a \in Fresh, NEW k \in Kinds, NEW o \in Proper(k),
         heap' = [heap EXCEPT ![a] = o], parts' = parts + Parts(o),
         mine' = mine \cup {a}, UNCHANGED <<list, current, lost, kinds>>
  PROVE  IInv'
<1>1. /\ a \in Addrs /\ heap[a] = Null /\ a \notin mine /\ ~Listed(a) /\ ~Current(a)
  BY FreshIsFree
<1>2. o \in Cells /\ o # Null BY ProperIsCell
<1>3. /\ heap' \in [Addrs -> Cells] /\ heap'[a] = o
      /\ \A x \in Addrs : x # a => heap'[x] = heap[x]
  BY <1>1, <1>2 DEF IInv, TypesInv
<1>4. TypesInv'
  <2>1. ASSUME NEW j \in Kinds, NEW i \in DOMAIN list[j]
        PROVE  heap'[list[j][i]] \in Proper(j)
    BY <1>1, <1>3, ListElement DEF IInv, Listed
  <2>2. ASSUME NEW j \in Kinds, current[j] # Null PROVE heap'[current[j]] \in Proper(j)
    BY <1>1, <1>3, <2>2 DEF IInv, TypesInv, Current
  <2> QED BY <1>1, <1>3, <2>1, <2>2 DEF IInv, TypesInv
<1>5. Apart' BY <1>1 DEF IInv, Apart, Listed, Current
<1>6. Had' BY <1>2, <1>3 DEF IInv, Had, Listed, Current
<1>7. Count(heap') = Count(heap) + Weight(o) - Weight(heap[a])
  BY <1>1, CountOne DEF IInv, TypesInv
<1>8. Weight(heap[a]) = 0 /\ Weight(o) = Parts(o) BY <1>1, <1>2, PartsIsBit DEF Weight
<1>9. parts' = Count(heap') + lost
  BY <1>7, <1>8, CountType, PartsIsBit DEF IInv
<1> QED BY <1>4, <1>5, <1>6, <1>9 DEF IInv, Count, Marked

(* Something else is selected, and what was is freed.                       *)
LEMMA SelectKeeps ==
  ASSUME IInv, NEW k \in Kinds, NEW a \in Addrs, NEW o \in Proper(k), Select(k, a, o),
         \/ a \in Fresh /\ mine' = mine
         \/ a \in mine /\ mine' = mine \ {a} /\ o = heap[a],
         UNCHANGED <<list, lost, kinds>>
  PROVE  IInv'
<1> DEFINE old == current[k]
           H == IF old = Null THEN heap ELSE [heap EXCEPT ![old] = Null]
<1>0. /\ a # Null /\ ~Listed(a) /\ ~Current(a) /\ old \in Addrs \cup {Null} /\ a # old
      /\ o \in Cells /\ o # Null
  BY FreshIsFree, ProperIsCell, RegistryAssumption DEF IInv, Apart, TypesInv, Current
<1>1. heap \in [Addrs -> Cells] /\ Null \in Cells BY DEF IInv, TypesInv, Cells
<1>2. heap' = [x \in Addrs |-> IF x = a THEN o ELSE IF x = old THEN Null ELSE heap[x]]
  BY DEF Select
<1>3. current' = [current EXCEPT ![k] = a]
  BY DEF Select
<1>4. /\ heap' \in [Addrs -> Cells] /\ heap'[a] = o
      /\ old # Null => heap'[old] = Null
      /\ \A x \in Addrs : x # a /\ x # old => heap'[x] = heap[x]
  BY <1>0, <1>1, <1>2
<1>5. /\ current' \in [Kinds -> Addrs \cup {Null}] /\ current'[k] = a
      /\ \A j \in Kinds : j # k => current'[j] = current[j]
  BY <1>3 DEF IInv, TypesInv
<1>6. ASSUME NEW j \in Kinds, j # k, current[j] # Null
      PROVE  current[j] \in Addrs /\ current[j] # a /\ current[j] # old
  BY <1>0, <1>6 DEF IInv, Apart, TypesInv, Current
<1>7. ASSUME NEW j \in Kinds, NEW i \in DOMAIN list[j]
      PROVE  list[j][i] \in Addrs /\ list[j][i] # a /\ list[j][i] # old
  <2>1. list[j][i] \in Addrs /\ Listed(list[j][i]) BY ListElement DEF IInv, Listed
  <2>2. ~Current(list[j][i]) BY <2>1 DEF IInv, Apart
  <2> QED BY <1>0, <2>1, <2>2 DEF Current
<1>8. TypesInv'
  <2>1. ASSUME NEW j \in Kinds, NEW i \in DOMAIN list[j]
        PROVE  heap'[list[j][i]] \in Proper(j)
    BY <1>4, <1>7, ListElement DEF IInv
  <2>2. ASSUME NEW j \in Kinds, current'[j] # Null PROVE heap'[current'[j]] \in Proper(j)
    BY <1>4, <1>5, <1>6, <2>2 DEF IInv, TypesInv
  <2>3. mine' \subseteq Addrs BY DEF IInv, TypesInv
  <2> QED BY <1>4, <1>5, <2>1, <2>2, <2>3 DEF IInv, TypesInv
<1>9. \A x \in Addrs : Listed(x)' <=> Listed(x) BY DEF Listed
<1>10. \A x \in Addrs : Current(x)' <=> x = a \/ (x # old /\ Current(x))
  <2> SUFFICES ASSUME NEW x \in Addrs
               PROVE  Current(x)' <=> x = a \/ (x # old /\ Current(x))
    OBVIOUS
  <2>1. x # Null BY RegistryAssumption
  <2> QED BY <2>1, <1>5, <1>6 DEF Current
<1>11. Apart'
  <2>1. \A x \in mine' : x \in mine /\ x # a
    BY FreshIsFree
  <2>2. \A x \in mine' : ~Listed(x)' /\ ~Current(x)'
    BY <2>1, <1>9, <1>10 DEF IInv, Apart, TypesInv
  <2>3. \A x \in Addrs : ~(Listed(x)' /\ Current(x)')
    BY <1>0, <1>9, <1>10 DEF IInv, Apart
  <2>4. \A j, m \in Kinds : current'[j] = current'[m] /\ current'[j] # Null => j = m
    BY <1>5, <1>6, <1>0 DEF IInv, Apart
  <2>5. \A j, m \in Kinds : \A i \in DOMAIN list'[j] : \A n \in DOMAIN list'[m] :
          list'[j][i] = list'[m][n] => j = m /\ i = n
    BY DEF IInv, Apart
  <2> QED BY <2>2, <2>3, <2>4, <2>5 DEF Apart
<1>12. Had'
  <2> SUFFICES ASSUME NEW x \in Addrs
               PROVE  heap'[x] # Null <=> x \in mine' \/ Listed(x)' \/ Current(x)'
    BY DEF Had
  <2>1. CASE x = a BY <2>1, <1>0, <1>4, <1>10
  <2>2. CASE x # a /\ x = old
    <3>1. old # Null BY <2>2, RegistryAssumption
    <3>2. Current(x) BY <2>2 DEF Current
    <3>3. x \notin mine /\ ~Listed(x) BY <3>2 DEF IInv, Apart
    <3> QED BY <2>2, <3>1, <3>3, <1>4, <1>9, <1>10
  <2>3. CASE x # a /\ x # old BY <2>3, <1>4, <1>9, <1>10 DEF IInv, Had
  <2> QED BY <2>1, <2>2, <2>3
<1>13. parts' = Count(heap') + lost
  <2>1. heap' = [H EXCEPT ![a] = o] /\ H \in [Addrs -> Cells] /\ H[a] = heap[a]
    <3>1. H \in [Addrs -> Cells] BY <1>1
    <3>2. \A x \in Addrs : H[x] = IF x = old THEN Null ELSE heap[x]
      BY <1>0, <1>1, RegistryAssumption
    <3> HIDE DEF H, old
    <3>3. [H EXCEPT ![a] = o] = [x \in Addrs |-> IF x = a THEN o ELSE H[x]] BY <3>1
    <3>4. heap' = [x \in Addrs |-> IF x = a THEN o ELSE H[x]] BY <1>2, <3>2
    <3> QED BY <1>0, <3>1, <3>2, <3>3, <3>4
  <2>2. Count(heap') = Count(H) + Weight(o) - Weight(heap[a])
    BY <2>1, CountOne
  <2>3. Count(H) = Count(heap) - (IF old = Null THEN 0 ELSE Parts(heap[old]))
    <3>1. CASE old = Null BY <3>1, CountType
    <3>2. CASE old # Null
      <4>1. Count(H) = Count(heap) + Weight(Null) - Weight(heap[old])
        BY <3>2, <1>0, <1>1, CountOne
      <4>2. heap[old] # Null BY <3>2, ProperIsCell DEF IInv, TypesInv
      <4>3. Weight(Null) = 0 /\ Weight(heap[old]) = Parts(heap[old])
        BY <4>2, PartsIsBit DEF Weight
      <4> QED BY <3>2, <4>1, <4>3, CountType, PartsIsBit
    <3> QED BY <3>1, <3>2
  <2>4. Weight(o) = Parts(o) /\ Parts(o) \in {0, 1} BY <1>0, PartsIsBit
  <2>5. Weight(heap[a]) = IF a \in mine THEN Parts(o) ELSE 0
    <3>1. CASE a \in Fresh /\ mine' = mine BY <3>1, FreshIsFree DEF Weight
    <3>2. CASE a \in mine /\ mine' = mine \ {a} /\ o = heap[a] BY <3>2, <2>4
    <3> QED BY <3>1, <3>2
  <2>6. parts' = parts + Parts(o) - (IF a \in mine THEN Parts(o) ELSE 0)
                   - (IF old = Null THEN 0 ELSE Parts(heap[old]))
    BY DEF Select
  <2>7. /\ Count(heap) \in Nat /\ Parts(heap[old]) \in {0, 1}
        /\ lost \in Nat /\ parts = Count(heap) + lost
    BY CountType, PartsIsBit DEF IInv
  <2> HIDE DEF H, old
  <2> QED BY <2>2, <2>3, <2>4, <2>5, <2>6, <2>7
<1> QED BY <1>8, <1>11, <1>12, <1>13 DEF IInv, Count, Marked

-----------------------------------------------------------------------------
(* Packed and unpacked again.                                              *)

IsAfterTwo(c, h, p) ==
  /\ Len(c) = Len(p) + 2 /\ Len(p) \in Nat /\ c[1] = h[1] /\ c[2] = h[2]
  /\ \A i \in 1 .. Len(p) : c[i + 2] = p[i]
LEMMA AfterTwo ==
  ASSUME NEW T, NEW h \in Seq(T), Len(h) = 2, NEW p \in Seq(T)
  PROVE  h \o p \in Seq(T) /\ IsAfterTwo(h \o p, h, p)
<1>0. /\ h \o p \in Seq(T) /\ Len(h \o p) = Len(h) + Len(p)
      /\ \A i \in 1 .. Len(h) + Len(p) :
           (h \o p)[i] = IF i <= Len(h) THEN h[i] ELSE p[i - Len(h)]
  BY ConcatProperties, Zenon
<1> DEFINE c == h \o p
<1> HIDE DEF c
<1>1. c \in Seq(T) /\ Len(c) = Len(p) + 2 /\ Len(p) \in Nat
  BY <1>0 DEF c
<1>2. \A i \in 1 .. Len(p) + 2 : c[i] = IF i <= 2 THEN h[i] ELSE p[i - 2]
  BY <1>0, <1>1 DEF c
<1>3. ASSUME NEW i \in 1 .. Len(p) PROVE c[i + 2] = p[i]
  <2>1. i + 2 \in 1 .. Len(p) + 2 /\ ~(i + 2 <= 2) /\ (i + 2) - 2 = i BY <1>1
  <2> QED BY <1>2, <2>1
<1>4. 1 \in 1 .. Len(p) + 2 /\ 2 \in 1 .. Len(p) + 2 BY <1>1
<1>5. IsAfterTwo(c, h, p) BY <1>1, <1>2, <1>3, <1>4 DEF IsAfterTwo
<1> QED BY <1>1, <1>5 DEF c

(* The pairs of a message that is as long as it promises, their keys        *)
(* counted from 2.                                                          *)
KeysFromTwo(pairs) ==
  /\ \E S : pairs \in Seq(S)
  /\ Len(pairs) < 100
  /\ \A i \in 1 .. Len(pairs) : pairs[i].key = i + 1 /\ Decoded(pairs[i].value)
ReadsAs(data, tag, pairs) ==
  /\ IsMessage(data) /\ WellFormed(data)
  /\ ExpectTag(data.msg, tag)
  /\ \A i \in 1 .. Len(pairs) : FindMapKey(data.msg, i + 1) = pairs[i].value

LEMMA WrittenReads ==
  ASSUME NEW tag \in STRING, NEW pairs, KeysFromTwo(pairs), NEW n, n = Len(pairs) + 2
  PROVE  ReadsAs(Written(n, tag, pairs), tag, pairs)
<1>a. PICK S : pairs \in Seq(S) BY DEF KeysFromTwo
<1>b. /\ Len(pairs) < 100
      /\ \A i \in 1 .. Len(pairs) : pairs[i].key = i + 1 /\ Decoded(pairs[i].value)
  BY DEF KeysFromTwo
<1> DEFINE T == S \cup {KvStr(TagKey, tag), KvI32(VersionKey, 1)}
           all == Header(tag) \o pairs
<1>1. Header(tag) \in Seq(T) /\ Len(Header(tag)) = 2
      /\ Header(tag)[1] = KvStr(TagKey, tag) /\ Header(tag)[2] = KvI32(VersionKey, 1)
  BY DEF Header
<1>2. pairs \in Seq(T)
  <2>1. S \subseteq T OBVIOUS
  <2> HIDE DEF T
  <2> QED BY <1>a, <2>1
<1> HIDE DEF T
<1>3. /\ all \in Seq(T) /\ Len(all) = n /\ n \in Nat /\ Len(pairs) \in Nat
      /\ all[1] = KvStr(TagKey, tag) /\ all[2] = KvI32(VersionKey, 1)
      /\ \A i \in 1 .. Len(pairs) : all[i + 2] = pairs[i]
  <2>1. all \in Seq(T) /\ IsAfterTwo(all, Header(tag), pairs)
    <3> DEFINE h == Header(tag)
    <3>1. h \in Seq(T) /\ Len(h) = 2 BY <1>1
    <3> HIDE DEF h
    <3>2. h \o pairs \in Seq(T) /\ IsAfterTwo(h \o pairs, h, pairs)
      BY <3>1, <1>2, AfterTwo, Zenon
    <3> QED BY <3>2, Zenon DEF h
  <2> HIDE DEF all
  <2> QED BY <1>1, <2>1 DEF IsAfterTwo
<1> HIDE DEF all
<1>4. DOMAIN all = 1 .. n BY <1>3, LenProperties
<1>5. SubSeq(all, 1, n) = all BY <1>3, SubSeqFull
<1>6. Written(n, tag, pairs) = Packed(all)
  <2>1. Written(n, tag, pairs) = IF n > Len(all) THEN Garbage ELSE Packed(SubSeq(all, 1, n))
    BY Zenon DEF Written, all
  <2>2. ~(n > Len(all)) BY <1>3
  <2> QED BY <1>5, <2>1, <2>2, Zenon
<1> DEFINE data == Written(n, tag, pairs)
<1>7. IsMessage(data) /\ data.msg = all BY <1>6 DEF Packed, IsMessage
<1>8. /\ all[1].key = 0 /\ all[1].value = Str(tag)
      /\ all[2].key = 1 /\ all[2].value = Integer(1)
  <2>1. tag # Null BY RegistryAssumption
  <2> QED BY <1>3, <2>1 DEF KvStr, KvI32, Pair, TagKey, VersionKey
<1>9. \A i \in 1 .. n : all[i].key = i - 1 /\ Decoded(all[i].value)
  <2>1. Decoded(all[1].value) /\ Decoded(all[2].value)
    BY <1>8 DEF Decoded, Str, Integer
  <2>2. ASSUME NEW i \in 1 .. n, i > 2
        PROVE  all[i].key = i - 1 /\ Decoded(all[i].value)
    <3>1. i - 2 \in 1 .. Len(pairs) /\ (i - 2) + 2 = i BY <1>3, <2>2
    <3>2. all[i] = pairs[i - 2] BY <1>3, <3>1
    <3> QED BY <1>b, <3>1, <3>2
  <2> QED BY <1>3, <1>8, <2>1, <2>2
<1>10. ASSUME NEW i \in 1 .. n PROVE FindMapKey(all, i - 1) = all[i].value
  <2>1. ASSUME NEW j \in 1 .. n
        PROVE  all[j].key # Null /\ AsI32(all[j].key) = j - 1
    <3>1. all[j].key = j - 1 /\ j - 1 \in Int /\ j - 1 < 32768 /\ -32768 < j - 1
      BY <1>3, <1>9, <1>b
    <3>2. AsI32(j - 1) = j - 1 BY <3>1, SmallIsItself
    <3> QED BY <3>1, <3>2, RegistryAssumption
  <2>2. Hits(all, i - 1) = {i} BY <1>3, <1>4, <2>1 DEF Hits
  <2> QED BY <1>3, <2>2, FoundAt
<1>11. WellFormed(data) BY <1>3, <1>4, <1>7, <1>9 DEF WellFormed
<1>12. ExpectTag(all, tag)
  <2>1. FindMapKey(all, 0) = Str(tag) BY <1>3, <1>8, <1>10
  <2> QED BY <2>1 DEF ExpectTag, TagKey, Str
<1>13. ASSUME NEW i \in 1 .. Len(pairs) PROVE FindMapKey(all, i + 1) = pairs[i].value
  <2>1. i + 2 \in 1 .. n /\ (i + 2) - 1 = i + 1 BY <1>3
  <2> QED BY <1>3, <1>10, <2>1
<1> HIDE DEF data
<1>14. ReadsAs(data, tag, pairs) BY <1>7, <1>11, <1>12, <1>13 DEF ReadsAs
<1> QED BY <1>14 DEF data

(* One value, written and read.                                             *)
LEMMA IntReads ==
  ASSUME NEW msg, NEW key, NEW n \in Int, FindMapKey(msg, key) = Integer(n)
  PROVE  GetI64(msg, key) = Got(AsI64(n))
BY DEF GetI64, Integer

LEMMA U32Reads ==
  ASSUME NEW msg, NEW key, NEW n \in Enums, FindMapKey(msg, key) = Integer(n)
  PROVE  /\ GetI64(msg, key) = Got(n) /\ GetU32(msg, key) = Got(n)
<1>1. n \in Int /\ 0 <= n /\ n < 2 * Half32 /\ -Half32 <= n BY Widths DEF Enums
<1>2. GetI64(msg, key) = Got(n) BY <1>1, I32IsI64, IntReads
<1>3. GetU64(msg, key) = Got(n) BY <1>1, <1>2 DEF GetU64, Got
<1>4. GetU32(msg, key) = Got(n) BY <1>1, <1>3, Widths DEF GetU32, Got
<1> QED BY <1>2, <1>4

LEMMA TextReads ==
  ASSUME NEW msg, NEW key, NEW s \in Texts,
         FindMapKey(msg, key) = IF s = Null THEN Nil ELSE Str(s)
  PROVE  GetStr(msg, key) = Got(s)
BY DEF GetStr, Nil, Str

LEMMA TextsPacked ==
  ASSUME NEW key, NEW s \in Seq(STRING)
  PROVE  \E es : /\ KvStrList(key, s).value = Array(es)
                 /\ Len(es) = Len(s) /\ Len(s) \in Nat
                 /\ DOMAIN es = 1 .. Len(s) /\ DOMAIN s = 1 .. Len(s)
                 /\ \A i \in DOMAIN s : es[i].kind = "str" /\ es[i].s = s[i] /\ s[i] \in STRING
<1> DEFINE es == [i \in DOMAIN s |-> Str(s[i])]
<1>1. DOMAIN s = 1 .. Len(s) /\ Len(s) \in Nat /\ \A i \in DOMAIN s : s[i] \in STRING
  OBVIOUS
<1>2. s # Null BY RegistryAssumption
<1>3. KvStrList(key, s).value = Array(es) BY <1>2 DEF KvStrList, Pair
<1>4. DOMAIN es = DOMAIN s /\ \A i \in DOMAIN s : es[i].kind = "str" /\ es[i].s = s[i]
  BY DEF Str
<1>5. es \in [1 .. Len(s) -> {Str(x) : x \in STRING}] BY <1>1
<1>6. es \in Seq({Str(x) : x \in STRING}) BY <1>1, <1>5, SeqDef
<1>7. Len(es) = Len(s) BY <1>1, <1>4, <1>6, LenProperties
<1> HIDE DEF es
<1> QED BY <1>1, <1>3, <1>4, <1>7

LEMMA TextsRead ==
  ASSUME NEW msg, NEW key, NEW s \in Seq(STRING) \cup {Null},
         FindMapKey(msg, key) = KvStrList(key, s).value
  PROVE  GetStrList(msg, key) = Got(s)
<1>1. CASE s = Null
  <2>1. FindMapKey(msg, key) = Nil BY <1>1 DEF KvStrList, Pair
  <2> QED BY <1>1, <2>1 DEF GetStrList, Nil
<1>2. CASE s # Null
  <2>1. PICK es : /\ KvStrList(key, s).value = Array(es)
                  /\ DOMAIN es = 1 .. Len(s) /\ DOMAIN s = 1 .. Len(s)
                  /\ \A i \in DOMAIN s : es[i].kind = "str" /\ es[i].s = s[i]
    BY <1>2, TextsPacked
  <2>2. [i \in DOMAIN es |-> es[i].s] = s BY <1>2, <2>1
  <2> QED BY <2>1, <2>2 DEF GetStrList, Array
<1> QED BY <1>1, <1>2

LEMMA TextsDecoded ==
  ASSUME NEW key, NEW s \in Seq(STRING) \cup {Null}
  PROVE  Decoded(KvStrList(key, s).value)
<1>1. CASE s = Null BY <1>1 DEF KvStrList, Pair, Decoded, Nil
<1>2. CASE s # Null
  <2>1. PICK es : /\ KvStrList(key, s).value = Array(es)
                  /\ Len(es) = Len(s) /\ Len(s) \in Nat
                  /\ DOMAIN es = 1 .. Len(s) /\ DOMAIN s = 1 .. Len(s)
                  /\ \A i \in DOMAIN s : es[i].s = s[i] /\ s[i] \in STRING
    BY <1>2, TextsPacked
  <2> QED BY <2>1 DEF Decoded, Array
<1> QED BY <1>1, <1>2

LEMMA WrittenDecoded ==
  /\ \A n \in Int : Decoded(Integer(n))
  /\ \A s \in Texts : Decoded(IF s = Null THEN Nil ELSE Str(s))
BY DEF Decoded, Integer, Nil, Str, Texts

(* What was packed is a message, and reads back.                            *)
Faithful(k, o, data) ==
  LET back == Unpack(k, data) IN
  /\ WellFormed(data) /\ Unpackable(k, data)
  /\ IF k = "family" THEN back = o
     ELSE /\ back.id = o.id /\ back.flags = o.flags /\ back.online = o.online
          /\ back.url = o.url \/ o.url \in {Null, ""}

LEMMA FamilyReadsBack ==
  ASSUME NEW o \in Proper("family")
  PROVE  Faithful("family", o, Pack(o))
<1> DEFINE pairs == <<KvI32(2, AsI32(o.id)), KvI32(3, o.snapshot), KvStrList(4, o.versions)>>
           data == Written(5, "family", pairs)
<1>1. /\ o = Family(o.id, o.snapshot, o.versions)
      /\ o.id \in Enums /\ o.snapshot \in {0, 1} /\ o.kind = "family"
      /\ o.versions \in Seq(STRING) \cup {Null}
  BY FamilyFields
<1>2. Pack(o) = data BY <1>1 DEF Pack
<1>3. AsI32(o.id) \in Int /\ AsI64(AsI32(o.id)) = AsI32(o.id) /\ AsI32(o.id) % (2 * Half32) = o.id
  BY <1>1, EnumReadsBack
<1>4. /\ pairs[1].key = 2 /\ pairs[1].value = Integer(AsI32(o.id))
      /\ pairs[2].key = 3 /\ pairs[2].value = Integer(o.snapshot)
      /\ pairs[3].key = 4 /\ pairs[3].value = KvStrList(4, o.versions).value
      /\ Len(pairs) = 3
  BY DEF KvI32, KvStrList, Pair
<1>5. pairs \in Seq({pairs[1], pairs[2], pairs[3]}) OBVIOUS
<1>6. Decoded(KvStrList(4, o.versions).value) BY <1>1, TextsDecoded
<1> HIDE DEF pairs
<1>7. \A i \in 1 .. Len(pairs) : pairs[i].key = i + 1 /\ Decoded(pairs[i].value)
  <2>1. Decoded(pairs[1].value) /\ Decoded(pairs[2].value) /\ Decoded(pairs[3].value)
    BY <1>1, <1>3, <1>4, <1>6, WrittenDecoded
  <2> QED BY <1>4, <2>1
<1>8. /\ IsMessage(data) /\ WellFormed(data) /\ ExpectTag(data.msg, "family")
      /\ \A i \in 1 .. Len(pairs) : FindMapKey(data.msg, i + 1) = pairs[i].value
  <2>1. KeysFromTwo(pairs) /\ 5 = Len(pairs) + 2 BY <1>4, <1>5, <1>7 DEF KeysFromTwo
  <2>2. "family" \in STRING BY RegistryAssumption DEF Kinds
  <2>3. ReadsAs(data, "family", pairs) BY <2>1, <2>2, WrittenReads, Zenon
  <2> QED BY <2>3 DEF ReadsAs
<1> HIDE DEF data
<1>9. /\ FindMapKey(data.msg, 2) = Integer(AsI32(o.id))
      /\ FindMapKey(data.msg, 3) = Integer(o.snapshot)
      /\ FindMapKey(data.msg, 4) = KvStrList(4, o.versions).value
  <2>1. /\ FindMapKey(data.msg, 1 + 1) = pairs[1].value
        /\ FindMapKey(data.msg, 2 + 1) = pairs[2].value
        /\ FindMapKey(data.msg, 3 + 1) = pairs[3].value
    BY <1>4, <1>8
  <2> QED BY <1>4, <2>1
<1>10. GetI64(data.msg, 2) = Got(AsI32(o.id)) BY <1>3, <1>9, IntReads
<1>11. GetI64(data.msg, 3) = Got(o.snapshot)
  <2>1. o.snapshot \in Enums BY <1>1, Widths DEF Enums
  <2> QED BY <2>1, <1>9, U32Reads
<1>12. GetStrList(data.msg, 4) = Got(o.versions)
  BY <1>1, <1>9, TextsRead
<1>13. EnumOf(data.msg) = o.id BY <1>3, <1>10 DEF EnumOf, Got
<1>14. AsBool(Else(GetI64(data.msg, 3), 0)) = o.snapshot
  BY <1>1, <1>11 DEF AsBool, Else, Got
<1>15. Unpack("family", data) = o
  BY <1>1, <1>12, <1>13, <1>14 DEF Unpack, UnpackFamily, Got
<1>16. Unpackable("family", data)
  BY <1>8, <1>10, <1>12 DEF Unpackable, Readable, Got
<1> QED BY <1>2, <1>8, <1>15, <1>16 DEF Faithful

(* What the bytes of a site hold, the site has again.                       *)
LEMMA SiteReadsBack ==
  ASSUME NEW k \in {"provider", "loader"}, NEW o \in Proper(k),
         NEW data, IsMessage(data), WellFormed(data), ExpectTag(data.msg, k),
         FindMapKey(data.msg, 2) = Integer(AsI32(o.id)),
         FindMapKey(data.msg, 4) = IF o.url = Null THEN Nil ELSE Str(o.url),
         k = "provider" => FindMapKey(data.msg, 5) = Integer(o.online),
         FindMapKey(data.msg, IF k = "provider" THEN 6 ELSE 5) = Integer(o.flags)
  PROVE  Faithful(k, o, data)
<1> DEFINE made == Make(k, EnumOf(data.msg))
           flagsKey == IF k = "provider" THEN 6 ELSE 5
           url == Else(GetStr(data.msg, 4), Null)
           newUrl == IF url \in {Null, ""} THEN made.url ELSE url
           newOwns == url \notin {Null, ""}
           newOnline == IF k = "provider" THEN AsBool(Else(GetI64(data.msg, 5), 0))
                        ELSE made.online
           newFlags == Else(GetU32(data.msg, flagsKey), 0)
           back == Unpack(k, data)
<1>1. /\ o.id \in Enums /\ o.url \in Texts /\ o.flags \in Enums /\ o.online \in Onlines(k)
      /\ Known(k, o.id) \/ o.id = UnknownId(k)
  BY SiteFields
<1>2. AsI32(o.id) \in Int /\ AsI64(AsI32(o.id)) = AsI32(o.id) /\ AsI32(o.id) % (2 * Half32) = o.id
  BY <1>1, EnumReadsBack
<1>3. GetI64(data.msg, 2) = Got(AsI32(o.id)) BY <1>2, IntReads
<1>4. EnumOf(data.msg) = o.id BY <1>2, <1>3 DEF EnumOf, Got
<1>5. made \in Proper(k) /\ made.id = o.id
  <2>1. Make(k, o.id) \in Proper(k) /\ Make(k, o.id).id = o.id
    BY <1>1, MadeProper
  <2> QED BY <1>4, <2>1
<1>6. GetStr(data.msg, 4) = Got(o.url) BY <1>1, TextReads
<1>7. GetU32(data.msg, flagsKey) = Got(o.flags) BY <1>1, U32Reads
<1>8. k = "provider" => GetI64(data.msg, 5) = Got(o.online)
  <2>1. k = "provider" => o.online \in Enums BY <1>1, Widths DEF Onlines, Enums
  <2> QED BY <2>1, U32Reads
<1>9. Unpackable(k, data)
  <2>1. Readable(k, data) BY <1>3 DEF Readable, Got
  <2>2. CASE k = "provider"
    BY <2>1, <2>2, <1>6, <1>7, <1>8 DEF Unpackable, Got
  <2>3. CASE k = "loader"
    BY <2>1, <2>3, <1>6, <1>7 DEF Unpackable, Got
  <2> QED BY <2>2, <2>3
<1>10. url = o.url /\ newFlags = o.flags BY <1>6, <1>7 DEF Else, Got
<1>11. made.url \in Texts /\ made.online \in Onlines(k) BY <1>5, SiteFields
<1>12. back = Updated(made, newUrl, newOwns, newOnline, newFlags)
  <2>1. back = UnpackSite(k, data.msg) BY DEF Unpack
  <2> HIDE DEF back
  <2>2. UnpackSite(k, data.msg) = Updated(made, newUrl, newOwns, newOnline, newFlags)
    BY Zenon DEF UnpackSite, Updated
  <2> QED BY <2>1, <2>2
<1> HIDE DEF made, flagsKey, url, newFlags, back
<1>13. newOnline = o.online
  <2>1. CASE k = "provider"
    BY <1>1, <1>8, <2>1 DEF AsBool, Else, Got, Onlines
  <2>2. CASE k = "loader" BY <1>1, <1>11, <2>2 DEF Onlines
  <2> QED BY <2>1, <2>2
<1>14. newUrl \in Texts /\ newOwns \in BOOLEAN
  <2>1. newUrl \in Texts BY <1>1, <1>10, <1>11
  <2>2. newOwns \in BOOLEAN OBVIOUS
  <2> QED BY <2>1, <2>2
<1>15. newUrl = o.url \/ o.url \in {Null, ""} BY <1>10
<1> HIDE DEF newUrl, newOwns, newOnline
<1>16. /\ back.id = made.id /\ back.url = newUrl /\ back.flags = newFlags
       /\ back.online = newOnline
  BY <1>1, <1>5, <1>10, <1>12, <1>13, <1>14, SiteUpdated
<1>17. /\ back.id = o.id /\ back.flags = o.flags /\ back.online = o.online
       /\ back.url = o.url \/ o.url \in {Null, ""}
  BY <1>5, <1>10, <1>13, <1>15, <1>16
<1> QED BY <1>9, <1>17 DEF Faithful, back

LEMMA ProviderReadsBack ==
  ASSUME NEW o \in Proper("provider")
  PROVE  Faithful("provider", o, Pack(o))
<1> DEFINE pairs == <<KvI32(2, AsI32(o.id)),
                     KvStr(3, "name"),
                     KvStr(4, o.url),
                     KvI32(5, o.online),
                     KvU32(6, o.flags)>>
           data == Written(7, "provider", pairs)
<1>0. "name" \in STRING /\ "name" # Null BY RegistryAssumption
<1>1. /\ o.kind = "provider" /\ o.id \in Enums /\ o.url \in Texts /\ o.flags \in Enums
      /\ o.online \in Onlines("provider")
  BY SiteFields
<1>2. Pack(o) = data BY <1>1 DEF Pack
<1>3. AsI32(o.id) \in Int BY <1>1, EnumReadsBack
<1>4. /\ Len(pairs) = 5
      /\ pairs[1].key = 2 /\ pairs[1].value = Integer(AsI32(o.id))
      /\ pairs[2].key = 3 /\ pairs[2].value = Str("name")
      /\ pairs[3].key = 4 /\ pairs[3].value = (IF o.url = Null THEN Nil ELSE Str(o.url))
      /\ pairs[4].key = 5 /\ pairs[4].value = Integer(o.online)
      /\ pairs[5].key = 6 /\ pairs[5].value = Integer(o.flags)
  BY <1>0 DEF KvI32, KvU32, KvStr, Pair
<1>5. pairs \in Seq({pairs[1], pairs[2], pairs[3], pairs[4], pairs[5]}) OBVIOUS
<1> HIDE DEF pairs
<1>6. KeysFromTwo(pairs)
  <2>1. Decoded(pairs[1].value) /\ Decoded(pairs[2].value) /\ Decoded(pairs[3].value)
    <3>1. Decoded(Str("name")) BY <1>0 DEF Decoded, Str
    <3> QED BY <1>1, <1>3, <1>4, <3>1, WrittenDecoded
  <2>2. Decoded(pairs[4].value) /\ Decoded(pairs[5].value)
    <3>1. o.flags \in Int /\ o.online \in Int BY <1>1, Widths DEF Enums, Onlines
    <3> QED BY <1>4, <3>1, WrittenDecoded
  <2> QED BY <1>4, <1>5, <2>1, <2>2 DEF KeysFromTwo
<1>7. ReadsAs(data, "provider", pairs)
  <2>1. 7 = Len(pairs) + 2 /\ "provider" \in STRING BY <1>4, RegistryAssumption DEF Kinds
  <2> QED BY <1>6, <2>1, WrittenReads, Zenon
<1> HIDE DEF data
<1>8. IsMessage(data) /\ WellFormed(data) /\ ExpectTag(data.msg, "provider") BY <1>7 DEF ReadsAs
<1>9. /\ FindMapKey(data.msg, 2) = Integer(AsI32(o.id))
      /\ FindMapKey(data.msg, 3) = Str("name")
      /\ FindMapKey(data.msg, 4) = (IF o.url = Null THEN Nil ELSE Str(o.url))
      /\ FindMapKey(data.msg, 5) = Integer(o.online)
      /\ FindMapKey(data.msg, 6) = Integer(o.flags)
  <2>1. /\ FindMapKey(data.msg, 1 + 1) = pairs[1].value
        /\ FindMapKey(data.msg, 2 + 1) = pairs[2].value
        /\ FindMapKey(data.msg, 3 + 1) = pairs[3].value
        /\ FindMapKey(data.msg, 4 + 1) = pairs[4].value
        /\ FindMapKey(data.msg, 5 + 1) = pairs[5].value
    BY <1>4, <1>7 DEF ReadsAs
  <2> QED BY <1>4, <2>1
<1> QED BY <1>2, <1>8, <1>9, SiteReadsBack

LEMMA LoaderReadsBack ==
  ASSUME NEW o \in Proper("loader")
  PROVE  Faithful("loader", o, Pack(o))
<1> DEFINE pairs == <<KvI32(2, AsI32(o.id)),
                     KvStr(3, "name"),
                     KvStr(4, o.url),
                     KvU32(5, o.flags)>>
           data == Written(6, "loader", pairs)
<1>0. "name" \in STRING /\ "name" # Null BY RegistryAssumption
<1>1. /\ o.kind = "loader" /\ o.id \in Enums /\ o.url \in Texts /\ o.flags \in Enums
      /\ o.online \in Onlines("loader")
  BY SiteFields
<1>2. Pack(o) = data BY <1>1 DEF Pack
<1>3. AsI32(o.id) \in Int BY <1>1, EnumReadsBack
<1>4. /\ Len(pairs) = 4
      /\ pairs[1].key = 2 /\ pairs[1].value = Integer(AsI32(o.id))
      /\ pairs[2].key = 3 /\ pairs[2].value = Str("name")
      /\ pairs[3].key = 4 /\ pairs[3].value = (IF o.url = Null THEN Nil ELSE Str(o.url))
      /\ pairs[4].key = 5 /\ pairs[4].value = Integer(o.flags)
  BY <1>0 DEF KvI32, KvU32, KvStr, Pair
<1>5. pairs \in Seq({pairs[1], pairs[2], pairs[3], pairs[4]}) OBVIOUS
<1> HIDE DEF pairs
<1>6. KeysFromTwo(pairs)
  <2>1. Decoded(pairs[1].value) /\ Decoded(pairs[2].value) /\ Decoded(pairs[3].value)
    <3>1. Decoded(Str("name")) BY <1>0 DEF Decoded, Str
    <3> QED BY <1>1, <1>3, <1>4, <3>1, WrittenDecoded
  <2>2. Decoded(pairs[4].value)
    <3>1. o.flags \in Int /\ o.online \in Int BY <1>1, Widths DEF Enums, Onlines
    <3> QED BY <1>4, <3>1, WrittenDecoded
  <2> QED BY <1>4, <1>5, <2>1, <2>2 DEF KeysFromTwo
<1>7. ReadsAs(data, "loader", pairs)
  <2>1. 6 = Len(pairs) + 2 /\ "loader" \in STRING BY <1>4, RegistryAssumption DEF Kinds
  <2> QED BY <1>6, <2>1, WrittenReads, Zenon
<1> HIDE DEF data
<1>8. IsMessage(data) /\ WellFormed(data) /\ ExpectTag(data.msg, "loader") BY <1>7 DEF ReadsAs
<1>9. /\ FindMapKey(data.msg, 2) = Integer(AsI32(o.id))
      /\ FindMapKey(data.msg, 3) = Str("name")
      /\ FindMapKey(data.msg, 4) = (IF o.url = Null THEN Nil ELSE Str(o.url))
      /\ FindMapKey(data.msg, 5) = Integer(o.flags)
  <2>1. /\ FindMapKey(data.msg, 1 + 1) = pairs[1].value
        /\ FindMapKey(data.msg, 2 + 1) = pairs[2].value
        /\ FindMapKey(data.msg, 3 + 1) = pairs[3].value
        /\ FindMapKey(data.msg, 4 + 1) = pairs[4].value
    BY <1>4, <1>7 DEF ReadsAs
  <2> QED BY <1>4, <2>1
<1> QED BY <1>2, <1>8, <1>9, SiteReadsBack

(* What a program packs it can unpack, and has again what it had.           *)
LEMMA ReadsBack ==
  ASSUME NEW k \in Kinds, NEW o \in Proper(k)
  PROVE  Faithful(k, o, Pack(o))
BY FamilyReadsBack, ProviderReadsBack, LoaderReadsBack DEF Kinds

LEMMA BytesWellFormed ==
  ASSUME TypesInv, NEW k \in Kinds, NEW data \in Bytes(k)
  PROVE  WellFormed(data)
<1>1. CASE data \in Stored[k] BY <1>1, RegistryAssumption
<1>2. CASE data \notin Stored[k]
  <2>1. current[k] # Null /\ data = Pack(heap[current[k]]) BY <1>2 DEF Bytes
  <2>2. heap[current[k]] \in Proper(k) BY <2>1 DEF TypesInv
  <2> QED BY <2>1, <2>2, ReadsBack DEF Faithful
<1> QED BY <1>1, <1>2

-----------------------------------------------------------------------------
(* One lemma per action.                                                   *)

LEMMA FindIn ==
  ASSUME TypesInv, NEW k \in Kinds, NEW id, Find(k, id) # Null
  PROVE  \E i \in DOMAIN list[k] : /\ Find(k, id) = list[k][i]
                                   /\ heap[list[k][i]].id = id
<1> DEFINE hits == {i \in DOMAIN list[k] : heap[list[k][i]].id = id}
<1>1. hits # {} /\ Find(k, id) = list[k][Min(hits)] BY DEF Find
<1>2. hits \subseteq Nat
  <2>1. list[k] \in Seq(Addrs) BY DEF TypesInv
  <2> QED BY <2>1
<1>3. Min(hits) \in hits BY <1>1, <1>2, LeastNumber
<1> QED BY <1>1, <1>3

LEMMA OfRegistryIs ==
  ASSUME IInv
  PROVE  /\ OfRegistry \subseteq Addrs /\ \A a \in OfRegistry : heap[a] # Null
         /\ \A a \in Addrs : a \in OfRegistry <=> Listed(a) \/ Current(a)
<1>1. ASSUME NEW a \in OfRegistry PROVE a \in Addrs
  <2>1. CASE \E k \in Kinds : a \in InList(k)
    BY <2>1, ListElement DEF IInv, InList
  <2>2. CASE \E k \in Kinds : a = current[k] /\ a # Null
    BY <2>2 DEF IInv, TypesInv
  <2> QED BY <2>1, <2>2 DEF OfRegistry
<1>2. ASSUME NEW a \in Addrs PROVE a \in OfRegistry <=> Listed(a) \/ Current(a)
  <2>1. a # Null BY RegistryAssumption
  <2> QED BY <2>1 DEF OfRegistry, InList, Listed, Current
<1> QED BY <1>1, <1>2 DEF IInv, Had

LEMMA ShutdownKeeps ==
  ASSUME IInv, GlobalShutdown, UNCHANGED <<lost, kinds>> PROVE IInv'
<1>1. /\ heap' = Freed(OfRegistry) /\ parts' = parts - PartsOf(OfRegistry)
      /\ list' = [k \in Kinds |-> << >>] /\ current' = Nowhere /\ mine' = mine
  BY DEF GlobalShutdown
<1>2. /\ \A k \in Kinds : list'[k] = << >> /\ current'[k] = Null
      /\ \A a \in Addrs : heap'[a] = IF a \in OfRegistry THEN Null ELSE heap[a]
  BY <1>1 DEF Nowhere, Freed
<1>3. \A a \in Addrs : ~Listed(a)' /\ ~Current(a)'
  BY <1>2, RegistryAssumption DEF Listed, Current
<1>4. TypesInv'
  <2>1. heap' \in [Addrs -> Cells]
    <3>1. heap \in [Addrs -> Cells] /\ Null \in Cells BY DEF IInv, TypesInv, Cells
    <3> QED BY <1>1, <3>1 DEF Freed
  <2>2. list' \in [Kinds -> Seq(Addrs)] BY <1>1
  <2>3. current' \in [Kinds -> Addrs \cup {Null}] BY <1>1 DEF Nowhere
  <2> QED BY <1>1, <1>2, <2>1, <2>2, <2>3 DEF IInv, TypesInv
<1>5. Apart'
  <2>1. \A j \in Kinds : DOMAIN list'[j] = {} BY <1>2
  <2> QED BY <1>1, <1>2, <1>3, <2>1 DEF IInv, Apart, TypesInv
<1>6. Had'
  <2> SUFFICES ASSUME NEW a \in Addrs
               PROVE  heap'[a] # Null <=> a \in mine' \/ Listed(a)' \/ Current(a)'
    BY DEF Had
  <2>1. a \in mine => ~Listed(a) /\ ~Current(a) BY DEF IInv, Apart
  <2> QED BY <1>1, <1>2, <1>3, <2>1, OfRegistryIs DEF IInv, Had
<1>7. parts' = Count(heap') + lost
  <2>1. PartsOf(OfRegistry) \in Nat /\ Count(heap) \in Nat
    <3>1. /\ {a \in OfRegistry : Parts(heap[a]) = 1} \subseteq Addrs /\ IsFiniteSet(Addrs)
      BY OfRegistryIs, RegistryAssumption
    <3>2. IsFiniteSet({a \in OfRegistry : Parts(heap[a]) = 1}) BY <3>1, FS_Subset
    <3> QED BY <3>2, FS_CardinalityType, CountType DEF PartsOf
  <2> QED BY <1>1, <2>1, OfRegistryIs, CountFreed DEF IInv
<1> QED BY <1>4, <1>5, <1>6, <1>7 DEF IInv, Count, Marked

(* What a seeding makes are objects of its kind.                            *)
LEMMA SeedsProper ==
  ASSUME NEW k \in Kinds, NEW seeds \in Seeds(k)
  PROVE  /\ Len(seeds) \in Nat /\ DOMAIN seeds = 1 .. Len(seeds)
         /\ \A i \in DOMAIN seeds : seeds[i] \in Proper(k)
         /\ k = "family" => Len(seeds) = 1 /\ Parts(seeds[1]) = 1
         /\ k # "family" => \A i \in DOMAIN seeds : Parts(seeds[i]) = 0
<1>1. CASE k = "family"
  <2>1. PICK vs \in {<<DefaultVersion>>, << >>} : seeds = <<Family(TrickyTrials, 0, vs)>>
    BY <1>1 DEF Seeds
  <2>2. vs \in Seq(STRING) /\ vs # Null
    <3>1. DefaultVersion \in STRING BY RegistryAssumption
    <3>2. \A S : << >> \in Seq(S) /\ \A v \in S : <<v>> \in Seq(S) OBVIOUS
    <3>3. <<DefaultVersion>> \in Seq(STRING) /\ << >> \in Seq(STRING)
      BY <3>1, <3>2, Zenon
    <3>4. vs \in Seq(STRING) BY <3>3, Zenon
    <3> QED BY <3>4, RegistryAssumption
  <2>3. TrickyTrials \in Enums BY Widths DEF Enums, TrickyTrials
  <2>4. Family(TrickyTrials, 0, vs) \in Proper("family") BY <2>2, <2>3, FamilyProper
  <2>5. Parts(Family(TrickyTrials, 0, vs)) = 1 BY <2>2 DEF Parts, Family
  <2>6. Len(seeds) = 1 /\ DOMAIN seeds = 1 .. 1 /\ seeds[1] = Family(TrickyTrials, 0, vs)
    BY <2>1
  <2> QED BY <1>1, <2>4, <2>5, <2>6
<1>2. CASE k # "family"
  <2>1. k \in {"provider", "loader"} /\ seeds = Templates[k] BY <1>2 DEF Seeds, Kinds
  <2>2. Templates[k] \in Seq(Objects(k)) BY <2>1, RegistryAssumption
  <2> QED BY <1>2, <2>1, <2>2, EntryProper
<1> QED BY <1>1, <1>2

LEMMA SeedKeeps ==
  ASSUME IInv, NEW k \in Kinds, Seed(k), UNCHANGED <<lost, kinds>> PROVE IInv'
<1>a. PICK seeds \in Seeds(k) : \E n \in 0 .. Len(seeds) : \E cells \in [1 .. n -> Fresh] :
        /\ \A i, j \in 1 .. n : cells[i] = cells[j] => i = j
        /\ heap' = [a \in Addrs |->
                      IF \E i \in 1 .. n : cells[i] = a
                      THEN seeds[CHOOSE i \in 1 .. n : cells[i] = a] ELSE heap[a]]
        /\ list' = [list EXCEPT ![k] = @ \o cells]
        /\ parts' = parts + (IF k = "family" THEN n ELSE 0)
  BY DEF Seed
<1>b. PICK n \in 0 .. Len(seeds) : \E cells \in [1 .. n -> Fresh] :
        /\ \A i, j \in 1 .. n : cells[i] = cells[j] => i = j
        /\ heap' = [a \in Addrs |->
                      IF \E i \in 1 .. n : cells[i] = a
                      THEN seeds[CHOOSE i \in 1 .. n : cells[i] = a] ELSE heap[a]]
        /\ list' = [list EXCEPT ![k] = @ \o cells]
        /\ parts' = parts + (IF k = "family" THEN n ELSE 0)
  BY <1>a
<1>1. PICK cells \in [1 .. n -> Fresh] :
        /\ \A i, j \in 1 .. n : cells[i] = cells[j] => i = j
        /\ heap' = [a \in Addrs |->
                      IF \E i \in 1 .. n : cells[i] = a
                      THEN seeds[CHOOSE i \in 1 .. n : cells[i] = a] ELSE heap[a]]
        /\ list' = [list EXCEPT ![k] = @ \o cells]
        /\ parts' = parts + (IF k = "family" THEN n ELSE 0)
  BY <1>b
<1>2. mine' = mine /\ current' = current BY DEF Seed
<1>3. /\ Len(seeds) \in Nat /\ DOMAIN seeds = 1 .. Len(seeds) /\ n \in Nat
      /\ \A i \in 1 .. n : seeds[i] \in Proper(k) /\ seeds[i] \in Cells /\ seeds[i] # Null
  BY SeedsProper, ProperIsCell
<1>4. \A i \in 1 .. n : cells[i] \in Fresh /\ cells[i] \in Addrs
  BY FreshIsFree
<1>5. ASSUME NEW i \in 1 .. n PROVE heap'[cells[i]] = seeds[i]
  <2> DEFINE j == CHOOSE m \in 1 .. n : cells[m] = cells[i]
  <2>1. j \in 1 .. n /\ cells[j] = cells[i] OBVIOUS
  <2>2. j = i BY <1>1, <2>1
  <2>3. heap'[cells[i]] = seeds[j] BY <1>1, <1>4
  <2> QED BY <2>2, <2>3
<1> DEFINE New == {cells[i] : i \in 1 .. n}
<1>6. \A a \in Addrs : a \notin New => heap'[a] = heap[a] BY <1>1
<1>7. \A a \in New : a \in Fresh /\ a \in Addrs BY <1>4
<1>8. heap' \in [Addrs -> Cells]
  <2>1. heap' = [a \in Addrs |-> heap'[a]] BY <1>1
  <2>2. \A a \in Addrs : heap'[a] \in Cells
    BY <1>3, <1>5, <1>6 DEF IInv, TypesInv
  <2> QED BY <2>1, <2>2
<1>9. /\ list[k] \in Seq(Addrs) /\ cells \in Seq(Addrs) /\ Len(cells) = n
  <2>1. list[k] \in Seq(Addrs) BY DEF IInv, TypesInv
  <2>2. cells \in [1 .. n -> Addrs] BY <1>4
  <2>3. cells \in Seq(Addrs) BY <1>3, <2>2, SeqDef
  <2> QED BY <1>3, <2>1, <2>2, <2>3, LenProperties
<1> DEFINE l == list[k] \o cells  m == Len(list[k])
<1>10. /\ l \in Seq(Addrs) /\ Len(l) = m + Len(cells)
       /\ \A i \in 1 .. m + Len(cells) : l[i] = IF i <= m THEN list[k][i] ELSE cells[i - m]
  BY <1>9, ConcatProperties, Zenon
<1> HIDE DEF l, New
<1>11. m \in Nat /\ DOMAIN l = 1 .. m + n /\ DOMAIN list[k] = 1 .. m
  BY <1>3, <1>9, <1>10, LenProperties
<1>12. list' = [list EXCEPT ![k] = l] BY <1>1 DEF l
<1>13. list' \in [Kinds -> Seq(Addrs)] /\ list'[k] = l
       /\ \A j \in Kinds : j # k => list'[j] = list[j]
  BY <1>10, <1>12 DEF IInv, TypesInv
<1>14. ASSUME NEW i \in DOMAIN l
       PROVE  \/ i \in DOMAIN list[k] /\ i <= m /\ l[i] = list[k][i]
              \/ i > m /\ i - m \in 1 .. n /\ l[i] = cells[i - m]
  <2>1. i \in 1 .. m + n /\ n \in Nat /\ m \in Nat BY <1>3, <1>11, <1>14
  <2>2. l[i] = IF i <= m THEN list[k][i] ELSE cells[i - m] BY <1>9, <1>10, <2>1
  <2>3. CASE i <= m
    <3>1. i \in DOMAIN list[k] BY <1>11, <2>1, <2>3
    <3> QED BY <2>2, <2>3, <3>1
  <2>4. CASE ~(i <= m)
    <3>1. i > m /\ i - m \in 1 .. n BY <2>1, <2>4
    <3> QED BY <2>2, <2>4, <3>1
  <2> QED BY <2>3, <2>4
<1>15. ASSUME NEW i \in 1 .. n PROVE m + i \in DOMAIN l /\ l[m + i] = cells[i]
  <2>1. m + i \in 1 .. m + n /\ ~(m + i <= m) /\ (m + i) - m = i BY <1>11
  <2> QED BY <1>9, <1>10, <1>11, <2>1
<1>16. ASSUME NEW i \in DOMAIN list[k] PROVE i \in DOMAIN l /\ l[i] = list[k][i]
  BY <1>3, <1>9, <1>10, <1>11
<1> HIDE DEF m
<1>17. \A a \in Addrs : Listed(a)' <=> Listed(a) \/ a \in New
  <2> SUFFICES ASSUME NEW a \in Addrs PROVE Listed(a)' <=> Listed(a) \/ a \in New
    OBVIOUS
  <2>1. ASSUME Listed(a)' PROVE Listed(a) \/ a \in New
    <3>1. PICK j \in Kinds : \E i \in DOMAIN list'[j] : list'[j][i] = a BY <2>1 DEF Listed
    <3>2. CASE j # k BY <3>1, <3>2, <1>13 DEF Listed
    <3>3. CASE j = k BY <3>1, <3>3, <1>13, <1>14 DEF Listed, New
    <3> QED BY <3>2, <3>3
  <2>2. ASSUME Listed(a) PROVE Listed(a)'
    <3>1. PICK j \in Kinds : \E i \in DOMAIN list[j] : list[j][i] = a BY <2>2 DEF Listed
    <3>2. CASE j # k BY <3>1, <3>2, <1>13 DEF Listed
    <3>3. CASE j = k BY <3>1, <3>3, <1>13, <1>16 DEF Listed
    <3> QED BY <3>2, <3>3
  <2>3. ASSUME a \in New PROVE Listed(a)' BY <2>3, <1>13, <1>15 DEF New, Listed
  <2> QED BY <2>1, <2>2, <2>3
<1>18. TypesInv'
  <2>1. ASSUME NEW j \in Kinds, NEW i \in DOMAIN list[j]
        PROVE  /\ list[j][i] \in Addrs /\ list[j][i] \notin New
               /\ heap'[list[j][i]] \in Proper(j)
    <3>1. list[j][i] \in Addrs /\ Listed(list[j][i]) BY ListElement DEF IInv, Listed
    <3>2. list[j][i] \notin New BY <1>7, <3>1, FreshIsFree
    <3> QED BY <1>6, <3>1, <3>2, ListElement DEF IInv
  <2>2. ASSUME NEW j \in Kinds, NEW i \in DOMAIN list'[j]
        PROVE  heap'[list'[j][i]] \in Proper(j)
    <3>1. CASE j # k BY <3>1, <2>1, <1>13
    <3>2. CASE j = k BY <3>2, <2>1, <1>3, <1>5, <1>13, <1>14
    <3> QED BY <3>1, <3>2
  <2>3. ASSUME NEW j \in Kinds, current[j] # Null PROVE heap'[current[j]] \in Proper(j)
    <3>1. current[j] \in Addrs /\ Current(current[j]) BY <2>3 DEF IInv, TypesInv, Current
    <3>2. current[j] \notin New BY <1>7, <3>1, FreshIsFree
    <3> QED BY <1>6, <2>3, <3>1, <3>2 DEF IInv, TypesInv
  <2> QED BY <1>2, <1>8, <1>13, <2>2, <2>3 DEF IInv, TypesInv
<1>19. Apart'
  <2>1. \A a \in mine : ~Listed(a)' /\ ~Current(a)'
    BY <1>2, <1>7, <1>17, FreshIsFree DEF IInv, Apart, TypesInv, Current
  <2>2. \A a \in Addrs : ~(Listed(a)' /\ Current(a)')
    BY <1>2, <1>7, <1>17, FreshIsFree DEF IInv, Apart, Current
  <2>3. ASSUME NEW p \in Kinds, NEW q \in Kinds, NEW i \in DOMAIN list'[p],
               NEW j \in DOMAIN list'[q], list'[p][i] = list'[q][j]
        PROVE  p = q /\ i = j
    <3>1. ASSUME NEW r \in Kinds, NEW x \in DOMAIN list[r] PROVE list[r][x] \notin New
      <4>1. list[r][x] \in Addrs /\ Listed(list[r][x]) BY ListElement DEF IInv, Listed
      <4> QED BY <1>7, <4>1, FreshIsFree
    <3>2. ASSUME NEW r \in Kinds, NEW x \in DOMAIN list'[r]
          PROVE  \/ x \in DOMAIN list[r] /\ list'[r][x] = list[r][x]
                 \/ r = k /\ x > m /\ x - m \in 1 .. n /\ list'[r][x] = cells[x - m]
                      /\ list'[r][x] \in New
      BY <1>13, <1>14 DEF New
    <3>3. CASE i \in DOMAIN list[p] /\ list'[p][i] = list[p][i]
      <4>1. list[p][i] \notin New BY <3>1, <3>3
      <4>2. list'[q][j] \notin New BY <2>3, <3>3, <4>1
      <4>3. j \in DOMAIN list[q] /\ list'[q][j] = list[q][j] BY <3>2, <4>2
      <4>4. list[p][i] = list[q][j] BY <2>3, <3>3, <4>3
      <4>5. \A r, t \in Kinds : \A x \in DOMAIN list[r] : \A y \in DOMAIN list[t] :
              list[r][x] = list[t][y] => r = t /\ x = y
        BY DEF IInv, Apart
      <4> QED BY <3>3, <4>3, <4>4, <4>5
    <3>4. CASE p = k /\ i > m /\ i - m \in 1 .. n /\ list'[p][i] = cells[i - m]
               /\ list'[p][i] \in New
      <4>1. q = k /\ j > m /\ j - m \in 1 .. n /\ list'[q][j] = cells[j - m]
        BY <2>3, <3>1, <3>2, <3>4
      <4>2. i - m = j - m BY <1>1, <2>3, <3>4, <4>1
      <4>3. i \in Int /\ j \in Int /\ m \in Int BY <1>11, <1>13, <3>4, <4>1
      <4> QED BY <3>4, <4>1, <4>2, <4>3
    <3> QED BY <3>2, <3>3, <3>4
  <2> QED BY <1>2, <2>1, <2>2, <2>3 DEF IInv, Apart
<1>20. Had'
  <2> SUFFICES ASSUME NEW a \in Addrs
               PROVE  heap'[a] # Null <=> a \in mine' \/ Listed(a)' \/ Current(a)'
    BY DEF Had
  <2>1. Current(a)' <=> Current(a) BY <1>2 DEF Current
  <2>2. CASE a \in New
    <3>1. heap'[a] # Null BY <2>2, <1>3, <1>5 DEF New
    <3> QED BY <2>2, <3>1, <1>17
  <2>3. CASE a \notin New BY <1>2, <1>6, <1>17, <2>1, <2>3 DEF IInv, Had
  <2> QED BY <2>2, <2>3
<1>21. parts' = Count(heap') + lost
  <2>1. CASE k # "family"
    <3>1. \A a \in New : heap[a] = Null /\ Parts(heap'[a]) = 0
      BY <1>3, <1>5, <1>7, <2>1, FreshIsFree, SeedsProper DEF New
    <3>2. Marked(heap') = Marked(heap)
      BY <1>6, <3>1 DEF Marked
    <3> QED BY <1>1, <2>1, <3>2, CountType DEF Count, IInv
  <2>2. CASE k = "family"
    <3>0. Len(seeds) = 1 /\ Parts(seeds[1]) = 1 BY <2>2, SeedsProper
    <3>1. n \in {0, 1} /\ Parts(seeds[1]) = 1 BY <3>0
    <3>2. CASE n = 0
      <4>1. \A a \in Addrs : heap'[a] = heap[a] BY <1>6, <3>2 DEF New
      <4>2. Marked(heap') = Marked(heap) BY <4>1 DEF Marked
      <4> QED BY <1>1, <2>2, <3>2, <4>2, CountType DEF Count, IInv
    <3>3. CASE n = 1
      <4>1. cells[1] \in Addrs /\ heap[cells[1]] = Null
        BY <1>4, <3>3, FreshIsFree
      <4>2. \A a \in Addrs : heap'[a] = IF a = cells[1] THEN seeds[1] ELSE heap[a]
        BY <1>5, <1>6, <3>3 DEF New
      <4>3. heap' = [heap EXCEPT ![cells[1]] = seeds[1]]
        BY <1>8, <4>1, <4>2 DEF IInv, TypesInv
      <4>4. Count(heap') = Count(heap) + Weight(seeds[1]) - Weight(heap[cells[1]])
        BY <4>1, <4>3, CountOne DEF IInv, TypesInv
      <4>5. Weight(heap[cells[1]]) = 0 /\ Weight(seeds[1]) = 1
        BY <1>3, <3>1, <3>3, <4>1 DEF Weight
      <4> QED BY <1>1, <2>2, <3>3, <4>4, <4>5, CountType DEF IInv
    <3> QED BY <3>1, <3>2, <3>3
  <2> QED BY <2>1, <2>2
<1> QED BY <1>18, <1>19, <1>20, <1>21 DEF IInv, Count, Marked

LEMMA SameKeeps ==
  ASSUME IInv, UNCHANGED <<heap, list, current, mine, parts, lost, kinds>> PROVE IInv'
BY DEF IInv, TypesInv, Apart, Had, Listed, Current, Count, Marked

(* What is of the program is nobody else's.                                 *)
LEMMA MineIsMine ==
  ASSUME IInv, NEW a \in mine
  PROVE  /\ a \in Addrs /\ heap[a] # Null /\ ~Listed(a) /\ ~Current(a)
         /\ heap[a].kind \in Kinds /\ heap[a] \in Proper(heap[a].kind)
<1>1. a \in Addrs /\ heap[a] \in Cells BY DEF IInv, TypesInv
<1>2. heap[a] # Null /\ ~Listed(a) /\ ~Current(a) BY <1>1 DEF IInv, Had, Apart
<1> QED BY <1>1, <1>2, KindTells

LEMMA AddKeeps ==
  ASSUME IInv, NEW k \in Kinds, NEW a \in Addrs, Add(k, a), UNCHANGED <<lost, kinds>> PROVE IInv'
<1>1. /\ a \in mine /\ heap[a].kind = k /\ heap' = heap /\ current' = current
      /\ parts' = parts
  BY DEF Add
<1>2. heap[a] # Null /\ ~Listed(a) /\ ~Current(a) /\ heap[a] \in Proper(k)
  BY <1>1, MineIsMine
<1>3. CASE list' = list /\ mine' = mine BY <1>1, <1>3, SameKeeps
<1>4. CASE list' = [list EXCEPT ![k] = Append(@, a)] /\ mine' = mine \ {a}
  <2> DEFINE l == Append(list[k], a)  m == Len(list[k])
  <2>1. list[k] \in Seq(Addrs) /\ list \in [Kinds -> Seq(Addrs)] BY DEF IInv, TypesInv
  <2>2. /\ l \in Seq(Addrs) /\ m \in Nat /\ DOMAIN list[k] = 1 .. m
        /\ DOMAIN l = 1 .. m + 1 /\ l[m + 1] = a
        /\ \A i \in 1 .. m : l[i] = list[k][i]
    BY <2>1
  <2>3. list' = [list EXCEPT ![k] = l] BY <1>4
  <2> HIDE DEF l, m
  <2>4. /\ list' \in [Kinds -> Seq(Addrs)] /\ list'[k] = l
        /\ \A j \in Kinds : j # k => list'[j] = list[j]
    BY <2>1, <2>2, <2>3
  <2>5. ASSUME NEW j \in Kinds, NEW i \in DOMAIN list'[j]
        PROVE  \/ i \in DOMAIN list[j] /\ list'[j][i] = list[j][i] /\ list'[j][i] # a
               \/ j = k /\ i = m + 1 /\ list'[j][i] = a
    <3>1. \A x \in DOMAIN list[j] : list[j][x] # a BY <1>2 DEF Listed
    <3>2. CASE j # k BY <3>1, <3>2, <2>4
    <3>3. CASE j = k
      <4>1. i \in 1 .. m + 1 BY <3>3, <2>2, <2>4
      <4>2. i \in 1 .. m \/ i = m + 1 BY <4>1, <2>2
      <4> QED BY <3>1, <3>3, <4>2, <2>2, <2>4
    <3> QED BY <3>2, <3>3
  <2>6. \A x \in Addrs : Listed(x)' <=> Listed(x) \/ x = a
    <3> SUFFICES ASSUME NEW x \in Addrs PROVE Listed(x)' <=> Listed(x) \/ x = a
      OBVIOUS
    <3>1. ASSUME Listed(x)' PROVE Listed(x) \/ x = a
      BY <2>5, <3>1 DEF Listed
    <3>2. ASSUME Listed(x) PROVE Listed(x)'
      <4>1. PICK j \in Kinds : \E i \in DOMAIN list[j] : list[j][i] = x
        BY <3>2 DEF Listed
      <4>2. PICK i \in DOMAIN list[j] : list[j][i] = x BY <4>1
      <4>3. i \in DOMAIN list'[j] /\ list'[j][i] = x
        BY <2>2, <2>4, <4>2
      <4> QED BY <4>3 DEF Listed
    <3>3. ASSUME x = a PROVE Listed(x)'
      <4>1. m + 1 \in DOMAIN list'[k] /\ list'[k][m + 1] = a BY <2>2, <2>4
      <4> QED BY <3>3, <4>1 DEF Listed
    <3> QED BY <3>1, <3>2, <3>3
  <2>7. TypesInv'
    <3>1. ASSUME NEW j \in Kinds, NEW i \in DOMAIN list'[j]
          PROVE  heap'[list'[j][i]] \in Proper(j)
      BY <1>1, <1>2, <2>5, ListElement DEF IInv
    <3> QED BY <1>1, <1>4, <2>4, <3>1 DEF IInv, TypesInv
  <2>8. Apart'
    <3>1. \A x \in mine' : ~Listed(x)' /\ ~Current(x)'
      BY <1>1, <1>4, <2>6 DEF IInv, Apart, TypesInv, Current
    <3>2. \A x \in Addrs : ~(Listed(x)' /\ Current(x)')
      BY <1>1, <1>2, <2>6 DEF IInv, Apart, Current
    <3>3. ASSUME NEW p \in Kinds, NEW q \in Kinds, NEW i \in DOMAIN list'[p],
                 NEW j \in DOMAIN list'[q], list'[p][i] = list'[q][j]
          PROVE  p = q /\ i = j
      <4>1. \A r, t \in Kinds : \A x \in DOMAIN list[r] : \A y \in DOMAIN list[t] :
              list[r][x] = list[t][y] => r = t /\ x = y
        BY DEF IInv, Apart
      <4>2. CASE list'[p][i] = a
        <5>1. p = k /\ i = m + 1 BY <2>5, <4>2
        <5>2. q = k /\ j = m + 1 BY <2>5, <3>3, <4>2
        <5> QED BY <5>1, <5>2
      <4>3. CASE list'[p][i] # a
        <5>1. i \in DOMAIN list[p] /\ list'[p][i] = list[p][i] BY <2>5, <4>3
        <5>2. j \in DOMAIN list[q] /\ list'[q][j] = list[q][j] BY <2>5, <3>3, <4>3
        <5>3. list[p][i] = list[q][j] BY <3>3, <5>1, <5>2
        <5> QED BY <4>1, <5>1, <5>2, <5>3
      <4> QED BY <4>2, <4>3
    <3> QED BY <1>1, <3>1, <3>2, <3>3 DEF IInv, Apart
  <2>9. Had'
    <3>1. \A x \in Addrs : Current(x)' <=> Current(x) BY <1>1 DEF Current
    <3>2. \A x \in Addrs : x \in mine' \/ Listed(x)' <=> x \in mine \/ Listed(x)
      BY <1>1, <1>4, <2>6
    <3> QED BY <1>1, <3>1, <3>2 DEF IInv, Had
  <2>10. parts' = Count(heap') + lost BY <1>1 DEF IInv
  <2> QED BY <2>7, <2>8, <2>9, <2>10 DEF IInv, Count, Marked
<1> QED BY <1>3, <1>4 DEF Add

LEMMA CreateKeeps ==
  ASSUME IInv, NEW k \in Kinds, Create(k), UNCHANGED <<lost, kinds>> PROVE IInv'
<1>1. PICK a \in Fresh :
        \E o \in IF k = "family" THEN {Family(TrickyTrials, 0, << >>)}
                 ELSE {Templates[k][i] : i \in DOMAIN Templates[k]} :
          Put(a, o) /\ mine' = mine \cup {a}
  BY DEF Create
<1>2. PICK o \in IF k = "family" THEN {Family(TrickyTrials, 0, << >>)}
                 ELSE {Templates[k][i] : i \in DOMAIN Templates[k]} :
        Put(a, o) /\ mine' = mine \cup {a}
  BY <1>1
<1>3. o \in Proper(k)
  <2>1. CASE k = "family"
    <3>1. TrickyTrials \in Enums BY Widths DEF Enums, TrickyTrials
    <3>2. << >> \in Seq(STRING) OBVIOUS
    <3>3. Family(TrickyTrials, 0, << >>) \in Proper("family") BY <3>1, <3>2, FamilyProper
    <3> QED BY <1>2, <2>1, <3>3
  <2>2. CASE k # "family" BY <1>2, <2>2, EntryProper DEF Kinds
  <2> QED BY <2>1, <2>2
<1>4. heap[a] = Null BY FreshIsFree
<1>5. heap' = [heap EXCEPT ![a] = o] BY <1>2 DEF Put
<1>6. parts' = parts + Parts(o)
  BY <1>2, <1>4, CountType, PartsIsBit DEF Put, IInv
<1>7. UNCHANGED <<list, current, lost, kinds>> BY DEF Create
<1> QED BY <1>2, <1>3, <1>5, <1>6, <1>7, NewKeeps

(* What an unpack leaves in its object is one of that kind, also if it fails. *)
LEMMA LeftProper ==
  ASSUME NEW k \in Kinds, NEW data, WellFormed(data), NEW o \in LeftBy(k, data)
  PROVE  o \in Proper(k)
<1>1. CASE Unpackable(k, data) /\ o = Unpack(k, data) BY <1>1, UnpackProper
<1>2. CASE k # "family" /\ o \in HalfSites(k, data)
  <2>1. k \in {"provider", "loader"} BY <1>2 DEF Kinds
  <2>2. o = Make(k, EnumOf(data.msg)) BY <1>2 DEF HalfSites
  <2> QED BY <2>1, <2>2, MadeProper
<1>3. CASE k = "family" /\ o \in HalfFamilies(data)
  <2>1. CASE o = Family(UnknownCode, 0, Null)
    <3>1. UnknownCode \in Enums BY SmallEnums DEF UnknownCode
    <3> QED BY <1>3, <2>1, <3>1, FamilyProper
  <2>2. CASE /\ Readable("family", data)
             /\ o = Family(EnumOf(data.msg), AsBool(Else(GetI64(data.msg, 3), 0)), Null)
    <3>1. IsMessage(data) /\ GetI64(data.msg, 2).res = "got" BY <2>2 DEF Readable
    <3>2. GetI64(data.msg, 2).val \in Int BY <3>1, GotNumber
    <3>3. EnumOf(data.msg) \in Enums
      BY <3>2, Widths, RemainderInRange DEF EnumOf, Enums
    <3>4. AsBool(Else(GetI64(data.msg, 3), 0)) \in {0, 1} BY DEF AsBool
    <3> QED BY <1>3, <2>2, <3>3, <3>4, FamilyProper
  <2>3. Readable("family", data) => IsMessage(data) /\ ExpectTag(data.msg, "family")
    BY DEF Readable
  <2> QED BY <1>3, <2>1, <2>2, <2>3 DEF HalfFamilies
<1> QED BY <1>1, <1>2, <1>3 DEF LeftBy

LEMMA ImportKeeps ==
  ASSUME IInv, NEW k \in Kinds, NEW data \in Bytes(k), Import(k, data), kinds' = kinds
  PROVE  IInv'
<1> DEFINE o == Unpack(k, data)
<1>1. WellFormed(data) BY BytesWellFormed DEF IInv
<1>2. UNCHANGED <<list, current, kinds>> BY DEF Import
<1>3. CASE /\ Unpackable(k, data) /\ lost' = lost
           /\ \E a \in Fresh : Put(a, o) /\ mine' = mine \cup {a}
  <2>0. o \in Proper(k) BY <1>1, <1>3, UnpackProper
  <2>1. PICK a \in Fresh : Put(a, o) /\ mine' = mine \cup {a} BY <1>3
  <2> HIDE DEF o
  <2>2. heap[a] = Null BY FreshIsFree
  <2>3. heap' = [heap EXCEPT ![a] = o] BY <2>1 DEF Put
  <2>4. parts' = parts + Parts(o)
    BY <2>1, <2>2, CountType, PartsIsBit DEF Put, IInv
  <2> QED BY <1>2, <1>3, <2>0, <2>1, <2>3, <2>4, NewKeeps
<1>4. CASE /\ \E left \in LeftBy(k, data), a \in Addrs :
                /\ heap[a] # Null /\ heap[a].kind = k
                /\ heap' = [heap EXCEPT ![a] = left]
                /\ parts' = parts + Parts(left) /\ lost' = lost + Parts(heap[a])
           /\ mine' = mine
  <2>1. PICK left \in LeftBy(k, data), a \in Addrs :
           /\ heap[a] # Null /\ heap[a].kind = k
           /\ heap' = [heap EXCEPT ![a] = left]
           /\ parts' = parts + Parts(left) /\ lost' = lost + Parts(heap[a])
    BY <1>4
  <2>2. left \in Proper(heap[a].kind) BY <1>1, <2>1, LeftProper
  <2>3. /\ lost' \in Nat
        /\ parts' = parts + Parts(left) - Parts(heap[a]) + (lost' - lost)
    BY <2>1, CountType, PartsIsBit DEF IInv
  <2> QED BY <1>2, <1>4, <2>1, <2>2, <2>3, InPlaceKeeps
<1> QED BY <1>3, <1>4 DEF Import

LEMMA DropKeeps ==
  ASSUME IInv, NEW a \in Addrs, Drop(a), UNCHANGED <<lost, kinds>> PROVE IInv'
<1>1. /\ a \in mine /\ mine' = mine \ {a} /\ heap' = Freed({a})
      /\ parts' = parts - Parts(heap[a]) /\ list' = list /\ current' = current
  BY DEF Drop
<1>2. heap[a] # Null /\ ~Listed(a) /\ ~Current(a) BY <1>1, MineIsMine
<1>3. heap \in [Addrs -> Cells] /\ Null \in Cells BY DEF IInv, TypesInv, Cells
<1>4. heap' = [heap EXCEPT ![a] = Null] BY <1>1, <1>3 DEF Freed
<1>5. /\ heap' \in [Addrs -> Cells] /\ heap'[a] = Null
      /\ \A x \in Addrs : x # a => heap'[x] = heap[x]
  BY <1>3, <1>4
<1>6. TypesInv'
  <2>1. ASSUME NEW j \in Kinds, NEW i \in DOMAIN list[j]
        PROVE  heap'[list[j][i]] \in Proper(j)
    BY <1>2, <1>5, ListElement DEF IInv, Listed
  <2>2. ASSUME NEW j \in Kinds, current[j] # Null PROVE heap'[current[j]] \in Proper(j)
    BY <1>2, <1>5, <2>2 DEF IInv, TypesInv, Current
  <2> QED BY <1>1, <1>5, <2>1, <2>2 DEF IInv, TypesInv
<1>7. Apart' BY <1>1 DEF IInv, Apart, Listed, Current
<1>8. Had'
  <2>1. \A x \in Addrs : (Listed(x)' <=> Listed(x)) /\ (Current(x)' <=> Current(x))
    BY <1>1 DEF Listed, Current
  <2>2. ASSUME NEW x \in Addrs
        PROVE  heap'[x] # Null <=> x \in mine' \/ Listed(x)' \/ Current(x)'
    BY <1>1, <1>2, <1>5, <2>1 DEF IInv, Had
  <2> QED BY <2>2 DEF Had
<1>9. parts' = Count(heap') + lost
  <2>1. Count(heap') = Count(heap) + Weight(Null) - Weight(heap[a])
    BY <1>3, <1>4, CountOne
  <2>2. Weight(Null) = 0 /\ Weight(heap[a]) = Parts(heap[a])
    BY <1>2, PartsIsBit DEF Weight
  <2> QED BY <1>1, <2>1, <2>2, CountType, PartsIsBit DEF IInv
<1> QED BY <1>6, <1>7, <1>8, <1>9 DEF IInv, Count, Marked

(* The objects that a program makes of one it has a pointer to.             *)
LEMMA ChangeKeeps ==
  ASSUME IInv, NEW a \in Addrs, Change(a), UNCHANGED <<lost, kinds>> PROVE IInv'
<1> DEFINE o == heap[a]
<1>1. o # Null /\ UNCHANGED <<list, current, mine>> BY DEF Change
<1>2. o.kind \in Kinds /\ o \in Proper(o.kind) BY <1>1, KindTells DEF IInv, TypesInv
<1>3. ASSUME NEW p \in Proper(o.kind), Put(a, p) PROVE IInv'
  <2>1. /\ heap' = [heap EXCEPT ![a] = p] /\ lost' \in Nat
        /\ parts' = parts + Parts(p) - Parts(heap[a]) + (lost' - lost)
    BY <1>1, <1>3, CountType, PartsIsBit DEF Put, IInv
  <2> QED BY <1>1, <1>3, <2>1, InPlaceKeeps
<1>4. ASSUME o.kind # "family"
      PROVE  /\ o.kind \in {"provider", "loader"} /\ o.url \in Texts /\ o.owns \in BOOLEAN
             /\ o.flags \in Enums /\ o.online \in Onlines(o.kind)
  <2>1. o.kind \in {"provider", "loader"} BY <1>2, <1>4 DEF Kinds
  <2> QED BY <1>2, <2>1, SiteFields
<1>5. ASSUME o.kind # "family", NEW url \in Texts, NEW owns \in BOOLEAN,
             Put(a, WithUrl(o, url, owns))
      PROVE  IInv'
  <2>1. WithUrl(o, url, owns) \in Proper(o.kind) BY <1>2, <1>4, <1>5, SiteUrlChanged
  <2> HIDE DEF o
  <2> QED BY <1>3, <1>5, <2>1
<1>6. FALSE \in BOOLEAN /\ TRUE \in BOOLEAN /\ Null \in Texts /\ Urls \subseteq Texts
  BY RegistryAssumption DEF Texts
<1>7. ASSUME NEW url \in Urls \cup {Null}, SetUrl(a, url) PROVE IInv'
  <2> DEFINE owns == FALSE
  <2>1. o.kind # "family" /\ url \in Texts /\ owns \in BOOLEAN BY <1>6, <1>7 DEF SetUrl
  <2>2. Put(a, WithUrl(o, url, owns)) BY <1>7 DEF SetUrl, WithUrl
  <2> HIDE DEF owns, o
  <2> QED BY <1>5, <2>1, <2>2
<1>8. ASSUME NEW url \in Urls, SetUrlDup(a, url) PROVE IInv'
  <2>1. o.kind # "family" BY <1>8 DEF SetUrlDup
  <2>2. CASE Put(a, [heap[a] EXCEPT !.url = url, !.owns = TRUE])
    <3> DEFINE owns == TRUE
    <3>1. url \in Texts /\ owns \in BOOLEAN BY <1>6
    <3>2. Put(a, WithUrl(o, url, owns)) BY <2>2 DEF WithUrl
    <3> HIDE DEF owns, o
    <3> QED BY <1>5, <2>1, <3>1, <3>2
  <2>3. CASE Put(a, [heap[a] EXCEPT !.url = IF heap[a].owns THEN Null ELSE @,
                                    !.owns = FALSE])
    <3> DEFINE owns == FALSE  left == IF o.owns THEN Null ELSE o.url
    <3>1. left \in Texts /\ owns \in BOOLEAN BY <1>4, <1>6, <2>1
    <3>2. Put(a, WithUrl(o, left, owns)) BY <2>3 DEF WithUrl
    <3> HIDE DEF owns, o, left
    <3> QED BY <1>5, <2>1, <3>1, <3>2
  <2> QED BY <1>8, <2>2, <2>3 DEF SetUrlDup
<1>9. ASSUME SetFields(a) PROVE IInv'
  <2>1. CASE /\ heap[a].kind # "family"
             /\ Put(a, [heap[a] EXCEPT
                          !.online = IF heap[a].kind = "provider" THEN 0 ELSE @,
                          !.flags = 0])
    <3> DEFINE online == IF o.kind = "provider" THEN 0 ELSE o.online
    <3>1. online \in Onlines(o.kind) /\ 0 \in Enums
      BY <1>4, <2>1, SmallEnums DEF Onlines
    <3>2. Put(a, Switched(o, online, 0)) BY <2>1 DEF Switched
    <3> HIDE DEF online
    <3>3. Switched(o, online, 0) \in Proper(o.kind)
      BY <1>2, <1>4, <2>1, <3>1, SiteSwitched
    <3> HIDE DEF o
    <3> QED BY <1>3, <3>2, <3>3
  <2>2. CASE heap[a].kind = "family" /\ Put(a, [heap[a] EXCEPT !.snapshot = 1])
    <3>1. [o EXCEPT !.snapshot = 1] \in Proper("family")
      BY <1>2, <2>2 DEF Proper, Objects
    <3> QED BY <1>3, <2>2, <3>1
  <2> QED BY <1>9, <2>1, <2>2 DEF SetFields
<1>10. ASSUME NEW v \in Versions, AddVersion(a, v) PROVE IInv'
  <2>1. /\ o.kind = "family" /\ o.versions # Null
        /\ Put(a, [o EXCEPT !.versions = Append(@, v)])
    BY <1>10 DEF AddVersion
  <2>2. o \in Proper("family") /\ o.versions \in Seq(STRING) \cup {Null}
    BY <1>2, <2>1, FamilyFields
  <2>3. Append(o.versions, v) \in Seq(STRING)
    <3>1. v \in STRING /\ o.versions \in Seq(STRING) BY <2>1, <2>2, RegistryAssumption
    <3> QED BY <3>1, AppendProperties
  <2>4. [o EXCEPT !.versions = Append(@, v)] \in Proper("family")
    <3> DEFINE vs == Append(o.versions, v)
    <3>1. vs \in Seq(STRING) BY <2>3
    <3> HIDE DEF vs
    <3>2. [o EXCEPT !.versions = vs] \in Proper("family")
      BY <2>2, <3>1 DEF Proper, Objects
    <3> QED BY <3>2 DEF vs
  <2> QED BY <1>3, <2>1, <2>4
<1> QED BY <1>7, <1>8, <1>9, <1>10 DEF Change

LEMMA SetCurrentKeeps ==
  ASSUME IInv, NEW k \in Kinds, NEW a \in Addrs, SetCurrent(k, a), UNCHANGED <<lost, kinds>>
  PROVE  IInv'
<1>1. /\ a \in mine /\ heap[a].kind = k /\ Select(k, a, heap[a]) /\ mine' = mine \ {a}
      /\ list' = list
  BY DEF SetCurrent
<1>2. heap[a] \in Proper(k) BY <1>1, MineIsMine
<1> QED BY <1>1, <1>2, SelectKeeps

LEMMA SelectIdKeeps ==
  ASSUME IInv, NEW k \in Kinds, NEW id, SelectId(k, id), UNCHANGED <<lost, kinds>>
  PROVE  IInv'
<1> DEFINE found == Find(k, id)
<1>1. found # Null /\ (k # "family" => Known(k, id)) /\ list' = list /\ mine' = mine
  BY DEF SelectId
<1>2. CASE \E a \in Fresh, copy \in Copies(heap[found]) : Select(k, a, copy)
  <2>1. PICK a \in Fresh, copy \in Copies(heap[found]) : Select(k, a, copy) BY <1>2
  <2>2. heap[found] \in Proper(k) /\ heap[found].id = id
    BY <1>1, FindIn, ListElement DEF IInv
  <2> HIDE DEF found
  <2>3. copy \in Proper(k) BY <1>1, <2>1, <2>2, CopyProper
  <2>4. a \in Addrs BY FreshIsFree
  <2> QED BY <1>1, <2>1, <2>3, <2>4, SelectKeeps
<1>3. CASE UNCHANGED <<heap, parts, current>> BY <1>1, <1>3, SameKeeps
<1> QED BY <1>2, <1>3 DEF SelectId

LEMMA LoadKeeps ==
  ASSUME IInv, NEW k \in Kinds, NEW data \in Bytes(k), Load(k, data), UNCHANGED <<lost, kinds>>
  PROVE  IInv'
<1>1. list' = list /\ mine' = mine BY DEF Load
<1>2. CASE Unpackable(k, data) /\ \E a \in Fresh : Select(k, a, Unpack(k, data))
  <2>1. PICK a \in Fresh : Select(k, a, Unpack(k, data)) BY <1>2
  <2>2. Unpack(k, data) \in Proper(k)
    BY <1>2, BytesWellFormed, UnpackProper DEF IInv
  <2>3. a \in Addrs BY FreshIsFree
  <2> QED BY <1>1, <2>1, <2>2, <2>3, SelectKeeps
<1>3. CASE UNCHANGED <<heap, current, parts>> BY <1>1, <1>3, SameKeeps
<1> QED BY <1>2, <1>3 DEF Load


-----------------------------------------------------------------------------
(* The invariant.                                                          *)

LEMMA InitHolds == Init => IInv
<1> SUFFICES ASSUME Init PROVE IInv
  OBVIOUS
<1>1. /\ \A a \in Addrs : heap[a] = Null
      /\ \A k \in Kinds : list[k] = << >> /\ current[k] = Null
      /\ mine = {} /\ parts = 0 /\ lost = 0 /\ kinds \in Programs
  BY DEF Init, Nowhere
<1>2. TypesInv
  <2>1. heap \in [Addrs -> Cells] BY DEF Init, Cells
  <2>2. list \in [Kinds -> Seq(Addrs)] BY DEF Init
  <2>3. current \in [Kinds -> Addrs \cup {Null}] BY DEF Init, Nowhere
  <2>4. kinds \subseteq Kinds BY <1>1, RegistryAssumption
  <2> QED BY <1>1, <2>1, <2>2, <2>3, <2>4 DEF TypesInv
<1>3. \A a \in Addrs : ~Listed(a) /\ ~Current(a)
  BY <1>1, RegistryAssumption DEF Listed, Current
<1>4. Apart
  <2>1. \A k \in Kinds : DOMAIN list[k] = {} BY <1>1
  <2> QED BY <1>1, <1>3, <2>1 DEF Apart
<1>5. Had BY <1>1, <1>3 DEF Had
<1>6. Count(heap) = 0
  <2>1. Marked(heap) = {} BY <1>1 DEF Marked
  <2> QED BY <2>1, FS_EmptySet DEF Count
<1> QED BY <1>1, <1>2, <1>4, <1>5, <1>6 DEF IInv

LEMMA NextKeeps == IInv /\ [Next]_vars => IInv'
<1> SUFFICES ASSUME IInv, [Next]_vars PROVE IInv'
  OBVIOUS
<1>1. CASE UNCHANGED vars BY <1>1, SameKeeps DEF vars
<1>2. CASE Next
  <2>0. kinds' = kinds /\ kinds \subseteq Kinds BY <1>2 DEF Next, IInv, TypesInv
  <2>1. CASE GlobalInit /\ lost' = lost BY <2>0, <2>1, SameKeeps DEF GlobalInit
  <2>2. CASE GlobalShutdown /\ lost' = lost BY <2>0, <2>2, ShutdownKeeps
  <2>3. ASSUME NEW k \in kinds, Seed(k), lost' = lost PROVE IInv'
    BY <2>0, <2>3, SeedKeeps
  <2>4. ASSUME NEW k \in kinds, Create(k), lost' = lost PROVE IInv'
    BY <2>0, <2>4, CreateKeeps
  <2>5. ASSUME NEW k \in kinds, NEW a \in Addrs, Add(k, a), lost' = lost PROVE IInv'
    BY <2>0, <2>5, AddKeeps
  <2>6. ASSUME NEW k \in kinds, NEW a \in Addrs, SetCurrent(k, a), lost' = lost PROVE IInv'
    BY <2>0, <2>6, SetCurrentKeeps
  <2>7. ASSUME NEW k \in kinds, NEW id \in Ids(k), SelectId(k, id), lost' = lost PROVE IInv'
    BY <2>0, <2>7, SelectIdKeeps
  <2>8. ASSUME NEW k \in kinds, NEW data \in Bytes(k), Load(k, data), lost' = lost PROVE IInv'
    BY <2>0, <2>8, LoadKeeps
  <2>9. ASSUME NEW k \in kinds, NEW data \in Bytes(k), Import(k, data) PROVE IInv'
    BY <2>0, <2>9, ImportKeeps
  <2>10. ASSUME NEW a \in Addrs, Drop(a), lost' = lost PROVE IInv'
    BY <2>0, <2>10, DropKeeps
  <2>11. ASSUME NEW a \in Addrs, Change(a), lost' = lost PROVE IInv'
    BY <2>0, <2>11, ChangeKeeps
  <2> QED
    BY <1>2, <2>1, <2>2, <2>3, <2>4, <2>5, <2>6, <2>7, <2>8, <2>9, <2>10, <2>11
    DEF Next
<1> QED BY <1>1, <1>2

LEMMA Invariance == Spec => []IInv
BY InitHolds, NextKeeps, PTL DEF Spec

(* The one that has an object has it once.                                  *)
LEMMA OneHolder ==
  ASSUME IInv, NEW a \in Addrs
  PROVE  LET holders == {<<"mine", x, 0>> : x \in mine \cap {a}}
               \cup {<<"current", k, 0>> : k \in {j \in Kinds : current[j] = a}}
               \cup UNION {{<<"list", k, i>> : i \in {j \in DOMAIN list[k] : list[k][j] = a}} :
                             k \in Kinds}
         IN Cardinality(holders) = (IF heap[a] = Null THEN 0 ELSE 1)
<1> DEFINE ofMine == {<<"mine", x, 0>> : x \in mine \cap {a}}
           ofCurrent == {<<"current", k, 0>> : k \in {j \in Kinds : current[j] = a}}
           at(k) == {<<"list", k, i>> : i \in {j \in DOMAIN list[k] : list[k][j] = a}}
           ofList == UNION {at(k) : k \in Kinds}
           holders == ofMine \cup ofCurrent \cup ofList
<1>0. a # Null BY RegistryAssumption
<1>1. a \notin mine => ofMine = {} OBVIOUS
<1>2. ~Current(a) => ofCurrent = {} BY DEF Current
<1>3. ~Listed(a) => ofList = {}
  <2> SUFFICES ASSUME ~Listed(a) PROVE ofList = {}
    OBVIOUS
  <2>1. \A k \in Kinds : at(k) = {} BY DEF Listed
  <2> HIDE DEF at
  <2> QED BY <2>1
<1>4. a \in mine => ofMine = {<<"mine", a, 0>>} OBVIOUS
<1>5. Current(a) => \E k \in Kinds : ofCurrent = {<<"current", k, 0>>}
  <2> SUFFICES ASSUME Current(a) PROVE \E k \in Kinds : ofCurrent = {<<"current", k, 0>>}
    OBVIOUS
  <2>1. PICK k \in Kinds : current[k] = a BY DEF Current
  <2>2. \A j \in Kinds : current[j] = a => j = k
    BY <1>0, <2>1 DEF IInv, Apart
  <2>3. {j \in Kinds : current[j] = a} = {k} BY <2>1, <2>2
  <2> QED BY <2>3
<1>6. Listed(a) => \E h : ofList = {h}
  <2> SUFFICES ASSUME Listed(a) PROVE \E h : ofList = {h}
    OBVIOUS
  <2>1. PICK k \in Kinds : \E i \in DOMAIN list[k] : list[k][i] = a BY DEF Listed
  <2>2. PICK i \in DOMAIN list[k] : list[k][i] = a BY <2>1
  <2>3. \A m \in Kinds : \A j \in DOMAIN list[m] : list[m][j] = a => m = k /\ j = i
    <3>1. \A r, t \in Kinds : \A x \in DOMAIN list[r] : \A y \in DOMAIN list[t] :
            list[r][x] = list[t][y] => r = t /\ x = y
      BY DEF IInv, Apart
    <3> QED BY <2>2, <3>1
  <2>4. at(k) = {<<"list", k, i>>}
    <3>1. {j \in DOMAIN list[k] : list[k][j] = a} = {i} BY <2>2, <2>3
    <3> QED BY <3>1
  <2>5. \A m \in Kinds : m # k => at(m) = {} BY <2>3
  <2> HIDE DEF at
  <2>6. ofList = at(k) BY <2>5
  <2> QED BY <2>4, <2>6
<1> HIDE DEF ofMine, ofCurrent, ofList
<1>7. CASE heap[a] = Null
  <2>1. a \notin mine /\ ~Listed(a) /\ ~Current(a) BY <1>7 DEF IInv, Had
  <2>2. holders = {} BY <1>1, <1>2, <1>3, <2>1
  <2>3. Cardinality(holders) = 0 BY <2>2, FS_EmptySet
  <2> QED BY <1>7, <2>3 DEF ofMine, ofCurrent, ofList
<1>8. CASE heap[a] # Null
  <2>1. \E h : holders = {h}
    <3>1. CASE a \in mine
      <4>1. ~Listed(a) /\ ~Current(a) BY <3>1 DEF IInv, Apart
      <4> QED BY <1>2, <1>3, <1>4, <3>1, <4>1
    <3>2. CASE Listed(a)
      <4>1. a \notin mine /\ ~Current(a) BY <3>2 DEF IInv, Apart
      <4> QED BY <1>1, <1>2, <1>6, <3>2, <4>1
    <3>3. CASE Current(a)
      <4>1. a \notin mine /\ ~Listed(a) BY <3>3 DEF IInv, Apart
      <4> QED BY <1>1, <1>3, <1>5, <3>3, <4>1
    <3> QED BY <1>8, <3>1, <3>2, <3>3 DEF IInv, Had
  <2>2. Cardinality(holders) = 1
    <3>1. PICK h : holders = {h} BY <2>1
    <3> QED BY <3>1, FS_Singleton
  <2> QED BY <1>8, <2>2 DEF ofMine, ofCurrent, ofList
<1> QED BY <1>7, <1>8

(* Every object is in one list, is one selection, or is the program's, and   *)
(* what the program, the lists and the selections have is allocated: so no   *)
(* sequence of calls frees an object twice or loses one.  The strings and    *)
(* version lists that are allocated are those of the objects there are, and  *)
(* as many more as unpack wrote over in objects that owned them: only there  *)
(* a part is lost.                                                           *)
THEOREM EveryObjectOwned == Spec => []OneOwner
<1>1. IInv => OneOwner
  <2> SUFFICES ASSUME IInv PROVE OneOwner
    OBVIOUS
  <2>1. ObjectsOwned BY OneHolder DEF ObjectsOwned
  <2>2. PartsOwned
    <3>1. Marked(heap) = {a \in {b \in Addrs : heap[b] # Null} : Parts(heap[a]) = 1}
      BY DEF Marked
    <3> QED BY <3>1 DEF IInv, Count, PartsOwned, PartsOf
  <2> QED BY <2>1, <2>2 DEF OneOwner
<1> QED BY <1>1, Invariance, PTL

(* Whatever calls led to a selection, the bytes it is saved in are unpacked  *)
(* as the object it was; a URL that is missing or empty comes back as the    *)
(* one of the table.                                                         *)
THEOREM SelectionsReadBack == Spec => []SelectionReadsBack
<1>1. IInv => SelectionReadsBack
  <2> SUFFICES ASSUME IInv, NEW k \in Kinds, current[k] # Null
               PROVE  LET o == heap[current[k]]  back == Unpack(k, Pack(o)) IN
                      /\ Unpackable(k, Pack(o))
                      /\ IF k = "family" THEN back = o
                         ELSE /\ back.id = o.id /\ back.flags = o.flags
                              /\ back.online = o.online
                              /\ back.url = o.url \/ o.url \in {Null, ""}
    BY DEF SelectionReadsBack
  <2>1. heap[current[k]] \in Proper(k) BY DEF IInv, TypesInv
  <2>2. Faithful(k, heap[current[k]], Pack(heap[current[k]])) BY <2>1, ReadsBack
  <2> QED BY <2>2 DEF Faithful
<1> QED BY <1>1, Invariance, PTL


(* A copy that is complete has what the program made of the entry, except    *)
(* that a provider is online as its table says.                              *)
LEMMA SiteMirrored ==
  ASSUME NEW k \in {"provider", "loader"}, NEW o \in Proper(k), Known(k, o.id),
         NEW copy \in Copies(o), Complete(copy, o)
  PROVE  /\ copy.flags = o.flags /\ (copy.url = o.url \/ o.url = Null)
         /\ copy.online = Template(k, o.id).online
<1> DEFINE t == Template(k, o.id)  new == WithFlags(t, o.flags)  owns == TRUE
<1>1. o.kind = k /\ o.flags \in Enums /\ o.url \in Texts BY SiteFields
<1>2. copy = new \/ (o.url # Null /\ copy = WithUrl(new, o.url, owns))
  BY <1>1 DEF Copies, SiteCopies, WithFlags, WithUrl
<1>3. o.url = Null \/ copy.owns BY <1>1 DEF Complete
<1>4. t \in Proper(k) /\ ~t.owns BY TemplateProper
<1> HIDE DEF t
<1>5. /\ new \in Proper(k) /\ new.flags = o.flags /\ new.owns = t.owns
      /\ new.online = t.online
  BY <1>1, <1>4, SiteFlagsChanged
<1> HIDE DEF new
<1>6. owns \in BOOLEAN OBVIOUS
<1> HIDE DEF owns
<1>7. ASSUME copy = new
      PROVE  copy.flags = o.flags /\ (copy.url = o.url \/ o.url = Null) /\ copy.online = t.online
  BY <1>3, <1>4, <1>5, <1>7
<1>8. ASSUME copy = WithUrl(new, o.url, owns)
      PROVE  copy.flags = o.flags /\ copy.url = o.url /\ copy.online = t.online
  BY <1>1, <1>5, <1>6, <1>8, SiteUrlChanged
<1>9. copy.flags = o.flags /\ (copy.url = o.url \/ o.url = Null) /\ copy.online = t.online
  BY <1>2, <1>7, <1>8
<1> QED BY <1>9 DEF t

LEMMA FamilyMirrored ==
  ASSUME NEW o \in Proper("family"), NEW copy \in Copies(o), Complete(copy, o)
  PROVE  copy.snapshot = o.snapshot /\ (copy.versions = o.versions \/ o.versions = Null)
<1>1. o.kind = "family" BY FamilyFields
<1>2. copy \in FamilyCopies(o) /\ (o.versions = Null \/ copy.versions = o.versions)
  BY <1>1 DEF Copies, Complete
<1>3. \E vs : copy = Family(o.id, o.snapshot, vs)
  <2>1. CASE o.versions = Null BY <1>2, <2>1 DEF FamilyCopies
  <2>2. CASE o.versions # Null BY <1>2, <2>2 DEF FamilyCopies
  <2> QED BY <2>1, <2>2
<1>4. copy.snapshot = o.snapshot BY <1>3 DEF Family
<1> QED BY <1>2, <1>4

Mirrored(k, id) ==
  LET entry == heap[Find(k, id)]  now == heap'[current'[k]] IN
  /\ heap'[Find(k, id)] = entry /\ now.id = id
  /\ k # "family" => /\ now.flags = entry.flags
                     /\ now.url = entry.url \/ entry.url = Null
                     /\ now.online = Template(k, id).online
  /\ k = "family" => /\ now.snapshot = entry.snapshot
                     /\ now.versions = entry.versions \/ entry.versions = Null

LEMMA SelectIdMirrors ==
  ASSUME IInv, NEW k \in Kinds, NEW id, SelectId(k, id), ~short'
  PROVE  Mirrored(k, id)
<1> DEFINE found == Find(k, id)  o == heap[found]
<1>1. found # Null /\ (k # "family" => Known(k, id)) BY DEF SelectId
<1>2. PICK a \in Fresh, copy \in Copies(o) :
        Select(k, a, copy) /\ short' = ~Complete(copy, o)
  BY DEF SelectId
<1>3. PICK i \in DOMAIN list[k] : found = list[k][i] /\ o.id = id
  BY <1>1, FindIn DEF IInv
<1>4. found \in Addrs /\ o \in Proper(k) /\ Listed(found)
  BY <1>3, ListElement DEF IInv, Listed
<1>5. a \in Addrs /\ a # found /\ current[k] # found
  BY <1>4, FreshIsFree DEF IInv, Apart, Current
<1>6. /\ heap' = [x \in Addrs |-> IF x = a THEN copy
                                  ELSE IF x = current[k] THEN Null ELSE heap[x]]
      /\ current' = [current EXCEPT ![k] = a]
  BY <1>2 DEF Select
<1>7. current'[k] = a BY <1>6 DEF IInv, TypesInv
<1>8. heap'[a] = copy /\ heap'[found] = o BY <1>4, <1>5, <1>6
<1> HIDE DEF found, o
<1>9. copy.id = id BY <1>1, <1>2, <1>3, <1>4, CopyProper
<1>10. Complete(copy, o) BY <1>2
<1>11. k # "family" => /\ copy.flags = o.flags /\ (copy.url = o.url \/ o.url = Null)
                       /\ copy.online = Template(k, id).online
  BY <1>1, <1>2, <1>3, <1>4, <1>10, SiteMirrored DEF Kinds
<1>12. k = "family" => /\ copy.snapshot = o.snapshot
                       /\ copy.versions = o.versions \/ o.versions = Null
  BY <1>2, <1>4, <1>10, FamilyMirrored
<1> QED BY <1>7, <1>8, <1>9, <1>11, <1>12 DEF Mirrored, found, o

(* What is selected by identity has the flags and the URL, or the snapshot   *)
(* bit and the versions, that the program gave the entry, and the entry      *)
(* stays; unless memory ran out, or the entry has no URL or version list.    *)
(* A provider is online as the table has it, whatever the entry says.        *)
THEOREM SelectionsMirror == Spec => SelectedMirrors
<1>1. ASSUME IInv
      PROVE  \A k \in Kinds : \A id \in Ids(k) :
               current'[k] # current[k] /\ ~short' /\ SelectId(k, id) => Mirrored(k, id)
  BY <1>1, SelectIdMirrors
<1>2. IInv /\ [Next]_vars =>
        [\A k \in Kinds : \A id \in Ids(k) :
           current'[k] # current[k] /\ ~short' /\ SelectId(k, id) =>
             LET entry == heap[Find(k, id)]  now == heap'[current'[k]] IN
             /\ heap'[Find(k, id)] = entry /\ now.id = id
             /\ k # "family" => /\ now.flags = entry.flags
                                /\ now.url = entry.url \/ entry.url = Null
                                /\ now.online = Template(k, id).online
             /\ k = "family" => /\ now.snapshot = entry.snapshot
                                /\ now.versions = entry.versions \/ entry.versions = Null]_vars
  BY <1>1, Zenon DEF Mirrored
<1> QED BY <1>2, Invariance, PTL DEF Spec, SelectedMirrors
=============================================================================
