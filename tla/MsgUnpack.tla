------------------------------ MODULE MsgUnpack ------------------------------
(***************************************************************************)
(* The unpack functions of libmcpkg/mp, which are generated from schemas   *)
(* and all have one shape: open a reader, expect the tag, make an empty    *)
(* object, read field after field (nested objects and lists by the unpack  *)
(* functions of their own types), close the reader; at the first error     *)
(* free the object with the type's free function and report.  What a type  *)
(* reads and what its free function releases are the constants Reads and   *)
(* Owned; MsgTypes gives their values.                                     *)
(*                                                                         *)
(* stack holds the calls in progress, the innermost last; live what is     *)
(* allocated: h.depth is the call whose object leads to it, h.way the      *)
(* edges on that way.  Every allocation may fail.  An operator named       *)
(* Op_Slip is Op with a slip a programmer could make; the mutants of       *)
(* PROJECT.json put it in the place of Op.                                 *)
(***************************************************************************)
EXTENDS MsgFormat

CONSTANTS
  Reads,            \* type -> the reads of its unpack function, in order
  Owned,            \* type -> the <<field, part>> its free function frees
  Rank, Deepest,    \* type -> how deep its objects nest, at most Deepest
  Inputs            \* what unpack is called with: a type and bytes

Allocates(r) == r.how \in {"str", "strlist", "object", "objects", "hashes"}

(* What a read allocates the free function of its type frees, and what a    *)
(* read nests is of a type that has an unpack function.                     *)
ASSUME TypesAssumption ==
  /\ \A type \in DOMAIN Reads : \A i \in DOMAIN Reads[type] :
       LET r == Reads[type][i] IN
       /\ Allocates(r) => <<r.field, "self">> \in Owned[type]
       /\ r.how = "objects" => <<r.field, "each">> \in Owned[type]
       /\ r.how \in {"object", "objects"} => r.type \in DOMAIN Reads
  /\ \A type \in DOMAIN Reads :
       DOMAIN Reads[type] = 1 .. Len(Reads[type]) /\ Len(Reads[type]) \in Nat
  /\ \A call \in Inputs : call.type \in DOMAIN Reads

(* A type reads a field once, and no type is nested in itself.              *)
ReadsOf(type) == {Reads[type][i] : i \in DOMAIN Reads[type]}
ASSUME NestingAssumption ==
  /\ Deepest \in Nat /\ Rank \in [DOMAIN Reads -> 0 .. Deepest]
  /\ \A type \in DOMAIN Reads :
       /\ \A i, j \in DOMAIN Reads[type] :
            Reads[type][i].field = Reads[type][j].field => i = j
       /\ \A r \in ReadsOf(type) :
            r.how \in {"object", "objects"} => Rank[r.type] < Rank[type]

VARIABLES input, stack, live, ret,
  exhausted         \* an allocation has failed

unpackVars == <<input, stack, live, ret, exhausted>>

Result(res, obj) == [res |-> res, obj |-> obj]
Pending == Result("pending", Null)

Depth == Len(stack)
Top == stack[Depth]
Step == Reads[Top.type][Top.at]

(* A field's string, list or object ("self"), or an element of its list. *)
Edge(type, field, part) == [type |-> type, field |-> field, part |-> part]
Here(part) == Edge(Top.type, Step.field, part)

Memory(d, way) == [kind |-> "object", depth |-> d, way |-> way]
Reader(d) == [kind |-> "reader", depth |-> d, way |-> {}]
Cursor(d) == [kind |-> "cursor", depth |-> d, way |-> {}]

(* x_free(p), with p the object that call d made. *)
FreedBy(d) ==
  {h \in live : /\ h.kind = "object" /\ h.depth = d
                /\ \A e \in h.way : <<e.field, e.part>> \in Owned[e.type]}

(* x_new: calloc. *)
ZeroOf(how) ==
  CASE how \in {"u32", "i32", "u64", "i64"} -> 0
    [] how = "bytes" -> ZeroBytes
    [] OTHER -> Null
Blank(type) ==
  [f \in {r.field : r \in ReadsOf(type)} |->
     ZeroOf((CHOOSE r \in ReadsOf(type) : r.field = f).how)]

UnpackInit ==
  /\ input \in Inputs
  /\ stack = << >> /\ live = {} /\ ret = Pending /\ exhausted = FALSE

-----------------------------------------------------------------------------
(* Calls and returns.                                                      *)

(* The first lines of an unpack function: arguments, reader, tag, object.   *)
EnterFails(type, data) ==
  /\ \E res \in {"invalid", "parse", "no_memory"} :
       /\ res = "invalid" <=> data.size = 0
       /\ res = "parse" => ~(IsMessage(data) /\ ExpectTag(data.msg, type))
       /\ ret' = Result(res, Null)
  /\ UNCHANGED <<stack, live>>

Enter(type, data) ==
  /\ IsMessage(data) /\ ExpectTag(data.msg, type)
  /\ stack' = Append(stack, [type |-> type, msg |-> data.msg,
                             obj |-> Blank(type), at |-> 1,
                             looping |-> FALSE, elems |-> << >>])
  /\ live' = live \cup {Reader(Depth + 1), Memory(Depth + 1, {})}
  /\ UNCHANGED ret

Call(type, data) == EnterFails(type, data) \/ Enter(type, data)

Return(res, obj) ==
  /\ stack' = SubSeq(stack, 1, Depth - 1)
  /\ ret' = Result(res, obj)

(* out_err: the object and the reader, and what the caller of it freed.     *)
Fail(res, more) ==
  /\ live' = live \ (FreedBy(Depth) \cup {Reader(Depth)} \cup more)
  /\ Return(res, Null)

(* *out_p = p. *)
Finish ==
  /\ live' = live \ {Reader(Depth)}
  /\ Return("ok", Top.obj)

Proceed(obj, more) ==
  /\ stack' = [stack EXCEPT ![Depth].obj = obj, ![Depth].at = @ + 1,
                            ![Depth].looping = FALSE, ![Depth].elems = << >>]
  /\ live' = live \cup more
  /\ ret' = Pending
WithField(v) == [Top.obj EXCEPT ![Step.field] = v]

-----------------------------------------------------------------------------
(* One field.                                                              *)

AsStored(g) == IF Step.how = "i32" THEN AsI32(g.val) ELSE g.val
ReadInt ==
  LET g == IF Step.how \in {"u64", "i64"} THEN GetU64(Top.msg, Step.key)
           ELSE GetU32(Top.msg, Step.key) IN
  /\ Step.how \in {"u32", "i32", "u64", "i64"}
  /\ IF g.res = "parse" \/ (Step.required /\ g.res = "missing")
     THEN Fail("parse", {})
     ELSE Proceed(IF g.res = "got" THEN WithField(AsStored(g)) ELSE Top.obj, {})

(* A required hash has its size; one that may be missing is also skipped    *)
(* when it is nil.                                                          *)
ReadBytes ==
  LET g == GetBin(Top.msg, Step.key)
      here == g.res = "got" /\ g.val # Null IN
  /\ Step.how = "bytes"
  /\ IF \/ g.res = "parse"
        \/ Step.required /\ ~here
        \/ here /\ g.val.size # Step.size
     THEN Fail("parse", {})
     ELSE Proceed(IF here THEN WithField(g.val.raw) ELSE Top.obj, {})

(* Strings and string lists are copies. *)
ReadText ==
  LET g == IF Step.how = "str" THEN GetStr(Top.msg, Step.key)
           ELSE GetStrList(Top.msg, Step.key)
      here == g.res = "got" /\ g.val # Null IN
  /\ Step.how \in {"str", "strlist"}
  /\ \/ /\ g.res = "parse" \/ (Step.required /\ ~here)
        /\ Fail("parse", {})
     \/ /\ here \/ (Step.how = "strlist" /\ g.res = "parse")
        /\ Fail("no_memory", {})
     \/ /\ g.res # "parse" /\ (Step.required => here)
        /\ IF here THEN Proceed(WithField(g.val), {Memory(Depth, {Here("self")})})
           ELSE Proceed(Top.obj, {})

(* A nested object: the bytes go to the unpack function of its type ... *)
ReadNested_Slip ==
  LET g == GetBin(Top.msg, Step.key)
      here == g.res = "got" /\ g.val # Null /\ g.val.size # 0 IN
  /\ Step.how = "object"
  /\ IF g.res = "parse" \/ (Step.required /\ g.res = "missing") THEN Fail("parse", {})
     ELSE IF here THEN Call(Step.type, g.val) ELSE Proceed(Top.obj, {})
ReadNested ==
  LET g == GetBin(Top.msg, Step.key)
      here == g.res = "got" /\ g.val # Null /\ g.val.size # 0 IN
  /\ Step.how = "object"
  /\ IF g.res = "parse" \/ (Step.required /\ ~here) THEN Fail("parse", {})
     ELSE IF here THEN Call(Step.type, g.val) ELSE Proceed(Top.obj, {})

(* ... which gives it to the caller's object. *)
Adopted(edge) ==
  {IF h.depth = Depth + 1
   THEN [h EXCEPT !.depth = Depth, !.way = @ \cup {edge}] ELSE h : h \in live}
TakeNested ==
  /\ Step.how = "object"
  /\ IF ret.res # "ok" THEN Fail("parse", {})
     ELSE /\ stack' = [stack EXCEPT ![Depth].obj = WithField(ret.obj),
                                    ![Depth].at = @ + 1]
          /\ live' = Adopted(Here("self"))
          /\ ret' = Pending

-----------------------------------------------------------------------------
(* A list: of objects, or of hashes.                                       *)

OpenList ==
  LET g == GetArrayCur(Top.msg, Step.key)
      some == g.res = "got" /\ g.val # Null /\ g.val # << >> IN
  /\ Step.how \in {"objects", "hashes"}
  /\ \/ /\ g.res = "parse" \/ (Step.required /\ g.res = "missing")
        /\ Fail("parse", {})
     \/ /\ g.res = "got" /\ g.val # Null
        /\ Fail("no_memory", {})
     \/ /\ ~some /\ g.res # "parse" /\ ~(Step.required /\ g.res = "missing")
        /\ Proceed(Top.obj, {})
     \/ /\ some
        /\ stack' = [stack EXCEPT ![Depth].obj = WithField(<< >>),
                                  ![Depth].looping = TRUE,
                                  ![Depth].elems = g.val]
        /\ live' = live \cup {Cursor(Depth), Memory(Depth, {Here("self")})}
        /\ UNCHANGED ret

Pushed(v) == WithField(Append(Top.obj[Step.field], v))
NextElement(obj) ==
  stack' = [stack EXCEPT ![Depth].obj = obj, ![Depth].elems = Tail(@)]

(* An element that is no bytes leaves the loop without an error code: the   *)
(* object is freed and the function returns success.                        *)
ReadElement ==
  LET g == ArrayGetBin(Head(Top.elems)) IN
  /\ Top.elems # << >>
  /\ \/ /\ g.res = "parse"
        /\ Fail("ok", {Cursor(Depth)})
     \/ /\ g.res = "got" /\ Step.how = "objects"
        /\ Call(Step.type, g.val)
     \/ /\ g.res = "got" /\ Step.how = "hashes" /\ g.val.size # Step.size
        /\ Fail("parse", {Cursor(Depth)})
     \/ /\ g.res = "got" /\ Step.how = "hashes" /\ g.val.size = Step.size
        /\ \/ /\ NextElement(Pushed(g.val.raw))
              /\ UNCHANGED <<live, ret>>
           \/ Fail("no_memory", {Cursor(Depth)})

TakeElement_Slip ==
  \/ /\ ret.res # "ok"
     /\ Fail("parse", {Cursor(Depth)})
  \/ /\ ret.res = "ok"
     /\ Fail("no_memory", {Cursor(Depth)})
  \/ /\ ret.res = "ok"
     /\ NextElement(Pushed(ret.obj))
     /\ live' = Adopted(Here("each")) /\ ret' = Pending
TakeElement ==
  \/ /\ ret.res # "ok"
     /\ Fail("parse", {Cursor(Depth)})
  \/ /\ ret.res = "ok"
     /\ Fail("no_memory", {Cursor(Depth)} \cup FreedBy(Depth + 1))
  \/ /\ ret.res = "ok"
     /\ NextElement(Pushed(ret.obj))
     /\ live' = Adopted(Here("each")) /\ ret' = Pending

CloseList ==
  /\ Top.elems = << >>
  /\ stack' = [stack EXCEPT ![Depth].looping = FALSE, ![Depth].at = @ + 1]
  /\ live' = live \ {Cursor(Depth)}
  /\ UNCHANGED ret

-----------------------------------------------------------------------------
Reading == stack # << >> /\ ret = Pending /\ Top.at <= Len(Reads[Top.type])
Taking == stack # << >> /\ ret # Pending

Begin == stack = << >> /\ ret = Pending /\ Call(input.type, input.data)
Plain == Reading /\ ~Top.looping /\ (ReadInt \/ ReadBytes \/ ReadText)
Nested == Reading /\ ~Top.looping /\ ReadNested
List == Reading /\ ~Top.looping /\ OpenList
Element == Reading /\ Top.looping /\ (ReadElement \/ CloseList)
Take == Taking /\ (TakeNested \/ (Top.looping /\ TakeElement))
End == stack # << >> /\ ret = Pending /\ Top.at > Len(Reads[Top.type]) /\ Finish

UnpackNext ==
  /\ Begin \/ Plain \/ Nested \/ List \/ Element \/ Take \/ End
  /\ exhausted' = (exhausted \/ ret'.res = "no_memory")
  /\ UNCHANGED input

UnpackSpec == UnpackInit /\ [][UnpackNext]_unpackVars

-----------------------------------------------------------------------------
Over == stack = << >> /\ ret # Pending

(* A call that fails leaves nothing allocated, wherever it fails and        *)
(* however deep; one that succeeds leaves its object, whose free function   *)
(* then releases everything that is left.                                   *)
NothingLeaked ==
  Over => live = (IF ret.obj = Null THEN {} ELSE FreedBy(1))

-----------------------------------------------------------------------------
(* Objects and messages with all that is nested in them, as <<type, object>> *)
(* and <<type, message>>, level by level.                                    *)

FieldObjects(r, v) ==
  CASE v = Null -> {}
    [] v # Null /\ r.how = "object" -> {<<r.type, v>>}
    [] v # Null /\ r.how = "objects" -> {<<r.type, v[i]>> : i \in DOMAIN v}
    [] OTHER -> {}
ObjectsIn(p) ==
  IF p[2] = Null THEN {} ELSE UNION {FieldObjects(r, p[2][r.field]) : r \in ReadsOf(p[1])}
ObjectLevels(type, o) ==
  LET level[n \in 0 .. Deepest] ==
        IF n = 0 THEN {<<type, o>>} ELSE UNION {ObjectsIn(p) : p \in level[n - 1]}
  IN level
ObjectsWithin(type, o) == UNION {ObjectLevels(type, o)[n] : n \in 0 .. Deepest}

(* Where a read looks for nested objects. *)
Inner(r, msg) ==
  LET v == FindMapKey(msg, r.key) IN
  CASE r.how = "object" -> {v}
    [] r.how \in {"objects", "hashes"} /\ v.kind = "array" -> {v.elems[i] : i \in DOMAIN v.elems}
    [] OTHER -> {}
MessagesOf(r, msg) ==
  IF r.how \notin {"object", "objects"} THEN {}
  ELSE {<<r.type, e.msg>> : e \in {x \in Inner(r, msg) : IsMessage(x)}}
MessagesIn(p) == UNION {MessagesOf(r, p[2]) : r \in ReadsOf(p[1])}
MessageLevels(type, msg) ==
  LET level[n \in 0 .. Deepest] ==
        IF n = 0 THEN {<<type, msg>>} ELSE UNION {MessagesIn(p) : p \in level[n - 1]}
  IN level
MessagesWithin(type, msg) == UNION {MessageLevels(type, msg)[n] : n \in 0 .. Deepest}

(* The elements of an array follow one another. *)
ASSUME InputsAssumption ==
  \A call \in Inputs : IsMessage(call.data) =>
    \A p \in MessagesWithin(call.type, call.data.msg) : \A r \in ReadsOf(p[1]) :
      r.how \in {"objects", "hashes"} /\ FindMapKey(p[2], r.key).kind = "array"
        => FindMapKey(p[2], r.key).elems \in Seq(Inner(r, p[2]))

HasRequired(p) ==
  /\ p[2] # Null
  /\ \A r \in ReadsOf(p[1]) :
       r.required /\ r.how \in {"str", "strlist", "object"} => p[2][r.field] # Null
WholeObject(type, o) == \A p \in ObjectsWithin(type, o) : HasRequired(p)

HasBadElement(type, msg) ==
  \E p \in MessagesWithin(type, msg) : \E r \in ReadsOf(p[1]) :
    r.how \in {"objects", "hashes"} /\ \E e \in Inner(r, p[2]) : e.kind # "bin"

(* Success means an object with everything it requires, its nested objects  *)
(* too, unless a list in the bytes has an element that is no bytes.         *)
SuccessIsWhole ==
  Over /\ ret.res = "ok" =>
    WholeObject(input.type, ret.obj) \/ HasBadElement(input.type, input.data.msg)
=============================================================================
