------------------------------ MODULE MCMsgPack ------------------------------
(***************************************************************************)
(* Packing and unpacking for TLC: for every type a full object, the full   *)
(* object with one field at an extreme, the object of zeros; their bytes   *)
(* with something the reader should not mind, and the bytes of the full    *)
(* object with one value anywhere in them dropped or replaced.             *)
(***************************************************************************)
EXTENDS MsgPack

RECURSIVE Whole(_)
WholeField(r) ==
  CASE r.how = "str" -> r.field
    [] r.how = "bytes" -> "hash"
    [] r.how = "strlist" -> <<"a", "b">>
    [] r.how = "object" -> Whole(r.type)
    [] r.how = "objects" -> <<Whole(r.type), Whole(r.type)>>
    [] r.how = "hashes" -> Null
    [] OTHER -> 1
Whole(type) == [f \in FieldsOf(type) |-> WholeField(ReadOf(type, f))]

Extremes(r) ==
  CASE r.how = "str" -> {Null}
    [] r.how = "bytes" -> {ZeroBytes}
    [] r.how = "strlist" -> {Null, << >>}
    [] r.how = "object" -> {Null, Blank(r.type)}
    [] r.how = "objects" -> {Null, << >>, <<Blank(r.type)>>}
    [] r.how = "hashes" -> {<< >>, <<"hash">>}
    [] r.how = "u32" -> {0, Half32, 2 * Half32 - 1}
    [] r.how = "i32" -> {-Half32, -1, 0, Half32 - 1}
    [] r.how = "u64" -> {0, Half64 - 1, Half64, 2 * Half64 - 1}
    [] r.how = "i64" -> {-Half64, -1, Half64 - 1}
SomeObjects(type) ==
  {Whole(type), Blank(type)} \cup
  UNION {{[Whole(type) EXCEPT ![r.field] = v] : v \in Extremes(r)} :
           r \in ReadsOf(type)}

-----------------------------------------------------------------------------
(* Another writer's bytes for the same object. *)
Unknown == Pair(99, Str("later"))
Reversed(msg) == [i \in DOMAIN msg |-> msg[Len(msg) + 1 - i]]
SameObject(msg) ==
  {msg, Append(msg, Unknown), <<Unknown>> \o msg, <<Pair(Null, Nil)>> \o msg,
   Reversed(msg), Append(msg, Pair(2, Nil)), [msg EXCEPT ![2].value = Nil]}

(* One value dropped or replaced, however deep. *)
Others == {Nil, Str("x"), Integer(-1), Integer(2 * Half32), Integer(Half64),
           Bin("b", 0), Bin("b", 5), Array(<< >>), Array(<<Nil>>),
           Array(<<Bin("b", 32), Nil>>)}
Without(s, i) == SubSeq(s, 1, i - 1) \o SubSeq(s, i + 1, Len(s))

RECURSIVE Damaged(_)
DamagedValue(v) ==
  Others \cup
  (IF v.kind = "bin" /\ "msg" \in DOMAIN v THEN {Packed(m) : m \in Damaged(v.msg)}
   ELSE IF v.kind = "array"
   THEN UNION {{Array([v.elems EXCEPT ![i] = d]) :
                  d \in Others \cup
                        (IF "msg" \in DOMAIN v.elems[i]
                         THEN {Packed(m) : m \in Damaged(v.elems[i].msg)}
                         ELSE {})} : i \in DOMAIN v.elems}
   ELSE {})
Damaged(msg) ==
  {Without(msg, i) : i \in DOMAIN msg} \cup
  UNION {{[msg EXCEPT ![i].value = v] : v \in DamagedValue(msg[i].value)} :
           i \in DOMAIN msg}

PacksOf(t) == UNION {Packs(t, o) : o \in SomeObjects(t)} \ {Crash}

MCInputs ==
  UNION {UNION {{[type |-> t, data |-> Packed(m), from |-> p.of] :
                   m \in SameObject(p.data.msg)} :
                   p \in PacksOf(t)} : t \in Types}
  \cup
  UNION {{[type |-> t, data |-> Packed(m), from |-> Null] :
            m \in Damaged(PackType(t, Whole(t)).msg)} : t \in Types}
  \cup
  {[type |-> t, data |-> d, from |-> Null] :
     t \in Types, d \in {Garbage, Bin("b", 0)}}
=============================================================================
