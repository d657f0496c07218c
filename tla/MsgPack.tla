------------------------------- MODULE MsgPack -------------------------------
(***************************************************************************)
(* The pack and the unpack functions of the same types together: what      *)
(* unpack makes of bytes that pack wrote, and of bytes that it did not.    *)
(* input.from is the object that the bytes come from, or Null.             *)
(***************************************************************************)
EXTENDS MsgUnpack, MsgTypes

Types == DOMAIN TypeReads
FieldsOf(type) == {r.field : r \in ReadsOf(type)}
ReadOf(type, f) == CHOOSE r \in ReadsOf(type) : r.field = f

(* Numbers are read as non-negative and below 2^63, signed ones as well.   *)
InRange(type, o) ==
  \A p \in ObjectsWithin(type, o) : \A r \in ReadsOf(p[1]) :
    r.how \in {"i32", "u64", "i64"} => p[2][r.field] \in 0 .. Half64 - 1

(* A list that is missing and an empty one are the same bytes.             *)
RECURSIVE Unpacked(_, _)
Unpacked(type, o) ==
  [f \in FieldsOf(type) |->
     LET r == ReadOf(type, f)  v == o[f] IN
     CASE r.how = "object" /\ v # Null -> Unpacked(r.type, v)
       [] r.how \in {"objects", "hashes"} /\ v = << >> -> Null
       [] r.how = "objects" /\ v \notin {Null, << >>} ->
            [i \in DOMAIN v |-> Unpacked(r.type, v[i])]
       [] OTHER -> v]

(* What unpack makes of the bytes of an object is that object, whatever the *)
(* order of the pairs and whatever a later version adds to them, and it is  *)
(* complete.  Of a complete object with its numbers in range it does make   *)
(* one, unless memory runs out.  What it refuses beyond that, a number that *)
(* the type allows among it, this property does not ask for: see            *)
(* DeclaredReadsBack.  The bytes of a consistency proof are those of the    *)
(* hashes that its pack happened to write, if it came back.                 *)
ReadsBack ==
  Over /\ input.from # Null =>
    LET whole == WholeObject(input.type, input.from) IN
    /\ ret.res = "ok" => whole /\ ret.obj = Unpacked(input.type, input.from)
    /\ whole /\ InRange(input.type, input.from) => ret.res = "ok" \/ exhausted

-----------------------------------------------------------------------------
(* The signed numbers of 32 bits are the side of a dependency and the client *)
(* and server sides of a package; the schemas declare three values of them,  *)
(* of which both builders use UNKNOWN.                                       *)
Sides == {-1, 0, 1}
Declared(type, o) ==
  \A p \in ObjectsWithin(type, o) : \A r \in ReadsOf(p[1]) :
    /\ r.how = "i32" => p[2][r.field] \in Sides
    /\ r.how \in {"u64", "i64"} => p[2][r.field] \in 0 .. Half64 - 1

(* A complete object whose sides are declared values, and whose other       *)
(* numbers are in range, comes back: the comments of pkg_depends.yaml and   *)
(* pkg_meta.yaml say which values there are.  The code reads the sides as   *)
(* unsigned and refuses the -1 that it wrote.                               *)
DeclaredReadsBack ==
  Over /\ input.from # Null =>
    (WholeObject(input.type, input.from) /\ Declared(input.type, input.from)
       => ret.res = "ok" \/ exhausted)
=============================================================================
