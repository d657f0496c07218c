------------------------------ MODULE MsgFormat ------------------------------
(***************************************************************************)
(* libmcpkg/mp/mcpkg_mp_util.c over the vendored MessagePack library: what *)
(* the writer puts into a message and what the getters of the reader make  *)
(* of it.                                                                  *)
(*                                                                         *)
(* A message is a map: the sequence of its pairs, in the order written.    *)
(* Integers are Half32 = 2^31 and Half64 = 2^63 wide, or as small as TLC   *)
(* needs.  Strings and hashes are opaque; the bytes of a packed object are *)
(* the message itself, and no packed object is as long as a hash.          *)
(***************************************************************************)
EXTENDS Integers, Sequences, FiniteSetsExt

CONSTANTS
  Half32, Half64,
  Null,             \* the NULL pointer; also a key that is no integer
  ZeroBytes         \* an array of bytes nobody has written

ASSUME WidthAssumption ==
  Half32 \in Nat \ {0} /\ Half64 \in Nat /\ Half64 >= 2 * Half32

(* (int)v and the reading of an unsigned 64-bit integer as a signed one. *)
Wrapped(n, half) == ((n + half) % (2 * half)) - half
AsI32(n) == Wrapped(n, Half32)
AsI64(n) == Wrapped(n, Half64)

(* The values of MessagePack that the program writes or reads. *)
Nil == [kind |-> "nil"]
Integer(n) == [kind |-> "int", n |-> n]
Str(s) == [kind |-> "str", s |-> s]
Bin(raw, size) == [kind |-> "bin", raw |-> raw, size |-> size]
Packed(msg) == [kind |-> "bin", msg |-> msg, size |-> -1]
Array(elems) == [kind |-> "array", elems |-> elems]
Garbage == Bin("garbage", 5)

Pair(key, value) == [key |-> key, value |-> value]

-----------------------------------------------------------------------------
(* The writer: a pair, or a value, per call. *)

KvNil(k) == Pair(k, Nil)
KvStr(k, s) == Pair(k, IF s = Null THEN Nil ELSE Str(s))
KvI32(k, n) == Pair(k, Integer(n))
KvU32(k, n) == Pair(k, Integer(n))
KvI64(k, n) == Pair(k, Integer(n))
KvU64(k, n) == KvI64(k, AsI64(n))
KvBin(k, raw, size) == Pair(k, Bin(raw, size))
KvStrList(k, list) ==
  Pair(k, IF list = Null THEN Nil
          ELSE Array([i \in DOMAIN list |-> Str(list[i])]))
KvArray(k, elems) == Pair(k, Array(elems))

TagKey == 0
VersionKey == 1
Header(tag) == <<KvStr(TagKey, tag), KvI32(VersionKey, 1)>>

(* map_begin(n), the header, the pairs, finish: if n promises more pairs    *)
(* than follow, the bytes are no message; if it promises fewer, the decoder *)
(* stops there.                                                             *)
Written(n, tag, pairs) ==
  LET all == Header(tag) \o pairs IN
  IF n > Len(all) THEN Garbage ELSE Packed(SubSeq(all, 1, n))

-----------------------------------------------------------------------------
(* The reader.  A getter reports an error, a missing key or what it found. *)

Bad == [res |-> "parse"]
Missing == [res |-> "missing"]
Got(v) == [res |-> "got", val |-> v]

(* reader_init: the buffer decodes to a map. *)
IsMessage(data) == data.kind = "bin" /\ data.size # 0 /\ "msg" \in DOMAIN data

Absent == [kind |-> "absent"]
FindMapKey_Slip(msg, key) ==
  LET hits == {i \in DOMAIN msg : msg[i].key # Null /\ AsI32(msg[i].key) = key}
  IN IF hits = {} THEN Absent ELSE msg[Max(hits)].value
FindMapKey(msg, key) ==
  LET hits == {i \in DOMAIN msg : msg[i].key # Null /\ AsI32(msg[i].key) = key}
  IN IF hits = {} THEN Absent ELSE msg[Min(hits)].value

ExpectTag(msg, tag) ==
  LET v == FindMapKey(msg, TagKey) IN v.kind = "str" /\ v.s = tag

GetI64(msg, key) ==
  LET v == FindMapKey(msg, key) IN
  CASE v.kind = "absent" -> Missing
    [] v.kind = "int" -> Got(AsI64(v.n))
    [] OTHER -> Bad

GetU64(msg, key) ==
  LET g == GetI64(msg, key) IN
  IF g.res = "got" /\ g.val < 0 THEN Bad ELSE g

GetU32(msg, key) ==
  LET g == GetU64(msg, key) IN
  IF g.res = "got" /\ g.val >= 2 * Half32 THEN Bad ELSE g

GetStr(msg, key) ==
  LET v == FindMapKey(msg, key) IN
  CASE v.kind = "absent" -> Missing
    [] v.kind = "str" -> Got(v.s)
    [] v.kind = "nil" -> Got(Null)
    [] OTHER -> Bad

GetBin(msg, key) ==
  LET v == FindMapKey(msg, key) IN
  CASE v.kind = "absent" -> Missing
    [] v.kind = "bin" -> Got(v)
    [] v.kind = "nil" -> Got(Null)
    [] OTHER -> Bad

(* Elements are read until one is no string: a list, or an error. *)
GetStrList(msg, key) ==
  LET v == FindMapKey(msg, key) IN
  CASE v.kind \in {"absent", "nil"} -> Got(Null)
    [] v.kind = "array" /\ \A i \in DOMAIN v.elems : v.elems[i].kind = "str"
         -> Got([i \in DOMAIN v.elems |-> v.elems[i].s])
    [] OTHER -> Bad

GetArrayCur(msg, key) ==
  LET v == FindMapKey(msg, key) IN
  CASE v.kind = "absent" -> Missing
    [] v.kind = "array" -> Got(v.elems)
    [] v.kind = "nil" -> Got(Null)
    [] OTHER -> Bad

ArrayGetBin(elem) == IF elem.kind = "bin" THEN Got(elem) ELSE Bad
=============================================================================
