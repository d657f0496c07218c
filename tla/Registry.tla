------------------------------ MODULE Registry ------------------------------
(***************************************************************************)
(* libmcpkg/mc: the registry of providers, loaders and version families,   *)
(* the current selection of each kind, and the program that uses them.     *)
(*                                                                         *)
(* heap[a] is the object at address a, or Null; when no address is free,   *)
(* and whenever it likes, allocation fails.  An object belongs to a list   *)
(* of the registry, to the current selection, or to the program (mine):    *)
(* the program gives away only objects of its own, and changes those of    *)
(* the registry through the pointers that find returns.  An operator named *)
(* Op_Slip is Op with a slip; the mutants of PROJECT.json use it.          *)
(***************************************************************************)
EXTENDS MsgFormat

CONSTANTS
  Addrs,
  Templates,        \* provider and loader -> the objects of its table
  Urls,             \* the strings a program sets as base URL
  Versions,         \* the strings a program adds to a family
  Stored,           \* kind -> bytes from elsewhere, or from an earlier run
  Programs,         \* the sets of kinds that a program works with
  MaxList,          \* the length of a list at which the program stops
  MaxLost           \* the lost parts after which it loses no more

VARIABLES
  open,             \* g_mc_singleton is set
  heap, list, current, mine,
  parts,            \* the URL strings and version lists that are allocated
  lost,             \* history: how many of them an unpack wrote over
  kinds,            \* the kinds this program works with
  short             \* the last step selected by identity, and lacked memory

vars == <<open, heap, list, current, mine, parts, lost, kinds, short>>

Kinds == {"provider", "loader", "family"}
UnknownProvider == 32767
UnknownCode == 0
TrickyTrials == 1
DefaultVersion == "1.21.8"

-----------------------------------------------------------------------------
(* Objects.                                                                *)

Site(kind, id, url, online, flags) ==
  [kind |-> kind, id |-> id, url |-> url, owns |-> FALSE, online |-> online,
   flags |-> flags]
Family(id, snapshot, versions) ==
  [kind |-> "family", id |-> id, snapshot |-> snapshot, versions |-> versions]

ProviderTable ==
  <<Site("provider", 1, "https://api.modrinth.com", 1, 31),
    Site("provider", 2, "https://api.curseforge.com", 1, 31),
    Site("provider", 3, "https://hangar.papermc.io", 1, 19),
    Site("provider", 4, Null, 1, 28)>>
LoaderTable ==
  <<Site("loader", 1, Null, 0, 3), Site("loader", 2, Null, 0, 3),
    Site("loader", 3, Null, 0, 3), Site("loader", 4, Null, 0, 3),
    Site("loader", 5, Null, 0, 6), Site("loader", 6, Null, 0, 2),
    Site("loader", 7, Null, 0, 6)>>

(* What the fields of an object hold. *)
Enums == 0 .. 2 * Half32 - 1
Texts == STRING \cup {Null}
Objects(k) ==
  IF k = "family"
  THEN [kind : {k}, id : Enums, snapshot : {0, 1}, versions : Seq(STRING) \cup {Null}]
  ELSE [kind : {k}, id : Enums, url : Texts, owns : BOOLEAN,
        online : IF k = "provider" THEN {0, 1} ELSE {0}, flags : Enums]

(* Bytes whose strings are strings, whose numbers are integers and whose    *)
(* arrays are sequences.                                                    *)
Decoded(v) ==
  /\ v.kind = "int" => v.n \in Int
  /\ v.kind = "str" => v.s \in STRING
  /\ v.kind = "array" =>
       /\ Len(v.elems) \in Nat /\ DOMAIN v.elems = 1 .. Len(v.elems)
       /\ \A i \in DOMAIN v.elems : v.elems[i].kind = "str" => v.elems[i].s \in STRING
WellFormed(data) ==
  IsMessage(data) =>
    /\ Len(data.msg) \in Nat /\ DOMAIN data.msg = 1 .. Len(data.msg)
    /\ \A i \in DOMAIN data.msg : Decoded(data.msg[i].value)

ASSUME RegistryAssumption ==
  /\ IsFiniteSet(Addrs) /\ Urls \subseteq STRING /\ Versions \subseteq STRING
  /\ Kinds \cup {"name", DefaultVersion} \subseteq STRING
  /\ Programs \subseteq SUBSET Kinds /\ UnknownProvider < Half32
  /\ Null \notin Addrs /\ Null \notin Int /\ Null \notin STRING
  /\ Null \notin Seq(STRING)
  /\ MaxLost \in Nat
  /\ \A k \in Kinds : Null \notin Objects(k) /\ \A data \in Stored[k] : WellFormed(data)
  /\ \A k \in {"provider", "loader"} :
       /\ Templates[k] \in Seq(Objects(k))
       /\ \A i \in DOMAIN Templates[k] : ~Templates[k][i].owns

Known(k, id) == \E i \in DOMAIN Templates[k] : Templates[k][i].id = id
Template(k, id) ==
  Templates[k][CHOOSE i \in DOMAIN Templates[k] : Templates[k][i].id = id]

(* make: what unpack starts from. *)
Make(k, id) ==
  CASE k = "family" -> Family(id, 0, Null)
    [] k # "family" /\ Known(k, id) -> Template(k, id)
    [] k # "family" /\ ~Known(k, id) ->
         Site(k, IF k = "provider" THEN UnknownProvider ELSE 0, Null, 0, 0)

Parts(o) ==
  IF (o.kind = "family" /\ o.versions # Null) \/ (o.kind # "family" /\ o.owns)
  THEN 1 ELSE 0

Fresh == {a \in Addrs : heap[a] = Null}

-----------------------------------------------------------------------------
(* Pack and unpack of one object.                                          *)

Pack_Slip(o) ==
  CASE o.kind = "provider" -> Written(6, "provider",
         <<KvI32(2, AsI32(o.id)), KvStr(3, "name"), KvStr(4, o.url),
           KvI32(5, o.online), KvU32(6, o.flags)>>)
    [] o.kind = "loader" -> Written(6, "loader",
         <<KvI32(2, AsI32(o.id)), KvStr(3, "name"), KvStr(4, o.url),
           KvU32(5, o.flags)>>)
    [] o.kind = "family" -> Written(5, "family",
         <<KvI32(2, AsI32(o.id)), KvI32(3, o.snapshot),
           KvStrList(4, o.versions)>>)
Pack(o) ==
  CASE o.kind = "provider" -> Written(7, "provider",
         <<KvI32(2, AsI32(o.id)), KvStr(3, "name"), KvStr(4, o.url),
           KvI32(5, o.online), KvU32(6, o.flags)>>)
    [] o.kind = "loader" -> Written(6, "loader",
         <<KvI32(2, AsI32(o.id)), KvStr(3, "name"), KvStr(4, o.url),
           KvU32(5, o.flags)>>)
    [] o.kind = "family" -> Written(5, "family",
         <<KvI32(2, AsI32(o.id)), KvI32(3, o.snapshot),
           KvStrList(4, o.versions)>>)

Else(g, default) == IF g.res = "got" THEN g.val ELSE default
AsBool(n) == IF n # 0 THEN 1 ELSE 0
Readable(k, data) ==
  /\ IsMessage(data) /\ ExpectTag(data.msg, k)
  /\ GetI64(data.msg, 2).res = "got"
EnumOf(msg) == GetI64(msg, 2).val % (2 * Half32)

(* The URL stays the template's unless the bytes have one of some length.   *)
UnpackSite(k, msg) ==
  LET made == Make(k, EnumOf(msg))
      url == Else(GetStr(msg, 4), Null)
      flags == GetU32(msg, IF k = "provider" THEN 6 ELSE 5) IN
  [made EXCEPT !.url = IF url \in {Null, ""} THEN made.url ELSE url,
               !.owns = url \notin {Null, ""},
               !.online = IF k = "provider"
                          THEN AsBool(Else(GetI64(msg, 5), 0)) ELSE made.online,
               !.flags = Else(flags, 0)]
UnpackFamily(msg) ==
  Family(EnumOf(msg), AsBool(Else(GetI64(msg, 3), 0)), GetStrList(msg, 4).val)

Unpackable(k, data) ==
  /\ Readable(k, data)
  /\ CASE k = "provider" -> /\ GetStr(data.msg, 4).res # "parse"
                            /\ GetI64(data.msg, 5).res # "parse"
                            /\ GetU32(data.msg, 6).res # "parse"
       [] k = "loader" -> /\ GetStr(data.msg, 4).res # "parse"
                          /\ GetU32(data.msg, 5).res # "parse"
       [] k = "family" -> GetStrList(data.msg, 4).res # "parse"
Unpack(k, data) ==
  IF k = "family" THEN UnpackFamily(data.msg) ELSE UnpackSite(k, data.msg)

(* What an unpack that fails leaves in the object it was given, if it has   *)
(* written there: a site is what make made, without memory for the URL; a   *)
(* family is blank until its code is read, and has no list until that is.   *)
HalfSites(k, data) ==
  IF Unpackable(k, data) /\ Unpack(k, data).owns THEN {Make(k, EnumOf(data.msg))} ELSE {}
HalfFamilies(data) ==
  LET msg == data.msg IN
  CASE ~(IsMessage(data) /\ ExpectTag(msg, "family")) -> {}
    [] IsMessage(data) /\ ExpectTag(msg, "family") /\ ~Readable("family", data) ->
         {Family(UnknownCode, 0, Null)}
    [] Readable("family", data) ->
         {Family(EnumOf(msg), AsBool(Else(GetI64(msg, 3), 0)), Null)}
LeftBy(k, data) ==
  (IF k = "family" THEN HalfFamilies(data) ELSE HalfSites(k, data))
  \cup (IF Unpackable(k, data) THEN {Unpack(k, data)} ELSE {})

-----------------------------------------------------------------------------
(* mcpkg_mc_new, _free, the global registry.                               *)

Nowhere == [k \in Kinds |-> Null]

Init ==
  /\ open = FALSE
  /\ heap = [a \in Addrs |-> Null]
  /\ list = [k \in Kinds |-> << >>] /\ current = Nowhere
  /\ mine = {} /\ parts = 0 /\ lost = 0 /\ kinds \in Programs /\ short = FALSE

GlobalInit ==
  /\ ~open
  /\ open' = TRUE \/ UNCHANGED open
  /\ UNCHANGED <<heap, list, current, mine, parts>>

InList(k) == {list[k][i] : i \in DOMAIN list[k]}
OfRegistry == (UNION {InList(k) : k \in Kinds}) \cup ({current[k] : k \in Kinds} \ {Null})

PartsOf(cells) == Cardinality({a \in cells : Parts(heap[a]) = 1})
Freed(cells) == [a \in Addrs |-> IF a \in cells THEN Null ELSE heap[a]]

GlobalShutdown ==
  /\ open /\ open' = FALSE
  /\ heap' = Freed(OfRegistry)
  /\ parts' = parts - PartsOf(OfRegistry)
  /\ list' = [k \in Kinds |-> << >>] /\ current' = Nowhere
  /\ UNCHANGED mine

-----------------------------------------------------------------------------
(* Filling the lists.                                                      *)

(* What the seeding of a list makes, in order; a family that cannot take    *)
(* its version stays empty.                                                 *)
Seeds(k) ==
  IF k # "family" THEN {Templates[k]}
  ELSE {<<Family(TrickyTrials, 0, vs)>> : vs \in {<<DefaultVersion>>, << >>}}

Seed(k) ==
  /\ open /\ Len(list[k]) < MaxList
  /\ \E seeds \in Seeds(k) : \E n \in 0 .. Len(seeds) :
     \E cells \in [1 .. n -> Fresh] :
       /\ \A i, j \in 1 .. n : cells[i] = cells[j] => i = j
       /\ heap' = [a \in Addrs |->
                     IF \E i \in 1 .. n : cells[i] = a
                     THEN seeds[CHOOSE i \in 1 .. n : cells[i] = a] ELSE heap[a]]
       /\ list' = [list EXCEPT ![k] = @ \o cells]
       /\ parts' = parts + (IF k = "family" THEN n ELSE 0)
  /\ UNCHANGED <<open, current, mine>>

(* The registry takes the object over if it has room for it. *)
Add(k, a) ==
  /\ open /\ a \in mine /\ heap[a].kind = k /\ Len(list[k]) < MaxList
  /\ \/ /\ list' = [list EXCEPT ![k] = Append(@, a)]
        /\ mine' = mine \ {a}
     \/ UNCHANGED <<list, mine>>
  /\ UNCHANGED <<open, heap, current, parts>>

(* The first entry of that identity, or Null. *)
Find(k, id) ==
  LET hits == {i \in DOMAIN list[k] : heap[list[k][i]].id = id}
  IN IF hits = {} THEN Null ELSE list[k][Min(hits)]

-----------------------------------------------------------------------------
(* The current selection.                                                  *)

(* mc_swap_current: o comes to a, in the place of what was selected. *)
Select(k, a, o) ==
  LET old == current[k] IN
  /\ heap' = [x \in Addrs |-> IF x = a THEN o ELSE IF x = old THEN Null ELSE heap[x]]
  /\ parts' = parts + Parts(o) - (IF a \in mine THEN Parts(o) ELSE 0)
                  - (IF old = Null THEN 0 ELSE Parts(heap[old]))
  /\ current' = [current EXCEPT ![k] = a]

SetCurrent(k, a) ==
  /\ open /\ a \in mine /\ heap[a].kind = k
  /\ Select(k, a, heap[a])
  /\ mine' = mine \ {a}
  /\ UNCHANGED <<open, list>>

(* The copies of an entry that set_current_*_id may make: what it fails to  *)
(* copy it leaves as new made it.                                           *)
Subsequences(s) ==
  {kept \in UNION {[1 .. n -> DOMAIN s] : n \in 0 .. Len(s)} :
     \A i, j \in DOMAIN kept : i < j => kept[i] < kept[j]}
SiteCopies_Slip(o) ==
  LET new == Template(o.kind, o.id) IN
  IF o.url = Null THEN {new}
  ELSE {new, [new EXCEPT !.url = o.url, !.owns = TRUE]}
SiteCopies(o) ==
  LET new == [Template(o.kind, o.id) EXCEPT !.flags = o.flags] IN
  IF o.url = Null THEN {new}
  ELSE {new, [new EXCEPT !.url = o.url, !.owns = TRUE]}
FamilyCopies(o) ==
  IF o.versions = Null THEN {Family(o.id, o.snapshot, << >>)}
  ELSE {Family(o.id, o.snapshot, [i \in DOMAIN kept |-> o.versions[kept[i]]]) :
          kept \in Subsequences(o.versions)}
Copies(o) == IF o.kind = "family" THEN FamilyCopies(o) ELSE SiteCopies(o)

Complete(copy, o) ==
  IF o.kind = "family" THEN o.versions = Null \/ copy.versions = o.versions
  ELSE o.url = Null \/ copy.owns

SelectId_Slip(k, id) ==
  LET a == Find(k, id) IN
  /\ open /\ a # Null
  /\ Select(k, a, heap[a])
  /\ UNCHANGED <<open, list, mine>>
  /\ short' = FALSE
SelectId(k, id) ==
  LET found == Find(k, id) IN
  /\ open /\ found # Null /\ (k # "family" => Known(k, id))
  /\ \/ \E a \in Fresh, copy \in Copies(heap[found]) :
          /\ Select(k, a, copy)
          /\ short' = ~Complete(copy, heap[found])
     \/ short' = TRUE /\ UNCHANGED <<heap, parts, current>>
  /\ UNCHANGED <<open, list, mine>>

Load(k, data) ==
  /\ open
  /\ \/ /\ Unpackable(k, data)
        /\ \E a \in Fresh : Select(k, a, Unpack(k, data))
     \/ UNCHANGED <<heap, current, parts>>
  /\ UNCHANGED <<open, list, mine>>

-----------------------------------------------------------------------------
(* The program's own objects.                                              *)

Put(a, o) ==
  /\ heap' = [heap EXCEPT ![a] = o]
  /\ parts' = parts + Parts(o) - (IF heap[a] = Null THEN 0 ELSE Parts(heap[a]))

Create(k) ==
  /\ \E a \in Fresh :
     \E o \in IF k = "family" THEN {Family(TrickyTrials, 0, << >>)}
              ELSE {Templates[k][i] : i \in DOMAIN Templates[k]} :
       Put(a, o) /\ mine' = mine \cup {a}
  /\ UNCHANGED <<open, list, current>>

(* unpack(bytes, &object): into a new object of the program, or into one    *)
(* that is there, the program's or one of the registry.  What that one owns *)
(* is written over before the code looks for it, and nobody frees it.       *)
Import(k, data) ==
  /\ \/ /\ Unpackable(k, data)
        /\ \E a \in Fresh : Put(a, Unpack(k, data)) /\ mine' = mine \cup {a}
        /\ UNCHANGED lost
     \/ /\ \E left \in LeftBy(k, data), a \in Addrs :
             /\ heap[a] # Null /\ heap[a].kind = k /\ lost + Parts(heap[a]) <= MaxLost
             /\ heap' = [heap EXCEPT ![a] = left]
             /\ parts' = parts + Parts(left) /\ lost' = lost + Parts(heap[a])
        /\ UNCHANGED mine
  /\ UNCHANGED <<open, list, current>>

Drop(a) ==
  /\ a \in mine /\ mine' = mine \ {a}
  /\ heap' = Freed({a}) /\ parts' = parts - Parts(heap[a])
  /\ UNCHANGED <<open, list, current>>

-----------------------------------------------------------------------------
(* Changes to an object, the program's or one of the registry.             *)

SetUrl(a, url) ==
  /\ heap[a].kind # "family"
  /\ Put(a, [heap[a] EXCEPT !.url = url, !.owns = FALSE])

(* The string that was there is freed first, and is gone if this fails.     *)
SetUrlDup(a, url) ==
  /\ heap[a].kind # "family"
  /\ \/ Put(a, [heap[a] EXCEPT !.url = url, !.owns = TRUE])
     \/ Put(a, [heap[a] EXCEPT !.url = IF heap[a].owns THEN Null ELSE @,
                               !.owns = FALSE])

SetFields(a) ==
  \/ /\ heap[a].kind # "family"
     /\ Put(a, [heap[a] EXCEPT !.online = IF heap[a].kind = "provider" THEN 0 ELSE @,
                               !.flags = 0])
  \/ /\ heap[a].kind = "family"
     /\ Put(a, [heap[a] EXCEPT !.snapshot = 1])

AddVersion(a, v) ==
  /\ heap[a].kind = "family" /\ heap[a].versions # Null
  /\ Len(heap[a].versions) < MaxList
  /\ Put(a, [heap[a] EXCEPT !.versions = Append(@, v)])

Change(a) ==
  /\ heap[a] # Null
  /\ \/ \E url \in Urls \cup {Null} : SetUrl(a, url)
     \/ \E url \in Urls : SetUrlDup(a, url)
     \/ SetFields(a)
     \/ \E v \in Versions : AddVersion(a, v)
  /\ UNCHANGED <<open, list, current, mine>>

Ids(k) == {heap[list[k][i]].id : i \in DOMAIN list[k]}

(* What a program may unpack: also what it packed a moment ago. *)
Bytes(k) ==
  Stored[k] \cup (IF current[k] = Null THEN {} ELSE {Pack(heap[current[k]])})

Next ==
  /\ \/ /\ \/ GlobalInit
           \/ GlobalShutdown
           \/ \E k \in kinds :
                \/ Seed(k)
                \/ Create(k)
                \/ \E a \in Addrs : Add(k, a) \/ SetCurrent(k, a)
                \/ \E data \in Bytes(k) : Load(k, data)
           \/ \E a \in Addrs : Drop(a) \/ Change(a)
        /\ short' = FALSE /\ UNCHANGED lost
     \/ /\ \E k \in kinds : \E data \in Bytes(k) : Import(k, data)
        /\ short' = FALSE
     \/ /\ \E k \in kinds : \E id \in Ids(k) : SelectId(k, id)
        /\ UNCHANGED lost
  /\ UNCHANGED kinds

Spec == Init /\ [][Next]_vars

-----------------------------------------------------------------------------
(* Every object has one owner: a list, a current selection or the program;  *)
(* an address that one of them has is an object that nobody freed.  So      *)
(* nothing is freed twice, and what nobody has is freed.                    *)
ObjectsOwned ==
  \A a \in Addrs :
    LET holders == {<<"mine", x, 0>> : x \in mine \cap {a}}
             \cup {<<"current", k, 0>> : k \in {j \in Kinds : current[j] = a}}
             \cup UNION {{<<"list", k, i>> : i \in {j \in DOMAIN list[k] : list[k][j] = a}} :
                           k \in Kinds}
    IN Cardinality(holders) = (IF heap[a] = Null THEN 0 ELSE 1)

(* Every URL string and version list that is allocated belongs to an object *)
(* that frees it, except those of an object that was unpacked into again:   *)
(* unpack writes over them, and nobody frees them.                          *)
PartsOwned == parts = PartsOf({a \in Addrs : heap[a] # Null}) + lost

OneOwner == ObjectsOwned /\ PartsOwned

(* A selection by identity is a copy of the registry's entry as the program *)
(* customized it, unless memory ran out or the URL was taken away; but one  *)
(* thing is the table's, whatever the program made of the entry: whether    *)
(* the provider is online.                                                  *)
SelectedMirrors ==
  [][\A k \in Kinds : \A id \in Ids(k) :
       current'[k] # current[k] /\ ~short' /\ SelectId(k, id) =>
         LET entry == heap[Find(k, id)]  now == heap'[current'[k]] IN
         /\ heap'[Find(k, id)] = entry /\ now.id = id
         /\ k # "family" => /\ now.flags = entry.flags
                            /\ now.url = entry.url \/ entry.url = Null
                            /\ now.online = Template(k, id).online
         /\ k = "family" => /\ now.snapshot = entry.snapshot
                            /\ now.versions = entry.versions \/ entry.versions = Null]_vars

(* Whatever became of a selection before it was saved, its bytes read back  *)
(* as what it was; only a URL that is missing or empty comes back as the    *)
(* one of the table.                                                        *)
SelectionReadsBack ==
  \A k \in Kinds :
    current[k] # Null =>
      LET o == heap[current[k]]  back == Unpack(k, Pack(o)) IN
      /\ Unpackable(k, Pack(o))
      /\ IF k = "family" THEN back = o
         ELSE /\ back.id = o.id /\ back.flags = o.flags /\ back.online = o.online
              /\ back.url = o.url \/ o.url \in {Null, ""}

=============================================================================
