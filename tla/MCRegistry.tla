----------------------------- MODULE MCRegistry -----------------------------
(***************************************************************************)
(* The registry for TLC: of each table the entries that differ in what the *)
(* code does with them (a provider, which has a URL, two loaders, which    *)
(* have none), and bytes that lack what unpack can do without or hold      *)
(* values that pack never writes.                                          *)
(***************************************************************************)
EXTENDS Registry, TLC

MCTemplates ==
  [k \in {"provider", "loader"} |->
     IF k = "provider" THEN <<ProviderTable[1]>> ELSE <<LoaderTable[5], LoaderTable[6]>>]

MCStored ==
  [k \in Kinds |->
     CASE k = "provider" ->
            {Written(4, k, <<KvI64(2, 4 * Half32 + 9), KvStr(4, "mirror")>>)}
       [] k = "loader" ->
            {Written(4, k, <<KvI32(2, 5 - 2 * Half32), KvNil(4)>>)}
       [] k = "family" ->
            {Written(4, k, <<KvI32(2, 1), KvStr(3, "x")>>), Written(3, k, <<KvStr(2, "x")>>)}]

Symmetry == Permutations(Addrs)
=============================================================================
