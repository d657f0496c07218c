------------------------------ MODULE MsgTypes ------------------------------
(***************************************************************************)
(* The 19 record types of libmcpkg/mp, one file each.  For a type X:       *)
(* XOwned is what X_free releases, XWrites what X_pack writes for an       *)
(* object, XReads what X_unpack reads, in the order of the code.  An       *)
(* object is a function from field names; a type is named by its tag.      *)
(***************************************************************************)
EXTENDS MsgFormat, TLC

TextAt(f, k, req) == [how |-> "str", field |-> f, key |-> k, required |-> req]
TextsAt(f, k, req) == [how |-> "strlist", field |-> f, key |-> k, required |-> req]
BytesAt(f, k, n, req) ==
  [how |-> "bytes", field |-> f, key |-> k, size |-> n, required |-> req]
NumberAt(how, f, k, req) ==
  [how |-> how, field |-> f, key |-> k, required |-> req]
ObjectAt(f, k, type, req) ==
  [how |-> "object", field |-> f, key |-> k, type |-> type, required |-> req]
ObjectsAt(f, k, type, req) ==
  [how |-> "objects", field |-> f, key |-> k, type |-> type, required |-> req]
HashesAt(f, k, n, req) ==
  [how |-> "hashes", field |-> f, key |-> k, size |-> n, required |-> req]

Self(fields) == fields \X {"self"}
Each(f) == {<<f, "self">>, <<f, "each">>}

(* The bytes of an object, by the pack function of its type; a nested       *)
(* object that is missing becomes nil, a missing list an empty one.         *)
RECURSIVE PackType(_, _)
KvObject(k, type, o) ==
  IF o = Null THEN KvNil(k) ELSE Pair(k, PackType(type, o))
KvObjects(k, type, list) ==
  KvArray(k, IF list = Null THEN << >>
             ELSE [i \in DOMAIN list |-> PackType(type, list[i])])

-----------------------------------------------------------------------------
(* Packages. *)

DigestOwned == Self({"hex"})
DigestWrites(o) == Written(4, "pkg.digest", <<KvU32(2, o.algo), KvStr(3, o.hex)>>)
DigestReads == <<NumberAt("u32", "algo", 2, TRUE), TextAt("hex", 3, TRUE)>>

FileOwned == Self({"url", "file_name"}) \cup Each("digests")
FileWrites(o) == Written(6, "pkg.file",
  <<KvStr(2, o.url), KvStr(3, o.file_name), KvU64(4, o.size),
    KvObjects(5, "pkg.digest", o.digests)>>)
FileReads ==
  <<TextAt("url", 2, TRUE), TextAt("file_name", 3, TRUE),
    NumberAt("u64", "size", 4, FALSE), ObjectsAt("digests", 5, "pkg.digest", TRUE)>>

DependsOwned == Self({"id", "version_range"})
DependsWrites(o) == Written(6, "pkg.depends",
  <<KvStr(2, o.id), KvStr(3, o.version_range), KvU32(4, o.kind),
    KvI32(5, o.side)>>)
DependsReads ==
  <<TextAt("id", 2, TRUE), TextAt("version_range", 3, TRUE),
    NumberAt("u32", "kind", 4, TRUE), NumberAt("i32", "side", 5, FALSE)>>

OriginOwned == Self({"provider", "project_id", "version_id", "source_url"})
OriginWrites(o) == Written(6, "pkg.origin",
  <<KvStr(2, o.provider), KvStr(3, o.project_id), KvStr(4, o.version_id),
    KvStr(5, o.source_url)>>)
OriginReads ==
  <<TextAt("provider", 2, TRUE), TextAt("project_id", 3, TRUE),
    TextAt("version_id", 4, FALSE), TextAt("source_url", 5, FALSE)>>

MetaOwned ==
  Self({"id", "slug", "version", "title", "description", "license_id",
        "home_page", "source_repo", "loaders", "sections", "configs", "file",
        "origin"}) \cup Each("depends")
MetaTextWrites(o) ==
  <<KvStr(2, o.id), KvStr(3, o.slug), KvStr(4, o.version), KvStr(5, o.title),
    KvStr(6, o.description), KvStr(7, o.license_id), KvStr(8, o.home_page),
    KvStr(9, o.source_repo)>>
MetaPartWrites(o) ==
  <<KvStrList(10, o.loaders), KvStrList(11, o.sections),
    KvStrList(12, o.configs), KvObjects(13, "pkg.depends", o.depends),
    KvObject(14, "pkg.file", o.file), KvI32(15, o.client),
    KvI32(16, o.server), KvObject(17, "pkg.origin", o.origin),
    KvU32(18, o.flags), KvU32(19, o.schema)>>
MetaWrites(o) == Written(20, "pkg.meta", MetaTextWrites(o) \o MetaPartWrites(o))
MetaNameReads ==
  <<TextAt("id", 2, TRUE), TextAt("slug", 3, FALSE), TextAt("version", 4, TRUE),
    TextAt("title", 5, FALSE), TextAt("description", 6, FALSE)>>
MetaLinkReads ==
  <<TextAt("license_id", 7, FALSE), TextAt("home_page", 8, FALSE),
    TextAt("source_repo", 9, FALSE)>>
MetaListReads ==
  <<TextsAt("loaders", 10, TRUE), TextsAt("sections", 11, FALSE),
    TextsAt("configs", 12, FALSE), ObjectsAt("depends", 13, "pkg.depends", FALSE)>>
MetaPartReads ==
  <<ObjectAt("file", 14, "pkg.file", TRUE), NumberAt("i32", "client", 15, FALSE),
    NumberAt("i32", "server", 16, FALSE),
    ObjectAt("origin", 17, "pkg.origin", FALSE),
    NumberAt("u32", "flags", 18, FALSE), NumberAt("u32", "schema", 19, FALSE)>>
MetaReads == MetaNameReads \o MetaLinkReads \o MetaListReads \o MetaPartReads

-----------------------------------------------------------------------------
(* The ledger: its blocks, tree heads and proofs. *)

BlockOwned == Self({"sth"})
BlockWrites(o) == Written(7, "ledger.block",
  <<KvU64(2, o.height), KvBin(3, o.prev, 32), KvObject(4, "ledger.sth", o.sth),
    KvBin(5, o.mint_pub, 32), KvBin(6, o.sig, 64)>>)
BlockReads ==
  <<NumberAt("u64", "height", 2, TRUE), BytesAt("prev", 3, 32, TRUE),
    ObjectAt("sth", 4, "ledger.sth", TRUE), BytesAt("mint_pub", 5, 32, TRUE),
    BytesAt("sig", 6, 64, TRUE)>>

SthOwned == {}
SthWrites(o) == Written(7, "ledger.sth",
  <<KvU64(2, o.size), KvBin(3, o.root, 32), KvU64(4, o.ts_ms),
    KvU64(5, o.first), KvU64(6, o.last)>>)
SthReads ==
  <<NumberAt("u64", "size", 2, TRUE), BytesAt("root", 3, 32, TRUE),
    NumberAt("u64", "ts_ms", 4, TRUE), NumberAt("u64", "first", 5, TRUE),
    NumberAt("u64", "last", 6, TRUE)>>

AuditNodeOwned == {}
AuditNodeWrites(o) == Written(4, "ledger.audit_node",
  <<KvBin(2, o.sibling, 32), KvU32(3, o.is_right)>>)
AuditNodeReads ==
  <<BytesAt("sibling", 2, 32, TRUE), NumberAt("u32", "is_right", 3, TRUE)>>

AuditPathOwned == Each("nodes")
AuditPathWrites(o) == Written(3, "ledger.audit_path",
  <<KvObjects(2, "ledger.audit_node", o.nodes)>>)
AuditPathReads == <<ObjectsAt("nodes", 2, "ledger.audit_node", FALSE)>>

ConsistencyOwned == Self({"nodes"})
NodesOf(o) == IF o.nodes = Null THEN << >> ELSE o.nodes
ConsistencyWrites(hashes) == Written(3, "ledger.consistency",
  <<KvArray(2, [i \in DOMAIN hashes |-> Bin(hashes[i], 32)])>>)
ConsistencyReads == <<HashesAt("nodes", 2, 32, FALSE)>>

Hash32Owned == {}
Hash32Writes(o) == Written(3, "ledger.hash32", <<KvBin(2, o.bytes, 32)>>)
Hash32Reads == <<BytesAt("bytes", 2, 32, TRUE)>>

TxOwned == {}
TxWrites(o) == Written(7, "ledger.tx",
  <<KvBin(2, o.from_pub, 32), KvBin(3, o.to_pub, 32), KvU64(4, o.amount),
    KvU64(5, o.nonce), KvBin(6, o.sig_from, 64)>>)
TxReads ==
  <<BytesAt("from_pub", 2, 32, TRUE), BytesAt("to_pub", 3, 32, TRUE),
    NumberAt("u64", "amount", 4, TRUE), NumberAt("u64", "nonce", 5, TRUE),
    BytesAt("sig_from", 6, 64, TRUE)>>

RewardOwned == Self({"policy_id"})
RewardWrites(o) == Written(7, "ledger.reward",
  <<KvBin(2, o.to_pub, 32), KvU64(3, o.amount), KvStr(4, o.policy_id),
    KvU64(5, o.att_ref), KvI64(6, o.ts_ms)>>)
RewardReads ==
  <<BytesAt("to_pub", 2, 32, TRUE), NumberAt("u64", "amount", 3, TRUE),
    TextAt("policy_id", 4, TRUE), NumberAt("u64", "att_ref", 5, TRUE),
    NumberAt("i64", "ts_ms", 6, TRUE)>>

-----------------------------------------------------------------------------
(* Who may publish and who vouches for it. *)

AttestationOwned == Self({"pkg_id", "version"})
AttestationWrites(o) == Written(8, "ledger.attestation",
  <<KvStr(2, o.pkg_id), KvStr(3, o.version), KvBin(4, o.manifest_sha256, 32),
    KvBin(5, o.signer_pub, 32), KvBin(6, o.signature, 64), KvI64(7, o.ts_ms)>>)
AttestationReads ==
  <<TextAt("pkg_id", 2, TRUE), TextAt("version", 3, TRUE),
    BytesAt("manifest_sha256", 4, 32, TRUE), BytesAt("signer_pub", 5, 32, TRUE),
    BytesAt("signature", 6, 64, TRUE), NumberAt("i64", "ts_ms", 7, TRUE)>>

DelegateOwned == Self({"project_id"})
DelegateWrites(o) == Written(8, "ledger.delegate",
  <<KvBin(2, o.dev_pub, 32), KvBin(3, o.builder_pub, 32),
    KvStr(4, o.project_id), KvI64(5, o.not_before_ms),
    KvI64(6, o.not_after_ms), KvBin(7, o.sig_by_dev, 64)>>)
DelegateReads ==
  <<BytesAt("dev_pub", 2, 32, TRUE), BytesAt("builder_pub", 3, 32, TRUE),
    TextAt("project_id", 4, TRUE), NumberAt("i64", "not_before_ms", 5, TRUE),
    NumberAt("i64", "not_after_ms", 6, TRUE), BytesAt("sig_by_dev", 7, 64, TRUE)>>

DevlinkOwned == Self({"provider", "project_id", "proof"})
DevlinkWrites(o) == Written(7, "ledger.devlink",
  <<KvStr(2, o.provider), KvStr(3, o.project_id), KvBin(4, o.dev_pub, 32),
    KvObject(5, "ledger.devproof", o.proof), KvI64(6, o.ts_ms)>>)
DevlinkReads ==
  <<TextAt("provider", 2, TRUE), TextAt("project_id", 3, TRUE),
    BytesAt("dev_pub", 4, 32, TRUE), ObjectAt("proof", 5, "ledger.devproof", FALSE),
    NumberAt("i64", "ts_ms", 6, TRUE)>>

DevproofOwned == Self({"proof_data1", "proof_data2"})
DevproofWrites(o) == Written(6, "ledger.devproof",
  <<KvU32(2, o.kind), KvStr(3, o.proof_data1), KvStr(4, o.proof_data2),
    KvBin(5, o.proof_sig, 64)>>)
DevproofReads ==
  <<NumberAt("u32", "kind", 2, TRUE), TextAt("proof_data1", 3, FALSE),
    TextAt("proof_data2", 4, FALSE), BytesAt("proof_sig", 5, 64, FALSE)>>

DevsigOwned == {}
DevsigWrites(o) == Written(5, "ledger.devsig",
  <<KvBin(2, o.dev_pub, 32), KvBin(3, o.manifest_sha256, 32),
    KvBin(4, o.sig_by_dev, 64)>>)
DevsigReads ==
  <<BytesAt("dev_pub", 2, 32, TRUE), BytesAt("manifest_sha256", 3, 32, TRUE),
    BytesAt("sig_by_dev", 4, 64, TRUE)>>

RevokeOwned == Self({"pkg_id", "version"})
RevokeWrites(o) == Written(8, "ledger.revoke",
  <<KvU32(2, o.kind), KvBin(3, o.target_hash, 32), KvStr(4, o.pkg_id),
    KvStr(5, o.version), KvU32(6, o.reason), KvI64(7, o.ts_ms)>>)
RevokeReads ==
  <<NumberAt("u32", "kind", 2, TRUE), BytesAt("target_hash", 3, 32, FALSE),
    TextAt("pkg_id", 4, FALSE), TextAt("version", 5, FALSE),
    NumberAt("u32", "reason", 6, TRUE), NumberAt("i64", "ts_ms", 7, TRUE)>>

-----------------------------------------------------------------------------
PackType(type, o) ==
  CASE type = "pkg.digest" -> DigestWrites(o)
    [] type = "pkg.file" -> FileWrites(o)
    [] type = "pkg.depends" -> DependsWrites(o)
    [] type = "pkg.origin" -> OriginWrites(o)
    [] type = "pkg.meta" -> MetaWrites(o)
    [] type = "ledger.block" -> BlockWrites(o)
    [] type = "ledger.sth" -> SthWrites(o)
    [] type = "ledger.audit_node" -> AuditNodeWrites(o)
    [] type = "ledger.audit_path" -> AuditPathWrites(o)
    [] type = "ledger.consistency" -> ConsistencyWrites(NodesOf(o))
    [] type = "ledger.hash32" -> Hash32Writes(o)
    [] type = "ledger.tx" -> TxWrites(o)
    [] type = "ledger.reward" -> RewardWrites(o)
    [] type = "ledger.attestation" -> AttestationWrites(o)
    [] type = "ledger.delegate" -> DelegateWrites(o)
    [] type = "ledger.devlink" -> DevlinkWrites(o)
    [] type = "ledger.devproof" -> DevproofWrites(o)
    [] type = "ledger.devsig" -> DevsigWrites(o)
    [] type = "ledger.revoke" -> RevokeWrites(o)

(* What may become of a pack that has its memory: bytes, with the object    *)
(* that they are of.  The list of a consistency proof holds the hashes      *)
(* themselves, but the code copies the 32 bytes of each into the space of a *)
(* pointer and writes what that then points at: the bytes of any hash, or   *)
(* the program is lost.                                                     *)
AnyHash == {"hash", "stray"}
Crash == [res |-> "crash"]
PackedAs(o, data) == [res |-> "ok", of |-> o, data |-> data]
Packs(type, o) ==
  IF type # "ledger.consistency" \/ NodesOf(o) = << >> THEN {PackedAs(o, PackType(type, o))}
  ELSE {Crash} \cup {PackedAs([nodes |-> read], ConsistencyWrites(read)) :
                        read \in [DOMAIN o.nodes -> AnyHash]}

(* Every type. *)
TypeReads ==
  "pkg.digest" :> DigestReads
  @@ "pkg.file" :> FileReads
  @@ "pkg.depends" :> DependsReads
  @@ "pkg.origin" :> OriginReads
  @@ "pkg.meta" :> MetaReads
  @@ "ledger.block" :> BlockReads
  @@ "ledger.sth" :> SthReads
  @@ "ledger.audit_node" :> AuditNodeReads
  @@ "ledger.audit_path" :> AuditPathReads
  @@ "ledger.consistency" :> ConsistencyReads
  @@ "ledger.hash32" :> Hash32Reads
  @@ "ledger.tx" :> TxReads
  @@ "ledger.reward" :> RewardReads
  @@ "ledger.attestation" :> AttestationReads
  @@ "ledger.delegate" :> DelegateReads
  @@ "ledger.devlink" :> DevlinkReads
  @@ "ledger.devproof" :> DevproofReads
  @@ "ledger.devsig" :> DevsigReads
  @@ "ledger.revoke" :> RevokeReads

TypeOwned ==
  "pkg.digest" :> DigestOwned
  @@ "pkg.file" :> FileOwned
  @@ "pkg.depends" :> DependsOwned
  @@ "pkg.origin" :> OriginOwned
  @@ "pkg.meta" :> MetaOwned
  @@ "ledger.block" :> BlockOwned
  @@ "ledger.sth" :> SthOwned
  @@ "ledger.audit_node" :> AuditNodeOwned
  @@ "ledger.audit_path" :> AuditPathOwned
  @@ "ledger.consistency" :> ConsistencyOwned
  @@ "ledger.hash32" :> Hash32Owned
  @@ "ledger.tx" :> TxOwned
  @@ "ledger.reward" :> RewardOwned
  @@ "ledger.attestation" :> AttestationOwned
  @@ "ledger.delegate" :> DelegateOwned
  @@ "ledger.devlink" :> DevlinkOwned
  @@ "ledger.devproof" :> DevproofOwned
  @@ "ledger.devsig" :> DevsigOwned
  @@ "ledger.revoke" :> RevokeOwned

(* How deep the objects of a type nest. *)
TypeRank[type \in DOMAIN TypeReads] ==
  LET nested == {r.type : r \in {TypeReads[type][i] : i \in
                   {j \in DOMAIN TypeReads[type] :
                      TypeReads[type][j].how \in {"object", "objects"}}}} IN
  IF nested = {} THEN 0 ELSE 1 + Max({TypeRank[t] : t \in nested})
=============================================================================
