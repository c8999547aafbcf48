---------------------------- MODULE PackageFormat ----------------------------
(***************************************************************************)
(* A package as a tree of named members, in a directory or in an archive,  *)
(* and what the reference implementation makes of one: validate_package    *)
(* (validator.py), verify and verify_package (verifier.py), pack           *)
(* (packer.py, canonical_tar.py) and the signing of an archive (_cmd_sign  *)
(* of cli.py), all in src/src/aphelion.                                    *)
(*                                                                         *)
(* A tree maps the names it has to what they hold: a claim file to its     *)
(* bytes, the manifest to [format, package, claims], provenance.jsonl to   *)
(* its events (those of module Provenance, with the claim they are about), *)
(* signatures.jsonl to its lines.  Claim and signer ids are numbers, in    *)
(* their lexicographic order.  A stray is a file that is none of these:    *)
(* LICENSE, a notice under another notice_path, schemas/*.json,            *)
(* signatures/*.sig (spec/packaging.md).  Nothing reads what is in it.     *)
(*                                                                         *)
(* A verdict is the code of the refusal that comes first, and one name may *)
(* stand for several: SCHEMA for all refusals of the parser and of         *)
(* validate_package, HASH_MISMATCH also for a claim file that is missing,  *)
(* DANGLING_REFERENCE for those of claims and of instances.                *)
(***************************************************************************)
EXTENDS Signatures, TLC, SequencesExt

CONSTANT Nothing

History == INSTANCE Provenance WITH MaxEvents <- 0, MaxTime <- 0, file <- <<>>

Name(kind, of) == [kind |-> kind, of |-> of]
Notice      == Name("notice", 0)
Manifest    == Name("manifest", 0)
Events      == Name("provenance", 0)
Signed      == Name("signatures", 0)
ClaimFile(c)  == Name("claim", c)
SignerFile(s) == Name("signer", s)
Stray(place, k) == [kind |-> "stray", of |-> k, place |-> place]

FileIds(tree, kind) == {n.of : n \in {m \in DOMAIN tree : m.kind = kind}}

With(tree, n, content) ==
  [m \in DOMAIN tree \cup {n} |-> IF m = n THEN content ELSE tree[m]]

Atop(tree, under) ==
  [n \in DOMAIN tree \cup DOMAIN under |-> IF n \in DOMAIN tree THEN tree[n] ELSE under[n]]

Only(tree, names) == [n \in DOMAIN tree \cap names |-> tree[n]]

\* The files under signers/, by the stem of their names.
SignerFiles(tree) == [s \in FileIds(tree, "signer") |-> tree[SignerFile(s)]]

\* The events of a claim, in the order of the file.
EventsOf(events, c) ==
  LET own[n \in 0 .. Len(events)] ==
        IF n = 0 THEN <<>>
        ELSE IF events[n].claim = c THEN Append(own[n - 1], events[n]) ELSE own[n - 1]
  IN  own[Len(events)]

-----------------------------------------------------------------------------
(* validate_package                                                        *)

\* _check_version, in strict mode
VersionOK(format) == format = "2.0"

\* _validate_claim_entry
EntryOK(c) == c.state \in {"draft", "active", "superseded", "withdrawn"}

\* loads and validate_manifest
ManifestOK(manifest) ==
  /\ manifest # Junk
  /\ VersionOK(manifest.format)
  /\ \A c \in manifest.claims : EntryOK(c)
  /\ \A c, d \in manifest.claims : c.id = d.id => c = d

\* validate_package
ValidPackage(manifest, events) ==
  /\ ManifestOK(manifest)
  /\ \A k \in DOMAIN events :
       /\ History!WellFormed(events[k])
       /\ History!LifecycleOK(EventsOf(events, events[k].claim))

-----------------------------------------------------------------------------
(* verify, of a directory.  The order is that of the calls in verify.      *)

\* _check_unique_ids
IdsUnique(manifest, events) ==
  /\ \A c, d \in manifest.claims : c # d => c.inst # d.inst
  /\ \A j, k \in DOMAIN events :
       j # k => /\ events[j].id # events[k].id
                /\ events[j].inst # 0 => events[j].inst # events[k].inst

\* _check_claim_paths: no two share a file, each has its own.
PathsOK(manifest) == \A c \in manifest.claims : c.path = c.id

\* _check_fileset
FilesetOK(manifest, tree) == FileIds(tree, "claim") = {c.path : c \in manifest.claims}

\* _check_provenance_refs
RefsOK(manifest, events) ==
  \A k \in DOMAIN events : \E c \in manifest.claims : events[k].claim = c.id

\* Seeded bug: a claim file that is there is taken to be the one declared.
HashesTrusted(manifest, tree) ==
  \A c \in manifest.claims : ClaimFile(c.path) \in DOMAIN tree

\* _check_hashes
HashesOK(manifest, tree) ==
  \A c \in manifest.claims :
    ClaimFile(c.path) \in DOMAIN tree /\ c.hash = Sha256(tree[ClaimFile(c.path)])

\* _check_instance_refs: the targets, and the instance of every entry.
InstancesOK(manifest, events) ==
  /\ \A k \in DOMAIN events : History!TargetsOK(EventsOf(events, events[k].claim))
  /\ \A c \in manifest.claims :
       \E k \in DOMAIN events : events[k].claim = c.id /\ events[k].inst = c.inst

\* _check_manifest_states.  Only the last event is terminal, if any is.
StatesOK(manifest, events) ==
  \A c \in manifest.claims :
    LET chain == History!Canonical(EventsOf(events, c.id))
        last  == chain[Len(chain)].type
    IN  /\ c.state = "superseded" <=> last = "supersede"
        /\ c.state = "withdrawn" <=> last = "withdraw"

\* verify, of the manifest and the events it read.  "SCHEMA" stands for every
\* refusal of the parser and of validate_package.
Checked(tree, manifest, events) ==
  IF ~ValidPackage(manifest, events) THEN "SCHEMA"
  ELSE IF ~IdsUnique(manifest, events) THEN "DUPLICATE_ID"
  ELSE IF ~PathsOK(manifest) THEN "FILESET_DIVERGENCE"
  ELSE IF ~HashesOK(manifest, tree) THEN "HASH_MISMATCH"
  ELSE IF ~FilesetOK(manifest, tree) THEN "FILESET_DIVERGENCE"
  ELSE IF \E k \in DOMAIN events : ~History!ChainOK(EventsOf(events, events[k].claim))
    THEN "CHAIN_BROKEN"
  ELSE IF ~RefsOK(manifest, events) \/ ~InstancesOK(manifest, events)
    THEN "DANGLING_REFERENCE"
  ELSE IF ~StatesOK(manifest, events) THEN "MANIFEST_STATE_MISMATCH"
  ELSE "OK"

\* Seeded bug: a package without provenance.jsonl has an empty history.
VerifyAnyHistory(tree) ==
  IF Manifest \notin DOMAIN tree THEN "MISSING_FILE"
  ELSE Checked(tree, tree[Manifest], IF Events \in DOMAIN tree THEN tree[Events] ELSE <<>>)

\* verify: a file it cannot read ends it.
Verify(tree) ==
  IF Manifest \notin DOMAIN tree \/ Events \notin DOMAIN tree THEN "MISSING_FILE"
  ELSE Checked(tree, tree[Manifest], tree[Events])

-----------------------------------------------------------------------------
(* An archive: a tree, and whether its bytes end inside a member, in its   *)
(* header or in its data.  The members of a tree are written in the order  *)
(* of their paths; bytes that end between two members read as an archive   *)
(* of those before, for there is no end mark a reader insists on.          *)

\* Every kind has its place among the paths.  Strays are between: LICENSE is
\* before NOTICE, schemas/ and signatures/ are on either side of
\* signatures.jsonl.
Rank == [notice |-> 2, claim |-> 4, manifest |-> 6, provenance |-> 8,
         signatures |-> 10, signer |-> 12]
Gaps == {1, 3, 5, 7, 9, 11, 13}

Place(n) == IF n.kind = "stray" THEN n.place ELSE Rank[n.kind]
PathBefore(m, n) == Place(m) < Place(n) \/ (Place(m) = Place(n) /\ m.of < n.of)

\* The first k members of a tree, as canonical_tar.pack orders them.
Beginning(tree, k) ==
  Only(tree, {n \in DOMAIN tree : Cardinality({m \in DOMAIN tree : PathBefore(m, n)}) < k})

\* What unpacks: the reader refuses an archive without a member, one that
\* ends inside a member's data and bytes that are not a whole header.
Readable(archive) == archive.cut = "none" /\ archive.tree # <<>>

\* What read_members gives of one: the members before a header that is not
\* whole, which ends an archive.
ReadsMembers(archive) == archive.cut # "data" /\ archive.tree # <<>>

\* verify_package, and _cmd_verify of a package file.
VerifyPackage(archive, requireSigned, requireNotary) ==
  IF ~Readable(archive) THEN "PX_E_9001"
  ELSE
  LET tree == archive.tree
      found == Verify(tree)
  IN  IF found # "OK" THEN found
      ELSE IF Signed \notin DOMAIN tree
        THEN IF requireSigned \/ requireNotary THEN "E_SIGNER_REQUIRED" ELSE "OK"
      ELSE
      LET signers == SignerFiles(tree)
          checked == CheckSignatures(tree[Signed], signers, tree[Manifest])
      IN  IF checked # "OK" THEN checked
          ELSE IF \E k \in DOMAIN tree[Signed] :
                    ~Acceptable(ResolveNotary(signers[tree[Signed][k].signer_id]), requireNotary)
            THEN "E_SIGNER_NOTARY_REQUIRED"
          ELSE "OK"

\* _cmd_verify of a directory: nothing signed can be checked there.
VerifyDirectory(tree, requireSigned, requireNotary) ==
  IF requireSigned \/ requireNotary THEN "E_SIGNER_REQUIRED" ELSE Verify(tree)

-----------------------------------------------------------------------------
(* pack                                                                    *)

\* packer.pack: what it refuses.  Two entries of one path collide in
\* canonical_tar.pack.
PackCheck(tree) ==
  IF Manifest \notin DOMAIN tree \/ Events \notin DOMAIN tree THEN "MISSING_FILE"
  ELSE IF ~ValidPackage(tree[Manifest], tree[Events]) THEN "SCHEMA"
  ELSE IF \E c \in tree[Manifest].claims : ClaimFile(c.path) \notin DOMAIN tree
    THEN "MISSING_FILE"
  ELSE IF \E c, d \in tree[Manifest].claims : c # d /\ c.path = d.path
    THEN "DUPLICATE_MEMBER_PATH"
  ELSE "OK"

\* The manifest with its hashes computed anew.
Rehashed(tree) ==
  [tree[Manifest] EXCEPT
     !.claims = {[c EXCEPT !.hash = Sha256(tree[ClaimFile(c.path)])] : c \in @}]

\* Seeded bug: the NOTICE stays out.
PackedWithoutNotice(tree) ==
  With(Only(tree, {Events} \cup {ClaimFile(c.path) : c \in tree[Manifest].claims}),
       Manifest, Rehashed(tree))

\* The members packer.pack writes.  Strays stay out, and signatures.
Packed(tree) ==
  With(Only(tree, {Notice, Events} \cup {ClaimFile(c.path) : c \in tree[Manifest].claims}),
       Manifest, Rehashed(tree))

-----------------------------------------------------------------------------
(* sign                                                                    *)

\* _cmd_sign: what it refuses of the members it read.  It verifies nothing.
SignCheck(archive, algorithm, key) ==
  IF algorithm = "ed25519" /\ (~Cryptography \/ key \notin RawKey) THEN "E_SIGNER_MALFORMED"
  ELSE IF ~ReadsMembers(archive) THEN "ReadError"
  ELSE IF Manifest \notin DOMAIN archive.tree THEN "MISSING_FILE"
  ELSE IF archive.tree[Manifest] = Junk THEN "PARSE_ERROR"
  ELSE IF Signed \in DOMAIN archive.tree /\ archive.tree[Signed] # <<>>
    THEN ReadSignatures(archive.tree[Signed])
  ELSE "OK"

\* The members _cmd_sign packs anew: the envelope is merged with those there,
\* the signer's manifest replaces the one there.
WithSignature(tree, signer, algorithm, key, at) ==
  LET lines == IF Signed \in DOMAIN tree THEN tree[Signed] ELSE <<>>
      own   == SignedEnvelope(signer, algorithm, key, at, PackageHash(tree[Manifest]))
      file  == With(tree, SignerFile(signer), SignerManifest(signer, algorithm, key))
  IN  With(file, Signed, WriteSignatures(lines, own))

=============================================================================
