----------------------------- MODULE PackageLife -----------------------------
(***************************************************************************)
(* The life of one package: a working directory, an archive made of it,    *)
(* the commands that move between the two (init, pack, sign and unpack of  *)
(* src/src/aphelion/cli.py), an author who edits the directory between the *)
(* commands, signers who sign the one archive in place, and other tools    *)
(* that pack the directory as it is.                                       *)
(*                                                                         *)
(* A command computes the whole archive and then writes it over the old    *)
(* one (Path.write_bytes): until it is done, or if it is killed, the file  *)
(* is a beginning of the new archive.  Signers read and write one file     *)
(* without a lock, so one may read what another is still writing.          *)
(***************************************************************************)
EXTENDS ExternalReader

CONSTANTS
  Content, Key, Signer,
  Drafts,    \* the directories an author begins with
  Entries,   \* the manifest entries an author may write
  EventLines,\* the events an author may append
  Strays,    \* the files the author may add that no command knows of
  Uses,      \* the algorithm of each signer: ed25519, or hmac-sha256 through the library
  MaxEdits,  \* bound: edits, inits, key changes, kills and seconds that pass
  MaxEnvelopes   \* bound: envelopes of one archive

\* What trees are made of.
IsStray(n) == n = Stray(n.place, n.of) /\ n.place \in Gaps /\ n.of \in Nat
IsName(n) ==
  \/ n \in {Notice, Manifest, Events, Signed}
  \/ n = ClaimFile(n.of) \/ n = SignerFile(n.of)
  \/ n.kind = "stray" /\ IsStray(n)

IsEntry(c) ==
  c = [id |-> c.id, inst |-> c.inst, hash |-> c.hash, path |-> c.path, state |-> c.state]

IsManifest(m) ==
  \/ m = Junk
  \/ /\ m = [format |-> m.format, package |-> m.package, claims |-> m.claims]
     /\ \A c \in m.claims : IsEntry(c)

IsLines(x) == x \in Seq(ToSet(x))

\* provenance.jsonl: events, with the two fields they are ordered by.
IsEvent(e) == e.id \in Nat /\ e.time \in Nat
IsEvents(x) == IsLines(x) /\ \A k \in DOMAIN x : IsEvent(x[k])

\* signatures.jsonl: envelopes, and lines that do not parse.
IsSignatures(x) ==
  /\ IsLines(x)
  /\ \A k \in DOMAIN x : x[k] = Junk \/ (x[k].signer_id \in Nat /\ x[k].signed_at \in Nat)

IsTree(t) ==
  /\ t = [n \in DOMAIN t |-> t[n]] /\ IsFiniteSet(DOMAIN t)
  /\ \A n \in DOMAIN t : IsName(n)
  /\ Manifest \in DOMAIN t => IsManifest(t[Manifest])
  /\ Events \in DOMAIN t => IsEvents(t[Events])
  /\ Signed \in DOMAIN t => IsSignatures(t[Signed])

Packer == 0

LifeAssumption ==
  /\ \A t \in Drafts : IsTree(t)
  /\ \A n \in Strays : IsStray(n)
  /\ \A e \in Entries : IsEntry(e)
  /\ \A e \in EventLines : IsEvent(e)
  /\ Signer \subseteq Nat \ {Packer} /\ Uses \in [Signer -> Registry]
  /\ Junk \notin RawKey /\ \E f \in [Signer -> RawKey] : IsInjective(f)

VARIABLES
  dir,      \* the working directory
  starting, \* init has written the manifest and not yet the provenance
  archive,  \* the archive: [tree, cut, of], or Nothing; of: the tree it is a beginning of
  job,      \* what each signer, and Packer for pack, has computed and not yet written
  writer,   \* whose job is being written, or Nothing
  key,      \* the key each signer signs with
  now, edits

life == <<dir, starting, archive, job, writer, key, now, edits>>

Edit == edits < MaxEdits /\ edits' = edits + 1

LifeInit ==
  /\ dir \in Drafts
  /\ starting = FALSE
  /\ archive = Nothing
  /\ job = [p \in Signer \cup {Packer} |-> Nothing]
  /\ writer = Nothing
  /\ key = CHOOSE f \in [Signer -> RawKey] : IsInjective(f)
  /\ now = 1 /\ edits = 0

-----------------------------------------------------------------------------
(* init and the author.                                                    *)

Skeleton(id) == [format |-> "2.0", package |-> id, claims |-> {}]

\* init_skeleton refuses a directory with a manifest or provenance unless
\* both force and confirmed are given.  It writes the manifest first; killed
\* while it writes, it leaves one that does not parse.
InitManifest(force, confirmed) ==
  /\ Manifest \in DOMAIN dir \/ Events \in DOMAIN dir => force /\ confirmed
  /\ ~starting /\ Edit
  /\ \/ dir' = With(dir, Manifest, Skeleton(edits')) /\ starting' = TRUE
     \/ dir' = With(dir, Manifest, Junk) /\ UNCHANGED starting
  /\ UNCHANGED <<archive, job, writer, key, now>>

\* It then empties the provenance, or is killed first.
InitProvenance ==
  /\ starting /\ starting' = FALSE
  /\ dir' = With(dir, Events, <<>>) \/ UNCHANGED dir
  /\ UNCHANGED <<archive, job, writer, key, now, edits>>

EntryPut(manifest, e) == [manifest EXCEPT !.claims = {c \in @ : c.id # e.id} \cup {e}]
Later(manifest) == [manifest EXCEPT !.format = "2.minor"]
Rekeyed(file, k) == [file EXCEPT !.public_key = k]

\* One edit of the author's: a claim file written or removed, an entry of the
\* manifest, an event, the NOTICE or a stray, a line order or a signer's file.
Edited ==
  {With(dir, ClaimFile(c.id), x) : c \in Entries, x \in Content}
    \cup {Only(dir, DOMAIN dir \ {n}) : n \in DOMAIN dir}
    \cup {With(dir, n, Nothing) : n \in {Notice} \cup Strays}
    \cup (IF Manifest \in DOMAIN dir /\ dir[Manifest] # Junk
            THEN {With(dir, Manifest, EntryPut(dir[Manifest], e)) : e \in Entries}
                   \cup {With(dir, Manifest, Later(dir[Manifest]))}
            ELSE {})
    \cup (IF Events \in DOMAIN dir
            THEN {With(dir, Events, Append(dir[Events], e)) : e \in EventLines} ELSE {})
    \cup (IF Signed \in DOMAIN dir
            THEN {With(dir, Signed, Reverse(dir[Signed])), With(dir, Signed, Append(dir[Signed], Junk))}
            ELSE {})
    \cup {With(dir, SignerFile(s), Rekeyed(dir[SignerFile(s)], k)) :
            s \in FileIds(dir, "signer"), k \in Key}

Author ==
  /\ ~starting /\ Edit
  /\ dir' \in Edited
  /\ UNCHANGED <<starting, archive, job, writer, key, now>>

\* The directory is left for an empty one.
NewDirectory ==
  /\ ~starting /\ dir # <<>>
  /\ dir' = <<>>
  /\ UNCHANGED <<starting, archive, job, writer, key, now, edits>>

ChangeKey(s) ==
  /\ Edit
  /\ \E k \in RawKey \ {key[t] : t \in Signer} : key' = [key EXCEPT ![s] = k]
  /\ UNCHANGED <<dir, starting, archive, job, writer, now>>

Tick ==
  /\ Edit /\ now' = now + 1
  /\ UNCHANGED <<dir, starting, archive, job, writer, key>>

-----------------------------------------------------------------------------
(* The commands.                                                           *)

\* Bound: two commands at a time.
Idle == \A p \in DOMAIN job : job[p] = Nothing
Room == Cardinality({p \in DOMAIN job : job[p] # Nothing}) < 2

\* pack reads the directory and computes the archive, or refuses.
Pack ==
  /\ job[Packer] = Nothing /\ Room /\ ~starting /\ PackCheck(dir) = "OK"
  /\ job' = [job EXCEPT ![Packer] = [base |-> Nothing, tree |-> Packed(dir), of |-> Packed(dir)]]
  /\ UNCHANGED <<dir, starting, archive, writer, key, now, edits>>

\* Another tool packs whatever the directory has, strays and signatures too.
OtherTool ==
  /\ job[Packer] = Nothing /\ Room /\ ~starting
  /\ job' = [job EXCEPT ![Packer] = [base |-> Nothing, tree |-> dir, of |-> dir]]
  /\ UNCHANGED <<dir, starting, archive, writer, key, now, edits>>

Lines(tree) == IF Signed \in DOMAIN tree THEN tree[Signed] ELSE <<>>

\* A signer reads the archive, as it is at that time, and computes the one
\* with its signature, or is refused.  Envelopes that a beginning lacks are lost
\* once it is signed; of has its lines.  Bound: no signing before the directory
\* is left.
Sign(s) ==
  /\ job[s] = Nothing /\ Room /\ archive # Nothing /\ dir = <<>>
  /\ SignCheck(archive, Uses[s], key[s]) = "OK" /\ Len(Lines(archive.tree)) < MaxEnvelopes
  /\ LET signed == WithSignature(archive.tree, s, Uses[s], key[s], now)
     IN  job' = [job EXCEPT ![s] =
                   [base |-> archive, tree |-> signed, of |-> Atop(signed, archive.of)]]
  /\ UNCHANGED <<dir, starting, archive, writer, key, now, edits>>

\* Bound: of the beginnings of an archive, those that end between members,
\* behind the manifest or before all; one that ends in the last header, which
\* signing reads and verify does not; and one in the first member's data.
Beginnings(tree) ==
  LET last  == Cardinality(DOMAIN tree) - 1
      whole == {Beginning(tree, k) : k \in 0 .. last}
  IN  {[cut |-> "none", tree |-> b] : b \in {w \in whole : w = <<>> \/ Manifest \in DOMAIN w}}
        \cup {[cut |-> "header", tree |-> Beginning(tree, last)], [cut |-> "data", tree |-> <<>>]}

\* The file is truncated and some of the new archive is in it: whole members,
\* and perhaps a part of the next.  Bound: two writes do not overlap.
Write(p) ==
  /\ job[p] # Nothing /\ writer = Nothing
  /\ writer' = p
  /\ \E begun \in Beginnings(job[p].tree) :
       archive' = [tree |-> begun.tree, cut |-> begun.cut, of |-> job[p].of]
  /\ UNCHANGED <<dir, starting, job, key, now, edits>>

\* All of it is, and the command is done.
Written ==
  /\ writer # Nothing
  /\ archive' = [tree |-> job[writer].tree, cut |-> "none", of |-> archive.of]
  /\ job' = [job EXCEPT ![writer] = Nothing]
  /\ writer' = Nothing
  /\ UNCHANGED <<dir, starting, key, now, edits>>

\* A command at work is killed; the file stays as it is.
Kill(p) ==
  /\ job[p] # Nothing /\ Edit
  /\ job' = [job EXCEPT ![p] = Nothing]
  /\ writer' = IF writer = p THEN Nothing ELSE writer
  /\ UNCHANGED <<dir, starting, archive, key, now>>

\* unpack, into a directory of its own that is worked on from then on.
Unpack ==
  /\ ~starting /\ Idle /\ archive # Nothing /\ Readable(archive)
  /\ dir' = archive.tree
  /\ UNCHANGED <<starting, archive, job, writer, key, now, edits>>

Resting ==
  /\ edits = MaxEdits /\ ~starting
  /\ UNCHANGED life

LifeNext ==
  \/ \E force, confirmed \in BOOLEAN : InitManifest(force, confirmed)
  \/ InitProvenance
  \/ Author
  \/ NewDirectory
  \/ \E s \in Signer : ChangeKey(s)
  \/ Tick
  \/ Pack
  \/ OtherTool
  \/ \E s \in Signer : Sign(s)
  \/ \E p \in DOMAIN job : Write(p)
  \/ Written
  \/ \E p \in DOMAIN job : Kill(p)
  \/ Unpack
  \/ Resting

LifeSpec == LifeInit /\ [][LifeNext]_life

-----------------------------------------------------------------------------
(* What is checked.                                                        *)

Accepts(file, requireSigned) ==
  file # Nothing /\ VerifyPackage(file, requireSigned, FALSE) = "OK"

\* What a signature must cover, from the claim files themselves.
Held(tree) ==
  Sha256(<<tree[Manifest].format, tree[Manifest].package,
           {<<c.id, c.inst, Sha256(tree[ClaimFile(c.id)])>> : c \in tree[Manifest].claims}>>)

\* Every envelope of an accepted package was made by the key its signer's
\* file declares, over the claim files the package has now; _cmd_sign signs
\* what the manifest declares and looks at no file.
VouchedContent ==
  Accepts(archive, FALSE) /\ Signed \in DOMAIN archive.tree =>
    \A k \in DOMAIN archive.tree[Signed] :
      LET e == archive.tree[Signed][k]
      IN  e.signature = Signature(e.algorithm, archive.tree[SignerFile(e.signer_id)].public_key,
                                  Held(archive.tree))

\* What there should be in an archive and is not.
Lost(file) == DOMAIN file.of \ DOMAIN file.tree

\* A beginning of an archive, or one that was signed on top of a beginning,
\* is accepted only if everything up to the provenance is there.  Of what sorts
\* behind, schemas/*.json and signatures may be missing; where signatures are
\* required, only files nothing names: strays, and signers' files without an
\* envelope.  (_cmd_sign, pack and init write in place.)  A directory init
\* left half way is accepted only if its history was empty.
HalfMadeRefused ==
  /\ Accepts(archive, FALSE) => \A n \in Lost(archive) : PathBefore(Events, n)
  /\ Accepts(archive, TRUE) =>
       \A n \in Lost(archive) :
         \/ n.kind = "stray"
         \/ /\ n.kind = "signer"
            /\ \A k \in DOMAIN archive.tree[Signed] : archive.tree[Signed][k].signer_id # n.of
  /\ starting /\ VerifyDirectory(dir, FALSE, FALSE) = "OK" =>
       Events \in DOMAIN dir /\ dir[Events] = <<>>

\* A signature added to an accepted package, by a new signer or one who
\* signs with the same key again, leaves it accepted with every envelope it
\* had (_cmd_sign merges and replaces without verifying).
SigningKeeps ==
  \A s \in Signer :
    job[s] # Nothing /\ Accepts(job[s].base, FALSE) =>
      LET old == job[s].base.tree
          new == job[s].tree
      IN  (SignerFile(s) \in DOMAIN old => old[SignerFile(s)] = new[SignerFile(s)]) =>
            /\ Accepts([tree |-> new, cut |-> "none"], TRUE)
            /\ Len(Lines(new)) = Len(Lines(old)) + 1
            /\ ToSet(Lines(old)) \subseteq ToSet(Lines(new))

\* Manifest, provenance, claim files and NOTICE.
PackKnows(n) == n.kind \in {"notice", "claim", "manifest", "provenance"}

\* An accepted package, unpacked and packed again, is not refused and is
\* accepted again, with every member packer.pack knows of as it was, though it
\* computes the hashes anew.  All else is lost: the signatures, LICENSE, a
\* notice under another name and schemas/*.json, which verify lets be.
RoundTrip ==
  Accepts(archive, FALSE) =>
    LET again == Packed(archive.tree)
    IN  /\ PackCheck(archive.tree) = "OK" /\ Verify(again) = "OK"
        /\ again = Only(archive.tree, {n \in DOMAIN archive.tree : PackKnows(n)})

\* Two implementations, one format: a directory verify accepts is one the
\* external reader has a canonical archive of, and where the packer and the
\* reader both have one it is the same.
ReadersAgree ==
  /\ VerifyDirectory(dir, FALSE, FALSE) = "OK" => CanonicalCheck(dir) = "OK"
  /\ PackCheck(dir) = "OK" /\ CanonicalCheck(dir) = "OK" => Packed(dir) = CanonicalArchive(dir)

\* Attestations a notary issued, and those with one field replaced.
Attestations(notary) ==
  LET issued == {Attestation(notary, s, Sha256(k), 1) : s \in Signer, k \in RawKey}
  IN  issued \cup {[a EXCEPT !.signer_id = s] : a \in issued, s \in Signer}
             \cup {[a EXCEPT !.fingerprint = Sha256(k)] : a \in issued, k \in RawKey}
             \cup {[a EXCEPT !.notary_id = s] : a \in issued, s \in Signer}
             \cup {[a EXCEPT !.algorithm = g] : a \in issued, g \in Registry}

\* A package that is accepted, of a signer a notary is found to vouch for,
\* is signed with the very key the notary attested for that signer
\* (resolve_notary_attestation and _check_signatures each compare a part).
NotaryBound ==
  Accepts(archive, TRUE) =>
    \A k \in DOMAIN archive.tree[Signed], g \in Registry, n \in RawKey :
      LET e == archive.tree[Signed][k]
          notary == SignerManifest(Packer, g, n)
      IN  \A a \in Attestations(notary) :
            ResolveAttestation(archive.tree[SignerFile(e.signer_id)], a, notary)
                = "verified-by-notary" =>
              a.signature = Signature(g, n, AttestationHash(e.signer_id, Packer,
                                                            Sha256(e.signature.by)))

=============================================================================
