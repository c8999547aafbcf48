----------------------------- MODULE Signatures -----------------------------
(***************************************************************************)
(* Signatures and attestations as values: what an envelope and a signer    *)
(* manifest hold, how signatures.jsonl is read and written, and the rules  *)
(* of section 5 of spec/v0.5-signer-trust.md and section 3 of              *)
(* spec/v0.6-notary-attestation.md in the order the code applies them      *)
(* (signer.py, sig_pack.py, trust.py and _check_signatures of validator.py *)
(* in src/src/aphelion).  A check yields the code of the first rule that   *)
(* fails, or "OK".                                                         *)
(*                                                                         *)
(* Digests and signatures are free constructors: equal only when made of   *)
(* equal parts.  A key pair has one name; for hmac-sha256 the secret is    *)
(* the public key.  Junk stands for bytes that do not decode or parse, or  *)
(* have the wrong JSON type.                                               *)
(***************************************************************************)
EXTENDS Naturals, Sequences, FiniteSets

CONSTANTS
  RawKey,       \* the keys that are 32 raw bytes, as ed25519 needs them
  Cryptography, \* whether the [signer] extra is installed
  Junk

Registry == {"hmac-sha256", "ed25519"}

Sha256(bytes) == [sha256 |-> bytes]

\* _b64decode_strict, _require_hex64: what a field must not be.
Decodes(field) == field # Junk

\* compute_package_canonical_hash, of what the manifest declares.
PackageHash(manifest) ==
  Sha256(<<manifest.format, manifest.package,
           {<<c.id, c.inst, c.hash>> : c \in manifest.claims}>>)

\* What a private key makes of a digest.
Signature(algorithm, key, digest) ==
  [algorithm |-> algorithm, by |-> key, over |-> digest]

\* HMACSigner and Ed25519Signer: sign and manifest.
SignerManifest(signer, algorithm, key) ==
  [signer_id |-> signer, algorithm |-> algorithm, public_key |-> key,
   fingerprint |-> Sha256(key)]

SignedEnvelope(signer, algorithm, key, at, digest) ==
  [signer_id |-> signer, algorithm |-> algorithm, signed_at |-> at, hash |-> digest,
   signature |-> Signature(algorithm, key, digest)]

-----------------------------------------------------------------------------
(* signatures.jsonl: a sequence of envelopes; a line may be Junk.          *)

\* _sort_key
SortsAfter(a, b) ==
  a.signer_id > b.signer_id \/ (a.signer_id = b.signer_id /\ a.signed_at > b.signed_at)

\* parse_envelope_line
EnvelopeParses(line) == line # Junk

\* read_signatures_jsonl.  An empty file does not end with a newline.
ReadSignatures(lines) ==
  IF lines = <<>> \/ \E k \in DOMAIN lines : ~EnvelopeParses(lines[k])
    THEN "E_SIGNATURE_MALFORMED"
  ELSE IF \E k \in 1 .. Len(lines) - 1 : SortsAfter(lines[k], lines[k + 1])
    THEN "E_SIGNATURE_ORDER"
  ELSE "OK"

\* Seeded bug: the new envelope is written behind the others.
AppendedUnsorted(lines, envelope) == Append(lines, envelope)

\* write_signatures_jsonl of envelopes that were read, and so are sorted, and
\* a new one: a stable sort puts it behind those it does not precede.
WriteSignatures(lines, envelope) ==
  LET before == Cardinality({k \in DOMAIN lines : ~SortsAfter(lines[k], envelope)})
  IN  SubSeq(lines, 1, before) \o <<envelope>> \o SubSeq(lines, before + 1, Len(lines))

-----------------------------------------------------------------------------
(* Section 5: one envelope against the manifest of its signer.             *)

\* parse_signer_manifest of the file at signers/<signer>.json.
SignerParses(file, signer) ==
  /\ file # Junk /\ file.signer_id = signer
  /\ Decodes(file.public_key) /\ Decodes(file.fingerprint)

\* The rules that HMACVerifier.verify and Ed25519Verifier.verify share.
VerifierRules(envelope, manifest, digest, algorithm) ==
  IF envelope.algorithm # algorithm THEN "E_SIGNER_ALGORITHM_UNKNOWN"
  ELSE IF envelope.signer_id # manifest.signer_id THEN "E_SIGNER_MISSING"
  ELSE IF ~Decodes(envelope.hash) THEN "E_SIGNATURE_MALFORMED"
  ELSE IF ~Decodes(manifest.public_key) \/ ~Decodes(manifest.fingerprint)
    THEN "E_SIGNER_MALFORMED"
  ELSE IF Sha256(manifest.public_key) # manifest.fingerprint
    THEN "E_SIGNER_FINGERPRINT_MISMATCH"
  ELSE IF envelope.hash # digest THEN "E_SIGNATURE_HASH_MISMATCH"
  ELSE IF ~Decodes(envelope.signature) THEN "E_SIGNATURE_MALFORMED"
  ELSE "OK"

Genuine(signature, algorithm, key, digest) == signature = Signature(algorithm, key, digest)

HMACVerify(envelope, manifest, digest) ==
  LET rules == VerifierRules(envelope, manifest, digest, "hmac-sha256")
  IN  IF rules # "OK" THEN rules
      ELSE IF Genuine(envelope.signature, "hmac-sha256", manifest.public_key, digest)
        THEN "OK" ELSE "E_SIGNATURE_INVALID"

Ed25519Verify(envelope, manifest, digest) ==
  LET rules == VerifierRules(envelope, manifest, digest, "ed25519")
  IN  IF rules # "OK" THEN rules
      ELSE IF ~Cryptography THEN "E_SIGNER_ALGORITHM_UNAVAILABLE"
      ELSE IF manifest.public_key \notin RawKey THEN "E_SIGNER_MALFORMED"
      ELSE IF Genuine(envelope.signature, "ed25519", manifest.public_key, digest)
        THEN "OK" ELSE "E_SIGNATURE_INVALID"

\* The loop body of _check_signatures; signers maps the ids that have a file
\* under signers/ to what it holds.
CheckEnvelope(envelope, signers, digest) ==
  IF envelope.signer_id \notin DOMAIN signers THEN "E_SIGNER_MISSING"
  ELSE LET manifest == signers[envelope.signer_id]
       IN  IF ~SignerParses(manifest, envelope.signer_id) THEN "E_SIGNER_MALFORMED"
           ELSE IF Sha256(manifest.public_key) # manifest.fingerprint
             THEN "E_SIGNER_FINGERPRINT_MISMATCH"
           ELSE IF ~Decodes(envelope.hash) THEN "E_SIGNATURE_MALFORMED"
           ELSE IF envelope.hash # digest THEN "E_SIGNATURE_HASH_MISMATCH"
           ELSE IF envelope.algorithm \notin Registry THEN "E_SIGNER_ALGORITHM_UNKNOWN"
           ELSE IF envelope.algorithm # manifest.algorithm THEN "E_SIGNER_ALGORITHM_MISMATCH"
           ELSE IF envelope.algorithm = "hmac-sha256"
             THEN HMACVerify(envelope, manifest, digest)
           ELSE Ed25519Verify(envelope, manifest, digest)

\* _check_signatures of a package that has signatures.jsonl: the first
\* envelope that fails decides.
CheckSignatures(lines, signers, manifest) ==
  LET read  == ReadSignatures(lines)
      code(k) == CheckEnvelope(lines[k], signers, PackageHash(manifest))
      bad   == {k \in DOMAIN lines : code(k) # "OK"}
  IN  IF read # "OK" THEN read
      ELSE IF bad = {} THEN "OK"
      ELSE code(CHOOSE k \in bad : \A j \in bad : k <= j)

-----------------------------------------------------------------------------
(* The notary.                                                             *)

\* resolve_notary: no lookup is made.
ResolveNotary(manifest) == "verified-locally"

\* attestation_is_acceptable
Acceptable(attestation, requireNotary) ==
  requireNotary => attestation = "verified-by-notary"

\* compute_attestation_canonical_hash
AttestationHash(signer, notary, fingerprint) ==
  Sha256([key_fingerprint |-> fingerprint, notary_id |-> notary, signer_id |-> signer])

\* What a notary of this manifest issues for a key of a signer.
Attestation(notary, signer, fingerprint, at) ==
  [notary_id |-> notary.signer_id, signer_id |-> signer, fingerprint |-> fingerprint,
   algorithm |-> notary.algorithm, signed_at |-> at,
   signature |-> Signature(notary.algorithm, notary.public_key,
                           AttestationHash(signer, notary.signer_id, fingerprint))]

\* parse_attestation_line
AttestationParses(line) == line # Junk

\* _verify_attestation_signature
AttestationSigned(notary, digest, signature) ==
  IF ~Decodes(signature) THEN "E_SIGNATURE_MALFORMED"
  ELSE IF notary.algorithm = "ed25519" /\ ~Cryptography THEN "E_SIGNER_ALGORITHM_UNAVAILABLE"
  ELSE IF ~Decodes(notary.public_key)
            \/ (notary.algorithm = "ed25519" /\ notary.public_key \notin RawKey)
    THEN "E_SIGNER_MALFORMED"
  ELSE IF Genuine(signature, notary.algorithm, notary.public_key, digest)
    THEN "verified-by-notary"
  ELSE "E_SIGNATURE_INVALID"

\* Seeded bug: the key the notary vouches for is not compared (no rule 3.2).
ResolveAttestationOfAnyKey(manifest, line, notary) ==
  IF ~AttestationParses(line) THEN "E_SIGNATURE_MALFORMED"
  ELSE IF line.signer_id # manifest.signer_id THEN "E_SIGNER_NOTARY_INVALID"
  ELSE IF line.notary_id # notary.signer_id THEN "E_SIGNER_NOTARY_INVALID"
  ELSE AttestationSigned(notary,
         AttestationHash(line.signer_id, line.notary_id, line.fingerprint), line.signature)

\* resolve_notary_attestation of a line, in the order of section 3.
ResolveAttestation(manifest, line, notary) ==
  IF ~AttestationParses(line) THEN "E_SIGNATURE_MALFORMED"
  ELSE IF line.signer_id # manifest.signer_id THEN "E_SIGNER_NOTARY_INVALID"
  ELSE IF ~Decodes(line.fingerprint) \/ line.fingerprint # manifest.fingerprint
    THEN "E_SIGNER_NOTARY_INVALID"
  ELSE IF line.notary_id # notary.signer_id THEN "E_SIGNER_NOTARY_INVALID"
  ELSE IF line.algorithm \notin Registry THEN "E_SIGNER_ALGORITHM_UNKNOWN"
  ELSE IF line.algorithm # notary.algorithm THEN "E_SIGNER_ALGORITHM_MISMATCH"
  ELSE IF ~Decodes(notary.public_key) THEN "E_SIGNER_MALFORMED"
  ELSE IF ~Decodes(notary.fingerprint) \/ Sha256(notary.public_key) # notary.fingerprint
    THEN "E_SIGNER_FINGERPRINT_MISMATCH"
  ELSE AttestationSigned(notary,
         AttestationHash(line.signer_id, line.notary_id, line.fingerprint), line.signature)

=============================================================================
