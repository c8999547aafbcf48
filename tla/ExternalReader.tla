--------------------------- MODULE ExternalReader ---------------------------
(***************************************************************************)
(* The independent reader of src/scripts/external_reader.py: its verdict   *)
(* of a package directory and the archive it would make of one, written    *)
(* apart from the reference and compared with it.                          *)
(***************************************************************************)
EXTENDS PackageFormat

\* _LEGAL_TRANSITIONS, in the states that occur; "NEW" is both the start of
\* every claim and the state of one that has no event.
ReaderStep(state, event) ==
  IF state = "NEW" /\ event.type \in {"create", "publish"} THEN "active"
  ELSE IF state = "active" /\ event.type \in {"reaffirm", "revise"} THEN "active"
  ELSE IF state = "active" /\ event.type = "supersede" THEN "superseded"
  ELSE IF state = "active" /\ event.type = "withdraw" THEN "withdrawn"
  ELSE "illegal"

\* Seeded bug: the walk takes the lines as they come.
AsListed(events) == events

\* The walk sorts by time and event id, whatever the order of the lines.
InOrder(events) == History!Canonical(events)

\* The states of the claims after the walk of all events; the walk ends with
\* the first that is illegal, and "illegal" stays.
ReaderStates(events, claims) ==
  LET walk == InOrder(events)
      met == claims \cup {events[k].claim : k \in DOMAIN events}
      states[n \in 0 .. Len(walk)] ==
        IF n = 0 THEN [c \in met |-> "NEW"]
        ELSE [states[n - 1] EXCEPT ![walk[n].claim] = ReaderStep(@, walk[n])]
  IN  states[Len(walk)]

\* _load_events: no file, no events.
ReaderEvents(tree) == IF Events \in DOMAIN tree THEN tree[Events] ELSE <<>>

\* _classify_package
Classify(tree) ==
  IF Manifest \notin DOMAIN tree THEN "ERR-SYN-MISSING-MANIFEST"
  ELSE IF tree[Manifest] = Junk THEN "ValueError"
  ELSE IF tree[Manifest].format # "2.0" THEN "ERR-SYN-UNKNOWN-FORMAT-VERSION"
  ELSE
  LET claims == {c.id : c \in tree[Manifest].claims}
      states == ReaderStates(ReaderEvents(tree), claims)
  IN  IF \/ \E c \in DOMAIN states : states[c] = "illegal"
         \/ \E c \in claims : states[c] = "NEW"
        THEN "ERR-SEM-LIFECYCLE-ILLEGAL"
      ELSE "valid"

\* _require_valid_package
RequireValid(tree) == Classify(tree) = "valid"

\* canonical_tar_bytes refuses two members of one name.
NamesDiffer(manifest) ==
  \A c, d \in manifest.claims : c # d => c.path # d.path

\* canonical_archive_bytes: what it refuses, the parsing and the members
\* before the verdict and the framing after it.
CanonicalCheck(tree) ==
  IF Manifest \notin DOMAIN tree \/ Events \notin DOMAIN tree THEN "CanonicalError"
  ELSE IF tree[Manifest] = Junk THEN "CanonicalError"
  ELSE IF \E c \in tree[Manifest].claims : ClaimFile(c.path) \notin DOMAIN tree
    THEN "CanonicalError"
  ELSE IF ~RequireValid(tree) THEN "PackageValidationError"
  ELSE IF ~NamesDiffer(tree[Manifest]) THEN "CanonicalError"
  ELSE "OK"

\* _manifest_with_recomputed_hashes
ManifestAnew(tree) ==
  LET manifest == tree[Manifest]
  IN  [format |-> manifest.format, package |-> manifest.package,
       claims |-> {[id |-> c.id, inst |-> c.inst, path |-> c.path, state |-> c.state,
                    hash |-> Sha256(tree[ClaimFile(c.path)])] : c \in manifest.claims}]

\* canonical_archive_bytes: the members, whose order canonical_tar_bytes
\* gives them.
CanonicalArchive(tree) ==
  [n \in {Manifest, Events} \cup {ClaimFile(c.path) : c \in tree[Manifest].claims}
            \cup (IF Notice \in DOMAIN tree THEN {Notice} ELSE {}) |->
     IF n = Manifest THEN ManifestAnew(tree) ELSE tree[n]]

=============================================================================
