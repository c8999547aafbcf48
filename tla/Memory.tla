------------------------------- MODULE Memory -------------------------------
(***************************************************************************)
(* What the three arms of the benchmark remember of one question.          *)
(*                                                                         *)
(* SharedLinker (src/benchmarks/longmemeval/linker.py) turns the lines of  *)
(* the sessions, in the order they happened, into linked claims: a line    *)
(* restates the claim that stands on its subject or mints a new lineage    *)
(* that supersedes it.  The arms A, B and C (arms/plain.py,                *)
(* arms/naive_dedup.py, arms/aphelion_arm.py) each run the one linker over *)
(* the same sessions, one after the other, and keep what their rule keeps: *)
(* A every claim, B one per body, C one per lineage and content hash, which*)
(* it resolves with the read adapter.                                      *)
(*                                                                         *)
(* Arm C also takes claims that no linker made (claim_from_frontmatter, the*)
(* fixture, a package).  In that mode the records are any claims at all,   *)
(* and the question is whether their order matters.                        *)
(*                                                                         *)
(* A body is a number; what the extractor or the subject policy reads in a *)
(* line is its subject and its value.  Times are numbers, 0 for an undated *)
(* session.                                                                *)
(***************************************************************************)
EXTENDS ReadAdapter, SequencesExt

CONSTANTS
  Subject,    \* subjects an extractor or the policy may read
  Value,      \* values of structured claims
  MaxLines,   \* bound: lines of all sessions
  MaxTime,    \* bound: instants
  Fixture,    \* claims that may be imported as they are
  MaxRecords  \* bound: records imported

\* A claim has these fields.
IsClaim(c) ==
  /\ c = [id |-> c.id, subject |-> c.subject, object |-> c.object, state |-> c.state,
          supersedes |-> c.supersedes, from |-> c.from, until |-> c.until,
          polarity |-> c.polarity, created |-> c.created]
  /\ c.id \in Nat /\ c.created \in Nat

ASSUME MemoryAssumption ==
  /\ MaxLines \in Nat /\ MaxTime \in Nat /\ MaxRecords \in Nat
  /\ Absent \notin Subject \cup ({"own"} \X Nat)
  /\ IsFiniteSet(Fixture) /\ \A c \in Fixture : IsClaim(c)

Arm == {"A", "B", "C"}
Time == 0 .. MaxTime

VARIABLES
  lines,     \* the lines of the sessions, in the order they happened
  arm,       \* whose pass over the sessions this is
  emitted,   \* the claims each arm was given
  settled,   \* _claims: the claim of each record
  metaOf,    \* _meta_by_body: the frontmatter a body carries
  head,      \* _head_by_subject: the lineage that stands on a subject
  headMeta,  \* _head_meta_by_subject: and its frontmatter
  minted,    \* _lineage_seq
  records    \* claims imported into arm C as they are

linker == <<settled, metaOf, head, headMeta, minted>>
vars == <<lines, arm, emitted, linker, records>>

Init ==
  /\ lines = <<>> /\ arm = "A" /\ records = {}
  /\ emitted = [a \in Arm |-> <<>>]
  /\ settled = <<>> /\ minted = 0
  /\ metaOf = <<>> /\ head = <<>> /\ headMeta = <<>>

-----------------------------------------------------------------------------
(* The lines.                                                              *)

\* What a new body says: a subject and a value from the extractor, a subject
\* the policy reads in the text, or text with no subject to read.
Reading ==
  [kind : {"structured"}, subject : Subject, value : Value]
    \cup [kind : {"free"}, subject : Subject] \cup [kind : {"alone"}]

\* The value of free text is its body; a line with no topic has a subject of
\* its own.
SubjectOf(l) == IF l.reading.kind = "alone" THEN <<"own", l.body>> ELSE l.reading.subject
ValueOf(l) == IF l.reading.kind = "structured" THEN l.reading.value ELSE <<"body", l.body>>

\* _session_order_key: undated sessions first, then by instant.
NotBefore(at) == lines # <<>> => Last(lines).at <= at

\* What the next line may be.  The linker reads a body once (_link), so a body
\* seen before comes with its first reading.
NextLine ==
  LET seen == {lines[k].body : k \in DOMAIN lines}
  IN  {l \in [body : 1 .. Cardinality(seen) + 1, at : {t \in Time : NotBefore(t)}, reading : Reading] :
         \A k \in DOMAIN lines : lines[k].body = l.body => lines[k].reading = l.reading}

-----------------------------------------------------------------------------
(* The linker.                                                             *)

Put(f, x, y) == [z \in DOMAIN f \cup {x} |-> IF z = x THEN y ELSE f[z]]

\* The frontmatter of a new lineage: it supersedes what stands on its subject,
\* and only then is it dated.
Minted(subject, value, at) ==
  LET stands == subject \in DOMAIN head
  IN  [id |-> minted + 1, subject |-> subject, object |-> value, state |-> "active",
       supersedes |-> IF stands THEN {head[subject]} ELSE {},
       from |-> IF stands THEN at ELSE 0,
       until |-> 0, polarity |-> Absent, created |-> 0]

\* The arm is given the claim, the record is settled, and the body carries
\* this frontmatter from now on.
Emit(l, meta) ==
  /\ emitted' = [emitted EXCEPT ![arm] = Append(@, meta)]
  /\ settled' = Append(settled, meta)
  /\ metaOf' = Put(metaOf, l.body, meta)

\* _set_head
SetHead(subject, meta) ==
  /\ head' = Put(head, subject, meta.id)
  /\ headMeta' = Put(headMeta, subject, meta)

Standing(l) == metaOf[l.body].id = head[metaOf[l.body].subject]

\* The body is known and what it says stands: the same claim again.
Restate(l) ==
  /\ l.body \in DOMAIN metaOf /\ Standing(l)
  /\ Emit(l, metaOf[l.body])
  /\ UNCHANGED <<head, headMeta, minted>>

\* Seeded bug: only the id of the new head is kept.
RevertHalf(l) ==
  /\ l.body \in DOMAIN metaOf /\ ~Standing(l)
  /\ LET prior == metaOf[l.body]
         meta == Minted(prior.subject, prior.object, l.at)
     IN  Emit(l, meta) /\ head' = Put(head, prior.subject, meta.id) /\ UNCHANGED headMeta
  /\ minted' = minted + 1

\* _revert_lineage: the body is known and its subject has moved on since.
Revert(l) ==
  /\ l.body \in DOMAIN metaOf /\ ~Standing(l)
  /\ LET prior == metaOf[l.body]
         meta == Minted(prior.subject, prior.object, l.at)
     IN  Emit(l, meta) /\ SetHead(prior.subject, meta)
  /\ minted' = minted + 1

\* Seeded bug: whatever stands on the subject will do.
SameSubject(l) == l.reading.kind = "structured" /\ SubjectOf(l) \in DOMAIN headMeta

\* The structured value of a new body is the one that stands.
SameValue(l) ==
  /\ l.reading.kind = "structured" /\ SubjectOf(l) \in DOMAIN headMeta
  /\ headMeta[SubjectOf(l)].object = ValueOf(l)

\* _structured_lineage, in other words than before.
Reword(l) ==
  /\ l.body \notin DOMAIN metaOf /\ SameValue(l)
  /\ Emit(l, headMeta[SubjectOf(l)])
  /\ UNCHANGED <<head, headMeta, minted>>

\* _new_lineage and _structured_lineage: a subject's first value, or another.
Mint(l) ==
  /\ l.body \notin DOMAIN metaOf /\ ~SameValue(l)
  /\ LET meta == Minted(SubjectOf(l), ValueOf(l), l.at)
     IN  Emit(l, meta) /\ SetHead(SubjectOf(l), meta)
  /\ minted' = minted + 1

Link(l) == Restate(l) \/ Revert(l) \/ Reword(l) \/ Mint(l)

-----------------------------------------------------------------------------
(* The passes of the arms.                                                 *)

Behind == Len(emitted[arm]) < Len(lines)

\* Arm A's pass meets every record first.
Read ==
  /\ arm = "A" /\ Len(lines) < MaxLines /\ records = {}
  /\ \E l \in NextLine : lines' = Append(lines, l) /\ Link(l)
  /\ UNCHANGED <<arm, records>>

\* A record that is settled is not linked again, whatever stands by now.
Replay ==
  /\ Behind
  /\ emitted' = [emitted EXCEPT ![arm] = Append(@, settled[Len(@) + 1])]
  /\ UNCHANGED <<lines, arm, linker, records>>

NextArm ==
  /\ lines # <<>> /\ ~Behind
  /\ \/ arm = "A" /\ arm' = "B"
     \/ arm = "B" /\ arm' = "C"
  /\ UNCHANGED <<lines, emitted, linker, records>>

\* Arm C takes a claim no linker made.
Import ==
  /\ lines = <<>> /\ Cardinality(records) < MaxRecords
  /\ \E c \in Fixture \ records : records' = records \cup {c}
  /\ UNCHANGED <<lines, arm, emitted, linker>>

Finished == arm = "C" /\ ~Behind

Over ==
  /\ Finished \/ Cardinality(records) = MaxRecords
  /\ UNCHANGED vars

Next == Read \/ Replay \/ NextArm \/ Import \/ Over

Spec == Init /\ [][Next]_vars

-----------------------------------------------------------------------------
(* Arm C.                                                                  *)

\* project: what the content hash covers, the claim's id and R4 fields not.
Hash(c) == <<c.subject, c.object, c.state>>

\* Seeded bug: a field of R4 is forgotten.
R4MetadataShort(c) == <<c.supersedes, c.from, c.polarity>>

\* R4_CONFLICT_FIELDS; conflict_class is reserved and no claim carries it.
R4Metadata(c) == <<c.supersedes, c.from, c.until, c.polarity>>

\* A lineage with two hashes, or with one and two views of R4, is refused.
Irreconcilable(a, b) ==
  a.id = b.id /\ (Hash(a) # Hash(b) \/ R4Metadata(a) # R4Metadata(b))

\* add_claims: of a lineage the record that came first is retained.
Coalesce(store, c) ==
  IF store.refused \/ \E k \in DOMAIN store.kept : Irreconcilable(store.kept[k], c)
    THEN [store EXCEPT !.refused = TRUE]
  ELSE IF c.id \in Ids(store.kept, DOMAIN store.kept) THEN store
  ELSE [store EXCEPT !.kept = Append(@, c)]

\* ingest: the claims one after the other, into an empty store.
Store(claims) ==
  LET after[n \in 0 .. Len(claims)] ==
        IF n = 0 THEN [kept |-> <<>>, refused |-> FALSE]
        ELSE Coalesce(after[n - 1], claims[n])
  IN  after[Len(claims)]

\* _surfaced_lineages
SurfacedBy(verdict) ==
  IF verdict.class \in {"none", "supersession"} THEN {verdict.primary} \ {0}
  ELSE verdict.surfaced

\* retrieve and _r4_surfaced_ids: each subject's claims are resolved apart.
Surfaced(kept, time) ==
  LET live == {k \in DOMAIN kept : kept[k].state \notin {"superseded", "withdrawn"}}
      group(s) == {k \in live : kept[k].subject = s}
      subjects == {kept[k].subject : k \in live} \ {Absent}
  IN  Ids(kept, group(Absent))
        \cup UNION {SurfacedBy(Query(kept, group(s), s, time)) : s \in subjects}

Instant == 1 .. MaxTime + 1

\* What a reader of arm C finds at every instant: an error, when the claims are
\* added or before they are ranked, or the lineages that surface.
Remembered(claims) ==
  LET store == Store(claims)
  IN  IF store.refused \/ \E k \in DOMAIN store.kept : Unscoped(store.kept[k])
        THEN [refused |-> TRUE, at |-> <<>>]
      ELSE [refused |-> FALSE, at |-> [t \in Instant |-> Surfaced(store.kept, t)]]

-----------------------------------------------------------------------------
(* M2: labeled pairs and clusters.                                         *)

\* The pairs of lines in one cluster, for the key each line clusters by.
PairsOf(key) ==
  {pair \in kSubset(2, DOMAIN key) : \A j, k \in pair : key[j] = key[k]}

Bodies == [k \in DOMAIN lines |-> lines[k].body]

\* labeled_pairs_from_claims, from the claims of the linker.
Labeled == PairsOf(Bodies)
WithinLineage == PairsOf([k \in DOMAIN lines |-> <<lines[k].body, settled[k].id>>])

\* clusters of arm B: the normalised body is all that counts.
ClustersB == PairsOf(Bodies)

\* clusters of arm C: coalescing_key.
ClustersC == PairsOf([k \in DOMAIN lines |-> <<emitted["C"][k].id, Hash(emitted["C"][k])>>])

\* cross_lineage_attribution
Missed == (ClustersB \cap Labeled) \ (ClustersC \cap Labeled)
FalsePositives == ClustersC \ Labeled

-----------------------------------------------------------------------------

\* The lines that say something of a subject and are true at an instant; a
\* subject's first claim is never dated, so before the first it stands.
Said(subject, time) ==
  LET all == {k \in DOMAIN lines : SubjectOf(lines[k]) = subject}
      past == {k \in all : lines[k].at <= time}
  IN  IF past = {} THEN {Min(all)} ELSE past

\* For every subject and instant arm C surfaces one lineage, with the value of
\* the last line then true (linker docstring: "R4 resolves the group to the
\* newest value and Arm C stops surfacing the stale one").
CurrentSurfaces ==
  Finished =>
    /\ ~Remembered(emitted["C"]).refused
    /\ \A time \in Instant, subject \in {SubjectOf(lines[k]) : k \in DOMAIN lines} :
         LET surfaced == {c \in ToSet(emitted["C"]) :
                            c.subject = subject /\ c.id \in Remembered(emitted["C"]).at[time]}
         IN  \E c \in surfaced : surfaced = {c} /\ c.object = ValueOf(lines[Max(Said(subject, time))])

\* Whatever arm B merges and arm C does not is split between lineages, and
\* what arm C merges beyond the labels is one fact in two wordings
\* (cross_lineage_attribution).
DeficitIsFragmented ==
  Finished =>
    /\ Missed \cap WithinLineage = {}
    /\ \A pair \in FalsePositives : \A j, k \in pair :
         /\ SubjectOf(lines[j]) = SubjectOf(lines[k])
         /\ ValueOf(lines[j]) = ValueOf(lines[k])

SameDates == \A c, d \in records : c.id = d.id => c.created = d.created

\* What arm C remembers of imported claims does not depend on their order
\* (CoalesceConflictError: "Keeping whichever record arrived first makes
\* retrieval depend on ingest order, which 5.3 forbids outright").
ImportOrderFree ==
  Cardinality({Remembered(order) : order \in SetToSeqs(records)}) = 1

\* And it does not where the records of a lineage agree on created_at, which
\* neither the hash nor the R4 fields cover.
OrderFreeIfDated == SameDates => ImportOrderFree

=============================================================================
