# Verification of Aphelion-Graph

TLA+ models of the parts of this repository whose correctness depends on
order, failure and concurrency, the TLC configurations that check them, and
proofs that TLAPS checks. `PROJECT.json` lists every run, property, mutant,
mapped line, finding, hazard and theorem; this file explains them.

To check a module: `tlc -workers 2 -config Replacement.cfg MCReplacement.tla`.
To check a proof: `tlapm Replacement_proofs.tla`.

## 1. The system

The repository holds a package (`src/src/aphelion`, a format and tools for
archives of claims) and a benchmark harness (`src/benchmarks/longmemeval`)
that compares three memory stores with real models over hours or days.

| Component | State | Operations | Hard behaviour | What makes it correct |
|---|---|---|---|---|
| Merge and undo: `_Replacement`, `_merge`, end of `_unpack` (`unpacker.py`) | destination, staging and backup directories; undo log; placeholder and placed identities | `mkdir`, `put_file`, `_swap`, `rollback`, `commit`, clean-up | any system call fails, Ctrl-C between any two, another process writes meanwhile, two names alias one entry | nothing the call found is lost; what stays behind is named; a failed merge is undone |
| Unpack into a new destination (`_unpack`, `_make_parents`, `unpacker.py`) | parents on record, staging, `renaming` | parents, staging beside or inside, rename, clean-up | the destination appears meanwhile; other calls use the same parents; an interrupt around the rename | a tree appears once and whole; "completed" is told truly; what was made is removed |
| Reading an archive (`_members`, `_ForwardReader`, `MemberNames`, `_extract`, `unpacker.py`) | how far tarfile has read and may read, member-name tables, budgets, staging | checks, two-pass extraction, collecting for signatures | the archive changes between and during the passes; names that collide without being equal | what is checked is what is extracted and what signatures are read from; bounded reading |
| Migration (`migrate.py`) | old and new tree or archive, backup, draft file | swap through `replace_entry`; `dst.tmp` and replace | failure, kill or another call in the swap; two migrations share one draft | old or new, never a mixture; what was there is held |
| Package commands: init, pack, sign, verify, unpack (`initializer.py`, `packer.py`, `canonical_tar.py`, `cli.py`) | a working directory and one archive | plain writes in place | a kill half way through a write, a signer who reads meanwhile, edits between commands, archives of other programs | what verify accepts is whole up to the provenance, and survives signing and repacking |
| Claim history (`lifecycle.py`, `verifier.py`, part of `validator.py`) | lines of `provenance.jsonl` | lifecycle walk, unique ids, chain, instances | two orders (lines and time), ties | an accepted history is one path from create to its terminal event |
| Signatures and trust (`validator.py`, `verifier.py`, `signer.py`, `sig_pack.py`, `trust.py`) | envelopes, signer manifests, notary attestations | signing, merging envelopes, verification, attestation | signing looks at no claim file; ties of the order of envelopes; five comparisons bind one key | genuine signatures of an accepted package are over what it holds; an attestation vouches for one key of one signer |
| External reader (`scripts/external_reader.py`) | none | verdict and canonical archive, written without the package's code | two implementations of one format | they agree wherever both answer |
| Read adapter (`read_adapter.py`) | the claims of a package | query, supersession, conflict policy | dependence on input order | the same claims give the same answer |
| Encodings (`canonical_json.py`, `yaml_canonical.py`, `canonicalize.py`, `content_hash.py`) | none | encode, hash | none for a state machine | canonical bytes |
| Schema validation (`validator.py`, `v03_validator.py`), diff, CLI, output, errors | none | predicates, formatting | none for a state machine | |
| Endpoint circuit and retries (`clients.py`) | `_failures`, `_opened_at`, `_probing` under a lock; each thread's request | `before_attempt`, `record_reachable`, `record_unreachable`, `_request` | threads between the check and the record; late failures; exceptions nobody catches | a dead endpoint costs a bounded number of attempts, and a live one closes the circuit |
| Extraction pass (`real_run.py`) | `extractions.jsonl`, the memo, pool queue, halt and interrupt events | `extract_questions`, `RealExtractor`, `ExtractionCache.put`, `JsonlWriter.append`, `repair_jsonl` | workers, crash in a row, failed append, Ctrl-C, resume | each session is extracted once, primed by the rows before it; a stopped pass names what it owes |
| Graded run and its directory (`real_run.py`) | manifests, identity record, four row files, metrics | `execute`, `extract_only`, the gates, `answer_questions`, `judge_blind`, `replay_judge` | kill anywhere, two modes and other settings in one directory, a second process | one experiment per directory; a blind batch in pinned order, once |
| Shared linker and memory arms (`linker.py`, `arms/`, `labeled_pairs.py`) | heads and readings by subject and body; each arm's claims | linking a line, replaying a record, coalescing, retrieval | a subject that is updated, reworded and reverted; three passes over one linker; the order of records | arm C surfaces what is current, and misses only what the linker split |
| Pipeline, retriever, other metrics, corpus, scripts | in-memory results | scoring, statistics | none concurrent | |

How they interact. `unpack` and `verify` share only the file system. The graded
run calls the extraction pass, which calls the model through the circuit; the
circuit is shared by all the threads of one client, the cache by all workers,
the linker by the three arms of a question, and the output directory by every pass
ever started on it. Arm C resolves what the linker wrote with the package's read
adapter. The package commands share a working directory and an archive file, and the
external reader reads what they make. Shared state is
therefore a directory three times (the destination of an unpack, the path of a
migration, the output directory of a run), a file once (the archive signers sign in
place), a lock-protected object twice (the circuit, the cache), and two
events set by a signal handler and by failing workers.

## 2. Modules

| Module | Models | Composed with |
|---|---|---|
| `AtomicMerge` | abstract: an all-or-nothing update that holds on to every original | implemented by `Replacement` |
| `Replacement`, `MCReplacement` | the merge, one action per system call | |
| `Replacement_proofs` | the inductive invariants, what the undo keeps, the step simulation of `AtomicMerge` | extends `Replacement` |
| `Publication` | abstract: a tree appears whole, once, and each call says truly whether its own did | implemented by `NewDestination` |
| `NewDestination` | calls of `_unpack` around the merge: parents, staging, rename, clean-up | takes the merge as one step, which `AtomicMerge` describes |
| `NewDestination_proofs` | the invariants, the theorems and the step simulation of `Publication` | extends `NewDestination` |
| `TwoPass`, `MCTwoPass` | the two passes of `_extract` over an archive that may change | |
| `TwoPass_proofs` | the inductive invariants and the theorems | extends `TwoPass` |
| `Migration` | calls of `migrate_directory` and `migrate_archive` at one path | |
| `EndpointCircuit` | the circuit and the retry loop of each thread | |
| `EndpointCircuit_proofs` | the inductive invariant and the theorems | extends `EndpointCircuit` |
| `PinnedExtraction` | abstract: questions settle session by session, each once | implemented by `Extraction` |
| `Extraction` | the pass, its cache, file, interrupts and resumption | |
| `Extraction_proofs` | the invariant, the theorems and the step simulation of `PinnedExtraction` | extends `Extraction` |
| `BlindBatch` | abstract: extract once, answer once, judge once in the pinned order | implemented by `GradedRun` |
| `GradedRun`, `MCGradedRun` | the output directory under passes of both modes | takes the extraction of a question as one step |
| `GradedRun_proofs` | the invariant, the theorems and the step simulation of `BlindBatch` | extends `GradedRun` |
| `MCPlacing` | | two halves: `Migration` and `NewDestination` |
| `Placing_proofs` | the invariants and the theorems of `Migration`, and those of the two halves together | extends `MCPlacing`, cites `NewDestination_proofs` |
| `Provenance` | the history of one claim and the verdict on it | |
| `ReadAdapter` | R4 resolution of the claims on a subject, as operators | |
| `Memory` | the linker, the passes of the three arms, what arm C keeps and surfaces | resolves with `ReadAdapter` |
| `Signatures` | envelopes, signer manifests, attestations and every check of them, as operators | |
| `PackageFormat` | what `verify`, `pack` and `sign` compute of a package, as operators | the histories of `Provenance`, the checks of `Signatures` |
| `ExternalReader` | the same package as the external reader sees it, as operators | beside `PackageFormat` |
| `PackageLife` | a directory, an archive and the commands that move between them | `PackageFormat` and `ExternalReader` |
| `MCClaims` | | three parts: `Provenance`, `Memory` and `PackageLife` |
| `Claims_proofs` | the invariants and the theorems of each part, and that a run of `MCClaims` is one of each | extends `MCClaims` |

`MCPlacing` and `MCClaims` each put modules that share nothing in one run: a step is
one of one part, and a part begins only while the others have not, so the states are
the sum of theirs and not the product.

### Replacement

`dest`, `stage` and `backup` are the three directories; a slot is a directory
entry of the destination and what it holds carries an identity, as the code
compares `(st_dev, st_ino)`. `log`, `claims` and `placed` are the fields of
`_Replacement` (the log is indexed by entry, as each entry is logged at most
once). `pc` names the next system call, so that a failure (`CallFails`,
`CreateFails`, `AttemptFails`) or an interrupt (`Interrupt`, `CutShort`,
`CleanupInterrupted`) can fall before each. `Foreign` is the other process.
`SlotOf` need not be injective: two entries with one slot are what `_refuse_placed`
is for; the run gives each entry a slot of its own, the theorems speak of every
`SlotOf`. Abstracted: file contents, permissions, time stamps, and the depth of
the tree beyond the parent relation `Up`.

### NewDestination

The parents of the destination are a chain; `depth` says how many exist and
`maker` who made each. `made` is the list of `_make_parents`, on which a parent
goes before its `mkdir`; `stray` remembers the ones on it whose `mkdir` has not
come back. `held` is the set of calls whose tree is in the destination, so two
calls that merge are both in it. `Trouble` stands for a failure before a call
and for an interrupt before or right after it; `Late` is the interrupt right
after the rename that `Judge` has to recognise. `Merge` and `MergeFails` are the
two outcomes that `AtomicMerge` allows. Paths through links are left out.

### TwoPass

An archive is whatever `tar.next` gives next: a header of a small set, the end, or
something damaged. `tape` is what the first pass met, and `touched` says that the
second met something else, so an archive that is rewritten between or during the
passes needs no process of its own. A header has what the checks look at: its
name, kind and size, the bytes of its header blocks, how many of them are global,
and `sound`, which stands for everything `_check_extent` reads out of the bytes
(checksums, pax records, sparse keys, what releases read differently). `Parts`,
`Key` and `Fs` are what a spelling means to the checks, to the collision tables and
to the file system. `handed`, `limit` and `end` are those of `_ForwardReader`;
`Reads` lets tarfile's buffer run ahead as far as the limit. What a refused call
leaves in staging goes the way `NewDestination` and `Replacement` describe.

### Migration

What is at a path is an object with an identity: `"old"`, the tree or file of a
call, or something foreign. For a directory, `staging` and `aside` are the two
siblings under random names; the steps from `Swap` to `PutBack` are those of
`_Replacement` with one log entry, each look apart from the rename it guards,
because another call may move the tree in between. For an archive, `tmp` is the
one draft name all calls share and `handle` the file each has open: an open file
is followed through renames, so a call can write on into what has become the
destination. `Replace` puts the draft in place and `Finish` returns: an interrupt or a
kill between the two ends a call whose archive is in place all the same. `last`
remembers whose tree or archive is in place, told or not; a kill leaves in part what was being
copied or deleted. `met` remembers which calls overlapped; two properties speak of
calls that did not.

### EndpointCircuit

One action per lock acquisition: what the transport does (`Transport`) and the
call that records it (`Answered`, `Silent`, `Broke`) are apart, because other
threads run between them. Time is ticks; `dark` is the age of `_opened_at`. The
variables `probe`, `paid` and `apart` are history and no action reads them in a
guard.

### Extraction

A row carries what its prompt was primed with, which is what the properties
compare. `rows[q]` is the rows of one question in the order of the file: nothing
reads how the rows of two questions interleave. A torn row is the flag `tail`; an append that lands on it is `spliced`.
`crew` is the set of workers a process was started with: one is the serial loop,
several are the pool. `InterruptPool` follows where the main thread is when
Ctrl-C lands: waiting in the pool's iterator it cancels the queue, in its own
loop body it does not. `dropped`, `halt` and `interrupted` are the cancelled
queue and the two events. `short` remembers an append that failed.

### GradedRun

`found` is a copy of the directory taken when a process starts, kept until its
gates have passed; only properties read it. The five cases of
`reconcile_extraction_identity` are two conditions here, because a record is
written in exactly the cases that are not refused. A kill may tear the row being
appended, or the record being rewritten in place. `memo`, `seen` and `judged` are
what the process holds in memory of its files; they are separate from the files
so that two processes over one directory can be stated. `OneExperiment` is the promise
in three parts: the rows are of one experiment, every answer has the one cache row it
names (`CacheAttributed`), and the claim rows of a question come from what the cache
holds of it (`ClaimsShared`). Extraction with several
workers is left to `Extraction`.

### Provenance

The state is the file; the checks are operators on it, each in the order in
which the code reads the lines (`ChainOK` in the order of the file, `LifecycleOK`
and `TargetsOK` sorted by time and id). The code's stable sort is written as an insertion
sort (`Inserted`, `Canonical`) and the walk as a function of how many events were walked:
both are recursive functions, which the prover can unfold. The history of one claim is independent
of the others except for the uniqueness of ids.

### ReadAdapter

`query` step by step. Claims are a sequence in the caller's order, and what a step keeps
of them is a set of positions, as no step reorders them; where the code sorts for the
newest or takes the first, the position decides (`Newest`, `Residual`). An id and
a time are numbers, and an absent field is 0, `{}` or `Absent`. Ids compare as
numbers here and as strings there, which matters to the tie-break of `Newest` alone.
Warnings and the truncation of the query time to seconds are left out.

### Memory

`settled`, `metaOf`, `head` and `headMeta` are `_claims`, `_meta_by_body`,
`_head_by_subject` and `_head_meta_by_subject`; a lineage is the number it was minted
with. A line has a body, an instant (0 for an undated session) and what is read in it:
subject and value from the extractor, a subject of the policy's patterns, or nothing.
A body has one reading, as the linker reads it once. Lines are made while arm A's
pass meets them, in the order of `_evidence_sessions`; arms B and C replay. `records`
is the other use of arm C, claims taken from frontmatter as they are; every order of
them is compared in one state, by `Remembered`. `add_claims` is a fold, here a recursive function of how many
claims have been added (`Store`). Text, normalisation, ranking
and the similarity threshold are left out: two bodies are equal or not.

### Signatures, PackageFormat, ExternalReader

These have no variables: the code they model keeps no state. Each check returns the
code of the first refusal, as `validator.py` and `verifier.py` raise it, in their
order. A digest is a record of what was hashed and a signature a record of the
algorithm, the key and the message, so two are equal only if all of it is: collisions
and forgery are out of reach. A tree is a function from member names to contents; a
claim file is a value, `signatures.jsonl` a sequence of envelopes, `provenance.jsonl`
a sequence of events. A file that no command knows of is a stray, with a place among
the paths and no content: LICENSE, a notice of another name, `schemas/*.json`. `Junk` is
what does not parse, `Nothing` a content no check reads. One name may stand for several codes of the program; the head of `PackageFormat`
says which. `ExternalReader` is translated from `scripts/external_reader.py` alone, which
decides legality by a table of states and in milliseconds where the package walks a
matrix, and refuses in an order of its own.

### PackageLife

`dir` is the working directory and `archive` the file, with what it is the beginning
of (`of`, read by the properties only) and how it was cut. A command is two or three
steps: it reads and computes (`Pack`, `OtherTool`, `Sign` fill `job`), the file is
truncated and part of it written (`Write`), all of it is (`Written`). Between any two
of them the process may be killed and the other signers read the file; `_cmd_sign`
takes no lock and writes in place. `init` writes its two files in two steps. The author
edits any file between commands and adds strays, and `OtherTool` packs whatever is
there, also what pack would drop: signatures, strays, signers' files without an
envelope. What `unpack` does inside is the business of
`TwoPass`, `NewDestination` and `Replacement`; here it puts a readable archive into
an empty directory. Two writes do not overlap, so an archive is never a mixture of two.

## 3. Runs

| Run | Asks | Bounds |
|---|---|---|
| `replacement` | originals held, leftovers and the backup named, undone, a completed merge whole, foreign files kept, the call ends, `AtomicMerge` implemented | a directory, a file in it and one beside it, one more slot; 3 failures or interrupts; 1 foreign entry |
| `placing` | migration: the old tree held, the next reader finds the old or the new whole; unpack: `Publication` implemented; both: what stays behind is named and nothing else stays | migration: 2 calls, forced or not, directories and archives, 3 failures, interrupts or kills, 1 foreign entry; unpack: 2 calls, 2 missing parents, 2 failures or interrupts, 1 foreign directory |
| `two_pass` | bounded reading, what is written and collected was checked, the tables decide collisions, a sound archive is unpacked | 11 names, 29 headers at every limit, 2 members and one too many, any second pass |
| `circuit` | the count is the presumption, the budget, one probe per window, a live endpoint closes the circuit | 2 threads, threshold 2, cooldown 2, 2 attempts, 1 broken transport, 2 flips |
| `extraction` | priming, what is owed, a pass run again completes, `PinnedExtraction` implemented | 1 or 2 workers, 2 questions of 2 sessions; 3 failed calls, failed appends, crashes or presses of Ctrl-C |
| `graded_run` | one experiment with its answers and claims attributed, refusals, completion, `BlindBatch` implemented | 3 experiments, both modes, 2 questions, 2 arms, 2 kills |
| `claims` | a history is one path, whatever the order of its lines; arm C surfaces the current value, misses only split pairs, and does not depend on the order of dated records; of packages, what verify accepts is signed over what it holds, is half made only behind the provenance, survives signing and repacking, is read alike by the external reader, and a notary's word binds one key | every history of up to 3 lines over 2 times; 4 lines of 2 subjects, 2 values, 2 instants and undated; any 3 imported records of 3 lineages that differ from the plain one in a field; packages of 2 claims, from nothing or from a valid draft, and one without claims but with strays and the file of a signer who has not signed: 1 edit (none of the last), init, new key, kill or second that passes, 2 signers and 3 keys, one signer through the library, 2 envelopes, 2 commands at a time |

Why the bounds are enough to be of use. A failure of the merge needs one fault,
a failure of its undo a second, and one of the clean-up a third; the tree has
each relation the code distinguishes (inside a made directory, beside it, not
in the archive). Of the archive, a collision takes two members and the name that is
tried next; a swap between the passes, two. A parent taken from under a call needs two calls and two levels,
one to be made by each. The destination of a migration is lost, if at all, by two
calls that both stop short, which takes two faults; the third lets a clean-up
fail as well. The circuit's errors need one thread in flight when another opens
it; an older failure that settles a probe needs two. A session behind the halt needs two
workers. A resume that repeats, loses or reorders work needs two kills and a
batch whose pinned order interleaves arms and questions. An order of lines that
differs from the order of time needs two of three lines swapped; with three
lines there is a fork, a gap and a forward reference. Four lines are an update, a
revert, an update after it and a rewording of any of them, which is as long as the
linker's two views of a subject take to differ and be read; subjects and values are
symmetric. Three records are two of one lineage, in either order, and a third that
either may beat. In the life of a package one edit is enough for each way a directory
can disagree with its manifest, its history or its signatures, and one kill for each
beginning of an archive; two signers are what it takes to read what the other is
writing, to tie in one second and to replace each other's envelope. Of the beginnings
of an archive, those that some check tells apart are kept: behind the manifest, before
everything, in a header and in the first data (`Beginnings`). Signing waits until the
directory has been left, because it does not read it. In this run two more bounds are
in `MCClaims`: `OtherTool` packs the directory with strays, what is signed and has none,
and what pack makes the same archive of (`OthersBounded`); and nothing is edited or killed
while that directory, or an archive of it, is about (`StrayedBounded`). So the beginnings
of an archive with a schema behind the provenance, or with a signer's file no
envelope names, occur as another command sees them that reads while it is being written; the
theorems are about `PackageLife` without these two bounds.

### Runs that end in a violation

Each checks one sentence of the repository taken literally. The `findings` of
`PROJECT.json` quote it.

| Run | The sentence | What the code does |
|---|---|---|
| `replacement_as_it_was` | an exception leaves the destination as it was, or the error names the backup | a failure between creating a placeholder and recording its identity leaves the empty file |
| `circuit_breaks` | the presumption is provisional | a probe whose transport raises a non-`OSError` leaves `_probing` set for good |
| `extraction_splice` | an append can never land on a torn row | after an append that failed half way, the next worker's append does |
| `import_order` | keeping whichever record arrived first makes retrieval depend on ingest order, which is forbidden | `created_at` is neither hashed nor compared, so of two records that differ in it the first decides which claim surfaces; `OrderFreeIfDated` of `claims` is the promise without that case |
| `graded_run_torn_record` | killed runs resume | a record torn by the kill is not readable again |

Smaller disagreements that the models show on the way, without a run of their
own: an older failure settles the probe that is out, and a second probe is sent;
a failed append leaves a key in the memo alone; Ctrl-C in the progress callback
does not drop the queue; a refused graded run has truncated the torn rows of
three files before its gates; the gates do not stop a second process with the
same settings; a graded run killed before its first row and a pass of another
extractor leave a directory that neither may use (`Split` in `GradedRun`);
a history is chained in the order of its lines though readers are
to sort it, and `prev_event_id` may name a later event; two archive migrations
that overlap share a draft, so the destination may hold half of one, and one
without force may replace the other's; after a rewording, an old wording of the
value that stands mints an edge between equal values (`Revert` in `Memory`), though
exact restatements of the standing value are to share a lineage; which claim an
ambiguity names first depends on the order of the candidates (`Residual`); a pair that
arm C merges beyond the labels may be one fact in two wordings, and not the
over-merging that the docstring of `cross_lineage_attribution` takes it for;
`pack` promises an error "on any inconsistency detectable at pack time"
(`packer.py`) and looks at fewer than verify does, so it packs what verify
refuses; `sig_pack.py` promises byte-identical repacking, and two envelopes of one
signer and second keep the order they came in; `spec/v0.5-signer-trust.md` calls
signatures append-only, and two signers at once, a torn write, or unpack and
pack lose envelopes, as does a signature on top of a beginning without them,
while a signer who returns with a new key makes his older envelope invalid; an archive cut between two members reads as a shorter one, and one
cut in a later header is refused by unpack and read by sign; `spec/packaging.md` (9-18) lists
LICENSE and `schemas/*.json` among the members, and a manifest may name another
`notice_path` (`validator.py:188`), but pack writes NOTICE alone of such files, so unpack
and pack lose them without a word (`RoundTrip` says what stays); an archive cut behind the
provenance, before its schemas or a signer's file nothing names, is accepted, if it is
signed in that state also with `--require-signed` (`HalfMadeRefused` says what may be
missing); an archive migration that is interrupted right after `os.replace` raises though the
destination has the new archive (`NextReaderFinds` says so); `external_reader.py`
says of a manifest with a claim that has no events that the packer refuses it too,
where it is verify that does (the reader's own text on the asymmetry says so).

### Fairness

`Replacement`: weak fairness of the merge's own steps; it is one sequential
program, and nobody has to make it fail. `EndpointCircuit`: the clock, and each
thread by itself, since an operating system schedules every thread and a request
has a socket timeout. `Extraction`: each worker, the main thread, and an operator
who runs again a pass that did not complete; nothing makes a failure, a crash or
an interrupt happen. `GradedRun`: the steps of a running pass, and strong
fairness of starting the graded run of each experiment, because another pass may
be running when the operator looks.

## 4. Proofs

`Replacement_proofs` proves, for every tree, aliasing, number of failures and
number of foreign entries (`EntriesAssumption` is all that is assumed):

- `TypeCorrect`: `Spec => []TypeOK`;
- `NoOriginalLost`: `Spec => []OriginalsHeld`, the promise the module exists for:
  until every entry is in place, each entry the call found is in the
  destination or in the backup, whatever failed;
- `CompletedIsWhole`: `Spec => []Whole`: a merge that completed has every entry
  at its own slot and kept everything else, even where two names reach one slot.

`OriginalsHeld` is not inductive: that a rename does not overwrite an original
depends on why the code believed the target free. The invariant `IInv` adds:
what a step of the log says about the slot it names (`LogInv`); that the entry
in hand has no record yet (`ControlInv`, `ApartInv`); that an entry this call
put in place is remembered in `placed`, so a second name of it is refused
before it is moved aside (`PlacedInv`); that what was moved aside came from its
own slot and only its own restore puts anything back (`MovedInv`); and that
directories are never moved aside, so a restore never meets one of the originals
(`DirInv`). One lemma per action shows that it keeps `IInv`; `NextKeeps` joins
them, and `Inductive` is the temporal step.

`Whole` rests on a second invariant over `IInv`, `WholeInv`: while the merge goes
forward, every entry before the one in hand is settled (the file at its slot, or
a directory there), and a slot no entry names holds what it held. A second name
of one slot cannot break it: `placed` remembers what the first put there and the
merge refuses to move it, so from then on the entry in hand has a slot no earlier
entry has.

From there the undo and the refinement follow, under the same assumption:

- `AtomicMergeImplemented`: `Spec => ImplementsAtomicMerge`: whatever fails, is
  interrupted or is put there by others, the merge is the all-or-nothing update;
- `LeftoversAreNamed`: `Spec => []LeftoversNamed`;
- `UndonePutsBack`: `Spec => []Undone`;
- `ForeignAreKept`: `Spec => ForeignFilesKept`.

The simulation rests on the two invariants above and on `SweptInv` (staging, and the
backup in it, is swept only when the backup holds nothing), and on that one step moves
an original of one slot only, so that every other slot stutters. `LeftoversNamed` takes that what this call made is on its record and
that what it took the place of is in the backup (`RecordInv`, `ToldInv`). For `Undone`
the invariant `BackInv` follows the undo through the log backwards: the steps not yet
reached are as they were made, those passed are undone, and `Halfway` says it of the
step in hand, between its two renames. `OursInv` tells this call's entries from
foreign ones, so that only a rename onto a slot whose look is out of date can hit one.

`NewDestination_proofs` proves, for every number of calls, levels, faults and
directories made by others (the second under `CallersAssumption`, for `Levels`):

- `PublicationImplemented`: `Spec => ImplementsPublication`;
- `OthersAreKept`: `CallersAssumption => (Spec => OthersParentsKept)`;
- `ParentsAreRemoved`: `CallersAssumption => (Spec => []ParentsRemoved)`;
- `LeftoversAreNamed`: `Spec => []LeftoversNamed`.

`Whereabouts` is what the refinement rests on: in a call that failed, the tree is in
place exactly if the rename is on record and the staging directory is gone, which is
what the code looks at (`Judge`). Every other action has to keep that, and so has to
keep the record and the staging name in step. `MadeInv` says of each parent on a
call's record that it is there and its own, or that a mkdir of it never came back; the
second case has to name a call that makes no more parents (`Gone`), or the next mkdir
of the same parent would take the witness away. That the innermost parent is one on
record is the lemma `Greatest`, from the library's well-founded induction.
`ParentsRemoved` speaks of a call alone on the path; `AloneInv` says that while nobody
else is there, the parents it made are the ones on its record that are there, and that
its clean-up, which goes from the innermost outwards, has left none behind it.

`Placing_proofs` proves of `Migration`, for every number of calls, faults and foreign entries
(`MigrationAssumption`; it takes the names of the calls apart from the other objects):

- `OldIsHeld`: `Spec => []OldHeld`;
- `ReaderFinds`: `Spec => []NextReaderFinds`;
- `LeftoversAreNamed`: `Spec => []LeftoversNamed`.

`Base` joins the types, what each program counter says of a call's own names, and
that two calls which run at once are both in `met`. `OldInv` says what `OldHeld`
says of two calls that stop short, and why a move back cannot take the old tree away:
a call whose own tree has left staging finds the old one at the path only if another
call put it there. `ReaderFinds` has one invariant for each kind. For a directory,
`Phase` says where the tree that is in place for good is at each step of the one call that runs
(`Kept` before the swap, `Swapped` between its renames); for an archive, `DraftInv`
says that the draft is the writer's own file and never the one at the destination, which
holds what the last call that replaced it wrote, whether it returned or not.
Both hold only while nothing has overlapped and nothing was left over (`Calm`), and
`CalmBefore` shows that this was so at every earlier state too.

It then proves of `MCPlacing` what its run checks. A placing is a migration (`IsMigration`)
and it is an unpack (`IsUnpack`), since each part's steps leave the other's variables
alone, so the theorems of both parts hold of it: `PlacingHoldsOld`, `PlacingReaderFinds`,
`PlacingKeepsParents`, `PlacingPublishes`, and `NothingIsUnnamed`:
`PlacingSpec => []NothingUnnamed`, which joins the leftovers of the one and the
leftovers and parents of the other.

`GradedRun_proofs` proves, for all settings, extractors, questions, arms and orders of
judgement, with passes of both modes that are killed anywhere (each theorem assumes
`Procs = {p}`: passes over one directory take turns):

- `Inductive`: `Spec => []IInv`;
- `OneExperimentHolds`: `Spec => []OneExperiment`;
- `RefusedLeavesRows`: `Spec => []RefusedKeepsRows`;
- `BatchImplemented`: `Spec => ImplementsBlindBatch`.

`IInv` relates the files of the directory to what a pass has read of them: which
records there can be (`FilesOK`) and what the program counter of a pass says of them
(`PassesOK`), that a row is written once (`Once`) and from the extraction of its
question (`Derived`), that rows are of the experiment the directory's record names
(`Named`), that a pass writes only behind its gates (`Gated`), that what it believes
done is what the files hold (`Recalled`), and that judgements follow the pinned order
(`InOrder`). A pass decides from what it read when it started; `Gated` and `Recalled`
say that this is still true when it writes, which is where passes that take turns is
used.

`EndpointCircuit_proofs` proves, for every number of threads, threshold,
cooldown and number of attempts (`CircuitAssumption`):

- `PresumptionHolds`: `Spec => [](TypeOK /\ Presumption)`;
- `BudgetHolds`: `Spec => []BudgetIsTheEndpoints`: what a dead endpoint costs does
  not grow with the number of questions;
- `ProbesAreApart`: `Spec => ProbesApart`: a probe waits for a whole window, also behind
  one that another attempt's failure settled.

The budget is a count over the threads, so its invariant is one too: the
failures already recorded and the attempts that were let through while the
circuit was closed and are still out (`Counted`) bound what was paid. `IInv`
adds to `TypeOK` and `Presumption` which threads may be in flight (`InFlight`)
and that bound (`BudgetInv`); the lemmas on cardinality say how a thread that
joins or leaves `Counted` moves it. `WindowInv` is what keeps probes apart: an open
circuit with no probe on record has been dark no longer than the last probe is ago.

`TwoPass_proofs` proves, for every policy, set of names, keys, archive and
interleaving with whoever rewrites the archive (`TwoPassAssumption`):

- `HandedIsBounded`: `Spec => []HandedBounded`, the number of bytes that the
  documentation of `unpack` states;
- `NamesAreApart`: `Spec => []NamesApart`: the tables refuse exactly what collides;
- `WrittenIsChecked`: `Spec => []WrittenWasChecked`;
- `CollectedAsWritten`: `Spec => []CollectedIsWritten`;
- `KeptAreUnpacked`: `Spec => []KeptIsUnpacked`: the checks refuse no archive that keeps
  to the rules, and the second pass nothing that the first let through.

The bound counts: every accepted member accounts for its declared data, its header
allowance and less than a block of padding (`Accounted`), global headers come on
top once, and both the limit and what was handed out stay within that, although the
second limit may be lower than the first. `Tables` says what the three tables of
`MemberNames` hold in terms of the members accepted; `TablesDecide` is then a matter
of sets. `OutInv` follows the second pass: the members before the one in hand are
placed (`Placed`), and every entry of staging comes from a checked member.
`CollectedAsWritten` needs all of them: only because no two checked members have one path
(`OneEach`) can the last member of a name be the one that was written.
`KeptAreUnpacked` is the converse of the others, that nothing is refused without cause.
`SteadyInv` says what holds while nobody touches the archive: what each pass noted is
what the headers say (`Follows`, offsets included), the counters of both passes are
those of the members met (`Counted`), and staging holds what the members done with stand
for and nothing else (`Staged`). `KeptPasses`, `NamePasses` and `WritePasses` then show
of each check that it passes. What the members declare together is a recursive
function, `Totals`; that it exists, grows and is kept by a longer archive is shown step
by step from the least-element lemma `FirstOfSome`.

`Extraction_proofs` proves, for every number of workers, questions, sessions, claims,
failed calls and appends, crashes and interrupts (`ExtractionAssumption`):

- `PrimedIsFile`: `Spec => []PrimedByFile`;
- `OwedAreNamed`: `Spec => []OwedIsNamed`;
- `PinnedImplemented`: `Spec => ImplementsPinnedExtraction`.

`IInv` has four parts besides the types: the rows of a question are those of its first
sessions, each primed with the rows before it (`FileInv`); no two workers have one
question (`Apart`); what a worker carries through a question is what the memo holds of
the sessions it has passed (`Walks`); and, while a process lives, the memo knows what
the file does, and beyond it only what a failed append left behind (`Memorised`), while
outcomes and events tell which questions are still owed (`PassInv`, `Told`). A crash
leaves the file alone, and a process that starts fills its memo from it. All but the
types is conditional on no row having been lost to a torn one (`spliced`), which the run
`extraction_splice` shows to happen.

`Claims_proofs` proves of the three parts of `MCClaims`, and `ClaimsAreThree` that a run
of it is a run of each of them:

- `HistoryIsOnePath`: `Chain!Spec => []OnePath`, for any number of lines and instants;
- of the arms, for any subjects, values, dates, number of lines and claims to import
  (`MemoryAssumption`):
  - `DeficitIsSplit`: `Spec => []DeficitIsFragmented`;
  - `NewestSurfaces`: `Spec => []CurrentSurfaces`: on every subject and at every instant
    arm C surfaces one lineage, with the value of the last line then true;
  - `ImportOrderIsFree`: `Spec => []OrderFreeIfDated`: imported records of one date for
    each lineage are remembered alike in any order;
- of packages, for every draft, set of edits, number of signers, keys and envelopes, with
  and without the cryptographic extra (`LifeAssumption`):
  - `SignedIsHeld`: `LifeSpec => []VouchedContent`: `sign` covers the hashes a manifest
    declares and verify compares those with the files, so that of an accepted package
    every signature is over the files;
  - `AttestedIsSigner`: `LifeSpec => []NotaryBound`: an attestation that resolves binds
    the very key the envelope was made with;
  - `PackedAgain`: `LifeSpec => []RoundTrip`: pack refuses no accepted archive, and what
    it makes of one is accepted with every member pack knows of (`PackKnows`) as it was;
  - `HalfIsRefused`: `LifeSpec => []HalfMadeRefused`: of an accepted archive that is half
    made nothing is missing up to the provenance, and, with signatures required, only what
    nothing names; a directory init left half way is accepted only without a history;
  - `SigningIsKept`: `NoRecord => (LifeSpec => []SigningKeeps)`: one signature more leaves
    the verdict good and every other envelope in place;
  - `ReaderIsPacker`: `LifeSpec => []ReadersAgree`: what verify accepts the external reader
    has an archive of, and pack's is the same.

The history. The checks of a history are local: one create, no two events with one
predecessor, a predecessor that is an earlier line. That they make one path is an
induction over its prefixes: a path that does not yet have every line can be
continued, because the first line it lacks names a predecessor that it has, and that one
can only be its last.

The memory. `MemoryInv` says of the linker that a lineage has one subject and value in its
frontmatter, that a body is settled as it was first read, and that the arms of
the passes that are over were given what was settled. What arm C merges or misses is then
decided by lineages and bodies alone.

What surfaces. `Query` speaks of positions in a sequence; `SurfacedIs` says of a sequence
with one claim of each lineage that what surfaces is a function of the set of its claims
(`AllSurfaced`). A store holds one claim of each lineage, one that came, and refuses just
when two that came are irreconcilable (`StoreHolds`, by induction over the claims added):
so of records that agree in their dates, any order leaves the same set, which is
`ImportOrderIsFree`. `NewestSurfaces` takes more: that only one claim of a subject is left
at any instant, and that it is the newest then true. `SurfaceInv` adds to `MemoryInv` what
the linker keeps true for it. The lines come in the order of their dates; the lineages of
one subject follow one another, each dated by the line that began it, unless it is the
first of its subject, and each retired by one that supersedes it, with a smaller number
(`Linked`); and the head of a subject, in both of the linker's tables, is what its last
line was settled with (`HeadsStand`). Neither of the last two is inductive alone: a new
lineage supersedes the head, and only because the head is the lineage of the last line
does every older one stay retired. TLC checked `SurfaceInv` on the instance of `claims`.

The packages. `SignedIsHeld`, `AttestedIsSigner` and `PackedAgain` hold of any archive that
verify accepts, once it is known to be a tree at
all: that names and contents have their shape is the invariant `TreesOK`
(`TreesAreTrees`), which says it of the directory, of the archive and of what every
command has computed. `TreesStep` shows for each action that it is kept, with a lemma
for what `pack`, `sign` and the author make of a tree. The rest is about the operators:
what each check that returned "OK" has
compared, one lemma for each, and from them the three facts of an accepted tree. For
`RoundTrip` it takes `HashesOK` to show that the hashes pack computes anew are the ones
that were there, and `FilesetOK` and `PathsOK` that it leaves no claim out; verify looks at
nothing that pack drops (`AcceptedPart`).

`HalfIsRefused` adds `HalvesOK`: whatever is in the archive is the beginning of a whole
tree in the order of the members (`HalfOf`), also when it was read half written and signed
by someone else: once the provenance is there, all before it is, and without it verify
refuses. What is missing where signatures are required is then behind the provenance and not
`signatures.jsonl`; it is no signer's file that an envelope names either, since verify has
found each of those (`AcceptedWhole`). Nothing is assumed of strays or of signers' files.
`SigningIsKept` adds `SignersOK`: what a signer holds is his envelope put into a tree he
has checked, with one of his keys. An envelope goes behind those that do not sort after it
(`PrecedingIs`: they are a prefix, since the lines found are in order), so the order
verify asks for is kept.

`ReaderIsPacker` compares two walks of one history. Verify sorts the events of each claim
and walks them apart; the reader sorts all events and walks all claims at once.
`CanonicalIs` says that the insertion sort gives the same events in strict order, given
that no two have one id, which verify has checked. `WalksAgree` then goes along
the reader's walk: what it has met of a claim is always a beginning of the claim's own
history, and its state of the claim is the one at the end of that beginning. A legal
history never passes through an illegal state (`LegalWalk`), and verify has found an event
of every claim, so the reader ends with none illegal and none new. That recursive
functions have the values their equations say is `Steps`, from the same `FirstOfSome`.

What is assumed. `MemoryAssumption` says that the bounds are numbers, that the absent
subject is none that is read, and that the claims to import are finitely many records with
a claim's fields, ids and dates being numbers. `LifeAssumption` says that drafts are trees
of the members of the format and of strays; that what the author
may enter are entries, and events whose ids and times are numbers, as `validator.py` checks
both fields; that a signer is not the number reserved for the packer and has an algorithm
that is registered; that keys parse, and suffice for each signer to have one of his own, as
`sign` makes them at random. TLC evaluates both in the run `claims`. `NoRecord` says that the
constants `Junk` and `Nothing` are no records; TLA+ leaves open what an unspecified constant
equals, and TLC's model values are different from every record.

Only model-checked: every liveness property (`Ends`, `Recovers`, `Resumes`, `Completes`),
which is beyond the prover, and the runs that end in a violation. Every other property of
a run that passes is stated by a theorem. TLC checked each inductive invariant on the bounds
of its run as well.

## 5. Not modelled, and the plan

Not modelled, for good: character-level encoders, the schema predicates of single
fields, formatting, statistics, cryptography, the other scripts. They have no control
for a state machine to check, and the repository's own tests compare bytes.

What is left:

1. The label pin and the gates of the metrics in `real_run.py`; the fallback judge
   of `clients.py`.
2. Proofs: the refinement of `BlindBatch` for two processes whose gates do not overlap.
