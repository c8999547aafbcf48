------------------------------ MODULE GradedRun -------------------------------
(***************************************************************************)
(* The graded run and the extraction pass over one output directory        *)
(* (execute and extract_only of                                    *)
(* src/benchmarks/longmemeval/real_run.py): the gates a pass meets before  *)
(* it may write, the durable rows it appends, what it reads back of an     *)
(* earlier pass, and the records it writes around them.  A pass may be     *)
(* killed before any write or in the middle of one, and be run again with  *)
(* the same or with other settings.                                        *)
(*                                                                         *)
(* A row that was torn by a kill is a flag on its file.  A question's      *)
(* sessions are extracted by one step here; Extraction has the detail.     *)
(***************************************************************************)
EXTENDS Naturals, FiniteSets, SequencesExt

CONSTANTS
  Procs,      \* processes given this output directory
  Settings,   \* what a manifest identifies: pins, slice, corpus, judge
  Extractor,  \* Extractor[s]: the part of s that decides an extraction row
  Modes,      \* the passes that are started, of "graded" and "extract"
  NQ,         \* number of questions
  Arms,       \* the arms, in the order they answer
  Order,      \* the pinned blind batch: <<question, arm>> slots
  Bodies,     \* what the extractor model may say of a question
  Texts,      \* Texts[q]: what the answering model may say to question q
  None, Torn, \* an absent record, and one that does not parse
  MaxKills    \* bound: kills

Questions == 1 .. NQ
ArmSet == Range(Arms)
Slots == Questions \X ArmSet

ASSUME GradedRunAssumption ==
  /\ NQ \in Nat \ {0} /\ MaxKills \in Nat
  /\ Modes \subseteq {"graded", "extract"}
  /\ DOMAIN Extractor = Settings /\ DOMAIN Texts = Questions
  /\ None # Torn /\ {None, Torn} \cap Settings = {} /\ None \notin Bodies
  /\ \A q \in Questions : \A b \in Bodies, t \in Texts[q] : None # [from |-> b, text |-> t]
  /\ Arms \in Seq(ArmSet) /\ Order \in Seq(Slots)
  /\ Range(Order) = Slots /\ Len(Order) = Cardinality(Slots)
  \* A row torn under another process's append is not modelled.
  /\ MaxKills = 0 \/ Cardinality(Procs) = 1

VARIABLES
  manifest,     \* manifest.json: the settings it records
  extractManifest, \* extract-manifest.json: the extractor it records
  identity,     \* extraction-identity.json: the extractor it records
  finished,     \* manifest.json says the run completed
  cache, claimRows, answers, verdicts, \* the rows of the four .jsonl files
  torn,         \* the files that end in a torn row
  scored,       \* metrics.json is there
  pc, run,      \* control of each process; its settings and mode
  minted,       \* it found no manifest of its own and will write one
  memo, seen,   \* its extractions and answers, by question and by slot
  judged,       \* the slots whose verdict it holds
  found,        \* the directory as a process found it, until its gates passed
  kills         \* how much of the bound is used

records == <<manifest, extractManifest, identity, finished>>
rows == <<cache, claimRows, answers, verdicts>>
directory == <<records, rows, torn, scored>>
memory == <<minted, memo, seen, judged>>
vars == <<directory, pc, run, memory, found, kills>>

Answers == UNION Range(Texts)

Blank == [q \in Questions |-> None]
Unseen == [k \in Slots |-> None]

Init ==
  /\ manifest = None /\ extractManifest = None /\ identity = None
  /\ finished = FALSE
  /\ cache = <<>> /\ claimRows = <<>> /\ answers = <<>> /\ verdicts = <<>>
  /\ torn = {} /\ scored = FALSE
  /\ pc = [p \in Procs |-> "idle"]
  /\ run = [p \in Procs |-> None]
  /\ minted = [p \in Procs |-> FALSE]
  /\ memo = [p \in Procs |-> Blank]
  /\ seen = [p \in Procs |-> Unseen]
  /\ judged = [p \in Procs |-> {}]
  /\ found = [p \in Procs |-> None]
  /\ kills = 0

\* What the files say of a question or a slot: a later row hides an earlier.
BodyOnFile(q) ==
  LET of == {i \in DOMAIN cache : cache[i].q = q}
  IN  IF of = {} THEN None ELSE cache[Max(of)].body

SaidOnFile(k) ==
  LET of == {i \in DOMAIN answers : answers[i].slot = k}
  IN  IF of = {} THEN None ELSE [from |-> answers[Max(of)].from, text |-> answers[Max(of)].text]

Goto(p, l) == pc' = [pc EXCEPT ![p] = l]
Graded(p) == run[p].mode = "graded"
Mine(p) == Extractor[run[p].by]

-----------------------------------------------------------------------------
(* Starting, and the gates.                                                *)

Launch(p, s, m) ==
  /\ pc[p] = "idle"
  /\ run' = [run EXCEPT ![p] = [by |-> s, mode |-> m]]
  /\ found' = [found EXCEPT ![p] = directory]
  /\ Goto(p, IF m = "graded" THEN "repair" ELSE "manifest")
  /\ UNCHANGED <<directory, memory, kills>>

\* The graded run repairs the rows it may append to before any gate.
Repair(p) ==
  /\ pc[p] = "repair"
  /\ torn' = torn \ {"claims", "answers", "verdicts"}
  /\ Goto(p, "manifest")
  /\ UNCHANGED <<records, rows, scored, run, memory, found, kills>>

\* Seeded bug: any manifest of the directory is taken for this run's.
CheckManifestAny(p) ==
  /\ pc[p] = "manifest"
  /\ LET rec  == IF Graded(p) THEN manifest ELSE extractManifest
     IN  /\ minted' = [minted EXCEPT ![p] = rec = None]
         /\ Goto(p, IF rec # Torn THEN "identity" ELSE "refused")
  /\ UNCHANGED <<directory, run, memo, seen, judged, found, kills>>

\* Seeded bug: the manifest is written before the next gate has spoken.
CheckManifestMinting(p) ==
  /\ pc[p] = "manifest"
  /\ LET rec  == IF Graded(p) THEN manifest ELSE extractManifest
         mine == IF Graded(p) THEN run[p].by ELSE Mine(p)
     IN  /\ manifest' = IF Graded(p) /\ rec = None THEN mine ELSE manifest
         /\ Goto(p, IF rec \in {None, mine} THEN "identity" ELSE "refused")
  /\ UNCHANGED <<extractManifest, identity, finished, rows, torn, scored, run, memory, found,
                 kills>>

\* check_manifest: an existing record must agree, and must parse.
CheckManifest(p) ==
  /\ pc[p] = "manifest"
  /\ LET rec  == IF Graded(p) THEN manifest ELSE extractManifest
         mine == IF Graded(p) THEN run[p].by ELSE Mine(p)
     IN  /\ minted' = [minted EXCEPT ![p] = rec = None]
         /\ Goto(p, IF rec \in {None, mine} THEN "identity" ELSE "refused")
  /\ UNCHANGED <<directory, run, memo, seen, judged, found, kills>>

RowsOnDisk == cache # <<>> \/ "cache" \in torn

\* Seeded bug: rows on disk are refused even where the record agrees.
ReconcileStrict(p) ==
  /\ pc[p] = "identity"
  /\ IF identity = Torn \/ RowsOnDisk
       THEN Goto(p, "refused") /\ UNCHANGED identity
       ELSE Goto(p, "record") /\ identity' = Mine(p)
  /\ UNCHANGED <<manifest, extractManifest, finished, rows, torn, scored, run, memory, found,
                 kills>>

\* reconcile_extraction_identity: over rows on disk the record must be there
\* and agree; over none, it is written or replaced.
Reconcile(p) ==
  /\ pc[p] = "identity"
  /\ IF identity = Torn \/ (RowsOnDisk /\ identity # Mine(p))
       THEN Goto(p, "refused") /\ UNCHANGED identity
       ELSE Goto(p, "record") /\ identity' = Mine(p)
  /\ UNCHANGED <<manifest, extractManifest, finished, rows, torn, scored, run, memory, found,
                 kills>>

\* write_manifest, if there was none.
WriteManifest(p) ==
  /\ pc[p] = "record"
  /\ IF ~minted[p] THEN UNCHANGED records
     ELSE IF Graded(p)
       THEN manifest' = run[p].by /\ finished' = FALSE /\ UNCHANGED <<extractManifest, identity>>
       ELSE extractManifest' = Mine(p) /\ UNCHANGED <<manifest, identity, finished>>
  /\ found' = [found EXCEPT ![p] = None]
  /\ Goto(p, "load")
  /\ UNCHANGED <<rows, torn, scored, run, memory, kills>>

\* The cache is repaired only now, and what earlier passes left is read.
Load(p) ==
  /\ pc[p] = "load"
  /\ torn' = torn \ IF Graded(p) THEN {"cache", "answers", "claims"} ELSE {"cache"}
  /\ memo' = [memo EXCEPT ![p] = [q \in Questions |-> BodyOnFile(q)]]
  /\ seen' = [seen EXCEPT ![p] = [k \in Slots |-> IF Graded(p) THEN SaidOnFile(k) ELSE None]]
  /\ Goto(p, "answer")
  /\ UNCHANGED <<records, rows, scored, run, minted, judged, found, kills>>

-----------------------------------------------------------------------------
(* Answering.                                                              *)

Claimed(q) == \E r \in Range(claimRows) : r.q = q
Pending(p, q) == {i \in DOMAIN Arms : seen[p][<<q, Arms[i]>>] = None}

\* What is left to do: of an extraction pass, the questions not extracted; of
\* a graded run, those not answered by every arm, or without their claims.
Owed(p) ==
  {q \in Questions :
     IF Graded(p) THEN Pending(p, q) # {} \/ ~Claimed(q) ELSE memo[p][q] = None}

\* The question the pass is at: the first one owed.
At(p, q) == pc[p] = "answer" /\ q \in Owed(p) /\ \A r \in Owed(p) : q <= r

\* The shared extraction of a question, durable before any arm uses it.
Extract(p, q) ==
  /\ At(p, q) /\ memo[p][q] = None
  /\ \E b \in Bodies :
       /\ cache' = Append(cache, [q |-> q, by |-> Mine(p), body |-> b])
       /\ memo' = [memo EXCEPT ![p][q] = b]
  /\ UNCHANGED <<records, claimRows, answers, verdicts, torn, scored, pc, run, minted, seen,
                 judged, found, kills>>

\* The next arm without an answer on file answers.
Answer(p, q) ==
  /\ At(p, q) /\ Graded(p) /\ memo[p][q] # None
  /\ \E i \in Pending(p, q), t \in Texts[q] :
       /\ \A j \in Pending(p, q) : i <= j
       /\ LET k == <<q, Arms[i]>>
              row == [slot |-> k, by |-> run[p].by, from |-> memo[p][q], text |-> t]
          IN  /\ answers' = Append(answers, row)
              /\ seen' = [seen EXCEPT ![p][k] = [from |-> memo[p][q], text |-> t]]
  /\ UNCHANGED <<records, cache, claimRows, verdicts, torn, scored, pc, run, minted, memo,
                 judged, found, kills>>

\* The claims row of a question follows its answers.
WriteClaims(p, q) ==
  /\ At(p, q) /\ Graded(p) /\ memo[p][q] # None /\ Pending(p, q) = {}
  /\ claimRows' = Append(claimRows, [q |-> q, body |-> memo[p][q]])
  /\ UNCHANGED <<records, cache, answers, verdicts, torn, scored, pc, run, memory, found, kills>>

\* Every arm has answered every question (the missing-answer gate), or every
\* question is extracted.
Answered(p) ==
  /\ pc[p] = "answer" /\ Owed(p) = {}
  /\ Goto(p, IF Graded(p) THEN "verdicts" ELSE "finalize")
  /\ UNCHANGED <<directory, run, memory, found, kills>>

-----------------------------------------------------------------------------
(* Judging and scoring.                                                    *)

\* verify_verdict_prefix, verify_verdict_judge and verify_verdict_prompts.
Replayable(p) ==
  /\ Len(verdicts) <= Len(Order)
  /\ \A i \in DOMAIN verdicts :
       LET v == verdicts[i]
       IN  /\ v.slot = Order[i] /\ v.by = run[p].by
           /\ seen[p][v.slot] = [from |-> v.from, text |-> v.text]

LoadVerdicts(p) ==
  /\ pc[p] = "verdicts"
  /\ torn' = torn \ {"verdicts"}
  /\ IF Replayable(p)
       THEN Goto(p, "judge") /\ judged' = [judged EXCEPT ![p] = {v.slot : v \in Range(verdicts)}]
       ELSE Goto(p, "refused") /\ UNCHANGED judged
  /\ UNCHANGED <<records, rows, scored, run, minted, memo, seen, found, kills>>

\* Seeded bug: a resumed batch is judged in any order.
JudgeAnywhere(p) ==
  /\ pc[p] = "judge"
  /\ \E i \in DOMAIN Order :
       /\ Order[i] \notin judged[p]
       /\ LET k == Order[i]
          IN  /\ verdicts' = Append(verdicts, [slot |-> k, by |-> run[p].by,
                                               from |-> seen[p][k].from, text |-> seen[p][k].text])
              /\ judged' = [judged EXCEPT ![p] = @ \cup {k}]
  /\ UNCHANGED <<records, cache, claimRows, answers, torn, scored, pc, run, minted, memo, seen,
                 found, kills>>

\* The first slot of the pinned order without a verdict is judged.
Judge(p) ==
  /\ pc[p] = "judge"
  /\ \E i \in DOMAIN Order :
       /\ Order[i] \notin judged[p] /\ \A j \in 1 .. i - 1 : Order[j] \in judged[p]
       /\ LET k == Order[i]
          IN  /\ verdicts' = Append(verdicts, [slot |-> k, by |-> run[p].by,
                                               from |-> seen[p][k].from, text |-> seen[p][k].text])
              /\ judged' = [judged EXCEPT ![p] = @ \cup {k}]
  /\ UNCHANGED <<records, cache, claimRows, answers, torn, scored, pc, run, minted, memo, seen,
                 found, kills>>

\* Every verdict is replayed against its payload and the metrics are written.
Score(p) ==
  /\ pc[p] = "judge" /\ judged[p] = Slots
  /\ scored' = TRUE
  /\ Goto(p, "finalize")
  /\ UNCHANGED <<records, rows, torn, run, memory, found, kills>>

Leave(p) ==
  /\ Goto(p, "idle")
  /\ run' = [run EXCEPT ![p] = None]
  /\ minted' = [minted EXCEPT ![p] = FALSE]
  /\ memo' = [memo EXCEPT ![p] = Blank]
  /\ seen' = [seen EXCEPT ![p] = Unseen]
  /\ judged' = [judged EXCEPT ![p] = {}]
  /\ found' = [found EXCEPT ![p] = None]

\* finalize_manifest rewrites the record of the pass.
Finalize(p) ==
  /\ pc[p] = "finalize"
  /\ IF Graded(p)
       THEN manifest' = run[p].by /\ finished' = TRUE /\ UNCHANGED extractManifest
       ELSE extractManifest' = Mine(p) /\ UNCHANGED <<manifest, finished>>
  /\ UNCHANGED <<identity, rows, torn, scored, kills>>
  /\ Leave(p)

Dismiss(p) == pc[p] = "refused" /\ Leave(p) /\ UNCHANGED <<directory, kills>>

-----------------------------------------------------------------------------
(* A kill, or an error that ends the process: before the next write, or in *)
(* the middle of it.  An append leaves a torn row; a record that is        *)
(* rewritten in place no longer parses.                                    *)

Appending(p) ==
  CASE pc[p] = "answer" -> IF Graded(p) THEN {"cache", "answers", "claims"} ELSE {"cache"}
    [] pc[p] = "judge" -> {"verdicts"}
    [] OTHER -> {}

\* The file of the row the pass is about to append.
Writing(p) ==
  {f \in Appending(p) :
     \/ f = "verdicts"
     \/ \E q \in Questions :
          /\ At(p, q)
          /\ f = IF memo[p][q] = None THEN "cache"
                 ELSE IF Pending(p, q) # {} THEN "answers" ELSE "claims"}

Kill(p) ==
  /\ pc[p] \notin {"idle", "refused"} /\ kills < MaxKills
  /\ kills' = kills + 1
  /\ \/ UNCHANGED <<records, torn>>
     \/ \E f \in Writing(p) : torn' = torn \cup {f} /\ UNCHANGED records
     \/ /\ pc[p] = "identity" /\ identity # Mine(p) /\ identity # Torn /\ ~RowsOnDisk
        /\ identity' = Torn /\ UNCHANGED <<manifest, extractManifest, finished, torn>>
     \/ /\ pc[p] = "finalize" \/ (pc[p] = "record" /\ minted[p])
        /\ IF Graded(p) THEN manifest' = Torn /\ finished' = FALSE /\ UNCHANGED extractManifest
           ELSE extractManifest' = Torn /\ UNCHANGED <<manifest, finished>>
        /\ UNCHANGED <<identity, torn>>
  /\ Leave(p)
  /\ UNCHANGED <<rows, scored>>

Step(p) ==
  \/ Repair(p) \/ CheckManifest(p) \/ Reconcile(p) \/ WriteManifest(p) \/ Load(p)
  \/ \E q \in Questions : Extract(p, q) \/ Answer(p, q) \/ WriteClaims(p, q)
  \/ Answered(p) \/ LoadVerdicts(p) \/ Judge(p) \/ Score(p) \/ Finalize(p) \/ Dismiss(p)

Next ==
  \E p \in Procs :
    \/ Step(p) \/ Kill(p)
    \/ \E s \in Settings, m \in Modes : Launch(p, s, m)

Spec == Init /\ [][Next]_vars

\* A pass that runs goes on, and the graded run is started again whenever no
\* pass runs.
FairSpec ==
  /\ Spec
  /\ \A p \in Procs :
       /\ WF_vars(Step(p))
       /\ \A s \in Settings : SF_vars(Launch(p, s, "graded"))

-----------------------------------------------------------------------------

\* Every extraction row on file was made by the extractor the identity record
\* names, also where passes of different settings shared the directory
\* (reconcile_extraction_identity).
CacheAttributed == \A r \in Range(cache) : r.by = identity

\* All that is on file of a question, each arm's answer and its claims row,
\* derives from one extraction of it, however often the run was resumed.
ClaimsShared ==
  \A r \in Range(answers) :
    /\ \E c \in Range(cache) : c.q = r.slot[1] /\ c.body = r.from
    /\ \A s \in Range(answers) : s.slot[1] = r.slot[1] => s.from = r.from
    /\ \A c \in Range(claimRows) : c.q = r.slot[1] => c.body = r.from

\* Whatever passes were started and killed, the rows of a directory come from
\* one experiment, the one its records name, and those of a question from one
\* extraction (check_manifest, reconcile_extraction_identity).
OneExperiment ==
  /\ CacheAttributed
  /\ ClaimsShared
  /\ \A r \in Range(answers) \cup Range(verdicts) :
       manifest \in {r.by, Torn} /\ Extractor[r.by] = identity

\* A refused pass leaves every row, record and torn extraction as it found
\* them (the order of the gates in execute and extract_only).
RefusedKeepsRows ==
  \A p \in Procs :
    pc[p] = "refused" /\ found[p] # None =>
      /\ found[p][1] = records /\ found[p][2] = rows
      /\ "cache" \in found[p][3] <=> "cache" \in torn

\* The module's docstring, taken literally: a run that was killed is resumed
\* where it stopped.  (With one setting nothing may refuse it.)
ResumeAccepted == \A p \in Procs : pc[p] # "refused"

\* A graded run recorded its manifest and was killed before any row, and a pass
\* of another extractor took the cache: neither experiment is accepted any more.
Split == manifest \in Settings /\ identity \in Range(Extractor) \ {Extractor[manifest]}

\* Passes started again and again, of any settings and in both modes, complete
\* the run, unless a kill tore one of the records or left them to two
\* experiments.
Completes == <>(finished \/ Torn \in {manifest, identity} \/ Split)

-----------------------------------------------------------------------------
(* The directory of one process implements the blind batch.                *)

Batch == INSTANCE BlindBatch WITH
  Arms <- ArmSet, Texts <- Answers,
  body <- [q \in Questions |-> BodyOnFile(q)],
  answer <- [k \in Slots |-> SaidOnFile(k)],
  judged <- [i \in DOMAIN verdicts |-> [from |-> verdicts[i].from, text |-> verdicts[i].text]]
ImplementsBlindBatch == Batch!Spec

=============================================================================
