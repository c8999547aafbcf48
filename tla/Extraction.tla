----------------------------- MODULE Extraction -----------------------------
(***************************************************************************)
(* The extraction pass of the benchmark harness and its resumption:        *)
(* extract_questions and _extract_question over one ExtractionCache, whose *)
(* rows a JsonlWriter appends and repair_jsonl repairs                     *)
(* (src/benchmarks/longmemeval/real_run.py).  Workers walk one question    *)
(* each; the process may crash, a model call or an append may fail, and    *)
(* the operator may press Ctrl-C.                                          *)
(*                                                                         *)
(* A row is what the cache file holds for one session, with the claims its *)
(* prompt was primed with; nothing reads how the rows of two questions     *)
(* interleave in the file.  The index is the cache in memory.              *)
(***************************************************************************)
EXTENDS Naturals, Sequences, FiniteSetsExt

CONSTANTS
  Worker,      \* threads of the pool; one worker runs on the main thread
  Questions,   \* number of questions, 1..Questions in pinned order
  Sessions,    \* sessions of each question
  Claim,       \* what the model may answer for one session
  None,        \* no claim
  MaxFaults    \* bound: model calls and appends that fail, crashes, and
               \* presses of Ctrl-C

Question == 1 .. Questions
Session == 1 .. Sessions

ASSUME ExtractionAssumption ==
  /\ IsFiniteSet(Worker) /\ Worker # {}
  /\ Questions \in Nat /\ Sessions \in Nat \ {0}
  /\ None \notin Claim
  /\ MaxFaults \in Nat

VARIABLES
  rows,     \* rows[q]: the whole rows of question q in the cache file
  tail,     \* how the file ends: "whole" or with a "torn" row
  spliced,  \* a terminated row in the file does not parse
  index,    \* _records
  run,      \* the process
  next,     \* next question to hand out
  halt, interrupted, \* the two events of extract_questions
  dropped,  \* the pool's queue was cancelled
  crew,     \* the workers this process was started with
  at,       \* what each worker does
  job,      \* the question it walks
  walked,   \* the claims of the sessions it has walked
  answer,   \* the claim it is about to record
  outcome,  \* the outcome of each question
  faults,    \* use of the bound
  short     \* history: an append has failed

disk == <<rows, tail, spliced>>
pass == <<run, next, halt, interrupted, dropped, crew, outcome>>
walk == <<at, job, walked, answer>>
bounds == <<faults, short>>
vars == <<disk, index, pass, walk, bounds>>

Blank == [q \in Question |-> [s \in Session |-> None]]

\* What a new process has in memory.
Forget ==
  /\ index' = Blank
  /\ next' = 1 /\ halt' = FALSE /\ interrupted' = FALSE /\ dropped' = FALSE /\ crew' = {}
  /\ at' = [w \in Worker |-> "free"]
  /\ job' = [w \in Worker |-> 0]
  /\ walked' = [w \in Worker |-> <<>>]
  /\ answer' = [w \in Worker |-> None]
  /\ outcome' = [q \in Question |-> "none"]

Init ==
  /\ rows = [q \in Question |-> <<>>] /\ tail = "whole" /\ spliced = FALSE
  /\ run = "down"
  /\ index = Blank
  /\ next = 1 /\ halt = FALSE /\ interrupted = FALSE /\ dropped = FALSE /\ crew = {}
  /\ at = [w \in Worker |-> "free"]
  /\ job = [w \in Worker |-> 0]
  /\ walked = [w \in Worker |-> <<>>]
  /\ answer = [w \in Worker |-> None]
  /\ outcome = [q \in Question |-> "none"]
  /\ faults = 0 /\ short = FALSE

-----------------------------------------------------------------------------
(* The process starts: the file is repaired and read.                      *)

\* What the rows say; a later row of a session wins.
Memo ==
  [q \in Question |-> [s \in Session |->
     LET mine == {k \in DOMAIN rows[q] : rows[q][k].s = s}
     IN  IF mine = {} THEN None ELSE rows[q][Max(mine)].claim]]

\* Seeded bug: the torn row is read around but left in the file.
StartUnrepaired ==
  /\ run \in {"down", "raised"} /\ ~spliced
  /\ run' = "running"
  /\ index' = Memo
  /\ next' = 1 /\ halt' = FALSE /\ interrupted' = FALSE /\ dropped' = FALSE
  /\ crew' \in (SUBSET Worker) \ {{}}
  /\ outcome' = [q \in Question |-> "none"]
  /\ UNCHANGED <<disk, walk, bounds>>

\* repair_jsonl truncates a torn row, read_jsonl fills the index.
Start ==
  /\ run \in {"down", "raised"} /\ ~spliced
  /\ run' = "running"
  /\ tail' = "whole"
  /\ index' = Memo
  /\ next' = 1 /\ halt' = FALSE /\ interrupted' = FALSE /\ dropped' = FALSE
  /\ crew' \in (SUBSET Worker) \ {{}}
  /\ outcome' = [q \in Question |-> "none"]
  /\ UNCHANGED <<rows, spliced, walk, bounds>>

\* CorruptRowError: a terminated row that does not parse is never skipped.
Refuse ==
  /\ run \in {"down", "raised"} /\ spliced
  /\ run' = "refused"
  /\ UNCHANGED <<disk, index, next, halt, interrupted, dropped, crew, outcome, walk, bounds>>

-----------------------------------------------------------------------------
(* One worker.                                                             *)

Fault == faults < MaxFaults /\ faults' = faults + 1

FullyCached(q) == \A s \in Session : index[q][s] # None

\* Seeded bug: behind the halt the cache is not looked at.
TakeHaltedBlind(w) ==
  /\ run = "running" /\ w \in crew /\ at[w] = "free" /\ next <= Questions /\ ~dropped /\ halt
  /\ outcome' = [outcome EXCEPT ![next] = "unstarted"]
  /\ next' = next + 1
  /\ UNCHANGED <<disk, index, run, halt, interrupted, dropped, crew, walk, bounds>>

\* run(): a question behind the halt is not walked.
TakeHalted(w) ==
  /\ run = "running" /\ w \in crew /\ at[w] = "free" /\ next <= Questions /\ ~dropped /\ halt
  /\ outcome' = [outcome EXCEPT ![next] = IF FullyCached(next) THEN "cached" ELSE "unstarted"]
  /\ next' = next + 1
  /\ UNCHANGED <<disk, index, run, halt, interrupted, dropped, crew, walk, bounds>>

Skip(w) ==
  /\ run = "running" /\ w \in crew /\ at[w] = "free" /\ next <= Questions /\ ~dropped /\ ~halt
  /\ FullyCached(next)
  /\ outcome' = [outcome EXCEPT ![next] = "skipped"]
  /\ next' = next + 1
  /\ UNCHANGED <<disk, index, run, halt, interrupted, dropped, crew, walk, bounds>>

\* A question is walked from its first session, however much is memoised.
Take(w) ==
  /\ run = "running" /\ w \in crew /\ at[w] = "free" /\ next <= Questions /\ ~dropped /\ ~halt
  /\ ~FullyCached(next)
  /\ at' = [at EXCEPT ![w] = "walk"]
  /\ job' = [job EXCEPT ![w] = next]
  /\ walked' = [walked EXCEPT ![w] = <<>>]
  /\ next' = next + 1
  /\ UNCHANGED <<disk, index, run, halt, interrupted, dropped, crew, outcome, answer, bounds>>

Here(w) == Len(walked[w]) + 1

\* A memoised session adds its claims to the vocabulary of the later ones.
Replay(w) ==
  /\ at[w] = "walk" /\ Here(w) <= Sessions
  /\ index[job[w]][Here(w)] # None
  /\ walked' = [walked EXCEPT ![w] = Append(@, index[job[w]][Here(w)])]
  /\ UNCHANGED <<disk, index, pass, at, job, answer, bounds>>

\* Seeded bug: the memo is not consulted.
AskAgain(w) ==
  /\ at[w] = "walk" /\ Here(w) <= Sessions
  /\ at' = [at EXCEPT ![w] = "ask"]
  /\ UNCHANGED <<disk, index, pass, job, walked, answer, bounds>>

Ask(w) ==
  /\ at[w] = "walk" /\ Here(w) <= Sessions
  /\ index[job[w]][Here(w)] = None
  /\ at' = [at EXCEPT ![w] = "ask"]
  /\ UNCHANGED <<disk, index, pass, job, walked, answer, bounds>>

\* The model answers the prompt primed with the claims walked so far.
Answer(w) ==
  /\ at[w] = "ask"
  /\ \E c \in Claim : answer' = [answer EXCEPT ![w] = c]
  /\ at' = [at EXCEPT ![w] = "put"]
  /\ UNCHANGED <<disk, index, pass, job, walked, bounds>>

\* The question fails, and the pass stops handing questions out.
FailQuestion(w) ==
  /\ outcome' = [outcome EXCEPT ![job[w]] = "failed"]
  /\ halt' = TRUE
  /\ at' = [at EXCEPT ![w] = "free"]
  /\ answer' = [answer EXCEPT ![w] = None]
  /\ UNCHANGED <<run, next, interrupted, dropped, crew, job, walked>>

AskFails(w) ==
  /\ at[w] = "ask" /\ Fault
  /\ FailQuestion(w)
  /\ UNCHANGED <<disk, index, short>>

Remember(w) == index' = [index EXCEPT ![job[w]][Here(w)] = answer[w]]

\* Seeded bug: the vocabulary of the first question is never left.
NewRowShared(w) ==
  [s |-> Here(w), claim |-> answer[w],
   primed |-> IF job[w] = 1 THEN walked[w]
                ELSE [k \in DOMAIN rows[1] |-> rows[1][k].claim] \o walked[w]]

NewRow(w) ==
  [s |-> Here(w), claim |-> answer[w], primed |-> walked[w]]

\* A row that lands on a torn tail does not become one of its own.
WriteRow(w) ==
  IF tail = "torn"
    THEN spliced' = TRUE /\ tail' = "whole" /\ UNCHANGED rows
    ELSE rows' = [rows EXCEPT ![job[w]] = Append(@, NewRow(w))] /\ UNCHANGED <<tail, spliced>>

\* ExtractionCache.put under its lock: index, then the appended row.
Put(w) ==
  /\ at[w] = "put"
  /\ Remember(w)
  /\ WriteRow(w)
  /\ walked' = [walked EXCEPT ![w] = Append(@, answer[w])]
  /\ answer' = [answer EXCEPT ![w] = None]
  /\ at' = [at EXCEPT ![w] = "walk"]
  /\ UNCHANGED <<pass, job, bounds>>

\* The append raises with nothing, part or (a failed fsync) all of the row
\* written; the index keeps what was put there.
PutFails(w) ==
  /\ at[w] = "put" /\ Fault
  /\ short' = TRUE
  /\ Remember(w)
  /\ WriteRow(w) \/ (tail' \in {tail, "torn"} /\ UNCHANGED <<rows, spliced>>)
  /\ FailQuestion(w)

Finish(w) ==
  /\ at[w] = "walk" /\ Here(w) > Sessions
  /\ outcome' = [outcome EXCEPT ![job[w]] = "done"]
  /\ at' = [at EXCEPT ![w] = "free"]
  /\ UNCHANGED <<disk, index, run, next, halt, interrupted, dropped, crew, job, walked, answer, bounds>>

-----------------------------------------------------------------------------
(* The pass.                                                               *)

Idle == \A w \in Worker : at[w] = "free"

\* The pass has drained: failures or a Ctrl-C are raised now.
Return ==
  /\ run = "running" /\ Idle /\ (next > Questions \/ dropped)
  /\ run' = IF interrupted \/ \E q \in Question : outcome[q] = "failed"
              THEN "raised" ELSE "complete"
  /\ UNCHANGED <<disk, index, next, halt, interrupted, dropped, crew, outcome, walk, bounds>>

Serial == Cardinality(crew) = 1

\* One worker: the first Ctrl-C stops the pass at the question boundary.
InterruptSerial ==
  /\ run = "running" /\ Serial /\ ~interrupted /\ Fault
  /\ interrupted' = TRUE /\ halt' = TRUE
  /\ UNCHANGED <<disk, index, run, next, dropped, crew, outcome, walk, short>>

\* More workers: it lands in the main thread while that drains the pool.
\* Waiting for a result, the iterator cancels the queue; in the progress
\* callback of an outcome, the iterator is still referenced and does not.
InterruptPool ==
  /\ run = "running" /\ ~Serial /\ ~interrupted /\ Fault
  /\ interrupted' = TRUE
  /\ \/ dropped' = TRUE
     \/ outcome[1] \notin {"none", "unstarted"} /\ dropped' = FALSE
  /\ UNCHANGED <<disk, index, run, next, halt, crew, outcome, walk, short>>

\* The process dies, in the middle of a write if one is under way; a second
\* Ctrl-C of a serial pass does the same.
Die ==
  /\ run = "running"
  /\ run' = "down"
  /\ \/ UNCHANGED tail
     \/ (\E w \in Worker : at[w] = "put") /\ tail' = "torn"
  /\ Forget
  /\ UNCHANGED <<rows, spliced>>

Crash ==
  /\ Fault
  /\ Die
  /\ UNCHANGED short

InterruptAgain ==
  /\ Serial /\ interrupted /\ Fault
  /\ Die
  /\ UNCHANGED short

Over == run \in {"complete", "refused"} /\ UNCHANGED vars

Work(w) == TakeHalted(w) \/ Skip(w) \/ Take(w) \/ Replay(w) \/ Ask(w) \/ Answer(w)
             \/ AskFails(w) \/ Put(w) \/ PutFails(w) \/ Finish(w)
Main == Start \/ Refuse \/ Return
Next ==
  \/ Main \/ \E w \in Worker : Work(w)
  \/ InterruptSerial \/ InterruptPool \/ InterruptAgain \/ Crash
  \/ Over

Spec == Init /\ [][Next]_vars

\* Every thread runs, every model call returns, and the operator runs a pass
\* that did not complete again.
FairSpec == Spec /\ WF_vars(Main) /\ \A w \in Worker : WF_vars(Work(w))

-----------------------------------------------------------------------------

\* Every row was asked for with exactly the claims that the file holds for
\* the earlier sessions of its question, whatever was resumed and however
\* many workers ran (RealExtractor.vocabulary_before, _extract_question).
PrimedByFile ==
  ~spliced => \A q \in Question : \A k \in DOMAIN rows[q] :
    rows[q][k].primed = [j \in 1 .. rows[q][k].s - 1 |-> rows[q][j].claim]

\* A pass that ends on a failure names every question a re-run has to walk,
\* and no other: it failed or is listed as still to do; one that returns leaves
\* a row for every session (QuestionExtractionError.not_started, must_rerun).
OwedIsNamed ==
  /\ run = "complete" /\ ~spliced => \A q \in Question : Len(rows[q]) = Sessions
  /\ run = "raised" /\ ~interrupted /\ ~spliced =>
       \A q \in Question :
         IF Len(rows[q]) = Sessions
           THEN outcome[q] # "unstarted"
           ELSE outcome[q] \in {"failed", "unstarted"}

\* An append never lands on top of a torn row (JsonlWriter).
NoSplice == ~spliced

\* However passes fail, crash or are interrupted, running them again ends
\* with every session extracted, unless one landed on a row another failed at
\* (JsonlWriter: "this run is resumable").
Resumes == <>(run = "complete" \/ (short /\ spliced))

Pinned == INSTANCE PinnedExtraction
  WITH settled <- [q \in Question |-> [k \in DOMAIN rows[q] |-> rows[q][k].claim]]
ImplementsPinnedExtraction == Pinned!Spec

=============================================================================
