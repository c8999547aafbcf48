--------------------------- MODULE GradedRun_proofs ----------------------------
(***************************************************************************)
(* Proofs about GradedRun, for passes that take turns in one directory     *)
(* (Procs = {p}): any number of settings, extractors, questions and arms,  *)
(* any pinned order, and any number of kills.                              *)
(***************************************************************************)
EXTENDS GradedRun, FiniteSetTheorems, SequenceTheorems, TLAPS

Said == [from : Bodies, text : Answers]

States ==
  {"idle", "repair", "manifest", "identity", "record", "load", "answer", "verdicts", "judge",
   "finalize", "refused"}

FilesOK ==
  /\ manifest \in Settings \cup {None, Torn}
  /\ cache \in Seq([q : Questions, by : Range(Extractor), body : Bodies])
  /\ claimRows \in Seq([q : Questions, body : Bodies])
  /\ answers \in Seq([slot : Slots, by : Settings, from : Bodies, text : Answers])
  /\ verdicts \in Seq([slot : Slots, by : Settings, from : Bodies, text : Answers])

PassesOK ==
  /\ pc \in [Procs -> States]
  /\ run \in [Procs -> [by : Settings, mode : Modes] \cup {None}]
  /\ \A p \in Procs : pc[p] # "idle" => run[p] \in [by : Settings, mode : Modes]
  /\ minted \in [Procs -> BOOLEAN]
  /\ memo \in [Procs -> [Questions -> Bodies \cup {None}]]
  /\ seen \in [Procs -> [Slots -> Said \cup {None}]]
  /\ judged \in [Procs -> SUBSET Slots]
  /\ found = [p \in Procs |-> found[p]]

\* A question is extracted once and a slot answered once.
Once ==
  /\ \A i, j \in DOMAIN cache : cache[i].q = cache[j].q => i = j
  /\ \A i, j \in DOMAIN answers : answers[i].slot = answers[j].slot => i = j

\* What is on file of a question is of its one extraction.
Derived ==
  /\ \A i \in DOMAIN answers : BodyOnFile(answers[i].slot[1]) = answers[i].from
  /\ \A i \in DOMAIN claimRows : BodyOnFile(claimRows[i].q) = claimRows[i].body
  /\ verdicts # <<>> => cache # <<>>

\* The rows are those of the experiment the records name.
Named ==
  /\ \A i \in DOMAIN cache : cache[i].by = identity
  /\ \A i \in DOMAIN answers :
       manifest \in {answers[i].by, Torn} /\ Extractor[answers[i].by] = identity
  /\ \A i \in DOMAIN verdicts :
       manifest \in {verdicts[i].by, Torn} /\ Extractor[verdicts[i].by] = identity

Through == {"load", "answer", "verdicts", "judge", "finalize"}

\* What a pass may rely on behind its gates.
Gated(p) ==
  /\ pc[p] \in {"record"} \cup Through => identity = Mine(p)
  /\ Graded(p) /\ pc[p] \in {"identity", "record"} =>
       manifest = IF minted[p] THEN None ELSE run[p].by
  /\ Graded(p) /\ pc[p] \in Through => manifest = run[p].by
  /\ pc[p] \in {"verdicts", "judge"} => Graded(p)

\* It holds in memory what is on file.
Recalled(p) ==
  /\ pc[p] \in {"answer", "verdicts", "judge"} =>
       /\ \A q \in Questions : memo[p][q] = BodyOnFile(q)
       /\ Graded(p) => \A k \in Slots : seen[p][k] = SaidOnFile(k)
  /\ pc[p] \in {"verdicts", "judge"} => cache # <<>> /\ \A k \in Slots : seen[p][k] # None

\* The verdicts are a beginning of the pinned batch, of the answers on file.
InOrder(p) ==
  pc[p] = "judge" =>
    /\ Len(verdicts) <= Len(Order)
    /\ \A i \in DOMAIN verdicts : verdicts[i].slot = Order[i]
    /\ judged[p] = {verdicts[i].slot : i \in DOMAIN verdicts}

IInv ==
  /\ FilesOK /\ PassesOK /\ Once /\ Derived /\ Named
  /\ \A p \in Procs : Gated(p) /\ Recalled(p) /\ InOrder(p)

-----------------------------------------------------------------------------
(* The files.                                                              *)

\* What stands for an absent record, body or answer is none.
LEMMA NoneIs ==
  /\ None # Torn /\ None \notin Settings /\ Torn \notin Settings /\ None \notin Bodies
  /\ \A b \in Bodies, t \in Answers : None # [from |-> b, text |-> t]
<1>1. ASSUME NEW b \in Bodies, NEW t \in Answers PROVE None # [from |-> b, text |-> t]
  <2>1. PICK q \in DOMAIN Texts : t \in Texts[q]
    BY DEF Answers, Range
  <2>2. q \in Questions
    BY <2>1, GradedRunAssumption
  <2> QED BY <2>1, <2>2, GradedRunAssumption
<1> QED BY <1>1, GradedRunAssumption

LEMMA RowOf == ASSUME NEW S, NEW s \in Seq(S) PROVE \A i \in DOMAIN s : i \in Nat /\ s[i] \in S
OBVIOUS

\* Every row has its fields.
LEMMA RowsTyped ==
  ASSUME FilesOK
  PROVE  /\ \A i \in DOMAIN cache :
              cache[i] \in [q : Questions, by : Range(Extractor), body : Bodies]
         /\ \A i \in DOMAIN claimRows : claimRows[i] \in [q : Questions, body : Bodies]
         /\ \A i \in DOMAIN answers :
              answers[i] \in [slot : Slots, by : Settings, from : Bodies, text : Answers]
         /\ \A i \in DOMAIN verdicts :
              verdicts[i] \in [slot : Slots, by : Settings, from : Bodies, text : Answers]
BY RowOf, Zenon DEF FilesOK

\* The greatest of one number.
LEMMA MaxOfOne == ASSUME NEW i \in Nat PROVE Max({i}) = i
BY DEF Max

\* A question is not extracted if no row is of it, and its one row says what
\* its body is.
LEMMA BodyIs ==
  ASSUME NEW q, FilesOK, Once
  PROVE  /\ (\A i \in DOMAIN cache : cache[i].q # q) => BodyOnFile(q) = None
         /\ \A i \in DOMAIN cache : cache[i].q = q => BodyOnFile(q) = cache[i].body
         /\ BodyOnFile(q) # None => \E i \in DOMAIN cache : cache[i].q = q /\ cache[i].body = BodyOnFile(q)
<1> DEFINE Of == {i \in DOMAIN cache : cache[i].q = q}
<1>1. BodyOnFile(q) = IF Of = {} THEN None ELSE cache[Max(Of)].body
  BY DEF BodyOnFile
<1>2. ASSUME NEW i \in DOMAIN cache, cache[i].q = q PROVE BodyOnFile(q) = cache[i].body
  <2>1. Of = {i}
    BY <1>2 DEF Once
  <2>2. i \in Nat
    BY DEF FilesOK
  <2>3. Max(Of) = i
    BY <2>1, <2>2, MaxOfOne
  <2> QED BY <1>1, <2>1, <2>3
<1>3. (\A i \in DOMAIN cache : cache[i].q # q) => BodyOnFile(q) = None
  BY <1>1
<1> QED BY <1>2, <1>3

\* The same of a slot.
LEMMA SaidIs ==
  ASSUME NEW k, FilesOK, Once
  PROVE  /\ (\A i \in DOMAIN answers : answers[i].slot # k) => SaidOnFile(k) = None
         /\ \A i \in DOMAIN answers : answers[i].slot = k =>
              SaidOnFile(k) = [from |-> answers[i].from, text |-> answers[i].text]
<1> DEFINE Of == {i \in DOMAIN answers : answers[i].slot = k}
<1>1. SaidOnFile(k) = IF Of = {} THEN None
                      ELSE [from |-> answers[Max(Of)].from, text |-> answers[Max(Of)].text]
  BY DEF SaidOnFile
<1>2. ASSUME NEW i \in DOMAIN answers, answers[i].slot = k
      PROVE  SaidOnFile(k) = [from |-> answers[i].from, text |-> answers[i].text]
  <2>1. Of = {i}
    BY <1>2 DEF Once
  <2>2. i \in Nat
    BY DEF FilesOK
  <2>3. Max(Of) = i
    BY <2>1, <2>2, MaxOfOne
  <2> QED BY <1>1, <2>1, <2>3
<1>3. (\A i \in DOMAIN answers : answers[i].slot # k) => SaidOnFile(k) = None
  BY <1>1
<1> QED BY <1>2, <1>3

\* No row was appended and none is read otherwise.
LEMMA BodyKept == ASSUME cache' = cache PROVE \A q : BodyOnFile(q)' = BodyOnFile(q)
BY DEF BodyOnFile

LEMMA SaidKept == ASSUME answers' = answers PROVE \A k : SaidOnFile(k)' = SaidOnFile(k)
BY DEF SaidOnFile

\* A row of a question that has none: it is the one row of it, and the others
\* are read as before.
LEMMA BodyAppended ==
  ASSUME FilesOK, Once, NEW row \in [q : Questions, by : Range(Extractor), body : Bodies],
         BodyOnFile(row.q) = None, cache' = Append(cache, row)
  PROVE  /\ \A i \in DOMAIN cache : cache[i].q # row.q
         /\ \A i, j \in DOMAIN cache' : cache'[i].q = cache'[j].q => i = j
         /\ \A q : BodyOnFile(q)' = IF q = row.q THEN row.body ELSE BodyOnFile(q)
<1> DEFINE Rows == [q : Questions, by : Range(Extractor), body : Bodies]
<1>0. cache \in Seq(Rows)
  BY DEF FilesOK
<1> HIDE DEF Rows
<1>1. DOMAIN cache = 1 .. Len(cache) /\ Len(cache) \in Nat /\ \A i \in DOMAIN cache : cache[i] \in Rows
  BY <1>0
<1>2. /\ DOMAIN cache' = 1 .. Len(cache) + 1
      /\ \A i \in DOMAIN cache : cache'[i] = cache[i]
      /\ cache'[Len(cache) + 1] = row
  BY <1>0, <1>1
<1>3. \A i \in DOMAIN cache : cache[i].q # row.q
  <2>1. \A i \in DOMAIN cache : cache[i].q = row.q => BodyOnFile(row.q) = cache[i].body
    BY BodyIs
  <2>2. \A i \in DOMAIN cache : cache[i].body \in Bodies
    BY <1>1 DEF Rows
  <2> QED BY <2>1, <2>2, NoneIs
<1>4. ASSUME NEW q PROVE BodyOnFile(q)' = IF q = row.q THEN row.body ELSE BodyOnFile(q)
  <2> DEFINE Then == {i \in DOMAIN cache' : cache'[i].q = q}
  <2>1. BodyOnFile(q)' = IF Then = {} THEN None ELSE cache'[Max(Then)].body
    BY DEF BodyOnFile
  <2>2. CASE q = row.q
    <3>1. Then = {Len(cache) + 1}
      BY <1>1, <1>2, <1>3, <2>2
    <3>2. Max(Then) = Len(cache) + 1
      BY <1>1, <3>1, MaxOfOne
    <3> QED BY <1>2, <2>1, <2>2, <3>1, <3>2
  <2>3. CASE q # row.q /\ \A i \in DOMAIN cache : cache[i].q # q
    <3>1. Then = {}
      BY <1>1, <1>2, <2>3
    <3>2. BodyOnFile(q) = None
      BY <2>3, BodyIs
    <3> QED BY <2>1, <2>3, <3>1, <3>2
  <2>4. ASSUME q # row.q, NEW i \in DOMAIN cache, cache[i].q = q
        PROVE  BodyOnFile(q)' = IF q = row.q THEN row.body ELSE BodyOnFile(q)
    <3>1. Then = {i}
      BY <1>1, <1>2, <2>4 DEF Once
    <3>2. Max(Then) = i
      BY <1>1, <3>1, MaxOfOne
    <3>3. BodyOnFile(q) = cache[i].body
      BY <2>4, BodyIs
    <3> QED BY <1>1, <1>2, <2>1, <2>4, <3>1, <3>2, <3>3
  <2> QED BY <2>2, <2>3, <2>4
<1>5. \A i, j \in DOMAIN cache' : cache'[i].q = cache'[j].q => i = j
  BY <1>1, <1>2, <1>3 DEF Once
<1> QED BY <1>3, <1>4, <1>5

\* The same of an answer.
LEMMA SaidAppended ==
  ASSUME FilesOK, Once,
         NEW row \in [slot : Slots, by : Settings, from : Bodies, text : Answers],
         SaidOnFile(row.slot) = None, answers' = Append(answers, row)
  PROVE  /\ \A i, j \in DOMAIN answers' : answers'[i].slot = answers'[j].slot => i = j
         /\ \A k : SaidOnFile(k)' = IF k = row.slot THEN [from |-> row.from, text |-> row.text]
                                    ELSE SaidOnFile(k)
<1> DEFINE Rows == [slot : Slots, by : Settings, from : Bodies, text : Answers]
<1>0. answers \in Seq(Rows)
  BY DEF FilesOK
<1> HIDE DEF Rows
<1>1. /\ DOMAIN answers = 1 .. Len(answers) /\ Len(answers) \in Nat
      /\ \A i \in DOMAIN answers : answers[i] \in Rows
  BY <1>0
<1>2. /\ DOMAIN answers' = 1 .. Len(answers) + 1
      /\ \A i \in DOMAIN answers : answers'[i] = answers[i]
      /\ answers'[Len(answers) + 1] = row
  BY <1>0, <1>1
<1>3. \A i \in DOMAIN answers : answers[i].slot # row.slot
  <2>1. \A i \in DOMAIN answers : answers[i].from \in Bodies /\ answers[i].text \in Answers
    BY <1>1 DEF Rows
  <2> QED BY <2>1, SaidIs, NoneIs
<1>4. ASSUME NEW k
      PROVE  SaidOnFile(k)' = IF k = row.slot THEN [from |-> row.from, text |-> row.text]
                              ELSE SaidOnFile(k)
  <2> DEFINE Then == {i \in DOMAIN answers' : answers'[i].slot = k}
  <2>1. SaidOnFile(k)' = IF Then = {} THEN None
                         ELSE [from |-> answers'[Max(Then)].from, text |-> answers'[Max(Then)].text]
    BY DEF SaidOnFile
  <2>2. CASE k = row.slot
    <3>1. Then = {Len(answers) + 1}
      BY <1>1, <1>2, <1>3, <2>2
    <3>2. Max(Then) = Len(answers) + 1
      BY <1>1, <3>1, MaxOfOne
    <3> QED BY <1>2, <2>1, <2>2, <3>1, <3>2
  <2>3. CASE k # row.slot /\ \A i \in DOMAIN answers : answers[i].slot # k
    <3>1. Then = {}
      BY <1>1, <1>2, <2>3
    <3>2. SaidOnFile(k) = None
      BY <2>3, SaidIs
    <3> QED BY <2>1, <2>3, <3>1, <3>2
  <2>4. ASSUME k # row.slot, NEW i \in DOMAIN answers, answers[i].slot = k
        PROVE  SaidOnFile(k)' = IF k = row.slot THEN [from |-> row.from, text |-> row.text]
                                ELSE SaidOnFile(k)
    <3>1. Then = {i}
      BY <1>1, <1>2, <2>4 DEF Once
    <3>2. Max(Then) = i
      BY <1>1, <3>1, MaxOfOne
    <3>3. SaidOnFile(k) = [from |-> answers[i].from, text |-> answers[i].text]
      BY <2>4, SaidIs
    <3> QED BY <1>1, <1>2, <2>1, <2>4, <3>1, <3>2, <3>3
  <2> QED BY <2>2, <2>3, <2>4
<1>5. \A i, j \in DOMAIN answers' : answers'[i].slot = answers'[j].slot => i = j
  BY <1>1, <1>2, <1>3 DEF Once
<1> QED BY <1>4, <1>5

LEMMA OnFileTyped ==
  ASSUME FilesOK, Once
  PROVE  /\ \A q : BodyOnFile(q) \in Bodies \cup {None}
         /\ \A k : SaidOnFile(k) \in Said \cup {None}
<1>1. ASSUME NEW q PROVE BodyOnFile(q) \in Bodies \cup {None}
  <2>1. \A i \in DOMAIN cache : cache[i].body \in Bodies
    BY RowsTyped
  <2> QED BY <2>1, BodyIs
<1>2. ASSUME NEW k PROVE SaidOnFile(k) \in Said \cup {None}
  <2>1. \A i \in DOMAIN answers : answers[i].from \in Bodies /\ answers[i].text \in Answers
    BY RowsTyped
  <2>2. CASE \A i \in DOMAIN answers : answers[i].slot # k
    BY <2>2, SaidIs
  <2>3. ASSUME NEW i \in DOMAIN answers, answers[i].slot = k PROVE SaidOnFile(k) \in Said
    BY <2>1, <2>3, SaidIs DEF Said
  <2> QED BY <2>2, <2>3
<1> QED BY <1>1, <1>2

\* What is said of the rows alone outlasts every step that leaves them and
\* the records.
LEMMA RowsStay ==
  ASSUME FilesOK, Once, Derived, Named,
         UNCHANGED <<manifest, identity, cache, claimRows, answers, verdicts>>
  PROVE  /\ FilesOK' /\ Once' /\ Derived' /\ Named'
         /\ \A q : BodyOnFile(q)' = BodyOnFile(q)
         /\ \A k : SaidOnFile(k)' = SaidOnFile(k)
<1>1. \A q : BodyOnFile(q)' = BodyOnFile(q)
  BY BodyKept
<1>2. \A k : SaidOnFile(k)' = SaidOnFile(k)
  BY SaidKept
<1>3. FilesOK' /\ Once' /\ Named'
  BY DEF FilesOK, Once, Named
<1>4. Derived'
  BY <1>1 DEF Derived
<1> QED BY <1>1, <1>2, <1>3, <1>4

-----------------------------------------------------------------------------
(* The steps of the one process.                                           *)

LEMMA InitKeeps == Init => IInv
<1> SUFFICES ASSUME Init PROVE IInv
  OBVIOUS
<1> USE DEF Init
<1>1. FilesOK
  BY DEF FilesOK
<1>2. PassesOK
  BY DEF PassesOK, States, Blank, Unseen
<1>3. Once /\ Derived /\ Named
  BY DEF Once, Derived, Named
<1>4. \A p \in Procs : Gated(p) /\ Recalled(p) /\ InOrder(p)
  BY DEF Gated, Recalled, InOrder, Through
<1> QED BY <1>1, <1>2, <1>3, <1>4 DEF IInv

LEMMA LaunchKeeps ==
  ASSUME IInv, NEW p, Procs = {p}, NEW s \in Settings, NEW m \in Modes, Launch(p, s, m)
  PROVE  IInv'
<1> USE DEF IInv, Launch, Goto, directory, records, rows, memory
<1>1. FilesOK' /\ Once' /\ Derived' /\ Named'
  BY RowsStay
<1>2. pc'[p] \in {"repair", "manifest"} /\ run'[p] = [by |-> s, mode |-> m]
  BY DEF PassesOK
<1>3. PassesOK'
  BY <1>2 DEF PassesOK, States
<1>4. Gated(p)' /\ Recalled(p)' /\ InOrder(p)'
  BY <1>2 DEF Gated, Recalled, InOrder, Through
<1> QED BY <1>1, <1>3, <1>4

LEMMA RepairKeeps == ASSUME IInv, NEW p, Procs = {p}, Repair(p) PROVE IInv'
<1> USE DEF IInv, Repair, Goto, records, rows, memory
<1>1. FilesOK' /\ Once' /\ Derived' /\ Named'
  BY RowsStay
<1>2. pc'[p] = "manifest"
  BY DEF PassesOK
<1>3. PassesOK'
  BY DEF PassesOK, States
<1>4. Gated(p)' /\ Recalled(p)' /\ InOrder(p)'
  BY <1>2 DEF Gated, Recalled, InOrder, Through
<1> QED BY <1>1, <1>3, <1>4

LEMMA CheckManifestKeeps == ASSUME IInv, NEW p, Procs = {p}, CheckManifest(p) PROVE IInv'
<1> USE DEF IInv, CheckManifest, Goto, directory, records, rows
<1>1. FilesOK' /\ Once' /\ Derived' /\ Named'
  BY RowsStay
<1>2. /\ pc'[p] \in {"identity", "refused"}
      /\ Graded(p) => minted'[p] = (manifest = None)
      /\ Graded(p) /\ pc'[p] = "identity" => manifest \in {None, run[p].by}
  BY DEF PassesOK
<1>3. PassesOK'
  BY DEF PassesOK, States
<1>4. Gated(p)' /\ Recalled(p)' /\ InOrder(p)'
  BY <1>2 DEF Gated, Recalled, InOrder, Through, Graded
<1> QED BY <1>1, <1>3, <1>4

\* Without extractions nothing has been made of them.
LEMMA EmptyCache ==
  ASSUME FilesOK, Once, Derived, cache = <<>>
  PROVE  DOMAIN answers = {} /\ DOMAIN verdicts = {}
<1>1. \A q : BodyOnFile(q) = None
  BY BodyIs
<1>2. \A i \in DOMAIN answers : answers[i].from \in Bodies
  BY RowsTyped
<1>3. DOMAIN answers = {}
  BY <1>1, <1>2, NoneIs DEF Derived
<1>4. verdicts = <<>>
  BY DEF Derived
<1> QED BY <1>3, <1>4

LEMMA ReconcileKeeps == ASSUME IInv, NEW p, Procs = {p}, Reconcile(p) PROVE IInv'
<1> USE DEF IInv, Reconcile, Goto, rows, memory
<1>1. CASE UNCHANGED identity
  <2>1. FilesOK' /\ Once' /\ Derived' /\ Named'
    BY <1>1, RowsStay
  <2>2. PassesOK'
    BY DEF PassesOK, States
  <2>3. pc'[p] \in {"refused", "record"} /\ (pc'[p] = "record" => identity' = Mine(p))
    BY DEF PassesOK
  <2>4. Gated(p)' /\ Recalled(p)' /\ InOrder(p)'
    BY <2>3 DEF Gated, Recalled, InOrder, Through, Graded, Mine
  <2> QED BY <2>1, <2>2, <2>4
<1>2. CASE cache = <<>> /\ identity' = Mine(p) /\ pc' = [pc EXCEPT ![p] = "record"]
  <2>1. FilesOK' /\ Once'
    BY DEF FilesOK, Once
  <2>2. Derived' /\ Named'
    <3>1. DOMAIN answers = {} /\ DOMAIN verdicts = {}
      BY <1>2, EmptyCache
    <3>2. \A q : BodyOnFile(q)' = BodyOnFile(q)
      BY BodyKept
    <3>3. Derived'
      BY <3>2 DEF Derived
    <3>4. Named'
      BY <1>2, <3>1 DEF Named
    <3> QED BY <3>3, <3>4
  <2>3. PassesOK'
    BY <1>2 DEF PassesOK, States
  <2>4. pc'[p] = "record"
    BY <1>2 DEF PassesOK
  <2>5. Gated(p)' /\ Recalled(p)' /\ InOrder(p)'
    BY <1>2, <2>4 DEF Gated, Recalled, InOrder, Through, Graded, Mine
  <2> QED BY <2>1, <2>2, <2>3, <2>5
<1> QED BY <1>1, <1>2 DEF RowsOnDisk

\* A manifest is written only where no row is of a graded run.
LEMMA WriteManifestKeeps == ASSUME IInv, NEW p, Procs = {p}, WriteManifest(p) PROVE IInv'
<1> USE DEF IInv, WriteManifest, Goto, rows, memory
<1>1. pc'[p] = "load" /\ run' = run /\ run[p] \in [by : Settings, mode : Modes]
  BY DEF PassesOK
<1>2. PassesOK'
  BY DEF PassesOK, States
<1>3. identity' = identity
  BY DEF records
<1>4. Graded(p) => manifest' = run[p].by
  BY DEF Gated, records
<1>5. Gated(p)' /\ Recalled(p)' /\ InOrder(p)'
  BY <1>1, <1>3, <1>4 DEF Gated, Recalled, InOrder, Through, Graded, Mine
<1>6. CASE manifest' = manifest
  <2>1. FilesOK' /\ Once' /\ Derived' /\ Named'
    BY <1>3, <1>6, RowsStay
  <2> QED BY <1>2, <1>5, <2>1
<1>7. CASE manifest = None /\ manifest' = run[p].by
  <2>1. FilesOK' /\ Once'
    BY <1>1, <1>7 DEF FilesOK, Once
  <2>2. DOMAIN answers = {} /\ DOMAIN verdicts = {}
    <3>1. /\ \A i \in DOMAIN answers : answers[i].by \in Settings
          /\ \A i \in DOMAIN verdicts : verdicts[i].by \in Settings
      BY RowsTyped
    <3> QED BY <1>7, <3>1, NoneIs DEF Named
  <2>3. Derived' /\ Named'
    <3>1. \A q : BodyOnFile(q)' = BodyOnFile(q)
      BY BodyKept
    <3> QED BY <1>3, <2>2, <3>1 DEF Derived, Named
  <2> QED BY <1>2, <1>5, <2>1, <2>3
<1>8. manifest' = manifest \/ (manifest = None /\ manifest' = run[p].by)
  BY DEF Gated, records
<1> QED BY <1>6, <1>7, <1>8

LEMMA LoadKeeps == ASSUME IInv, NEW p, Procs = {p}, Load(p) PROVE IInv'
<1> USE DEF IInv, Load, Goto, records, rows
<1>1. /\ FilesOK' /\ Once' /\ Derived' /\ Named'
      /\ \A q : BodyOnFile(q)' = BodyOnFile(q)
      /\ \A k : SaidOnFile(k)' = SaidOnFile(k)
  BY RowsStay
<1>2. /\ pc'[p] = "answer"
      /\ memo'[p] = [q \in Questions |-> BodyOnFile(q)]
      /\ seen'[p] = [k \in Slots |-> IF Graded(p) THEN SaidOnFile(k) ELSE None]
  BY DEF PassesOK
<1>3. PassesOK'
  <2>1. /\ [q \in Questions |-> BodyOnFile(q)] \in [Questions -> Bodies \cup {None}]
        /\ [k \in Slots |-> IF Graded(p) THEN SaidOnFile(k) ELSE None] \in [Slots -> Said \cup {None}]
    BY OnFileTyped
  <2> QED BY <2>1 DEF PassesOK, States
<1>4. Gated(p)'
  BY <1>2 DEF Gated, Through, Graded, Mine
<1>5. Recalled(p)' /\ InOrder(p)'
  BY <1>1, <1>2 DEF Recalled, InOrder, Graded
<1> QED BY <1>1, <1>3, <1>4, <1>5

LEMMA ExtractKeeps ==
  ASSUME IInv, NEW p, Procs = {p}, NEW q \in Questions, Extract(p, q)
  PROVE  /\ IInv'
         /\ BodyOnFile(q) = None
         /\ \E b \in Bodies : \A r : BodyOnFile(r)' = IF r = q THEN b ELSE BodyOnFile(r)
<1> USE DEF IInv
<1>1. pc[p] = "answer" /\ memo[p][q] = None /\ BodyOnFile(q) = None
  BY DEF Extract, At, Recalled
<1>2. PICK b \in Bodies : /\ cache' = Append(cache, [q |-> q, by |-> Mine(p), body |-> b])
                          /\ memo' = [memo EXCEPT ![p][q] = b]
  BY DEF Extract
<1>3. /\ UNCHANGED <<manifest, identity, claimRows, answers, verdicts>>
      /\ UNCHANGED <<pc, run, minted, seen, judged, found>>
  BY DEF Extract, records
<1> DEFINE row == [q |-> q, by |-> Mine(p), body |-> b]
<1>4. row \in [q : Questions, by : Range(Extractor), body : Bodies]
  <2>1. run[p].by \in Settings
    BY <1>1 DEF PassesOK
  <2> QED BY <2>1, GradedRunAssumption DEF Mine, Range
<1>5. /\ \A i \in DOMAIN cache : cache[i].q # q
      /\ \A i, j \in DOMAIN cache' : cache'[i].q = cache'[j].q => i = j
      /\ \A r : BodyOnFile(r)' = IF r = q THEN b ELSE BodyOnFile(r)
  BY <1>1, <1>2, <1>4, BodyAppended
<1>6. \A k : SaidOnFile(k)' = SaidOnFile(k)
  BY <1>3, SaidKept
<1>7. FilesOK'
  BY <1>2, <1>3, <1>4 DEF FilesOK
<1>8. PassesOK'
  BY <1>1, <1>2, <1>3 DEF PassesOK
<1>9. Once'
  BY <1>3, <1>5 DEF Once
<1>10. cache' # <<>> /\ \A i \in DOMAIN cache' : cache'[i].by = identity
  <2>1. Mine(p) = identity
    BY <1>1 DEF Gated, Through
  <2> QED BY <1>2, <2>1, RowsTyped DEF FilesOK, Named
<1>11. Derived'
  BY <1>1, <1>3, <1>5, <1>10, RowsTyped, NoneIs DEF Derived
<1>12. Named'
  BY <1>3, <1>10 DEF Named
<1>13. Gated(p)' /\ InOrder(p)'
  BY <1>1, <1>3 DEF Gated, InOrder, Through, Graded, Mine
<1>14. Recalled(p)'
  BY <1>1, <1>2, <1>3, <1>5, <1>6 DEF Recalled, Graded, PassesOK
<1> QED BY <1>1, <1>3, <1>5, <1>7, <1>8, <1>9, <1>11, <1>12, <1>13, <1>14

LEMMA AnswerKeeps ==
  ASSUME IInv, NEW p, Procs = {p}, NEW q \in Questions, Answer(p, q)
  PROVE  /\ IInv'
         /\ BodyOnFile(q) # None
         /\ \E a \in ArmSet, t \in Answers :
              /\ SaidOnFile(<<q, a>>) = None
              /\ \A r : SaidOnFile(r)' =
                         IF r = <<q, a>> THEN [from |-> BodyOnFile(q), text |-> t] ELSE SaidOnFile(r)
<1> USE DEF IInv
<1>1. /\ pc[p] = "answer" /\ Graded(p)
      /\ memo[p][q] = BodyOnFile(q) /\ memo[p][q] \in Bodies
  BY DEF Answer, At, Recalled, PassesOK
<1>2. PICK i \in Pending(p, q), t \in Texts[q] :
        /\ answers' = Append(answers, [slot |-> <<q, Arms[i]>>, by |-> run[p].by,
                                       from |-> memo[p][q], text |-> t])
        /\ seen' = [seen EXCEPT ![p][<<q, Arms[i]>>] = [from |-> memo[p][q], text |-> t]]
  BY DEF Answer
<1>3. /\ UNCHANGED <<manifest, identity, cache, claimRows, verdicts>>
      /\ UNCHANGED <<pc, run, minted, memo, judged, found>>
  BY DEF Answer, records
<1> DEFINE k   == <<q, Arms[i]>>
           row == [slot |-> k, by |-> run[p].by, from |-> memo[p][q], text |-> t]
           say == [from |-> memo[p][q], text |-> t]
<1>4. k \in Slots /\ seen[p][k] = None
  BY DEF Pending, Slots, ArmSet, Range
<1>5. run[p].by \in Settings /\ t \in Answers
  <2>1. Texts[q] \in Range(Texts)
    BY GradedRunAssumption DEF Range
  <2> QED BY <1>1, <2>1 DEF PassesOK, Answers
<1>6. row \in [slot : Slots, by : Settings, from : Bodies, text : Answers] /\ say \in Said
  BY <1>1, <1>4, <1>5 DEF Said
<1>7. SaidOnFile(k) = None
  BY <1>1, <1>4 DEF Recalled
<1>8. /\ \A j, l \in DOMAIN answers' : answers'[j].slot = answers'[l].slot => j = l
      /\ \A r : SaidOnFile(r)' = IF r = k THEN say ELSE SaidOnFile(r)
  BY <1>2, <1>6, <1>7, SaidAppended
<1>9. \A r : BodyOnFile(r)' = BodyOnFile(r)
  BY <1>3, BodyKept
<1> HIDE DEF row, say
<1>10. FilesOK'
  BY <1>2, <1>3, <1>6 DEF FilesOK, row
<1>11. PassesOK'
  BY <1>2, <1>3, <1>6 DEF PassesOK, say
<1>12. Once'
  BY <1>3, <1>8 DEF Once
<1>13. /\ DOMAIN answers' = DOMAIN answers \cup {Len(answers) + 1}
       /\ \A j \in DOMAIN answers : answers'[j] = answers[j]
       /\ answers'[Len(answers) + 1] = row
  <2> DEFINE Rows == [slot : Slots, by : Settings, from : Bodies, text : Answers]
  <2>1. answers \in Seq(Rows)
    BY DEF FilesOK
  <2> HIDE DEF Rows
  <2> QED BY <1>2, <2>1 DEF row
<1>14. row.slot[1] = q /\ row.from = memo[p][q] /\ row.by = run[p].by
  BY DEF row
<1>15. Derived'
  BY <1>1, <1>3, <1>9, <1>13, <1>14 DEF Derived
<1>16. Named'
  <2>1. manifest = run[p].by /\ identity = Extractor[run[p].by]
    BY <1>1 DEF Gated, Through, Mine
  <2> QED BY <1>3, <1>13, <1>14, <2>1 DEF Named
<1>17. Gated(p)' /\ InOrder(p)'
  BY <1>1, <1>3 DEF Gated, InOrder, Through, Graded, Mine
<1>18. Recalled(p)'
  BY <1>1, <1>2, <1>3, <1>4, <1>8, <1>9 DEF Recalled, Graded, PassesOK, say
<1>19. IInv'
  BY <1>3, <1>10, <1>11, <1>12, <1>15, <1>16, <1>17, <1>18
<1>20. Arms[i] \in ArmSet
  BY DEF Pending, ArmSet, Range
<1>21. BodyOnFile(q) # None
  BY <1>1, NoneIs
<1> HIDE DEF IInv
<1> QED BY <1>1, <1>5, <1>7, <1>8, <1>19, <1>20, <1>21 DEF say

LEMMA WriteClaimsKeeps ==
  ASSUME IInv, NEW p, Procs = {p}, NEW q \in Questions, WriteClaims(p, q) PROVE IInv'
<1> USE DEF IInv
<1>1. /\ pc[p] = "answer"
      /\ memo[p][q] = BodyOnFile(q) /\ memo[p][q] \in Bodies
  BY DEF WriteClaims, At, Recalled, PassesOK
<1>2. /\ claimRows' = Append(claimRows, [q |-> q, body |-> memo[p][q]])
      /\ UNCHANGED <<manifest, identity, cache, answers, verdicts>>
      /\ UNCHANGED <<pc, run, minted, memo, seen, judged, found>>
  BY DEF WriteClaims, records, memory
<1>3. /\ \A r : BodyOnFile(r)' = BodyOnFile(r)
      /\ \A k : SaidOnFile(k)' = SaidOnFile(k)
  BY <1>2, BodyKept, SaidKept
<1>4. FilesOK' /\ Once' /\ Named'
  BY <1>1, <1>2 DEF FilesOK, Once, Named
<1>5. PassesOK'
  BY <1>2 DEF PassesOK
<1>6. Derived'
  <2> DEFINE Rows == [q : Questions, body : Bodies]
             row  == [q |-> q, body |-> memo[p][q]]
  <2>1. claimRows \in Seq(Rows)
    BY DEF FilesOK
  <2>2. row.q = q /\ row.body = memo[p][q]
    OBVIOUS
  <2> HIDE DEF Rows, row
  <2>3. /\ DOMAIN claimRows' = DOMAIN claimRows \cup {Len(claimRows) + 1}
        /\ \A j \in DOMAIN claimRows : claimRows'[j] = claimRows[j]
        /\ claimRows'[Len(claimRows) + 1] = row
    BY <1>2, <2>1 DEF row
  <2> QED BY <1>1, <1>2, <1>3, <2>2, <2>3 DEF Derived
<1>7. Gated(p)' /\ InOrder(p)' /\ Recalled(p)'
  BY <1>1, <1>2, <1>3 DEF Gated, InOrder, Recalled, Through, Graded, Mine
<1> QED BY <1>2, <1>4, <1>5, <1>6, <1>7

\* The gate before judging: every arm has answered every question.
LEMMA AnsweredKeeps == ASSUME IInv, NEW p, Procs = {p}, Answered(p) PROVE IInv'
<1> USE DEF IInv, Answered, Goto, memory
<1>1. /\ FilesOK' /\ Once' /\ Derived' /\ Named'
      /\ \A q : BodyOnFile(q)' = BodyOnFile(q)
      /\ \A k : SaidOnFile(k)' = SaidOnFile(k)
  BY RowsStay DEF directory, records, rows
<1>2. PassesOK'
  BY DEF PassesOK, States
<1>3. pc'[p] = IF Graded(p) THEN "verdicts" ELSE "finalize"
  BY DEF PassesOK
<1>4. ASSUME Graded(p) PROVE cache # <<>> /\ \A k \in Slots : seen[p][k] # None
  <2>1. \A q \in Questions : Pending(p, q) = {} /\ Claimed(q)
    BY <1>4 DEF Owed
  <2>2. ASSUME NEW k \in Slots PROVE seen[p][k] # None
    <3>1. PICK q \in Questions, i \in DOMAIN Arms : k = <<q, Arms[i]>>
      BY DEF Slots, ArmSet, Range
    <3> QED BY <2>1, <3>1 DEF Pending
  <2>3. 1 \in Questions
    BY GradedRunAssumption DEF Questions
  <2>4. PICK i \in DOMAIN claimRows : claimRows[i].q = 1
    BY <2>1, <2>3 DEF Claimed, Range
  <2>5. BodyOnFile(1) # None
    <3>1. claimRows[i].body \in Bodies
      BY RowsTyped
    <3> QED BY <2>4, <3>1, NoneIs DEF Derived
  <2>6. cache # <<>>
    BY <2>5, BodyIs
  <2> QED BY <2>2, <2>6
<1>5. Gated(p)' /\ InOrder(p)'
  BY <1>3 DEF Gated, InOrder, Through, Graded, Mine, directory, records
<1>6. Recalled(p)'
  BY <1>1, <1>3, <1>4 DEF Recalled, Graded, directory, rows
<1> QED BY <1>1, <1>2, <1>5, <1>6

LEMMA LoadVerdictsKeeps == ASSUME IInv, NEW p, Procs = {p}, LoadVerdicts(p) PROVE IInv'
<1> USE DEF IInv, LoadVerdicts, Goto, records, rows
<1>1. /\ FilesOK' /\ Once' /\ Derived' /\ Named'
      /\ \A q : BodyOnFile(q)' = BodyOnFile(q)
      /\ \A k : SaidOnFile(k)' = SaidOnFile(k)
  BY RowsStay
<1>2. {v.slot : v \in Range(verdicts)} = {verdicts[i].slot : i \in DOMAIN verdicts}
  BY DEF Range
<1>3. {v.slot : v \in Range(verdicts)} \in SUBSET Slots
  <2>1. \A i \in DOMAIN verdicts : verdicts[i].slot \in Slots
    BY RowsTyped
  <2> QED BY <1>2, <2>1
<1>4. PassesOK'
  BY <1>3 DEF PassesOK, States
<1>5. \/ pc'[p] = "refused"
      \/ /\ pc'[p] = "judge" /\ Replayable(p)
         /\ judged'[p] = {verdicts[i].slot : i \in DOMAIN verdicts}
  BY <1>2 DEF PassesOK
<1>6. Gated(p)' /\ Recalled(p)'
  BY <1>1, <1>5 DEF Gated, Recalled, Through, Graded, Mine
<1>7. InOrder(p)'
  BY <1>5 DEF InOrder, Replayable
<1> QED BY <1>1, <1>4, <1>6, <1>7

\* The pinned order has each slot once.
LEMMA OrderPins ==
  /\ Len(Order) \in Nat /\ DOMAIN Order = 1 .. Len(Order)
  /\ \A i \in 1 .. Len(Order) : Order[i] \in Slots
  /\ \A k \in Slots : \E i \in 1 .. Len(Order) : Order[i] = k
  /\ \A i, j \in 1 .. Len(Order) : Order[i] = Order[j] => i = j
<1> DEFINE Places == 1 .. Len(Order)
<1>1. Order \in Seq(Slots) /\ Range(Order) = Slots /\ Len(Order) = Cardinality(Slots)
  BY GradedRunAssumption
<1>2. Len(Order) \in Nat /\ DOMAIN Order = Places /\ Order \in [Places -> Slots]
  BY <1>1
<1>3. \A k \in Slots : \E i \in Places : Order[i] = k
  BY <1>1, <1>2 DEF Range
<1>4. IsFiniteSet(Places) /\ Cardinality(Places) = Cardinality(Slots)
  <2>1. 1 \in Int /\ Len(Order) \in Int
    BY <1>2
  <2>2. /\ IsFiniteSet(1 .. Len(Order))
        /\ Cardinality(1 .. Len(Order)) = IF 1 > Len(Order) THEN 0 ELSE Len(Order) - 1 + 1
    BY <2>1, FS_Interval
  <2>3. Cardinality(1 .. Len(Order)) = Len(Order)
    BY <1>2, <2>2
  <2> QED BY <1>1, <2>2, <2>3
<1>5. Order \in Surjection(Places, Slots)
  BY <1>2, <1>3 DEF Surjection
<1>6. Order \in Injection(Places, Slots)
  <2> HIDE DEF Places
  <2> QED BY <1>4, <1>5, FS_SurjSameCardinalityImpliesInj
<1>7. \A i, j \in Places : Order[i] = Order[j] => i = j
  BY <1>2, <1>6 DEF Injection, IsInjective
<1> QED BY <1>2, <1>3, <1>7

\* The next slot of the pinned order is the one behind the verdicts.
LEMMA NextInOrder ==
  ASSUME FilesOK, NEW p, pc[p] = "judge", InOrder(p), NEW i \in DOMAIN Order,
         Order[i] \notin judged[p], \A j \in 1 .. i - 1 : Order[j] \in judged[p]
  PROVE  i = Len(verdicts) + 1
<1>1. DOMAIN verdicts = 1 .. Len(verdicts) /\ Len(verdicts) \in Nat
  BY DEF FilesOK
<1>2. /\ Len(verdicts) <= Len(Order)
      /\ \A j \in 1 .. Len(verdicts) : verdicts[j].slot = Order[j]
      /\ judged[p] = {verdicts[j].slot : j \in 1 .. Len(verdicts)}
  BY <1>1 DEF InOrder
<1>3. i > Len(verdicts)
  BY <1>1, <1>2, OrderPins
<1>4. CASE i > Len(verdicts) + 1
  <2>1. Len(verdicts) + 1 \in 1 .. i - 1 /\ Len(verdicts) + 1 \in 1 .. Len(Order)
    BY <1>1, <1>4, OrderPins
  <2>2. PICK j \in 1 .. Len(verdicts) : Order[Len(verdicts) + 1] = Order[j]
    BY <1>2, <2>1
  <2>3. j \in 1 .. Len(Order) /\ j # Len(verdicts) + 1
    BY <1>1, <1>2, OrderPins
  <2> QED BY <2>1, <2>2, <2>3, OrderPins
<1> QED BY <1>1, <1>3, <1>4, OrderPins

LEMMA JudgeKeeps ==
  ASSUME IInv, NEW p, Procs = {p}, Judge(p)
  PROVE  /\ IInv'
         /\ Len(verdicts) < Len(Order) /\ \A r \in Slots : SaidOnFile(r) # None
         /\ \E row : /\ verdicts' = Append(verdicts, row)
                     /\ SaidOnFile(Order[Len(verdicts) + 1]) = [from |-> row.from, text |-> row.text]
<1> USE DEF IInv
<1>1. pc[p] = "judge" /\ Graded(p)
  BY DEF Judge, Gated
<1>2. PICK i \in DOMAIN Order :
        /\ Order[i] \notin judged[p] /\ \A j \in 1 .. i - 1 : Order[j] \in judged[p]
        /\ verdicts' = Append(verdicts, [slot |-> Order[i], by |-> run[p].by,
                                         from |-> seen[p][Order[i]].from, text |-> seen[p][Order[i]].text])
        /\ judged' = [judged EXCEPT ![p] = @ \cup {Order[i]}]
  BY DEF Judge
<1>3. /\ UNCHANGED <<manifest, identity, cache, claimRows, answers>>
      /\ UNCHANGED <<pc, run, minted, memo, seen, found>>
  BY DEF Judge, records
<1> DEFINE k   == Order[i]
           row == [slot |-> k, by |-> run[p].by, from |-> seen[p][k].from, text |-> seen[p][k].text]
<1>4. k \in Slots
  BY <1>2, OrderPins
<1>5. row \in [slot : Slots, by : Settings, from : Bodies, text : Answers]
  <2>1. seen[p][k] \in Said
    BY <1>1, <1>4 DEF Recalled, PassesOK
  <2>2. run[p].by \in Settings
    BY <1>1 DEF PassesOK
  <2> QED BY <1>4, <2>1, <2>2 DEF Said
<1>6. /\ \A r : BodyOnFile(r)' = BodyOnFile(r)
      /\ \A r : SaidOnFile(r)' = SaidOnFile(r)
  BY <1>3, BodyKept, SaidKept
<1>7. row.slot = k /\ row.by = run[p].by
  OBVIOUS
<1>8. i = Len(verdicts) + 1
  BY <1>1, <1>2, NextInOrder
<1> HIDE DEF row
<1>9. FilesOK'
  BY <1>2, <1>3, <1>5 DEF FilesOK, row
<1>10. PassesOK'
  BY <1>2, <1>3, <1>4 DEF PassesOK
<1>11. /\ DOMAIN verdicts = 1 .. Len(verdicts) /\ Len(verdicts) \in Nat
       /\ DOMAIN verdicts' = 1 .. Len(verdicts) + 1 /\ Len(verdicts') = Len(verdicts) + 1
       /\ \A j \in DOMAIN verdicts : verdicts'[j] = verdicts[j]
       /\ verdicts'[Len(verdicts) + 1] = row
  <2> DEFINE Rows == [slot : Slots, by : Settings, from : Bodies, text : Answers]
  <2>1. verdicts \in Seq(Rows)
    BY DEF FilesOK
  <2> HIDE DEF Rows
  <2> QED BY <1>2, <2>1 DEF row
<1>12. Once' /\ Derived'
  BY <1>1, <1>3, <1>6 DEF Once, Derived, Recalled
<1>13. Named'
  <2>1. manifest = run[p].by /\ identity = Extractor[run[p].by]
    BY <1>1 DEF Gated, Through, Mine
  <2> QED BY <1>3, <1>7, <1>11, <2>1 DEF Named
<1>14. Gated(p)' /\ Recalled(p)'
  BY <1>1, <1>3, <1>6 DEF Gated, Recalled, Through, Graded, Mine
<1>15. InOrder(p)'
  <2>1. judged'[p] = judged[p] \cup {k}
    BY <1>2 DEF PassesOK
  <2>2. /\ judged[p] = {verdicts[j].slot : j \in DOMAIN verdicts}
        /\ \A j \in DOMAIN verdicts : verdicts[j].slot = Order[j]
    BY <1>1 DEF InOrder
  <2>3. {verdicts'[j].slot : j \in DOMAIN verdicts'}
           = {verdicts[j].slot : j \in DOMAIN verdicts} \cup {k}
    BY <1>7, <1>11
  <2>4. \A j \in DOMAIN verdicts' : verdicts'[j].slot = Order[j]
    BY <1>7, <1>8, <1>11, <2>2
  <2>5. Len(verdicts') <= Len(Order)
    BY <1>2, <1>8, <1>11, OrderPins
  <2> QED BY <2>1, <2>2, <2>3, <2>4, <2>5 DEF InOrder
<1>16. IInv'
  BY <1>3, <1>9, <1>10, <1>12, <1>13, <1>14, <1>15
<1>17. Len(verdicts) < Len(Order) /\ \A r \in Slots : SaidOnFile(r) # None
  BY <1>1, <1>2, <1>8, <1>11, OrderPins DEF Recalled
<1>18. SaidOnFile(k) = [from |-> row.from, text |-> row.text]
  <2>1. seen[p][k] = SaidOnFile(k) /\ seen[p][k] \in Said
    BY <1>1, <1>4 DEF Recalled, PassesOK
  <2> QED BY <2>1 DEF row, Said
<1>19. verdicts' = Append(verdicts, row)
  BY <1>2 DEF row
<1> HIDE DEF IInv
<1> QED BY <1>8, <1>16, <1>17, <1>18, <1>19

LEMMA ScoreKeeps == ASSUME IInv, NEW p, Procs = {p}, Score(p) PROVE IInv'
<1> USE DEF IInv, Score, Goto, records, rows, memory
<1>1. /\ FilesOK' /\ Once' /\ Derived' /\ Named'
      /\ \A q : BodyOnFile(q)' = BodyOnFile(q)
      /\ \A k : SaidOnFile(k)' = SaidOnFile(k)
  BY RowsStay
<1>2. PassesOK'
  BY DEF PassesOK, States
<1>3. pc'[p] = "finalize"
  BY DEF PassesOK
<1>4. Gated(p)' /\ Recalled(p)' /\ InOrder(p)'
  BY <1>1, <1>3 DEF Gated, Recalled, InOrder, Through, Graded, Mine
<1> QED BY <1>1, <1>2, <1>4

\* A process that ends leaves nothing to rely on but the files.
LEMMA LeaveKeeps ==
  ASSUME PassesOK, NEW p, Procs = {p}, Leave(p)
  PROVE  /\ PassesOK' /\ pc'[p] = "idle"
         /\ Gated(p)' /\ Recalled(p)' /\ InOrder(p)'
<1>1. PassesOK' /\ pc'[p] = "idle"
  BY DEF Leave, Goto, PassesOK, States, Blank, Unseen
<1>2. Gated(p)' /\ Recalled(p)' /\ InOrder(p)'
  BY <1>1 DEF Gated, Recalled, InOrder, Through
<1> QED BY <1>1, <1>2

LEMMA FinalizeKeeps == ASSUME IInv, NEW p, Procs = {p}, Finalize(p) PROVE IInv'
<1> USE DEF IInv
<1>1. manifest' = manifest
  BY DEF Finalize, Gated, Through
<1>2. FilesOK' /\ Once' /\ Derived' /\ Named'
  BY <1>1, RowsStay DEF Finalize, rows
<1>3. PassesOK' /\ Gated(p)' /\ Recalled(p)' /\ InOrder(p)'
  BY LeaveKeeps DEF Finalize
<1> QED BY <1>2, <1>3

LEMMA DismissKeeps == ASSUME IInv, NEW p, Procs = {p}, Dismiss(p) PROVE IInv'
<1> USE DEF IInv
<1>1. FilesOK' /\ Once' /\ Derived' /\ Named'
  BY RowsStay DEF Dismiss, directory, records, rows
<1>2. PassesOK' /\ Gated(p)' /\ Recalled(p)' /\ InOrder(p)'
  BY LeaveKeeps DEF Dismiss
<1> QED BY <1>1, <1>2

\* A kill may take a record with it: the manifest, which then names no other
\* experiment, or the identity of a directory without extractions.
LEMMA KillKeeps == ASSUME IInv, NEW p, Procs = {p}, Kill(p) PROVE IInv'
<1> USE DEF IInv
<1>1. PassesOK' /\ Gated(p)' /\ Recalled(p)' /\ InOrder(p)'
  BY LeaveKeeps DEF Kill
<1>2. UNCHANGED <<cache, claimRows, answers, verdicts>>
  BY DEF Kill, rows
<1>3. \A q : BodyOnFile(q)' = BodyOnFile(q)
  BY <1>2, BodyKept
<1>4. Once' /\ Derived'
  BY <1>2, <1>3 DEF Once, Derived
<1>5. CASE manifest' \in {manifest, Torn} /\ identity' = identity
  <2>1. FilesOK' /\ Named'
    BY <1>2, <1>5 DEF FilesOK, Named
  <2> QED BY <1>1, <1>4, <2>1
<1>6. CASE manifest' = manifest /\ cache = <<>>
  <2>1. DOMAIN answers = {} /\ DOMAIN verdicts = {}
    BY <1>6, EmptyCache
  <2>2. Named'
    BY <1>2, <1>6, <2>1 DEF Named
  <2>3. FilesOK'
    BY <1>2, <1>6 DEF FilesOK
  <2> QED BY <1>1, <1>4, <2>2, <2>3
<1>7. (manifest' \in {manifest, Torn} /\ identity' = identity) \/ (manifest' = manifest /\ cache = <<>>)
  BY DEF Kill, records, RowsOnDisk
<1> QED BY <1>5, <1>6, <1>7

LEMMA StutterKeeps == ASSUME IInv, UNCHANGED vars PROVE IInv'
<1> USE DEF IInv, vars, directory, records, rows, memory
<1>1. /\ FilesOK' /\ Once' /\ Derived' /\ Named'
      /\ \A q : BodyOnFile(q)' = BodyOnFile(q)
      /\ \A k : SaidOnFile(k)' = SaidOnFile(k)
  BY RowsStay
<1>2. PassesOK'
  BY DEF PassesOK
<1>3. ASSUME NEW p \in Procs PROVE Gated(p)' /\ Recalled(p)' /\ InOrder(p)'
  BY <1>1 DEF Gated, Recalled, InOrder, Graded, Mine
<1> QED BY <1>1, <1>2, <1>3

LEMMA NextKeeps == ASSUME IInv, NEW p, Procs = {p}, [Next]_vars PROVE IInv'
<1>1. CASE UNCHANGED vars
  BY <1>1, StutterKeeps
<1>2. CASE Step(p)
  <2>1. ASSUME NEW q \in Questions, Extract(p, q) \/ Answer(p, q) \/ WriteClaims(p, q) PROVE IInv'
    BY <2>1, ExtractKeeps, AnswerKeeps, WriteClaimsKeeps
  <2> QED
    BY <1>2, <2>1, RepairKeeps, CheckManifestKeeps, ReconcileKeeps, WriteManifestKeeps, LoadKeeps,
       AnsweredKeeps, LoadVerdictsKeeps, JudgeKeeps, ScoreKeeps, FinalizeKeeps, DismissKeeps
    DEF Step
<1>3. CASE Kill(p)
  BY <1>3, KillKeeps
<1>4. ASSUME NEW s \in Settings, NEW m \in Modes, Launch(p, s, m) PROVE IInv'
  BY <1>4, LaunchKeeps
<1> QED BY <1>1, <1>2, <1>3, <1>4 DEF Next

\* The files and the passes of every reachable state are as IInv says
\* (execute and extract_only, started one after the other and killed
\* anywhere).
THEOREM Inductive == ASSUME NEW p, Procs = {p} PROVE Spec => []IInv
<1>1. Init => IInv
  BY InitKeeps
<1>2. IInv /\ [Next]_vars => IInv'
  BY NextKeeps
<1> QED BY <1>1, <1>2, PTL DEF Spec

-----------------------------------------------------------------------------
(* One experiment in a directory.                                          *)

LEMMA ExperimentFollows == IInv => OneExperiment
<1> SUFFICES ASSUME IInv PROVE OneExperiment
  OBVIOUS
<1> USE DEF IInv
<1>1. CacheAttributed
  BY DEF CacheAttributed, Named, Range
<1>2. ClaimsShared
  <2> SUFFICES ASSUME NEW i \in DOMAIN answers
               PROVE  LET r == answers[i]
                      IN  /\ \E c \in Range(cache) : c.q = r.slot[1] /\ c.body = r.from
                          /\ \A s \in Range(answers) : s.slot[1] = r.slot[1] => s.from = r.from
                          /\ \A c \in Range(claimRows) : c.q = r.slot[1] => c.body = r.from
    BY DEF ClaimsShared, Range
  <2>1. BodyOnFile(answers[i].slot[1]) = answers[i].from /\ answers[i].from # None
    BY RowsTyped, NoneIs DEF Derived
  <2>2. PICK j \in DOMAIN cache : cache[j].q = answers[i].slot[1] /\ cache[j].body = answers[i].from
    BY <2>1, BodyIs
  <2>3. \A s \in Range(answers) : s.slot[1] = answers[i].slot[1] => s.from = answers[i].from
    BY <2>1 DEF Derived, Range
  <2>4. \A c \in Range(claimRows) : c.q = answers[i].slot[1] => c.body = answers[i].from
    BY <2>1 DEF Derived, Range
  <2> QED BY <2>2, <2>3, <2>4 DEF Range
<1>3. \A r \in Range(answers) \cup Range(verdicts) :
        manifest \in {r.by, Torn} /\ Extractor[r.by] = identity
  BY DEF Named, Range
<1> QED BY <1>1, <1>2, <1>3 DEF OneExperiment

\* Whatever passes are started and killed, of whatever settings, the rows of
\* a directory are those of the one experiment its records name, and all that
\* is on file of a question is of one extraction (check_manifest and
\* reconcile_extraction_identity).
THEOREM OneExperimentHolds == ASSUME NEW p, Procs = {p} PROVE Spec => []OneExperiment
BY Inductive, ExperimentFollows, PTL

-----------------------------------------------------------------------------
(* What a refused pass leaves.                                             *)

\* Until its gates have passed, the directory is as the pass found it, but for
\* the torn rows of three files; then it no longer compares.
AsFound(p) ==
  /\ pc[p] \in {"repair", "manifest", "identity", "refused"} /\ found[p] # None =>
       /\ found[p][1] = records /\ found[p][2] = rows
       /\ "cache" \in found[p][3] <=> "cache" \in torn
  /\ pc[p] \in Through => found[p] = None

LEMMA AsFoundStep ==
  ASSUME NEW p, Procs = {p}, IInv, AsFound(p), [Next]_vars
  PROVE  AsFound(p)'
<1> USE DEF IInv, AsFound, Through, Goto
<1>0. PassesOK
  OBVIOUS
<1>1. CASE UNCHANGED vars
  BY <1>1 DEF vars, directory, records, rows
<1>2. ASSUME NEW s \in Settings, NEW m \in Modes, Launch(p, s, m) PROVE AsFound(p)'
  <2>1. pc'[p] \in {"repair", "manifest"} /\ found'[p] = directory
    BY <1>2 DEF Launch, PassesOK
  <2>2. UNCHANGED <<records, rows, torn>>
    BY <1>2 DEF Launch, directory
  <2> QED BY <2>1, <2>2 DEF directory
<1>3. CASE Leave(p)
  <2>1. pc'[p] = "idle"
    BY <1>3 DEF Leave, PassesOK
  <2> QED BY <2>1
<1>4. CASE Repair(p)
  <2>1. pc[p] = "repair" /\ pc'[p] = "manifest" /\ found' = found /\ UNCHANGED <<records, rows>>
    BY <1>4 DEF Repair, PassesOK
  <2>2. "cache" \in torn <=> "cache" \in torn'
    BY <1>4 DEF Repair
  <2> QED BY <2>1, <2>2
<1>5. CASE CheckManifest(p)
  BY <1>5 DEF CheckManifest, directory, PassesOK
<1>6. CASE Reconcile(p)
  <2>1. pc'[p] = "record" \/ (pc'[p] = "refused" /\ UNCHANGED identity)
    BY <1>6 DEF Reconcile, PassesOK
  <2> QED BY <1>6, <2>1 DEF Reconcile, records, rows
<1>7. CASE WriteManifest(p)
  <2>1. pc'[p] = "load" /\ found'[p] = None
    BY <1>7 DEF WriteManifest, PassesOK
  <2> QED BY <2>1
<1>8. CASE Load(p) \/ Answered(p) \/ LoadVerdicts(p) \/ Score(p)
  <2>1. pc[p] \in Through /\ found' = found /\ pc'[p] \in Through \cup {"refused"}
    BY <1>8 DEF Load, Answered, LoadVerdicts, Score, PassesOK
  <2> QED BY <2>1
<1>9. CASE Judge(p) \/ \E q \in Questions : Extract(p, q) \/ Answer(p, q) \/ WriteClaims(p, q)
  <2>1. pc[p] \in Through /\ found' = found /\ pc' = pc
    BY <1>9 DEF Judge, Extract, Answer, WriteClaims, At
  <2> QED BY <2>1
<1> QED
  BY <1>1, <1>2, <1>3, <1>4, <1>5, <1>6, <1>7, <1>8, <1>9
  DEF Next, Step, Kill, Finalize, Dismiss

\* A refused pass leaves every row and record as it found them, although the
\* repairs of execute come before its gates.
THEOREM RefusedLeavesRows == ASSUME NEW p, Procs = {p} PROVE Spec => []RefusedKeepsRows
<1>1. Init => AsFound(p)
  BY DEF Init, AsFound, Through
<1>2. IInv /\ AsFound(p) /\ [Next]_vars => AsFound(p)'
  BY AsFoundStep
<1>3. AsFound(p) => RefusedKeepsRows
  BY DEF AsFound, RefusedKeepsRows
<1>4. Spec => []IInv
  BY Inductive
<1> QED BY <1>1, <1>2, <1>3, <1>4, PTL DEF Spec

-----------------------------------------------------------------------------
(* The directory implements the blind batch.                               *)

LEMMA BatchInit == Init => Batch!Init
<1> SUFFICES ASSUME Init PROVE Batch!Init
  OBVIOUS
<1>1. FilesOK /\ Once
  BY InitKeeps DEF IInv
<1>2. /\ \A q : BodyOnFile(q) = None
      /\ \A k : SaidOnFile(k) = None
  BY <1>1, BodyIs, SaidIs DEF Init
<1>3. Slots = Questions \X ArmSet
  BY DEF Slots
<1> QED BY <1>2, <1>3 DEF Batch!Init, Init

LEMMA FilesStay ==
  ASSUME UNCHANGED <<cache, answers, verdicts, scored>>
  PROVE  UNCHANGED Batch!vars
<1>1. /\ \A q : BodyOnFile(q)' = BodyOnFile(q)
      /\ \A k : SaidOnFile(k)' = SaidOnFile(k)
  BY BodyKept, SaidKept
<1> QED BY <1>1 DEF Batch!vars

LEMMA ExtractOfBatch ==
  ASSUME IInv, NEW p, Procs = {p}, NEW q \in Questions, Extract(p, q) PROVE Batch!Extract(q)
<1>1. PICK b \in Bodies : \A r : BodyOnFile(r)' = IF r = q THEN b ELSE BodyOnFile(r)
  BY ExtractKeeps
<1>2. BodyOnFile(q) = None
  BY ExtractKeeps
<1>3. UNCHANGED <<answers, verdicts, scored>>
  BY DEF Extract
<1>4. \A k : SaidOnFile(k)' = SaidOnFile(k)
  BY <1>3, SaidKept
<1>5. [r \in Questions |-> BodyOnFile(r)]' = [[r \in Questions |-> BodyOnFile(r)] EXCEPT ![q] = b]
  BY <1>1
<1> QED BY <1>2, <1>3, <1>4, <1>5 DEF Batch!Extract

LEMMA AnswerOfBatch ==
  ASSUME IInv, NEW p, Procs = {p}, NEW q \in Questions, Answer(p, q)
  PROVE  \E a \in ArmSet : Batch!Answer(q, a)
<1>1. PICK a \in ArmSet, t \in Answers :
        /\ SaidOnFile(<<q, a>>) = None
        /\ \A r : SaidOnFile(r)' =
                   IF r = <<q, a>> THEN [from |-> BodyOnFile(q), text |-> t] ELSE SaidOnFile(r)
  BY AnswerKeeps
<1>2. BodyOnFile(q) # None
  BY AnswerKeeps
<1>3. UNCHANGED <<cache, verdicts, scored>>
  BY DEF Answer
<1>4. \A r : BodyOnFile(r)' = BodyOnFile(r)
  BY <1>3, BodyKept
<1>5. <<q, a>> \in Slots
  BY DEF Slots
<1>6. [k \in Slots |-> SaidOnFile(k)]'
        = [[k \in Slots |-> SaidOnFile(k)] EXCEPT ![<<q, a>>] = [from |-> BodyOnFile(q), text |-> t]]
  BY <1>1, <1>5
<1> QED BY <1>1, <1>2, <1>3, <1>4, <1>5, <1>6 DEF Batch!Answer

LEMMA JudgeOfBatch == ASSUME IInv, NEW p, Procs = {p}, Judge(p) PROVE Batch!Judge
<1>1. PICK row : /\ verdicts' = Append(verdicts, row)
                 /\ SaidOnFile(Order[Len(verdicts) + 1]) = [from |-> row.from, text |-> row.text]
  BY JudgeKeeps
<1>2. Len(verdicts) < Len(Order) /\ \A r \in Slots : SaidOnFile(r) # None
  BY JudgeKeeps
<1>3. UNCHANGED <<cache, answers, scored>>
  BY DEF Judge
<1>4. /\ \A q : BodyOnFile(q)' = BodyOnFile(q)
      /\ \A k : SaidOnFile(k)' = SaidOnFile(k)
  BY <1>3, BodyKept, SaidKept
<1> DEFINE Given == [i \in DOMAIN verdicts |-> [from |-> verdicts[i].from, text |-> verdicts[i].text]]
           say   == [from |-> row.from, text |-> row.text]
<1>5. verdicts \in Seq([slot : Slots, by : Settings, from : Bodies, text : Answers])
  BY DEF IInv, FilesOK
<1>6. DOMAIN Given = 1 .. Len(verdicts) /\ Len(Given) = Len(verdicts) /\ Len(verdicts) \in Nat
  BY <1>5
<1>7. Given' = Append(Given, say)
  BY <1>1, <1>5, <1>6
<1>8. Order[Len(verdicts) + 1] \in Slots
  BY <1>2, <1>6, OrderPins
<1> QED BY <1>1, <1>2, <1>3, <1>4, <1>6, <1>7, <1>8 DEF Batch!Judge, Slots

\* Every slot is judged only when the verdicts are the whole order.
LEMMA ScoreOfBatch == ASSUME IInv, NEW p, Procs = {p}, Score(p) PROVE Batch!Score
<1>1. /\ Len(verdicts) <= Len(Order)
      /\ \A i \in DOMAIN verdicts : verdicts[i].slot = Order[i]
      /\ Slots = {verdicts[i].slot : i \in DOMAIN verdicts}
  BY DEF IInv, InOrder, Score
<1>2. verdicts \in Seq([slot : Slots, by : Settings, from : Bodies, text : Answers])
  BY DEF IInv, FilesOK
<1>3. DOMAIN verdicts = 1 .. Len(verdicts) /\ Len(verdicts) \in Nat
  BY <1>2
<1>4. Len(verdicts) = Len(Order)
  <2>1. CASE Len(verdicts) < Len(Order)
    <3>1. Len(verdicts) + 1 \in 1 .. Len(Order)
      BY <1>3, <2>1, OrderPins
    <3>2. Order[Len(verdicts) + 1] \in Slots
      BY <3>1, OrderPins
    <3>3. PICK i \in DOMAIN verdicts : Order[i] = Order[Len(verdicts) + 1]
      BY <1>1, <3>2
    <3>4. i \in 1 .. Len(Order) /\ i # Len(verdicts) + 1
      BY <1>1, <1>3, OrderPins
    <3> QED BY <3>1, <3>3, <3>4, OrderPins
  <2>2. CASE ~(Len(verdicts) < Len(Order))
    <3>1. Len(verdicts) \in Nat /\ Len(Order) \in Nat /\ Len(verdicts) <= Len(Order)
      BY <1>1, <1>3, OrderPins
    <3> QED BY <2>2, <3>1
  <2> QED BY <2>1, <2>2
<1>5. scored' = TRUE /\ UNCHANGED <<cache, answers, verdicts>>
  BY DEF Score, rows
<1>6. /\ \A q : BodyOnFile(q)' = BodyOnFile(q)
      /\ \A k : SaidOnFile(k)' = SaidOnFile(k)
  BY <1>5, BodyKept, SaidKept
<1>7. Len([i \in DOMAIN verdicts |-> [from |-> verdicts[i].from, text |-> verdicts[i].text]])
        = Len(verdicts)
  BY <1>2
<1> QED BY <1>4, <1>5, <1>6, <1>7 DEF Batch!Score

LEMMA StepOfBatch ==
  ASSUME IInv, NEW p, Procs = {p}, [Next]_vars
  PROVE  [Batch!Next]_Batch!vars
<1>1. CASE \E q \in Questions : Extract(p, q)
  BY <1>1, ExtractOfBatch DEF Batch!Next
<1>2. CASE \E q \in Questions : Answer(p, q)
  BY <1>2, AnswerOfBatch DEF Batch!Next
<1>3. CASE Judge(p)
  BY <1>3, JudgeOfBatch DEF Batch!Next
<1>4. CASE Score(p)
  BY <1>4, ScoreOfBatch DEF Batch!Next
<1>5. CASE UNCHANGED <<cache, answers, verdicts, scored>>
  BY <1>5, FilesStay
<1>6. \/ \E q \in Questions : Extract(p, q) \/ Answer(p, q)
      \/ Judge(p) \/ Score(p)
      \/ UNCHANGED <<cache, answers, verdicts, scored>>
  <2>1. CASE UNCHANGED vars
    BY <2>1 DEF vars, directory, rows
  <2>2. CASE \E s \in Settings, m \in Modes : Launch(p, s, m)
    BY <2>2 DEF Launch, directory, rows
  <2>3. CASE \/ Repair(p) \/ CheckManifest(p) \/ Reconcile(p) \/ WriteManifest(p) \/ Load(p)
             \/ (\E q \in Questions : WriteClaims(p, q)) \/ Answered(p) \/ LoadVerdicts(p)
    BY <2>3 DEF Repair, CheckManifest, Reconcile, WriteManifest, Load, WriteClaims, Answered,
                LoadVerdicts, directory, rows
  <2>4. CASE Finalize(p) \/ Dismiss(p) \/ Kill(p)
    BY <2>4 DEF Finalize, Dismiss, Kill, directory, rows
  <2> QED BY <2>1, <2>2, <2>3, <2>4 DEF Next, Step
<1> QED BY <1>1, <1>2, <1>3, <1>4, <1>5, <1>6

\* However often it was killed and resumed, and whatever else was started in
\* its directory, the run extracts a question once, has every arm answer it
\* once from that extraction, and judges the answers once, in the pinned order
\* and when all are there (answer_questions, judge_blind and replay_judge).
THEOREM BatchImplemented == ASSUME NEW p, Procs = {p} PROVE Spec => ImplementsBlindBatch
<1>1. Init => Batch!Init
  BY BatchInit
<1>2. IInv /\ [Next]_vars => [Batch!Next]_Batch!vars
  BY StepOfBatch
<1>3. Spec => []IInv
  BY Inductive
<1> QED BY <1>1, <1>2, <1>3, PTL DEF Spec, ImplementsBlindBatch, Batch!Spec
=============================================================================
