------------------------- MODULE Extraction_proofs --------------------------
(***************************************************************************)
(* Extraction, for any number of workers, questions, sessions, answers and *)
(* failures: a row was asked for with what the file holds before it, a     *)
(* pass names what it owes, and the whole implements PinnedExtraction.     *)
(***************************************************************************)
EXTENDS Extraction, TLAPS

Row == [s : Session, claim : Claim, primed : Seq(Claim)]

TypeOK ==
  /\ rows \in [Question -> Seq(Row)] /\ tail \in {"whole", "torn"} /\ spliced \in BOOLEAN
  /\ index \in [Question -> [Session -> Claim \cup {None}]]
  /\ run \in {"down", "running", "raised", "complete", "refused"}
  /\ next \in 1 .. Questions + 1
  /\ halt \in BOOLEAN /\ interrupted \in BOOLEAN /\ dropped \in BOOLEAN
  /\ at \in [Worker -> {"free", "walk", "ask", "put"}]
  /\ job \in [Worker -> 0 .. Questions]
  /\ walked \in [Worker -> Seq(Claim)]
  /\ answer \in [Worker -> Claim \cup {None}]
  /\ outcome \in [Question -> {"none", "cached", "unstarted", "skipped", "failed", "done"}]

\* The rows of a question are those of its first sessions, unless a row was lost
\* to a torn one.
FileInv ==
  \A q \in Question :
    /\ Len(rows[q]) <= Sessions
    /\ ~spliced => \A k \in 1 .. Len(rows[q]) :
         rows[q][k].s = k /\ rows[q][k].primed = [j \in 1 .. k - 1 |-> rows[q][j].claim]

Live == run \in {"running", "raised", "complete"}

\* What the memory of a process knows beyond the file: at most what a question
\* that failed has put there.
Memorised(q) ==
  /\ \A s, t \in Session : s < t /\ index[q][t] # None => index[q][s] # None
  /\ \A k \in 1 .. Len(rows[q]) : index[q][k] # None
  /\ ~spliced =>
       /\ \A k \in 1 .. Len(rows[q]) : index[q][k] = rows[q][k].claim
       /\ outcome[q] # "failed" => \A s \in Session : index[q][s] # None => s <= Len(rows[q])

\* A worker has walked what the memory says of its question, and no more.
Walks(w) ==
  at[w] # "free" =>
    /\ run = "running"
    /\ job[w] \in Question /\ job[w] < next /\ outcome[job[w]] = "none"
    /\ Len(walked[w]) <= Sessions
    /\ \A j \in 1 .. Len(walked[w]) : index[job[w]][j] = walked[w][j]
    /\ at[w] \in {"ask", "put"} => Here(w) <= Sessions /\ index[job[w]][Here(w)] = None
    /\ at[w] = "put" => answer[w] \in Claim

\* Two workers walk two questions.
Apart == \A v, w \in Worker : v # w /\ at[v] # "free" /\ at[w] # "free" => job[v] # job[w]

\* What the outcome of a question says.
Told(q) ==
  /\ q >= next => outcome[q] = "none"
  /\ q < next /\ outcome[q] = "none" => \E w \in Worker : at[w] # "free" /\ job[w] = q
  /\ outcome[q] \in {"done", "skipped", "cached"} => \A s \in Session : index[q][s] # None
  /\ outcome[q] = "unstarted" => halt /\ \E s \in Session : index[q][s] = None

SomeFailed == \E q \in Question : outcome[q] = "failed"

PassInv ==
  /\ halt => interrupted \/ SomeFailed
  /\ dropped => interrupted
  /\ run \in {"raised", "complete"} =>
       (next > Questions \/ dropped) /\ (run = "complete" <=> ~(interrupted \/ SomeFailed))

IInv ==
  /\ TypeOK /\ FileInv /\ Apart
  /\ \A w \in Worker : Walks(w)
  /\ Live => PassInv /\ \A q \in Question : Memorised(q) /\ Told(q)

-----------------------------------------------------------------------------
(* Types.                                                                  *)

LEMMA BlankTyped == Blank \in [Question -> [Session -> Claim \cup {None}]]
BY DEF Blank

LEMMA InitInv == Init => IInv
<1> SUFFICES ASSUME Init PROVE IInv
  OBVIOUS
<1>1. \A q \in Question : rows[q] = <<>>
  BY DEF Init
<1>2. FileInv
  BY <1>1, ExtractionAssumption DEF FileInv
<1>3. TypeOK
  <2>1. <<>> \in Seq(Row) /\ <<>> \in Seq(Claim)
    OBVIOUS
  <2>2. rows \in [Question -> Seq(Row)] /\ walked \in [Worker -> Seq(Claim)]
    BY <2>1 DEF Init
  <2>3. next \in 1 .. Questions + 1 /\ job \in [Worker -> 0 .. Questions]
    BY ExtractionAssumption DEF Init
  <2>4. /\ at \in [Worker -> {"free", "walk", "ask", "put"}]
        /\ answer \in [Worker -> Claim \cup {None}]
        /\ outcome \in [Question -> {"none", "cached", "unstarted", "skipped", "failed", "done"}]
    BY DEF Init
  <2>5. index \in [Question -> [Session -> Claim \cup {None}]]
    BY BlankTyped DEF Init
  <2> QED BY <2>2, <2>3, <2>4, <2>5 DEF Init, TypeOK
<1>4. \A w \in Worker : at[w] = "free"
  BY DEF Init
<1>5. Apart /\ (\A w \in Worker : Walks(w)) /\ ~Live
  BY <1>4 DEF Init, Walks, Apart, Live
<1> QED BY <1>2, <1>3, <1>5 DEF IInv

\* What a new process reads.
LEMMA MemoIs ==
  ASSUME TypeOK, FileInv, ~spliced, NEW q \in Question, NEW s \in Session
  PROVE  Memo[q][s] = IF s <= Len(rows[q]) THEN rows[q][s].claim ELSE None
<1> DEFINE mine == {k \in DOMAIN rows[q] : rows[q][k].s = s}
<1>1. DOMAIN rows[q] = 1 .. Len(rows[q]) /\ Len(rows[q]) \in Nat /\ s \in Nat \ {0}
  BY ExtractionAssumption DEF TypeOK, Session
<1>2. \A k \in DOMAIN rows[q] : rows[q][k].s = k
  BY <1>1 DEF FileInv
<1>3. mine = IF s <= Len(rows[q]) THEN {s} ELSE {}
  BY <1>1, <1>2
<1>4. Memo[q][s] = IF mine = {} THEN None ELSE rows[q][Max(mine)].claim
  BY DEF Memo
<1> HIDE DEF mine
<1>5. Max({s}) = s
  BY <1>1 DEF Max
<1> QED BY <1>3, <1>4, <1>5

\* The row a worker appends.
LEMMA RowTyped ==
  ASSUME TypeOK, NEW w \in Worker, Walks(w), at[w] = "put"
  PROVE  NewRow(w) \in Row /\ Append(rows[job[w]], NewRow(w)) \in Seq(Row)
<1>1. NewRow(w) \in Row
  BY ExtractionAssumption DEF TypeOK, Walks, NewRow, Row, Here, Session
<1>2. rows[job[w]] \in Seq(Row)
  BY DEF TypeOK, Walks
<1> QED BY <1>1, <1>2

LEMMA RowsTyped ==
  ASSUME TypeOK, NEW w \in Worker, Walks(w), at[w] = "put",
         WriteRow(w) \/ (tail' \in {tail, "torn"} /\ UNCHANGED <<rows, spliced>>)
  PROVE  /\ rows' \in [Question -> Seq(Row)] /\ tail' \in {"whole", "torn"} /\ spliced' \in BOOLEAN
BY RowTyped DEF TypeOK, WriteRow

LEMMA Remembered ==
  ASSUME TypeOK, NEW w \in Worker, Walks(w), at[w] = "put", Remember(w)
  PROVE  index' \in [Question -> [Session -> Claim \cup {None}]]
<1>1. Here(w) \in Session /\ job[w] \in Question
  BY ExtractionAssumption DEF TypeOK, Walks, Here, Session
<1> QED BY <1>1 DEF Remember, TypeOK

LEMMA WorkTyped == ASSUME TypeOK, NEW w \in Worker, Walks(w), Work(w) PROVE TypeOK'
<1>1. CASE TakeHalted(w)
  BY <1>1, ExtractionAssumption DEF TakeHalted, TypeOK, disk, pass, walk, bounds, Question,
     Session
<1>2. CASE Skip(w)
  BY <1>2, ExtractionAssumption DEF Skip, TypeOK, disk, pass, walk, bounds, Question, Session
<1>3. CASE Take(w)
  BY <1>3, ExtractionAssumption DEF Take, TypeOK, disk, pass, walk, bounds, Question, Session
<1>4. CASE Replay(w)
  BY <1>4, ExtractionAssumption DEF Replay, TypeOK, disk, pass, walk, bounds, Question, Session,
     Walks, Here
<1>5. CASE Ask(w)
  BY <1>5, ExtractionAssumption DEF Ask, TypeOK, disk, pass, walk, bounds, Question, Session
<1>6. CASE Answer(w)
  BY <1>6, ExtractionAssumption DEF Answer, TypeOK, disk, pass, walk, bounds, Question, Session
<1>7. CASE AskFails(w)
  BY <1>7, ExtractionAssumption DEF AskFails, TypeOK, disk, pass, walk, bounds, Question, Session,
     FailQuestion, Fault
<1>8. CASE Put(w)
  <2>1. answer[w] \in Claim /\ walked[w] \in Seq(Claim)
    BY <1>8 DEF Put, Walks, TypeOK
  <2>2. walked' \in [Worker -> Seq(Claim)]
    <3>1. Append(walked[w], answer[w]) \in Seq(Claim)
      BY <2>1
    <3> QED BY <1>8, <3>1 DEF Put, TypeOK
  <2> QED BY <1>8, <2>2, RowsTyped, Remembered DEF Put, TypeOK, pass, bounds
<1>9. CASE PutFails(w)
  BY <1>9, RowsTyped, Remembered, ExtractionAssumption DEF PutFails, TypeOK, disk, pass, walk,
     bounds, Question, Session, FailQuestion, Fault, Walks
<1>10. CASE Finish(w)
  BY <1>10, ExtractionAssumption DEF Finish, TypeOK, disk, pass, walk, bounds, Question, Session,
     Walks
<1> QED BY <1>1, <1>2, <1>3, <1>4, <1>5, <1>6, <1>7, <1>8, <1>9, <1>10 DEF Work

LEMMA OthersTyped ==
  ASSUME TypeOK, FileInv, \/ Main \/ InterruptSerial \/ InterruptPool \/ InterruptAgain \/ Crash \/ Over
  PROVE  TypeOK'
<1>1. CASE Start
  <2>1. Memo \in [Question -> [Session -> Claim \cup {None}]]
    <3>1. ASSUME NEW q \in Question, NEW s \in Session PROVE Memo[q][s] \in Claim \cup {None}
      <4>1. Memo[q][s] = IF s <= Len(rows[q]) THEN rows[q][s].claim ELSE None
        BY <1>1, MemoIs DEF Start
      <4>2. s <= Len(rows[q]) => rows[q][s] \in Row
        BY DEF TypeOK, Session
      <4> QED BY <4>1, <4>2 DEF Row
    <3>2. Memo = [q \in Question |-> Memo[q]]
      BY DEF Memo
    <3>3. \A q \in Question : Memo[q] = [s \in Session |-> Memo[q][s]]
      BY DEF Memo
    <3>4. \A q \in Question : Memo[q] \in [Session -> Claim \cup {None}]
      BY <3>1, <3>3
    <3> QED BY <3>2, <3>4
  <2>2. /\ next' \in 1 .. Questions + 1
        /\ outcome' \in [Question -> {"none", "cached", "unstarted", "skipped", "failed", "done"}]
    BY <1>1, ExtractionAssumption DEF Start
  <2> QED BY <1>1, <2>1, <2>2 DEF Start, TypeOK, walk
<1>2. CASE Refuse \/ Return \/ InterruptSerial \/ InterruptPool \/ Over
  BY <1>2 DEF Refuse, Return, InterruptSerial, InterruptPool, Over, TypeOK, vars, disk, pass,
     walk, bounds
<1>3. CASE InterruptAgain \/ Crash
  <2>1. index' \in [Question -> [Session -> Claim \cup {None}]]
    BY <1>3, BlankTyped DEF InterruptAgain, Crash, Die, Forget
  <2>2. \A w \in Worker : <<>> \in Seq(Claim)
    OBVIOUS
  <2>3. walked' \in [Worker -> Seq(Claim)]
    BY <1>3, <2>2 DEF InterruptAgain, Crash, Die, Forget
  <2>4. /\ job' \in [Worker -> 0 .. Questions] /\ next' \in 1 .. Questions + 1
        /\ tail' \in {"whole", "torn"}
    BY <1>3, ExtractionAssumption DEF InterruptAgain, Crash, Die, Forget, TypeOK
  <2> QED BY <1>3, <2>1, <2>3, <2>4 DEF InterruptAgain, Crash, Die, Forget, TypeOK
<1> QED BY <1>1, <1>2, <1>3 DEF Main

-----------------------------------------------------------------------------
(* What a worker knows when it asks, and the row it writes.                *)

\* A worker that asks for a session or records it has walked the file's rows of
\* its question, unless one was lost.
LEMMA Asks ==
  ASSUME IInv, NEW w \in Worker, at[w] \in {"ask", "put"}
  PROVE  /\ job[w] \in Question /\ Here(w) \in Session /\ Here(w) = Len(walked[w]) + 1
         /\ Len(walked[w]) \in Nat /\ Len(rows[job[w]]) \in Nat
         /\ run = "running" /\ outcome[job[w]] = "none" /\ Memorised(job[w])
         /\ index[job[w]][Here(w)] = None
         /\ Len(rows[job[w]]) < Here(w)
         /\ \A s \in Session : index[job[w]][s] # None <=> s < Here(w)
         /\ ~spliced =>
              /\ Len(rows[job[w]]) = Len(walked[w])
              /\ walked[w] = [j \in 1 .. Len(walked[w]) |-> rows[job[w]][j].claim]
<1> DEFINE q == job[w]
<1>1. /\ TypeOK /\ FileInv /\ Walks(w) /\ run = "running" /\ q \in Question /\ outcome[q] = "none"
      /\ Memorised(q) /\ Here(w) <= Sessions /\ index[q][Here(w)] = None
      /\ Len(walked[w]) <= Sessions /\ \A j \in 1 .. Len(walked[w]) : index[q][j] = walked[w][j]
  BY DEF IInv, Live, Walks
<1>2. walked[w] \in Seq(Claim) /\ rows[q] \in Seq(Row) /\ Sessions \in Nat
  BY <1>1, ExtractionAssumption DEF TypeOK
<1>3. Len(walked[w]) \in Nat /\ Len(rows[q]) \in Nat /\ Here(w) = Len(walked[w]) + 1
  BY <1>2 DEF Here
<1>4. Here(w) \in Session
  BY <1>1, <1>2, <1>3 DEF Session
<1>5. \A j \in 1 .. Len(walked[w]) : walked[w][j] \in Claim /\ walked[w][j] # None
  BY <1>2, <1>3, ExtractionAssumption
<1>6. Len(rows[q]) < Here(w)
  <2>1. Len(rows[q]) <= Sessions
    BY <1>1 DEF FileInv
  <2> QED BY <1>1, <1>2, <1>3, <2>1 DEF Memorised
<1>7. ASSUME NEW s \in Session PROVE index[q][s] # None <=> s < Here(w)
  <2>1. s \in Nat /\ Here(w) \in Nat /\ 1 <= s
    BY <1>2, <1>4 DEF Session
  <2>2. CASE s < Here(w)
    <3>1. s \in 1 .. Len(walked[w])
      BY <1>3, <2>1, <2>2
    <3>2. index[q][s] = walked[w][s] /\ walked[w][s] # None
      BY <1>1, <1>5, <3>1
    <3> QED BY <2>2, <3>2
  <2>3. CASE ~(s < Here(w))
    <3>1. SUFFICES ASSUME index[q][s] # None PROVE FALSE
      BY <2>3
    <3>2. CASE s = Here(w)
      BY <1>1, <3>1, <3>2
    <3>3. CASE Here(w) < s
      <4>1. \A i, j \in Session : i < j /\ index[q][j] # None => index[q][i] # None
        BY <1>1 DEF Memorised
      <4> QED BY <1>1, <1>4, <3>1, <3>3, <4>1
    <3> QED BY <2>1, <2>3, <3>2, <3>3
  <2> QED BY <2>2, <2>3
<1>8. ASSUME ~spliced
      PROVE  /\ Len(rows[q]) = Len(walked[w])
             /\ walked[w] = [j \in 1 .. Len(walked[w]) |-> rows[q][j].claim]
  <2>1. Len(walked[w]) <= Len(rows[q])
    <3>1. CASE Len(walked[w]) = 0
      BY <1>3, <3>1
    <3>2. CASE Len(walked[w]) # 0
      <4>1. Len(walked[w]) \in Session /\ index[q][Len(walked[w])] # None
        BY <1>1, <1>2, <1>3, <1>5, <3>2 DEF Session
      <4> QED BY <1>1, <1>8, <4>1 DEF Memorised
    <3> QED BY <3>1, <3>2
  <2>2. Len(rows[q]) = Len(walked[w])
    BY <1>3, <1>6, <2>1
  <2>3. \A j \in 1 .. Len(walked[w]) : walked[w][j] = rows[q][j].claim
    BY <1>1, <1>8, <2>2 DEF Memorised
  <2> QED BY <1>2, <1>3, <2>2, <2>3
<1> QED BY <1>1, <1>3, <1>4, <1>6, <1>7, <1>8

LEMMA FileKept ==
  ASSUME IInv, NEW w \in Worker, at[w] = "put", WriteRow(w) \/ UNCHANGED <<rows, spliced>>
  PROVE  FileInv'
<1> DEFINE q == job[w]
<1>1. TypeOK /\ FileInv /\ Walks(w) /\ Sessions \in Nat /\ q \in Question
  BY ExtractionAssumption, Asks DEF IInv
<1>2. CASE UNCHANGED <<rows, spliced>>
  BY <1>1, <1>2 DEF FileInv
<1>3. CASE WriteRow(w) /\ tail = "torn"
  BY <1>1, <1>3 DEF WriteRow, FileInv, TypeOK
<1>4. CASE WriteRow(w) /\ tail # "torn"
  <2>1. /\ rows' = [rows EXCEPT ![q] = Append(rows[q], NewRow(w))] /\ spliced' = spliced
    BY <1>4 DEF WriteRow
  <2>2. /\ rows'[q] = Append(rows[q], NewRow(w)) /\ rows[q] \in Seq(Row)
        /\ \A p \in Question \ {q} : rows'[p] = rows[p]
    BY <1>1, <2>1 DEF TypeOK
  <2> DEFINE n == Len(rows[q])
  <2>3. n \in Nat /\ n + 1 <= Sessions
    <3>1. n \in Nat /\ n < Here(w) /\ Here(w) \in Session
      BY Asks
    <3> QED BY <1>1, <3>1 DEF Session
  <2>4. Len(rows'[q]) = n + 1 /\ rows'[q][n + 1] = NewRow(w) /\ \A k \in 1 .. n : rows'[q][k] = rows[q][k]
    BY <1>1, <2>2, RowTyped
  <2>5. ~spliced => NewRow(w).s = n + 1 /\ NewRow(w).primed = [j \in 1 .. n |-> rows[q][j].claim]
    BY Asks DEF NewRow
  <2> HIDE DEF n, q
  <2>6. ASSUME ~spliced, NEW k \in 1 .. n + 1
        PROVE  rows'[q][k].s = k /\ rows'[q][k].primed = [j \in 1 .. k - 1 |-> rows'[q][j].claim]
    <3>1. CASE k = n + 1
      BY <2>3, <2>4, <2>5, <2>6, <3>1
    <3>2. CASE k \in 1 .. n
      <4>1. rows[q][k].s = k /\ rows[q][k].primed = [j \in 1 .. k - 1 |-> rows[q][j].claim]
        BY <1>1, <2>6, <3>2 DEF FileInv, n
      <4> QED BY <2>3, <2>4, <3>2, <4>1
    <3> QED BY <2>3, <3>1, <3>2
  <2> QED BY <1>1, <2>1, <2>2, <2>3, <2>4, <2>6 DEF FileInv
<1> QED BY <1>2, <1>3, <1>4

-----------------------------------------------------------------------------
(* The steps of a worker.                                                  *)

\* Only the worker that takes or puts touches a question.
LEMMA OneWorker ==
  ASSUME TypeOK, NEW w \in Worker, Work(w)
  PROVE  /\ \A v \in Worker \ {w} :
              at'[v] = at[v] /\ job'[v] = job[v] /\ walked'[v] = walked[v] /\ answer'[v] = answer[v]
         /\ UNCHANGED <<interrupted, dropped, crew>>
BY DEF TypeOK, Work, TakeHalted, Skip, Take, Replay, Ask, Answer, AskFails, Put, PutFails, Finish,
   FailQuestion, disk, pass, walk, bounds

Starting(w) == TakeHalted(w) \/ Skip(w) \/ Take(w)
Walking(w) == Replay(w) \/ Ask(w) \/ Answer(w)
Writing(w) == Put(w) \/ PutFails(w)

\* A question is handed out.
LEMMA StartingKept ==
  ASSUME IInv, NEW w \in Worker, Starting(w), TypeOK' PROVE IInv'
<1>1. /\ TypeOK /\ FileInv /\ Apart /\ run = "running" /\ run' = "running" /\ PassInv /\ next \in Question
      /\ UNCHANGED <<rows, tail, spliced, index, halt, interrupted, dropped>> /\ next' = next + 1
      /\ at[w] = "free" /\ \A q \in Question : Memorised(q) /\ Told(q)
  <2>1. /\ run = "running" /\ run' = "running" /\ next <= Questions
        /\ UNCHANGED <<rows, tail, spliced, index, halt, interrupted, dropped>> /\ next' = next + 1
        /\ at[w] = "free"
    BY DEF Starting, TakeHalted, Skip, Take, disk
  <2>2. TypeOK /\ FileInv /\ Apart /\ PassInv /\ \A q \in Question : Memorised(q) /\ Told(q)
    BY <2>1 DEF IInv, Live
  <2>3. next \in Question
    BY <2>1, <2>2, ExtractionAssumption DEF TypeOK, Question
  <2> QED BY <2>1, <2>2, <2>3
<1>2. outcome[next] = "none"
  BY <1>1 DEF Told, Question
<1>3. \A v \in Worker : at[v] # "free" => job[v] # next
  BY <1>1 DEF IInv, Walks, Question, TypeOK
<1>4. FileInv'
  BY <1>1 DEF FileInv
<1>5. CASE TakeHalted(w) \/ Skip(w)
  <2>1. UNCHANGED <<at, job, walked, answer>>
    BY <1>5 DEF TakeHalted, Skip, walk
  <2>2. \E o \in {"cached", "skipped", "unstarted"} :
          /\ outcome' = [outcome EXCEPT ![next] = o]
          /\ o \in {"cached", "skipped"} => \A s \in Session : index[next][s] # None
          /\ o = "unstarted" => halt /\ \E s \in Session : index[next][s] = None
    BY <1>5 DEF TakeHalted, Skip, FullyCached
  <2>3. PICK o \in {"cached", "skipped", "unstarted"} :
          /\ outcome' = [outcome EXCEPT ![next] = o]
          /\ o \in {"cached", "skipped"} => \A s \in Session : index[next][s] # None
          /\ o = "unstarted" => halt /\ \E s \in Session : index[next][s] = None
    BY <2>2
  <2>4. outcome'[next] = o /\ \A q \in Question \ {next} : outcome'[q] = outcome[q]
    BY <1>1, <2>3 DEF TypeOK
  <2>5. Apart' /\ \A v \in Worker : Walks(v)'
    BY <1>1, <1>3, <2>1, <2>4 DEF IInv, Walks, Apart, Here, Question, TypeOK
  <2>6. \A q \in Question : Memorised(q)'
    BY <1>1, <1>2, <2>4 DEF Memorised
  <2>7. \A q \in Question : Told(q)'
    BY <1>1, <2>1, <2>3, <2>4 DEF Told, Question, TypeOK
  <2>8. PassInv'
    <3>1. SomeFailed => SomeFailed'
      BY <1>2, <2>4 DEF SomeFailed
    <3> QED BY <1>1, <3>1 DEF PassInv
  <2> QED BY <1>4, <2>5, <2>6, <2>7, <2>8 DEF IInv
<1>6. CASE Take(w)
  <2>1. /\ at' = [at EXCEPT ![w] = "walk"] /\ job' = [job EXCEPT ![w] = next]
        /\ walked' = [walked EXCEPT ![w] = <<>>] /\ outcome' = outcome
    BY <1>6 DEF Take
  <2>2. at'[w] = "walk" /\ job'[w] = next /\ walked'[w] = <<>>
    BY <1>1, <2>1 DEF TypeOK
  <2>3. \A v \in Worker \ {w} : at'[v] = at[v] /\ job'[v] = job[v] /\ walked'[v] = walked[v] /\ answer'[v] = answer[v]
    BY <1>1, <1>6, OneWorker DEF Work
  <2>4. Walks(w)'
    BY <1>1, <1>2, <2>1, <2>2, ExtractionAssumption DEF Walks, Question
  <2>5. \A v \in Worker \ {w} : Walks(v)'
    BY <1>1, <2>1, <2>3 DEF IInv, Walks, Here, Question, TypeOK
  <2>6. Apart'
    BY <1>1, <1>3, <2>2, <2>3 DEF Apart
  <2>7. \A q \in Question : Memorised(q)'
    BY <1>1, <2>1 DEF Memorised
  <2>8. \A q \in Question : Told(q)'
    BY <1>1, <2>1, <2>2, <2>3 DEF Told, Question, TypeOK
  <2>9. PassInv'
    BY <1>1, <2>1 DEF PassInv, SomeFailed
  <2> QED BY <1>4, <2>4, <2>5, <2>6, <2>7, <2>8, <2>9 DEF IInv
<1> QED BY <1>5, <1>6 DEF Starting

\* A session is replayed from memory, asked for, answered; a question is done.
LEMMA WalkingKept ==
  ASSUME IInv, NEW w \in Worker, Walking(w) \/ Finish(w), TypeOK' PROVE IInv'
<1>1. /\ TypeOK /\ FileInv /\ Apart /\ at[w] # "free" /\ Walks(w)
      /\ UNCHANGED <<rows, tail, spliced, index, run, next, halt, interrupted, dropped, job>>
      /\ \A v \in Worker : Walks(v)
  BY DEF IInv, Walking, Replay, Ask, Answer, Finish, disk, pass
<1>2. /\ run = "running" /\ job[w] \in Question /\ outcome[job[w]] = "none" /\ PassInv
      /\ \A q \in Question : Memorised(q) /\ Told(q)
  BY <1>1 DEF IInv, Live, Walks
<1>3. \A v \in Worker \ {w} :
        at'[v] = at[v] /\ job'[v] = job[v] /\ walked'[v] = walked[v] /\ answer'[v] = answer[v]
  BY <1>1, OneWorker DEF Work, Walking
<1>4. FileInv'
  BY <1>1 DEF FileInv
<1>5. CASE Walking(w)
  <2>1. outcome' = outcome /\ at'[w] # "free"
    BY <1>1, <1>5 DEF Walking, Replay, Ask, Answer, pass, TypeOK
  <2>2. Walks(w)'
    <3>1. CASE Replay(w)
      <4>1. /\ Here(w) \in Session /\ index[job[w]][Here(w)] # None
            /\ walked'[w] = Append(walked[w], index[job[w]][Here(w)]) /\ at'[w] = "walk"
            /\ Len(walked[w]) \in Nat /\ Here(w) = Len(walked[w]) + 1
        BY <1>1, <3>1, ExtractionAssumption DEF Replay, Here, Session, TypeOK
      <4>2. index[job[w]][Here(w)] \in Claim /\ walked[w] \in Seq(Claim)
        BY <1>1, <1>2, <4>1 DEF TypeOK
      <4>3. /\ Len(walked'[w]) = Here(w) /\ walked'[w][Here(w)] = index[job[w]][Here(w)]
            /\ \A j \in 1 .. Len(walked[w]) : walked'[w][j] = walked[w][j]
        BY <4>1, <4>2
      <4> QED BY <1>1, <1>2, <2>1, <4>1, <4>3 DEF Walks, Session
    <3>2. CASE Ask(w)
      BY <1>1, <2>1, <3>2 DEF Ask, Walks, Here, TypeOK
    <3>3. CASE Answer(w)
      BY <1>1, <2>1, <3>3 DEF Answer, Walks, Here, TypeOK
    <3> QED BY <1>5, <3>1, <3>2, <3>3 DEF Walking
  <2>3. \A v \in Worker \ {w} : Walks(v)'
    BY <1>1, <1>3, <2>1 DEF Walks, Here
  <2>4. Apart'
    BY <1>1, <1>3 DEF Apart
  <2>5. \A q \in Question : Memorised(q)' /\ Told(q)'
    BY <1>1, <1>2, <1>3, <2>1 DEF Memorised, Told
  <2>6. PassInv'
    BY <1>1, <1>2, <2>1 DEF PassInv, SomeFailed
  <2> QED BY <1>4, <2>2, <2>3, <2>4, <2>5, <2>6 DEF IInv
<1>6. CASE Finish(w)
  <2>1. at'[w] = "free" /\ outcome' = [outcome EXCEPT ![job[w]] = "done"] /\ Here(w) > Sessions
    BY <1>1, <1>6 DEF Finish, TypeOK
  <2>2. outcome'[job[w]] = "done" /\ \A q \in Question \ {job[w]} : outcome'[q] = outcome[q]
    BY <1>1, <1>2, <2>1 DEF TypeOK
  <2>3. \A s \in Session : index[job[w]][s] # None
    <3>1. walked[w] \in Seq(Claim) /\ Len(walked[w]) = Sessions
      BY <1>1, <2>1, ExtractionAssumption DEF TypeOK, Walks, Here
    <3> QED BY <1>1, <3>1, ExtractionAssumption DEF Walks, Session
  <2>4. \A v \in Worker \ {w} : Walks(v)'
    BY <1>1, <1>3, <2>2 DEF Apart, Walks, Here
  <2>5. Walks(w)' /\ Apart'
    BY <1>1, <1>3, <2>1 DEF Walks, Apart
  <2>6. \A q \in Question : Memorised(q)'
    BY <1>1, <1>2, <2>2 DEF Memorised
  <2>7. \A q \in Question : Told(q)'
    <3> SUFFICES ASSUME NEW q \in Question PROVE Told(q)'
      OBVIOUS
    <3>1. CASE q = job[w]
      <4>1. ~(q >= next)
        BY <1>1, <1>2, <3>1 DEF Walks, Question, TypeOK
      <4> QED BY <1>1, <2>2, <2>3, <3>1, <4>1 DEF Told
    <3>2. CASE q # job[w]
      <4>1. Told(q) /\ outcome'[q] = outcome[q]
        BY <1>2, <2>2, <3>2
      <4>2. \A v \in Worker : at[v] # "free" /\ job[v] = q => at'[v] # "free" /\ job'[v] = q
        BY <1>1, <1>3, <3>2
      <4> QED BY <1>1, <4>1, <4>2 DEF Told
    <3> QED BY <3>1, <3>2
  <2>8. PassInv'
    BY <1>1, <1>2, <2>2 DEF PassInv, SomeFailed
  <2> QED BY <1>4, <2>4, <2>5, <2>6, <2>7, <2>8 DEF IInv
<1> QED BY <1>5, <1>6

\* A question whose call or append failed, in what all of them leave alone.
LEMMA FailedKept ==
  ASSUME IInv, NEW w \in Worker, at[w] # "free", FailQuestion(w), TypeOK',
         \A q \in Question \ {job[w]} : Memorised(q) => Memorised(q)',
         \A q \in Question \ {job[w]} : index'[q] = index[q]
  PROVE  /\ Apart' /\ PassInv' /\ (\A v \in Worker : Walks(v)') /\ run' = run /\ run = "running"
         /\ (\A q \in Question : Told(q)') /\ outcome'[job[w]] = "failed"
         /\ \A q \in Question \ {job[w]} : Memorised(q)'
<1>1. /\ TypeOK /\ Apart /\ Walks(w) /\ \A v \in Worker : Walks(v)
      /\ UNCHANGED <<run, next, interrupted, dropped, job, walked>> /\ halt' = TRUE
      /\ outcome' = [outcome EXCEPT ![job[w]] = "failed"] /\ at' = [at EXCEPT ![w] = "free"]
      /\ answer' = [answer EXCEPT ![w] = None]
  BY DEF IInv, FailQuestion
<1>2. /\ run = "running" /\ job[w] \in Question /\ outcome[job[w]] = "none" /\ PassInv /\ job[w] < next
      /\ \A q \in Question : Memorised(q) /\ Told(q)
  BY <1>1 DEF IInv, Live, Walks
<1>3. /\ at'[w] = "free" /\ outcome'[job[w]] = "failed"
      /\ \A v \in Worker \ {w} : at'[v] = at[v] /\ answer'[v] = answer[v]
      /\ \A q \in Question \ {job[w]} : outcome'[q] = outcome[q]
  BY <1>1, <1>2 DEF TypeOK
<1>4. Apart' /\ PassInv'
  BY <1>1, <1>2, <1>3 DEF Apart, PassInv, SomeFailed
<1>5. ASSUME NEW v \in Worker PROVE Walks(v)'
  BY <1>1, <1>2, <1>3 DEF Apart, Walks, Here
<1>6. ASSUME NEW q \in Question PROVE Told(q)'
  <2>1. CASE q = job[w]
    <3>1. ~(q >= next)
      BY <1>1, <1>2, <2>1 DEF Question, TypeOK
    <3> QED BY <1>1, <1>3, <2>1, <3>1 DEF Told
  <2>2. CASE q # job[w]
    <3>1. Told(q) /\ outcome'[q] = outcome[q] /\ index'[q] = index[q]
      BY <1>2, <1>3, <2>2
    <3>2. \A v \in Worker : at[v] # "free" /\ job[v] = q => at'[v] # "free" /\ job'[v] = q
      BY <1>1, <1>3, <2>2
    <3> QED BY <1>1, <3>1, <3>2 DEF Told
  <2> QED BY <2>1, <2>2
<1> QED BY <1>1, <1>2, <1>3, <1>4, <1>5, <1>6

\* The memory after a put, whether or not its row is in the file.
LEMMA PutRemembers ==
  ASSUME IInv, NEW w \in Worker, at[w] = "put", Remember(w)
  PROVE  /\ index'[job[w]][Here(w)] = answer[w] /\ answer[w] # None
         /\ \A s \in Session \ {Here(w)} : index'[job[w]][s] = index[job[w]][s]
         /\ \A q \in Question \ {job[w]} : index'[q] = index[q]
         /\ \A s \in Session : index'[job[w]][s] # None <=> s <= Here(w)
<1>1. /\ TypeOK /\ job[w] \in Question /\ Here(w) \in Session /\ answer[w] \in Claim
      /\ \A s \in Session : index[job[w]][s] # None <=> s < Here(w)
  BY Asks DEF IInv, Walks
<1>2. answer[w] # None
  BY <1>1, ExtractionAssumption
<1>3. /\ index'[job[w]][Here(w)] = answer[w]
      /\ \A s \in Session \ {Here(w)} : index'[job[w]][s] = index[job[w]][s]
      /\ \A q \in Question \ {job[w]} : index'[q] = index[q]
  BY <1>1 DEF Remember, TypeOK
<1> QED BY <1>1, <1>2, <1>3 DEF Session

\* What the file holds after a row was written, or lost to a torn one.
LEMMA WriteRowIs ==
  ASSUME IInv, NEW w \in Worker, at[w] = "put", WriteRow(w)
  PROVE  /\ \A q \in Question \ {job[w]} : rows'[q] = rows[q]
         /\ spliced => spliced'
         /\ \/ spliced' /\ rows' = rows
            \/ /\ spliced' = spliced /\ Len(rows'[job[w]]) = Len(rows[job[w]]) + 1
               /\ rows'[job[w]][Len(rows[job[w]]) + 1].claim = answer[w]
               /\ \A k \in 1 .. Len(rows[job[w]]) : rows'[job[w]][k] = rows[job[w]][k]
<1>1. TypeOK /\ Walks(w) /\ job[w] \in Question
  BY Asks DEF IInv
<1>2. CASE tail = "torn"
  BY <1>1, <1>2 DEF WriteRow
<1>3. CASE tail # "torn"
  <2>1. rows' = [rows EXCEPT ![job[w]] = Append(@, NewRow(w))] /\ spliced' = spliced
    BY <1>3 DEF WriteRow
  <2>2. rows[job[w]] \in Seq(Row) /\ NewRow(w) \in Row /\ NewRow(w).claim = answer[w]
    BY <1>1, RowTyped DEF TypeOK, NewRow
  <2>3. /\ rows'[job[w]] = Append(rows[job[w]], NewRow(w))
        /\ \A q \in Question \ {job[w]} : rows'[q] = rows[q]
    BY <1>1, <2>1 DEF TypeOK
  <2> QED BY <2>1, <2>2, <2>3
<1> QED BY <1>2, <1>3

LEMMA WrittenMemorised ==
  ASSUME IInv, NEW w \in Worker, at[w] = "put", Remember(w),
         NEW q \in Question, q = job[w],
         WriteRow(w) \/ (outcome'[q] = "failed" /\ UNCHANGED <<rows, spliced>>)
  PROVE  Memorised(q)'
<1> DEFINE n == Len(rows[q])
           h == Here(w)
<1>1. n \in Nat /\ n < h /\ h \in Session /\ h = Len(walked[w]) + 1
  BY Asks
<1>2. ~spliced => n = Len(walked[w])
  BY Asks
<1>3. /\ index'[q][h] = answer[w] /\ answer[w] # None
      /\ \A s \in Session \ {h} : index'[q][s] = index[q][s]
      /\ \A s \in Session : index'[q][s] # None <=> s <= h
  BY PutRemembers
<1>4. Memorised(q) /\ Sessions \in Nat
  BY Asks, ExtractionAssumption
<1>5. CASE WriteRow(w)
  <2>1. /\ spliced => spliced'
        /\ \/ spliced' /\ rows' = rows
           \/ /\ spliced' = spliced /\ Len(rows'[q]) = n + 1 /\ rows'[q][n + 1].claim = answer[w]
              /\ \A k \in 1 .. n : rows'[q][k] = rows[q][k]
    BY <1>5, WriteRowIs
  <2> HIDE DEF n, h
  <2>2. CASE spliced' /\ rows' = rows
    BY <1>1, <1>3, <1>4, <2>2 DEF Memorised, Session, n
  <2>3. CASE /\ spliced' = spliced /\ Len(rows'[q]) = n + 1 /\ rows'[q][n + 1].claim = answer[w]
             /\ \A k \in 1 .. n : rows'[q][k] = rows[q][k]
    <3>1. \A s, t \in Session : s < t /\ index'[q][t] # None => index'[q][s] # None
      BY <1>1, <1>3 DEF Session
    <3>2. \A k \in 1 .. Len(rows'[q]) : index'[q][k] # None
      BY <1>1, <1>3, <1>4, <2>3 DEF Session
    <3>3. ~spliced => n + 1 = h
      BY <1>1, <1>2
    <3>4. ASSUME ~spliced, NEW k \in 1 .. Len(rows'[q]) PROVE index'[q][k] = rows'[q][k].claim
      <4>1. CASE k = h
        BY <1>3, <2>3, <3>3, <3>4, <4>1
      <4>2. CASE k # h
        <5>1. k \in 1 .. n /\ k \in Session \ {h}
          BY <1>1, <1>4, <2>3, <3>3, <3>4, <4>2 DEF Session
        <5>2. index[q][k] = rows[q][k].claim
          BY <1>4, <3>4, <5>1 DEF Memorised, n
        <5> QED BY <1>3, <2>3, <5>1, <5>2
      <4> QED BY <4>1, <4>2
    <3>5. ~spliced => \A s \in Session : index'[q][s] # None => s <= Len(rows'[q])
      BY <1>3, <2>3, <3>3
    <3> QED BY <2>3, <3>1, <3>2, <3>4, <3>5 DEF Memorised
  <2> QED BY <2>1, <2>2, <2>3
<1>6. CASE outcome'[q] = "failed" /\ UNCHANGED <<rows, spliced>>
  <2>1. ASSUME ~spliced, NEW k \in 1 .. n PROVE index'[q][k] = rows[q][k].claim
    <3>1. k \in Session \ {h}
      BY <1>1, <1>4, <2>1 DEF Session
    <3> QED BY <1>3, <1>4, <2>1, <3>1 DEF Memorised
  <2>2. \A k \in 1 .. n : index'[q][k] # None
    BY <1>1, <1>3, <1>4 DEF Session
  <2> QED BY <1>1, <1>3, <1>6, <2>1, <2>2 DEF Memorised, Session
<1> QED BY <1>5, <1>6

LEMMA AskFailsKept == ASSUME IInv, NEW w \in Worker, AskFails(w), TypeOK' PROVE IInv'
<1>1. /\ FailQuestion(w) /\ UNCHANGED <<rows, tail, spliced, index>> /\ at[w] # "free"
      /\ at[w] = "ask"
  BY DEF AskFails, disk
<1>2. /\ TypeOK /\ FileInv /\ job[w] \in Question /\ \A q \in Question : Memorised(q)
  BY <1>1, Asks DEF IInv, Live
<1>3. outcome' = [outcome EXCEPT ![job[w]] = "failed"]
  BY <1>1 DEF FailQuestion
<1>4. \A q \in Question : Memorised(q)'
  BY <1>1, <1>2, <1>3 DEF Memorised, TypeOK
<1>5. FileInv'
  BY <1>1, <1>2 DEF FileInv
<1> QED BY <1>1, <1>4, <1>5, FailedKept DEF IInv

\* A claim is recorded, or its append fails.
LEMMA WritingKept == ASSUME IInv, NEW w \in Worker, Writing(w), TypeOK' PROVE IInv'
<1>1. /\ at[w] = "put" /\ Remember(w) /\ TypeOK /\ Apart /\ PassInv /\ run = "running"
      /\ job[w] \in Question /\ outcome[job[w]] = "none" /\ Walks(w)
      /\ \A q \in Question : Memorised(q) /\ Told(q)
  <2>1. at[w] = "put" /\ Remember(w)
    BY DEF Writing, Put, PutFails
  <2>2. run = "running" /\ job[w] \in Question /\ outcome[job[w]] = "none"
    BY <2>1, Asks
  <2> QED BY <2>1, <2>2 DEF IInv, Live
<1>2. WriteRow(w) \/ UNCHANGED <<rows, spliced>>
  BY DEF Writing, Put, PutFails
<1>3. FileInv'
  BY <1>1, <1>2, FileKept
<1>4. \A q \in Question \ {job[w]} : index'[q] = index[q]
  BY <1>1, PutRemembers
<1>5. (\A q \in Question \ {job[w]} : rows'[q] = rows[q]) /\ (spliced => spliced')
  BY <1>1, <1>2, WriteRowIs
<1>6. CASE PutFails(w)
  <2>1. FailQuestion(w)
    BY <1>6 DEF PutFails
  <2>2. outcome' = [outcome EXCEPT ![job[w]] = "failed"]
    BY <2>1 DEF FailQuestion
  <2>3. outcome'[job[w]] = "failed" /\ \A q \in Question \ {job[w]} : outcome'[q] = outcome[q]
    BY <1>1, <2>2 DEF TypeOK
  <2>4. \A q \in Question \ {job[w]} : Memorised(q) => Memorised(q)'
    BY <1>4, <1>5, <2>3 DEF Memorised
  <2>5. \A q \in Question : Memorised(q)'
    BY <1>1, <1>2, <2>3, <2>4, WrittenMemorised
  <2>6. /\ Apart' /\ PassInv' /\ (\A v \in Worker : Walks(v)') /\ \A q \in Question : Told(q)'
    BY <1>1, <1>4, <2>1, <2>4, FailedKept
  <2> QED BY <1>3, <2>5, <2>6 DEF IInv
<1>7. CASE Put(w)
  <2>1. /\ WriteRow(w) /\ UNCHANGED <<run, next, halt, interrupted, dropped, outcome, job>>
        /\ walked' = [walked EXCEPT ![w] = Append(@, answer[w])] /\ at' = [at EXCEPT ![w] = "walk"]
    BY <1>7 DEF Put, pass
  <2>2. at'[w] = "walk" /\ walked'[w] = Append(walked[w], answer[w])
    BY <1>1, <2>1 DEF TypeOK
  <2>3. \A v \in Worker \ {w} :
          at'[v] = at[v] /\ job'[v] = job[v] /\ walked'[v] = walked[v] /\ answer'[v] = answer[v]
    BY <1>1, <1>7, OneWorker DEF Work
  <2>4. \A q \in Question : Memorised(q)'
    <3>1. \A q \in Question \ {job[w]} : Memorised(q)'
      BY <1>1, <1>4, <1>5, <2>1 DEF Memorised
    <3> QED BY <1>1, <2>1, <3>1, WrittenMemorised
  <2>5. Walks(w)'
    <3>1. /\ Here(w) \in Session /\ Here(w) = Len(walked[w]) + 1 /\ Len(walked[w]) \in Nat
      BY <1>1, Asks
    <3>2. /\ index'[job[w]][Here(w)] = answer[w]
          /\ \A s \in Session \ {Here(w)} : index'[job[w]][s] = index[job[w]][s]
      BY <1>1, PutRemembers
    <3>3. answer[w] \in Claim /\ walked[w] \in Seq(Claim)
      BY <1>1 DEF Walks, TypeOK
    <3>4. /\ Len(walked'[w]) = Here(w) /\ walked'[w][Here(w)] = answer[w]
          /\ \A j \in 1 .. Len(walked[w]) : walked'[w][j] = walked[w][j]
      BY <2>2, <3>1, <3>3
    <3>5. \A j \in 1 .. Len(walked'[w]) : index'[job[w]][j] = walked'[w][j]
      <4>1. ASSUME NEW j \in 1 .. Len(walked[w]) PROVE index'[job[w]][j] = walked'[w][j]
        <5>1. j \in Session \ {Here(w)}
          BY <3>1, <4>1, ExtractionAssumption DEF Session
        <5> QED BY <1>1, <3>2, <3>4, <5>1 DEF Walks
      <4> QED BY <3>1, <3>2, <3>4, <4>1
    <3> QED BY <1>1, <2>1, <2>2, <3>1, <3>4, <3>5 DEF Walks, Session
  <2>6. ASSUME NEW v \in Worker \ {w} PROVE Walks(v)'
    <3>1. Walks(v) /\ (at[v] # "free" => job[v] # job[w])
      BY <1>1 DEF IInv, Apart
    <3> QED BY <1>4, <2>1, <2>3, <3>1 DEF Walks, Here
  <2>7. Apart'
    BY <1>1, <2>2, <2>1, <2>3 DEF Apart
  <2>8. ASSUME NEW q \in Question PROVE Told(q)'
    <3>1. \A v \in Worker : at[v] # "free" /\ job[v] = q => at'[v] # "free" /\ job'[v] = q
      BY <2>1, <2>2, <2>3
    <3>2. Told(q) /\ UNCHANGED <<next, outcome, halt>> /\ (q # job[w] => index'[q] = index[q])
      BY <1>1, <1>4, <2>1
    <3> QED BY <1>1, <3>1, <3>2 DEF Told
  <2>9. PassInv'
    BY <1>1, <2>1 DEF PassInv, SomeFailed
  <2> QED BY <1>3, <2>4, <2>5, <2>6, <2>7, <2>8, <2>9 DEF IInv
<1> QED BY <1>6, <1>7 DEF Writing

-----------------------------------------------------------------------------
(* The steps of the pass.                                                  *)

LEMMA StartKept == ASSUME IInv, Start, TypeOK' PROVE IInv'
<1>1. /\ TypeOK /\ FileInv /\ run \in {"down", "raised"} /\ run' = "running" /\ ~spliced /\ index' = Memo
      /\ next' = 1 /\ halt' = FALSE /\ interrupted' = FALSE /\ dropped' = FALSE
      /\ outcome' = [q \in Question |-> "none"] /\ UNCHANGED <<rows, spliced, at, job, walked, answer>>
  BY DEF IInv, Start, walk
<1>2. \A w \in Worker : at[w] = "free"
  BY <1>1 DEF IInv, Walks
<1>3. ASSUME NEW q \in Question PROVE Memorised(q)'
  <2>1. \A s \in Session : index'[q][s] = IF s <= Len(rows[q]) THEN rows[q][s].claim ELSE None
    BY <1>1, MemoIs
  <2>2. Len(rows[q]) \in 0 .. Sessions
    BY <1>1 DEF FileInv, TypeOK
  <2>3. \A s \in Session : s <= Len(rows[q]) => rows[q][s].claim \in Claim
    <3>1. ASSUME NEW s \in Session, s <= Len(rows[q]) PROVE rows[q][s] \in Row
      BY <1>1, <3>1 DEF TypeOK, Session
    <3> QED BY <3>1 DEF Row
  <2>4. \A s \in Session : index'[q][s] # None <=> s <= Len(rows[q])
    BY <2>1, <2>3, ExtractionAssumption
  <2>5. \A k \in 1 .. Len(rows[q]) : k \in Session
    BY <2>2, ExtractionAssumption DEF Session
  <2>6. \A s, t \in Session : s < t /\ t <= Len(rows[q]) => s <= Len(rows[q])
    BY <2>2, ExtractionAssumption DEF Session
  <2> QED BY <1>1, <2>1, <2>4, <2>5, <2>6 DEF Memorised
<1>4. \A q \in Question : Told(q)'
  BY <1>1, ExtractionAssumption DEF Told, Question
<1>5. FileInv' /\ PassInv' /\ Apart' /\ \A w \in Worker : Walks(w)'
  BY <1>1, <1>2 DEF FileInv, PassInv, Apart, Walks
<1> QED BY <1>3, <1>4, <1>5 DEF IInv

LEMMA ReturnKept == ASSUME IInv, Return, TypeOK' PROVE IInv'
<1>1. /\ TypeOK /\ FileInv /\ run = "running" /\ Idle /\ (next > Questions \/ dropped)
      /\ run' = IF interrupted \/ SomeFailed THEN "raised" ELSE "complete"
      /\ UNCHANGED <<rows, spliced, index, next, halt, interrupted, dropped, outcome, at, job, walked, answer>>
  BY DEF IInv, Return, SomeFailed, disk, walk
<1>2. PassInv /\ \A q \in Question : Memorised(q) /\ Told(q)
  BY <1>1 DEF IInv, Live
<1>3. FileInv' /\ Apart' /\ \A w \in Worker : Walks(w)'
  BY <1>1 DEF FileInv, Apart, Walks, Idle
<1>4. \A q \in Question : Memorised(q)' /\ Told(q)'
  BY <1>1, <1>2 DEF Memorised, Told
<1>5. PassInv'
  BY <1>1, <1>2 DEF PassInv, SomeFailed
<1> QED BY <1>3, <1>4, <1>5 DEF IInv

LEMMA InterruptKept == ASSUME IInv, InterruptSerial \/ InterruptPool, TypeOK' PROVE IInv'
<1>1. /\ TypeOK /\ FileInv /\ run = "running" /\ interrupted' = TRUE /\ halt' \in BOOLEAN
      /\ (halt => halt') /\ UNCHANGED <<rows, spliced, index, run, next, outcome, at, job, walked, answer>>
  BY DEF IInv, InterruptSerial, InterruptPool, disk, walk, TypeOK
<1>2. PassInv /\ \A q \in Question : Memorised(q) /\ Told(q)
  BY <1>1 DEF IInv, Live
<1>3. FileInv' /\ Apart' /\ \A w \in Worker : Walks(w)'
  BY <1>1 DEF IInv, FileInv, Apart, Walks, Here
<1>4. \A q \in Question : Memorised(q)' /\ Told(q)'
  BY <1>1, <1>2 DEF Memorised, Told
<1>5. PassInv'
  BY <1>1 DEF PassInv
<1> QED BY <1>3, <1>4, <1>5 DEF IInv

LEMMA DownKept == ASSUME IInv, Refuse \/ Die, TypeOK' PROVE IInv'
<1>1. UNCHANGED <<rows, spliced>> /\ run' \in {"refused", "down"} /\ FileInv
  BY DEF IInv, Refuse, Die, disk
<1>2. \A w \in Worker : at'[w] = "free"
  BY DEF IInv, Walks, Refuse, Die, Forget, walk
<1>3. FileInv' /\ Apart' /\ ~Live' /\ \A w \in Worker : Walks(w)'
  BY <1>1, <1>2 DEF FileInv, Apart, Live, Walks
<1> QED BY <1>3 DEF IInv

THEOREM Inductive == Spec => []IInv
<1>1. IInv /\ [Next]_vars => IInv'
  <2> SUFFICES ASSUME IInv, [Next]_vars PROVE IInv'
    OBVIOUS
  <2>1. CASE \E w \in Worker : Work(w)
    <3>1. PICK w \in Worker : Work(w)
      BY <2>1
    <3>2. TypeOK'
      BY <3>1, WorkTyped DEF IInv
    <3>3. Starting(w) \/ Walking(w) \/ Finish(w) \/ AskFails(w) \/ Writing(w)
      BY <3>1 DEF Work, Starting, Walking, Writing
    <3> QED BY <3>2, <3>3, StartingKept, WalkingKept, AskFailsKept, WritingKept
  <2>2. CASE UNCHANGED vars
    BY <2>2 DEF IInv, TypeOK, FileInv, Apart, Walks, Here, Live, PassInv, SomeFailed, Memorised,
       Told, vars, disk, pass, walk, bounds
  <2>3. CASE Main \/ InterruptSerial \/ InterruptPool \/ InterruptAgain \/ Crash
    <3>1. TypeOK'
      BY <2>3, OthersTyped DEF IInv
    <3> QED BY <2>3, <3>1, StartKept, ReturnKept, InterruptKept, DownKept DEF Main,
       InterruptAgain, Crash
  <2> QED BY <2>1, <2>2, <2>3 DEF Next, Over
<1> QED BY <1>1, InitInv, PTL DEF Spec

-----------------------------------------------------------------------------
(* What a pass promises.                                                   *)

\* Every row was asked for with the claims that the file holds for the earlier
\* sessions of its question (_extract_question, RealExtractor.vocabulary_before).
THEOREM PrimedIsFile == Spec => []PrimedByFile
<1>1. IInv => PrimedByFile
  <2> SUFFICES ASSUME IInv, ~spliced, NEW q \in Question, NEW k \in DOMAIN rows[q]
               PROVE  rows[q][k].primed = [j \in 1 .. rows[q][k].s - 1 |-> rows[q][j].claim]
    BY DEF PrimedByFile
  <2>1. k \in 1 .. Len(rows[q])
    BY DEF IInv, TypeOK
  <2>2. rows[q][k].s = k /\ rows[q][k].primed = [j \in 1 .. k - 1 |-> rows[q][j].claim]
    BY <2>1 DEF IInv, FileInv
  <2> QED BY <2>2
<1> QED BY <1>1, Inductive, PTL

\* A question the memory of a process knows whole has all its rows in the file,
\* unless it failed.
LEMMA KnownIsWritten ==
  ASSUME IInv, Live, ~spliced, NEW q \in Question, \A s \in Session : index[q][s] # None,
         outcome[q] # "failed"
  PROVE  Len(rows[q]) = Sessions
<1>1. Sessions \in Session /\ Memorised(q) /\ Len(rows[q]) \in Nat /\ Len(rows[q]) <= Sessions
  BY ExtractionAssumption DEF IInv, TypeOK, FileInv, Session
<1>2. Sessions <= Len(rows[q])
  BY <1>1 DEF Memorised
<1> QED BY <1>1, <1>2, ExtractionAssumption

\* A question with all its rows is known whole.
LEMMA WrittenIsKnown ==
  ASSUME IInv, Live, NEW q \in Question, Len(rows[q]) = Sessions
  PROVE  \A s \in Session : index[q][s] # None
BY DEF IInv, Memorised, Session

\* When a pass has returned, every question it handed out has an outcome.
LEMMA ReturnedOutcomes ==
  ASSUME IInv, run \in {"raised", "complete"}, ~dropped, NEW q \in Question
  PROVE  /\ outcome[q] \in {"cached", "unstarted", "skipped", "failed", "done"} /\ Told(q) /\ Live
         /\ PassInv
<1>1. Live /\ PassInv /\ Told(q) /\ outcome[q] \in {"none", "cached", "unstarted", "skipped", "failed", "done"}
  BY DEF IInv, Live, TypeOK
<1>2. q < next
  BY <1>1, ExtractionAssumption DEF PassInv, IInv, TypeOK, Question
<1>3. \A w \in Worker : at[w] = "free"
  BY DEF IInv, Walks
<1>4. outcome[q] # "none"
  BY <1>1, <1>2, <1>3 DEF Told
<1> QED BY <1>1, <1>4

\* A pass that ends on a failure names what a re-run has to walk and no other
\* question; one that returns leaves a row for every session (extract_questions,
\* QuestionExtractionError).
THEOREM OwedAreNamed == Spec => []OwedIsNamed
<1>1. ASSUME IInv, run \in {"raised", "complete"}, ~interrupted, ~spliced, NEW q \in Question
      PROVE  /\ run = "complete" => Len(rows[q]) = Sessions
             /\ IF Len(rows[q]) = Sessions THEN outcome[q] # "unstarted"
                                          ELSE outcome[q] \in {"failed", "unstarted"}
  <2>1. ~dropped
    BY <1>1 DEF IInv, Live, PassInv
  <2>2. /\ outcome[q] \in {"cached", "unstarted", "skipped", "failed", "done"} /\ Told(q) /\ Live
        /\ PassInv
    BY <1>1, <2>1, ReturnedOutcomes
  <2>3. outcome[q] \in {"cached", "skipped", "done"} => Len(rows[q]) = Sessions
    BY <1>1, <2>2, KnownIsWritten DEF Told
  <2>4. outcome[q] = "unstarted" => halt /\ Len(rows[q]) # Sessions
    BY <1>1, <2>2, WrittenIsKnown DEF Told
  <2>5. run = "complete" => ~halt /\ outcome[q] # "failed"
    BY <1>1, <2>2 DEF PassInv, SomeFailed
  <2> QED BY <2>2, <2>3, <2>4, <2>5
<1>2. IInv => OwedIsNamed
  <2>1. ASSUME IInv, run = "complete" PROVE ~interrupted
    BY <2>1 DEF IInv, Live, PassInv
  <2> QED BY <1>1, <2>1 DEF OwedIsNamed
<1> QED BY <1>2, Inductive, PTL

-----------------------------------------------------------------------------
(* Extraction implements PinnedExtraction.                                 *)

Settled == [q \in Question |-> [k \in DOMAIN rows[q] |-> rows[q][k].claim]]

LEMMA InitPinned == Init => Pinned!Init
<1> SUFFICES ASSUME Init PROVE Pinned!Init
  OBVIOUS
<1>1. \A q \in Question : [k \in DOMAIN rows[q] |-> rows[q][k].claim] = <<>>
  BY DEF Init
<1> QED BY <1>1 DEF Pinned!Init

\* The row a worker appends settles the next session of its question.
LEMMA RowSettles ==
  ASSUME IInv, NEW w \in Worker, at[w] = "put",
         rows' = [rows EXCEPT ![job[w]] = Append(@, NewRow(w))]
  PROVE  Pinned!Next
<1> DEFINE q == job[w]
<1>1. /\ q \in Question /\ rows \in [Question -> Seq(Row)] /\ Len(rows[q]) \in Nat
      /\ Len(rows[q]) < Sessions /\ answer[w] \in Claim
  <2>1. q \in Question /\ Len(rows[q]) \in Nat /\ Len(rows[q]) < Here(w) /\ Here(w) \in Session
    BY Asks
  <2>2. Len(rows[q]) < Sessions
    BY <2>1, ExtractionAssumption DEF Session
  <2> QED BY <2>1, <2>2 DEF IInv, TypeOK, Walks
<1>2. rows[q] \in Seq(Row) /\ NewRow(w) \in Row
  BY <1>1, RowTyped DEF IInv
<1>3. rows'[q] = Append(rows[q], NewRow(w)) /\ \A p \in Question \ {q} : rows'[p] = rows[p]
  BY <1>1
<1>4. /\ DOMAIN rows'[q] = 1 .. Len(rows[q]) + 1 /\ rows'[q][Len(rows[q]) + 1] = NewRow(w)
      /\ \A k \in 1 .. Len(rows[q]) : rows'[q][k] = rows[q][k]
  BY <1>1, <1>2, <1>3
<1>5. Settled[q] = [k \in 1 .. Len(rows[q]) |-> rows[q][k].claim]
  <2>1. Settled[q] = [k \in DOMAIN rows[q] |-> rows[q][k].claim]
    BY <1>1 DEF Settled
  <2>2. DOMAIN rows[q] = 1 .. Len(rows[q])
    BY <1>2
  <2> QED BY <2>1, <2>2
<1>6. Settled'[q] = [k \in 1 .. Len(rows[q]) + 1 |-> rows'[q][k].claim]
  <2>1. Settled'[q] = [k \in DOMAIN rows'[q] |-> rows'[q][k].claim]
    BY <1>1 DEF Settled
  <2> QED BY <1>4, <2>1
<1>7. \A k \in 1 .. Len(rows[q]) : rows[q][k].claim \in Claim
  <2>1. \A k \in 1 .. Len(rows[q]) : rows[q][k] \in Row
    BY <1>1, <1>2
  <2> QED BY <2>1 DEF Row
<1>8. Settled[q] \in Seq(Claim) /\ Len(Settled[q]) = Len(rows[q])
  BY <1>1, <1>5, <1>7
<1>9. Settled'[q] = Append(Settled[q], answer[w])
  <2>1. NewRow(w).claim = answer[w]
    BY DEF NewRow
  <2>2. /\ Append(Settled[q], answer[w]) = [k \in 1 .. Len(rows[q]) + 1 |->
             IF k <= Len(rows[q]) THEN Settled[q][k] ELSE answer[w]]
    BY <1>1, <1>8
  <2>3. ASSUME NEW k \in 1 .. Len(rows[q]) + 1
        PROVE  rows'[q][k].claim = IF k <= Len(rows[q]) THEN Settled[q][k] ELSE answer[w]
    BY <1>1, <1>4, <1>5, <2>1
  <2> QED BY <1>6, <2>2, <2>3
<1>10. Settled' = [Settled EXCEPT ![q] = Append(@, answer[w])]
  <2>1. \A p \in Question \ {q} : Settled'[p] = Settled[p]
    BY <1>3 DEF Settled
  <2>2. Settled' = [p \in Question |-> Settled'[p]] /\ Settled = [p \in Question |-> Settled[p]]
    BY DEF Settled
  <2> QED BY <1>1, <1>9, <2>1, <2>2
<1> QED BY <1>1, <1>8, <1>10 DEF Pinned!Next, Pinned!Settle, Settled

\* Every step settles one session or none.
LEMMA StepPinned == ASSUME IInv, [Next]_vars PROVE [Pinned!Next]_(Pinned!vars)
<1>1. ASSUME NEW w \in Worker, Put(w) \/ PutFails(w) PROVE Pinned!Next \/ rows' = rows
  <2>1. at[w] = "put"
    BY <1>1 DEF Put, PutFails
  <2>2. (rows' = [rows EXCEPT ![job[w]] = Append(@, NewRow(w))]) \/ rows' = rows
    BY <1>1 DEF Put, PutFails, WriteRow
  <2> QED BY <2>1, <2>2, RowSettles
<1>2. Pinned!Next \/ rows' = rows
  BY <1>1 DEF Next, Main, Work, Start, Refuse, Return, InterruptSerial, InterruptPool,
     InterruptAgain, Crash, Die, Over, vars, disk, TakeHalted, Skip, Take, Replay, Ask, Answer,
     AskFails, Finish
<1>3. rows' = rows => UNCHANGED (Pinned!vars)
  BY DEF Pinned!vars
<1> QED BY <1>2, <1>3

\* However the pass is run, crashed and resumed, the claims of each question are
\* settled one session at a time and never again (ExtractionCache).
THEOREM PinnedImplemented == Spec => ImplementsPinnedExtraction
<1>1. Init => Pinned!Init
  BY InitPinned
<1>2. IInv /\ [Next]_vars => [Pinned!Next]_(Pinned!vars)
  BY StepPinned
<1> QED BY <1>1, <1>2, Inductive, PTL DEF Spec, Pinned!Spec, ImplementsPinnedExtraction

=============================================================================
