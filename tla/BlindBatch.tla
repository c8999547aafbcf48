------------------------------ MODULE BlindBatch ------------------------------
(***************************************************************************)
(* What a graded run promises, whoever interrupts it: every question is    *)
(* extracted once, every arm answers it once from that one extraction, and *)
(* only when all have answered is each answer judged, once, in the pinned  *)
(* order; scores exist only for the whole batch.                           *)
(***************************************************************************)
EXTENDS Naturals, Sequences

CONSTANTS Questions, Arms, Order, Bodies, Texts, None

VARIABLES body, answer, judged, scored

vars == <<body, answer, judged, scored>>

Init ==
  /\ body = [q \in Questions |-> None]
  /\ answer = [k \in Questions \X Arms |-> None]
  /\ judged = <<>>
  /\ scored = FALSE

Extract(q) ==
  /\ body[q] = None
  /\ \E b \in Bodies : body' = [body EXCEPT ![q] = b]
  /\ UNCHANGED <<answer, judged, scored>>

Answer(q, a) ==
  /\ body[q] # None /\ answer[<<q, a>>] = None
  /\ \E t \in Texts : answer' = [answer EXCEPT ![<<q, a>>] = [from |-> body[q], text |-> t]]
  /\ UNCHANGED <<body, judged, scored>>

Judge ==
  /\ \A k \in Questions \X Arms : answer[k] # None
  /\ Len(judged) < Len(Order)
  /\ judged' = Append(judged, answer[Order[Len(judged) + 1]])
  /\ UNCHANGED <<body, answer, scored>>

Score ==
  /\ Len(judged) = Len(Order)
  /\ scored' = TRUE
  /\ UNCHANGED <<body, answer, judged>>

Next ==
  \/ \E q \in Questions : Extract(q) \/ \E a \in Arms : Answer(q, a)
  \/ Judge \/ Score

Spec == Init /\ [][Next]_vars

=============================================================================
