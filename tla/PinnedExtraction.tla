-------------------------- MODULE PinnedExtraction --------------------------
(***************************************************************************)
(* What extraction promises, however many workers, crashes and resumes it  *)
(* took: the claims of a question are settled one session at a time, in    *)
(* pinned order, each asked for with exactly the settled claims before it, *)
(* and never asked for again (ExtractionCache, extract_questions:          *)
(* src/benchmarks/longmemeval/real_run.py).                                *)
(***************************************************************************)
EXTENDS Naturals, Sequences

CONSTANTS
  Question,  \* the questions of the run
  Sessions,  \* sessions of each question
  Claim      \* what the model may answer for one session

VARIABLE settled  \* settled[q]: the claims of q's first sessions

Init == settled = [q \in Question |-> <<>>]

Settle(q) ==
  /\ Len(settled[q]) < Sessions
  /\ \E c \in Claim : settled' = [settled EXCEPT ![q] = Append(@, c)]

Next == \E q \in Question : Settle(q)

vars == <<settled>>

Spec == Init /\ [][Next]_vars

=============================================================================
