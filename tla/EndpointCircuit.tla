--------------------------- MODULE EndpointCircuit ---------------------------
(***************************************************************************)
(* The presumption, shared by every thread that sends requests through one *)
(* client, about whether the model endpoint answers: EndpointCircuit and   *)
(* the retry loop of LocalChatClient._request                              *)
(* (src/benchmarks/longmemeval/clients.py).  Each worker is a thread that  *)
(* makes one request after another.  What the transport does and the call  *)
(* that records it are two steps, as only the second holds the lock.       *)
(*                                                                         *)
(* Time is counted in ticks.  A request in flight may take any number of   *)
(* them: the socket timeout (600 s) is far longer than the cooldown (30 s).*)
(***************************************************************************)
EXTENDS Naturals, FiniteSets

CONSTANTS
  Worker,     \* threads that send requests
  Threshold,  \* attempts without an answer after which the circuit opens
  Cooldown,   \* ticks for which an open circuit lets nothing through
  Attempts,   \* attempts of one request
  MaxBreaks,  \* bound: transports that raise something other than OSError
  MaxFlips    \* bound: times the endpoint dies or comes back

ASSUME CircuitAssumption ==
  /\ IsFiniteSet(Worker)
  /\ Threshold \in Nat \ {0}
  /\ Cooldown \in Nat
  /\ Attempts \in Nat \ {0}
  /\ MaxBreaks \in Nat
  /\ MaxFlips \in Nat

VARIABLES
  failures,  \* _failures, counted up to Threshold
  opened,    \* _opened_at is not None
  dark,      \* ticks since _opened_at, counted up to Cooldown
  probing,   \* _probing
  at,        \* where each worker is in _request
  left,      \* attempts each worker has left
  got,       \* what the transport gave each worker
  up,        \* the endpoint answers
  breaks, flips,  \* how much of the two bounds is used
  probe,     \* history: workers whose attempt was let through as a probe
  paid,      \* history: attempts let through a closed circuit since an answer
  apart      \* history: ticks since the last probe that no answer followed,
             \* counted up to Cooldown

circuit == <<failures, opened, dark, probing>>
request == <<at, left, got>>
history == <<probe, paid, apart>>
vars == <<circuit, request, up, breaks, flips, history>>

Outcomes == {"answer", "status", "silence", "break"}

TypeOK ==
  /\ failures \in 0 .. Threshold
  /\ opened \in BOOLEAN
  /\ dark \in 0 .. Cooldown
  /\ probing \in BOOLEAN
  /\ at \in [Worker -> {"idle", "try", "sent", "record"}]
  /\ left \in [Worker -> 0 .. Attempts]
  /\ got \in [Worker -> {"none"} \cup Outcomes]
  /\ up \in BOOLEAN
  /\ breaks \in 0 .. MaxBreaks
  /\ flips \in 0 .. MaxFlips
  /\ probe \subseteq Worker
  /\ paid \in Nat
  /\ apart \in 0 .. Cooldown

Init ==
  /\ failures = 0 /\ opened = FALSE /\ dark = 0 /\ probing = FALSE
  /\ at = [w \in Worker |-> "idle"]
  /\ left = [w \in Worker |-> 0]
  /\ got = [w \in Worker |-> "none"]
  /\ up \in BOOLEAN
  /\ breaks = 0 /\ flips = 0
  /\ probe = {} /\ paid = 0 /\ apart = Cooldown

-----------------------------------------------------------------------------
(* The circuit, each operation under its lock.                             *)

\* before_attempt lets the attempt through as any other.
Closed == ~opened

\* before_attempt lets the attempt through as the probe.
HalfOpen == opened /\ ~probing /\ dark = Cooldown

\* Seeded bug: the count of failures survives an answer.
RecordReachableKeepingCount ==
  /\ opened' = FALSE /\ probing' = FALSE
  /\ UNCHANGED <<failures, dark>>

\* Seeded bug: the answer to a probe does not close the circuit.
RecordReachableStillOpen ==
  /\ failures' = 0 /\ probing' = FALSE
  /\ UNCHANGED <<opened, dark>>

\* record_reachable: whatever it said, the endpoint is not wedged.
RecordReachable ==
  /\ failures' = 0 /\ opened' = FALSE /\ probing' = FALSE
  /\ UNCHANGED dark

OneMore == IF failures < Threshold THEN failures + 1 ELSE failures

\* Seeded bug: the failure of a probe does not restart the window.
RecordUnreachableSameWindow ==
  /\ failures' = OneMore
  /\ probing' = FALSE
  /\ IF ~probing /\ OneMore = Threshold
       THEN opened' = TRUE /\ dark' = 0
       ELSE UNCHANGED <<opened, dark>>

\* record_unreachable: a failure while a probe is on record settles it,
\* whichever attempt it was; the window starts again.
RecordUnreachable ==
  /\ failures' = OneMore
  /\ probing' = FALSE
  /\ IF probing \/ OneMore = Threshold
       THEN opened' = TRUE /\ dark' = 0
       ELSE UNCHANGED <<opened, dark>>

-----------------------------------------------------------------------------
(* One request of one worker.                                              *)

Begin(w) ==
  /\ at[w] = "idle"
  /\ at' = [at EXCEPT ![w] = "try"]
  /\ left' = [left EXCEPT ![w] = Attempts]
  /\ UNCHANGED <<circuit, got, up, breaks, flips, history>>

Send(w) ==
  /\ at' = [at EXCEPT ![w] = "sent"]
  /\ left' = [left EXCEPT ![w] = @ - 1]
  /\ UNCHANGED got

\* Seeded bug: the circuit is asked once per request, not per attempt.
SendThroughOnRetry(w) ==
  /\ at[w] = "try" /\ (Closed \/ left[w] < Attempts)
  /\ Send(w)
  /\ paid' = paid + 1
  /\ UNCHANGED <<circuit, up, breaks, flips, probe, apart>>

SendThrough(w) ==
  /\ at[w] = "try" /\ Closed
  /\ Send(w)
  /\ paid' = paid + 1
  /\ UNCHANGED <<circuit, up, breaks, flips, probe, apart>>

SendProbe(w) ==
  /\ at[w] = "try" /\ HalfOpen
  /\ Send(w)
  /\ probing' = TRUE
  /\ probe' = probe \cup {w}
  /\ apart' = 0
  /\ UNCHANGED <<failures, opened, dark, up, breaks, flips, paid>>

\* EndpointWedgedError: nothing is sent, and the request ends.
Refused(w) ==
  /\ at[w] = "try" /\ opened /\ ~HalfOpen
  /\ at' = [at EXCEPT ![w] = "idle"]
  /\ UNCHANGED <<circuit, left, got, up, breaks, flips, history>>

\* The transport returns or raises: a body, an error status, nothing at all,
\* or an exception that is no OSError (http.client.HTTPException).
Transport(w) ==
  /\ at[w] = "sent"
  /\ at' = [at EXCEPT ![w] = "record"]
  /\ \/ up /\ \E o \in {"answer", "status"} : got' = [got EXCEPT ![w] = o] /\ UNCHANGED breaks
     \/ ~up /\ got' = [got EXCEPT ![w] = "silence"] /\ UNCHANGED breaks
     \/ breaks < MaxBreaks /\ got' = [got EXCEPT ![w] = "break"] /\ breaks' = breaks + 1
  /\ UNCHANGED <<circuit, left, up, flips, history>>

\* After a failed attempt the loop tries again while attempts are left.
Settle(w, again) ==
  /\ at' = [at EXCEPT ![w] = IF again /\ left[w] > 0 THEN "try" ELSE "idle"]
  /\ got' = [got EXCEPT ![w] = "none"]
  /\ probe' = probe \ {w}
  /\ UNCHANGED <<left, up, breaks, flips>>

\* An error status is an answer too, but is tried again.
Answered(w) ==
  /\ at[w] = "record" /\ got[w] \in {"answer", "status"}
  /\ RecordReachable
  /\ paid' = 0 /\ apart' = Cooldown
  /\ Settle(w, got[w] = "status")

Silent(w) ==
  /\ at[w] = "record" /\ got[w] = "silence"
  /\ RecordUnreachable
  /\ Settle(w, TRUE)
  /\ UNCHANGED <<paid, apart>>

\* Not caught by the loop: the circuit is told nothing.
Broke(w) ==
  /\ at[w] = "record" /\ got[w] = "break"
  /\ Settle(w, FALSE)
  /\ UNCHANGED <<circuit, paid, apart>>

-----------------------------------------------------------------------------

Count(t) == IF t < Cooldown THEN t + 1 ELSE t

Tick ==
  /\ dark' = (IF opened THEN Count(dark) ELSE dark)
  /\ apart' = Count(apart)
  /\ UNCHANGED <<failures, opened, probing, request, up, breaks, flips, probe, paid>>

Flip ==
  /\ flips < MaxFlips
  /\ up' = ~up /\ flips' = flips + 1
  /\ UNCHANGED <<circuit, request, breaks, history>>

Loop(w) == Begin(w) \/ SendThrough(w) \/ SendProbe(w) \/ Refused(w)
             \/ Transport(w) \/ Answered(w) \/ Silent(w) \/ Broke(w)
Next == Tick \/ Flip \/ \E w \in Worker : Loop(w)

Spec == Init /\ [][Next]_vars

\* Every thread runs and the clock goes on.
FairSpec == Spec /\ WF_vars(Tick) /\ \A w \in Worker : WF_vars(Loop(w))

-----------------------------------------------------------------------------

\* The circuit is open exactly while Threshold attempts have gone without an
\* answer, and a probe is on record only while it is open
\* (EndpointCircuit.record_reachable, record_unreachable).
Presumption ==
  /\ opened <=> failures = Threshold
  /\ probing => opened

\* However the workers interleave, since the last answer no more attempts
\* were let through the closed circuit than the round in flight plus
\* Threshold - 1, not counting those whose transport broke: the bound
\* test_one_wedged_endpoint_does_not_cost_every_question_its_whole_budget
\* derives for a dead endpoint.
BudgetIsTheEndpoints ==
  paid <= Cardinality(Worker) + Threshold - 1 + breaks

\* Two probes are sent at least a cooldown apart unless the endpoint
\* answered in between: a dead endpoint costs one attempt per window
\* (EndpointCircuit, "one timeout per window").
ProbesApart ==
  [][ probe' \ probe # {} => apart = Cooldown ]_vars

\* While no transport breaks, an endpoint that answers for good closes the
\* circuit for good (EndpointCircuit, "an answer closes the circuit").
Recovers == (<>[]up) /\ [](breaks = 0) => <>[]~opened

\* EndpointCircuit's docstring, taken literally: the presumption is
\* provisional, whatever the transport raises.
Provisional == (<>[]up) => <>[]~opened

=============================================================================
