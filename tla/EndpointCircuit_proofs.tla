------------------------ MODULE EndpointCircuit_proofs ------------------------
(***************************************************************************)
(* Proofs about EndpointCircuit: what the circuit's fields mean, the bound *)
(* on what a dead endpoint costs and the time between two probes, for      *)
(* every number of threads, every threshold and every cooldown.            *)
(***************************************************************************)
EXTENDS EndpointCircuit, FiniteSetTheorems, TLAPS

\* The attempts let through a closed circuit that nothing has recorded yet.
Counted == {w \in Worker : at[w] \in {"sent", "record"} /\ got[w] # "break" /\ w \notin probe}

\* Only an attempt in flight has an outcome or is a probe, and a worker about
\* to try has an attempt left.
InFlight ==
  /\ \A w \in Worker : at[w] = "try" => left[w] > 0
  /\ \A w \in Worker : at[w] # "record" => got[w] = "none"
  /\ \A w \in probe : at[w] \in {"sent", "record"}

\* While the circuit is closed every attempt paid for is in flight, counted as
\* a failure or broken; once it opens none is paid for.
BudgetInv ==
  IF opened THEN paid <= Cardinality(Worker) + Threshold - 1 + breaks
            ELSE paid <= Cardinality(Counted) + failures + breaks

IInv == TypeOK /\ Presumption /\ InFlight /\ BudgetInv

-----------------------------------------------------------------------------

\* The attempts in flight are no more than the threads.
LEMMA CountedFinite ==
  /\ IsFiniteSet(Counted)
  /\ Cardinality(Counted) \in Nat /\ Cardinality(Worker) \in Nat
  /\ Cardinality(Counted) <= Cardinality(Worker)
<1>1. Counted \subseteq Worker
  BY DEF Counted
<1> QED BY <1>1, CircuitAssumption, FS_Subset, FS_CardinalityType

\* One attempt less in flight makes the count at most one less.
LEMMA CountedLess ==
  ASSUME NEW w \in Worker
  PROVE  Cardinality(Counted \ {w}) \in Nat /\ Cardinality(Counted) <= Cardinality(Counted \ {w}) + 1
<1>1. CASE w \in Counted
  <2>1. IsFiniteSet(Counted \ {w}) /\ Cardinality(Counted \ {w}) = Cardinality(Counted) - 1
    BY <1>1, CountedFinite, FS_RemoveElement, Zenon
  <2>2. Cardinality(Counted \ {w}) \in Nat
    BY <2>1, FS_CardinalityType
  <2> QED BY <2>1, <2>2, CountedFinite
<1>2. CASE w \notin Counted
  <2>1. Counted \ {w} = Counted
    BY <1>2
  <2> QED BY <2>1, CountedFinite
<1> QED BY <1>1, <1>2

\* The invariant implies the bound.
LEMMA BudgetFollows == IInv => BudgetIsTheEndpoints
<1> SUFFICES ASSUME IInv, ~opened PROVE BudgetIsTheEndpoints
  BY DEF IInv, BudgetInv, BudgetIsTheEndpoints
<1>1. failures <= Threshold - 1
  BY CircuitAssumption DEF IInv, Presumption, TypeOK
<1> QED BY <1>1, CountedFinite, CircuitAssumption
        DEF IInv, BudgetInv, BudgetIsTheEndpoints, TypeOK

\* The initial states satisfy the invariant.
LEMMA InitIInv == Init => IInv
<1> SUFFICES ASSUME Init PROVE IInv
  OBVIOUS
<1>1. TypeOK
  <2>1. /\ failures \in 0 .. Threshold /\ dark \in 0 .. Cooldown /\ apart \in 0 .. Cooldown
        /\ breaks \in 0 .. MaxBreaks /\ flips \in 0 .. MaxFlips /\ paid \in Nat
    BY CircuitAssumption DEF Init
  <2>2. /\ at \in [Worker -> {"idle", "try", "sent", "record"}]
        /\ left \in [Worker -> 0 .. Attempts]
        /\ got \in [Worker -> {"none"} \cup Outcomes]
    BY CircuitAssumption DEF Init
  <2>3. opened \in BOOLEAN /\ probing \in BOOLEAN /\ up \in BOOLEAN
    BY Zenon DEF Init
  <2> QED BY <2>1, <2>2, <2>3 DEF Init, TypeOK
<1>2. Presumption /\ InFlight
  BY CircuitAssumption DEF Init, Presumption, InFlight
<1>3. BudgetInv
  BY CountedFinite DEF Init, BudgetInv
<1> QED BY <1>1, <1>2, <1>3 DEF IInv

-----------------------------------------------------------------------------
(* Every step keeps what the circuit's fields mean and their types.        *)

\* No step leaves the types, nor the meaning of the fields.
LEMMA MeaningKept == IInv /\ [Next]_vars => TypeOK' /\ Presumption' /\ InFlight'
<1> SUFFICES ASSUME IInv, [Next]_vars PROVE TypeOK' /\ Presumption' /\ InFlight'
  OBVIOUS
<1> USE CircuitAssumption DEF IInv, TypeOK, Presumption, InFlight, circuit, request, history
<1>1. CASE Tick
  BY <1>1 DEF Tick, Count
<1>2. CASE Flip
  BY <1>2 DEF Flip
<1>3. ASSUME NEW w \in Worker, Loop(w) PROVE TypeOK' /\ Presumption' /\ InFlight'
  <2>1. CASE Begin(w)
    BY <2>1 DEF Begin
  <2>2. CASE SendThrough(w)
    <3>1. TypeOK'
      BY <2>2 DEF SendThrough, Send, Closed
    <3>2. Presumption'
      BY <2>2 DEF SendThrough, Send, Closed
    <3>3. InFlight'
      BY <2>2 DEF SendThrough, Send, Closed
    <3> QED BY <3>1, <3>2, <3>3
  <2>3. CASE SendProbe(w)
    <3>1. TypeOK'
      BY <2>3 DEF SendProbe, Send, HalfOpen
    <3>2. Presumption'
      BY <2>3 DEF SendProbe, Send, HalfOpen
    <3>3. InFlight'
      BY <2>3 DEF SendProbe, Send, HalfOpen
    <3> QED BY <3>1, <3>2, <3>3
  <2>4. CASE Refused(w)
    BY <2>4 DEF Refused
  <2>5. CASE Transport(w)
    <3>1. TypeOK'
      BY <2>5 DEF Transport, Outcomes
    <3>2. Presumption'
      BY <2>5 DEF Transport, Outcomes
    <3>3. InFlight'
      BY <2>5 DEF Transport, Outcomes
    <3> QED BY <3>1, <3>2, <3>3
  <2>6. CASE Answered(w)
    <3>1. TypeOK'
      <4>1. opened' \in BOOLEAN /\ probing' \in BOOLEAN /\ up' \in BOOLEAN
        BY <2>6, Zenon DEF Answered, RecordReachable, Settle
      <4>2. at' \in [Worker -> {"idle", "try", "sent", "record"}]
        BY <2>6 DEF Answered, Settle
      <4> QED BY <2>6, <4>1, <4>2 DEF Answered, RecordReachable, Settle
    <3>2. Presumption'
      BY <2>6 DEF Answered, RecordReachable, Settle
    <3>3. InFlight'
      BY <2>6 DEF Answered, RecordReachable, Settle
    <3> QED BY <3>1, <3>2, <3>3
  <2>7. CASE Silent(w)
    <3>1. TypeOK'
      <4>1. opened' \in BOOLEAN /\ probing' \in BOOLEAN /\ up' \in BOOLEAN
        BY <2>7, Zenon DEF Silent, RecordUnreachable, Settle
      <4>2. at' \in [Worker -> {"idle", "try", "sent", "record"}]
        BY <2>7 DEF Silent, Settle
      <4> QED BY <2>7, <4>1, <4>2 DEF Silent, RecordUnreachable, OneMore, Settle
    <3>2. Presumption'
      <4>1. failures' = OneMore /\ ~probing' /\ OneMore \in 0 .. Threshold
        BY <2>7 DEF Silent, RecordUnreachable, OneMore
      <4>2. CASE OneMore = Threshold
        BY <2>7, <4>1, <4>2 DEF Silent, RecordUnreachable
      <4>3. CASE OneMore # Threshold
        <5>1. ~opened /\ ~probing
          BY <4>3 DEF OneMore
        <5>2. ~opened'
          BY <5>1, <4>3, <2>7 DEF Silent, RecordUnreachable
        <5> QED BY <4>1, <4>3, <5>2
      <4> QED BY <4>2, <4>3
    <3>3. InFlight'
      BY <2>7 DEF Silent, RecordUnreachable, OneMore, Settle
    <3> QED BY <3>1, <3>2, <3>3
  <2>8. CASE Broke(w)
    <3>1. TypeOK'
      BY <2>8 DEF Broke, Settle
    <3>2. Presumption'
      BY <2>8 DEF Broke, Settle
    <3>3. InFlight'
      BY <2>8 DEF Broke, Settle
    <3> QED BY <3>1, <3>2, <3>3
  <2> QED BY <1>3, <2>1, <2>2, <2>3, <2>4, <2>5, <2>6, <2>7, <2>8 DEF Loop
<1>4. CASE UNCHANGED vars
  BY <1>4 DEF vars
<1> QED BY <1>1, <1>2, <1>3, <1>4 DEF Next

-----------------------------------------------------------------------------
(* Every step keeps the budget.                                            *)

\* A step after which no fewer attempts are counted than are paid for anew.
LEMMA BudgetStep ==
  ASSUME IInv, TypeOK', NEW w \in Worker, opened' = opened, paid' = paid, breaks' = breaks,
         \/ Counted' = Counted /\ failures' \in {failures, failures + 1}
         \/ Counted' = Counted \ {w} /\ failures' = failures + 1
  PROVE  BudgetInv'
<1>1. Cardinality(Counted \ {w}) \in Nat /\ Cardinality(Counted) <= Cardinality(Counted \ {w}) + 1
  BY CountedLess
<1>2. Cardinality(Counted') \in Nat /\ Cardinality(Counted) + failures <= Cardinality(Counted') + failures'
  BY <1>1, CountedFinite DEF IInv, TypeOK
<1> QED BY <1>2, CountedFinite, CircuitAssumption DEF IInv, TypeOK, BudgetInv

\* No step breaks the budget: what is paid for is counted until it is
\* recorded, and then as a failure or as broken, or it was an answer.
LEMMA BudgetKept == IInv /\ [Next]_vars => BudgetInv'
<1> SUFFICES ASSUME IInv, [Next]_vars PROVE BudgetInv'
  OBVIOUS
<1>0. TypeOK' /\ Presumption'
  BY MeaningKept
<1>1. CASE Tick \/ Flip \/ UNCHANGED vars
  BY <1>1 DEF Tick, Flip, IInv, BudgetInv, Counted, vars, circuit, request, history
<1>2. ASSUME NEW w \in Worker, Loop(w) PROVE BudgetInv'
  <2>1. CASE Begin(w) \/ Refused(w)
    <3>1. Counted' = Counted
      BY <2>1 DEF Begin, Refused, Counted, IInv, TypeOK, InFlight, history, request
    <3> QED BY <3>1, <2>1, <1>0, BudgetStep DEF Begin, Refused, circuit, history
  <2>2. CASE SendThrough(w)
    <3>1. w \notin Counted /\ Counted' = Counted \cup {w}
      BY <2>2 DEF SendThrough, Send, Counted, IInv, TypeOK, InFlight
    <3>2. Cardinality(Counted') = Cardinality(Counted) + 1
      BY <3>1, CountedFinite, FS_AddElement
    <3> QED BY <2>2, <3>2, CountedFinite
            DEF SendThrough, Closed, IInv, BudgetInv, TypeOK, circuit
  <2>3. CASE SendProbe(w)
    BY <2>3 DEF SendProbe, HalfOpen, IInv, BudgetInv
  <2>4. CASE Transport(w)
    <3>1. CASE got'[w] # "break"
      <4>1. Counted' = Counted
        BY <2>4, <3>1 DEF Transport, Counted, IInv, TypeOK, InFlight, history
      <4>2. breaks' = breaks
        BY <2>4, <3>1 DEF Transport, IInv, TypeOK
      <4> QED BY <4>1, <4>2, <2>4, <1>0, BudgetStep DEF Transport, circuit, history
    <3>2. CASE got'[w] = "break"
      <4>1. breaks' = breaks + 1
        BY <2>4, <3>2 DEF Transport, IInv, TypeOK
      <4>2. Counted' = Counted \ {w}
        BY <2>4, <3>2 DEF Transport, Counted, IInv, TypeOK, history
      <4>3. Cardinality(Counted') \in Nat /\ Cardinality(Counted) <= Cardinality(Counted') + 1
        BY <4>2, CountedLess
      <4> QED BY <4>1, <4>3, <2>4, CountedFinite, CircuitAssumption
              DEF Transport, IInv, BudgetInv, TypeOK, circuit, history
    <3> QED BY <3>1, <3>2
  <2>5. CASE Answered(w)
    <3>1. paid' = 0 /\ ~opened' /\ failures' = 0
      BY <2>5 DEF Answered, RecordReachable
    <3>2. Cardinality(Counted') \in Nat
      BY CountedFinite, FS_Subset, FS_CardinalityType, CircuitAssumption DEF Counted
    <3> QED BY <3>1, <3>2, <1>0 DEF BudgetInv, TypeOK
  <2>6. CASE Silent(w)
    <3>1. CASE opened'
      <4>1. IInv /\ BudgetIsTheEndpoints
        BY BudgetFollows
      <4> QED BY <3>1, <4>1, <2>6 DEF Silent, Settle, BudgetInv, BudgetIsTheEndpoints
    <3>2. CASE ~opened'
      <4>1. ~opened /\ failures' = failures + 1
        BY <3>2, <2>6, CircuitAssumption
        DEF Silent, RecordUnreachable, OneMore, IInv, TypeOK, Presumption
      <4>2. Counted' = Counted \/ Counted' = Counted \ {w}
        BY <2>6 DEF Silent, Settle, Counted, IInv, TypeOK
      <4>3. opened' = opened /\ paid' = paid /\ breaks' = breaks
        <5>1. opened \in BOOLEAN /\ opened' \in BOOLEAN
          BY <1>0 DEF IInv, TypeOK
        <5>2. opened' = opened
          BY <5>1, <3>2, <4>1, Zenon
        <5> QED BY <5>2, <2>6 DEF Silent, Settle
      <4>4. failures' \in {failures, failures + 1}
        BY <4>1
      <4> QED BY <4>1, <4>2, <4>3, <4>4, <1>0, BudgetStep
    <3> QED BY <3>1, <3>2
  <2>7. CASE Broke(w)
    <3>1. Counted' = Counted
      BY <2>7 DEF Broke, Settle, Counted, IInv, TypeOK
    <3> QED BY <3>1, <2>7, <1>0, BudgetStep DEF Broke, Settle, circuit
  <2> QED BY <1>2, <2>1, <2>2, <2>3, <2>4, <2>5, <2>6, <2>7 DEF Loop
<1> QED BY <1>1, <1>2 DEF Next

-----------------------------------------------------------------------------

\* The invariant holds in every reachable state.
THEOREM Inductive == Spec => []IInv
<1>1. IInv /\ [Next]_vars => IInv'
  BY MeaningKept, BudgetKept DEF IInv
<1> QED BY InitIInv, <1>1, PTL DEF Spec

\* The circuit is open exactly while Threshold attempts have gone without an
\* answer, and a probe is on record only while it is open.
THEOREM PresumptionHolds == Spec => [](TypeOK /\ Presumption)
<1>1. IInv => TypeOK /\ Presumption
  BY DEF IInv
<1> QED BY Inductive, <1>1, PTL

\* A dead endpoint costs at most the round in flight and Threshold - 1
\* attempts, plus those whose transport broke, however the threads interleave.
THEOREM BudgetHolds == Spec => []BudgetIsTheEndpoints
  BY Inductive, BudgetFollows, PTL

-----------------------------------------------------------------------------
(* Probes.                                                                 *)

\* An open circuit with no probe on record has been dark no longer than the
\* last probe is ago: the failure that settled the probe restarted its window.
WindowInv == opened /\ ~probing => dark <= apart

LEMMA WindowInit == Init => WindowInv
BY DEF Init, WindowInv

LEMMA WindowKept == IInv /\ WindowInv /\ [Next]_vars => WindowInv'
<1> SUFFICES ASSUME IInv, WindowInv, [Next]_vars PROVE WindowInv'
  OBVIOUS
<1>1. dark \in 0 .. Cooldown /\ apart \in 0 .. Cooldown /\ Cooldown \in Nat
  BY CircuitAssumption DEF IInv, TypeOK
<1>2. CASE Tick
  BY <1>1, <1>2 DEF Tick, Count, WindowInv
<1>3. CASE Flip \/ UNCHANGED vars
  BY <1>3 DEF Flip, WindowInv, vars, circuit, history
<1>4. ASSUME NEW w \in Worker, Loop(w) PROVE WindowInv'
  <2>1. CASE Begin(w) \/ Refused(w) \/ Transport(w)
    BY <2>1 DEF Begin, Refused, Transport, WindowInv, circuit, history
  <2>2. CASE SendThrough(w) \/ Broke(w)
    BY <2>2 DEF SendThrough, Broke, WindowInv, circuit
  <2>3. CASE SendProbe(w)
    BY <2>3 DEF SendProbe, WindowInv
  <2>4. CASE Answered(w)
    BY <2>4 DEF Answered, RecordReachable, WindowInv
  <2>5. CASE Silent(w)
    <3>1. CASE probing \/ OneMore = Threshold
      <4>1. dark' = 0 /\ apart' = apart
        BY <2>5, <3>1 DEF Silent, RecordUnreachable
      <4> QED BY <1>1, <4>1 DEF WindowInv
    <3>2. CASE ~(probing \/ OneMore = Threshold)
      BY <2>5, <3>2 DEF Silent, RecordUnreachable, WindowInv
    <3> QED BY <3>1, <3>2
  <2> QED BY <1>4, <2>1, <2>2, <2>3, <2>4, <2>5 DEF Loop
<1> QED BY <1>2, <1>3, <1>4 DEF Next

\* Only a step that sends a probe adds one, and it waits for the window.
LEMMA ProbeWaits ==
  ASSUME IInv, WindowInv, [Next]_vars, probe' \ probe # {}
  PROVE  apart = Cooldown
<1>1. PICK w \in Worker : SendProbe(w)
  BY DEF Next, Loop, Tick, Flip, Begin, SendThrough, Refused, Transport, Answered, Silent,
         Broke, Settle, vars, history
<1>2. HalfOpen
  BY <1>1 DEF SendProbe
<1> QED BY <1>2, CircuitAssumption DEF HalfOpen, WindowInv, IInv, TypeOK

\* Two probes are a cooldown apart unless the endpoint answered in between,
\* however the threads interleave and whichever failure settles a probe.
THEOREM ProbesAreApart == Spec => ProbesApart
<1>1. IInv /\ WindowInv /\ [Next]_vars => [probe' \ probe # {} => apart = Cooldown]_vars
  BY ProbeWaits
<1> QED BY Inductive, WindowInit, WindowKept, <1>1, PTL DEF Spec, ProbesApart

=============================================================================
