---------------------------- MODULE ReadAdapter ----------------------------
(***************************************************************************)
(* R4 resolution: what a reader of several claims is told about a subject, *)
(* by AphelionReadAdapter.query (src/src/aphelion/read_adapter.py).  The   *)
(* adapter keeps no state; these are its steps as operators.               *)
(*                                                                         *)
(* A claim is a record with fields id, subject, object, state, supersedes  *)
(* (a set of ids), from and until (its window of validity), created, and   *)
(* polarity.  Ids and times are numbers; 0, Absent or {} stands for an     *)
(* absent field.  Claims come as a sequence, in the order of the caller;   *)
(* what a caller passes on of them, or a step keeps, is the set of their   *)
(* positions.                                                              *)
(***************************************************************************)
EXTENDS Naturals, Sequences, FiniteSetsExt

CONSTANT Absent  \* the value of a field that is not there

\* R4_TRIGGER_FIELDS, in validate_subject_required_for_r4 (step 0): R4 is
\* undefined for a claim that carries one and no subject.
Unscoped(c) ==
  /\ c.subject = Absent
  /\ c.supersedes # {} \/ c.from # 0 \/ c.until # 0 \/ c.polarity # Absent

Polarity(c) == IF c.polarity = Absent THEN "affirm" ELSE c.polarity

Definite == {"affirm", "negate"}

\* Both bounds are optional, and both belong to the window.
R2Active(c, time) ==
  /\ c.from # 0 => c.from <= time
  /\ c.until # 0 => time <= c.until

Ids(claims, some) == {claims[k].id : k \in some}

\* Step 1.
Active(claims, candidates, subject, time) ==
  {k \in candidates : claims[k].subject = subject /\ R2Active(claims[k], time)}

\* Step 3.  What any active claim supersedes goes, if it is active itself; a
\* target that is merely loaded, or dangles (a warning), drops nothing.
Superseded(claims, active) ==
  (UNION {claims[k].supersedes : k \in active}) \cap Ids(claims, active)

\* Newest first; of two made at one instant the one with the smaller id.
Newest(claims, some) ==
  claims[CHOOSE k \in some :
           \A j \in some :
             \/ claims[k].created > claims[j].created
             \/ claims[k].created = claims[j].created /\ claims[k].id <= claims[j].id]

Verdict(class, primary, surfaced) ==
  [class |-> class, primary |-> primary, surfaced |-> surfaced]

\* The reference policy of 6.3b.  A cycle of supersession leaves nothing.
Residual(claims, left) ==
  LET polarities == {Polarity(claims[k]) : k \in left}
      definite == {k \in left : Polarity(claims[k]) \in Definite}
  IN  IF Definite \subseteq polarities
        THEN Verdict("contradiction", 0, Ids(claims, left))
      ELSE IF "unknown" \in polarities /\ definite # {}
        THEN Verdict("ambiguity", claims[Min(definite)].id, Ids(claims, left))
      ELSE IF left = {}
        THEN Verdict("supersession", 0, {})
      ELSE Verdict("supersession", Newest(claims, left).id, Ids(claims, left))

\* A verdict about the one claim that is left.
Sole(class, claims, left) ==
  LET id == claims[CHOOSE k \in left : TRUE].id
  IN  Verdict(class, id, {id})

\* query, for candidates of which none is Unscoped.
Query(claims, candidates, subject, time) ==
  LET active == Active(claims, candidates, subject, time)
      gone == Superseded(claims, active)
      left == {k \in active : claims[k].id \notin gone}
  IN  IF active = {} THEN Verdict("not_found", 0, {})
      ELSE IF Cardinality(active) = 1 THEN Sole("none", claims, active)
      ELSE IF Cardinality(left) = 1 THEN Sole("supersession", claims, left)
      ELSE Residual(claims, left)

=============================================================================
