----------------------------- MODULE Provenance -----------------------------
(***************************************************************************)
(* The history of one claim, as a producer writes it line by line into     *)
(* provenance.jsonl, and what the reader makes of it: check_lifecycle      *)
(* (src/src/aphelion/lifecycle.py) and the provenance checks of verify     *)
(* (src/src/aphelion/verifier.py).  The verdict reads the lines in two     *)
(* orders: the chain of prev_event_id in file order, everything else in    *)
(* canonical order (time, then event id).                                  *)
(*                                                                         *)
(* A producer may append any event that validate_provenance_event accepts. *)
(* Event ids and instance ids are numbers; 0 stands for an absent field.   *)
(***************************************************************************)
EXTENDS Naturals, FiniteSets, SequencesExt

CONSTANTS
  MaxEvents,  \* bound: lines of the file
  MaxTime     \* bound: distinct timestamps

ProvenanceAssumption == MaxEvents \in Nat /\ MaxTime \in Nat

VARIABLE file  \* the lines of provenance.jsonl

Id == 1 .. MaxEvents
Types == {"create", "publish", "reaffirm", "revise", "supersede", "withdraw"}
Emitting == {"create", "revise", "supersede"}

\* validate_provenance_event
WellFormed(e) ==
  /\ e.type \in Emitting => e.inst # 0
  /\ e.type \in {"reaffirm", "withdraw", "publish"} => e.inst = 0
  /\ (e.type = "create") = (e.prev = 0)

Init == file = <<>>

\* Bound: nothing is added to a file that no later line can make acceptable,
\* one with an instance emitted twice, two creates, an event continued twice
\* or a target where none belongs or none where one does.
Hopeless ==
  \E j, k \in DOMAIN file :
    \/ /\ j # k
       /\ \/ file[j].inst # 0 /\ file[j].inst = file[k].inst
          \/ file[j].prev = file[k].prev
    \/ (file[j].type \in {"create", "publish"}) # (file[j].target = 0)

\* The next line.  A producer emits a fresh instance, or reuses the first.
Append1 ==
  /\ Len(file) < MaxEvents /\ ~Hopeless
  /\ LET n == Len(file) + 1
     IN  \E t \in Types, time \in 1 .. MaxTime, prev \in (Id \ {n}) \cup {0},
            inst \in {0, 1, n}, target \in Id \cup {0} :
           LET e == [id |-> n, type |-> t, time |-> time, prev |-> prev,
                     inst |-> inst, target |-> target]
           IN  WellFormed(e) /\ file' = Append(file, e)

Full == (Len(file) = MaxEvents \/ Hopeless) /\ UNCHANGED file

Next == Append1 \/ Full

Spec == Init /\ [][Next]_file

-----------------------------------------------------------------------------
(* The lifecycle walk.                                                     *)

\* _event_sort_key: (timestamp_to_ms, event_id).
Earlier(a, b) == a.time < b.time \/ (a.time = b.time /\ a.id < b.id)

\* Behind all events that it is not earlier than.
Inserted(chain, e) ==
  LET before == Cardinality({k \in DOMAIN chain : ~Earlier(e, chain[k])})
  IN  SubSeq(chain, 1, before) \o <<e>> \o SubSeq(chain, before + 1, Len(chain))

\* The lines sorted by that key, and the sort is stable.
Canonical(s) ==
  LET sorted[n \in 0 .. Len(s)] == IF n = 0 THEN <<>> ELSE Inserted(sorted[n - 1], s[n])
  IN  sorted[Len(s)]

\* _MATRIX; a claim enters "draft" by none of its rules, so the rules that
\* leave it are never used.
Matrix(state, type) ==
  CASE state = "new" /\ type \in {"create", "publish"} -> "active"
    [] state = "active" /\ type \in {"reaffirm", "revise"} -> "active"
    [] state = "active" /\ type = "supersede" -> "superseded"
    [] state = "active" /\ type = "withdraw" -> "withdrawn"
    [] OTHER -> "illegal"

\* create and publish carry no target, every other event needs one.
Walk(state, e) ==
  IF (e.type \in {"create", "publish"}) = (e.target = 0)
    THEN Matrix(state, e.type) ELSE "illegal"

\* _walk_single_claim
LifecycleOK(s) ==
  LET chain == Canonical(s)
      state[n \in 0 .. Len(chain)] == IF n = 0 THEN "new" ELSE Walk(state[n - 1], chain[n])
  IN  state[Len(chain)] # "illegal"

-----------------------------------------------------------------------------
(* The checks of verify.                                                   *)

\* No instance is emitted twice.
UniqueOK(s) ==
  \A j, k \in DOMAIN s : j # k /\ s[j].inst # 0 => s[j].inst # s[k].inst

Creates(s) == {k \in DOMAIN s : s[k].type = "create"}

\* Seeded bug: two events may have one predecessor.
ChainForked(s) ==
  /\ Cardinality(Creates(s)) = 1
  /\ \A k \in DOMAIN s \ Creates(s) :
       \E j \in DOMAIN s : (j < k \/ j \in Creates(s)) /\ s[k].prev = s[j].id

\* _check_provenance_chain, in the order of the file: one create, and every
\* other event continues an earlier line, or the create, that nothing else
\* continues.
ChainOK(s) ==
  /\ Cardinality(Creates(s)) = 1
  /\ \A k \in DOMAIN s \ Creates(s) :
       /\ \E j \in DOMAIN s : (j < k \/ j \in Creates(s)) /\ s[k].prev = s[j].id
       /\ \A j \in DOMAIN s \ Creates(s) : j < k => s[j].prev # s[k].prev

\* The instance in force before line k of a canonical sequence.
InForce(s, k) ==
  LET emitted == {j \in 1 .. k - 1 : s[j].inst # 0}
  IN  IF emitted = {} THEN 0 ELSE s[Max(emitted)].inst

\* _check_instance_refs: a target is the instance in force at its event.
TargetsOK(s) ==
  LET c == Canonical(s)
  IN  \A k \in DOMAIN c : c[k].target # 0 => c[k].target = InForce(c, k)

\* What verify says of the history, but for the manifest.
Accepted(s) == LifecycleOK(s) /\ UniqueOK(s) /\ ChainOK(s) /\ TargetsOK(s)

-----------------------------------------------------------------------------

\* The events of an accepted claim are one path of prev_event_id that begins
\* with its create: no fork, no gap, no cycle (_check_provenance_chain).
OnePath ==
  file # <<>> /\ Accepted(file) =>
    \E p \in Bijection(DOMAIN file, DOMAIN file) :
      /\ file[p[1]].type = "create"
      /\ \A k \in 2 .. Len(file) : file[p[k]].prev = file[p[k - 1]].id

=============================================================================
