---------------------------- MODULE AtomicMerge ----------------------------
(***************************************************************************)
(* What merging into an existing destination promises, without how: the    *)
(* entry that a slot held is in its place or aside, and is given up only   *)
(* once the update has succeeded; a failure says whether anything stayed   *)
(* aside.  Replacement implements this (docstring of _Replacement,         *)
(* src/src/aphelion/unpacker.py).                                          *)
(***************************************************************************)
CONSTANT Slots  \* directory entries of the destination

VARIABLES
  place,   \* where the original of each slot is
  outcome  \* how the call ended

vars == <<place, outcome>>

Init ==
  /\ place = [s \in Slots |-> "dest"]
  /\ outcome = "running"

\* One original leaves its place, or comes back to it.
MoveAside(s) ==
  /\ outcome = "running" /\ place[s] = "dest"
  /\ place' = [place EXCEPT ![s] = "aside"]
  /\ UNCHANGED outcome

PutBack(s) ==
  /\ outcome = "running" /\ place[s] = "aside"
  /\ place' = [place EXCEPT ![s] = "dest"]
  /\ UNCHANGED outcome

\* From here on the call has succeeded, and the originals may go.
Update == outcome = "running" /\ outcome' = "updated" /\ UNCHANGED place

GiveUp ==
  /\ outcome = "updated"
  /\ \E S \in SUBSET {s \in Slots : place[s] = "aside"} :
       place' = [s \in Slots |-> IF s \in S THEN "gone" ELSE place[s]]
  /\ UNCHANGED outcome

\* A failure says that all is back, or names what is kept; a further
\* interrupt may end the call before it says so.
Fail ==
  /\ outcome = "running"
  /\ \/ outcome' = "unchanged" /\ \A s \in Slots : place[s] = "dest"
     \/ outcome' = "kept" /\ \E s \in Slots : place[s] = "aside"
     \/ outcome' = "cut"
  /\ UNCHANGED place

Next ==
  \/ \E s \in Slots : MoveAside(s) \/ PutBack(s)
  \/ Update \/ GiveUp \/ Fail

Spec == Init /\ [][Next]_vars

=============================================================================
