---------------------------- MODULE Publication ----------------------------
(***************************************************************************)
(* What calls that unpack into one destination promise each other: a tree  *)
(* appears whole, once, and stays; and a call says "completed" exactly if  *)
(* its tree appeared (unpack's docstring, src/src/aphelion/unpacker.py).   *)
(***************************************************************************)
CONSTANT Caller  \* the calls

VARIABLES
  held,    \* the calls whose tree is in the destination
  outcome  \* how each call ended

vars == <<held, outcome>>

Init ==
  /\ held = {}
  /\ outcome = [c \in Caller |-> "running"]

Publish(c) ==
  /\ outcome[c] = "running" /\ c \notin held
  /\ held' = held \cup {c}
  /\ UNCHANGED outcome

End(c) ==
  /\ outcome[c] = "running"
  /\ outcome' = [outcome EXCEPT ![c] = IF c \in held THEN "completed" ELSE "failed"]
  /\ UNCHANGED held

Next == \E c \in Caller : Publish(c) \/ End(c)

Spec == Init /\ [][Next]_vars

=============================================================================
