------------------------------ MODULE MCPlacing ------------------------------
(***************************************************************************)
(* The two ways this package puts a new result at a path, as two halves of *)
(* one run: a migration (Migration) and an unpack into a destination that  *)
(* need not be there (NewDestination).  The halves share nothing; the half *)
(* that is not under way keeps one initial state.                          *)
(***************************************************************************)
EXTENDS Migration

CONSTANTS Caller, Levels, UnpackFaults  \* NewDestination's

VARIABLES
  half,  \* "migrate" or "unpack"
  depth, maker, there, held, others, beside, inside,
  at, level, made, stage, backup, renaming, result, kept, named, broken, stray, depth0,
  failures, neighbours  \* NewDestination's; pc and the like under another name

Unpack == INSTANCE NewDestination WITH
  MaxFaults <- UnpackFaults,
  pc <- at, staging <- stage, outcome <- result, told <- named, cut <- broken,
  faults <- failures, aliens <- neighbours

ASSUME UnpackAssumption == Unpack!CallersAssumption

unpack == <<depth, maker, there, held, others, beside, inside, at, level, made, stage,
  backup, renaming, result, kept, named, broken, stray, depth0, failures, neighbours>>

PlacingInit ==
  /\ Init /\ Unpack!Init
  /\ \/ half = "migrate" /\ depth = Levels /\ there /\ ~others
     \/ half = "unpack" /\ kind = "directory" /\ forced = {} /\ dst = "none"

PlacingNext ==
  /\ UNCHANGED half
  /\ \/ half = "migrate" /\ Next /\ UNCHANGED unpack
     \/ half = "unpack" /\ Unpack!Next /\ UNCHANGED vars

PlacingSpec == PlacingInit /\ [][PlacingNext]_<<vars, unpack, half>>

OthersParentsKept == Unpack!OthersParentsKept
ImplementsPublication == Unpack!ImplementsPublication

\* What a call leaves behind is named, in either half, and a failed unpack has
\* removed the parents it made.
NothingUnnamed == LeftoversNamed /\ Unpack!LeftoversNamed /\ Unpack!ParentsRemoved

=============================================================================
