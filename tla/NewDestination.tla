--------------------------- MODULE NewDestination ---------------------------
(***************************************************************************)
(* _unpack around the merge: calls that unpack into one destination, which *)
(* may not be there yet (src/src/aphelion/unpacker.py).  Missing parents   *)
(* are made and, on failure, removed; the tree is staged beside a new      *)
(* destination and renamed to it, or inside an old one and merged.  The    *)
(* merge is one step here: Replacement has its own steps, and AtomicMerge  *)
(* what they amount to.                                                    *)
(*                                                                         *)
(* The parents form a chain, 1 the outermost and Levels the directory of   *)
(* the destination; the first `depth` of them exist.  Paths through links  *)
(* are left out: the strict look at the destination refuses them.          *)
(***************************************************************************)
EXTENDS Naturals, FiniteSets

CONSTANTS
  Caller,      \* calls that unpack into the destination
  Levels,      \* parents of the destination that may be missing
  Replaces,    \* a rename replaces an empty directory (not on Windows)
  MaxFaults,   \* bound: failures and interrupts
  MaxForeign   \* bound: directories made by another program

CallersAssumption ==
  /\ IsFiniteSet(Caller)
  /\ Levels \in Nat \ {0}
  /\ Replaces \in BOOLEAN
  /\ MaxFaults \in Nat /\ MaxForeign \in Nat

Level == 1 .. Levels

VARIABLES
  depth,    \* how many of the parents exist
  maker,    \* who made each parent: a call, or "other"
  there,    \* the destination exists
  held,     \* calls whose tree is in it
  others,   \* it holds something else as well
  beside,   \* calls whose staging directory is beside the destination
  inside,   \* calls whose staging directory is in it
  pc,       \* where each call is
  level,    \* the parent it looks at or makes
  made,     \* the parents it has on record
  staging,  \* the staging directory it has on record
  backup,   \* it has a backup directory in staging
  renaming, \* the rename is on record
  outcome,  \* how it ended
  kept,     \* its merge left originals in the backup
  told,     \* it named what it left over
  cut,      \* history: it was interrupted where nothing catches it any more
  stray,    \* history: parents on record that it did not make
  depth0,   \* the parents that existed at first
  faults, aliens  \* how much of the two bounds is used

disk == <<depth, maker, there, held, others, beside, inside>>
memory == <<level, made, staging, backup, renaming>>
ending == <<outcome, kept, told, cut>>
ghosts == <<stray, depth0>>
vars == <<disk, pc, memory, ending, ghosts, faults, aliens>>

Init ==
  /\ depth \in 0 .. Levels /\ depth0 = depth
  /\ maker = [k \in Level |-> "other"]
  /\ there \in BOOLEAN /\ others \in BOOLEAN
  /\ there => depth = Levels
  /\ others => there
  /\ held = {} /\ beside = {} /\ inside = {}
  /\ pc = [c \in Caller |-> "start"]
  /\ level = [c \in Caller |-> 0]
  /\ made = [c \in Caller |-> {}]
  /\ staging = [c \in Caller |-> "none"]
  /\ backup = [c \in Caller |-> FALSE] /\ renaming = [c \in Caller |-> FALSE]
  /\ outcome = [c \in Caller |-> "running"]
  /\ kept = {} /\ told = {} /\ cut = {}
  /\ stray = [c \in Caller |-> {}]
  /\ faults = 0 /\ aliens = 0

-----------------------------------------------------------------------------

Fault == faults < MaxFaults /\ faults' = faults + 1

Goto(c, p) == pc' = [pc EXCEPT ![c] = p]

\* The directory of parent k holds nothing.
Empty(k) == depth = k /\ (k = Levels => ~there /\ beside = {})

EmptyDest == there /\ held = {} /\ inside = {} /\ ~others

-----------------------------------------------------------------------------
(* _make_parents                                                           *)

\* The look at the destination as spelled, before anything is made.  A call
\* that it refuses has done nothing, and is left out.
Start(c) ==
  /\ pc[c] = "start"
  /\ Goto(c, "scan")
  /\ level' = [level EXCEPT ![c] = Levels]
  /\ UNCHANGED <<disk, made, staging, backup, renaming, ending, ghosts, faults, aliens>>

\* Outwards, up to the first parent that is there.
Scan(c) ==
  /\ pc[c] = "scan"
  /\ IF level[c] <= depth
       THEN Goto(c, "record") /\ level' = [level EXCEPT ![c] = @ + 1]
       ELSE level' = [level EXCEPT ![c] = @ - 1] /\ UNCHANGED pc
  /\ UNCHANGED <<disk, made, staging, backup, renaming, ending, ghosts, faults, aliens>>

\* Each missing parent goes on record before its mkdir.
Record(c) ==
  /\ pc[c] = "record"
  /\ IF level[c] > Levels
       THEN Goto(c, "place") /\ UNCHANGED <<made, stray>>
       ELSE /\ Goto(c, "mkdir")
            /\ made' = [made EXCEPT ![c] = @ \cup {level[c]}]
            /\ stray' = [stray EXCEPT ![c] = @ \cup {level[c]}]
  /\ UNCHANGED <<disk, level, staging, backup, renaming, ending, depth0, faults, aliens>>

Mkdir(c) ==
  /\ pc[c] = "mkdir" /\ depth = level[c] - 1
  /\ depth' = level[c]
  /\ maker' = [maker EXCEPT ![level[c]] = c]
  /\ stray' = [stray EXCEPT ![c] = @ \ {level[c]}]
  /\ level' = [level EXCEPT ![c] = @ + 1]
  /\ Goto(c, "record")
  /\ UNCHANGED <<there, held, others, beside, inside, made, staging, backup, renaming, ending,
                 depth0, faults, aliens>>

\* Seeded bug: a parent that is there by now stays on record.
MkdirFoundRecorded(c) ==
  /\ pc[c] = "mkdir" /\ depth >= level[c]
  /\ stray' = [stray EXCEPT ![c] = @ \ {level[c]}]
  /\ Goto(c, "found")
  /\ UNCHANGED <<disk, level, made, staging, backup, renaming, ending, depth0, faults, aliens>>

\* A parent that is there by now is taken off the record again.
MkdirFound(c) ==
  /\ pc[c] = "mkdir" /\ depth >= level[c]
  /\ made' = [made EXCEPT ![c] = @ \ {level[c]}]
  /\ stray' = [stray EXCEPT ![c] = @ \ {level[c]}]
  /\ Goto(c, "found")
  /\ UNCHANGED <<disk, level, staging, backup, renaming, ending, depth0, faults, aliens>>

\* It must still be there, as a directory.
Found(c) ==
  /\ pc[c] = "found"
  /\ IF depth >= level[c]
       THEN Goto(c, "record") /\ level' = [level EXCEPT ![c] = @ + 1]
       ELSE Goto(c, "fail") /\ UNCHANGED level
  /\ UNCHANGED <<disk, made, staging, backup, renaming, ending, ghosts, faults, aliens>>

\* The parent above it is gone again.
MkdirOrphaned(c) ==
  /\ pc[c] = "mkdir" /\ depth < level[c] - 1
  /\ Goto(c, "fail")
  /\ UNCHANGED <<disk, memory, ending, ghosts, faults, aliens>>

-----------------------------------------------------------------------------
(* The staging directory, the extraction, and the destination that is new  *)
(* or not.                                                                 *)

Place(c) ==
  /\ pc[c] = "place"
  /\ Goto(c, IF there THEN "inside" ELSE "beside")
  /\ UNCHANGED <<disk, memory, ending, ghosts, faults, aliens>>

StageBeside(c) ==
  /\ pc[c] = "beside"
  /\ IF depth = Levels
       THEN /\ beside' = beside \cup {c}
            /\ staging' = [staging EXCEPT ![c] = "beside"]
            /\ Goto(c, "extract")
       ELSE Goto(c, "fail") /\ UNCHANGED <<beside, staging>>
  /\ UNCHANGED <<depth, maker, there, held, others, inside, level, made, backup, renaming, ending,
                 ghosts, faults, aliens>>

StageInside(c) ==
  /\ pc[c] = "inside"
  /\ inside' = inside \cup {c}
  /\ staging' = [staging EXCEPT ![c] = "inside"]
  /\ Goto(c, "backup")
  /\ UNCHANGED <<depth, maker, there, held, others, beside, level, made, backup, renaming, ending,
                 ghosts, faults, aliens>>

MakeBackup(c) ==
  /\ pc[c] \in {"backup", "aside"}
  /\ backup' = [backup EXCEPT ![c] = TRUE]
  /\ Goto(c, IF pc[c] = "backup" THEN "extract" ELSE "merge")
  /\ UNCHANGED <<disk, level, made, staging, renaming, ending, ghosts, faults, aliens>>

\* _extract: every member has passed every check and is in staging.
Extract(c) ==
  /\ pc[c] = "extract"
  /\ Goto(c, IF backup[c] THEN "merge" ELSE "appeared")
  /\ UNCHANGED <<disk, memory, ending, ghosts, faults, aliens>>

\* Seeded bug: the rename is put on record once it has been done.
AppearedUnrecorded(c) ==
  /\ pc[c] = "appeared"
  /\ Goto(c, IF there THEN "aside" ELSE "rename")
  /\ UNCHANGED <<disk, memory, ending, ghosts, faults, aliens>>

\* A destination that appeared beside staging is merged into; else the rename
\* goes on record.
Appeared(c) ==
  /\ pc[c] = "appeared"
  /\ Goto(c, IF there THEN "aside" ELSE "rename")
  /\ renaming' = [renaming EXCEPT ![c] = ~there]
  /\ UNCHANGED <<disk, level, made, staging, backup, ending, ghosts, faults, aliens>>

\* os.rename(staging, dest): onto nothing or, on some systems, onto an empty
\* directory that appeared meanwhile.
Rename(c) ==
  /\ pc[c] = "rename" /\ (~there \/ (Replaces /\ EmptyDest))
  /\ there' = TRUE /\ held' = held \cup {c}
  /\ beside' = beside \ {c}
  /\ Goto(c, "end")
  /\ UNCHANGED <<depth, maker, others, inside, memory, ending, ghosts, faults, aliens>>

RenameRefused(c) ==
  /\ pc[c] = "rename" /\ there /\ ~(Replaces /\ EmptyDest)
  /\ Goto(c, "fail")
  /\ UNCHANGED <<disk, memory, ending, ghosts, faults, aliens>>

\* _merge succeeds (Replacement!Complete).
Merge(c) ==
  /\ pc[c] = "merge"
  /\ held' = held \cup {c}
  /\ Goto(c, "tidy")
  /\ UNCHANGED <<depth, maker, there, others, beside, inside, memory, ending, ghosts, faults, aliens>>

\* _merge fails: the destination is as it was, or originals stay in the backup.
MergeFails(c) ==
  /\ pc[c] = "merge" /\ Fault
  /\ kept' \in {kept, kept \cup {c}}
  /\ Goto(c, "fail")
  /\ UNCHANGED <<disk, memory, outcome, told, cut, ghosts, aliens>>

-----------------------------------------------------------------------------
(* How a call ends.                                                        *)

Unstaged(c) == beside' = beside \ {c} /\ inside' = inside \ {c}

\* Once merged, only what was replaced is deleted; what stays is named.
Tidy(c) ==
  /\ pc[c] = "tidy"
  /\ \/ Unstaged(c) /\ UNCHANGED <<told, faults>>
     \/ Fault /\ told' = told \cup {c} /\ UNCHANGED <<beside, inside>>
  /\ Goto(c, "end")
  /\ UNCHANGED <<depth, maker, there, held, others, memory, outcome, kept, cut, ghosts, aliens>>

\* What the call says: the tree is in place, or it failed.
End(c) ==
  /\ pc[c] = "end" /\ outcome[c] = "running"
  /\ outcome' = [outcome EXCEPT ![c] = "completed"]
  /\ UNCHANGED <<disk, pc, memory, kept, told, cut, ghosts, faults, aliens>>

\* A call fails, or is interrupted before or right after it.  An interrupt
\* right after a staging directory is made finds it on no record.
Trouble(c) ==
  /\ pc[c] \in {"scan", "record", "mkdir", "found", "place", "beside", "inside", "backup",
                "extract", "appeared", "aside", "rename"}
  /\ Fault
  /\ Goto(c, "fail")
  /\ \/ UNCHANGED <<beside, inside>>
     \/ pc[c] = "beside" /\ depth = Levels /\ beside' = beside \cup {c} /\ UNCHANGED inside
     \/ pc[c] = "inside" /\ inside' = inside \cup {c} /\ UNCHANGED beside
  /\ UNCHANGED <<depth, maker, there, held, others, memory, ending, ghosts, aliens>>

\* An interrupt right after the rename.
Late(c) ==
  /\ pc[c] = "end" /\ staging[c] = "beside" /\ ~backup[c] /\ outcome[c] = "running"
  /\ Fault
  /\ Goto(c, "fail")
  /\ UNCHANGED <<disk, memory, ending, ghosts, aliens>>

\* The rename was on record and staging is gone: the unpack completed.
Judge(c) ==
  /\ pc[c] = "fail"
  /\ IF renaming[c] /\ c \notin beside
       THEN outcome' = [outcome EXCEPT ![c] = "completed"] /\ Goto(c, "end")
       ELSE UNCHANGED outcome /\ Goto(c, "unstage")
  /\ UNCHANGED <<disk, memory, kept, told, cut, ghosts, faults, aliens>>

\* _discard_backup, _remove_or_warn: a backup that holds originals is kept,
\* and staging with it; what stays is named.
Unstage(c) ==
  /\ pc[c] = "unstage"
  /\ \/ staging[c] = "none" /\ UNCHANGED <<beside, inside, told, faults>>
     \/ staging[c] # "none" /\ c \notin kept /\ Unstaged(c) /\ UNCHANGED <<told, faults>>
     \/ /\ staging[c] # "none"
        /\ IF c \in kept THEN UNCHANGED faults ELSE Fault
        /\ told' = told \cup {c} /\ UNCHANGED <<beside, inside>>
  /\ Goto(c, "unmake")
  /\ UNCHANGED <<depth, maker, there, held, others, memory, outcome, kept, cut, ghosts, aliens>>

Innermost(c) == CHOOSE k \in made[c] : \A j \in made[c] : j <= k

\* _remove_made: rmdir, so that what others put there stays.
Unmake(c) ==
  /\ pc[c] = "unmake" /\ made[c] # {}
  /\ LET k == Innermost(c)
     IN  /\ made' = [made EXCEPT ![c] = @ \ {k}]
         /\ IF Empty(k) THEN depth' = k - 1 ELSE UNCHANGED depth
  /\ UNCHANGED <<maker, there, held, others, beside, inside, pc, level, staging, backup, renaming,
                 ending, ghosts, faults, aliens>>

Failed(c) ==
  /\ pc[c] = "unmake" /\ made[c] = {}
  /\ outcome' = [outcome EXCEPT ![c] = "failed"]
  /\ Goto(c, "end")
  /\ UNCHANGED <<disk, memory, kept, told, cut, ghosts, faults, aliens>>

\* An interrupt in the clean-up leaves the rest as it is.
CutShort(c) ==
  /\ pc[c] \in {"unstage", "unmake"} /\ Fault
  /\ cut' = cut \cup {c}
  /\ outcome' = [outcome EXCEPT ![c] = "failed"]
  /\ Goto(c, "end")
  /\ UNCHANGED <<disk, memory, kept, told, ghosts, aliens>>

-----------------------------------------------------------------------------

\* Another program makes the next directory on the way to the destination.
Foreign ==
  /\ aliens < MaxForeign /\ ~there
  /\ IF depth < Levels
       THEN /\ depth' = depth + 1 /\ maker' = [maker EXCEPT ![depth + 1] = "other"]
            /\ UNCHANGED there
       ELSE there' = TRUE /\ UNCHANGED <<depth, maker>>
  /\ aliens' = aliens + 1
  /\ UNCHANGED <<held, others, beside, inside, pc, memory, ending, ghosts, faults>>

Over == (\A c \in Caller : outcome[c] # "running") /\ UNCHANGED vars

Steps(c) ==
  \/ Start(c) \/ Scan(c) \/ Record(c) \/ Mkdir(c) \/ MkdirFound(c) \/ Found(c)
  \/ MkdirOrphaned(c) \/ Place(c) \/ StageBeside(c) \/ StageInside(c) \/ MakeBackup(c)
  \/ Extract(c) \/ Appeared(c) \/ Rename(c) \/ RenameRefused(c) \/ Merge(c) \/ MergeFails(c) \/ Tidy(c) \/ End(c)
  \/ Trouble(c) \/ Late(c) \/ Judge(c) \/ Unstage(c) \/ Unmake(c) \/ Failed(c) \/ CutShort(c)

Next == (\E c \in Caller : Steps(c)) \/ Foreign \/ Over

Spec == Init /\ [][Next]_vars

-----------------------------------------------------------------------------

\* A call removes no directory that another made, unless some call's mkdir of
\* it never came back (_make_parents, _remove_made).
OthersParentsKept ==
  [][\A c \in Caller, k \in Level :
       made'[c] # made[c] /\ k \in made[c] /\ depth' < k /\ depth >= k =>
         maker[k] = c \/ \E d \in Caller : k \in stray[d]]_vars

\* A call that failed alone has removed every parent it made (unpack: "Parent
\* directories this call created are removed again").
ParentsRemoved ==
  \A c \in Caller :
    /\ outcome[c] = "failed" /\ c \notin cut \cup beside
    /\ aliens = 0 /\ \A o \in Caller \ {c} : pc[o] = "start"
    => depth = depth0

\* A staging directory that stays is named, unless an interrupt struck the
\* clean-up or the instant the directory was made (unpack: "Leftovers are
\* named"; "Known limits").
LeftoversNamed ==
  \A c \in Caller :
    outcome[c] # "running" /\ c \in beside \cup inside =>
      c \in told \cup cut \/ staging[c] = "none"

\* The calls implement publication: no tree is lost to another call's rename,
\* and none is reported wrongly, however rename and interrupt fall together.
Published == INSTANCE Publication
ImplementsPublication == Published!Spec

=============================================================================
