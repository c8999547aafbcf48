------------------------------ MODULE Migration ------------------------------
(***************************************************************************)
(* migrate_directory and migrate_archive (src/src/aphelion/migrate.py):    *)
(* calls that put a migrated tree, or a migrated archive, at one path.  A  *)
(* tree is staged beside the path under a random name and swapped in       *)
(* through _Replacement.replace_entry or, where nothing was there, by a    *)
(* rename.  An archive is drafted in a file of a fixed name and replaces   *)
(* what is there.                                                          *)
(*                                                                         *)
(* What is at a path is an object: "old" what the first call found, a      *)
(* call's name the tree or the file that call made.  A file keeps its      *)
(* identity when it is renamed, so a call that holds it open writes on     *)
(* into it.                                                                *)
(***************************************************************************)
EXTENDS Naturals, FiniteSets

CONSTANTS
  Call,        \* calls with this destination
  Replaces,    \* a rename replaces an empty directory (not on Windows)
  MaxFaults,   \* bound: failures, interrupts and kills
  MaxForeign   \* bound: entries another program makes at the path

ASSUME MigrationAssumption ==
  /\ IsFiniteSet(Call)
  /\ Call \cap {"none", "old", "partial", "emptyDir", "alien", "torn", "mixed", "empty", "rest"} = {}
  /\ Replaces \in BOOLEAN
  /\ MaxFaults \in Nat /\ MaxForeign \in Nat

VARIABLES
  kind,     \* what the path's suffix makes of every call: "directory" or "archive"
  forced,   \* the calls with force=True
  dst,      \* the object at the destination
  staging,  \* the object at each call's staging name
  aside,    \* each call's backup directory: "none", "empty" or the object in it
  tmp,      \* the file at the fixed temporary name
  text,     \* what is in the file each call made
  pc,       \* where each call is
  over,     \* it found something at the destination
  log,      \* the step it has on record
  handle,   \* the file it has open
  outcome,  \* how it ended
  told,     \* what it named as left over
  cut,      \* history: calls interrupted in their clean-up
  met,      \* history: calls that ran at the same time as another
  first,    \* history: what was at the destination at first
  last,     \* history: the call that put its own there for good last, or first
  faults, aliens  \* how much of the two bounds is used

disk == <<dst, staging, aside, tmp, text>>
memory == <<over, log, handle>>
report == <<outcome, told>>
ghosts == <<kind, forced, met, first, last>>
vars == <<disk, memory, pc, report, ghosts, cut, faults, aliens>>

Init ==
  /\ kind \in {"directory", "archive"} /\ forced \in SUBSET Call
  /\ dst \in {"none", "old"} /\ first = dst /\ last = dst
  /\ staging = [c \in Call |-> "none"] /\ aside = [c \in Call |-> "none"]
  /\ tmp = "none" /\ text = [c \in Call |-> "torn"]
  /\ pc = [c \in Call |-> "idle"]
  /\ over = [c \in Call |-> FALSE] /\ log = [c \in Call |-> "none"]
  /\ handle = [c \in Call |-> c]
  /\ outcome = [c \in Call |-> "running"] /\ told = [c \in Call |-> {}]
  /\ cut = {} /\ met = {}
  /\ faults = 0 /\ aliens = 0

-----------------------------------------------------------------------------

Fault == faults < MaxFaults /\ faults' = faults + 1

Goto(c, p) == pc' = [pc EXCEPT ![c] = p]
Ended(c, o) == Goto(c, "end") /\ outcome' = [outcome EXCEPT ![c] = o]

\* A directory can be renamed to the destination.
Free == dst = "none" \/ (Replaces /\ dst = "emptyDir")

Running(c) == pc[c] \notin {"idle", "end"}

\* What c has put at the destination stays there, unless somebody else moves it.
InPlace(c) == last' = c /\ UNCHANGED <<kind, forced, met, first>>

Begin(c) ==
  /\ pc[c] = "idle"
  /\ Goto(c, "look")
  /\ LET R == {d \in Call : Running(d)}
     IN  met' = IF R = {} THEN met ELSE met \cup R \cup {c}
  /\ UNCHANGED <<disk, memory, report, kind, forced, first, last, cut, faults, aliens>>

\* The source is missing, is not of the old format, or overlaps the destination.
Refuse(c) ==
  /\ pc[c] = "look"
  /\ Ended(c, "refused")
  /\ UNCHANGED <<disk, memory, told, ghosts, cut, faults, aliens>>

\* The strict look at the destination decides whether there is something to
\* replace; without force that is refused.
Look(c) ==
  /\ pc[c] = "look"
  /\ over' = [over EXCEPT ![c] = dst # "none"]
  /\ IF dst # "none" /\ c \notin forced
       THEN Ended(c, "refused")
       ELSE Goto(c, IF kind = "archive" THEN "open" ELSE "copy") /\ UNCHANGED outcome
  /\ UNCHANGED <<disk, log, handle, told, ghosts, cut, faults, aliens>>

-----------------------------------------------------------------------------
(* migrate_directory                                                       *)

\* copytree and the new manifest, into staging
Copy(c) ==
  /\ pc[c] = "copy"
  /\ \/ staging' = [staging EXCEPT ![c] = c] /\ Goto(c, IF over[c] THEN "backup" ELSE "rename")
        /\ UNCHANGED faults
     \/ Fault /\ \E s \in {"none", "partial"} : staging' = [staging EXCEPT ![c] = s]
        /\ Goto(c, "unstage")
  /\ UNCHANGED <<dst, aside, tmp, text, memory, report, ghosts, cut, aliens>>

\* os.rename(staging, dst_abs), which is on record: an interrupt right after
\* it finds staging gone and says that the migration completed.
Rename(c) ==
  /\ pc[c] = "rename" /\ Free
  /\ dst' = c /\ staging' = [staging EXCEPT ![c] = "none"]
  /\ InPlace(c) /\ Ended(c, "completed")
  /\ UNCHANGED <<aside, tmp, text, memory, told, cut, faults, aliens>>

MakeBackup(c) ==
  /\ pc[c] = "backup"
  /\ aside' = [aside EXCEPT ![c] = "empty"]
  /\ Goto(c, "swap")
  /\ UNCHANGED <<dst, staging, tmp, text, memory, report, ghosts, cut, faults, aliens>>

\* replace_entry looks again; the step is on record before it runs.
Swap(c) ==
  /\ pc[c] = "swap"
  /\ log' = [log EXCEPT ![c] = IF dst = "none" THEN "placed" ELSE "saved"]
  /\ Goto(c, IF dst = "none" THEN "put" ELSE "save")
  /\ UNCHANGED <<disk, over, handle, report, ghosts, cut, faults, aliens>>

\* os.replace(target, saved)
Save(c) ==
  /\ pc[c] = "save" /\ dst # "none"
  /\ aside' = [aside EXCEPT ![c] = dst] /\ dst' = "none"
  /\ Goto(c, "put")
  /\ UNCHANGED <<staging, tmp, text, memory, report, ghosts, cut, faults, aliens>>

\* os.replace, or os.rename, of staging to the target
Put(c) ==
  /\ pc[c] = "put" /\ Free
  /\ dst' = c /\ staging' = [staging EXCEPT ![c] = "none"]
  /\ Goto(c, "complete")
  /\ UNCHANGED <<aside, tmp, text, memory, report, ghosts, cut, faults, aliens>>

\* From here on an exception is no longer undone.
Complete(c) ==
  /\ pc[c] = "complete"
  /\ InPlace(c) /\ Goto(c, "commit")
  /\ UNCHANGED <<disk, memory, report, cut, faults, aliens>>

\* Seeded bug: an interrupted commit says nothing of the backup.
CommitSilently(c) ==
  /\ pc[c] = "commit"
  /\ \/ aside' = [aside EXCEPT ![c] = "none"] /\ UNCHANGED faults
     \/ Fault /\ aside' = [aside EXCEPT ![c] = "rest"]
  /\ Ended(c, "completed")
  /\ UNCHANGED <<dst, staging, tmp, text, memory, told, ghosts, cut, aliens>>

\* commit deletes the old tree; whether it cannot or is interrupted, what is
\* left is named.
Commit(c) ==
  /\ pc[c] = "commit"
  /\ \/ aside' = [aside EXCEPT ![c] = "none"] /\ UNCHANGED <<told, faults>>
     \/ /\ Fault
        /\ aside' = [aside EXCEPT ![c] = "rest"]
        /\ told' = [told EXCEPT ![c] = @ \cup {"backup"}]
  /\ Ended(c, "completed")
  /\ UNCHANGED <<dst, staging, tmp, text, memory, ghosts, cut, aliens>>

\* A step fails: the state of the destination refuses it, or any fault or
\* interrupt does.  An exclusive rename that fails comes off the record; an
\* interrupt leaves the step on it.
Refused(c) ==
  \/ pc[c] = "save" /\ dst = "none"
  \/ pc[c] \in {"rename", "put"} /\ ~Free

Trouble(c) ==
  /\ pc[c] \in {"rename", "backup", "swap", "save", "put", "complete"}
  /\ IF Refused(c) THEN UNCHANGED faults ELSE Fault
  /\ Goto(c, CASE pc[c] = "rename" -> "unstage" [] pc[c] = "backup" -> "discard" [] OTHER -> "undo")
  /\ \E l \in IF pc[c] = "put" /\ log[c] = "placed" THEN {"none", "placed"} ELSE {log[c]} :
       log' = [log EXCEPT ![c] = l]
  /\ UNCHANGED <<disk, over, handle, report, ghosts, cut, aliens>>

-----------------------------------------------------------------------------
(* Its rollback and clean-up.                                              *)

AfterMove(c) == IF log[c] = "saved" THEN "restore" ELSE "report"

\* _move_back looks at both ends first.
Undo(c) ==
  /\ pc[c] = "undo"
  /\ Goto(c, IF log[c] # "none" /\ dst # "none" /\ staging[c] = "none"
               THEN "return" ELSE AfterMove(c))
  /\ UNCHANGED <<disk, memory, report, ghosts, cut, faults, aliens>>

\* os.rename(path, back); a failure is remembered and the undo goes on
Return(c) ==
  /\ pc[c] = "return"
  /\ \/ dst # "none" /\ staging' = [staging EXCEPT ![c] = dst] /\ dst' = "none" /\ UNCHANGED faults
     \/ dst = "none" /\ UNCHANGED <<dst, staging, faults>>
     \/ Fault /\ UNCHANGED <<dst, staging>>
  /\ Goto(c, AfterMove(c))
  /\ UNCHANGED <<aside, tmp, text, memory, report, ghosts, cut, aliens>>

\* _restore: the target is free, or still holds the new entry.
Restore(c) ==
  /\ pc[c] = "restore"
  /\ Goto(c, IF aside[c] # "empty" /\ (dst = "none" \/ staging[c] = "none")
               THEN "putback" ELSE "report")
  /\ UNCHANGED <<disk, memory, report, ghosts, cut, faults, aliens>>

\* os.replace(saved, target); a failure is remembered.
PutBack(c) ==
  /\ pc[c] = "putback"
  /\ \/ Free /\ dst' = aside[c] /\ aside' = [aside EXCEPT ![c] = "empty"] /\ UNCHANGED faults
     \/ ~Free /\ UNCHANGED <<dst, aside, faults>>
     \/ Fault /\ UNCHANGED <<dst, aside>>
  /\ Goto(c, "report")
  /\ UNCHANGED <<staging, tmp, text, memory, report, ghosts, cut, aliens>>

\* What could not be put back is named.
Report(c) ==
  /\ pc[c] = "report"
  /\ told' = [told EXCEPT ![c] = @
       \cup (IF log[c] = "saved" /\ aside[c] # "empty" THEN {"backup"} ELSE {})
       \cup (IF log[c] = "placed" /\ dst # "none" THEN {"added"} ELSE {})]
  /\ Goto(c, "discard")
  /\ UNCHANGED <<disk, memory, outcome, ghosts, cut, faults, aliens>>

\* An interrupt outside the attempts ends the rollback, not the clean-up.
RollbackCut(c) ==
  /\ pc[c] \in {"undo", "restore", "report"} /\ Fault
  /\ Goto(c, "discard")
  /\ UNCHANGED <<disk, memory, report, ghosts, cut, aliens>>

\* Seeded bug: the backup is deleted with what is in it.
DiscardTree(c) ==
  /\ pc[c] = "discard"
  /\ aside' = [aside EXCEPT ![c] = "none"]
  /\ Goto(c, "unstage")
  /\ UNCHANGED <<dst, staging, tmp, text, memory, report, ghosts, cut, faults, aliens>>

\* _discard_backup: removed only if it is empty, else named.
Discard(c) ==
  /\ pc[c] = "discard"
  /\ \/ /\ aside[c] \in {"none", "empty"}
        /\ aside' = [aside EXCEPT ![c] = "none"] /\ UNCHANGED <<told, faults>>
     \/ /\ IF aside[c] \in {"none", "empty"} THEN Fault ELSE UNCHANGED faults
        /\ told' = [told EXCEPT ![c] = @ \cup {"backup"}] /\ UNCHANGED aside
  /\ Goto(c, "unstage")
  /\ UNCHANGED <<dst, staging, tmp, text, memory, outcome, ghosts, cut, aliens>>

\* _remove_or_warn(staging)
Unstage(c) ==
  /\ pc[c] = "unstage"
  /\ \/ staging' = [staging EXCEPT ![c] = "none"] /\ UNCHANGED <<told, faults>>
     \/ Fault /\ told' = [told EXCEPT ![c] = @ \cup {"staging"}] /\ UNCHANGED staging
  /\ Ended(c, "failed")
  /\ UNCHANGED <<dst, aside, tmp, text, memory, ghosts, cut, aliens>>

CutShort(c) ==
  /\ pc[c] \in {"discard", "unstage"} /\ Fault
  /\ cut' = cut \cup {c}
  /\ Ended(c, "failed")
  /\ UNCHANGED <<disk, memory, told, ghosts, aliens>>

-----------------------------------------------------------------------------
(* migrate_archive                                                         *)

\* write_bytes opens the draft, a new file or the one at the fixed name, which
\* it empties,
Open(c) ==
  /\ pc[c] = "open"
  /\ LET f == IF tmp = "none" THEN c ELSE tmp
     IN  /\ handle' = [handle EXCEPT ![c] = f] /\ tmp' = f
         /\ text' = [text EXCEPT ![f] = "torn"]
  /\ Goto(c, "write")
  /\ UNCHANGED <<dst, staging, aside, over, log, report, ghosts, cut, faults, aliens>>

\* Seeded bug: a short write goes unnoticed.
WriteShort(c) ==
  /\ pc[c] = "write"
  /\ \E t \in {c, "torn"} : text' = [text EXCEPT ![handle[c]] = t]
  /\ Goto(c, "replace")
  /\ UNCHANGED <<dst, staging, aside, tmp, memory, report, ghosts, cut, faults, aliens>>

\* and writes it from the start, wherever the file is by now.  A longer text
\* that is in it already keeps its end.
Write(c) ==
  /\ pc[c] = "write"
  /\ \E t \in {c} \cup (IF text[handle[c]] = "torn" THEN {} ELSE {"mixed"}) :
       text' = [text EXCEPT ![handle[c]] = t]
  /\ Goto(c, "replace")
  /\ UNCHANGED <<dst, staging, aside, tmp, memory, report, ghosts, cut, faults, aliens>>

\* os.replace(tmp_path, dst_path): the new archive is in place, and nothing
\* undoes that or tells of it but the return.
Replace(c) ==
  /\ pc[c] = "replace"
  /\ IF tmp = "none" THEN Ended(c, "failed") /\ UNCHANGED <<dst, tmp, ghosts>>
       ELSE dst' = tmp /\ tmp' = "none" /\ InPlace(c) /\ Goto(c, "replaced") /\ UNCHANGED outcome
  /\ UNCHANGED <<staging, aside, text, memory, told, cut, faults, aliens>>

\* return dst_path
Finish(c) ==
  /\ pc[c] = "replaced"
  /\ Ended(c, "completed")
  /\ UNCHANGED <<disk, memory, told, ghosts, cut, faults, aliens>>

\* Any step fails, or an interrupt lands before it or right after os.replace.
ArchiveFails(c) ==
  /\ pc[c] \in {"open", "write", "replace", "replaced"} /\ Fault
  /\ Ended(c, "failed")
  /\ UNCHANGED <<disk, memory, told, ghosts, cut, aliens>>

-----------------------------------------------------------------------------

\* A tree that was being copied or deleted is left in part.
Kill(c) ==
  /\ Running(c) /\ Fault
  /\ \E s \in IF pc[c] \in {"copy", "unstage"} THEN {staging[c], "partial"} ELSE {staging[c]} :
       staging' = [staging EXCEPT ![c] = s]
  /\ \E a \in IF pc[c] = "commit" THEN {aside[c], "rest"} ELSE {aside[c]} :
       aside' = [aside EXCEPT ![c] = a]
  /\ Ended(c, "killed")
  /\ UNCHANGED <<dst, tmp, text, memory, told, ghosts, cut, aliens>>

\* Another program makes something at the destination while nothing is there.
Foreign ==
  /\ aliens < MaxForeign /\ dst = "none"
  /\ dst' \in IF kind = "archive" THEN {"alien"} ELSE {"emptyDir", "alien"}
  /\ aliens' = aliens + 1
  /\ UNCHANGED <<staging, aside, tmp, text, memory, pc, report, ghosts, cut, faults>>

Over == (\A c \in Call : pc[c] = "end") /\ UNCHANGED vars

Forward(c) ==
  \/ Begin(c) \/ Refuse(c) \/ Look(c)
  \/ Copy(c) \/ Rename(c) \/ MakeBackup(c) \/ Swap(c) \/ Save(c) \/ Put(c)
  \/ Complete(c) \/ Commit(c)
  \/ Open(c) \/ Write(c) \/ Replace(c) \/ Finish(c)

Backward(c) ==
  \/ Trouble(c) \/ ArchiveFails(c) \/ Undo(c) \/ Return(c) \/ Restore(c) \/ PutBack(c) \/ Report(c)
  \/ RollbackCut(c) \/ Discard(c) \/ Unstage(c) \/ CutShort(c)

Next == (\E c \in Call : Forward(c) \/ Backward(c) \/ Kill(c)) \/ Foreign \/ Over

Spec == Init /\ [][Next]_vars

-----------------------------------------------------------------------------

\* A call that was killed or failed, or is undoing what it did.
Failing(c) ==
  \/ outcome[c] \in {"failed", "killed"}
  \/ pc[c] \in {"undo", "return", "restore", "putback", "report", "discard", "unstage"}

\* What was at the destination stays there or in a backup until some migration
\* has put its own in place, whatever fails, is killed or runs beside it
\* (migrate_directory: "deleted ... only once the new tree is in place").  Only
\* two that overlap and both stop short can lose it: each moves back what it finds
\* (the window in the docstring of _Replacement).
OldHeld ==
  first = "old" =>
    \/ dst = "old" \/ \E c \in Call : aside[c] = "old"
    \/ last # first
    \/ Cardinality({c \in met : Failing(c)}) > 1

\* Nothing went on beside anything else, and no call was killed or has a
\* leftover to tell of.
Quiet ==
  /\ met = {} /\ aliens = 0
  /\ \A c \in Call :
       /\ pc[c] \in {"idle", "end"} /\ outcome[c] # "killed"
       /\ c \notin cut /\ told[c] \cap {"backup", "added"} = {}

\* The destination never holds half an archive, if no two migrations overlap
\* (comment at the draft: "an interrupted migration never leaves a half-written
\* dst").
NotHalfWritten == kind = "archive" /\ dst \in Call /\ met = {} => text[dst] \notin {"torn", "mixed"}

\* What the next reader finds is the whole result of the call that put its own
\* in place last, also after a later call that failed; else what was there,
\* unless a leftover is named (migrate_directory: "any exception ... leaves dst
\* as it was, or the error names the backup directory"); and never half an
\* archive.  A directory is in place just when its call said so; an archive may
\* be in place though an interrupt between os.replace and the return made its
\* call raise, but not the other way round.
NextReaderFinds ==
  /\ NotHalfWritten
  /\ Quiet =>
       /\ IF last \notin Call THEN dst = first
          ELSE IF kind = "directory" THEN dst = last /\ outcome[last] = "completed"
          ELSE dst \in Call /\ text[dst] = last
       /\ (\E c \in Call : outcome[c] = "completed") => last \in Call

\* Whatever is left beside the destination is named, unless an interrupt
\* struck the clean-up itself (_report, _discard_backup, _remove_or_warn).
LeftoversNamed ==
  \A c \in Call :
    outcome[c] \in {"completed", "failed"} /\ c \notin cut =>
      /\ aside[c] # "none" => "backup" \in told[c]
      /\ staging[c] # "none" => "staging" \in told[c]

=============================================================================
