----------------------------- MODULE Replacement -----------------------------
(***************************************************************************)
(* The merge of a fully extracted staging tree into an existing            *)
(* destination directory: _merge and _Replacement of                       *)
(* src/src/aphelion/unpacker.py, with the end of _unpack that commits or   *)
(* cleans up.  Every operating-system call is one action.  A call may      *)
(* fail, an interrupt (KeyboardInterrupt) may land between any two calls,  *)
(* and another process may put entries into the destination meanwhile.     *)
(*                                                                         *)
(* A staged entry is a number 1..N in the order _staged lists them (a      *)
(* directory before the entries in it).  A slot is a directory entry of    *)
(* the destination; SlotOf says which slot the name of an entry reaches    *)
(* there, so two entries with one slot are an 8.3 or other filesystem      *)
(* alias.                                                                  *)
(***************************************************************************)
EXTENDS Naturals, FiniteSets

CONSTANTS
  N,          \* number of staged entries
  IsDir,      \* IsDir[i]: entry i is a directory
  Slots,      \* directory entries of the destination
  SlotOf,     \* SlotOf[i]: the slot the name of entry i reaches
  Up,         \* Up[s]: the slot of the directory that holds s, or Root
  Root,       \* the destination directory itself
  HasNotes,   \* exceptions carry notes (Python 3.11 and later)
  MaxFaults,  \* bound: OS failures and interrupts in one behaviour
  MaxForeign  \* bound: entries the other process creates

Entry == 1 .. N

ASSUME EntriesAssumption ==
  /\ N \in Nat
  /\ IsDir \in [Entry -> BOOLEAN]
  /\ SlotOf \in [Entry -> Slots]
  /\ Root \notin Slots
  /\ Up \in [Slots -> Slots \cup {Root}]
  /\ HasNotes \in BOOLEAN
  /\ MaxFaults \in Nat
  /\ MaxForeign \in Nat

VARIABLES
  before,   \* the destination as the call found it (never changes)
  dest,     \* what each slot holds
  stage,    \* what is left in staging of each entry
  backup,   \* what was moved aside for each entry
  log,      \* the undo log: what the step of each entry is on record as
  claims,   \* entries whose placeholder's identity is on record
  placed,   \* identities of what this call put in place or merged into
  pc, idx, undo,  \* control: next call, entry being placed, entry being undone
  complete, \* every entry is in place
  exc,      \* the exception in flight
  hurt,     \* some undo step failed or was interrupted
  cut,      \* what an interrupt ended early: the undo, the cleanup
  told,     \* entries the error names as still in place
  toldBackup, \* the error or a warning names the backup directory
  faults, aliens  \* how much of the two bounds is used

files == <<dest, stage, backup>>
memory == <<log, claims, placed>>
control == <<pc, idx, undo, complete, exc>>
report == <<hurt, cut, told, toldBackup>>
vars == <<before, files, memory, control, report, faults, aliens>>

-----------------------------------------------------------------------------
(* What a directory entry can be.  The second component is its identity.   *)

Nothing    == <<"nothing", 0>>
File(s)    == <<"file", s>>     \* a regular file the call found
Dir(s)     == <<"dir", s>>      \* a directory the call found
New(i)     == <<"new", i>>      \* the staged file of entry i
Made(i)    == <<"made", i>>     \* the directory made for entry i
Hold(i)    == <<"hold", i>>     \* an empty placeholder for entry i
AlienFile(s) == <<"xfile", s>>  \* put there by another process meanwhile
AlienDir(s)  == <<"xdir", s>>

Content ==
  {Nothing} \cup {File(s) : s \in Slots} \cup {Dir(s) : s \in Slots}
    \cup {New(i) : i \in Entry} \cup {Made(i) : i \in Entry} \cup {Hold(i) : i \in Entry}
    \cup {AlienFile(s) : s \in Slots} \cup {AlienDir(s) : s \in Slots}

DirKinds == {"dir", "made", "xdir"}
IsADir(c) == c[1] \in DirKinds
IsAFile(c) == c # Nothing /\ ~IsADir(c)

\* The path of slot s can be looked up: its directory is there.
Reachable(s) == Up[s] # Root => IsADir(dest[Up[s]])
Free(s) == dest[s] = Nothing /\ Reachable(s)
Empty(s) == \A t \in Slots : Up[t] = s => dest[t] = Nothing

\* _check_replaceable: a directory merges into a real directory, a file
\* replaces a regular file.
Replaceable(i) == IF IsDir[i] THEN IsADir(dest[SlotOf[i]]) ELSE IsAFile(dest[SlotOf[i]])

Here == SlotOf[idx]

Pcs == {"check", "look", "mkdir", "save", "open", "claim", "put",
        "undo", "reserve", "return", "second", "restore", "report",
        "discard", "sweep", "commit", "tidy", "done"}

TypeOK ==
  /\ before \in [Slots -> Content]
  /\ dest \in [Slots -> Content]
  /\ stage \in [Entry -> Content]
  /\ backup \in [Entry -> Content]
  /\ log \in [Entry -> {"none", "made", "placed", "saved"}]
  /\ claims \subseteq Entry
  /\ placed \subseteq Content
  /\ pc \in Pcs
  /\ idx \in 1 .. N + 1
  /\ undo \in 0 .. N
  /\ complete \in BOOLEAN
  /\ exc \in {"none", "error", "interrupt"}
  /\ hurt \in BOOLEAN
  /\ cut \subseteq {"undo", "cleanup"}
  /\ told \subseteq Entry
  /\ toldBackup \in BOOLEAN
  /\ faults \in 0 .. MaxFaults
  /\ aliens \in 0 .. MaxForeign

\* A tree of regular files and directories; staging was extracted whole.
Init ==
  /\ before \in [Slots -> {Nothing} \cup {File(s) : s \in Slots} \cup {Dir(s) : s \in Slots}]
  /\ \A s \in Slots : before[s] \in {Nothing, File(s), Dir(s)}
  /\ \A s \in Slots :
       before[s] # Nothing /\ Up[s] # Root => before[Up[s]] = Dir(Up[s])
  /\ dest = before
  /\ stage = [i \in Entry |-> IF IsDir[i] THEN Made(i) ELSE New(i)]
  /\ backup = [i \in Entry |-> Nothing]
  /\ log = [i \in Entry |-> "none"]
  /\ claims = {}
  /\ placed = {}
  /\ pc = "check" /\ idx = 1 /\ undo = 0
  /\ complete = FALSE /\ exc = "none"
  /\ hurt = FALSE /\ cut = {}
  /\ told = {} /\ toldBackup = FALSE
  /\ faults = 0 /\ aliens = 0

-----------------------------------------------------------------------------
(* Control.                                                                *)

Fault == faults < MaxFaults /\ faults' = faults + 1
NoFault == UNCHANGED faults

\* Seeded bug: rollback starts one past the last entry.
RaisePastEnd(k) ==
  /\ exc' = k
  /\ pc' = "undo" /\ undo' = N + 1
  /\ UNCHANGED <<idx, complete>>

\* An exception of kind k leaves the merge loop: rollback starts at the last
\* step on record.
Raise(k) ==
  /\ exc' = k
  /\ pc' = "undo" /\ undo' = N
  /\ UNCHANGED <<idx, complete>>

\* An exception before the first step: there is nothing to roll back.
RaiseEarly(k) ==
  /\ exc' = k
  /\ pc' = "discard"
  /\ UNCHANGED <<idx, undo, complete>>

Goto(p) == pc' = p /\ UNCHANGED <<idx, undo, complete, exc>>
NextEntry == pc' = "look" /\ idx' = idx + 1 /\ UNCHANGED <<undo, complete, exc>>

\* Seeded bug: the undo does not move on to the step before.
NextUndoStuck == pc' = "undo" /\ UNCHANGED <<undo, idx, complete, exc>>

NextUndo == pc' = "undo" /\ undo' = undo - 1 /\ UNCHANGED <<idx, complete, exc>>

-----------------------------------------------------------------------------
(* The merge.                                                              *)

\* Every target is checked before anything moves: what is there must be
\* replaceable, and no two entries may reach one entry that is there.
Conflict ==
  \/ \E i \in Entry : dest[SlotOf[i]] # Nothing /\ ~Replaceable(i)
  \/ \E i, j \in Entry : i # j /\ SlotOf[i] = SlotOf[j] /\ dest[SlotOf[i]] # Nothing

PreCheck ==
  /\ pc = "check"
  /\ \/ ~Conflict /\ NoFault /\ Goto("look")
     \/ Conflict /\ NoFault /\ RaiseEarly("error")
     \/ Fault /\ \E k \in {"error", "interrupt"} : RaiseEarly(k)
  /\ UNCHANGED <<before, files, memory, report, aliens>>

\* mkdir and put_file read the target by one strict lstat.  A present target
\* must be replaceable and not be something this call put in place.
LookPresent ==
  /\ pc = "look" /\ idx <= N
  /\ dest[Here] # Nothing
  /\ IF ~Replaceable(idx) \/ dest[Here] \in placed
       THEN Raise("error") /\ UNCHANGED <<log, placed>>
       ELSE IF IsDir[idx]
              THEN NextEntry /\ placed' = placed \cup {dest[Here]} /\ UNCHANGED log
              ELSE Goto("save") /\ log' = [log EXCEPT ![idx] = "saved"] /\ UNCHANGED placed
  /\ UNCHANGED <<before, files, claims, report, faults, aliens>>

\* Found absent: the step is on record before it runs.
LookAbsent ==
  /\ pc = "look" /\ idx <= N
  /\ dest[Here] = Nothing
  /\ log' = [log EXCEPT ![idx] = IF IsDir[idx] THEN "made" ELSE "placed"]
  /\ Goto(IF IsDir[idx] THEN "mkdir" ELSE "open")
  /\ UNCHANGED <<before, files, claims, placed, report, faults, aliens>>

Mkdir ==
  /\ pc = "mkdir" /\ Free(Here)
  /\ dest' = [dest EXCEPT ![Here] = Made(idx)]
  /\ placed' = placed \cup {Made(idx)}
  /\ NextEntry
  /\ UNCHANGED <<before, stage, backup, log, claims, report, faults, aliens>>

\* os.replace(target, saved)
Save ==
  /\ pc = "save"
  /\ backup' = [backup EXCEPT ![idx] = dest[Here]]
  /\ dest' = [dest EXCEPT ![Here] = Nothing]
  /\ Goto("put")
  /\ UNCHANGED <<before, stage, memory, report, faults, aliens>>

\* Seeded bug: the placeholder is opened without O_EXCL.
OpenShared ==
  /\ pc = "open" /\ Reachable(Here) /\ ~IsADir(dest[Here])
  /\ dest' = [dest EXCEPT ![Here] = Hold(idx)]
  /\ Goto("claim")
  /\ UNCHANGED <<before, stage, backup, memory, report, faults, aliens>>

\* os.open(target, O_CREAT | O_EXCL): the placeholder
Open ==
  /\ pc = "open" /\ Free(Here)
  /\ dest' = [dest EXCEPT ![Here] = Hold(idx)]
  /\ Goto("claim")
  /\ UNCHANGED <<before, stage, backup, memory, report, faults, aliens>>

\* The placeholder's identity goes on record, by which rollback knows it.
Claim ==
  /\ pc = "claim"
  /\ claims' = claims \cup {idx}
  /\ Goto("put")
  /\ UNCHANGED <<before, files, log, placed, report, faults, aliens>>

\* os.replace(src, target), over the placeholder or where the original was
Put ==
  /\ pc = "put" /\ ~IsADir(dest[Here])
  /\ dest' = [dest EXCEPT ![Here] = New(idx)]
  /\ stage' = [stage EXCEPT ![idx] = Nothing]
  /\ placed' = placed \cup {New(idx)}
  /\ NextEntry
  /\ UNCHANGED <<before, backup, log, claims, report, faults, aliens>>

\* Seeded bug: what appeared at the target meanwhile is taken for the entry.
CreateFailsSkipping ==
  /\ pc \in {"mkdir", "open"}
  /\ IF Free(Here) THEN Fault /\ Raise("error") ELSE NoFault /\ NextEntry
  /\ log' = [log EXCEPT ![idx] = "none"]
  /\ UNCHANGED <<before, files, claims, placed, report, aliens>>

\* A mkdir or an exclusive create that fails made nothing, and comes off the
\* record again: what is there, if anything, is not this call's.
CreateFails ==
  /\ pc \in {"mkdir", "open"}
  /\ IF Free(Here) THEN Fault ELSE NoFault
  /\ log' = [log EXCEPT ![idx] = "none"]
  /\ Raise("error")
  /\ UNCHANGED <<before, files, claims, placed, report, aliens>>

\* Any other call that fails stays on record.  "look" also stands for the
\* lstat of _remember that ends the previous step.
CallFails ==
  /\ pc \in {"look", "save", "claim", "put"}
  /\ IF pc = "put" /\ IsADir(dest[Here]) THEN NoFault ELSE Fault
  /\ Raise("error")
  /\ UNCHANGED <<before, files, memory, report, aliens>>

\* An interrupt lands before the next call, or right after the last one.
Interrupt ==
  /\ pc \in {"look", "mkdir", "save", "open", "claim", "put"}
  /\ Fault
  /\ Raise("interrupt")
  /\ UNCHANGED <<before, files, memory, report, aliens>>

Complete ==
  /\ pc = "look" /\ idx = N + 1
  /\ complete' = TRUE
  /\ pc' = "commit"
  /\ UNCHANGED <<before, files, memory, idx, undo, exc, report, faults, aliens>>

-----------------------------------------------------------------------------
(* rollback: every step on record, last first, each part of it attempted   *)
(* whatever became of the others.                                          *)

There == SlotOf[undo]

\* Nothing is on record for this entry.
UndoNone ==
  /\ pc = "undo" /\ undo > 0 /\ log[undo] = "none"
  /\ NextUndo
  /\ UNCHANGED <<before, files, memory, report, faults, aliens>>

\* _rmdir_if_present
UndoMkdir ==
  /\ pc = "undo" /\ undo > 0 /\ log[undo] = "made"
  /\ IF dest[There] # Nothing /\ IsADir(dest[There]) /\ Empty(There)
       THEN dest' = [dest EXCEPT ![There] = Nothing] /\ UNCHANGED hurt
       ELSE UNCHANGED dest /\ hurt' = (hurt \/ dest[There] # Nothing)
  /\ NextUndo
  /\ UNCHANGED <<before, stage, backup, memory, cut, told, toldBackup, faults, aliens>>

\* Seeded bug: the entry at the target is moved back without a look at staging.
UndoMoveBlind ==
  /\ pc = "undo" /\ undo > 0 /\ log[undo] \in {"placed", "saved"}
  /\ Goto(IF dest[There] # Nothing THEN "reserve" ELSE "second")
  /\ UNCHANGED <<before, files, memory, report, faults, aliens>>

\* _move_back looks first: a rename that did not happen is not reversed.
UndoMove ==
  /\ pc = "undo" /\ undo > 0 /\ log[undo] \in {"placed", "saved"}
  /\ Goto(IF dest[There] # Nothing /\ stage[undo] = Nothing THEN "reserve" ELSE "second")
  /\ UNCHANGED <<before, files, memory, report, faults, aliens>>

\* An empty placeholder in staging, so that the move back replaces nothing.
Reserve ==
  /\ pc = "reserve"
  /\ stage' = [stage EXCEPT ![undo] = Hold(undo)]
  /\ Goto("return")
  /\ UNCHANGED <<before, dest, backup, memory, report, faults, aliens>>

Return ==
  /\ pc = "return"
  /\ stage' = [stage EXCEPT ![undo] = dest[There]]
  /\ dest' = [dest EXCEPT ![There] = Nothing]
  /\ Goto("second")
  /\ UNCHANGED <<before, backup, memory, report, faults, aliens>>

\* Seeded bug: a claimed placeholder is left where it is.
SecondUnclaimed ==
  /\ pc = "second"
  /\ IF /\ log[undo] = "saved" /\ backup[undo] # Nothing
        /\ dest[There] = Nothing \/ stage[undo] = Nothing
       THEN Goto("restore")
       ELSE NextUndo
  /\ UNCHANGED <<before, files, memory, report, faults, aliens>>

\* After the move back: the original is restored, if one was moved aside and
\* the target is free or still holds the new entry; else a claimed
\* placeholder goes, found by its identity.
Second ==
  /\ pc = "second"
  /\ IF /\ log[undo] = "saved" /\ backup[undo] # Nothing
        /\ dest[There] = Nothing \/ stage[undo] = Nothing
       THEN Goto("restore") /\ UNCHANGED dest
       ELSE /\ NextUndo
            /\ IF log[undo] = "placed" /\ undo \in claims /\ dest[There] = Hold(undo)
                 THEN dest' = [dest EXCEPT ![There] = Nothing]
                 ELSE UNCHANGED dest
  /\ UNCHANGED <<before, stage, backup, memory, report, faults, aliens>>

\* os.replace(saved, target)
Restore ==
  /\ pc = "restore" /\ ~IsADir(dest[There])
  /\ dest' = [dest EXCEPT ![There] = backup[undo]]
  /\ backup' = [backup EXCEPT ![undo] = Nothing]
  /\ NextUndo
  /\ UNCHANGED <<before, stage, memory, report, faults, aliens>>

\* A part of an undo step that fails, or is interrupted inside its attempt:
\* what it raised is kept and the undo goes on.  A move back that fails
\* removes its placeholder again, unless it never got to know its identity
\* or cannot remove it.
AttemptFails ==
  /\ pc \in {"undo", "reserve", "return", "second", "restore"} /\ undo > 0
  /\ pc = "undo" => log[undo] # "none"
  /\ IF pc = "restore" /\ IsADir(dest[There]) THEN NoFault /\ exc' = exc
     ELSE Fault /\ exc' \in {exc, "interrupt"}
  /\ IF pc = "return"
       THEN stage' \in {stage, [stage EXCEPT ![undo] = Nothing]}
       ELSE UNCHANGED stage
  /\ IF pc \in {"second", "restore"} \/ log[undo] = "made"
       THEN pc' = "undo" /\ undo' = undo - 1
       ELSE pc' = "second" /\ UNCHANGED undo
  /\ hurt' = TRUE
  /\ UNCHANGED <<before, dest, backup, memory, idx, complete, cut, told, toldBackup, aliens>>

\* An interrupt between two attempts leaves rollback, and is not caught there.
CutShort ==
  /\ pc \in {"undo", "second", "report"}
  /\ Fault
  /\ cut' = cut \cup {"undo"}
  /\ exc' = "interrupt"
  /\ pc' = "discard"
  /\ UNCHANGED <<before, files, memory, idx, undo, complete, hurt, told, toldBackup, aliens>>

UndoDone ==
  /\ pc = "undo" /\ undo = 0
  /\ Goto("report")
  /\ UNCHANGED <<before, files, memory, report, faults, aliens>>

\* The end of rollback: what could not be put back is named, in the error
\* raised or, after an interrupt, in a note on it where it can carry one.
Kept == {i \in Entry : log[i] = "saved" /\ backup[i] # Nothing}

Added == {i \in Entry : log[i] \in {"made", "placed"} /\ dest[SlotOf[i]] # Nothing}

Report ==
  /\ pc = "report"
  /\ LET says == exc # "interrupt" \/ HasNotes
     IN  /\ told' = IF says THEN Added ELSE {}
         /\ toldBackup' = (says /\ Kept # {})
  /\ log' = [i \in Entry |-> "none"]
  /\ claims' = {}
  /\ Goto("discard")
  /\ UNCHANGED <<before, files, placed, hurt, cut, faults, aliens>>

-----------------------------------------------------------------------------
(* The end of _unpack.                                                     *)

\* Seeded bug: the backup is deleted with whatever it holds.
DiscardBackupTree ==
  /\ pc = "discard"
  /\ backup' = [i \in Entry |-> Nothing]
  /\ Goto("sweep")
  /\ UNCHANGED <<before, dest, stage, memory, report, faults, aliens>>

\* Seeded bug: a backup that stays is not named.
DiscardBackupSilently ==
  /\ pc = "discard"
  /\ Goto(IF \A i \in Entry : backup[i] = Nothing THEN "sweep" ELSE "done")
  /\ UNCHANGED <<before, files, memory, report, faults, aliens>>

\* _discard_backup: rmdir only, so a backup that still holds something stays
\* and is named; staging, which holds it, stays with it.
DiscardBackup ==
  /\ pc = "discard"
  /\ \/ /\ \A i \in Entry : backup[i] = Nothing
        /\ Goto("sweep") /\ NoFault /\ UNCHANGED toldBackup
     \/ /\ IF \A i \in Entry : backup[i] = Nothing THEN Fault ELSE NoFault
        /\ Goto("done") /\ toldBackup' = TRUE
  /\ UNCHANGED <<before, files, memory, hurt, cut, told, aliens>>

\* _remove_or_warn(staging): never raises; what it cannot delete it names.
Sweep ==
  /\ pc = "sweep"
  /\ \/ NoFault /\ stage' = [i \in Entry |-> Nothing]
     \/ Fault /\ \E left \in SUBSET Entry :
          stage' = [i \in Entry |-> IF i \in left THEN stage[i] ELSE Nothing]
  /\ Goto("done")
  /\ UNCHANGED <<before, dest, backup, memory, report, aliens>>

\* commit deletes the backup; what is left of it goes with staging.
Commit ==
  /\ pc = "commit"
  /\ \/ NoFault /\ backup' = [i \in Entry |-> Nothing]
     \/ Fault /\ \E left \in SUBSET Entry :
          backup' = [i \in Entry |-> IF i \in left THEN backup[i] ELSE Nothing]
  /\ Goto("tidy")
  /\ UNCHANGED <<before, dest, stage, memory, report, aliens>>

Tidy ==
  /\ pc = "tidy"
  /\ \/ /\ NoFault
        /\ stage' = [i \in Entry |-> Nothing]
        /\ backup' = [i \in Entry |-> Nothing]
     \/ Fault /\ UNCHANGED <<stage, backup>>
  /\ Goto("done")
  /\ UNCHANGED <<before, dest, memory, report, aliens>>

\* An interrupt in the cleanup of a failure, or after success.
CleanupInterrupted ==
  /\ pc \in {"discard", "sweep", "commit", "tidy"}
  /\ Fault
  /\ exc' = "interrupt"
  /\ cut' = cut \cup {"cleanup"}
  /\ pc' = "done"
  /\ UNCHANGED <<before, files, memory, idx, undo, complete, hurt, told, toldBackup, aliens>>

-----------------------------------------------------------------------------
(* Another process puts an entry where nothing is.                         *)

Foreign ==
  /\ pc # "done" /\ aliens < MaxForeign
  /\ \E s \in Slots :
       /\ Free(s)
       /\ \E c \in {AlienFile(s), AlienDir(s)} : dest' = [dest EXCEPT ![s] = c]
  /\ aliens' = aliens + 1
  /\ UNCHANGED <<before, stage, backup, memory, control, report, faults>>

Done == pc = "done" /\ UNCHANGED vars

Merging == PreCheck \/ LookPresent \/ LookAbsent \/ Mkdir \/ Save \/ Open \/ Claim
             \/ Put \/ CreateFails \/ CallFails \/ Interrupt \/ Complete
Undoing == UndoNone \/ UndoMkdir \/ UndoMove \/ Reserve \/ Return \/ Second
             \/ Restore \/ AttemptFails \/ CutShort \/ UndoDone \/ Report
Ending == DiscardBackup \/ Sweep \/ Commit \/ Tidy \/ CleanupInterrupted

Step == Merging \/ Undoing \/ Ending
Next == Step \/ Foreign \/ Done

Spec == Init /\ [][Next]_vars
FairSpec == Spec /\ WF_vars(Step)

-----------------------------------------------------------------------------
(* What the merge promises.                                                *)

\* Until every entry is in place, each entry the call found is in the
\* destination or in the backup directory, whatever failed or was
\* interrupted (unpack: "Until every entry is in place ...").
OriginalsHeld ==
  \A s \in Slots :
    before[s] # Nothing /\ ~complete =>
      dest[s] = before[s] \/ \E i \in Entry : SlotOf[i] = s /\ backup[i] = before[s]

\* After a failure, a backup directory that still holds anything is named,
\* unless a further interrupt ended the cleanup; and so is whatever this call
\* left in the destination, where the exception can carry it (rollback,
\* _discard_backup).
LeftoversNamed ==
  pc = "done" /\ ~complete =>
    /\ "cleanup" \notin cut /\ (\E i \in Entry : backup[i] # Nothing) => toldBackup
    /\ cut = {} /\ (HasNotes \/ exc # "interrupt") =>
         \A i \in Entry :
           dest[SlotOf[i]] \in {New(i), Made(i), Hold(i)} =>
             i \in told \/ (toldBackup /\ backup[i] # Nothing)

\* An undo that met no further failure, nor another process, has put every
\* slot back as it was by the time rollback reports, but for an empty
\* placeholder whose identity never got on record (_swap, rollback).
Undone ==
  pc = "report" /\ ~hurt /\ aliens = 0 =>
    \A s \in Slots :
      \/ dest[s] = before[s]
      \/ before[s] = Nothing /\ \E i \in Entry \ claims : dest[s] = Hold(i)

\* A merge that completed put every entry at its own slot, whatever aliases
\* the names had, and kept everything else (_refuse_placed, _merge).
Whole ==
  complete =>
    /\ \A i \in Entry :
         IF IsDir[i] THEN IsADir(dest[SlotOf[i]]) ELSE dest[SlotOf[i]] = New(i)
    /\ \A s \in Slots :
         (\A i \in Entry : SlotOf[i] # s) /\ before[s] # Nothing => dest[s] = before[s]

\* A file another process put into the destination is never overwritten or
\* deleted where the step found nothing there: it leaves its slot into the
\* backup, or in the two windows the path-based checks cannot close (between
\* moving the original aside and placing the new entry, and between looking
\* at the target and restoring the original).
ForeignFilesKept ==
  [][\A s \in Slots :
       dest[s] = AlienFile(s) /\ dest'[s] # dest[s] =>
         \/ \E i \in Entry : backup'[i] = AlienFile(s)
         \/ pc = "restore"
         \/ pc = "put" /\ log[idx] = "saved"]_vars

\* The merge and its undo end, however they fail.
Ends == <>(pc = "done")

\* unpack's docstring, taken literally: an exception leaves the contents of
\* the destination as they were, or the error names the directory that holds
\* the originals.
AsItWasOrBackupTold ==
  pc = "done" /\ ~complete /\ cut = {} /\ aliens = 0 => dest = before \/ toldBackup

-----------------------------------------------------------------------------
(* The merge implements an all-or-nothing update that keeps every original *)
(* until it is updated.                                                    *)

WhereOriginal(s) ==
  IF dest[s] = before[s] \/ before[s] = Nothing THEN "dest"
  ELSE IF \E i \in Entry : backup[i] = before[s] THEN "aside"
  ELSE "gone"

Outcome ==
  IF complete THEN "updated"
  ELSE IF pc # "done" THEN "running"
  ELSE IF "cleanup" \in cut THEN "cut"
  ELSE IF \A s \in Slots : WhereOriginal(s) = "dest" THEN "unchanged"
  ELSE IF toldBackup THEN "kept"
  ELSE "lost"

Abstract == INSTANCE AtomicMerge
  WITH place <- [s \in Slots |-> WhereOriginal(s)], outcome <- Outcome
ImplementsAtomicMerge == Abstract!Spec

=============================================================================
