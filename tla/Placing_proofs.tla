--------------------------- MODULE Placing_proofs ---------------------------
(***************************************************************************)
(* The two ways a new result is put at a path.  First Migration, for any   *)
(* number of calls, failures, kills and foreign entries: what was at the   *)
(* destination is not lost, what is left over is named, and the next       *)
(* reader finds what was put in place last.  Then the two halves together: *)
(* a placing is a migration, and it is an unpack (NewDestination_proofs).  *)
(***************************************************************************)
EXTENDS MCPlacing, FiniteSetTheorems, TLAPS

Thing == Call \cup {"none", "old", "partial", "emptyDir", "alien", "empty", "rest"}

DirPcs == {"copy", "rename", "backup", "swap", "save", "put", "complete", "commit", "undo",
           "return", "restore", "putback", "report", "discard", "unstage"}
FilePcs == {"open", "write", "replace", "replaced"}

Typed ==
  /\ kind \in {"directory", "archive"} /\ first \in {"none", "old"}
  /\ last \in Call \cup {first}
  /\ dst \in Thing
  /\ staging \in [Call -> Thing] /\ aside \in [Call -> Thing]
  /\ tmp \in Call \cup {"none"}
  /\ text \in [Call -> Call \cup {"torn", "mixed"}]
  /\ pc \in [Call -> {"idle", "look", "end"} \cup DirPcs \cup FilePcs]
  /\ over \in [Call -> BOOLEAN]
  /\ log \in [Call -> {"none", "placed", "saved"}]
  /\ handle \in [Call -> Call]
  /\ outcome \in [Call -> {"running", "refused", "completed", "failed", "killed"}]
  /\ told \in [Call -> SUBSET {"backup", "added", "staging"}]
  /\ cut \subseteq Call /\ met \subseteq Call

\* Where a call is, and what that says of its own names.
Progress ==
  \A c \in Call :
    /\ pc[c] # "end" <=> outcome[c] = "running"
    /\ IF kind = "directory" THEN pc[c] \notin FilePcs ELSE pc[c] \notin DirPcs
    /\ pc[c] \in {"rename", "backup", "swap", "save", "put"} => staging[c] = c
    /\ pc[c] \in {"complete", "commit", "return"} => staging[c] = "none"
    /\ pc[c] \in {"idle", "look", "copy", "rename", "backup"} \cup FilePcs => aside[c] = "none"
    /\ pc[c] \in {"swap", "save"} => aside[c] = "empty"
    /\ pc[c] \in {"idle", "look"} \cup FilePcs => staging[c] = "none"
    /\ pc[c] \in {"commit", "replaced"} \/ outcome[c] = "completed" => last \in Call

\* Two calls that run at one time have met.
MeetInv ==
  \A c, d \in Call : c # d /\ Running(c) /\ Running(d) => c \in met /\ d \in met

Base == Typed /\ Progress /\ MeetInv

Act(c) == Forward(c) \/ Backward(c) \/ Kill(c)

-----------------------------------------------------------------------------

LEMMA Named ==
  \A c \in Call : c \notin {"none", "old", "partial", "emptyDir", "alien", "torn", "mixed",
                            "empty", "rest"}
BY MigrationAssumption

LEMMA InitBase == Init => Base
BY DEF Init, Base, Typed, Progress, MeetInv, Running, Thing, DirPcs, FilePcs

\* A step of one call leaves every other where it was.
LEMMA OneCall ==
  ASSUME Typed, NEW c \in Call, Act(c)
  PROVE  /\ \A d \in Call \ {c} :
              /\ pc'[d] = pc[d] /\ outcome'[d] = outcome[d] /\ told'[d] = told[d]
              /\ staging'[d] = staging[d] /\ aside'[d] = aside[d]
              /\ log'[d] = log[d] /\ over'[d] = over[d] /\ handle'[d] = handle[d]
         /\ kind' = kind /\ first' = first /\ aliens' = aliens
         /\ met \subseteq met' /\ cut \subseteq cut'
<1>1. CASE Forward(c)
  BY <1>1 DEF Forward, Begin, Refuse, Look, Copy, Rename, MakeBackup, Swap, Save, Put, Complete,
     Commit, Open, Write, Replace, Finish, InPlace, Goto, Ended, disk, memory, report, ghosts,
     Typed
<1>2. CASE Backward(c)
  BY <1>2 DEF Backward, Trouble, ArchiveFails, Undo, Return, Restore, PutBack, Report,
     RollbackCut, Discard, Unstage, CutShort, Goto, Ended, disk, memory, report, ghosts, Typed
<1>3. CASE Kill(c)
  BY <1>3 DEF Kill, Goto, Ended, disk, memory, report, ghosts, Typed
<1> QED BY <1>1, <1>2, <1>3 DEF Act

LEMMA TypedKept ==
  ASSUME Base, NEW c \in Call, Act(c) PROVE Typed'
<1>1. CASE Forward(c)
  <2>1. CASE Begin(c)
    <3> DEFINE R == {d \in Call : Running(d)}
    <3>1. met' = IF R = {} THEN met ELSE met \cup R \cup {c}
      BY <2>1 DEF Begin
    <3>2. met' \subseteq Call
      BY <3>1 DEF Base, Typed
    <3>3. pc' \in [Call -> {"idle", "look", "end"} \cup DirPcs \cup FilePcs]
      BY <2>1 DEF Base, Begin, Goto, Typed
    <3>4. UNCHANGED <<kind, first, last, dst, staging, aside, tmp, text, over, log, handle, outcome, told,
                      cut>>
      BY <2>1 DEF Begin, disk, memory, report
    <3> HIDE DEF R
    <3> QED BY <3>2, <3>3, <3>4 DEF Base, Typed
  <2>2. CASE Look(c)
    <3>1. over' \in [Call -> BOOLEAN]
      BY <2>2 DEF Base, Look, Typed
    <3>2. /\ pc' \in [Call -> {"idle", "look", "end"} \cup DirPcs \cup FilePcs]
          /\ outcome' \in [Call -> {"running", "refused", "completed", "failed", "killed"}]
      BY <2>2 DEF Base, Look, Typed, Goto, Ended, DirPcs, FilePcs
    <3> QED BY <2>2, <3>1, <3>2 DEF Base, Look, disk, ghosts, Typed
  <2>3. CASE Refuse(c) \/ Complete(c)
    BY <2>3 DEF Base, Refuse, Complete, InPlace, Goto, Ended, disk, memory, report, ghosts, Typed,
       DirPcs, FilePcs
  <2>4. CASE Copy(c) \/ Rename(c) \/ MakeBackup(c)
    BY <2>4 DEF Base, Copy, Rename, InPlace, MakeBackup, Goto, Ended, memory, report, ghosts, Typed, Thing,
       DirPcs
  <2>5. CASE Swap(c) \/ Save(c) \/ Put(c) \/ Commit(c)
    BY <2>5 DEF Base, Swap, Save, Put, Commit, Goto, Ended, disk, memory, report, ghosts, Typed,
       Thing, DirPcs
  <2>6. CASE Open(c)
    BY <2>6 DEF Base, Open, Goto, report, ghosts, Typed, FilePcs
  <2>7. CASE Write(c)
    BY <2>7 DEF Base, Write, Goto, memory, report, ghosts, Typed, FilePcs
  <2>8. CASE Replace(c)
    BY <2>8 DEF Base, Replace, InPlace, Goto, Ended, memory, ghosts, Typed, Thing, FilePcs
  <2>9. CASE Finish(c)
    BY <2>9 DEF Base, Finish, Goto, Ended, disk, memory, ghosts, Typed
  <2> QED BY <1>1, <2>1, <2>2, <2>3, <2>4, <2>5, <2>6, <2>7, <2>8, <2>9 DEF Forward
<1>2. CASE Backward(c)
  BY <1>2 DEF Base, Backward, Trouble, ArchiveFails, Undo, Return, Restore, PutBack, Report,
     RollbackCut, Discard, Unstage, CutShort, AfterMove, Goto, Ended, disk, memory, report,
     ghosts, Typed, Thing, DirPcs, FilePcs
<1>3. CASE Kill(c)
  <2>1. staging' \in [Call -> Thing] /\ aside' \in [Call -> Thing]
    BY <1>3 DEF Base, Kill, Typed, Thing
  <2> QED BY <1>3, <2>1 DEF Base, Kill, Goto, Ended, memory, ghosts, Typed
<1> QED BY <1>1, <1>2, <1>3 DEF Act

LEMMA ProgressKept ==
  ASSUME Base, NEW c \in Call, Act(c) PROVE Progress'
<1>0. ASSUME NEW d \in Call \ {c}
      PROVE /\ pc'[d] = pc[d] /\ outcome'[d] = outcome[d] /\ staging'[d] = staging[d]
            /\ aside'[d] = aside[d] /\ kind' = kind
  BY OneCall DEF Base
<1>1. CASE Forward(c)
  BY <1>0, <1>1 DEF Base, Forward, Begin, Refuse, Look, Copy, Rename, MakeBackup, Swap, Save, Put,
     Complete, Commit, Open, Write, Replace, Finish, InPlace, Goto, Ended, disk, memory, report,
     ghosts, Typed, Progress, DirPcs, FilePcs
<1>2. CASE Backward(c)
  BY <1>0, <1>2 DEF Base, Backward, Trouble, ArchiveFails, Undo, Return, Restore, PutBack, Report,
     RollbackCut, Discard, Unstage, CutShort, AfterMove, Goto, Ended, disk, memory, report,
     ghosts, Typed, Progress, DirPcs, FilePcs
<1>3. CASE Kill(c)
  BY <1>0, <1>3 DEF Base, Kill, Running, Goto, Ended, disk, memory, report, ghosts, Typed,
     Progress, DirPcs, FilePcs
<1> QED BY <1>1, <1>2, <1>3 DEF Act

LEMMA MeetKept ==
  ASSUME Base, NEW c \in Call, Act(c) PROVE MeetInv'
<1>1. CASE Begin(c)
  BY <1>1 DEF Base, MeetInv, Begin, Goto, Running, Typed
<1>2. CASE ~Begin(c)
  <2>1. met' = met /\ Running(c)
    BY <1>2 DEF Act, Forward, Refuse, Look, Copy, Rename, MakeBackup, Swap, Save, Put, Complete,
       Commit, Open, Write, Replace, Finish, InPlace, Backward, Trouble, ArchiveFails, Undo,
       Return, Restore, PutBack, Report, RollbackCut, Discard, Unstage, CutShort, Kill, ghosts,
       Running
  <2> QED BY <2>1, OneCall DEF Base, MeetInv, Running
<1> QED BY <1>1, <1>2

LEMMA ForeignBase == Base /\ Foreign => Base'
BY DEF Base, Foreign, Typed, Progress, MeetInv, Running, Thing, memory, report, ghosts

LEMMA StutterBase == Base /\ UNCHANGED vars => Base'
BY DEF Base, Typed, Progress, MeetInv, Running, vars, disk, memory, report, ghosts

LEMMA NextBase == Base /\ [Next]_vars => Base'
BY TypedKept, ProgressKept, MeetKept, ForeignBase, StutterBase DEF Next, Act, Over, Base

LEMMA BaseInductive == Spec => []Base
BY InitBase, NextBase, PTL DEF Spec

-----------------------------------------------------------------------------
(* What was at the destination.                                            *)

\* Two calls that met stop short.
TwoFail == \E c, d \in met : c # d /\ Failing(c) /\ Failing(d)

\* It is there or aside until a call completes, unless two stop short; and a
\* call whose own tree is out of staging finds it there only where another
\* has put it back.
OldInv ==
  /\ first = "old" /\ last \notin Call =>
       dst = "old" \/ (\E c \in Call : aside[c] = "old") \/ TwoFail
  /\ \A c \in Call :
       pc[c] \in {"complete", "undo", "return"} /\ staging[c] = "none" /\ dst = "old" =>
         c \in met /\ \E d \in met : d # c /\ Failing(d)

\* A call that stops short does not go on.
LEMMA FailingStays ==
  ASSUME Base, NEW c \in Call, Act(c), NEW d \in Call, Failing(d) PROVE Failing(d)'
<1>1. CASE d # c
  BY <1>1, OneCall DEF Base, Failing
<1>2. CASE d = c
  <2>1. CASE Forward(c)
    BY <1>2, <2>1 DEF Base, Progress, Failing, Forward, Begin, Refuse, Look, Copy, Rename,
       MakeBackup, Swap, Save, Put, Complete, Commit, Open, Write, Replace, Finish, InPlace
  <2>2. CASE Backward(c)
    BY <1>2, <2>2 DEF Base, Typed, Progress, Failing, Backward, Trouble, ArchiveFails, Undo,
       Return, Restore, PutBack, Report, RollbackCut, Discard, Unstage, CutShort, AfterMove, Goto,
       Ended, report
  <2>3. CASE Kill(c)
    BY <1>2, <2>3 DEF Base, Typed, Failing, Kill, Goto, Ended
  <2> QED BY <2>1, <2>2, <2>3 DEF Act
<1> QED BY <1>1, <1>2

LEMMA TwoFailStays == ASSUME Base, NEW c \in Call, Act(c), TwoFail PROVE TwoFail'
BY FailingStays, OneCall DEF Base, Typed, TwoFail

\* A step that leaves the destination and the backups alone.
LEMMA OldUntouched ==
  ASSUME Base, OldInv, NEW c \in Call, Act(c), UNCHANGED <<dst, aside>>
  PROVE  OldInv'
<1>1. kind' = kind /\ first' = first /\ met \subseteq met'
  BY OneCall DEF Base
<1>2. last' \notin Call => last \notin Call
  BY DEF Base, Typed, Act, Forward, Begin, Refuse, Look, Copy, Rename, MakeBackup, Swap, Save,
     Put, Complete, Commit, Open, Write, Replace, Finish, InPlace, Backward, Trouble,
     ArchiveFails, Undo, Return, Restore, PutBack, Report, RollbackCut, Discard, Unstage,
     CutShort, Kill, ghosts
<1>3. ASSUME NEW d \in Call, pc'[d] \in {"complete", "undo", "return"}, staging'[d] = "none"
      PROVE  (pc[d] \in {"complete", "undo", "return"} /\ staging[d] = "none") \/ dst # "old"
  <2>1. CASE d # c
    BY <1>3, <2>1, OneCall DEF Base
  <2>2. CASE d = c /\ Forward(c)
    <3>1. c # "old"
      BY Named
    <3> QED BY <1>3, <2>2, <3>1 DEF Base, Typed, Forward, Begin, Refuse, Look, Copy, Rename,
       MakeBackup, Swap, Save, Put, Complete, Commit, Open, Write, Replace, Finish, InPlace, Goto,
       Ended
  <2>3. CASE d = c /\ Backward(c)
    <3>1. c # "none"
      BY Named
    <3> QED BY <1>3, <2>3, <3>1 DEF Base, Typed, Progress, Backward, Trouble, ArchiveFails, Undo,
       Return, Restore, PutBack, Report, RollbackCut, Discard, Unstage, CutShort, Goto, Ended,
       AfterMove, disk
  <2>4. CASE d = c /\ Kill(c)
    BY <1>3, <2>4 DEF Base, Typed, Kill, Goto, Ended
  <2> QED BY <2>1, <2>2, <2>3, <2>4 DEF Act
<1>4. ASSUME NEW d \in met, Failing(d) PROVE d \in met' /\ Failing(d)'
  BY <1>1, <1>4, FailingStays DEF Base, Typed
<1> QED BY <1>1, <1>2, <1>3, <1>4, TwoFailStays DEF OldInv

\* What each step does to the destination and the backups.
LEMMA OldKept == ASSUME Base, OldInv, NEW c \in Call, Act(c) PROVE OldInv'
<1> DEFINE Away(d) == pc[d] \in {"complete", "undo", "return"} /\ staging[d] = "none"
           Seen(d) == d \in met /\ \E e \in met : e # d /\ Failing(e)
<1>l. CASE Kill(c) /\ pc[c] # "commit"
  BY <1>l, OldUntouched DEF Base, Typed, Kill
<1>0. /\ first' = first /\ met \subseteq met' /\ met \subseteq Call
      /\ \A d \in Call : d # c => pc'[d] = pc[d] /\ staging'[d] = staging[d] /\ aside'[d] = aside[d]
                                  /\ outcome'[d] = outcome[d]
  BY OneCall DEF Base, Typed
<1>1. CASE UNCHANGED <<dst, aside>>
  BY <1>1, OldUntouched
<1>2. CASE \/ Rename(c) \/ Commit(c) \/ (Replace(c) /\ tmp # "none")
           \/ Kill(c) /\ pc[c] = "commit"
  <2>1. last' \in Call /\ dst' \in {dst, c, tmp}
    BY <1>2 DEF Base, Progress, Rename, Commit, Replace, InPlace, Kill, ghosts
  <2>2. dst' = "old" => dst = "old"
    BY <1>2, Named DEF Base, Typed, Rename, Commit, Replace, Kill
  <2>3. ~Away(c)'
    BY <1>2 DEF Base, Typed, Rename, Commit, Replace, Kill, Ended, Goto
  <2> QED BY <1>0, <2>1, <2>2, <2>3, FailingStays DEF OldInv
<1>3. CASE ~UNCHANGED <<dst, aside>> /\ (MakeBackup(c) \/ Discard(c) \/ Save(c) \/ Put(c))
  <2>1. /\ aside[c] = "old" => aside'[c] = "old"
        /\ dst' \in {dst, c, "none"}
        /\ dst = "old" => dst' = "old" \/ aside'[c] = "old"
    <3>1. CASE Discard(c)
      <4>1. aside[c] \in {"none", "empty"} /\ dst' = dst
        BY <1>3, <3>1 DEF Discard
      <4> QED BY <4>1
    <3>2. CASE MakeBackup(c)
      BY <3>2 DEF Base, Typed, Progress, MakeBackup
    <3>3. CASE Save(c)
      <4>1. aside' = [aside EXCEPT ![c] = dst] /\ dst' = "none" /\ aside[c] # "old"
        BY <3>3 DEF Base, Typed, Progress, Save
      <4>2. aside'[c] = dst
        BY <4>1 DEF Base, Typed
      <4> QED BY <4>1, <4>2
    <3>4. CASE Put(c)
      <4>1. dst' = c /\ aside' = aside /\ dst # "old"
        BY <3>4 DEF Put, Free
      <4> QED BY <4>1
    <3> QED BY <1>3, <3>1, <3>2, <3>3, <3>4
  <2>2. ~Away(c)' \/ dst' # "old"
    BY <1>3, Named DEF Base, Typed, MakeBackup, Discard, Save, Put, Goto
  <2>3. last' = last
    BY <1>3 DEF MakeBackup, Discard, Save, Put, ghosts
  <2>4. dst' = "old" => dst = "old"
    BY <2>1, Named
  <2> QED BY <1>0, <2>1, <2>2, <2>3, <2>4, FailingStays, TwoFailStays DEF OldInv
<1>4. CASE Return(c) /\ ~UNCHANGED <<dst, aside>>
  <2>1. /\ Away(c) /\ Failing(c) /\ dst' = "none" /\ aside' = aside /\ last' = last
    BY <1>4 DEF Base, Progress, Return, Failing, ghosts
  <2>2. dst = "old" => TwoFail
    BY <1>0, <2>1 DEF OldInv, TwoFail
  <2> QED BY <1>0, <2>1, <2>2, TwoFailStays DEF OldInv
<1>5. CASE PutBack(c) /\ ~UNCHANGED <<dst, aside>>
  <2>1. /\ dst' = aside[c] /\ dst # "old" /\ last' = last
        /\ pc[c] = "putback" /\ pc'[c] = "report"
    BY <1>5 DEF Base, Typed, PutBack, Free, Goto, ghosts
  <2>2. \A d \in Call : Away(d)' => d \in met' /\ c \in met' /\ c # d
    BY <1>0, <2>1 DEF Base, MeetInv, Running
  <2>3. Failing(c)'
    BY <2>1 DEF Failing
  <2> QED BY <1>0, <2>1, <2>2, <2>3, TwoFailStays DEF OldInv
<1>6. UNCHANGED <<dst, aside>> \/ Kill(c) \/ Rename(c) \/ Commit(c) \/ (Replace(c) /\ tmp # "none")
        \/ MakeBackup(c) \/ Discard(c) \/ Save(c) \/ Put(c) \/ Return(c) \/ PutBack(c)
  BY DEF Act, Forward, Begin, Refuse, Look, Copy, Swap, Complete, Open, Write, Replace, Finish,
     InPlace, Backward, Trouble, ArchiveFails, Undo, Restore, Report, RollbackCut, Unstage,
     CutShort, Ended, disk
<1> QED BY <1>l, <1>1, <1>2, <1>3, <1>4, <1>5, <1>6

\* What was at the destination stays there or in a backup until some migration
\* has put its own in place, whatever fails, is killed or runs beside it,
\* unless two that overlap both stop short (migrate_directory).
THEOREM OldIsHeld == Spec => []OldHeld
<1>1. Init => OldInv
  BY DEF Init, OldInv
<1>2. Base /\ OldInv /\ [Next]_vars => OldInv'
  <2> SUFFICES ASSUME Base, OldInv, [Next]_vars PROVE OldInv'
    OBVIOUS
  <2>1. CASE Foreign
    BY <2>1 DEF OldInv, TwoFail, Failing, Foreign, memory, report, ghosts
  <2>2. CASE UNCHANGED vars
    BY <2>2 DEF OldInv, TwoFail, Failing, vars, disk, memory, report, ghosts
  <2> QED BY <2>1, <2>2, OldKept DEF Next, Act, Over
<1>3. Base /\ OldInv => OldHeld
  <2> SUFFICES ASSUME Base, TwoFail PROVE Cardinality({c \in met : Failing(c)}) > 1
    BY Named DEF Base, Typed, OldInv, OldHeld
  <2> DEFINE S == {c \in met : Failing(c)}
  <2>1. PICK c, d \in met : c # d /\ Failing(c) /\ Failing(d)
    BY DEF TwoFail
  <2>2. IsFiniteSet(S)
    BY FS_Subset, MigrationAssumption DEF Base, Typed
  <2>3. {c, d} \subseteq S /\ Cardinality({c, d}) = 2
    <3>1. IsFiniteSet({c}) /\ Cardinality({c}) = 1
      BY FS_Singleton
    <3>2. {c, d} = {c} \cup {d} /\ d \notin {c} /\ {c, d} \subseteq S
      BY <2>1
    <3>3. Cardinality({c} \cup {d}) = Cardinality({c}) + 1
      BY <3>1, <3>2, FS_AddElement
    <3> QED BY <3>1, <3>2, <3>3
  <2>4. Cardinality({c, d}) <= Cardinality(S) /\ Cardinality(S) \in Nat
    BY <2>2, <2>3, FS_Subset, FS_CardinalityType
  <2> QED BY <2>3, <2>4
<1> QED BY <1>1, <1>2, <1>3, BaseInductive, PTL DEF Spec

-----------------------------------------------------------------------------
(* What stays beside the destination.                                      *)

\* A call says of its backup before it says of its staging name.
LeftInv ==
  \A c \in Call :
    /\ pc[c] = "unstage" /\ aside[c] # "none" => "backup" \in told[c]
    /\ outcome[c] \in {"completed", "failed"} /\ c \notin cut =>
         /\ aside[c] # "none" => "backup" \in told[c]
         /\ staging[c] # "none" => "staging" \in told[c]

LEMMA LeftKept == ASSUME Base, LeftInv, NEW c \in Call, Act(c) PROVE LeftInv'
<1>0. ASSUME NEW d \in Call \ {c}
      PROVE /\ pc'[d] = pc[d] /\ outcome'[d] = outcome[d] /\ staging'[d] = staging[d]
            /\ aside'[d] = aside[d] /\ told'[d] = told[d] /\ (d \in cut => d \in cut')
  BY OneCall DEF Base
<1>1. CASE Forward(c)
  BY <1>0, <1>1 DEF Base, Forward, Begin, Refuse, Look, Copy, Rename, MakeBackup, Swap, Save, Put,
     Complete, Commit, Open, Write, Replace, Finish, InPlace, Goto, Ended, disk, memory, report,
     ghosts, Typed, Progress, LeftInv, FilePcs
<1>2. CASE Backward(c)
  BY <1>0, <1>2 DEF Base, Backward, Trouble, ArchiveFails, Undo, Return, Restore, PutBack, Report,
     RollbackCut, Discard, Unstage, CutShort, AfterMove, Goto, Ended, disk, memory, report,
     ghosts, Typed, Progress, LeftInv, FilePcs
<1>3. CASE Kill(c)
  BY <1>0, <1>3 DEF Base, Kill, Running, Goto, Ended, disk, memory, report, ghosts, Typed, LeftInv
<1> QED BY <1>1, <1>2, <1>3 DEF Act

\* A backup or a staging name that stays is named, but for an interrupt in the
\* clean-up, whatever other calls do meanwhile (_discard_backup, _remove_or_warn).
THEOREM LeftoversAreNamed == Spec => []LeftoversNamed
<1>1. Init => LeftInv
  BY DEF Init, LeftInv
<1>2. Base /\ LeftInv /\ [Next]_vars => LeftInv'
  <2> SUFFICES ASSUME Base, LeftInv, [Next]_vars PROVE LeftInv'
    OBVIOUS
  <2>1. CASE Foreign
    BY <2>1 DEF LeftInv, Foreign, memory, report, ghosts
  <2>2. CASE UNCHANGED vars
    BY <2>2 DEF LeftInv, vars, disk, memory, report, ghosts
  <2> QED BY <2>1, <2>2, LeftKept DEF Next, Act, Over
<1>3. LeftInv => LeftoversNamed
  BY DEF LeftInv, LeftoversNamed
<1> QED BY <1>1, <1>2, <1>3, BaseInductive, PTL DEF Spec

-----------------------------------------------------------------------------
(* What the next reader finds.                                             *)

\* Nothing has gone on beside anything else so far, and nothing was left over.
Calm ==
  /\ met = {} /\ aliens = 0
  /\ \A c \in Call : outcome[c] # "killed" /\ c \notin cut /\ told[c] \cap {"backup", "added"} = {}

\* A destination that holds o holds what was put there last, by a call that said so.
Result(o) ==
  o = last /\ (last \in Call => outcome[last] = "completed")

\* Before its swap, after one that was undone, and between its two renames or
\* after them.
Kept(c) == aside[c] = "empty" /\ Result(dst)
Swapped(c) ==
  /\ log[c] = "saved" /\ aside[c] \in Call \cup {"old"} /\ Result(aside[c])
  /\ \/ dst = "none" /\ staging[c] = c
     \/ dst = c /\ staging[c] = "none"

\* Where the one call that runs has the reported tree.
Phase(c) ==
  /\ pc[c] \in {"look", "copy", "rename", "backup", "swap", "save", "unstage"} => Result(dst)
  /\ pc[c] \in {"backup", "swap", "save"} \/ (pc[c] = "copy" /\ over[c]) => dst # "none"
  /\ pc[c] \in {"idle", "look", "copy", "rename", "backup", "swap"} => log[c] = "none"
  /\ pc[c] \in {"save", "restore"} => log[c] = "saved"
  /\ pc[c] = "put" => Swapped(c) /\ dst = "none"
  /\ pc[c] = "complete" => Swapped(c) /\ dst = c
  /\ pc[c] = "commit" => dst = c /\ last = c
  /\ pc[c] = "undo" =>
       Swapped(c) \/ (Kept(c) /\ log[c] # "placed" /\ (log[c] = "saved" => staging[c] = c))
  /\ pc[c] \in {"return", "putback"} => Swapped(c)
  /\ pc[c] = "restore" => Swapped(c) \/ Kept(c)
  /\ pc[c] = "report" => Swapped(c) \/ (Kept(c) /\ log[c] # "placed")
  /\ pc[c] = "discard" => aside[c] \notin {"none", "empty"} \/ Result(dst)

DirInv ==
  kind = "directory" /\ Calm =>
    /\ (\A c \in Call : ~Running(c)) => Result(dst)
    /\ \A c \in Call : Phase(c)

\* The file at a name is one that a call has begun; the draft is another than
\* the destination, and the writer's own.
DraftInv ==
  kind = "archive" /\ met = {} =>
    /\ dst \in Call => text[dst] \notin {"torn", "mixed"}
    /\ tmp # "none" => tmp # dst
    /\ \A c \in Call :
         /\ pc[c] \in {"idle", "look", "open"} => c # dst /\ c # tmp
         /\ pc[c] \in {"write", "replace"} => handle[c] = tmp
         /\ pc[c] = "write" => text[tmp] = "torn"
         /\ pc[c] = "replace" => text[tmp] = c

FileInv ==
  kind = "archive" /\ Calm =>
    IF last \in Call THEN dst \in Call /\ text[dst] = last ELSE dst = first

LEMMA ToldGrows == ASSUME Base, NEW c \in Call, Act(c) PROVE told[c] \subseteq told'[c]
<1>1. CASE Forward(c)
  BY <1>1 DEF Forward, Begin, Refuse, Look, Copy, Rename, MakeBackup, Swap, Save, Put, Complete,
     Commit, Open, Write, Replace, Finish, InPlace, Ended, report, Base, Typed
<1>2. CASE Backward(c)
  BY <1>2 DEF Backward, Trouble, ArchiveFails, Undo, Return, Restore, PutBack, Report,
     RollbackCut, Discard, Unstage, CutShort, Ended, report, Base, Typed
<1>3. CASE Kill(c)
  BY <1>3 DEF Kill
<1> QED BY <1>1, <1>2, <1>3 DEF Act

\* Only the call that moves runs, and it has not ended before.
LEMMA OneRuns ==
  ASSUME Base, NEW c \in Call, Act(c), met' = {}
  PROVE  /\ met = {} /\ outcome[c] = "running"
         /\ \A d \in Call \ {c} : ~Running(d)
<1>1. met = {}
  BY OneCall DEF Base
<1>2. outcome[c] = "running"
  BY DEF Base, Progress, Act, Forward, Begin, Refuse, Look, Copy, Rename, MakeBackup, Swap, Save,
     Put, Complete, Commit, Open, Write, Replace, Finish, InPlace, Backward, Trouble,
     ArchiveFails, Undo, Return, Restore, PutBack, Report, RollbackCut, Discard, Unstage,
     CutShort, Kill, Running
<1>3. CASE Begin(c)
  BY <1>1, <1>2, <1>3 DEF Begin
<1>4. CASE ~Begin(c)
  <2>1. Running(c)
    BY <1>4 DEF Act, Forward, Refuse, Look, Copy, Rename, MakeBackup, Swap, Save, Put, Complete,
       Commit, Open, Write, Replace, Finish, InPlace, Backward, Trouble, ArchiveFails, Undo,
       Return, Restore, PutBack, Report, RollbackCut, Discard, Unstage, CutShort, Kill, Running
  <2> QED BY <1>1, <1>2, <2>1 DEF Base, MeetInv
<1> QED BY <1>3, <1>4

LEMMA CalmBefore == ASSUME Base, NEW c \in Call, Act(c), Calm' PROVE Calm /\ outcome'[c] # "killed"
<1>1. met = {} /\ outcome[c] = "running" /\ c \notin cut
  BY OneRuns, OneCall DEF Calm, Base
<1>2. \A d \in Call : told[d] \subseteq told'[d]
  BY ToldGrows, OneCall DEF Base
<1> QED BY <1>1, <1>2, OneCall DEF Calm, Base

LEMMA DirForward ==
  ASSUME Base, DirInv, NEW c \in Call, Forward(c), Calm', kind = "directory"
  PROVE  Phase(c)' /\ (pc'[c] = "end" => Result(dst)')
<1>0. Act(c)
  BY DEF Act
<1>1. /\ Calm /\ Phase(c) /\ outcome[c] = "running" /\ (\A d \in Call \ {c} : ~Running(d))
      /\ first' = first /\ \A d \in Call \ {c} : outcome'[d] = outcome[d]
  BY <1>0, OneRuns, CalmBefore, OneCall DEF DirInv, Calm, Base
<1>n. c \notin {"none", "old", "partial", "emptyDir", "alien", "torn", "mixed", "empty", "rest"}
  BY Named
<1>2. CASE Begin(c)
  <2>1. Result(dst)
    BY <1>1, <1>2 DEF Begin, Running, DirInv
  <2> QED BY <1>1, <1>2, <2>1 DEF Base, Typed, Begin, Goto, disk, memory, report, Phase, Result
<1>3. CASE Refuse(c)
  BY <1>1, <1>3 DEF Base, Typed, Refuse, Ended, Goto, disk, memory, ghosts, Phase, Result
<1>4. CASE Look(c)
  <2>1. /\ Result(dst) /\ dst' = dst /\ log[c] = "none" /\ log' = log /\ last' = last
        /\ over' = [over EXCEPT ![c] = dst # "none"]
    BY <1>1, <1>4 DEF Look, disk, ghosts, Phase
  <2>2. CASE dst # "none" /\ c \notin forced
    <3>1. pc'[c] = "end" /\ outcome'[c] = "refused"
      BY <1>4, <2>2 DEF Base, Typed, Look, Ended, Goto
    <3> QED BY <1>1, <2>1, <3>1 DEF Phase, Result
  <2>3. CASE ~(dst # "none" /\ c \notin forced)
    <3>1. pc'[c] = "copy" /\ outcome' = outcome
      BY <1>1, <1>4, <2>3 DEF Base, Typed, Look, Goto
    <3>2. over'[c] = (dst # "none")
      BY <2>1 DEF Base, Typed
    <3> QED BY <1>1, <2>1, <3>1, <3>2 DEF Phase, Result
  <2> QED BY <2>2, <2>3
<1>5. CASE Copy(c)
  BY <1>1, <1>5 DEF Base, Typed, Copy, Goto, memory, report, ghosts, Phase, Result
<1>6. CASE Rename(c)
  BY <1>1, <1>6 DEF Base, Typed, Rename, InPlace, Ended, Goto, memory, Phase, Result
<1>7. CASE MakeBackup(c)
  BY <1>1, <1>7 DEF Base, Typed, MakeBackup, Goto, memory, report, ghosts, Phase, Result
<1>8. CASE Swap(c)
  BY <1>1, <1>8 DEF Base, Typed, Swap, Goto, disk, report, ghosts, Phase, Result
<1>9. CASE Save(c)
  <2>1. /\ dst' = "none" /\ aside'[c] = dst /\ log'[c] = "saved" /\ staging'[c] = c
        /\ pc'[c] = "put" /\ dst \in Call \cup {"old"} /\ Result(dst) /\ outcome' = outcome
        /\ last' = last
    BY <1>1, <1>9 DEF Base, Typed, Progress, Save, Goto, memory, report, ghosts, Phase, Result
  <2> QED BY <1>1, <2>1 DEF Phase, Swapped, Result
<1>10. CASE Put(c)
  <2>1. /\ dst' = c /\ aside' = aside /\ log' = log /\ staging'[c] = "none"
        /\ pc'[c] = "complete" /\ outcome' = outcome /\ Swapped(c) /\ last' = last
    BY <1>1, <1>10 DEF Base, Typed, Put, Goto, memory, report, ghosts, Phase
  <2> QED BY <1>1, <2>1 DEF Phase, Swapped, Result
<1>11. CASE Complete(c)
  BY <1>1, <1>11 DEF Base, Typed, Complete, InPlace, Goto, disk, Phase
<1>12. CASE Commit(c)
  BY <1>1, <1>12 DEF Base, Typed, Commit, Ended, Goto, ghosts, Phase, Result
<1>13. CASE Open(c) \/ Write(c) \/ Replace(c) \/ Finish(c)
  BY <1>13 DEF Base, Progress, FilePcs, Open, Write, Replace, Finish, InPlace
<1> QED BY <1>2, <1>3, <1>4, <1>5, <1>6, <1>7, <1>8, <1>9, <1>10, <1>11, <1>12, <1>13 DEF Forward

LEMMA DirBackward ==
  ASSUME Base, DirInv, NEW c \in Call, Backward(c), Calm', kind = "directory"
  PROVE  Phase(c)' /\ (pc'[c] = "end" => Result(dst)')
<1>0. Act(c)
  BY DEF Act
<1>1. /\ Calm /\ Phase(c) /\ outcome[c] = "running" /\ c \notin cut' /\ first' = first
      /\ told'[c] \cap {"backup", "added"} = {}
      /\ \A d \in Call \ {c} : outcome'[d] = outcome[d]
  BY <1>0, OneRuns, CalmBefore, OneCall DEF DirInv, Calm, Base
<1>n. c \notin {"none", "old", "partial", "emptyDir", "alien", "torn", "mixed", "empty", "rest"}
  BY Named
<1>2. last' = last
  BY DEF Backward, Trouble, ArchiveFails, Undo, Return, Restore, PutBack, Report, RollbackCut,
     Discard, Unstage, CutShort, ghosts
<1>3. \A o : Result(o) => o = last' /\ (last' \in Call => outcome'[last'] = "completed")
  BY <1>1, <1>2 DEF Result
<1>4. CASE Trouble(c)
  <2>1. UNCHANGED <<dst, staging, aside>>
    BY <1>4 DEF Trouble, disk
  <2>2. CASE pc[c] \in {"rename", "backup"}
    BY <1>1, <1>3, <1>4, <2>1, <2>2 DEF Base, Typed, Trouble, Goto, Phase, Result
  <2>3. CASE pc[c] \in {"swap", "save"}
    <3>1. aside[c] = "empty" /\ staging[c] = c /\ Result(dst) /\ log[c] \in {"none", "saved"}
      BY <1>1, <2>3 DEF Base, Progress, Phase
    <3>2. log'[c] = log[c] /\ pc'[c] = "undo"
      BY <1>4, <2>3 DEF Base, Typed, Trouble, Goto
    <3> QED BY <1>3, <2>1, <3>1, <3>2 DEF Phase, Kept, Result
  <2>4. CASE pc[c] \in {"put", "complete"}
    <3>1. Swapped(c)
      BY <1>1, <2>4 DEF Phase
    <3>2. log'[c] = log[c] /\ pc'[c] = "undo"
      BY <1>4, <2>4, <3>1 DEF Base, Typed, Trouble, Goto, Swapped
    <3> QED BY <1>3, <2>1, <3>1, <3>2 DEF Phase, Swapped, Result
  <2> QED BY <1>4, <2>2, <2>3, <2>4 DEF Trouble
<1>5. CASE Undo(c)
  <2>1. UNCHANGED <<dst, staging, aside, log>> /\ pc[c] = "undo"
    BY <1>5 DEF Undo, disk, memory
  <2>2. CASE Swapped(c)
    <3>1. pc'[c] \in {"return", "restore"} /\ (pc'[c] = "return" => dst = c)
      BY <1>5, <2>2 DEF Base, Typed, Undo, AfterMove, Goto, Swapped
    <3> QED BY <1>3, <2>1, <2>2, <3>1 DEF Phase, Swapped, Result
  <2>3. CASE Kept(c) /\ log[c] # "placed" /\ (log[c] = "saved" => staging[c] = c)
    <3>1. pc'[c] = IF log[c] = "saved" THEN "restore" ELSE "report"
      BY <1>5, <1>n, <2>3 DEF Base, Typed, Undo, AfterMove, Goto
    <3> QED BY <1>3, <2>1, <2>3, <3>1 DEF Phase, Kept, Result
  <2> QED BY <1>1, <2>1, <2>2, <2>3 DEF Phase
<1>6. CASE Return(c)
  <2>1. pc[c] = "return" /\ Swapped(c) /\ UNCHANGED <<aside, log>> /\ pc'[c] = "restore"
    BY <1>1, <1>6 DEF Base, Typed, Return, AfterMove, Goto, memory, Phase, Swapped
  <2>2. (dst' = "none" /\ staging'[c] = c) \/ UNCHANGED <<dst, staging>>
    BY <1>1, <1>6, <2>1 DEF Base, Typed, Progress, Return, Swapped
  <2> QED BY <1>3, <2>1, <2>2 DEF Phase, Swapped, Result
<1>7. CASE Restore(c)
  <2>1. /\ UNCHANGED <<dst, staging, aside, log>> /\ pc[c] = "restore"
        /\ pc'[c] = IF Swapped(c) THEN "putback" ELSE "report"
    BY <1>1, <1>7, Named DEF Base, Typed, Restore, Goto, disk, memory, Phase, Swapped, Kept
  <2> QED BY <1>1, <1>3, <2>1 DEF Phase, Swapped, Kept, Result
<1>8. CASE PutBack(c)
  <2>1. /\ pc[c] = "putback" /\ Swapped(c) /\ UNCHANGED <<staging, log>> /\ pc'[c] = "report"
        /\ \/ dst' = aside[c] /\ aside'[c] = "empty"
           \/ UNCHANGED <<dst, aside>>
    BY <1>1, <1>8 DEF Base, Typed, PutBack, Goto, memory, Phase
  <2> QED BY <1>3, <2>1 DEF Phase, Swapped, Kept, Result
<1>9. CASE Report(c)
  <2>1. UNCHANGED <<dst, aside>> /\ pc[c] = "report" /\ pc'[c] = "discard"
    BY <1>9 DEF Base, Typed, Report, Goto, disk
  <2>2. log[c] = "saved" => aside[c] = "empty"
    BY <1>1, <1>9 DEF Base, Typed, Report
  <2>3. Kept(c)
    BY <1>1, <2>1, <2>2, Named DEF Phase, Swapped
  <2> QED BY <1>3, <2>1, <2>3 DEF Phase, Kept, Result
<1>10. CASE RollbackCut(c)
  <2>1. UNCHANGED <<dst, aside>> /\ pc[c] \in {"undo", "restore", "report"} /\ pc'[c] = "discard"
    BY <1>10 DEF Base, Typed, RollbackCut, Goto, disk
  <2>2. Kept(c) \/ aside[c] \notin {"none", "empty"}
    BY <1>1, <2>1, Named DEF Phase, Swapped
  <2> QED BY <1>3, <2>1, <2>2 DEF Phase, Kept, Result
<1>11. CASE Discard(c)
  <2>1. /\ dst' = dst /\ pc[c] = "discard" /\ pc'[c] = "unstage" /\ aside[c] \in {"none", "empty"}
    BY <1>1, <1>11 DEF Base, Typed, Discard, Goto
  <2> QED BY <1>1, <1>3, <2>1 DEF Phase, Result
<1>12. CASE Unstage(c)
  BY <1>1, <1>3, <1>12 DEF Base, Typed, Unstage, Ended, Goto, Phase, Result
<1>13. CASE CutShort(c)
  BY <1>1, <1>13 DEF CutShort
<1>14. CASE ArchiveFails(c)
  BY <1>14 DEF Base, Progress, FilePcs, ArchiveFails
<1> QED BY <1>4, <1>5, <1>6, <1>7, <1>8, <1>9, <1>10, <1>11, <1>12, <1>13, <1>14 DEF Backward

LEMMA DirKept == ASSUME Base, DirInv, NEW c \in Call, Act(c) PROVE DirInv'
<1> SUFFICES ASSUME Calm', kind = "directory"
             PROVE /\ (\A d \in Call : ~Running(d))' => Result(dst)'
                   /\ \A d \in Call : Phase(d)'
  BY OneCall DEF DirInv, Base
<1>1. ~Kill(c)
  BY CalmBefore DEF Kill, Ended, Base, Typed
<1>2. Phase(c)' /\ (pc'[c] = "end" => Result(dst)')
  BY <1>1, DirForward, DirBackward DEF Act
<1>3. pc'[c] # "idle"
  BY DEF Base, Typed, Act, Forward, Begin, Refuse, Look, Copy, Rename, MakeBackup, Swap, Save,
     Put, Complete, Commit, Open, Write, Replace, Finish, InPlace, Backward, Trouble,
     ArchiveFails, Undo, Return, AfterMove, Restore, PutBack, Report, RollbackCut, Discard,
     Unstage, CutShort, Kill, Ended, Goto
<1>4. ASSUME NEW d \in Call \ {c} PROVE Phase(d)'
  <2>1. pc'[d] = pc[d] /\ log'[d] = log[d] /\ pc[d] \in {"idle", "end"} /\ Phase(d)
    BY OneRuns, OneCall, CalmBefore DEF Calm, Running, DirInv, Base
  <2> QED BY <2>1 DEF Phase
<1> QED BY <1>2, <1>3, <1>4 DEF Running


LEMMA DraftKept == ASSUME Base, DraftInv, NEW c \in Call, Act(c) PROVE DraftInv'
<1> DEFINE Clean(d) ==
             /\ pc[d] \in {"idle", "look", "open"} => d # dst /\ d # tmp
             /\ pc[d] \in {"write", "replace"} => handle[d] = tmp
             /\ pc[d] = "write" => text[tmp] = "torn"
             /\ pc[d] = "replace" => text[tmp] = d
           Apart == /\ dst \in Call => text[dst] \notin {"torn", "mixed"}
                    /\ tmp # "none" => tmp # dst
<1> SUFFICES ASSUME met' = {}, kind = "archive" PROVE Apart' /\ \A d \in Call : Clean(d)'
  BY OneCall DEF DraftInv, Base
<1>1. /\ met = {} /\ outcome[c] = "running" /\ (\A d \in Call \ {c} : pc[d] \in {"idle", "end"})
      /\ \A d \in Call \ {c} : pc'[d] = pc[d]
  BY OneRuns, OneCall DEF Base, Running
<1>2. Apart /\ \A d \in Call : Clean(d)
  BY <1>1 DEF DraftInv
<1>n. "none" \notin Call /\ "torn" \notin Call /\ "mixed" \notin Call
  BY MigrationAssumption
<1>3. CASE Open(c)
  <2>1. tmp' \in Call /\ dst' = dst /\ tmp' # dst /\ (tmp' = c \/ tmp' = tmp)
    BY <1>2, <1>3, <1>n DEF Base, Typed, Open
  <2>2. /\ handle'[c] = tmp' /\ text' = [text EXCEPT ![tmp'] = "torn"] /\ pc'[c] = "write"
    BY <1>3, <2>1 DEF Base, Typed, Open, Goto
  <2>3. Apart'
    BY <1>2, <2>1, <2>2 DEF Base, Typed
  <2>4. Clean(c)'
    BY <2>1, <2>2 DEF Base, Typed
  <2>5. \A d \in Call \ {c} : Clean(d)'
    BY <1>1, <1>2, <2>1
  <2> QED BY <2>3, <2>4, <2>5
<1>4. CASE Write(c)
  <2>1. UNCHANGED <<dst, tmp, handle>> /\ pc'[c] = "replace" /\ handle[c] = tmp /\ tmp # dst
    BY <1>2, <1>4, <1>n DEF Base, Typed, Write, Goto, memory
  <2>2. tmp \in Call /\ text[tmp] = "torn"
    BY <1>2, <1>4, <2>1 DEF Base, Typed, Write
  <2>3. text' = [text EXCEPT ![tmp] = c]
    BY <1>4, <2>1, <2>2 DEF Write
  <2>4. Clean(c)' /\ Apart'
    BY <1>2, <2>1, <2>2, <2>3 DEF Base, Typed
  <2>5. \A d \in Call \ {c} : Clean(d)'
    BY <1>1, <1>2, <2>1
  <2> QED BY <2>4, <2>5
<1>5. CASE Replace(c)
  <2>1. handle[c] = tmp /\ text[tmp] = c /\ text' = text /\ pc'[c] = "replaced" /\ tmp \in Call
    BY <1>2, <1>5, <1>n DEF Base, Typed, Replace, Goto
  <2>2. dst' = tmp /\ tmp' = "none"
    BY <1>5, <1>n, <2>1 DEF Replace
  <2>3. \A d \in Call \ {c} : Clean(d)'
    BY <1>1, <1>2, <1>n, <2>1, <2>2
  <2> QED BY <1>n, <2>1, <2>2, <2>3
<1>6. CASE Begin(c) \/ Refuse(c) \/ Look(c) \/ Finish(c) \/ ArchiveFails(c) \/ Kill(c)
  <2>1. UNCHANGED <<dst, tmp, text, handle>>
    BY <1>6 DEF Begin, Refuse, Look, Finish, ArchiveFails, Kill, disk, memory
  <2>2. pc'[c] \in {"look", "open", "end"} /\ (pc'[c] # "end" => pc[c] \in {"idle", "look"})
    BY <1>6 DEF Base, Typed, Begin, Refuse, Look, Finish, ArchiveFails, Kill, Ended, Goto
  <2> QED BY <1>1, <1>2, <2>1, <2>2
<1> QED BY <1>3, <1>4, <1>5, <1>6 DEF Base, Progress, DirPcs, Act, Forward, Backward, Copy,
   Rename, MakeBackup, Swap, Save, Put, Complete, Commit, Trouble, Undo, Return, Restore, PutBack,
   Report, RollbackCut, Discard, Unstage, CutShort

LEMMA FileKept == ASSUME Base, DraftInv, FileInv, NEW c \in Call, Act(c) PROVE FileInv'
<1> SUFFICES ASSUME Calm', kind = "archive"
             PROVE IF last' \in Call THEN dst' \in Call /\ text'[dst'] = last' ELSE dst' = first
  BY OneCall DEF FileInv, Base
<1>1. /\ Calm /\ met = {} /\ outcome[c] = "running" /\ kind = "archive"
      /\ \A d \in Call \ {c} : outcome'[d] = outcome[d]
  BY CalmBefore, OneRuns, OneCall DEF Calm, Base
<1>n. "none" \notin Call /\ first \notin Call
  BY MigrationAssumption DEF Base, Typed
<1>3. CASE Open(c)
  <2>1. tmp' \in Call /\ tmp' # dst /\ dst' = dst /\ last' = last
    BY <1>1, <1>3, <1>n DEF Base, Typed, Open, DraftInv, ghosts
  <2>2. text' = [text EXCEPT ![tmp'] = "torn"]
    BY <1>3 DEF Open
  <2> QED BY <1>1, <2>1, <2>2 DEF Base, Typed, FileInv
<1>4. CASE Write(c)
  <2>1. handle[c] = tmp /\ tmp # dst /\ dst' = dst /\ last' = last
    BY <1>1, <1>4, <1>n DEF Base, Typed, Write, DraftInv, ghosts
  <2>2. \A d \in Call : d # tmp => text'[d] = text[d]
    BY <1>4, <2>1 DEF Base, Typed, Write
  <2> QED BY <1>1, <2>1, <2>2 DEF FileInv
<1>5. CASE Replace(c)
  <2>1. handle[c] = tmp /\ text[tmp] = c /\ text' = text /\ tmp \in Call
    BY <1>1, <1>5, <1>n DEF Base, Typed, Replace, DraftInv
  <2>2. dst' = tmp /\ last' = c
    BY <1>5, <1>n, <2>1 DEF Replace, InPlace
  <2> QED BY <2>1, <2>2
<1>6. CASE Begin(c) \/ Refuse(c) \/ Look(c) \/ Finish(c) \/ ArchiveFails(c) \/ Kill(c)
  <2>1. UNCHANGED <<dst, text, last>>
    BY <1>6 DEF Begin, Refuse, Look, Finish, ArchiveFails, Kill, disk, ghosts
  <2> QED BY <1>1, <2>1 DEF FileInv
<1> QED BY <1>1, <1>3, <1>4, <1>5, <1>6 DEF Base, Progress, DirPcs, Act, Forward, Backward, Copy,
   Rename, MakeBackup, Swap, Save, Put, Complete, Commit, Trouble, Undo, Return, Restore, PutBack,
   Report, RollbackCut, Discard, Unstage, CutShort

FoundInv == DirInv /\ DraftInv /\ FileInv /\ aliens \in Nat

\* What the next reader finds is the whole result of the call that put its own
\* in place last, or what was there, and never half an archive, however often a
\* call fails or is run again; a directory in place is one whose call said so, an
\* archive may be in place though its call was interrupted right after os.replace
\* (migrate_directory, migrate_archive).
THEOREM ReaderFinds == Spec => []NextReaderFinds
<1>1. Init => FoundInv
  <2> SUFFICES ASSUME Init PROVE FoundInv
    OBVIOUS
  <2>1. /\ dst = first /\ dst \notin Call /\ tmp = "none"
        /\ \A c \in Call : pc[c] = "idle" /\ log[c] = "none" /\ outcome[c] = "running" /\ c # "none"
    BY Named DEF Init
  <2>0. last = first /\ first \notin Call
    BY Named DEF Init
  <2>2. \A c \in Call : Phase(c)
    BY <2>1 DEF Phase
  <2>3. DraftInv
    <3>1. \A c \in Call : pc[c] = "idle" /\ c # dst /\ c # tmp
      BY <2>1
    <3> QED BY <2>1, <3>1 DEF DraftInv
  <2>4. DirInv
    BY <2>0, <2>1, <2>2 DEF DirInv, Result
  <2>5. FileInv /\ aliens \in Nat
    BY <2>0, <2>1 DEF FileInv, Init
  <2> QED BY <2>3, <2>4, <2>5 DEF FoundInv
<1>2. Base /\ FoundInv /\ [Next]_vars => FoundInv'
  <2> SUFFICES ASSUME Base, FoundInv, [Next]_vars PROVE FoundInv'
    OBVIOUS
  <2>1. CASE Foreign
    <3>1. /\ dst' \in {"alien", "emptyDir"} /\ kind' = kind /\ met' = met
          /\ UNCHANGED <<tmp, text, pc, handle>>
      BY <2>1 DEF Foreign, memory, ghosts
    <3>0. aliens' \in Nat /\ aliens' # 0
      BY <2>1 DEF Foreign, FoundInv
    <3>2. \A d \in Call \cup {"none"} : d \notin {"alien", "emptyDir"}
      BY Named
    <3> QED BY <3>0, <3>1, <3>2 DEF Base, Typed, FoundInv, DirInv, DraftInv, FileInv, Calm
  <2>2. CASE UNCHANGED vars
    BY <2>2 DEF FoundInv, DirInv, DraftInv, FileInv, Phase, Swapped, Kept, Result, Calm, Running,
       vars, disk, memory, report, ghosts
  <2>3. CASE \E c \in Call : Act(c)
    BY <2>3, DirKept, DraftKept, FileKept, OneCall DEF FoundInv, Base
  <2> QED BY <2>1, <2>2, <2>3 DEF Next, Act, Over
<1>3. Base /\ FoundInv => NextReaderFinds
  <2> SUFFICES ASSUME Base, FoundInv PROVE NextReaderFinds
    OBVIOUS
  <2>1. NotHalfWritten
    BY DEF FoundInv, DraftInv, NotHalfWritten
  <2>2. ASSUME Quiet
        PROVE  IF last \notin Call THEN dst = first
               ELSE IF kind = "directory" THEN dst = last /\ outcome[last] = "completed"
               ELSE dst \in Call /\ text[dst] = last
    <3>1. Calm /\ \A c \in Call : ~Running(c)
      BY <2>2 DEF Quiet, Calm, Running
    <3>2. CASE kind = "directory"
      BY <3>1, <3>2 DEF FoundInv, DirInv, Result, Base, Typed
    <3>3. CASE kind = "archive"
      BY <3>1, <3>3 DEF FoundInv, FileInv
    <3> QED BY <3>2, <3>3 DEF Base, Typed
  <2>3. (\E c \in Call : outcome[c] = "completed") => last \in Call
    BY DEF Base, Progress
  <2> QED BY <2>1, <2>2, <2>3 DEF NextReaderFinds
<1> QED BY <1>1, <1>2, <1>3, BaseInductive, PTL DEF Spec

-----------------------------------------------------------------------------
(* Migrate or unpack: the half that is not under way stutters, so what is  *)
(* proved of each half holds of the two.                                   *)

Own == INSTANCE NewDestination_proofs WITH
  MaxFaults <- UnpackFaults,
  pc <- at, staging <- stage, outcome <- result, told <- named, cut <- broken,
  faults <- failures, aliens <- neighbours

LEMMA IsMigration == PlacingSpec => Spec
<1>1. PlacingInit => Init
  BY DEF PlacingInit
<1>2. [PlacingNext]_<<vars, unpack, half>> => [Next]_vars
  BY DEF PlacingNext
<1> QED BY <1>1, <1>2, PTL DEF PlacingSpec, Spec

LEMMA SameSteps == ASSUME NEW c \in Caller, Unpack!Steps(c) PROVE Own!Steps(c)
<1>1. /\ (Unpack!Start(c) => Own!Start(c))
      /\ (Unpack!Scan(c) => Own!Scan(c))
      /\ (Unpack!Record(c) => Own!Record(c))
      /\ (Unpack!Mkdir(c) => Own!Mkdir(c))
      /\ (Unpack!MkdirFound(c) => Own!MkdirFound(c))
      /\ (Unpack!Found(c) => Own!Found(c))
  BY DEF Unpack!Start, Own!Start, Unpack!Scan, Own!Scan, Unpack!Record, Own!Record, Unpack!Mkdir,
     Own!Mkdir, Unpack!MkdirFound, Own!MkdirFound, Unpack!Found, Own!Found, Unpack!Level,
     Own!Level, Unpack!disk, Own!disk, Unpack!memory, Own!memory, Unpack!ending, Own!ending,
     Unpack!ghosts, Own!ghosts, Unpack!Goto, Own!Goto
<1>2. /\ (Unpack!MkdirOrphaned(c) => Own!MkdirOrphaned(c))
      /\ (Unpack!Place(c) => Own!Place(c))
      /\ (Unpack!StageBeside(c) => Own!StageBeside(c))
      /\ (Unpack!StageInside(c) => Own!StageInside(c))
      /\ (Unpack!MakeBackup(c) => Own!MakeBackup(c))
      /\ (Unpack!Extract(c) => Own!Extract(c))
  BY DEF Unpack!MkdirOrphaned, Own!MkdirOrphaned, Unpack!Place, Own!Place, Unpack!StageBeside,
     Own!StageBeside, Unpack!StageInside, Own!StageInside, Unpack!MakeBackup, Own!MakeBackup,
     Unpack!Extract, Own!Extract, Unpack!disk, Own!disk, Unpack!memory, Own!memory, Unpack!ending,
     Own!ending, Unpack!ghosts, Own!ghosts, Unpack!Goto, Own!Goto
<1>3. /\ (Unpack!Appeared(c) => Own!Appeared(c))
      /\ (Unpack!Rename(c) => Own!Rename(c))
      /\ (Unpack!RenameRefused(c) => Own!RenameRefused(c))
      /\ (Unpack!Merge(c) => Own!Merge(c))
      /\ (Unpack!MergeFails(c) => Own!MergeFails(c))
      /\ (Unpack!Tidy(c) => Own!Tidy(c))
  BY DEF Unpack!Appeared, Own!Appeared, Unpack!Rename, Own!Rename, Unpack!RenameRefused,
     Own!RenameRefused, Unpack!Merge, Own!Merge, Unpack!MergeFails, Own!MergeFails, Unpack!Tidy,
     Own!Tidy, Unpack!EmptyDest, Own!EmptyDest, Unpack!Fault, Own!Fault, Unpack!Unstaged,
     Own!Unstaged, Unpack!disk, Own!disk, Unpack!memory, Own!memory, Unpack!ending, Own!ending,
     Unpack!ghosts, Own!ghosts, Unpack!Goto, Own!Goto
<1>4. /\ (Unpack!End(c) => Own!End(c))
      /\ (Unpack!Trouble(c) => Own!Trouble(c))
      /\ (Unpack!Late(c) => Own!Late(c))
      /\ (Unpack!Judge(c) => Own!Judge(c))
      /\ (Unpack!Unstage(c) => Own!Unstage(c))
  BY DEF Unpack!End, Own!End, Unpack!Trouble, Own!Trouble, Unpack!Late, Own!Late, Unpack!Judge,
     Own!Judge, Unpack!Unstage, Own!Unstage, Unpack!Fault, Own!Fault, Unpack!Unstaged,
     Own!Unstaged, Unpack!disk, Own!disk, Unpack!memory, Own!memory, Unpack!ending, Own!ending,
     Unpack!ghosts, Own!ghosts, Unpack!Goto, Own!Goto
<1>5. /\ (Unpack!Unmake(c) => Own!Unmake(c))
      /\ (Unpack!Failed(c) => Own!Failed(c))
      /\ (Unpack!CutShort(c) => Own!CutShort(c))
  BY DEF Unpack!Unmake, Own!Unmake, Unpack!Failed, Own!Failed, Unpack!CutShort, Own!CutShort,
     Unpack!Empty, Own!Empty, Unpack!Fault, Own!Fault, Unpack!Innermost, Own!Innermost,
     Unpack!disk, Own!disk, Unpack!memory, Own!memory, Unpack!ending, Own!ending, Unpack!ghosts,
     Own!ghosts, Unpack!Goto, Own!Goto
<1> QED BY <1>1, <1>2, <1>3, <1>4, <1>5 DEF Unpack!Steps, Own!Steps

LEMMA IsUnpack == PlacingSpec => Own!Spec
<1>1. PlacingInit => Own!Init
  BY DEF PlacingInit, Unpack!Init, Own!Init, Unpack!Level, Own!Level
<1>2. UNCHANGED unpack => UNCHANGED Own!vars
  BY DEF unpack, Own!vars, Own!disk, Own!memory, Own!ending, Own!ghosts
<1>3. Unpack!Foreign => Own!Foreign
  BY DEF Unpack!Foreign, Own!Foreign, Unpack!memory, Own!memory, Unpack!ending, Own!ending,
     Unpack!ghosts, Own!ghosts
<1>4. Unpack!Over => Own!Over
  BY DEF Unpack!Over, Own!Over, Unpack!vars, Own!vars, Unpack!disk, Own!disk, Unpack!memory,
     Own!memory, Unpack!ending, Own!ending, Unpack!ghosts, Own!ghosts
<1>5. [PlacingNext]_<<vars, unpack, half>> => [Own!Next]_(Own!vars)
  BY <1>2, <1>3, <1>4, SameSteps DEF PlacingNext, Unpack!Next, Own!Next
<1> QED BY <1>1, <1>5, PTL DEF PlacingSpec, Own!Spec

\* OldIsHeld and ReaderFinds, of whatever is under way at the path.
THEOREM PlacingHoldsOld == PlacingSpec => []OldHeld
BY IsMigration, OldIsHeld, PTL

THEOREM PlacingReaderFinds == PlacingSpec => []NextReaderFinds
BY IsMigration, ReaderFinds, PTL

\* Whatever a migration or an unpack leaves behind is named, and an unpack that
\* fails alone has removed the parents it made (_rollback, _remove_or_warn,
\* _remove_made).
THEOREM NothingIsUnnamed == PlacingSpec => []NothingUnnamed
<1>1. Own!CallersAssumption
  BY UnpackAssumption DEF Unpack!CallersAssumption, Own!CallersAssumption, Unpack!IsFiniteSet,
     Own!IsFiniteSet
<1>2. Own!Spec => []Own!ParentsRemoved
  BY <1>1, Own!ParentsAreRemoved
<1>3. Own!Spec => []Own!LeftoversNamed
  BY Own!LeftoversAreNamed
<1>4. LeftoversNamed /\ Own!LeftoversNamed /\ Own!ParentsRemoved => NothingUnnamed
  BY DEF NothingUnnamed, Unpack!LeftoversNamed, Own!LeftoversNamed, Unpack!ParentsRemoved,
     Own!ParentsRemoved
<1> QED BY <1>2, <1>3, <1>4, IsMigration, IsUnpack, LeftoversAreNamed, PTL

\* An unpack removes only parents its own mkdir made, unless some mkdir never came
\* back (_remove_made).
THEOREM PlacingKeepsParents == PlacingSpec => OthersParentsKept
<1> DEFINE
  Theirs == \A c \in Caller, k \in Own!Level :
       made'[c] # made[c] /\ k \in made[c] /\ depth' < k /\ depth >= k =>
         maker[k] = c \/ \E d \in Caller : k \in stray[d]
  Mine == \A c \in Caller, k \in Unpack!Level :
       made'[c] # made[c] /\ k \in made[c] /\ depth' < k /\ depth >= k =>
         maker[k] = c \/ \E d \in Caller : k \in stray[d]
<1>1. Own!CallersAssumption
  BY UnpackAssumption DEF Unpack!CallersAssumption, Own!CallersAssumption, Unpack!IsFiniteSet,
     Own!IsFiniteSet
<1>2. Own!Spec => [][Theirs]_(Own!vars)
  BY <1>1, Own!OthersAreKept DEF Own!OthersParentsKept
<1>3. Theirs => Mine
  BY DEF Unpack!Level, Own!Level
<1>4. UNCHANGED Own!vars => UNCHANGED Unpack!vars
  BY DEF Unpack!vars, Unpack!disk, Unpack!memory, Unpack!ending, Unpack!ghosts, Own!vars,
     Own!disk, Own!memory, Own!ending, Own!ghosts
<1> HIDE DEF Theirs, Mine
<1>5. [Theirs]_(Own!vars) => [Mine]_(Unpack!vars)
  BY <1>3, <1>4
<1>6. PlacingSpec => [][Mine]_(Unpack!vars)
  BY <1>2, <1>5, IsUnpack, PTL
<1> QED BY <1>6 DEF Mine, OthersParentsKept, Unpack!OthersParentsKept

\* The unpacks implement publication, whatever else may be placed (unpack).
THEOREM PlacingPublishes == PlacingSpec => ImplementsPublication
<1>1. Own!Spec => Own!Published!Spec
  BY Own!PublicationImplemented DEF Own!ImplementsPublication
<1>2. Own!Published!Init => Unpack!Published!Init
  BY DEF Own!Published!Init, Unpack!Published!Init
<1>3. [Own!Published!Next]_(Own!Published!vars) => [Unpack!Published!Next]_(Unpack!Published!vars)
  BY DEF Own!Published!Next, Unpack!Published!Next, Own!Published!vars, Unpack!Published!vars,
     Own!Published!Publish, Unpack!Published!Publish, Own!Published!End, Unpack!Published!End
<1> QED BY <1>1, <1>2, <1>3, IsUnpack, PTL DEF Own!Published!Spec, Unpack!Published!Spec,
   ImplementsPublication, Unpack!ImplementsPublication

=============================================================================
