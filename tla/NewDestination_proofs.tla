------------------------ MODULE NewDestination_proofs ------------------------
(***************************************************************************)
(* NewDestination, for any number of calls, missing parents, failures and  *)
(* directories made by another program: it implements Publication, removes *)
(* nobody else's parents, and names the staging it leaves.                 *)
(***************************************************************************)
EXTENDS NewDestination, WellFoundedInduction, TLAPS

Before == {"start", "scan", "record", "mkdir", "found", "place", "beside", "inside"}
Failing == {"fail", "unstage", "unmake"}

Typed ==
  /\ held \subseteq Caller /\ beside \subseteq Caller /\ inside \subseteq Caller
  /\ pc \in [Caller -> Before \cup Failing \cup
               {"backup", "extract", "appeared", "aside", "rename", "merge", "tidy", "end"}]
  /\ staging \in [Caller -> {"none", "beside", "inside"}]
  /\ backup \in [Caller -> BOOLEAN] /\ renaming \in [Caller -> BOOLEAN]
  /\ outcome \in [Caller -> {"running", "completed", "failed"}]
  /\ kept \subseteq Caller /\ told \subseteq Caller /\ cut \subseteq Caller

\* Where the tree of a call and its staging directory are.  The record of the
\* rename together with the staging directory tells a call that failed whether
\* its tree is in place.
Whereabouts(c) ==
  /\ outcome[c] # "running" => pc[c] = "end"
  /\ pc[c] \in Before => staging[c] = "none" /\ ~backup[c] /\ c \notin beside \cup inside
  /\ pc[c] \in {"extract", "appeared", "rename"} /\ ~backup[c] =>
       staging[c] = "beside" /\ c \in beside
  /\ pc[c] \in {"appeared", "rename"} => ~backup[c]
  /\ pc[c] \in {"merge", "tidy"} => backup[c]
  /\ pc[c] \in Before \cup {"backup", "extract", "appeared", "aside", "merge", "tidy"} => ~renaming[c]
  /\ pc[c] = "rename" => renaming[c]
  /\ renaming[c] => staging[c] = "beside"
  /\ staging[c] = "beside" => c \notin inside
  /\ pc[c] \in Before \cup {"backup", "extract", "appeared", "aside", "rename", "merge", "unstage",
                            "unmake"} => c \notin held
  /\ pc[c] = "tidy" => c \in held
  /\ pc[c] = "fail" => (c \in held <=> renaming[c] /\ c \notin beside)
  /\ pc[c] = "end" /\ outcome[c] # "failed" => c \in held
  /\ outcome[c] = "failed" => c \notin held
  /\ pc[c] = "end" /\ outcome[c] = "running" /\ ~backup[c] => renaming[c] /\ c \notin beside

\* A staging directory is named before the call ends.
Told(c) ==
  pc[c] \in {"unmake", "end"} /\ c \in beside \cup inside =>
    c \in told \cup cut \/ staging[c] = "none"

Placed == Typed /\ \A c \in Caller : Whereabouts(c) /\ Told(c)

-----------------------------------------------------------------------------

LEMMA InitPlaced == Init => Placed
BY DEF Init, Placed, Typed, Whereabouts, Told, Before, Failing

LEMMA OneCall ==
  ASSUME Typed, NEW c \in Caller, Steps(c)
  PROVE  \A d \in Caller \ {c} :
           /\ pc'[d] = pc[d] /\ staging'[d] = staging[d] /\ backup'[d] = backup[d]
           /\ renaming'[d] = renaming[d] /\ outcome'[d] = outcome[d]
           /\ (d \in held' <=> d \in held) /\ (d \in beside' <=> d \in beside)
           /\ (d \in inside' <=> d \in inside) /\ (d \in told => d \in told')
           /\ (d \in cut => d \in cut')
BY DEF Typed, Steps, Start, Scan, Record, Mkdir, MkdirFound, Found, MkdirOrphaned, Place,
   StageBeside, StageInside, MakeBackup, Extract, Appeared, Rename, RenameRefused, Merge,
   MergeFails, Tidy, End, Trouble, Late, Judge, Unstage, Unmake, Failed, CutShort, Goto, Unstaged,
   disk, memory, ending, ghosts

LEMMA TypedKept == ASSUME Typed, NEW c \in Caller, Steps(c) PROVE Typed'
<1>1. CASE Start(c) \/ Scan(c) \/ Record(c) \/ Mkdir(c)
  BY <1>1 DEF Typed, Before, Failing, Start, Scan, Record, Mkdir, Goto, Unstaged, disk, memory,
     ending, ghosts
<1>2. CASE MkdirFound(c) \/ Found(c) \/ MkdirOrphaned(c) \/ Place(c)
  BY <1>2 DEF Typed, Before, Failing, MkdirFound, Found, MkdirOrphaned, Place, Goto, Unstaged,
     disk, memory, ending, ghosts
<1>3. CASE StageBeside(c)
  BY <1>3 DEF Typed, Before, Failing, StageBeside, Goto, Unstaged, disk, memory, ending, ghosts
<1>4. CASE StageInside(c) \/ MakeBackup(c)
  BY <1>4 DEF Typed, Before, Failing, StageInside, MakeBackup, Goto, Unstaged, disk, memory,
     ending, ghosts
<1>5. CASE Extract(c) \/ Appeared(c)
  BY <1>5 DEF Typed, Before, Failing, Extract, Appeared, Goto, Unstaged, disk, memory, ending,
     ghosts
<1>6. CASE Rename(c) \/ RenameRefused(c)
  BY <1>6 DEF Typed, Before, Failing, Rename, RenameRefused, Goto, Unstaged, disk, memory, ending,
     ghosts
<1>7. CASE Merge(c) \/ MergeFails(c)
  BY <1>7 DEF Typed, Before, Failing, Merge, MergeFails, Goto, Unstaged, disk, memory, ending,
     ghosts
<1>8. CASE Tidy(c) \/ End(c)
  BY <1>8 DEF Typed, Before, Failing, Tidy, End, Goto, Unstaged, disk, memory, ending, ghosts
<1>9. CASE Trouble(c)
  BY <1>9 DEF Typed, Before, Failing, Trouble, Goto, Unstaged, disk, memory, ending, ghosts
<1>10. CASE Late(c) \/ Judge(c)
  BY <1>10 DEF Typed, Before, Failing, Late, Judge, Goto, Unstaged, disk, memory, ending, ghosts
<1>11. CASE Unstage(c)
  BY <1>11 DEF Typed, Before, Failing, Unstage, Goto, Unstaged, disk, memory, ending, ghosts
<1>12. CASE Unmake(c) \/ Failed(c) \/ CutShort(c)
  BY <1>12 DEF Typed, Before, Failing, Unmake, Failed, CutShort, Goto, Unstaged, disk, memory,
     ending, ghosts
<1> QED BY <1>1, <1>2, <1>3, <1>4, <1>5, <1>6, <1>7, <1>8, <1>9, <1>10, <1>11, <1>12 DEF Steps

LEMMA WhereaboutsKept ==
  ASSUME Typed, NEW c \in Caller, Whereabouts(c), Told(c), Steps(c) PROVE Whereabouts(c)' /\ Told(c)'
<1>1. CASE Start(c) \/ Scan(c) \/ Record(c) \/ Mkdir(c)
  BY <1>1 DEF Typed, Whereabouts, Told, Before, Failing, Start, Scan, Record, Mkdir, Goto,
     Unstaged, disk, memory, ending, ghosts
<1>2. CASE MkdirFound(c) \/ Found(c) \/ MkdirOrphaned(c) \/ Place(c)
  BY <1>2 DEF Typed, Whereabouts, Told, Before, Failing, MkdirFound, Found, MkdirOrphaned, Place,
     Goto, Unstaged, disk, memory, ending, ghosts
<1>3. CASE StageBeside(c)
  BY <1>3 DEF Typed, Whereabouts, Told, Before, Failing, StageBeside, Goto, Unstaged, disk,
     memory, ending, ghosts
<1>4. CASE StageInside(c) \/ MakeBackup(c)
  BY <1>4 DEF Typed, Whereabouts, Told, Before, Failing, StageInside, MakeBackup, Goto, Unstaged,
     disk, memory, ending, ghosts
<1>5. CASE Extract(c) \/ Appeared(c)
  BY <1>5 DEF Typed, Whereabouts, Told, Before, Failing, Extract, Appeared, Goto, Unstaged, disk,
     memory, ending, ghosts
<1>6. CASE Rename(c) \/ RenameRefused(c)
  BY <1>6 DEF Typed, Whereabouts, Told, Before, Failing, Rename, RenameRefused, Goto, Unstaged,
     disk, memory, ending, ghosts
<1>7. CASE Merge(c) \/ MergeFails(c)
  BY <1>7 DEF Typed, Whereabouts, Told, Before, Failing, Merge, MergeFails, Goto, Unstaged, disk,
     memory, ending, ghosts
<1>8. CASE Tidy(c) \/ End(c)
  BY <1>8 DEF Typed, Whereabouts, Told, Before, Failing, Tidy, End, Goto, Unstaged, disk, memory,
     ending, ghosts
<1>9. CASE Trouble(c)
  BY <1>9 DEF Typed, Whereabouts, Told, Before, Failing, Trouble, Goto, Unstaged, disk, memory,
     ending, ghosts
<1>10. CASE Late(c) \/ Judge(c)
  BY <1>10 DEF Typed, Whereabouts, Told, Before, Failing, Late, Judge, Goto, Unstaged, disk,
     memory, ending, ghosts
<1>11. CASE Unstage(c)
  BY <1>11 DEF Typed, Whereabouts, Told, Before, Failing, Unstage, Goto, Unstaged, disk, memory,
     ending, ghosts
<1>12. CASE Unmake(c) \/ Failed(c) \/ CutShort(c)
  BY <1>12 DEF Typed, Whereabouts, Told, Before, Failing, Unmake, Failed, CutShort, Goto,
     Unstaged, disk, memory, ending, ghosts
<1> QED BY <1>1, <1>2, <1>3, <1>4, <1>5, <1>6, <1>7, <1>8, <1>9, <1>10, <1>11, <1>12 DEF Steps

LEMMA PlacedInductive == Spec => []Placed
<1>1. Placed /\ [Next]_vars => Placed'
  <2> SUFFICES ASSUME Placed, [Next]_vars PROVE Placed'
    OBVIOUS
  <2>1. CASE \E c \in Caller : Steps(c)
    <3>1. PICK c \in Caller : Steps(c)
      BY <2>1
    <3>2. Whereabouts(c)' /\ Told(c)'
      BY <3>1, WhereaboutsKept DEF Placed
    <3>3. \A d \in Caller \ {c} : Whereabouts(d)' /\ Told(d)'
      BY <3>1, OneCall DEF Placed, Whereabouts, Told
    <3> QED BY <3>1, <3>2, <3>3, TypedKept DEF Placed
  <2>2. CASE Foreign \/ UNCHANGED vars
    BY <2>2 DEF Foreign, Placed, Typed, Whereabouts, Told, vars, disk, memory, ending, ghosts
  <2> QED BY <2>1, <2>2 DEF Next, Over
<1> QED BY <1>1, InitPlaced, PTL DEF Spec

-----------------------------------------------------------------------------
(* Publication.                                                            *)

LEMMA StepPublishes ==
  ASSUME Placed, NEW c \in Caller, Steps(c) PROVE Published!Next \/ UNCHANGED <<held, outcome>>
<1>1. Typed /\ Whereabouts(c)
  BY DEF Placed
<1>2. CASE Rename(c) \/ Merge(c)
  <2>1. outcome[c] = "running" /\ c \notin held
    BY <1>1, <1>2 DEF Typed, Whereabouts, Rename, Merge
  <2>2. held' = held \cup {c} /\ UNCHANGED outcome
    BY <1>2 DEF Rename, Merge, ending
  <2> QED BY <2>1, <2>2 DEF Published!Next, Published!Publish
<1>3. CASE End(c) \/ (Judge(c) /\ outcome' # outcome) \/ Failed(c) \/ CutShort(c)
  <2>1. outcome[c] = "running" /\ held' = held
    BY <1>1, <1>3 DEF Typed, Whereabouts, End, Judge, Failed, CutShort, disk
  <2>2. outcome' = [outcome EXCEPT ![c] = IF c \in held THEN "completed" ELSE "failed"]
    BY <1>1, <1>3 DEF Typed, Whereabouts, End, Judge, Failed, CutShort
  <2> QED BY <2>1, <2>2 DEF Published!Next, Published!End
<1> QED BY <1>2, <1>3 DEF Steps, Start, Scan, Record, Mkdir, MkdirFound, Found, MkdirOrphaned,
   Place, StageBeside, StageInside, MakeBackup, Extract, Appeared, Rename, RenameRefused, Merge,
   MergeFails, Tidy, End, Trouble, Late, Judge, Unstage, Unmake, Failed, CutShort, disk, ending

\* No tree that is in place is lost to another call's rename, each appears
\* once, and a call says that it completed exactly if its own appeared, wherever
\* an interrupt and the rename fall together (unpack).
THEOREM PublicationImplemented == Spec => ImplementsPublication
<1>1. Init => Published!Init
  BY DEF Init, Published!Init
<1>2. Placed /\ [Next]_vars => [Published!Next]_(Published!vars)
  <2> SUFFICES ASSUME Placed, [Next]_vars PROVE Published!Next \/ UNCHANGED <<held, outcome>>
    BY DEF Published!vars
  <2>1. CASE Foreign \/ UNCHANGED vars
    BY <2>1 DEF Foreign, vars, disk, ending
  <2> QED BY <2>1, StepPublishes DEF Next, Over
<1> QED BY <1>1, <1>2, PlacedInductive, PTL DEF Spec, Published!Spec, ImplementsPublication

\* A staging directory that stays is named, but for an interrupt in the clean-up
\* or at the instant it was made (_remove_or_warn, _discard_backup).
THEOREM LeftoversAreNamed == Spec => []LeftoversNamed
<1>1. Placed => LeftoversNamed
  BY DEF Placed, Whereabouts, Told, LeftoversNamed
<1> QED BY <1>1, PlacedInductive, PTL

-----------------------------------------------------------------------------
(* The parents.                                                            *)

\* A call that will make no more parents.
Gone(c) == pc[c] \in Failing \cup {"end"}

ParentsTyped ==
  /\ depth \in 0 .. Levels
  /\ maker \in [Level -> Caller \cup {"other"}]
  /\ level \in [Caller -> 0 .. Levels + 1]
  /\ made \in [Caller -> SUBSET Level] /\ stray \in [Caller -> SUBSET Level]
  /\ \A c \in Caller :
       /\ pc[c] = "scan" => level[c] <= Levels
       /\ pc[c] = "record" => level[c] >= 1
       /\ pc[c] \in {"mkdir", "found"} => level[c] \in Level

\* A parent on a call's record is there and its own, or a mkdir of it has not
\* come back: its own, or that of a call that failed.
Recorded(c, k) ==
  \/ k <= depth /\ maker[k] = c
  \/ k \in stray[c]
  \/ \E d \in Caller : Gone(d) /\ k \in stray[d]

MadeInv ==
  /\ Typed /\ ParentsTyped
  /\ \A c \in Caller : \A k \in made[c] : Recorded(c, k)

\* A set of numbers up to n has a greatest, found as the least distance to n.
LEMMA Greatest ==
  ASSUME NEW n \in Nat, NEW S \in SUBSET (1 .. n), S # {}
  PROVE  \E k \in S : \A j \in S : j <= k
<1> DEFINE T == {d \in Nat : n - d \in S}
<1>1. T # {}
  <2>1. PICK k \in S : TRUE
    OBVIOUS
  <2>2. n - (n - k) = k /\ n - k \in Nat
    BY <2>1
  <2>3. n - k \in T
    BY <2>2
  <2> QED BY <2>3
<1>2. \E d \in T : \A e \in T : ~(<<e, d>> \in OpToRel(<, Nat))
  <2> HIDE DEF T
  <2>1. T \subseteq Nat
    BY DEF T
  <2> QED BY <1>1, <2>1, WFMin, NatLessThanWellFounded
<1>3. PICK d \in T : \A e \in T : ~(<<e, d>> \in OpToRel(<, Nat))
  BY <1>2
<1>4. ASSUME NEW j \in S PROVE j <= n - d
  <2>1. n - j \in Nat /\ n - (n - j) = j
    OBVIOUS
  <2>2. n - j \in T
    BY <2>1
  <2>3. ~(n - j < d)
    <3>1. ~(<<n - j, d>> \in OpToRel(<, Nat))
      BY <1>3, <2>2
    <3> QED BY <2>1, <3>1 DEF OpToRel
  <2> QED BY <2>3
<1> QED BY <1>3, <1>4
LEMMA InnermostIs ==
  ASSUME CallersAssumption, ParentsTyped, NEW c \in Caller, made[c] # {}
  PROVE  Innermost(c) \in made[c] /\ Innermost(c) \in Level
<1>1. Levels \in Nat /\ made[c] \in SUBSET (1 .. Levels)
  BY DEF CallersAssumption, ParentsTyped, Level
<1>2. \E k \in made[c] : \A j \in made[c] : j <= k
  BY <1>1, Greatest
<1> QED BY <1>1, <1>2 DEF Innermost, Level

LEMMA MadeKept ==
  ASSUME CallersAssumption, MadeInv, NEW c \in Caller, Steps(c)
  PROVE  ParentsTyped' /\ \A d \in Caller : \A k \in made'[d] : Recorded(d, k)'
<1>1. Typed /\ ParentsTyped /\ Levels \in Nat
  BY DEF MadeInv, CallersAssumption
<1>2. ASSUME NEW d \in Caller, Gone(d) PROVE Gone(d)'
  BY <1>1, <1>2 DEF Gone, Failing, Typed, Goto, Steps, Record, Mkdir, MkdirFound, Unmake, Start,
     Scan, Found, MkdirOrphaned, Place, StageBeside, StageInside, MakeBackup, Extract, Appeared,
     Rename, RenameRefused, Merge, MergeFails, Tidy, End, Trouble, Late, Judge, Unstage, Failed,
     CutShort
<1>3. ASSUME UNCHANGED <<depth, maker, made, stray>>
      PROVE  \A d \in Caller : \A k \in made'[d] : Recorded(d, k)'
  BY <1>2, <1>3 DEF MadeInv, Recorded
<1>4. CASE Start(c) \/ Scan(c) \/ Found(c)
  <2>1. UNCHANGED <<depth, maker, made, stray>>
    BY <1>4 DEF Start, Scan, Found, disk, ghosts
  <2>2. level' \in [Caller -> 0 .. Levels + 1]
    BY <1>1, <1>4 DEF Start, Scan, Found, ParentsTyped, Level
  <2>3. \A d \in Caller \ {c} : pc'[d] = pc[d] /\ level'[d] = level[d]
    BY <1>1, <1>4 DEF Start, Scan, Found, ParentsTyped, Typed, Goto
  <2>4. /\ pc'[c] = "scan" => level'[c] <= Levels
        /\ pc'[c] = "record" => level'[c] >= 1
        /\ pc'[c] \notin {"mkdir", "found"}
    BY <1>1, <1>4 DEF Start, Scan, Found, ParentsTyped, Typed, Goto, Level
  <2> QED BY <1>1, <1>3, <2>1, <2>2, <2>3, <2>4 DEF ParentsTyped
<1>5. CASE \/ MkdirOrphaned(c) \/ Place(c) \/ StageBeside(c) \/ StageInside(c) \/ MakeBackup(c)
           \/ Extract(c) \/ Appeared(c) \/ Rename(c) \/ RenameRefused(c) \/ Merge(c)
           \/ MergeFails(c) \/ Tidy(c) \/ End(c) \/ Trouble(c) \/ Late(c) \/ Judge(c)
           \/ Unstage(c) \/ Failed(c) \/ CutShort(c)
  <2>1. UNCHANGED <<depth, maker, made, stray, level>>
    BY <1>5 DEF MkdirOrphaned, Place, StageBeside, StageInside, MakeBackup, Extract, Appeared,
       Rename, RenameRefused, Merge, MergeFails, Tidy, End, Trouble, Late, Judge, Unstage, Failed,
       CutShort, disk, memory, ghosts
  <2>2. pc'[c] \notin {"scan", "record", "mkdir", "found"} /\ \A d \in Caller \ {c} : pc'[d] = pc[d]
    BY <1>1, <1>5 DEF MkdirOrphaned, Place, StageBeside, StageInside, MakeBackup, Extract,
       Appeared, Rename, RenameRefused, Merge, MergeFails, Tidy, End, Trouble, Late, Judge,
       Unstage, Failed, CutShort, Goto, Typed
  <2> QED BY <1>1, <1>3, <2>1, <2>2 DEF ParentsTyped
<1>6. CASE Record(c)
  <2>1. UNCHANGED <<depth, maker, level>> /\ level[c] \in 1 .. Levels + 1
    BY <1>1, <1>6 DEF Record, disk, ParentsTyped
  <2>2. CASE level[c] > Levels
    <3>1. UNCHANGED <<made, stray>> /\ pc' = [pc EXCEPT ![c] = "place"]
      BY <1>6, <2>2 DEF Record, Goto
    <3> QED BY <1>1, <1>3, <2>1, <3>1 DEF Typed, ParentsTyped
  <2>3. CASE ~(level[c] > Levels)
    <3>1. /\ made' = [made EXCEPT ![c] = @ \cup {level[c]}]
          /\ stray' = [stray EXCEPT ![c] = @ \cup {level[c]}]
          /\ pc' = [pc EXCEPT ![c] = "mkdir"] /\ level[c] \in Level
      BY <1>1, <1>6, <2>1, <2>3 DEF Record, Goto, Level
    <3>2. ParentsTyped'
      BY <1>1, <2>1, <3>1 DEF Typed, ParentsTyped
    <3>3. \A d \in Caller : stray[d] \subseteq stray'[d]
      BY <1>1, <3>1 DEF ParentsTyped
    <3>4. ASSUME NEW d \in Caller, NEW k \in made'[d] PROVE Recorded(d, k)'
      <4>1. k \in made[d] \/ k \in stray'[d]
        BY <1>1, <3>1 DEF ParentsTyped
      <4> QED BY <1>2, <2>1, <3>3, <4>1 DEF MadeInv, Recorded
    <3> QED BY <3>2, <3>4
  <2> QED BY <2>2, <2>3
<1>7. CASE Mkdir(c)
  <2> DEFINE k == level[c]
  <2>1. /\ depth = k - 1 /\ depth' = k /\ maker' = [maker EXCEPT ![k] = c]
        /\ stray' = [stray EXCEPT ![c] = @ \ {k}] /\ level' = [level EXCEPT ![c] = k + 1]
        /\ pc' = [pc EXCEPT ![c] = "record"] /\ made' = made /\ k \in Level /\ ~Gone(c)
    BY <1>1, <1>7 DEF Mkdir, Goto, ParentsTyped, Gone, Failing
  <2> HIDE DEF k
  <2>2. ParentsTyped'
    BY <1>1, <2>1 DEF Typed, ParentsTyped, Level
  <2>3. ASSUME NEW d \in Caller, NEW j \in made'[d] PROVE Recorded(d, j)'
    <3>1. j \in made[d] /\ j \in Level /\ Recorded(d, j)
      BY <1>1, <2>1, <2>3 DEF MadeInv, ParentsTyped
    <3>2. CASE j <= depth /\ maker[j] = d
      BY <1>1, <2>1, <3>1, <3>2 DEF Recorded, ParentsTyped, Level
    <3>3. CASE j \in stray[d]
      BY <1>1, <2>1, <3>1, <3>3 DEF Recorded, ParentsTyped, Level
    <3>4. CASE \E e \in Caller : Gone(e) /\ j \in stray[e]
      BY <1>1, <1>2, <2>1, <3>4 DEF Recorded, ParentsTyped
    <3> QED BY <3>1, <3>2, <3>3, <3>4 DEF Recorded
  <2> QED BY <2>2, <2>3
<1>8. CASE MkdirFound(c)
  <2> DEFINE k == level[c]
  <2>1. /\ UNCHANGED <<depth, maker, level>>
        /\ made' = [made EXCEPT ![c] = @ \ {k}] /\ stray' = [stray EXCEPT ![c] = @ \ {k}]
        /\ pc' = [pc EXCEPT ![c] = "found"] /\ k \in Level /\ ~Gone(c)
    BY <1>1, <1>8 DEF MkdirFound, Goto, ParentsTyped, Gone, Failing, disk
  <2> HIDE DEF k
  <2>2. ParentsTyped'
    <3>1. level[c] \in Level
      BY <1>1, <1>8 DEF MkdirFound, ParentsTyped
    <3> QED BY <1>1, <2>1, <3>1 DEF Typed, ParentsTyped
  <2>3. ASSUME NEW d \in Caller, NEW j \in made'[d] PROVE Recorded(d, j)'
    <3>1. j \in made[d] /\ Recorded(d, j) /\ (d = c => j # k)
      BY <1>1, <2>1, <2>3 DEF MadeInv, ParentsTyped
    <3>2. \A e \in Caller : j \in stray[e] /\ (e = d \/ Gone(e)) => j \in stray'[e]
      BY <1>1, <2>1, <3>1 DEF ParentsTyped
    <3> QED BY <1>2, <2>1, <3>1, <3>2 DEF Recorded
  <2> QED BY <2>2, <2>3
<1>9. CASE Unmake(c)
  <2> DEFINE k == Innermost(c)
  <2>1. k \in made[c] /\ k \in Level
    BY <1>1, <1>9, InnermostIs DEF Unmake
  <2>2. /\ made' = [made EXCEPT ![c] = @ \ {k}] /\ depth' = (IF Empty(k) THEN k - 1 ELSE depth)
        /\ UNCHANGED <<maker, level, stray, pc>> /\ pc[c] = "unmake"
    BY <1>9 DEF Unmake, memory, ghosts
  <2>3. Empty(k) => depth = k
    BY DEF Empty
  <2> HIDE DEF k
  <2>4. ParentsTyped'
    BY <1>1, <2>1, <2>2, <2>3 DEF ParentsTyped, Level
  <2>5. ASSUME NEW d \in Caller, NEW j \in made'[d] PROVE Recorded(d, j)'
    <3>1. j \in made[d] /\ (d = c => j # k) /\ j \in Level /\ Recorded(d, j)
      BY <1>1, <2>2, <2>5 DEF MadeInv, ParentsTyped
    <3>2. CASE j <= depth' \/ ~(j <= depth /\ maker[j] = d)
      BY <1>2, <2>2, <3>1, <3>2 DEF Recorded
    <3>3. CASE ~(j <= depth') /\ j <= depth /\ maker[j] = d
      <4>1. j = k /\ d # c
        BY <1>1, <2>1, <2>2, <2>3, <3>1, <3>3 DEF ParentsTyped, Level
      <4>2. k \in stray[c] \/ \E e \in Caller : Gone(e) /\ k \in stray[e]
        BY <2>1, <3>3, <4>1 DEF MadeInv, Recorded
      <4>3. Gone(c)
        BY <2>2 DEF Gone, Failing
      <4> QED BY <1>2, <2>2, <4>1, <4>2, <4>3 DEF Recorded
    <3> QED BY <3>2, <3>3
  <2> QED BY <2>4, <2>5
<1> QED BY <1>4, <1>5, <1>6, <1>7, <1>8, <1>9 DEF Steps

LEMMA InitMade == ASSUME CallersAssumption, Init PROVE MadeInv
<1>1. Typed
  BY InitPlaced DEF Placed
<1> QED BY <1>1 DEF Init, MadeInv, ParentsTyped, Level, CallersAssumption

LEMMA MadeInductive == CallersAssumption => (Spec => []MadeInv)
<1> SUFFICES ASSUME CallersAssumption PROVE Spec => []MadeInv
  OBVIOUS
<1>1. Init => MadeInv
  BY InitMade
<1>2. MadeInv /\ [Next]_vars => MadeInv'
  <2> SUFFICES ASSUME MadeInv, [Next]_vars PROVE MadeInv'
    OBVIOUS
  <2>1. CASE \E c \in Caller : Steps(c)
    BY <2>1, MadeKept, TypedKept DEF MadeInv
  <2>2. CASE Foreign
    <3>1. Typed'
      BY <2>2 DEF MadeInv, Foreign, Typed, memory, ending
    <3> QED BY <2>2, <3>1 DEF Foreign, MadeInv, ParentsTyped, Recorded, Gone, Level,
         CallersAssumption, memory, ghosts
  <2>3. CASE UNCHANGED vars
    BY <2>3 DEF MadeInv, Typed, ParentsTyped, Recorded, Gone, vars, disk, memory, ending, ghosts
  <2> QED BY <2>1, <2>2, <2>3 DEF Next, Over
<1> QED BY <1>1, <1>2, PTL DEF Spec

\* A call that cleans up removes a parent only if its own mkdir made it, unless
\* some mkdir of that parent never came back, with any number of calls that
\* make and remove the same parents at once (_make_parents, _remove_made).
THEOREM OthersAreKept == CallersAssumption => (Spec => OthersParentsKept)
<1> SUFFICES ASSUME CallersAssumption PROVE Spec => OthersParentsKept
  OBVIOUS
<1> DEFINE Mine == \A c \in Caller, k \in Level :
       made'[c] # made[c] /\ k \in made[c] /\ depth' < k /\ depth >= k =>
         maker[k] = c \/ \E d \in Caller : k \in stray[d]
<1>1. MadeInv /\ Next => Mine
  <2> SUFFICES ASSUME MadeInv, Next, NEW c \in Caller, NEW k \in Level,
                      made'[c] # made[c], k \in made[c], depth' < k, depth >= k
               PROVE  maker[k] = c \/ \E d \in Caller : k \in stray[d]
    OBVIOUS
  <2> QED BY DEF MadeInv, Recorded
<1> HIDE DEF Mine
<1>2. MadeInv /\ [Next]_vars => [Mine]_vars
  BY <1>1
<1> QED BY <1>2, MadeInductive, PTL DEF Spec, OthersParentsKept, Mine

-----------------------------------------------------------------------------
(* What a call that fails alone leaves of the parents.                     *)

Alone(c) == aliens = 0 /\ \A o \in Caller \ {c} : pc[o] = "start"

\* The record of a call holds the parents that were missing, down to n.
RecordIs(c, n) == \A k \in Level : k \in made[c] <=> depth0 < k /\ k <= n

\* A call that runs alone: the parents on its record are those it made, and
\* one more while a mkdir is under way or if that mkdir failed.
OwnParents(c) ==
  /\ pc[c] # "found"
  /\ pc[c] \notin Failing \cup {"end"} => depth0 <= depth
  /\ there /\ c \notin held => depth0 = Levels
  /\ pc[c] \in {"start", "scan"} => depth = depth0
  /\ pc[c] = "scan" => level[c] >= depth
  /\ pc[c] \in {"record", "mkdir"} => level[c] = depth + 1
  /\ pc[c] = "mkdir" => RecordIs(c, depth + 1)
  /\ pc[c] \notin Failing \cup {"mkdir", "end"} => RecordIs(c, depth)
  /\ pc[c] \in Failing /\ c \notin held /\ (pc[c] = "unmake" => c \notin beside) =>
       depth0 <= depth /\ (RecordIs(c, depth) \/ (depth < Levels /\ RecordIs(c, depth + 1)))
  /\ outcome[c] = "failed" /\ c \notin cut \cup beside => depth = depth0

AloneInv ==
  /\ Placed /\ MadeInv /\ aliens \in Nat /\ depth0 \in 0 .. Levels
  /\ \A c \in Caller : Alone(c) => OwnParents(c)

LEMMA InnermostGreatest ==
  ASSUME CallersAssumption, ParentsTyped, NEW c \in Caller, made[c] # {}
  PROVE  Innermost(c) \in made[c] /\ \A j \in made[c] : j <= Innermost(c)
<1>1. Levels \in Nat /\ made[c] \in SUBSET (1 .. Levels)
  BY DEF CallersAssumption, ParentsTyped, Level
<1>2. \E k \in made[c] : \A j \in made[c] : j <= k
  BY <1>1, Greatest
<1> QED BY <1>2 DEF Innermost

\* The innermost parent on the record is taken off it, and off the disk if it is
\* there.
LEMMA UnmakeKeepsOwn ==
  ASSUME CallersAssumption, AloneInv, NEW c \in Caller, Alone(c), OwnParents(c), Unmake(c)
  PROVE  OwnParents(c)'
<1> DEFINE k == Innermost(c)
<1>1. /\ Typed /\ ParentsTyped /\ Whereabouts(c) /\ Levels \in Nat \ {0} /\ depth \in 0 .. Levels
      /\ depth0 \in 0 .. Levels
  BY DEF AloneInv, MadeInv, Placed, ParentsTyped, CallersAssumption
<1>2. k \in made[c] /\ k \in Level /\ \A j \in made[c] : j <= k
  BY <1>1, InnermostGreatest DEF Unmake, ParentsTyped
<1>3. /\ made'[c] = made[c] \ {k} /\ depth' = (IF Empty(k) THEN k - 1 ELSE depth)
      /\ UNCHANGED <<there, held, beside, pc, level, outcome, cut, depth0>> /\ pc[c] = "unmake"
  BY <1>1 DEF Unmake, ParentsTyped, ending, ghosts
<1> HIDE DEF k
<1>4. c \notin held /\ outcome[c] = "running"
  BY <1>1, <1>3 DEF Whereabouts, Before, Failing, Typed
<1>5. there => depth0 = Levels
  BY <1>4 DEF OwnParents
<1>6. CASE c \in beside
  BY <1>3, <1>4, <1>5, <1>6 DEF OwnParents, Failing
<1>7. CASE c \notin beside
  <2> DEFINE n == IF RecordIs(c, depth) THEN depth ELSE depth + 1
  <2>1. depth0 <= depth /\ RecordIs(c, n) /\ n \in Level /\ n \in {depth, depth + 1}
    <3>1. /\ depth0 <= depth
          /\ RecordIs(c, depth) \/ (depth < Levels /\ RecordIs(c, depth + 1))
      BY <1>3, <1>4, <1>7 DEF OwnParents, Failing
    <3>2. depth = 0 => ~RecordIs(c, depth)
      BY <1>1, <1>2 DEF RecordIs, Level
    <3> QED BY <1>1, <3>1, <3>2 DEF Level
  <2> HIDE DEF n
  <2>2. k = n
    <3>1. n \in made[c]
      <4>1. depth0 < k /\ k <= n
        BY <1>2, <2>1 DEF RecordIs
      <4> QED BY <1>1, <1>2, <2>1, <4>1 DEF RecordIs, Level
    <3> QED BY <1>1, <1>2, <2>1, <3>1 DEF RecordIs, Level
  <2>3. beside = {}
    <3>1. \A o \in Caller \ {c} : o \notin beside
      BY DEF Alone, AloneInv, Placed, Whereabouts, Before
    <3> QED BY <1>1, <1>7, <3>1 DEF Typed
  <2>4. k = Levels => ~there
    BY <1>1, <1>2, <1>5, <2>1, <2>2 DEF RecordIs
  <2>5. Empty(k) <=> depth = k
    BY <2>3, <2>4 DEF Empty
  <2>6. depth' = n - 1 /\ depth0 <= depth'
    <3>1. depth0 < n
      BY <1>2, <2>1, <2>2 DEF RecordIs
    <3> QED BY <1>1, <1>3, <2>1, <2>2, <2>5, <3>1 DEF Level
  <2>7. ASSUME NEW j \in Level PROVE j \in made'[c] <=> depth0 < j /\ j <= depth'
    BY <1>1, <1>3, <2>1, <2>2, <2>6 DEF RecordIs, Level
  <2>8. RecordIs(c, depth)'
    BY <1>3, <2>7 DEF RecordIs
  <2> QED BY <1>3, <1>4, <1>5, <1>7, <2>6, <2>8 DEF OwnParents, Failing
<1> QED BY <1>6, <1>7

LEMMA OwnKept ==
  ASSUME CallersAssumption, AloneInv, NEW c \in Caller, Alone(c), OwnParents(c), Steps(c)
  PROVE  OwnParents(c)'
<1>1. /\ Typed /\ ParentsTyped /\ Whereabouts(c) /\ Levels \in Nat \ {0} /\ depth \in 0 .. Levels
      /\ depth0 \in 0 .. Levels /\ OwnParents(c)
  BY DEF AloneInv, MadeInv, Placed, ParentsTyped, CallersAssumption
<1>2. Typed' /\ (Whereabouts(c))'
  BY TypedKept, WhereaboutsKept DEF AloneInv, Placed
<1>3. CASE Start(c) \/ Scan(c)
  BY <1>1, <1>2, <1>3 DEF Start, Scan, OwnParents, RecordIs, Whereabouts, Before, Failing, Typed,
     ParentsTyped, Goto, Unstaged, disk, memory, ending, ghosts, Level
<1>4. CASE Record(c)
  BY <1>1, <1>2, <1>4 DEF Record, OwnParents, RecordIs, Whereabouts, Before, Failing, Typed,
     ParentsTyped, Goto, Unstaged, disk, memory, ending, ghosts, Level
<1>5. CASE Mkdir(c)
  BY <1>1, <1>2, <1>5 DEF Mkdir, OwnParents, RecordIs, Whereabouts, Before, Failing, Typed,
     ParentsTyped, Goto, Unstaged, disk, memory, ending, ghosts, Level
<1>6. CASE MkdirFound(c) \/ Found(c) \/ MkdirOrphaned(c) \/ Place(c)
  BY <1>1, <1>2, <1>6 DEF MkdirFound, Found, MkdirOrphaned, Place, OwnParents, RecordIs,
     Whereabouts, Before, Failing, Typed, ParentsTyped, Goto, Unstaged, disk, memory, ending,
     ghosts, Level
<1>7. CASE StageBeside(c)
  BY <1>1, <1>2, <1>7 DEF StageBeside, OwnParents, RecordIs, Whereabouts, Before, Failing, Typed,
     ParentsTyped, Goto, Unstaged, disk, memory, ending, ghosts, Level
<1>8. CASE StageInside(c) \/ MakeBackup(c)
  BY <1>1, <1>2, <1>8 DEF StageInside, MakeBackup, OwnParents, RecordIs, Whereabouts, Before,
     Failing, Typed, ParentsTyped, Goto, Unstaged, disk, memory, ending, ghosts, Level
<1>9. CASE Extract(c) \/ Appeared(c)
  BY <1>1, <1>2, <1>9 DEF Extract, Appeared, OwnParents, RecordIs, Whereabouts, Before, Failing,
     Typed, ParentsTyped, Goto, Unstaged, disk, memory, ending, ghosts, Level
<1>10. CASE Rename(c) \/ RenameRefused(c)
  BY <1>1, <1>2, <1>10 DEF Rename, RenameRefused, OwnParents, RecordIs, Whereabouts, Before,
     Failing, Typed, ParentsTyped, Goto, Unstaged, disk, memory, ending, ghosts, Level
<1>11. CASE Merge(c) \/ MergeFails(c)
  BY <1>1, <1>2, <1>11 DEF Merge, MergeFails, OwnParents, RecordIs, Whereabouts, Before, Failing,
     Typed, ParentsTyped, Goto, Unstaged, disk, memory, ending, ghosts, Level
<1>12. CASE Tidy(c) \/ End(c)
  BY <1>1, <1>2, <1>12 DEF Tidy, End, OwnParents, RecordIs, Whereabouts, Before, Failing, Typed,
     ParentsTyped, Goto, Unstaged, disk, memory, ending, ghosts, Level
<1>13. CASE Trouble(c)
  BY <1>1, <1>2, <1>13 DEF Trouble, OwnParents, RecordIs, Whereabouts, Before, Failing, Typed,
     ParentsTyped, Goto, Unstaged, disk, memory, ending, ghosts, Level
<1>14. CASE Late(c) \/ Judge(c)
  BY <1>1, <1>2, <1>14 DEF Late, Judge, OwnParents, RecordIs, Whereabouts, Before, Failing, Typed,
     ParentsTyped, Goto, Unstaged, disk, memory, ending, ghosts, Level
<1>15. CASE Unstage(c)
  BY <1>1, <1>2, <1>15 DEF Unstage, OwnParents, RecordIs, Whereabouts, Before, Failing, Typed,
     ParentsTyped, Goto, Unstaged, disk, memory, ending, ghosts, Level
<1>16. CASE Failed(c) \/ CutShort(c)
  BY <1>1, <1>2, <1>16 DEF Failed, CutShort, OwnParents, RecordIs, Whereabouts, Before, Failing,
     Typed, ParentsTyped, Goto, Unstaged, disk, memory, ending, ghosts, Level
<1>17. CASE Unmake(c)
  BY <1>17, UnmakeKeepsOwn
<1> QED BY <1>3, <1>4, <1>5, <1>6, <1>7, <1>8, <1>9, <1>10, <1>11, <1>12, <1>13, <1>14, <1>15,
   <1>16, <1>17 DEF Steps

LEMMA AloneInductive == CallersAssumption => (Spec => []AloneInv)
<1> SUFFICES ASSUME CallersAssumption PROVE Spec => []AloneInv
  OBVIOUS
<1>1. Init => AloneInv
  <2> SUFFICES ASSUME Init PROVE AloneInv
    OBVIOUS
  <2>1. Placed /\ MadeInv
    BY InitPlaced, InitMade
  <2>2. aliens \in Nat /\ depth0 \in 0 .. Levels
    BY DEF Init
  <2>3. ASSUME NEW c \in Caller PROVE OwnParents(c)
    BY DEF Init, OwnParents, RecordIs, Failing, Level, CallersAssumption
  <2> QED BY <2>1, <2>2, <2>3 DEF AloneInv
<1>2. AloneInv /\ [Next]_vars /\ Placed' /\ MadeInv' => AloneInv'
  <2> SUFFICES ASSUME AloneInv, [Next]_vars, Placed', MadeInv' PROVE AloneInv'
    OBVIOUS
  <2>1. CASE \E c \in Caller : Steps(c)
    <3>1. PICK c \in Caller : Steps(c)
      BY <2>1
    <3>2. aliens' = aliens /\ depth0' = depth0
      BY <3>1 DEF Steps, Record, Mkdir, MkdirFound, Unmake, Start, Scan, Found, MkdirOrphaned,
         Place, StageBeside, StageInside, MakeBackup, Extract, Appeared, Rename, RenameRefused,
         Merge, MergeFails, Tidy, End, Trouble, Late, Judge, Unstage, Failed, CutShort, ghosts
    <3>3. pc'[c] # "start"
      BY <3>1 DEF Steps, Record, Mkdir, MkdirFound, Unmake, Start, Scan, Found, MkdirOrphaned,
         Place, StageBeside, StageInside, MakeBackup, Extract, Appeared, Rename, RenameRefused,
         Merge, MergeFails, Tidy, End, Trouble, Late, Judge, Unstage, Failed, CutShort, Goto,
         AloneInv, Placed, Typed
    <3>4. \A d \in Caller \ {c} : pc'[d] = pc[d]
      BY <3>1, OneCall DEF AloneInv, Placed
    <3>5. ASSUME NEW d \in Caller, Alone(d)' PROVE OwnParents(d)'
      <4>1. d = c
        BY <3>3, <3>5 DEF Alone
      <4>2. Alone(d)
        BY <3>2, <3>4, <3>5, <4>1 DEF Alone
      <4> QED BY <3>1, <4>1, <4>2, OwnKept DEF AloneInv
    <3> QED BY <3>2, <3>5 DEF AloneInv
  <2>2. CASE Foreign
    <3>1. aliens' \in Nat /\ aliens' # 0 /\ depth0' = depth0
      BY <2>2 DEF Foreign, AloneInv, ghosts
    <3> QED BY <3>1 DEF AloneInv, Alone
  <2>3. CASE UNCHANGED vars
    BY <2>3 DEF AloneInv, Alone, OwnParents, RecordIs, vars, disk, memory, ending, ghosts
  <2> QED BY <2>1, <2>2, <2>3 DEF Next, Over
<1> QED BY <1>1, <1>2, PlacedInductive, MadeInductive, PTL DEF Spec

\* A call that failed alone has removed every parent it made, however deep the
\* destination, wherever it failed or was interrupted (_make_parents,
\* _remove_made: "Parent directories this call created are removed again").
THEOREM ParentsAreRemoved == CallersAssumption => (Spec => []ParentsRemoved)
<1> SUFFICES ASSUME CallersAssumption PROVE Spec => []ParentsRemoved
  OBVIOUS
<1>1. AloneInv => ParentsRemoved
  BY DEF AloneInv, ParentsRemoved, Alone, OwnParents
<1> QED BY <1>1, AloneInductive, PTL

=============================================================================
