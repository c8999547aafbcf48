------------------------- MODULE Replacement_proofs -------------------------
(***************************************************************************)
(* Replacement, for every tree of staged entries, every aliasing of their  *)
(* names, every destination and every bound on failures and on the other   *)
(* process: the state has its type, no original is lost until every entry  *)
(* is in place, and a completed merge is whole.                            *)
(*                                                                         *)
(* The second half is about a merge that fails.  Replacement implements    *)
(* AtomicMerge, it names what stays behind, and an undo that nothing       *)
(* disturbs puts every slot back: all three rest on the first invariants   *)
(* and on what the undo log knows.                                         *)
(***************************************************************************)
EXTENDS Replacement, TLAPS

\* An entry the call found.
Orig(c) == c[1] \in {"file", "dir"}
WasDir(c) == c[1] = "dir"

Merges == pc \in {"look", "mkdir", "save", "open", "claim", "put"}

\* The entry being placed, or undone, exists.
ControlInv ==
  /\ pc \in {"mkdir", "save", "open", "claim", "put"} => idx <= N
  /\ pc \in {"reserve", "return", "second", "restore"} => undo > 0
  /\ pc \in {"commit", "tidy"} => complete

BeforeInv == \A s \in Slots : before[s] \in {Nothing, File(s), Dir(s)}

\* The log runs up to the entry being placed.
LogInv ==
  /\ pc = "check" => \A i \in Entry : log[i] = "none" /\ backup[i] = Nothing /\ stage[i] # Nothing
  /\ Merges => \A i \in Entry :
       i > idx \/ (i = idx /\ pc = "look") =>
         log[i] = "none" /\ backup[i] = Nothing /\ stage[i] # Nothing
  /\ pc \in {"mkdir", "save", "open", "claim", "put"} =>
       log[idx] # "none" /\ stage[idx] # Nothing
  /\ pc = "save" => backup[idx] = Nothing
  /\ pc \in {"reserve", "return", "second", "restore"} => log[undo] # "none"

\* No two steps on record are about one slot.
ApartInv ==
  \A i, j \in Entry :
    i # j /\ log[i] # "none" /\ log[j] # "none" => SlotOf[i] # SlotOf[j]

\* While the merge runs, what a step placed is there and remembered.
PlacedInv ==
  Merges => \A i \in Entry :
    i < idx /\ log[i] # "none" =>
      dest[SlotOf[i]] # Nothing /\ dest[SlotOf[i]] \in placed

\* A staged file that left staging is on record, and its target holds no
\* original until its own step is undone.
MovedInv ==
  /\ Merges \/ pc \in {"undo", "reserve", "return", "second", "restore"} =>
       \A i \in Entry :
         /\ stage[i] = Nothing => log[i] # "none"
         /\ /\ stage[i] = Nothing
            /\ Merges \/ i < undo \/ (i = undo /\ pc \in {"undo", "second"})
            => ~Orig(dest[SlotOf[i]])
  /\ pc \in {"reserve", "return", "restore"} => ~Orig(dest[There])
  /\ pc \in {"claim", "put"} => ~Orig(dest[Here])

\* Directories are never moved aside, nor made where one was.
DirInv ==
  /\ \A i \in Entry : ~WasDir(backup[i])
  /\ \A i \in Entry : log[i] = "made" => ~WasDir(dest[SlotOf[i]])
  /\ pc = "save" => ~WasDir(dest[Here])

IInv ==
  /\ TypeOK
  /\ ControlInv
  /\ BeforeInv
  /\ LogInv
  /\ ApartInv
  /\ PlacedInv
  /\ MovedInv
  /\ DirInv
  /\ OriginalsHeld

-----------------------------------------------------------------------------
\* What each value of an entry is: every value the model writes is of type
\* Content, and only what the call found is an original.
LEMMA Kinds ==
  /\ Nothing \in Content /\ ~Orig(Nothing) /\ ~WasDir(Nothing) /\ ~IsADir(Nothing)
  /\ \A s \in Slots :
       /\ File(s) \in Content /\ Orig(File(s)) /\ File(s) # Nothing
       /\ Dir(s) \in Content /\ Orig(Dir(s)) /\ Dir(s) # Nothing
       /\ AlienFile(s) \in Content /\ ~Orig(AlienFile(s)) /\ ~WasDir(AlienFile(s)) /\ AlienFile(s) # Nothing
       /\ AlienDir(s) \in Content /\ ~Orig(AlienDir(s)) /\ ~WasDir(AlienDir(s)) /\ AlienDir(s) # Nothing
  /\ \A i \in Entry :
       /\ New(i) \in Content /\ ~Orig(New(i)) /\ ~WasDir(New(i)) /\ New(i) # Nothing
       /\ Made(i) \in Content /\ ~Orig(Made(i)) /\ ~WasDir(Made(i)) /\ Made(i) # Nothing
       /\ Hold(i) \in Content /\ ~Orig(Hold(i)) /\ ~WasDir(Hold(i)) /\ Hold(i) # Nothing
  /\ \A c \in Content :
       /\ WasDir(c) => Orig(c) /\ IsADir(c)
       /\ Orig(c) /\ IsADir(c) => WasDir(c)
  BY DEF Content, Nothing, File, Dir, New, Made, Hold, AlienFile, AlienDir,
         Orig, WasDir, IsADir, DirKinds

\* An entry the call found there is an original.
LEMMA BeforeOrig ==
  ASSUME IInv, NEW s \in Slots, before[s] # Nothing PROVE Orig(before[s])
  BY Kinds DEF IInv, BeforeInv

\* The check of every target moves nothing.
LEMMA PreCheckKeeps == IInv /\ PreCheck => IInv'
<1> SUFFICES ASSUME IInv, PreCheck PROVE IInv'
  OBVIOUS
<1>1. TypeOK'
  BY EntriesAssumption
    DEF IInv, TypeOK, Pcs, PreCheck, Goto, RaiseEarly, Fault, NoFault, files, memory,
        report
<1>2. /\ ControlInv' /\ BeforeInv' /\ LogInv' /\ ApartInv'
      /\ PlacedInv' /\ MovedInv' /\ DirInv' /\ OriginalsHeld'
  BY DEF IInv, ControlInv, BeforeInv, LogInv, ApartInv, PlacedInv, MovedInv, DirInv,
         OriginalsHeld, PreCheck, Goto, RaiseEarly, files, memory
<1> QED BY <1>1, <1>2 DEF IInv

\* What is there is refused if this call put it there, so a slot never gets a
\* second record.
LEMMA LookPresentKeeps == IInv /\ LookPresent => IInv'
<1> SUFFICES ASSUME IInv, LookPresent PROVE IInv'
  OBVIOUS
<1>1. TypeOK'
  BY EntriesAssumption
    DEF IInv, TypeOK, Pcs, Entry, LookPresent, Goto, Raise, NextEntry, Here, files, report
<1>2. ControlInv' /\ BeforeInv' /\ OriginalsHeld'
  BY DEF IInv, ControlInv, BeforeInv, OriginalsHeld, LookPresent, Goto, Raise, NextEntry, files
<1>3. LogInv'
  BY EntriesAssumption
    DEF IInv, LogInv, TypeOK, Merges, Entry, LookPresent, Goto, Raise, NextEntry, files
<1>4. ApartInv'
  BY EntriesAssumption
    DEF IInv, ApartInv, LogInv, PlacedInv, TypeOK, Merges, Entry, Here, LookPresent
<1>5. PlacedInv'
  BY EntriesAssumption
    DEF IInv, PlacedInv, LogInv, TypeOK, Merges, Entry, LookPresent, Goto, files
<1>6. MovedInv'
  BY DEF IInv, MovedInv, TypeOK, Merges, LookPresent, Goto, Raise, NextEntry, files
<1>7. DirInv'
  BY EntriesAssumption, Kinds
    DEF IInv, DirInv, TypeOK, Here, Entry, LookPresent, Goto, Raise, NextEntry,
        Replaceable, IsAFile, files
<1> QED BY <1>1, <1>2, <1>3, <1>4, <1>5, <1>6, <1>7 DEF IInv

\* An absent target gets its record; nothing has moved yet.
LEMMA LookAbsentKeeps == IInv /\ LookAbsent => IInv'
<1> SUFFICES ASSUME IInv, LookAbsent PROVE IInv'
  OBVIOUS
<1>1. TypeOK'
  BY DEF IInv, TypeOK, Pcs, LookAbsent, Goto, files, report
<1>2. ControlInv' /\ BeforeInv' /\ OriginalsHeld'
  BY DEF IInv, ControlInv, BeforeInv, OriginalsHeld, LookAbsent, Goto, files
<1>3. LogInv'
  BY DEF IInv, LogInv, TypeOK, Merges, Entry, LookAbsent, Goto, files
<1>4. ApartInv'
  BY DEF IInv, ApartInv, LogInv, PlacedInv, Merges, Entry, Here, LookAbsent
<1>5. PlacedInv'
  BY DEF IInv, PlacedInv, TypeOK, Merges, LookAbsent, Goto, files
<1>6. MovedInv'
  BY DEF IInv, MovedInv, Merges, LookAbsent, Goto, files
<1>7. DirInv'
  BY Kinds DEF IInv, DirInv, Here, LookAbsent, Goto, files
<1> QED BY <1>1, <1>2, <1>3, <1>4, <1>5, <1>6, <1>7 DEF IInv

\* A directory made where nothing is hides no original.
LEMMA MkdirKeeps == IInv /\ Mkdir => IInv'
<1> SUFFICES ASSUME IInv, Mkdir PROVE IInv'
  OBVIOUS
<1>1. TypeOK'
  BY EntriesAssumption, Kinds
    DEF IInv, TypeOK, ControlInv, Pcs, Entry, Mkdir, NextEntry, Here, report
<1>2. ControlInv' /\ BeforeInv' /\ LogInv' /\ ApartInv'
  BY DEF IInv, ControlInv, TypeOK, BeforeInv, LogInv, Merges, Entry, ApartInv, Mkdir, NextEntry
<1>3. PlacedInv'
  BY EntriesAssumption, Kinds
    DEF IInv, PlacedInv, LogInv, ControlInv, TypeOK, Merges, Entry, Here, Mkdir
<1>4. MovedInv'
  BY Kinds DEF IInv, MovedInv, ControlInv, TypeOK, Merges, Entry, Mkdir, NextEntry
<1>5. DirInv'
  BY Kinds DEF IInv, DirInv, TypeOK, ControlInv, Entry, Mkdir, NextEntry
<1>6. OriginalsHeld'
  BY DEF IInv, OriginalsHeld, Mkdir, NextEntry, Free
<1> QED BY <1>1, <1>2, <1>3, <1>4, <1>5, <1>6 DEF IInv

\* Moving an original aside takes it from its own slot to its own place in the
\* backup.
LEMMA SaveKeeps == IInv /\ Save => IInv'
<1> SUFFICES ASSUME IInv, Save PROVE IInv'
  OBVIOUS
<1>1. TypeOK'
  BY EntriesAssumption, Kinds DEF IInv, TypeOK, Pcs, Save, Goto, Here, memory, report
<1>2. ControlInv' /\ BeforeInv' /\ ApartInv'
  BY DEF IInv, ControlInv, BeforeInv, ApartInv, Save, Goto, memory
<1>3. LogInv'
  BY DEF IInv, LogInv, Merges, Save, Goto, memory
<1>4. PlacedInv'
  BY DEF IInv, PlacedInv, ApartInv, LogInv, ControlInv, TypeOK, Merges, Entry, Here,
         Save, Goto, memory
<1>5. MovedInv'
  BY EntriesAssumption, Kinds
    DEF IInv, MovedInv, ControlInv, TypeOK, Merges, Entry, Here, Save, Goto, memory
<1>6. DirInv'
  BY Kinds DEF IInv, DirInv, Save, Goto, memory
<1>7. OriginalsHeld'
  BY DEF IInv, OriginalsHeld, TypeOK, ControlInv, LogInv, Here, Entry, Save, Goto
<1> QED BY <1>1, <1>2, <1>3, <1>4, <1>5, <1>6, <1>7 DEF IInv

\* The exclusive create fails where anything is, so it hides no original.
LEMMA OpenKeeps == IInv /\ Open => IInv'
<1> SUFFICES ASSUME IInv, Open PROVE IInv'
  OBVIOUS
<1>1. TypeOK'
  BY EntriesAssumption, Kinds
    DEF IInv, TypeOK, ControlInv, Pcs, Entry, Open, Goto, Here, memory, report
<1>2. ControlInv' /\ BeforeInv' /\ LogInv' /\ ApartInv'
  BY DEF IInv, ControlInv, BeforeInv, LogInv, Merges, ApartInv, Open, Goto, memory
<1>3. PlacedInv'
  BY DEF IInv, PlacedInv, ApartInv, LogInv, ControlInv, TypeOK, Merges, Entry, Here,
         Open, Goto, memory
<1>4. MovedInv'
  BY EntriesAssumption, Kinds
    DEF IInv, MovedInv, ControlInv, TypeOK, Merges, Entry, Here, Open, Goto, memory
<1>5. DirInv'
  BY Kinds DEF IInv, DirInv, TypeOK, ControlInv, Entry, Open, Goto, memory
<1>6. OriginalsHeld'
  BY DEF IInv, OriginalsHeld, Open, Goto, Free
<1> QED BY <1>1, <1>2, <1>3, <1>4, <1>5, <1>6 DEF IInv

\* Recording the identity of the placeholder changes no entry.
LEMMA ClaimKeeps == IInv /\ Claim => IInv'
<1> SUFFICES ASSUME IInv, Claim PROVE IInv'
  OBVIOUS
<1>1. TypeOK'
  BY DEF IInv, TypeOK, ControlInv, Pcs, Entry, Claim, Goto, files, report
<1>2. /\ ControlInv' /\ BeforeInv' /\ LogInv' /\ ApartInv'
      /\ PlacedInv' /\ MovedInv' /\ DirInv' /\ OriginalsHeld'
  BY DEF IInv, ControlInv, BeforeInv, LogInv, Merges, ApartInv, PlacedInv, Here,
         MovedInv, DirInv, OriginalsHeld, Claim, Goto, files
<1> QED BY <1>1, <1>2 DEF IInv

\* The rename that places a staged file meets no original: it was moved aside
\* or was never there.
LEMMA PutKeeps == IInv /\ Put => IInv'
<1> SUFFICES ASSUME IInv, Put PROVE IInv'
  OBVIOUS
<1>1. TypeOK'
  BY EntriesAssumption, Kinds
    DEF IInv, TypeOK, ControlInv, Pcs, Entry, Put, NextEntry, Here, report
<1>2. ControlInv' /\ BeforeInv' /\ ApartInv'
  BY DEF IInv, ControlInv, BeforeInv, ApartInv, Put, NextEntry
<1>3. LogInv'
  BY DEF IInv, LogInv, TypeOK, Merges, Entry, Put, NextEntry
<1>4. PlacedInv'
  BY EntriesAssumption, Kinds
    DEF IInv, PlacedInv, LogInv, ControlInv, TypeOK, Merges, Entry, Here, Put
<1>5. MovedInv'
  BY Kinds DEF IInv, MovedInv, LogInv, ControlInv, TypeOK, Merges, Entry, Here, Put, NextEntry
<1>6. DirInv'
  BY Kinds DEF IInv, DirInv, TypeOK, ControlInv, Entry, Put, NextEntry
<1>7. OriginalsHeld'
  BY BeforeOrig DEF IInv, OriginalsHeld, MovedInv, Put, NextEntry
<1> QED BY <1>1, <1>2, <1>3, <1>4, <1>5, <1>6, <1>7 DEF IInv

\* A create that fails leaves the files alone.
LEMMA CreateFailsKeeps == IInv /\ CreateFails => IInv'
<1> SUFFICES ASSUME IInv, CreateFails PROVE IInv'
  OBVIOUS
<1>1. TypeOK'
  BY EntriesAssumption
    DEF IInv, TypeOK, ControlInv, Pcs, Entry, CreateFails, Raise, Fault, NoFault, files,
        report
<1>2. ControlInv' /\ BeforeInv' /\ OriginalsHeld'
  BY DEF IInv, ControlInv, BeforeInv, OriginalsHeld, CreateFails, Raise, files
<1>3. LogInv'
  BY DEF IInv, LogInv, Merges, CreateFails, Raise
<1>4. ApartInv'
  BY DEF IInv, ApartInv, CreateFails
<1>5. PlacedInv'
  BY DEF IInv, PlacedInv, Merges, CreateFails, Raise
<1>6. MovedInv'
  BY DEF IInv, MovedInv, LogInv, Merges, CreateFails, Raise, files
<1>7. DirInv'
  BY DEF IInv, DirInv, CreateFails, Raise, files
<1> QED BY <1>1, <1>2, <1>3, <1>4, <1>5, <1>6, <1>7 DEF IInv

\* A call that fails leaves the files alone.
LEMMA CallFailsKeeps == IInv /\ CallFails => IInv'
<1> SUFFICES ASSUME IInv, CallFails PROVE IInv'
  OBVIOUS
<1>1. TypeOK'
  BY EntriesAssumption
    DEF IInv, TypeOK, Pcs, CallFails, Raise, Fault, NoFault, files, memory, report
<1>2. /\ ControlInv' /\ BeforeInv' /\ LogInv' /\ ApartInv'
      /\ PlacedInv' /\ MovedInv' /\ DirInv' /\ OriginalsHeld'
  BY DEF IInv, ControlInv, BeforeInv, LogInv, Merges, ApartInv, PlacedInv, MovedInv,
         DirInv, OriginalsHeld, CallFails, Raise, files, memory
<1> QED BY <1>1, <1>2 DEF IInv

\* An interrupt leaves the files alone.
LEMMA InterruptKeeps == IInv /\ Interrupt => IInv'
<1> SUFFICES ASSUME IInv, Interrupt PROVE IInv'
  OBVIOUS
<1>1. TypeOK'
  BY EntriesAssumption DEF IInv, TypeOK, Pcs, Interrupt, Raise, Fault, files, memory, report
<1>2. /\ ControlInv' /\ BeforeInv' /\ LogInv' /\ ApartInv'
      /\ PlacedInv' /\ MovedInv' /\ DirInv' /\ OriginalsHeld'
  BY DEF IInv, ControlInv, BeforeInv, LogInv, Merges, ApartInv, PlacedInv, MovedInv,
         DirInv, OriginalsHeld, Interrupt, Raise, files, memory
<1> QED BY <1>1, <1>2 DEF IInv

\* The merge is complete only after the last entry; originals need not be held
\* from then on.
LEMMA CompleteKeeps == IInv /\ Complete => IInv'
<1> SUFFICES ASSUME IInv, Complete PROVE IInv'
  OBVIOUS
<1>1. TypeOK'
  BY DEF IInv, TypeOK, Pcs, Complete, files, memory, report
<1>2. ControlInv' /\ BeforeInv' /\ LogInv' /\ ApartInv' /\ PlacedInv' /\ MovedInv' /\ DirInv'
  BY DEF IInv, ControlInv, BeforeInv, LogInv, Merges, ApartInv, PlacedInv, MovedInv,
         DirInv, Complete, files, memory
<1>3. OriginalsHeld'
  BY DEF IInv, OriginalsHeld, Complete
<1> QED BY <1>1, <1>2, <1>3 DEF IInv

\* A record that never took effect is passed over.
LEMMA UndoNoneKeeps == IInv /\ UndoNone => IInv'
<1> SUFFICES ASSUME IInv, UndoNone PROVE IInv'
  OBVIOUS
<1>1. TypeOK'
  BY EntriesAssumption DEF IInv, TypeOK, UndoNone, NextUndo, files, memory, report
<1>2. /\ ControlInv' /\ BeforeInv' /\ LogInv' /\ ApartInv'
      /\ PlacedInv' /\ MovedInv' /\ DirInv' /\ OriginalsHeld'
  BY DEF IInv, ControlInv, TypeOK, BeforeInv, LogInv, Merges, Entry, ApartInv,
         PlacedInv, MovedInv, DirInv, OriginalsHeld, UndoNone, NextUndo, files, memory
<1> QED BY <1>1, <1>2 DEF IInv

\* Only a directory this call made, or an empty one of another process, is
\* removed: not an original.
LEMMA UndoMkdirKeeps == IInv /\ UndoMkdir => IInv'
<1> SUFFICES ASSUME IInv, UndoMkdir PROVE IInv'
  OBVIOUS
<1>1. TypeOK'
  <2>1. hurt' \in BOOLEAN
    BY ZenonT(20) DEF IInv, TypeOK, UndoMkdir
  <2>2. dest' \in [Slots -> Content]
    BY EntriesAssumption, Kinds DEF IInv, TypeOK, UndoMkdir, There, Entry
  <2>3. undo' \in 0 .. N /\ pc' \in Pcs
    BY EntriesAssumption DEF IInv, TypeOK, UndoMkdir, NextUndo, Pcs
  <2> QED BY <2>1, <2>2, <2>3 DEF IInv, TypeOK, UndoMkdir, NextUndo, memory
<1>2. ControlInv' /\ BeforeInv' /\ LogInv' /\ ApartInv'
  BY DEF IInv, ControlInv, BeforeInv, LogInv, Merges, ApartInv, UndoMkdir, NextUndo, memory
<1>3. PlacedInv'
  BY DEF IInv, PlacedInv, Merges, UndoMkdir, NextUndo
<1>4. MovedInv'
  BY EntriesAssumption
    DEF IInv, MovedInv, ApartInv, TypeOK, Merges, Entry, There, UndoMkdir, NextUndo,
        memory
<1>5. DirInv'
  BY EntriesAssumption, Kinds DEF IInv, DirInv, TypeOK, UndoMkdir, NextUndo, memory
<1>6. OriginalsHeld'
  BY Kinds, BeforeOrig
    DEF IInv, OriginalsHeld, DirInv, TypeOK, LogInv, There, Entry, UndoMkdir, NextUndo
<1> QED BY <1>1, <1>2, <1>3, <1>4, <1>5, <1>6 DEF IInv

\* A look that decides what to undo changes no file.
LEMMA UndoMoveKeeps == IInv /\ UndoMove => IInv'
<1> SUFFICES ASSUME IInv, UndoMove PROVE IInv'
  OBVIOUS
<1>1. TypeOK'
  BY DEF IInv, TypeOK, Pcs, UndoMove, Goto, files, memory, report
<1>2. /\ ControlInv' /\ BeforeInv' /\ LogInv' /\ ApartInv'
      /\ PlacedInv' /\ MovedInv' /\ DirInv' /\ OriginalsHeld'
  BY DEF IInv, ControlInv, TypeOK, BeforeInv, LogInv, Merges, Entry, ApartInv,
         PlacedInv, MovedInv, DirInv, There, OriginalsHeld, UndoMove, Goto, files, memory
<1> QED BY <1>1, <1>2 DEF IInv

\* Putting a placeholder in staging touches neither destination nor backup.
LEMMA ReserveKeeps == IInv /\ Reserve => IInv'
<1> SUFFICES ASSUME IInv, Reserve PROVE IInv'
  OBVIOUS
<1>1. TypeOK'
  BY Kinds DEF IInv, TypeOK, Pcs, Reserve, Goto, memory, report
<1>2. ControlInv' /\ BeforeInv' /\ ApartInv' /\ PlacedInv' /\ DirInv' /\ OriginalsHeld'
  BY DEF IInv, ControlInv, BeforeInv, ApartInv, PlacedInv, Merges, DirInv,
         OriginalsHeld, Reserve, Goto, memory
<1>3. LogInv'
  BY DEF IInv, LogInv, Merges, Reserve, Goto, memory
<1>4. MovedInv'
  BY Kinds DEF IInv, MovedInv, Merges, There, Reserve, Goto, memory
<1> QED BY <1>1, <1>2, <1>3, <1>4 DEF IInv

\* Moving the new file back into staging takes away no original.
LEMMA ReturnKeeps == IInv /\ Return => IInv'
<1> SUFFICES ASSUME IInv, Return PROVE IInv'
  OBVIOUS
<1>1. TypeOK'
  BY EntriesAssumption, Kinds DEF IInv, TypeOK, Pcs, Return, Goto, There, memory, report
<1>2. ControlInv' /\ BeforeInv' /\ ApartInv'
  BY DEF IInv, ControlInv, BeforeInv, ApartInv, Return, Goto, memory
<1>3. LogInv'
  BY DEF IInv, LogInv, Merges, Return, Goto, memory
<1>4. PlacedInv'
  BY DEF IInv, PlacedInv, Merges, Return, Goto
<1>5. MovedInv'
  BY Kinds DEF IInv, MovedInv, LogInv, Merges, There, Return, Goto, memory
<1>6. DirInv'
  BY Kinds DEF IInv, DirInv, Return, Goto, memory
<1>7. OriginalsHeld'
  BY BeforeOrig DEF IInv, OriginalsHeld, MovedInv, Return, Goto
<1> QED BY <1>1, <1>2, <1>3, <1>4, <1>5, <1>6, <1>7 DEF IInv

\* The second look at the target removes at most what this call placed.
LEMMA SecondKeeps == IInv /\ Second => IInv'
<1> SUFFICES ASSUME IInv, Second PROVE IInv'
  OBVIOUS
<1>1. TypeOK'
  BY EntriesAssumption, Kinds
    DEF IInv, TypeOK, ControlInv, Pcs, Second, Goto, NextUndo, memory, report
<1>2. ControlInv' /\ BeforeInv' /\ LogInv' /\ ApartInv'
  BY DEF IInv, ControlInv, BeforeInv, LogInv, Merges, ApartInv, Second, Goto, NextUndo, memory
<1>3. PlacedInv'
  BY DEF IInv, PlacedInv, Merges, Second, Goto, NextUndo
<1>4. MovedInv'
  BY EntriesAssumption, Kinds
    DEF IInv, MovedInv, ApartInv, ControlInv, TypeOK, Merges, Entry, There, Second, Goto,
        NextUndo, memory
<1>5. DirInv'
  <2>1. dest' = dest \/ dest' = [dest EXCEPT ![There] = Nothing]
    BY DEF Second
  <2> QED BY <2>1, EntriesAssumption, Kinds DEF IInv, DirInv, TypeOK, Second, Goto, NextUndo, memory
<1>6. OriginalsHeld'
  BY Kinds, BeforeOrig DEF IInv, OriginalsHeld, TypeOK, Second, Goto, NextUndo
<1> QED BY <1>1, <1>2, <1>3, <1>4, <1>5, <1>6 DEF IInv

\* The restore meets no original and puts back the one of its own slot.
LEMMA RestoreKeeps == IInv /\ Restore => IInv'
<1> SUFFICES ASSUME IInv, Restore PROVE IInv'
  OBVIOUS
<1>1. TypeOK'
  BY EntriesAssumption, Kinds
    DEF IInv, TypeOK, ControlInv, Pcs, Entry, Restore, NextUndo, There, memory, report
<1>2. ControlInv' /\ BeforeInv' /\ ApartInv'
  BY DEF IInv, ControlInv, BeforeInv, ApartInv, Restore, NextUndo, memory
<1>3. LogInv'
  BY DEF IInv, LogInv, Merges, Restore, NextUndo
<1>4. PlacedInv'
  BY DEF IInv, PlacedInv, Merges, Restore, NextUndo
<1>5. MovedInv'
  BY DEF IInv, MovedInv, ApartInv, LogInv, TypeOK, Merges, Entry, There, Restore,
         NextUndo, memory
<1>6. DirInv'
  BY Kinds DEF IInv, DirInv, TypeOK, ControlInv, Entry, Restore, NextUndo, memory
<1>7. OriginalsHeld'
  BY BeforeOrig DEF IInv, OriginalsHeld, MovedInv, TypeOK, There, Restore, NextUndo
<1> QED BY <1>1, <1>2, <1>3, <1>4, <1>5, <1>6, <1>7 DEF IInv

\* A failed attempt of the undo leaves destination and backup alone.
LEMMA AttemptFailsKeeps == IInv /\ AttemptFails => IInv'
<1> SUFFICES ASSUME IInv, AttemptFails PROVE IInv'
  OBVIOUS
<1>1. TypeOK'
  BY EntriesAssumption, Kinds DEF IInv, TypeOK, Pcs, AttemptFails, Fault, NoFault, memory
<1>2. ControlInv' /\ BeforeInv' /\ ApartInv' /\ PlacedInv' /\ DirInv' /\ OriginalsHeld'
  BY DEF IInv, ControlInv, BeforeInv, ApartInv, PlacedInv, Merges, DirInv,
         OriginalsHeld, AttemptFails, memory
<1>3. LogInv'
  BY DEF IInv, LogInv, Merges, AttemptFails, memory
<1>4. MovedInv'
  BY EntriesAssumption
    DEF IInv, MovedInv, LogInv, TypeOK, Merges, Entry, There, AttemptFails, memory
<1> QED BY <1>1, <1>2, <1>3, <1>4 DEF IInv

\* An interrupt of the undo leaves the files alone.
LEMMA CutShortKeeps == IInv /\ CutShort => IInv'
<1> SUFFICES ASSUME IInv, CutShort PROVE IInv'
  OBVIOUS
<1>1. TypeOK'
  BY EntriesAssumption DEF IInv, TypeOK, Pcs, CutShort, Fault, files, memory
<1>2. /\ ControlInv' /\ BeforeInv' /\ LogInv' /\ ApartInv'
      /\ PlacedInv' /\ MovedInv' /\ DirInv' /\ OriginalsHeld'
  BY DEF IInv, ControlInv, BeforeInv, LogInv, Merges, ApartInv, PlacedInv, MovedInv,
         DirInv, OriginalsHeld, CutShort, files, memory
<1> QED BY <1>1, <1>2 DEF IInv

\* The end of the undo leaves the files alone.
LEMMA UndoDoneKeeps == IInv /\ UndoDone => IInv'
<1> SUFFICES ASSUME IInv, UndoDone PROVE IInv'
  OBVIOUS
<1>1. TypeOK'
  BY DEF IInv, TypeOK, Pcs, UndoDone, Goto, files, memory, report
<1>2. /\ ControlInv' /\ BeforeInv' /\ LogInv' /\ ApartInv'
      /\ PlacedInv' /\ MovedInv' /\ DirInv' /\ OriginalsHeld'
  BY DEF IInv, ControlInv, BeforeInv, LogInv, Merges, ApartInv, PlacedInv, MovedInv,
         DirInv, OriginalsHeld, UndoDone, Goto, files, memory
<1> QED BY <1>1, <1>2 DEF IInv

\* Reporting leaves the files alone.
LEMMA ReportKeeps == IInv /\ Report => IInv'
<1> SUFFICES ASSUME IInv, Report PROVE IInv'
  OBVIOUS
<1>1. TypeOK'
  BY DEF IInv, TypeOK, Pcs, Report, Goto, Added, files
<1>2. ControlInv' /\ BeforeInv' /\ OriginalsHeld'
  BY DEF IInv, ControlInv, BeforeInv, OriginalsHeld, Report, Goto, files
<1>3. LogInv'
  BY DEF IInv, LogInv, Merges, Report, Goto
<1>4. ApartInv'
  BY DEF IInv, ApartInv, Report
<1>5. PlacedInv'
  BY DEF IInv, PlacedInv, Report
<1>6. MovedInv'
  BY DEF IInv, MovedInv, Merges, Report, Goto
<1>7. DirInv'
  BY DEF IInv, DirInv, Report, Goto, files
<1> QED BY <1>1, <1>2, <1>3, <1>4, <1>5, <1>6, <1>7 DEF IInv

\* The backup directory goes only when it is empty.
LEMMA DiscardBackupKeeps == IInv /\ DiscardBackup => IInv'
<1> SUFFICES ASSUME IInv, DiscardBackup PROVE IInv'
  OBVIOUS
<1>1. TypeOK'
  <2>1. faults' \in 0 .. MaxFaults
    BY EntriesAssumption DEF IInv, TypeOK, DiscardBackup, Fault, NoFault
  <2>2. toldBackup' \in BOOLEAN
    BY DEF IInv, TypeOK, DiscardBackup
  <2>3. pc' \in Pcs
    BY DEF DiscardBackup, Goto, Pcs
  <2> QED BY <2>1, <2>2, <2>3 DEF IInv, TypeOK, DiscardBackup, Goto, files, memory
<1>2. /\ ControlInv' /\ BeforeInv' /\ LogInv' /\ ApartInv'
      /\ PlacedInv' /\ MovedInv' /\ DirInv' /\ OriginalsHeld'
  BY DEF IInv, ControlInv, BeforeInv, LogInv, Merges, ApartInv, PlacedInv, MovedInv,
         DirInv, OriginalsHeld, DiscardBackup, Goto, files, memory
<1> QED BY <1>1, <1>2 DEF IInv

\* Removing staging touches neither destination nor backup.
LEMMA SweepKeeps == IInv /\ Sweep => IInv'
<1> SUFFICES ASSUME IInv, Sweep PROVE IInv'
  OBVIOUS
<1>1. TypeOK'
  <2>1. stage' \in [Entry -> Content]
    BY Kinds DEF IInv, TypeOK, Sweep
  <2>2. faults' \in 0 .. MaxFaults
    BY EntriesAssumption DEF IInv, TypeOK, Sweep, Fault, NoFault
  <2> QED BY <2>1, <2>2 DEF IInv, TypeOK, Sweep, Goto, Pcs, memory, report
<1>2. ControlInv' /\ BeforeInv' /\ ApartInv' /\ PlacedInv' /\ DirInv' /\ OriginalsHeld'
  BY DEF IInv, ControlInv, BeforeInv, ApartInv, PlacedInv, Merges, DirInv,
         OriginalsHeld, Sweep, Goto, memory
<1>3. LogInv'
  BY DEF IInv, LogInv, Merges, Sweep, Goto
<1>4. MovedInv'
  BY DEF IInv, MovedInv, Merges, Sweep, Goto
<1> QED BY <1>1, <1>2, <1>3, <1>4 DEF IInv

\* The backup goes once the merge is complete.
LEMMA CommitKeeps == IInv /\ Commit => IInv'
<1> SUFFICES ASSUME IInv, Commit PROVE IInv'
  OBVIOUS
<1>1. TypeOK'
  <2>1. backup' \in [Entry -> Content]
    BY Kinds DEF IInv, TypeOK, Commit
  <2>2. faults' \in 0 .. MaxFaults
    BY EntriesAssumption DEF IInv, TypeOK, Commit, Fault, NoFault
  <2> QED BY <2>1, <2>2 DEF IInv, TypeOK, Commit, Goto, Pcs, memory, report
<1>2. ControlInv' /\ BeforeInv' /\ ApartInv' /\ PlacedInv' /\ MovedInv'
  BY DEF IInv, ControlInv, BeforeInv, ApartInv, PlacedInv, Merges, MovedInv, Commit,
         Goto, memory
<1>3. LogInv'
  BY DEF IInv, LogInv, Merges, Commit, Goto
<1>4. DirInv'
  BY Kinds DEF IInv, DirInv, Commit, Goto, memory
<1>5. OriginalsHeld'
  BY DEF IInv, OriginalsHeld, ControlInv, Commit, Goto
<1> QED BY <1>1, <1>2, <1>3, <1>4, <1>5 DEF IInv

\* Staging goes once the merge is complete.
LEMMA TidyKeeps == IInv /\ Tidy => IInv'
<1> SUFFICES ASSUME IInv, Tidy PROVE IInv'
  OBVIOUS
<1>1. TypeOK'
  BY EntriesAssumption, Kinds DEF IInv, TypeOK, Pcs, Tidy, Goto, Fault, NoFault, memory, report
<1>2. ControlInv' /\ BeforeInv' /\ ApartInv' /\ PlacedInv'
  BY DEF IInv, ControlInv, BeforeInv, ApartInv, PlacedInv, Merges, Tidy, Goto, memory
<1>3. LogInv'
  BY DEF IInv, LogInv, Merges, Tidy, Goto
<1>4. MovedInv'
  BY DEF IInv, MovedInv, Merges, Tidy, Goto
<1>5. DirInv'
  BY Kinds DEF IInv, DirInv, Tidy, Goto, memory
<1>6. OriginalsHeld'
  BY DEF IInv, OriginalsHeld, ControlInv, Tidy, Goto
<1> QED BY <1>1, <1>2, <1>3, <1>4, <1>5, <1>6 DEF IInv

\* An interrupted cleanup has removed nothing an incomplete merge needs.
LEMMA CleanupInterruptedKeeps == IInv /\ CleanupInterrupted => IInv'
<1> SUFFICES ASSUME IInv, CleanupInterrupted PROVE IInv'
  OBVIOUS
<1>1. TypeOK'
  BY EntriesAssumption DEF IInv, TypeOK, Pcs, CleanupInterrupted, Fault, files, memory
<1>2. /\ ControlInv' /\ BeforeInv' /\ LogInv' /\ ApartInv'
      /\ PlacedInv' /\ MovedInv' /\ DirInv' /\ OriginalsHeld'
  BY DEF IInv, ControlInv, BeforeInv, LogInv, Merges, ApartInv, PlacedInv, MovedInv,
         DirInv, OriginalsHeld, CleanupInterrupted, files, memory
<1> QED BY <1>1, <1>2 DEF IInv

\* Another process creates entries only where nothing is.
LEMMA ForeignKeeps == IInv /\ Foreign => IInv'
<1> SUFFICES ASSUME IInv, Foreign PROVE IInv'
  OBVIOUS
<1>1. TypeOK'
  BY EntriesAssumption, Kinds DEF IInv, TypeOK, Foreign, memory, control, report
<1>2. ControlInv' /\ BeforeInv' /\ LogInv' /\ ApartInv'
  BY DEF IInv, ControlInv, BeforeInv, LogInv, Merges, ApartInv, Foreign, memory, control
<1>3. PlacedInv'
  BY DEF IInv, PlacedInv, Merges, Foreign, Free, memory, control
<1>4. MovedInv'
  BY Kinds DEF IInv, MovedInv, Merges, Here, There, Foreign, memory, control
<1>5. DirInv'
  BY Kinds DEF IInv, DirInv, Here, Foreign, memory, control
<1>6. OriginalsHeld'
  BY DEF IInv, OriginalsHeld, Foreign, Free, control
<1> QED BY <1>1, <1>2, <1>3, <1>4, <1>5, <1>6 DEF IInv

-----------------------------------------------------------------------------
(* A completed merge is whole.                                             *)

\* Entry i is at its slot, and what is there is remembered.
Settled(i) ==
  /\ dest[SlotOf[i]] # Nothing /\ dest[SlotOf[i]] \in placed
  /\ IF IsDir[i] THEN IsADir(dest[SlotOf[i]]) ELSE dest[SlotOf[i]] = New(i)

Forward == pc = "check" \/ Merges \/ complete

\* Every entry before the one in hand is settled, at another slot; what is in
\* no entry's way is as it was.
WholeInv ==
  /\ complete => pc \in {"commit", "tidy", "done"} /\ idx = N + 1
  /\ pc = "check" => idx = 1
  /\ pc = "mkdir" => IsDir[idx]
  /\ pc \in {"save", "open", "claim", "put"} => ~IsDir[idx]
  /\ Forward => \A i \in Entry : i < idx => Settled(i)
  /\ pc \in {"mkdir", "save", "open", "claim", "put"} =>
       \A i \in Entry : i < idx => SlotOf[i] # Here
  /\ Forward => \A s \in Slots :
       (\A i \in Entry : SlotOf[i] # s) /\ before[s] # Nothing => dest[s] = before[s]

\* What a step of the merge changes it changes at the slot of the entry in
\* hand.
LEMMA MergingKeepsWhole == IInv /\ WholeInv /\ Merging => WholeInv'
<1> SUFFICES ASSUME IInv, WholeInv, Merging PROVE WholeInv'
  OBVIOUS
<1>0. TypeOK /\ ControlInv
  BY DEF IInv
<1>1. CASE PreCheck
  BY <1>0, <1>1, EntriesAssumption
    DEF WholeInv, Forward, Merges, Settled, TypeOK, Entry, PreCheck, Goto, RaiseEarly,
        files, memory
<1>2. CASE LookPresent
  <2>1. CASE pc' = "undo"
    BY <1>0, <1>2, <2>1 DEF WholeInv, Forward, Merges, LookPresent, Raise, Goto, NextEntry
  <2>2. CASE pc' = "save"
    BY <1>0, <1>2, <2>2, EntriesAssumption
      DEF WholeInv, Forward, Merges, Settled, TypeOK, Entry, Here, LookPresent, Raise, Goto,
          NextEntry, files
  <2>3. CASE pc' = "look"
    <3>1. /\ IsDir[idx] /\ IsADir(dest[Here]) /\ dest[Here] # Nothing
          /\ idx' = idx + 1 /\ placed' = placed \cup {dest[Here]}
          /\ UNCHANGED <<dest, before, complete>>
      BY <1>2, <2>3 DEF LookPresent, Raise, Goto, NextEntry, Replaceable, Here, files
    <3>2. \A i \in Entry : i < idx' => i < idx \/ i = idx
      BY <1>0, <3>1 DEF TypeOK, Entry
    <3> QED BY <1>0, <1>2, <2>3, <3>1, <3>2 DEF WholeInv, Forward, Merges, Settled, Here, LookPresent
  <2> QED BY <1>2, <2>1, <2>2, <2>3 DEF LookPresent, Raise, Goto, NextEntry
<1>3. CASE LookAbsent
  BY <1>0, <1>3
    DEF WholeInv, Forward, Merges, Settled, TypeOK, Entry, Here, LookAbsent, Goto, files
<1>4. CASE Mkdir
  <2>1. \A i \in Entry : i < idx' => i < idx \/ i = idx
    BY <1>0, <1>4 DEF TypeOK, Entry, Mkdir, NextEntry
  <2>2. \A s \in Slots \ {Here} : dest'[s] = dest[s]
    BY <1>0, <1>4 DEF TypeOK, Mkdir
  <2>3. Here \in Slots /\ idx \in Entry /\ dest'[Here] = Made(idx)
    BY <1>0, <1>4, EntriesAssumption DEF TypeOK, Mkdir, Here, Entry, ControlInv
  <2>4. IsADir(Made(idx)) /\ Made(idx) # Nothing
    BY <2>3, Kinds DEF IsADir, Made, DirKinds
  <2> QED BY <1>0, <1>4, <2>1, <2>2, <2>3, <2>4, EntriesAssumption
    DEF WholeInv, Forward, Merges, Settled, Here, Mkdir, NextEntry
<1>5. CASE Save \/ Open
  <2>1. \A s \in Slots \ {Here} : dest'[s] = dest[s]
    BY <1>0, <1>5 DEF TypeOK, Save, Open
  <2>2. Here \in Slots /\ idx \in Entry
    BY <1>0, <1>5, EntriesAssumption DEF TypeOK, Save, Open, Here, Entry, ControlInv
  <2> QED BY <1>0, <1>5, <2>1, <2>2, EntriesAssumption
    DEF WholeInv, Forward, Merges, Settled, Here, Save, Open, Goto, memory
<1>6. CASE Claim
  BY <1>6 DEF WholeInv, Forward, Merges, Settled, Here, Claim, Goto, files
<1>7. CASE Put
  <2>1. \A i \in Entry : i < idx' => i < idx \/ i = idx
    BY <1>0, <1>7 DEF TypeOK, Entry, Put, NextEntry
  <2>2. \A s \in Slots \ {Here} : dest'[s] = dest[s]
    BY <1>0, <1>7 DEF TypeOK, Put
  <2>3. Here \in Slots /\ idx \in Entry /\ dest'[Here] = New(idx)
    BY <1>0, <1>7, EntriesAssumption DEF TypeOK, Put, Here, Entry, ControlInv
  <2>4. New(idx) # Nothing
    BY <2>3, Kinds
  <2> QED BY <1>0, <1>7, <2>1, <2>2, <2>3, <2>4, EntriesAssumption
    DEF WholeInv, Forward, Merges, Settled, Here, Put, NextEntry
<1>8. CASE CreateFails \/ CallFails \/ Interrupt
  BY <1>8
    DEF WholeInv, Forward, Merges, CreateFails, CallFails, Interrupt, Raise
<1>9. CASE Complete
  BY <1>9 DEF WholeInv, Forward, Merges, Settled, Complete, files, memory
<1> QED BY <1>1, <1>2, <1>3, <1>4, <1>5, <1>6, <1>7, <1>8, <1>9 DEF Merging

\* The undo runs only where the merge is not complete; the clean-up and the
\* other process disturb no entry that is there.
LEMMA OthersKeepWhole ==
  IInv /\ WholeInv /\ (Undoing \/ Ending \/ Foreign \/ UNCHANGED vars) => WholeInv'
<1> SUFFICES ASSUME IInv, WholeInv, Undoing \/ Ending \/ Foreign \/ UNCHANGED vars
             PROVE WholeInv'
  OBVIOUS
<1>1. CASE Undoing
  BY <1>1
    DEF WholeInv, Forward, Merges, Undoing, UndoNone, UndoMkdir, UndoMove, Reserve, Return,
        Second, Restore, AttemptFails, CutShort, UndoDone, Report, Goto, NextUndo
<1>2. CASE Ending
  BY <1>2
    DEF WholeInv, Forward, Merges, Settled, Ending, DiscardBackup, Sweep, Commit, Tidy,
        CleanupInterrupted, Goto, files, memory
<1>3. CASE Foreign
  <2>1. \A s \in Slots : dest[s] # Nothing => dest'[s] = dest[s]
    BY <1>3 DEF Foreign, Free, IInv, TypeOK
  <2> QED BY <1>3, <2>1, EntriesAssumption
    DEF WholeInv, Forward, Merges, Settled, Here, Foreign, memory, control
<1>4. CASE UNCHANGED vars
  BY <1>4 DEF WholeInv, Forward, Merges, Settled, Here, vars, files, memory, control
<1> QED BY <1>1, <1>2, <1>3, <1>4

-----------------------------------------------------------------------------
(* The theorems.                                                           *)

\* Before the merge begins, whatever the destination holds, nothing has moved.
LEMMA InitIInv == Init => IInv
<1> SUFFICES ASSUME Init PROVE IInv
  OBVIOUS
<1>1. TypeOK
  <2>1. before \in [Slots -> Content] /\ dest \in [Slots -> Content]
    BY DEF Init, Content
  <2>2. stage \in [Entry -> Content] /\ backup \in [Entry -> Content]
    BY Kinds DEF Init
  <2>3. idx \in 1 .. N + 1 /\ undo \in 0 .. N /\ faults \in 0 .. MaxFaults /\ aliens \in 0 .. MaxForeign
    BY EntriesAssumption DEF Init
  <2>4. complete \in BOOLEAN /\ hurt \in BOOLEAN /\ toldBackup \in BOOLEAN
    BY Zenon DEF Init
  <2> QED BY <2>1, <2>2, <2>3, <2>4 DEF Init, TypeOK, Pcs
<1>2. ControlInv /\ BeforeInv
  BY EntriesAssumption, Kinds DEF Init, ControlInv, BeforeInv
<1>3. LogInv /\ ApartInv
  BY EntriesAssumption, Kinds DEF Init, LogInv, ApartInv, Merges
<1>4. PlacedInv /\ MovedInv
  BY EntriesAssumption, Kinds DEF Init, PlacedInv, MovedInv, Merges
<1>5. DirInv
  BY EntriesAssumption, Kinds DEF Init, DirInv
<1>6. OriginalsHeld
  BY EntriesAssumption, Kinds DEF Init, OriginalsHeld
<1> QED BY <1>1, <1>2, <1>3, <1>4, <1>5, <1>6 DEF IInv

\* Every step, of this call or of the other process, keeps the invariant.
LEMMA NextKeeps == IInv /\ [Next]_vars => IInv'
<1> SUFFICES ASSUME IInv, [Next]_vars PROVE IInv'
  OBVIOUS
<1>1. CASE Merging
  BY <1>1, PreCheckKeeps, LookPresentKeeps, LookAbsentKeeps, MkdirKeeps, SaveKeeps,
     OpenKeeps, ClaimKeeps, PutKeeps, CreateFailsKeeps, CallFailsKeeps, InterruptKeeps,
     CompleteKeeps DEF Merging
<1>2. CASE Undoing
  BY <1>2, UndoNoneKeeps, UndoMkdirKeeps, UndoMoveKeeps, ReserveKeeps, ReturnKeeps,
     SecondKeeps, RestoreKeeps, AttemptFailsKeeps, CutShortKeeps, UndoDoneKeeps,
     ReportKeeps DEF Undoing
<1>3. CASE Ending
  BY <1>3, DiscardBackupKeeps, SweepKeeps, CommitKeeps, TidyKeeps,
     CleanupInterruptedKeeps DEF Ending
<1>4. CASE Foreign
  BY <1>4, ForeignKeeps
<1>5. CASE UNCHANGED vars
  BY <1>5 DEF vars, files, memory, control, report, IInv, TypeOK, ControlInv, BeforeInv,
     LogInv, ApartInv, PlacedInv, MovedInv, DirInv, OriginalsHeld, Merges, Here, There
<1> QED BY <1>1, <1>2, <1>3, <1>4, <1>5 DEF Next, Step, Done

\* The invariant holds in every reachable state.
THEOREM Inductive == Spec => []IInv
  BY InitIInv, NextKeeps, PTL DEF Spec

\* The state of the merge has its type in every reachable state.
THEOREM TypeCorrect == Spec => []TypeOK
<1>1. IInv => TypeOK
  BY DEF IInv
<1> QED BY Inductive, <1>1, PTL

\* Until every entry is in place, each entry the call found is in the
\* destination or in the backup, whatever failed or was interrupted.
THEOREM NoOriginalLost == Spec => []OriginalsHeld
<1>1. IInv => OriginalsHeld
  BY DEF IInv
<1> QED BY Inductive, <1>1, PTL

\* A merge that completed put every entry at its own slot and kept everything
\* else, whatever names reach one slot: a second name of a slot is refused
\* before it replaces what the first put there.
THEOREM CompletedIsWhole == Spec => []Whole
<1>1. Init => WholeInv
  BY EntriesAssumption DEF Init, WholeInv, Forward, Merges, Entry
<1>2. IInv /\ WholeInv /\ [Next]_vars => WholeInv'
  BY MergingKeepsWhole, OthersKeepWhole DEF Next, Step, Done
<1>3. IInv /\ WholeInv => Whole
  BY EntriesAssumption DEF WholeInv, Forward, Whole, Settled, Entry
<1> QED BY Inductive, <1>1, <1>2, <1>3, PTL DEF Spec


-----------------------------------------------------------------------------
(* An all-or-nothing update.                                               *)

\* Staging is swept only when nothing is left aside.
SweptInv == pc = "sweep" => \A i \in Entry : backup[i] = Nothing

EndInv == IInv /\ WholeInv /\ SweptInv

\* Nothing leaves the backup, or enters it, between its removal and the sweep.
LEMMA SweptStep == EndInv /\ [Next]_vars => SweptInv'
<1> SUFFICES ASSUME EndInv, [Next]_vars, pc' = "sweep" PROVE \A i \in Entry : backup'[i] = Nothing
  BY DEF SweptInv
<1>1. CASE Merging
  BY <1>1 DEF Merging, PreCheck, LookPresent, LookAbsent, Mkdir, Save, Open, Claim, Put,
     CreateFails, CallFails, Interrupt, Complete, Goto, Raise, RaiseEarly, NextEntry
<1>2. CASE Undoing
  BY <1>2 DEF Undoing, UndoNone, UndoMkdir, UndoMove, Reserve, Return, Second, Restore,
     AttemptFails, CutShort, UndoDone, Report, Goto, NextUndo
<1>3. CASE Ending
  BY <1>3 DEF Ending, DiscardBackup, Sweep, Commit, Tidy, CleanupInterrupted, Goto, files
<1>4. CASE Foreign \/ UNCHANGED vars
  BY <1>4 DEF EndInv, SweptInv, Foreign, control, vars, files
<1> QED BY <1>1, <1>2, <1>3, <1>4 DEF Next, Step, Done

\* The invariants hold in every reachable state.
LEMMA EndInductive == Spec => []EndInv
<1>1. Init => EndInv
  BY InitIInv, EntriesAssumption DEF EndInv, SweptInv, Init, WholeInv, Forward, Merges, Entry
<1>2. EndInv /\ [Next]_vars => EndInv'
  BY NextKeeps, SweptStep, MergingKeepsWhole, OthersKeepWhole DEF EndInv, Next, Step, Done
<1> QED BY <1>1, <1>2, PTL DEF Spec

\* Until every entry is in place, an original that is not in its slot is aside.
LEMMA HereOrAside ==
  ASSUME OriginalsHeld, ~complete, NEW s \in Slots
  PROVE  WhereOriginal(s) = IF dest[s] = before[s] \/ before[s] = Nothing THEN "dest" ELSE "aside"
BY DEF WhereOriginal, OriginalsHeld

LEMMA HereOrAsideAfter ==
  ASSUME OriginalsHeld', ~complete', NEW s \in Slots
  PROVE  WhereOriginal(s)' =
           IF dest'[s] = before'[s] \/ before'[s] = Nothing THEN "dest" ELSE "aside"
BY DEF WhereOriginal, OriginalsHeld

\* While the call runs, a step that touches one slot moves one original, or
\* none.
LEMMA OneSlot ==
  ASSUME EndInv, EndInv', NEW s \in Slots, \A t \in Slots \ {s} : dest'[t] = dest[t],
         before' = before, ~complete, ~complete', pc # "done", pc' # "done"
  PROVE  [Abstract!Next]_Abstract!vars
<1> DEFINE place == [t \in Slots |-> WhereOriginal(t)]
           after == [t \in Slots |-> WhereOriginal(t)']
<1>1. Outcome = "running" /\ Outcome' = "running"
  BY DEF Outcome
<1>2. \A t \in Slots \ {s} : after[t] = place[t]
  BY HereOrAside, HereOrAsideAfter DEF EndInv, IInv
<1>3. place[s] \in {"dest", "aside"} /\ after[s] \in {"dest", "aside"}
  BY HereOrAside, HereOrAsideAfter DEF EndInv, IInv
<1>4. after = [place EXCEPT ![s] = after[s]]
  BY <1>2
<1> HIDE DEF place, after
<1>5. CASE after[s] = place[s]
  <2>1. after = place
    BY <1>2, <1>5 DEF place, after
  <2> QED BY <1>1, <2>1 DEF place, after, Abstract!vars
<1>6. CASE place[s] = "dest" /\ after[s] = "aside"
  <2>1. Abstract!MoveAside(s)
    BY <1>1, <1>4, <1>6 DEF Abstract!MoveAside, place, after
  <2> QED BY <2>1 DEF Abstract!Next
<1>7. CASE place[s] = "aside" /\ after[s] = "dest"
  <2>1. Abstract!PutBack(s)
    BY <1>1, <1>4, <1>7 DEF Abstract!PutBack, place, after
  <2> QED BY <2>1 DEF Abstract!Next
<1> QED BY <1>3, <1>5, <1>6, <1>7

\* While the merge goes on, it moves at most one original.
LEMMA MergingMoves ==
  ASSUME EndInv, EndInv', Merging
  PROVE  [Abstract!Next]_Abstract!vars
<1>0. ~complete /\ pc # "done"
  BY DEF EndInv, WholeInv, Merging, PreCheck, LookPresent, LookAbsent, Mkdir, Save, Open,
     Claim, Put, CreateFails, CallFails, Interrupt, Complete
<1>1. CASE Complete
  <2>1. Outcome = "running" /\ Outcome' = "updated"
    BY <1>0, <1>1 DEF Outcome, Complete
  <2>2. \A t \in Slots : WhereOriginal(t)' = WhereOriginal(t)
    BY <1>1 DEF WhereOriginal, Complete, files
  <2>3. Abstract!Update
    BY <2>1, <2>2 DEF Abstract!Update
  <2> QED BY <2>3 DEF Abstract!Next
<1>2. CASE ~Complete
  <2>1. ~complete' /\ pc' # "done" /\ before' = before
    BY <1>0, <1>2 DEF Merging, PreCheck, LookPresent, LookAbsent, Mkdir, Save, Open, Claim,
       Put, CreateFails, CallFails, Interrupt, Goto, Raise, RaiseEarly, NextEntry
  <2>2. \A t \in Slots \ {Here} : dest'[t] = dest[t]
    BY <1>2 DEF EndInv, IInv, TypeOK, Merging, PreCheck, LookPresent, LookAbsent, Mkdir, Save,
       Open, Claim, Put, CreateFails, CallFails, Interrupt, files
  <2>3. CASE Here \in Slots
    BY <1>0, <2>1, <2>2, <2>3, OneSlot
  <2>4. CASE Here \notin Slots
    <3>1. \A t \in Slots : dest'[t] = dest[t]
      BY <2>2, <2>4
    <3>2. \A t \in Slots : WhereOriginal(t)' = WhereOriginal(t)
      BY <1>0, <2>1, <3>1, HereOrAside, HereOrAsideAfter DEF EndInv, IInv
    <3>3. Outcome' = Outcome
      BY <1>0, <2>1 DEF Outcome
    <3> QED BY <3>2, <3>3 DEF Abstract!vars
  <2> QED BY <2>3, <2>4
<1> QED BY <1>1, <1>2

\* So does the undo.
LEMMA UndoingMoves ==
  ASSUME EndInv, EndInv', Undoing
  PROVE  [Abstract!Next]_Abstract!vars
<1>1. ~complete /\ pc # "done" /\ ~complete' /\ pc' # "done" /\ before' = before
  BY DEF EndInv, WholeInv, Undoing, UndoNone, UndoMkdir, UndoMove, Reserve, Return, Second,
     Restore, AttemptFails, CutShort, UndoDone, Report, Goto, NextUndo
<1>2. \A t \in Slots \ {There} : dest'[t] = dest[t]
  BY DEF EndInv, IInv, TypeOK, Undoing, UndoNone, UndoMkdir, UndoMove, Reserve, Return,
     Second, Restore, AttemptFails, CutShort, UndoDone, Report, files
<1>3. CASE There \in Slots
  BY <1>1, <1>2, <1>3, OneSlot
<1>4. CASE There \notin Slots
  <2>1. \A t \in Slots : dest'[t] = dest[t]
    BY <1>2, <1>4
  <2>2. \A t \in Slots : WhereOriginal(t)' = WhereOriginal(t)
    BY <1>1, <2>1, HereOrAside, HereOrAsideAfter DEF EndInv, IInv
  <2>3. Outcome' = Outcome
    BY <1>1 DEF Outcome
  <2> QED BY <2>2, <2>3 DEF Abstract!vars
<1> QED BY <1>3, <1>4

\* A failure ends in one of the three ways it may.
LEMMA FailureTold ==
  ASSUME EndInv, EndInv', DiscardBackup \/ Sweep \/ CleanupInterrupted, ~complete
  PROVE  [Abstract!Next]_Abstract!vars
<1>1. UNCHANGED <<before, dest, backup, complete>> /\ pc # "done"
  BY DEF DiscardBackup, Sweep, CleanupInterrupted, Goto, files
<1>2. \A t \in Slots : WhereOriginal(t)' = WhereOriginal(t) /\ WhereOriginal(t) \in {"dest", "aside"}
  BY <1>1, HereOrAside DEF WhereOriginal, EndInv, IInv
<1>3. CASE pc' # "done"
  BY <1>1, <1>2, <1>3 DEF Outcome, Abstract!vars
<1>4. CASE pc' = "done"
  <2>1. Outcome = "running"
    BY <1>1 DEF Outcome
  <2>2. CASE Outcome' = "cut"
    <3>1. Abstract!Fail
      BY <1>2, <2>1, <2>2 DEF Abstract!Fail
    <3> QED BY <3>1 DEF Abstract!Next
  <2>3. CASE Outcome' = "unchanged"
    <3>1. \A t \in Slots : WhereOriginal(t) = "dest"
      BY <1>2, <2>3 DEF Outcome
    <3>2. Abstract!Fail
      BY <1>2, <2>1, <2>3, <3>1 DEF Abstract!Fail
    <3> QED BY <3>2 DEF Abstract!Next
  <2>4. CASE Outcome' = "kept"
    <3>1. \E t \in Slots : WhereOriginal(t) = "aside"
      BY <1>2, <2>4 DEF Outcome
    <3>2. Abstract!Fail
      BY <1>2, <2>1, <2>4, <3>1 DEF Abstract!Fail
    <3> QED BY <3>2 DEF Abstract!Next
  <2>5. Outcome' \in {"cut", "unchanged", "kept"}
    <3>1. CASE DiscardBackup
      BY <1>1, <1>4, <3>1 DEF DiscardBackup, Goto, Outcome
    <3>2. CASE CleanupInterrupted
      BY <1>1, <1>4, <3>2 DEF CleanupInterrupted, Outcome
    <3>3. CASE Sweep
      <4>1. \A i \in Entry : backup[i] = Nothing
        BY <3>3 DEF EndInv, SweptInv, Sweep
      <4>2. \A t \in Slots : WhereOriginal(t)' = "dest"
        BY <1>1, <1>2, <4>1 DEF WhereOriginal
      <4> QED BY <1>1, <1>4, <4>2 DEF Outcome
    <3> QED BY <3>1, <3>2, <3>3
  <2> QED BY <2>2, <2>3, <2>4, <2>5
<1> QED BY <1>3, <1>4

\* After the update the originals that were aside may go.
LEMMA GivenUp ==
  ASSUME EndInv, EndInv', Ending, complete
  PROVE  [Abstract!Next]_Abstract!vars
<1>1. UNCHANGED <<before, dest, complete>> /\ \A i \in Entry : backup'[i] \in {backup[i], Nothing}
  BY DEF EndInv, WholeInv, Ending, DiscardBackup, Sweep, Commit, Tidy, CleanupInterrupted,
     Goto, files
<1>2. Outcome = "updated" /\ Outcome' = "updated"
  BY <1>1 DEF Outcome
<1> DEFINE gone == {t \in Slots : WhereOriginal(t) = "aside" /\ WhereOriginal(t)' = "gone"}
<1>3. \A t \in Slots : WhereOriginal(t)' = IF t \in gone THEN "gone" ELSE WhereOriginal(t)
  BY <1>1 DEF WhereOriginal
<1>4. gone \in SUBSET {t \in Slots : WhereOriginal(t) = "aside"}
  OBVIOUS
<1>5. Abstract!GiveUp
  BY <1>2, <1>3, <1>4, Zenon DEF Abstract!GiveUp
<1> QED BY <1>5 DEF Abstract!Next

\* The other process takes no original's place.
LEMMA ForeignMoves ==
  ASSUME EndInv, EndInv', Foreign
  PROVE  UNCHANGED Abstract!vars
<1>1. PICK s \in Slots : /\ dest[s] = Nothing
                         /\ \E c \in {AlienFile(s), AlienDir(s)} : dest' = [dest EXCEPT ![s] = c]
  BY DEF Foreign, Free
<1>2. UNCHANGED <<before, backup, complete, cut, toldBackup, pc>> /\ pc # "done"
  BY DEF Foreign, control, report
<1>3. \A t \in Slots \ {s} : dest'[t] = dest[t]
  BY <1>1 DEF EndInv, IInv, TypeOK
<1>4. before[s] # Nothing => dest[s] # before[s] /\ dest'[s] # before[s]
  BY <1>1, Kinds, BeforeOrig DEF EndInv, IInv, TypeOK
<1>5. \A t \in Slots : WhereOriginal(t)' = WhereOriginal(t)
  BY <1>2, <1>3, <1>4 DEF WhereOriginal
<1>6. Outcome' = Outcome
  BY <1>2 DEF Outcome
<1> QED BY <1>5, <1>6 DEF Abstract!vars

\* Merging into an existing destination is an all-or-nothing update: the
\* entry a slot held is in its place or aside until every entry is in place,
\* whatever fails or is interrupted, and a failure says that all is back or
\* names what is kept, unless a further interrupt ends its clean-up
\* (_Replacement, the end of _unpack).
THEOREM AtomicMergeImplemented == Spec => ImplementsAtomicMerge
<1>1. Init => Abstract!Init
  BY EntriesAssumption DEF Init, Abstract!Init, WhereOriginal, Outcome
<1>2. EndInv /\ EndInv' /\ [Next]_vars =>
        [Abstract!Next]_Abstract!vars
  <2> SUFFICES ASSUME EndInv, EndInv', [Next]_vars
               PROVE  [Abstract!Next]_Abstract!vars
    OBVIOUS
  <2>1. CASE Ending
    BY <2>1, FailureTold, GivenUp DEF Ending, Commit, Tidy, EndInv, IInv, ControlInv
  <2>2. CASE UNCHANGED vars
    BY <2>2 DEF WhereOriginal, Outcome, vars, files, control, report, Abstract!vars
  <2> QED BY <2>1, <2>2, MergingMoves, UndoingMoves, ForeignMoves DEF Next, Step, Done
<1> QED BY <1>1, <1>2, EndInductive, PTL DEF Spec, ImplementsAtomicMerge, Abstract!Spec

-----------------------------------------------------------------------------
(* What a failure leaves is named.                                         *)

\* What this call makes for an entry.
Own(i) == {New(i), Made(i), Hold(i)}

Logged == pc \notin {"discard", "sweep", "done"} /\ ~complete

\* Until rollback reports: what this call made is at the slot of its entry and
\* on record, and where it took the place of something that is in the backup;
\* what is moved aside is not of this call.
RecordInv ==
  /\ Logged => \A s \in Slots, i \in Entry :
       dest[s] \in Own(i) => SlotOf[i] = s /\ log[i] # "none"
  /\ Logged => \A i \in Entry :
       dest[SlotOf[i]] \in Own(i) /\ log[i] = "saved" => backup[i] # Nothing
  /\ pc \in {"mkdir", "save", "open"} => \A i \in Entry : dest[Here] \notin Own(i)
  /\ pc = "mkdir" => log[idx] = "made"
  /\ pc \in {"open", "claim"} => log[idx] = "placed"
  /\ pc = "save" => log[idx] = "saved" /\ dest[Here] # Nothing
  /\ pc = "put" => log[idx] \in {"placed", "saved"} /\ (log[idx] = "saved" => backup[idx] # Nothing)
  /\ Logged => \A i, j \in Entry : backup[i] \notin Own(j)

\* The error, or its note, names every entry of this call that is there.
EntriesTold ==
  cut = {} /\ (HasNotes \/ exc # "interrupt") =>
    \A i \in Entry :
      dest[SlotOf[i]] \in Own(i) => i \in told \/ (toldBackup /\ backup[i] # Nothing)

BackupTold == "cleanup" \notin cut /\ (\E i \in Entry : backup[i] # Nothing) => toldBackup

ToldInv ==
  /\ pc \in {"discard", "sweep", "done"} /\ ~complete => EntriesTold
  /\ pc = "done" /\ ~complete => BackupTold

NamedInv == EndInv /\ RecordInv /\ ToldInv

\* What this call makes is not what was there, nor another process's.
LEMMA OwnIs ==
  /\ \A i \in Entry : Nothing \notin Own(i)
  /\ \A i, j \in Entry : i # j => Own(i) \cap Own(j) = {}
  /\ \A i \in Entry, s \in Slots : Own(i) \cap {File(s), Dir(s), AlienFile(s), AlienDir(s)} = {}
BY DEF Own, Nothing, New, Made, Hold, File, Dir, AlienFile, AlienDir

\* A merge step records what it puts in place before it does.
LEMMA MergingRecords ==
  ASSUME NamedInv, Merging PROVE RecordInv'
<1>0. TypeOK /\ ControlInv /\ ~complete /\ idx \in Nat
  BY DEF NamedInv, EndInv, IInv, WholeInv, TypeOK, Merging, PreCheck, LookPresent, LookAbsent,
     Mkdir, Save, Open, Claim, Put, CreateFails, CallFails, Interrupt, Complete
<1>1. CASE PreCheck \/ Complete
  BY <1>1 DEF NamedInv, RecordInv, Logged, PreCheck, Complete, Goto, RaiseEarly, files, memory
<1>2. CASE CallFails \/ Interrupt
  BY <1>2 DEF NamedInv, RecordInv, Logged, CallFails, Interrupt, Raise, files, memory
<1>3. CASE Claim
  BY <1>3 DEF NamedInv, RecordInv, Logged, Here, Claim, Goto, files
<1>4. CASE LookPresent \/ LookAbsent
  <2>1. Here \in Slots /\ idx \in Entry
    BY <1>0, <1>4, EntriesAssumption DEF TypeOK, LookPresent, LookAbsent, Here, Entry
  <2>2. Logged /\ log[idx] = "none"
    BY <1>0, <1>4, <2>1 DEF Logged, NamedInv, EndInv, IInv, LogInv, Merges, LookPresent, LookAbsent
  <2>3. \A i \in Entry : i # idx => log'[i] = log[i]
    BY <1>0, <1>4 DEF TypeOK, LookPresent, LookAbsent
  <2>4. dest[Here] \notin Own(idx)
    BY <2>1, <2>2 DEF NamedInv, RecordInv
  <2>5. pc' = "save" => \A i \in Entry : dest[Here] \notin Own(i)
    <3> SUFFICES ASSUME pc' = "save", NEW i \in Entry, dest[Here] \in Own(i) PROVE FALSE
      OBVIOUS
    <3>1. dest[Here] \notin placed
      BY <1>4 DEF LookPresent, LookAbsent, Raise, Goto, NextEntry
    <3>2. SlotOf[i] = Here /\ log[i] # "none"
      BY <2>1, <2>2 DEF NamedInv, RecordInv
    <3>3. i < idx
      BY <1>0, <1>4, <2>2, <3>2 DEF NamedInv, EndInv, IInv, LogInv, Merges, LookPresent,
         LookAbsent, Entry
    <3> QED BY <1>4, <3>1, <3>2, <3>3 DEF NamedInv, EndInv, IInv, PlacedInv, Merges,
         LookPresent, LookAbsent
  <2> QED BY <1>0, <1>4, <2>1, <2>2, <2>3, <2>4, <2>5, OwnIs
    DEF NamedInv, RecordInv, Logged, TypeOK, Here, LookPresent, LookAbsent, Raise, Goto,
        NextEntry, files
<1>5. CASE Mkdir \/ Open \/ Put
  <2>1. Here \in Slots /\ idx \in Entry
    BY <1>0, <1>5, EntriesAssumption DEF TypeOK, Mkdir, Open, Put, Here, Entry, ControlInv
  <2>2. \A s \in Slots \ {Here} : dest'[s] = dest[s]
    BY <1>0, <1>5 DEF TypeOK, Mkdir, Open, Put
  <2>3. dest'[Here] \in Own(idx)
    BY <1>0, <1>5, <2>1 DEF TypeOK, Mkdir, Open, Put, Own
  <2>4. log[idx] # "none" /\ (log[idx] = "saved" => backup[idx] # Nothing)
    BY <1>5 DEF NamedInv, RecordInv, Mkdir, Open, Put
  <2>5. UNCHANGED <<log, backup>> /\ Logged
    BY <1>0, <1>5 DEF Mkdir, Open, Put, memory, Logged
  <2> QED BY <1>5, <2>1, <2>2, <2>3, <2>4, <2>5, OwnIs, EntriesAssumption
    DEF NamedInv, RecordInv, Logged, Here, Mkdir, Open, Put, NextEntry, Goto
<1>6. CASE Save
  <2>1. Here \in Slots /\ idx \in Entry
    BY <1>0, <1>6, EntriesAssumption DEF TypeOK, Save, Here, Entry, ControlInv
  <2>2. \A s \in Slots \ {Here} : dest'[s] = dest[s]
    BY <1>0, <1>6 DEF TypeOK, Save
  <2>3. dest'[Here] = Nothing /\ backup'[idx] = dest[Here]
    BY <1>0, <1>6, <2>1 DEF TypeOK, Save
  <2>4. \A i \in Entry : i # idx => backup'[i] = backup[i]
    BY <1>0, <1>6 DEF TypeOK, Save
  <2> QED BY <1>0, <1>6, <2>1, <2>2, <2>3, <2>4, OwnIs, EntriesAssumption
    DEF NamedInv, RecordInv, Logged, Here, Save, Goto, memory
<1>7. CASE CreateFails
  <2>1. Here \in Slots /\ idx \in Entry /\ Logged
    BY <1>0, <1>7, EntriesAssumption DEF TypeOK, CreateFails, Here, Entry, ControlInv, Logged
  <2>2. \A i \in Entry : i # idx => log'[i] = log[i]
    BY <1>0, <1>7 DEF TypeOK, CreateFails
  <2>3. \A s \in Slots : dest[s] \notin Own(idx)
    BY <1>7, <2>1 DEF NamedInv, RecordInv, CreateFails, Here
  <2> QED BY <1>0, <1>7, <2>1, <2>2, <2>3
    DEF NamedInv, RecordInv, Logged, TypeOK, CreateFails, Raise, files
<1> QED BY <1>1, <1>2, <1>3, <1>4, <1>5, <1>6, <1>7 DEF Merging

\* An undo step puts back nothing of this call.
LEMMA UndoingRecords ==
  ASSUME NamedInv, Undoing PROVE RecordInv'
<1>0. TypeOK /\ ControlInv /\ ~complete /\ undo \in Nat
  BY DEF NamedInv, EndInv, IInv, WholeInv, TypeOK, Undoing, UndoNone, UndoMkdir, UndoMove,
     Reserve, Return, Second, Restore, AttemptFails, CutShort, UndoDone, Report
<1>1. CASE UndoNone \/ UndoMove \/ Reserve \/ AttemptFails \/ UndoDone
  BY <1>1 DEF NamedInv, RecordInv, Logged, UndoNone, UndoMove, Reserve, AttemptFails,
     UndoDone, Goto, NextUndo, files, memory
<1>2. CASE CutShort \/ Report
  BY <1>2 DEF RecordInv, Logged, CutShort, Report, Goto
<1>3. CASE UndoMkdir \/ Return \/ Second
  <2>1. \A s \in Slots : dest'[s] \in {dest[s], Nothing}
    BY <1>0, <1>3 DEF TypeOK, UndoMkdir, Return, Second
  <2>2. UNCHANGED <<log, backup, complete>> /\ pc' \in {"undo", "second", "restore"} /\ Logged
    BY <1>0, <1>3 DEF UndoMkdir, Return, Second, memory, Goto, NextUndo, Logged
  <2> QED BY <2>1, <2>2, OwnIs, EntriesAssumption DEF NamedInv, RecordInv, Logged
<1>4. CASE Restore
  <2>1. There \in Slots /\ undo \in Entry
    BY <1>0, <1>4, EntriesAssumption DEF TypeOK, Restore, There, Entry, ControlInv
  <2>2. \A s \in Slots \ {There} : dest'[s] = dest[s]
    BY <1>0, <1>4 DEF TypeOK, Restore
  <2>3. dest'[There] = backup[undo] /\ backup'[undo] = Nothing
    BY <1>0, <1>4, <2>1 DEF TypeOK, Restore
  <2>4. \A i \in Entry : i # undo => backup'[i] = backup[i]
    BY <1>0, <1>4 DEF TypeOK, Restore
  <2>5. UNCHANGED <<log, complete>> /\ pc' = "undo" /\ Logged
    BY <1>0, <1>4 DEF Restore, memory, NextUndo, Logged
  <2> QED BY <2>1, <2>2, <2>3, <2>4, <2>5, OwnIs, EntriesAssumption
    DEF NamedInv, RecordInv, Logged, There
<1> QED BY <1>1, <1>2, <1>3, <1>4 DEF Undoing

\* Neither the clean-up nor the other process makes anything for an entry.
LEMMA OthersRecord ==
  ASSUME NamedInv, Ending \/ Foreign \/ UNCHANGED vars PROVE RecordInv'
<1>1. CASE Ending
  BY <1>1 DEF RecordInv, Logged, Ending, DiscardBackup, Sweep, Commit, Tidy,
     CleanupInterrupted, Goto, NamedInv, EndInv, IInv, ControlInv
<1>2. CASE Foreign
  <2>1. \A s \in Slots : dest'[s] \in {dest[s], AlienFile(s), AlienDir(s)}
    BY <1>2 DEF NamedInv, EndInv, IInv, TypeOK, Foreign
  <2>2. \A s \in Slots : dest[s] # Nothing => dest'[s] = dest[s]
    BY <1>2 DEF NamedInv, EndInv, IInv, TypeOK, Foreign, Free
  <2>3. UNCHANGED <<log, backup, complete, pc, idx>>
    BY <1>2 DEF Foreign, memory, control
  <2>4. pc \in {"mkdir", "save", "open"} => Here \in Slots
    BY EntriesAssumption DEF NamedInv, EndInv, IInv, TypeOK, ControlInv, Here, Entry
  <2> QED BY <2>1, <2>2, <2>3, <2>4, OwnIs, EntriesAssumption
    DEF NamedInv, RecordInv, Logged, Here
<1>3. CASE UNCHANGED vars
  BY <1>3 DEF NamedInv, RecordInv, Logged, Here, vars, files, memory, control
<1> QED BY <1>1, <1>2, <1>3

\* While the merge or its undo goes on there is nothing to tell, and nothing
\* in the destination where it has not begun.
LEMMA MergingTells == ASSUME NamedInv, Merging PROVE ToldInv'
<1>1. CASE PreCheck
  <2>1. UNCHANGED <<dest, backup>>
    BY <1>1 DEF PreCheck, files
  <2>2. \A i \in Entry : dest[SlotOf[i]] \notin Own(i)
    BY <1>1, EntriesAssumption DEF NamedInv, RecordInv, Logged, EndInv, WholeInv, IInv, LogInv,
       PreCheck
  <2> QED BY <1>1, <2>1, <2>2 DEF ToldInv, EntriesTold, PreCheck, RaiseEarly, Goto
<1>2. CASE ~PreCheck
  BY <1>2 DEF ToldInv, Merging, LookPresent, LookAbsent, Mkdir, Save, Open, Claim, Put,
     CreateFails, CallFails, Interrupt, Complete, Goto, Raise, NextEntry
<1> QED BY <1>1, <1>2

\* Rollback reports all that is on record, if its exception can carry it.
LEMMA UndoingTells == ASSUME NamedInv, Undoing PROVE ToldInv'
<1>1. CASE Report
  <2> DEFINE says == exc # "interrupt" \/ HasNotes
  <2>1. /\ UNCHANGED <<dest, backup, exc, cut, complete>> /\ pc' = "discard" /\ Logged
        /\ told' = IF says THEN Added ELSE {}
        /\ toldBackup' = (says /\ Kept # {})
    BY <1>1 DEF Report, Goto, files, Logged, NamedInv, EndInv, WholeInv
  <2>2. ASSUME says, NEW i \in Entry, dest[SlotOf[i]] \in Own(i)
        PROVE  i \in Added \/ (Kept # {} /\ backup[i] # Nothing)
    <3>1. log[i] # "none" /\ (log[i] = "saved" => backup[i] # Nothing)
      BY <2>1, <2>2, EntriesAssumption DEF NamedInv, RecordInv
    <3>2. log[i] \in {"made", "placed", "saved"}
      BY <3>1 DEF NamedInv, EndInv, IInv, TypeOK
    <3> QED BY <2>2, <3>1, <3>2, OwnIs DEF Added, Kept
  <2>3. EntriesTold'
    BY <2>1, <2>2 DEF EntriesTold
  <2> QED BY <2>1, <2>3 DEF ToldInv
<1>2. CASE CutShort
  BY <1>2 DEF ToldInv, EntriesTold, CutShort
<1>3. CASE ~Report /\ ~CutShort
  BY <1>3 DEF ToldInv, Undoing, UndoNone, UndoMkdir, UndoMove, Reserve, Return, Second, Restore,
     AttemptFails, UndoDone, Goto, NextUndo
<1> QED BY <1>1, <1>2, <1>3

\* The clean-up of a failure names a backup that stays.
LEMMA EndingTells == ASSUME NamedInv, Ending PROVE ToldInv'
<1>1. CASE complete
  BY <1>1 DEF ToldInv, Ending, DiscardBackup, Sweep, Commit, Tidy, CleanupInterrupted, Goto
<1>2. CASE ~complete /\ (DiscardBackup \/ Sweep)
  <2>1. /\ UNCHANGED <<dest, backup, cut, exc, told, complete>> /\ EntriesTold
        /\ toldBackup => toldBackup'
    BY <1>2 DEF DiscardBackup, Sweep, Goto, files, report, NamedInv, ToldInv
  <2>2. EntriesTold'
    BY <2>1 DEF EntriesTold
  <2>3. pc' = "done" => BackupTold'
    BY <1>2, <2>1 DEF DiscardBackup, Sweep, Goto, BackupTold, NamedInv, EndInv, SweptInv
  <2> QED BY <2>2, <2>3 DEF ToldInv
<1>3. CASE CleanupInterrupted
  BY <1>3 DEF CleanupInterrupted, ToldInv, EntriesTold, BackupTold
<1> QED BY <1>1, <1>2, <1>3 DEF Ending, Commit, Tidy, NamedInv, EndInv, IInv, ControlInv

\* What another process puts there is not of this call.
LEMMA ForeignTells == ASSUME NamedInv, Foreign PROVE ToldInv'
<1>1. \A s \in Slots : dest'[s] \in {dest[s], AlienFile(s), AlienDir(s)}
  BY DEF NamedInv, EndInv, IInv, TypeOK, Foreign
<1>2. UNCHANGED <<backup, complete, cut, exc, told, toldBackup, pc>>
  BY DEF Foreign, control, report
<1>3. EntriesTold => EntriesTold'
  BY <1>1, <1>2, OwnIs, EntriesAssumption DEF EntriesTold
<1>4. BackupTold' <=> BackupTold
  BY <1>2 DEF BackupTold
<1> QED BY <1>2, <1>3, <1>4 DEF NamedInv, ToldInv

\* The invariants hold in every reachable state.
LEMMA NamedInductive == Spec => []NamedInv
<1>1. Init => NamedInv
  <2> SUFFICES ASSUME Init PROVE NamedInv
    OBVIOUS
  <2>1. EndInv
    BY InitIInv, EntriesAssumption DEF EndInv, SweptInv, Init, WholeInv, Forward, Merges, Entry
  <2>2. \A s \in Slots, i \in Entry : dest[s] \notin Own(i)
    BY OwnIs DEF Init
  <2>3. RecordInv
    BY <2>2, OwnIs, EntriesAssumption DEF Init, RecordInv
  <2> QED BY <2>1, <2>3 DEF NamedInv, ToldInv, Init
<1>2. NamedInv /\ [Next]_vars => NamedInv'
  <2> SUFFICES ASSUME NamedInv, [Next]_vars PROVE NamedInv'
    OBVIOUS
  <2>1. EndInv'
    BY NextKeeps, SweptStep, MergingKeepsWhole, OthersKeepWhole DEF NamedInv, EndInv, Next, Step,
       Done
  <2>2. RecordInv'
    BY MergingRecords, UndoingRecords, OthersRecord DEF Next, Step, Done
  <2>3. CASE UNCHANGED vars
    BY <2>1, <2>2, <2>3 DEF NamedInv, ToldInv, EntriesTold, BackupTold, vars, files, control, report
  <2> QED BY <2>1, <2>2, <2>3, MergingTells, UndoingTells, EndingTells, ForeignTells
    DEF NamedInv, Next, Step, Done
<1> QED BY <1>1, <1>2, PTL DEF Spec

\* After a failure a backup that still holds anything is named, unless a
\* further interrupt ended the clean-up, and so is every entry this call left
\* in the destination, where the exception can carry it (rollback,
\* _discard_backup).
THEOREM LeftoversAreNamed == Spec => []LeftoversNamed
<1>1. NamedInv => LeftoversNamed
  BY DEF NamedInv, ToldInv, EntriesTold, BackupTold, LeftoversNamed, Own
<1> QED BY <1>1, NamedInductive, PTL

-----------------------------------------------------------------------------
(* An undisturbed undo puts everything back.                               *)

Undos == pc \in {"undo", "reserve", "return", "second", "restore", "report"}

\* Steps on record that are not undone yet.
Pending(i) == log[i] # "none" /\ (Undos => i <= undo)

\* As it was, but for a placeholder that no record knows.
Back(s) ==
  \/ dest[s] = before[s]
  \/ Undos /\ before[s] = Nothing /\ \E i \in Entry \ claims : dest[s] = Hold(i)

\* How far the step of entry i got: what was at its slot is there or aside.
Halfway(i) ==
  LET s == SlotOf[i]
  IN  /\ log[i] = "made" => before[s] = Nothing /\ dest[s] \in {Nothing, Made(i)}
      /\ log[i] = "placed" =>
           before[s] = Nothing /\ backup[i] = Nothing /\ dest[s] \in {Nothing, Hold(i), New(i)}
      /\ log[i] = "saved" =>
           /\ before[s] # Nothing
           /\ IF backup[i] = Nothing THEN dest[s] = before[s]
              ELSE backup[i] = before[s] /\ dest[s] \in {Nothing, New(i)}
      /\ log[i] \in {"placed", "saved"} =>
           (stage[i] = Nothing <=> dest[s] = New(i)) \/ (pc = "return" /\ i = undo)

Undisturbed == Logged /\ ~hurt /\ aliens = 0

BackInv ==
  Undisturbed =>
    /\ \A s \in Slots : (\A i \in Entry : Pending(i) => SlotOf[i] # s) => Back(s)
    /\ \A i \in Entry : Pending(i) => Halfway(i)
    /\ pc \in {"mkdir", "open"} => dest[Here] = Nothing
    /\ pc \in {"reserve", "return", "second"} => log[undo] \in {"placed", "saved"}
    /\ pc \in {"reserve", "return"} => dest[There] = New(undo)
    /\ pc = "second" => stage[undo] # Nothing
    /\ pc = "restore" => dest[There] = Nothing /\ log[undo] = "saved" /\ backup[undo] # Nothing
    /\ pc = "report" => undo = 0

UndoneInv == NamedInv /\ BackInv

\* The merge takes each entry's step at a slot that is as it was.
LEMMA MergingHalfway == ASSUME UndoneInv, Merging PROVE BackInv'
<1>0. /\ TypeOK /\ ControlInv /\ LogInv /\ ApartInv /\ RecordInv /\ BackInv /\ IInv
      /\ ~complete /\ ~Undos /\ idx \in Nat /\ undo \in Nat
  BY DEF UndoneInv, NamedInv, EndInv, IInv, WholeInv, TypeOK, Merging, PreCheck, LookPresent,
     LookAbsent, Mkdir, Save, Open, Claim, Put, CreateFails, CallFails, Interrupt, Complete, Undos
<1> SUFFICES ASSUME Undisturbed' PROVE BackInv'
  BY DEF BackInv
<1>9. Undisturbed
  BY <1>0 DEF Undisturbed, Logged, Merging, PreCheck, LookPresent,
     LookAbsent, Mkdir, Save, Open, Claim, Put, CreateFails, CallFails, Interrupt, Complete,
     report
<1>1. CASE PreCheck \/ Complete
  BY <1>0, <1>1, <1>9 DEF BackInv, Undisturbed, Logged, Pending, Back, Halfway, Undos, PreCheck,
     Complete, Goto, RaiseEarly, files, memory
<1>2. CASE CallFails \/ Interrupt
  <2>1. UNCHANGED <<before, dest, stage, backup, log>> /\ pc' = "undo" /\ undo' = N /\ pc # "return"
    BY <1>2 DEF CallFails, Interrupt, Raise, files, memory
  <2>2. \A i \in Entry : Pending(i)' <=> Pending(i)
    BY <1>0, <2>1, EntriesAssumption DEF Pending, Undos, Entry
  <2> QED BY <1>0, <1>9, <2>1, <2>2 DEF BackInv, Back, Halfway, Undos
<1>3. CASE Claim
  BY <1>0, <1>3, <1>9 DEF BackInv, Undisturbed, Logged, Pending, Back, Halfway, Undos, Claim,
     Goto, files
<1>4. CASE LookPresent \/ LookAbsent
  <2>1. /\ Here \in Slots /\ idx \in Entry
        /\ log[idx] = "none" /\ backup[idx] = Nothing /\ stage[idx] # Nothing
    BY <1>0, <1>4, EntriesAssumption
      DEF TypeOK, LogInv, Merges, LookPresent, LookAbsent, Here, Entry
  <2>2. CASE pc' = "undo"
    <3>1. /\ UNCHANGED <<before, dest, stage, backup, log>>
          /\ pc' = "undo" /\ undo' = N /\ pc # "return"
      BY <1>4, <2>2 DEF LookPresent, LookAbsent, Raise, Goto, NextEntry, files
    <3>2. \A i \in Entry : Pending(i)' <=> Pending(i)
      BY <1>0, <3>1, EntriesAssumption DEF Pending, Undos, Entry
    <3> QED BY <1>0, <1>9, <3>1, <3>2 DEF BackInv, Back, Halfway, Undos
  <2>3. CASE pc' = "look"
    <3>1. UNCHANGED <<before, dest, stage, backup, log>> /\ pc # "return"
      BY <1>4, <2>3 DEF LookPresent, LookAbsent, Raise, Goto, NextEntry, files
    <3> QED BY <1>0, <1>9, <2>3, <3>1 DEF BackInv, Pending, Back, Halfway, Undos
  <2>4. CASE pc' \in {"mkdir", "open", "save"}
    <3>1. /\ UNCHANGED <<before, dest, stage, backup, idx, undo>>
          /\ \A i \in Entry : i # idx => log'[i] = log[i]
          /\ pc' \in {"mkdir", "open"} => dest[Here] = Nothing
          /\ log'[idx] \in {"made", "placed"} => dest[Here] = Nothing
          /\ log'[idx] = "saved" => dest[Here] # Nothing /\ dest[Here] \notin placed
          /\ pc = "look"
      BY <1>0, <1>4, <2>1, <2>4 DEF TypeOK, LookPresent, LookAbsent, Raise, Goto, NextEntry, files
    <3>2. log'[idx] \in {"made", "placed", "saved"}
      BY <1>0, <1>4, <2>1, <2>4 DEF TypeOK, LookPresent, LookAbsent, Raise, Goto, NextEntry
    <3>3. ASSUME NEW i \in Entry, log[i] # "none" PROVE SlotOf[i] # Here
      <4>1. i < idx
        BY <1>0, <3>1, <3>3 DEF LogInv, Merges, Entry
      <4> QED BY <1>0, <3>1, <3>2, <3>3, <4>1 DEF IInv, PlacedInv, Merges
    <3>4. dest[Here] = before[Here]
      BY <1>0, <1>9, <2>1, <3>3 DEF BackInv, Pending, Back
    <3>5. Halfway(idx)'
      <4>1. before[Here] # New(idx) /\ New(idx) # Nothing
        BY <1>0, <2>1, OwnIs, Kinds DEF IInv, BeforeInv, Own
      <4> QED BY <2>1, <2>4, <3>1, <3>2, <3>4, <4>1 DEF Halfway, Here
    <3>6. \A i \in Entry : Pending(i)' => Halfway(i)'
      BY <1>0, <1>9, <2>4, <3>1, <3>5 DEF BackInv, Pending, Halfway, Undos
    <3>7. \A s \in Slots : (\A i \in Entry : Pending(i)' => SlotOf[i] # s) => Back(s)'
      BY <1>0, <1>9, <2>1, <2>4, <3>1, <3>2 DEF BackInv, Pending, Back, Undos
    <3> QED BY <2>4, <3>1, <3>6, <3>7 DEF BackInv, Here
  <2> QED BY <1>4, <2>2, <2>3, <2>4 DEF LookPresent, LookAbsent, Raise, Goto, NextEntry
<1>5. CASE Mkdir \/ Open \/ Put \/ Save
  <2>1. /\ Here \in Slots /\ idx \in Entry /\ log[idx] # "none" /\ stage[idx] # Nothing
        /\ pc = "save" => backup[idx] = Nothing
    BY <1>0, <1>5, EntriesAssumption
      DEF TypeOK, Mkdir, Open, Put, Save, Here, Entry, ControlInv, LogInv
  <2>2. \A s \in Slots \ {Here} : dest'[s] = dest[s]
    BY <1>0, <1>5 DEF TypeOK, Mkdir, Open, Put, Save
  <2>3. \A i \in Entry \ {idx} : stage'[i] = stage[i] /\ backup'[i] = backup[i]
    BY <1>0, <1>5 DEF TypeOK, Mkdir, Open, Put, Save
  <2>4. UNCHANGED <<before, log, undo>> /\ pc' \in {"look", "claim", "put"}
    BY <1>5 DEF Mkdir, Open, Put, Save, memory, NextEntry, Goto
  <2>5. \A i \in Entry : Pending(i)' <=> Pending(i)
    BY <1>0, <2>4 DEF Pending, Undos
  <2>6. \A i \in Entry : i # idx /\ Pending(i) => SlotOf[i] # Here
    BY <1>0, <2>1 DEF ApartInv, Pending, Here
  <2>7. Halfway(idx) /\ Pending(idx)
    BY <1>0, <1>9, <2>1 DEF BackInv, Pending
  <2>8. ASSUME NEW i \in Entry, i = idx PROVE Halfway(i)'
    <3>1. CASE Mkdir
      BY <1>0, <2>1, <2>4, <2>7, <2>8, <3>1 DEF RecordInv, TypeOK, Mkdir, Halfway, Here
    <3>2. CASE Open
      <4>1. log[idx] = "placed" /\ backup' = backup /\ stage' = stage /\ dest'[Here] = Hold(idx)
        BY <1>0, <2>1, <3>2 DEF RecordInv, TypeOK, Open
      <4>2. Hold(idx) # New(idx)
        BY DEF Hold, New
      <4> QED BY <2>1, <2>4, <2>7, <2>8, <4>1, <4>2 DEF Halfway, Here
    <3>3. CASE Put
      <4>1. log[idx] \in {"placed", "saved"} /\ (log[idx] = "saved" => backup[idx] # Nothing)
            /\ backup' = backup /\ stage'[idx] = Nothing /\ dest'[Here] = New(idx)
        BY <1>0, <2>1, <3>3 DEF RecordInv, TypeOK, Put
      <4> QED BY <2>1, <2>4, <2>7, <2>8, <4>1 DEF Halfway, Here
    <3>4. CASE Save
      <4>1. log[idx] = "saved" /\ backup[idx] = Nothing /\ stage' = stage
            /\ backup'[idx] = dest[Here] /\ dest'[Here] = Nothing /\ dest[Here] # Nothing
        BY <1>0, <2>1, <3>4 DEF RecordInv, TypeOK, Save
      <4>2. New(idx) # Nothing
        BY <2>1, Kinds
      <4> QED BY <2>1, <2>4, <2>7, <2>8, <4>1, <4>2 DEF Halfway, Here
    <3> QED BY <1>5, <3>1, <3>2, <3>3, <3>4
  <2>9. \A i \in Entry : Pending(i)' => Halfway(i)'
    <3> SUFFICES ASSUME NEW i \in Entry, i # idx, Pending(i) PROVE Halfway(i)'
      BY <2>5, <2>8
    <3>1. SlotOf[i] \in Slots \ {Here}
      BY <2>6, EntriesAssumption
    <3>2. Halfway(i) /\ pc # "return"
      BY <1>0, <1>9 DEF BackInv, Undos
    <3> QED BY <2>2, <2>3, <2>4, <3>1, <3>2 DEF Halfway
  <2>10. \A s \in Slots : (\A i \in Entry : Pending(i)' => SlotOf[i] # s) => Back(s)'
    BY <1>0, <1>9, <2>1, <2>2, <2>4, <2>5, <2>7 DEF BackInv, Back, Undos, Here
  <2> QED BY <2>4, <2>9, <2>10 DEF BackInv
<1>6. CASE CreateFails
  <2>1. /\ Here \in Slots /\ idx \in Entry /\ log[idx] \in {"made", "placed"}
        /\ dest[Here] = Nothing
    BY <1>0, <1>6, <1>9, EntriesAssumption
      DEF TypeOK, CreateFails, Here, Entry, ControlInv, RecordInv, BackInv
  <2>2. before[Here] = Nothing
    BY <1>0, <1>9, <2>1 DEF BackInv, Pending, Halfway, Here
  <2>3. /\ UNCHANGED <<before, dest, stage, backup>> /\ pc' = "undo" /\ undo' = N
        /\ log'[idx] = "none" /\ \A i \in Entry : i # idx => log'[i] = log[i]
        /\ pc # "return"
    BY <1>0, <1>6, <2>1 DEF TypeOK, CreateFails, Raise, files
  <2>4. \A i \in Entry : Pending(i)' <=> Pending(i) /\ i # idx
    BY <1>0, <2>3, EntriesAssumption DEF Pending, Undos, Entry
  <2>5. \A i \in Entry : Pending(i)' => Halfway(i)'
    BY <1>0, <1>9, <2>3, <2>4 DEF BackInv, Halfway
  <2>6. \A s \in Slots : (\A i \in Entry : Pending(i)' => SlotOf[i] # s) => Back(s)'
    BY <1>0, <1>9, <2>1, <2>2, <2>3, <2>4 DEF BackInv, Back, Here
  <2> QED BY <2>3, <2>5, <2>6 DEF BackInv
<1> QED BY <1>1, <1>2, <1>3, <1>4, <1>5, <1>6 DEF Merging

\* A step of the undo that is over leaves its slot as it was, and disturbs no
\* other.
LEMMA StepUndone ==
  ASSUME UndoneInv, Undisturbed, Undisturbed', Undos, Undos', undo \in Entry, undo' = undo - 1,
         pc' = "undo", UNCHANGED <<before, log, claims>>,
         \A s \in Slots \ {There} : dest'[s] = dest[s],
         \A i \in Entry \ {undo} : stage'[i] = stage[i] /\ backup'[i] = backup[i],
         log[undo] = "none" => dest' = dest,
         log[undo] # "none" =>
           \/ dest'[There] = before[There]
           \/ before[There] = Nothing /\ undo \notin claims /\ dest'[There] = Hold(undo)
  PROVE  BackInv'
<1>0. BackInv /\ ApartInv /\ undo \in Nat
  BY DEF UndoneInv, NamedInv, EndInv, IInv, TypeOK
<1>1. \A i \in Entry : Pending(i)' <=> Pending(i) /\ i # undo
  BY <1>0 DEF Pending, Entry
<1>2. \A i \in Entry : i # undo /\ Pending(i) /\ log[undo] # "none" => SlotOf[i] # There
  BY <1>0 DEF ApartInv, Pending, There
<1>3. ASSUME NEW i \in Entry, Pending(i)' PROVE Halfway(i)'
  <2>1. SlotOf[i] \in Slots /\ (log[undo] # "none" => SlotOf[i] # There) /\ i # undo
    BY <1>1, <1>2, <1>3, EntriesAssumption
  <2>2. Halfway(i)
    BY <1>0, <1>1, <1>3 DEF BackInv
  <2>3. dest'[SlotOf[i]] = dest[SlotOf[i]]
    BY <2>1
  <2> QED BY <2>1, <2>2, <2>3 DEF Halfway
<1>4. ASSUME NEW s \in Slots, \A i \in Entry : Pending(i)' => SlotOf[i] # s PROVE Back(s)'
  <2>1. CASE log[undo] = "none" \/ s # There
    <3>1. Back(s)
      BY <1>0, <1>1, <1>4, <2>1 DEF BackInv, Pending, There
    <3> QED BY <2>1, <3>1 DEF Back
  <2>2. CASE log[undo] # "none" /\ s = There
    BY <2>2 DEF Back
  <2> QED BY <2>1, <2>2
<1> QED BY <1>3, <1>4 DEF BackInv

\* A part of an undo step that is not the last leaves every step where it was,
\* but that the staged file comes back.
LEMMA PartUndone ==
  ASSUME UndoneInv, Undisturbed, Undisturbed', Undos, Undos', undo \in Entry, undo' = undo,
         UNCHANGED <<before, log, claims, backup>>,
         \A s \in Slots \ {There} : dest'[s] = dest[s],
         \A i \in Entry \ {undo} : stage'[i] = stage[i],
         log[undo] = "none" => dest' = dest,
         Pending(undo) => \A i \in Entry : i = undo => Halfway(i)'
  PROVE  /\ \A s \in Slots : (\A i \in Entry : Pending(i)' => SlotOf[i] # s) => Back(s)'
         /\ \A i \in Entry : Pending(i)' => Halfway(i)'
<1>0. BackInv /\ ApartInv /\ undo \in Nat
  BY DEF UndoneInv, NamedInv, EndInv, IInv, TypeOK
<1>1. \A i \in Entry : Pending(i)' <=> Pending(i)
  BY DEF Pending
<1>2. ASSUME NEW i \in Entry, Pending(i)' PROVE Halfway(i)'
  <2>1. CASE i = undo
    BY <1>1, <1>2, <2>1
  <2>2. CASE i # undo
    <3>1. dest'[SlotOf[i]] = dest[SlotOf[i]]
      BY <1>0, <1>1, <1>2, <2>2, EntriesAssumption DEF ApartInv, Pending, There, Entry
    <3>2. Halfway(i)
      BY <1>0, <1>1, <1>2 DEF BackInv
    <3> QED BY <2>2, <3>1, <3>2 DEF Halfway
  <2> QED BY <2>1, <2>2
<1>3. ASSUME NEW s \in Slots, \A i \in Entry : Pending(i)' => SlotOf[i] # s PROVE Back(s)'
  <2>1. Back(s)
    BY <1>0, <1>1, <1>3 DEF BackInv
  <2>2. dest'[s] = dest[s]
    BY <1>0, <1>1, <1>3 DEF Pending, There, Entry
  <2> QED BY <2>1, <2>2 DEF Back
<1> QED BY <1>2, <1>3

\* The undo puts back what its log says, entry by entry.
LEMMA UndoingHalfway == ASSUME UndoneInv, Undoing PROVE BackInv'
<1>0. /\ TypeOK /\ ControlInv /\ LogInv /\ BackInv
      /\ ~complete /\ Undos /\ undo \in 0 .. N
  BY DEF UndoneInv, NamedInv, EndInv, IInv, WholeInv, TypeOK, Undoing, UndoNone, UndoMkdir,
     UndoMove, Reserve, Return, Second, Restore, AttemptFails, CutShort, UndoDone, Report, Undos
<1> SUFFICES ASSUME Undisturbed' PROVE BackInv'
  BY DEF BackInv
<1>1. Undisturbed /\ ~AttemptFails /\ ~CutShort /\ ~Report
  <2>1. aliens' = aliens /\ (hurt => hurt')
    BY <1>0 DEF TypeOK, Undoing, UndoNone, UndoMkdir, UndoMove, Reserve, Return, Second, Restore,
       AttemptFails, CutShort, UndoDone, Report, report
  <2>2. Logged
    BY <1>0 DEF Logged, Undos
  <2>3. ~AttemptFails
    BY Zenon DEF AttemptFails, Undisturbed
  <2> QED BY <2>1, <2>2, <2>3 DEF Undisturbed, Logged, CutShort, Report, Goto
<1>2. CASE UndoDone
  BY <1>0, <1>1, <1>2 DEF BackInv, Pending, Back, Halfway, Undos, UndoDone, Goto, files, memory
<1>3. (undo \in Entry /\ There \in Slots) \/ UndoDone
  BY <1>0, <1>1, EntriesAssumption DEF ControlInv, Undoing, UndoNone, UndoMkdir, UndoMove, Reserve,
     Return, Second, Restore, Entry, There
<1>4. Pending(undo) /\ undo \in Entry => Halfway(undo)
  BY <1>0, <1>1 DEF BackInv
<1>5. CASE UndoNone
  <2>1. undo \in Entry
    BY <1>0, <1>3, <1>5 DEF UndoNone, UndoDone
  <2> QED BY <1>0, <1>1, <1>5, <2>1, StepUndone DEF UndoNone, NextUndo, files, memory, Undos
<1>6. CASE UndoMkdir
  <2>1. undo \in Entry /\ There \in Slots /\ log[undo] = "made" /\ Pending(undo)
    BY <1>0, <1>3, <1>6 DEF UndoMkdir, UndoDone, Pending
  <2>2. dest'[There] = Nothing /\ before[There] = Nothing
    BY <1>0, <1>1, <1>4, <1>6, <2>1 DEF Undisturbed, UndoMkdir, Halfway, There, TypeOK
  <2>3. \A s \in Slots \ {There} : dest'[s] = dest[s]
    BY <1>0, <1>6 DEF UndoMkdir, TypeOK
  <2> QED BY <1>0, <1>1, <1>6, <2>1, <2>2, <2>3, StepUndone DEF UndoMkdir, NextUndo, memory, Undos
<1>7. CASE UndoMove
  <2>1. /\ undo \in Entry /\ Pending(undo) /\ log[undo] \in {"placed", "saved"} /\ pc = "undo"
        /\ UNCHANGED <<before, dest, stage, backup, log, claims, undo>>
        /\ pc' = IF dest[There] # Nothing /\ stage[undo] = Nothing THEN "reserve" ELSE "second"
    BY <1>0, <1>3, <1>7 DEF UndoMove, UndoDone, Pending, Goto, files, memory
  <2>2. stage[undo] = Nothing <=> dest[There] = New(undo)
    BY <1>4, <2>1 DEF Halfway, There
  <2>3. New(undo) # Nothing
    BY <2>1, Kinds
  <2>4. \A i \in Entry : i = undo => Halfway(i)'
    BY <1>4, <2>1 DEF Halfway
  <2>5. Undos'
    BY <2>1 DEF Undos
  <2>6. /\ \A s \in Slots : (\A i \in Entry : Pending(i)' => SlotOf[i] # s) => Back(s)'
        /\ \A i \in Entry : Pending(i)' => Halfway(i)'
    BY <1>0, <1>1, <2>1, <2>4, <2>5, PartUndone
  <2> QED BY <2>1, <2>2, <2>3, <2>6 DEF BackInv, There
<1>8. CASE Reserve \/ Return
  <2>1. /\ undo \in Entry /\ There \in Slots /\ Pending(undo) /\ pc \in {"reserve", "return"}
        /\ dest[There] = New(undo) /\ log[undo] \in {"placed", "saved"}
        /\ UNCHANGED <<before, backup, log, claims, undo>>
    BY <1>0, <1>1, <1>3, <1>8
      DEF Reserve, Return, UndoDone, Pending, Goto, memory, LogInv, BackInv
  <2>2. /\ pc' = IF Reserve THEN "return" ELSE "second"
        /\ stage'[undo] \in {Hold(undo), New(undo)} /\ stage'[undo] # Nothing
        /\ dest'[There] = IF Reserve THEN New(undo) ELSE Nothing
    BY <1>0, <1>8, <2>1, Kinds DEF Reserve, Return, Goto, TypeOK
  <2>3. /\ \A s \in Slots \ {There} : dest'[s] = dest[s]
        /\ \A i \in Entry \ {undo} : stage'[i] = stage[i]
    BY <1>0, <1>8 DEF Reserve, Return, TypeOK
  <2>4. New(undo) # Nothing /\ New(undo) # before[There]
    <3>1. before[There] \in {Nothing, File(There), Dir(There)}
      BY <2>1 DEF UndoneInv, NamedInv, EndInv, IInv, BeforeInv
    <3> QED BY <2>1, <3>1, Kinds, OwnIs DEF Own
  <2>5. Halfway(undo)
    BY <1>4, <2>1
  <2>6. \A i \in Entry : i = undo => Halfway(i)'
    BY <2>1, <2>2, <2>4, <2>5 DEF Halfway, There
  <2>7. Undos'
    BY <2>2 DEF Undos
  <2>8. /\ \A s \in Slots : (\A i \in Entry : Pending(i)' => SlotOf[i] # s) => Back(s)'
        /\ \A i \in Entry : Pending(i)' => Halfway(i)'
    BY <1>0, <1>1, <2>1, <2>3, <2>6, <2>7, PartUndone DEF Pending
  <2> QED BY <2>1, <2>2, <2>8 DEF BackInv, There
<1>9. CASE Second
  <2>1. /\ undo \in Entry /\ There \in Slots /\ Pending(undo) /\ pc = "second"
        /\ stage[undo] # Nothing
        /\ UNCHANGED <<before, stage, backup, log, claims>>
        /\ \A s \in Slots \ {There} : dest'[s] = dest[s]
        /\ log[undo] \in {"placed", "saved"}
    BY <1>0, <1>1, <1>3, <1>9 DEF Second, UndoDone, Pending, Goto, memory, LogInv, BackInv, TypeOK
  <2>2. Halfway(undo)
    BY <1>4, <2>1
  <2>3. CASE log[undo] = "saved" /\ backup[undo] # Nothing
    <3>1. dest[There] = Nothing
      BY <2>1, <2>2, <2>3 DEF Halfway, There
    <3>2. pc' = "restore" /\ dest' = dest /\ undo' = undo
      BY <1>9, <2>3, <3>1 DEF Second, Goto
    <3>3. \A i \in Entry : i = undo => Halfway(i)'
      BY <2>1, <2>2, <3>2 DEF Halfway
    <3>4. Undos'
      BY <3>2 DEF Undos
    <3>5. /\ \A s \in Slots : (\A i \in Entry : Pending(i)' => SlotOf[i] # s) => Back(s)'
          /\ \A i \in Entry : Pending(i)' => Halfway(i)'
      BY <1>0, <1>1, <2>1, <3>2, <3>3, <3>4, PartUndone
    <3> QED BY <2>1, <2>3, <3>1, <3>2, <3>5 DEF BackInv, There
  <2>4. CASE ~(log[undo] = "saved" /\ backup[undo] # Nothing)
    <3>1. pc' = "undo" /\ undo' = undo - 1
      BY <1>9, <2>4 DEF Second, NextUndo, Goto
    <3>2. \/ dest'[There] = before[There]
          \/ before[There] = Nothing /\ undo \notin claims /\ dest'[There] = Hold(undo)
      BY <1>0, <1>9, <2>1, <2>2, <2>4 DEF Second, Halfway, There, TypeOK
    <3>3. Undos'
      BY <3>1 DEF Undos
    <3> QED BY <1>0, <1>1, <2>1, <3>1, <3>2, <3>3, StepUndone DEF Pending
  <2> QED BY <2>3, <2>4
<1>10. CASE Restore
  <2>1. /\ undo \in Entry /\ There \in Slots /\ log[undo] = "saved" /\ backup[undo] # Nothing
        /\ Pending(undo)
    BY <1>0, <1>1, <1>3, <1>10 DEF Restore, UndoDone, BackInv, Pending
  <2>2. backup[undo] = before[There]
    BY <1>4, <2>1 DEF Halfway, There
  <2>3. /\ dest'[There] = before[There] /\ \A s \in Slots \ {There} : dest'[s] = dest[s]
        /\ \A i \in Entry \ {undo} : stage'[i] = stage[i] /\ backup'[i] = backup[i]
    BY <1>0, <1>10, <2>1, <2>2 DEF Restore, TypeOK
  <2> QED BY <1>0, <1>1, <1>10, <2>1, <2>3, StepUndone DEF Restore, NextUndo, memory, Undos
<1> QED BY <1>1, <1>2, <1>5, <1>6, <1>7, <1>8, <1>9, <1>10 DEF Undoing

\* An undo that met no further failure, nor another process, has put every
\* slot back as it was by the time rollback reports, but for an empty
\* placeholder whose identity never got on record (_swap, rollback).
THEOREM UndonePutsBack == Spec => []Undone
<1>1. Init => BackInv
  BY OwnIs, EntriesAssumption DEF Init, BackInv, Pending, Back
<1>2. UndoneInv /\ [Next]_vars => BackInv'
  <2> SUFFICES ASSUME UndoneInv, [Next]_vars PROVE BackInv'
    OBVIOUS
  <2>1. CASE Ending \/ Foreign
    BY <2>1 DEF BackInv, Undisturbed, Logged, Ending, DiscardBackup, Sweep, Commit, Tidy,
       CleanupInterrupted, Foreign, Goto, UndoneInv, NamedInv, EndInv, IInv, TypeOK, ControlInv
  <2>2. CASE UNCHANGED vars
    BY <2>2 DEF UndoneInv, BackInv, Undisturbed, Logged, Pending, Back, Halfway, Undos, Here, There,
       vars, files, memory, control, report
  <2> QED BY <2>1, <2>2, MergingHalfway, UndoingHalfway DEF Next, Step, Done
<1>3. UndoneInv => Undone
  BY DEF UndoneInv, NamedInv, EndInv, WholeInv, IInv, TypeOK, BackInv, Undisturbed, Logged, Pending,
     Back, Undone, Undos, Entry
<1> QED BY <1>1, <1>2, <1>3, NamedInductive, PTL DEF Spec, UndoneInv

-----------------------------------------------------------------------------
(* What another process puts there.                                        *)

\* What is about to be replaced or moved back is of this call: a placeholder
\* that holds the target, the new file where it left staging.
OursInv ==
  /\ pc = "claim" \/ (pc = "put" /\ log[idx] = "placed") => dest[Here] = Hold(idx)
  /\ Logged => \A i \in Entry :
       stage[i] = Nothing /\ (Undos => i < undo \/ (i = undo /\ pc \in {"undo", "second"})) =>
         dest[SlotOf[i]] = New(i)
  /\ pc \in {"reserve", "return"} => dest[There] = New(undo)

\* A merge step leaves what earlier steps placed.
LEMMA MergingOurs == ASSUME NamedInv, OursInv, Merging PROVE OursInv'
<1>0. /\ TypeOK /\ ControlInv /\ LogInv /\ ApartInv /\ MovedInv /\ RecordInv
      /\ ~complete /\ ~Undos /\ idx \in Nat
  BY DEF NamedInv, EndInv, IInv, WholeInv, TypeOK, Merging, PreCheck, LookPresent,
     LookAbsent, Mkdir, Save, Open, Claim, Put, CreateFails, CallFails, Interrupt, Complete, Undos
<1>1. CASE PreCheck \/ Complete \/ LookPresent \/ LookAbsent \/ Claim \/ CreateFails \/ CallFails
             \/ Interrupt
  <2>1. UNCHANGED <<dest, stage>> /\ (pc' \in {"claim", "put"} => Claim /\ UNCHANGED <<idx, log>>)
        /\ pc' \notin {"reserve", "return"}
    BY <1>1 DEF PreCheck, Complete, LookPresent, LookAbsent, Claim, CreateFails, CallFails,
       Interrupt, Raise, RaiseEarly, Goto, NextEntry, files
  <2>2. Logged' => Logged /\ ~Undos
    BY <1>0, <1>1 DEF Logged, PreCheck, Complete, LookPresent, LookAbsent, Claim, CreateFails,
       CallFails, Interrupt, Goto, RaiseEarly, Undos
  <2> QED BY <2>1, <2>2 DEF OursInv, Here, Claim
<1>2. CASE Mkdir \/ Open \/ Put \/ Save
  <2>1. /\ Here \in Slots /\ idx \in Entry /\ log[idx] # "none" /\ stage[idx] # Nothing /\ Logged
        /\ ~Undos' /\ pc' \notin {"reserve", "return"}
    BY <1>0, <1>2, EntriesAssumption
      DEF TypeOK, Mkdir, Open, Put, Save, Here, Entry, ControlInv, LogInv, Logged, Undos, NextEntry, Goto
  <2>2. \A s \in Slots \ {Here} : dest'[s] = dest[s]
    BY <1>0, <1>2 DEF TypeOK, Mkdir, Open, Put, Save
  <2>3. \A i \in Entry \ {idx} : stage'[i] = stage[i]
    BY <1>0, <1>2 DEF TypeOK, Mkdir, Open, Put, Save
  <2>4. stage'[idx] = Nothing => dest'[Here] = New(idx)
    BY <1>0, <1>2, <2>1 DEF TypeOK, Mkdir, Open, Put, Save
  <2>5. ASSUME NEW i \in Entry, stage'[i] = Nothing PROVE dest'[SlotOf[i]] = New(i)
    <3>1. CASE i = idx
      BY <2>4, <2>5, <3>1 DEF Here
    <3>2. CASE i # idx
      <4>1. stage[i] = Nothing
        BY <2>3, <2>5, <3>2
      <4>2. log[i] # "none"
        BY <1>0, <1>2, <4>1 DEF MovedInv, Merges, Mkdir, Open, Put, Save
      <4>3. SlotOf[i] # Here
        BY <1>0, <2>1, <3>2, <4>2 DEF ApartInv, Here
      <4> QED BY <1>0, <2>1, <2>2, <4>1, <4>3, EntriesAssumption DEF OursInv
    <3> QED BY <3>1, <3>2
  <2>6. pc' \in {"claim", "put"} => (Open /\ dest'[Here] = Hold(idx)) \/ (Save /\ log'[idx] = "saved")
    BY <1>0, <1>2, <2>1 DEF TypeOK, RecordInv, Mkdir, Open, Put, Save, NextEntry, Goto, memory
  <2>7. pc' \in {"claim", "put"} => idx' = idx /\ (Save => pc' = "put")
    BY <1>2 DEF Mkdir, Open, Put, Save, NextEntry, Goto
  <2> QED BY <2>1, <2>5, <2>6, <2>7 DEF OursInv, Here
<1> QED BY <1>1, <1>2 DEF Merging

\* So does an undo step, but for the entry it undoes.
LEMMA UndoingOurs == ASSUME NamedInv, OursInv, Undoing PROVE OursInv'
<1>0. /\ TypeOK /\ ControlInv /\ LogInv /\ ApartInv /\ MovedInv
      /\ ~complete /\ Undos /\ undo \in 0 .. N
  BY DEF NamedInv, EndInv, IInv, WholeInv, TypeOK, Undoing, UndoNone, UndoMkdir,
     UndoMove, Reserve, Return, Second, Restore, AttemptFails, CutShort, UndoDone, Report, Undos
<1>1. CASE CutShort \/ Report
  BY <1>1 DEF OursInv, Logged, CutShort, Report, Goto
<1>2. CASE UndoDone
  BY <1>0, <1>2 DEF OursInv, Logged, Undos, UndoDone, Goto, files, Entry
<1>3. CASE ~(CutShort \/ Report \/ UndoDone)
  <2>1. undo \in Entry /\ There \in Slots /\ pc' \in {"undo", "reserve", "return", "second", "restore"}
    BY <1>0, <1>3, EntriesAssumption DEF ControlInv, Undoing, UndoNone, UndoMkdir, UndoMove,
       Reserve, Return, Second, Restore, AttemptFails, Entry, There, Goto, NextUndo
  <2>2. Logged /\ Undos' /\ undo' \in {undo, undo - 1} /\ (undo' = undo - 1 => pc' = "undo")
        /\ pc \in {"undo", "reserve", "return", "second", "restore"}
    BY <1>0, <1>3, <2>1 DEF Undoing, UndoNone, UndoMkdir, UndoMove,
       Reserve, Return, Second, Restore, AttemptFails, Goto, NextUndo, Logged, Undos
  <2>3. /\ \A s \in Slots \ {There} : dest'[s] = dest[s]
        /\ \A i \in Entry \ {undo} : stage'[i] = stage[i]
    BY <1>0, <1>3 DEF TypeOK, Undoing, UndoNone, UndoMkdir, UndoMove,
       Reserve, Return, Second, Restore, AttemptFails, files
  <2>4. log[undo] = "none" => dest' = dest
    BY <1>0, <1>3 DEF LogInv, Undoing, UndoNone, UndoMkdir, UndoMove,
       Reserve, Return, Second, Restore, AttemptFails, files
  <2>5. ASSUME NEW i \in Entry, i < undo, stage'[i] = Nothing PROVE dest'[SlotOf[i]] = New(i)
    <3>1. stage[i] = Nothing /\ i # undo
      BY <1>0, <2>3, <2>5 DEF Entry
    <3>2. dest[SlotOf[i]] = New(i)
      BY <2>2, <2>5, <3>1 DEF OursInv
    <3>3. log[i] # "none"
      BY <1>0, <2>2, <3>1 DEF MovedInv
    <3>4. log[undo] # "none" => SlotOf[i] # There
      BY <1>0, <2>1, <3>1, <3>3 DEF ApartInv, There
    <3> QED BY <2>3, <2>4, <3>2, <3>4, EntriesAssumption
  <2>6. ASSUME undo' = undo, stage'[undo] = Nothing, pc' \in {"undo", "second"}
        PROVE  dest'[There] = New(undo)
    BY <1>0, <1>3, <2>1, <2>6, Kinds DEF OursInv, TypeOK, Undoing, UndoNone, UndoMkdir, UndoMove,
       Reserve, Return, Second, Restore, AttemptFails, NextUndo, Goto, files, There, Undos, Logged
  <2>7. pc' \in {"reserve", "return"} => dest'[There] = New(undo) /\ undo' = undo
    BY <1>0, <1>3, <2>1 DEF OursInv, Undoing, UndoNone, UndoMkdir, UndoMove,
       Reserve, Return, Second, Restore, AttemptFails, NextUndo, Goto, files, There, Undos, Logged
  <2>8. \A i \in Entry : i < undo' => i < undo
    BY <1>0, <2>2 DEF Entry
  <2>9. \A i \in Entry : i = undo' => i < undo \/ undo' = undo
    BY <1>0, <2>2 DEF Entry
  <2> QED BY <2>1, <2>2, <2>5, <2>6, <2>7, <2>8, <2>9 DEF OursInv, There
<1> QED BY <1>1, <1>2, <1>3

\* The clean-up has nothing left to place, and the other process only fills
\* what is free.
LEMMA OthersOurs == ASSUME NamedInv, OursInv, Ending \/ Foreign \/ UNCHANGED vars PROVE OursInv'
<1>1. CASE Ending
  BY <1>1 DEF OursInv, Logged, Ending, DiscardBackup, Sweep, Commit, Tidy,
     CleanupInterrupted, Goto, NamedInv, EndInv, IInv, ControlInv
<1>2. CASE Foreign
  <2>1. \A s \in Slots : dest[s] # Nothing => dest'[s] = dest[s]
    BY <1>2 DEF NamedInv, EndInv, IInv, TypeOK, Foreign, Free
  <2>2. UNCHANGED <<stage, log, complete, pc, idx, undo>>
    BY <1>2 DEF Foreign, memory, control
  <2>3. /\ pc \in {"claim", "put"} => Here \in Slots /\ idx \in Entry
        /\ pc \in {"reserve", "return"} => There \in Slots /\ undo \in Entry
    BY EntriesAssumption DEF NamedInv, EndInv, IInv, TypeOK, ControlInv, Here, There, Entry
  <2>4. \A i \in Entry : New(i) # Nothing /\ Hold(i) # Nothing /\ SlotOf[i] \in Slots
    BY Kinds, EntriesAssumption
  <2> QED BY <2>1, <2>2, <2>3, <2>4 DEF OursInv, Logged, Undos, Here, There
<1>3. CASE UNCHANGED vars
  BY <1>3 DEF OursInv, Logged, Undos, Here, There, vars, files, memory, control
<1> QED BY <1>1, <1>2, <1>3

\* What a step takes from its slot is of this call or goes to the backup, but
\* in the two windows.
LEMMA ForeignStep ==
  ASSUME NamedInv, OursInv, [Next]_vars, NEW s \in Slots,
         dest[s] = AlienFile(s), dest'[s] # dest[s]
  PROVE  \/ \E i \in Entry : backup'[i] = AlienFile(s)
         \/ pc = "restore"
         \/ pc = "put" /\ log[idx] = "saved"
<1>0. TypeOK /\ ControlInv /\ AlienFile(s) # Nothing /\ ~IsADir(AlienFile(s))
  BY Kinds DEF NamedInv, EndInv, IInv, IsADir, AlienFile, DirKinds
<1>1. \A i \in Entry : AlienFile(s) \notin {New(i), Hold(i)}
  BY OwnIs DEF Own
<1>2. CASE Merging
  <2>1. s = Here /\ (Mkdir \/ Open \/ Put \/ Save)
    BY <1>0, <1>2 DEF TypeOK, Merging, PreCheck, LookPresent, LookAbsent, Mkdir, Save, Open,
       Claim, Put, CreateFails, CallFails, Interrupt, Complete, files
  <2>2. idx \in Entry
    BY <1>0, <2>1 DEF TypeOK, ControlInv, Entry, Mkdir, Open, Put, Save
  <2>3. ~Mkdir /\ ~Open
    BY <1>0, <2>1 DEF Mkdir, Open, Free
  <2>4. CASE Save
    BY <1>0, <2>1, <2>2, <2>4 DEF TypeOK, Save
  <2>5. CASE Put
    BY <1>1, <2>1, <2>2, <2>5 DEF Put, NamedInv, RecordInv, OursInv
  <2> QED BY <2>1, <2>3, <2>4, <2>5
<1>3. CASE Undoing
  <2>1. s = There /\ undo \in Entry /\ (UndoMkdir \/ Return \/ Second \/ Restore)
    BY <1>0, <1>3 DEF TypeOK, ControlInv, Entry, Undoing, UndoNone, UndoMkdir, UndoMove, Reserve,
       Return, Second, Restore, AttemptFails, CutShort, UndoDone, Report, files
  <2>2. ~UndoMkdir /\ ~Second
    BY <1>0, <1>1, <2>1 DEF UndoMkdir, Second
  <2>3. ~Return
    BY <1>1, <2>1 DEF Return, OursInv
  <2> QED BY <2>1, <2>2, <2>3 DEF Restore
<1>4. CASE Ending \/ Foreign \/ UNCHANGED vars
  BY <1>0, <1>4 DEF TypeOK, Ending, DiscardBackup, Sweep, Commit, Tidy, CleanupInterrupted, Foreign,
     Free, vars, files
<1> QED BY <1>2, <1>3, <1>4 DEF Next, Step, Done

\* A file another process put into the destination is never overwritten or
\* deleted where the step found nothing there: it leaves its slot into the
\* backup, or in the two windows the path-based checks cannot close (_swap,
\* _restore).
THEOREM ForeignAreKept == Spec => ForeignFilesKept
<1>1. Init => OursInv
  BY Kinds, EntriesAssumption DEF Init, OursInv
<1>2. NamedInv /\ OursInv /\ [Next]_vars => OursInv'
  BY MergingOurs, UndoingOurs, OthersOurs DEF Next, Step, Done
<1>3. NamedInv /\ OursInv /\ [Next]_vars =>
        [\A s \in Slots :
           dest[s] = AlienFile(s) /\ dest'[s] # dest[s] =>
             \/ \E i \in Entry : backup'[i] = AlienFile(s)
             \/ pc = "restore"
             \/ pc = "put" /\ log[idx] = "saved"]_vars
  BY ForeignStep
<1> QED BY <1>1, <1>2, <1>3, NamedInductive, PTL DEF Spec, ForeignFilesKept

=============================================================================
