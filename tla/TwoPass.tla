------------------------------ MODULE TwoPass ------------------------------
(***************************************************************************)
(* How unpack reads an archive (src/src/aphelion/unpacker.py): _extract    *)
(* passes over it twice.  The first pass checks every header and notes it; *)
(* the second compares each header with what the first noted and writes    *)
(* the member into the staging directory, collecting what signature        *)
(* validation reads on the way.  Each pass hands its bytes to tarfile      *)
(* through a _ForwardReader, which bounds how far tarfile may read.        *)
(*                                                                         *)
(* Another process may write the archive while it is read, so any pass may *)
(* meet any header next; `tape' is what the first pass met, and `touched'  *)
(* says that something else was met since, or that reading failed.         *)
(*                                                                         *)
(* A name stands for a spelling in the archive; Parts gives its components *)
(* (path_parts), Key what a component is compared by (member_path_key) and *)
(* Fs the directory entry that the file system makes of it.                *)
(***************************************************************************)
EXTENDS Integers, SequencesExt

CONSTANTS
  Names, Parts, Key, Fs,
  BadNames,       \* names that _check_path or non_portable_component refuses
  Blocked,        \* entries behind a link of the destination, or of the backup
  Wanted,         \* the exact names _SignatureMembers collects
  Headers,        \* the headers an archive may have: see Header
  Contents,       \* what the data of a member may be
  Ratios,         \* what the compression ratio allows in bytes, 0 when unknown
  MaxFiles, MaxFileBytes, MaxTotalBytes, MaxPathLength

Absent == "absent"  \* no content: a directory, or nothing collected

Header ==
  [name : Names, kind : {"file", "dir", "other"}, size : Nat,
   head : Nat,       \* bytes of header blocks
   glob : Nat,       \* how many of them are global pax headers
   sound : BOOLEAN]  \* the blocks lead to the header every release reads alike

ASSUME TwoPassAssumption ==
  /\ \A h \in Headers : h \in Header /\ h.head > 0 /\ h.glob <= h.head
  /\ {MaxFiles, MaxFileBytes, MaxTotalBytes, MaxPathLength} \subseteq Nat
  /\ Ratios \subseteq Nat /\ Absent \notin Contents
  /\ \A n \in Names : Parts[n] \in Seq(DOMAIN Key)

VARIABLES
  room,             \* what the ratio allows to the archive as found at first
  pass, pc,         \* which pass, and what it does next
  cap,              \* what the ratio allows to this pass
  seen, declared,   \* the members of this pass and their declared bytes
  end, limit,       \* where the last member ends; how far tarfile may read
  handed,           \* bytes handed to tarfile
  dirs, explicit, files,  \* MemberNames
  checked,          \* the members of the first pass
  made, staging,    \* directories made, by spelling; entries of staging
  written,          \* bytes written
  collected,        \* _SignatureMembers
  tape, touched     \* history: what the first pass met; whether that changed

names == <<dirs, explicit, files>>
output == <<made, staging, written, collected>>
vars == <<room, pass, pc, cap, seen, declared, end, limit, handed, names, checked,
          output, tape, touched>>

BlockSize == 512
Blocks(n) == ((n + BlockSize - 1) \div BlockSize) * BlockSize
GlobalHeaderBytes == 1024
HeaderBytes ==
  LET need == 1024 + Blocks(4 * MaxPathLength + 1024)
  IN  IF need > 4096 THEN need ELSE 4096

Place(s, f) == [i \in DOMAIN s |-> f[s[i]]]
Above(p) == {SubSeq(p, 1, k) : k \in 1 .. Len(p) - 1}

-----------------------------------------------------------------------------
(* MemberNames: the incremental tables that find a collision.             *)

\* The directories a member names: those above it, and itself if it is one.
Spelled(p, kind) == Above(p) \cup (IF kind = "dir" THEN {p} \ {<<>>} ELSE {})

\* Seeded bug: a directory is looked for among directories alone.
ClaimedByDir(p) == \E q \in dirs : Place(q, Key) = Place(p, Key) /\ q # p

\* _claim_dir finds another member in the way.
Claimed(p) ==
  \/ Place(p, Key) \in files
  \/ \E q \in dirs : Place(q, Key) = Place(p, Key) /\ q # p

Collision(p, kind) ==
  \/ \E q \in Spelled(p, kind) : Claimed(q)
  \/ kind = "dir" /\ p # <<>> /\ Place(p, Key) \in explicit
  \/ kind # "dir" /\ Place(p, Key) \in files \cup {Place(q, Key) : q \in dirs}

AddName(p, kind) ==
  /\ dirs' = dirs \cup Spelled(p, kind)
  /\ explicit' = explicit \cup (IF kind = "dir" THEN {Place(p, Key)} \ {<<>>} ELSE {})
  /\ files' = files \cup (IF kind = "dir" THEN {} ELSE {Place(p, Key)})

-----------------------------------------------------------------------------
(* The checks of one header.                                              *)

Stored(h) == IF h.kind = "file" THEN Blocks(h.size) ELSE 0
Size(h) == IF h.kind = "file" THEN h.size ELSE 0

\* How many bytes of header blocks a member may take (_check_extent).
Allowance(h) ==
  HeaderBytes + IF seen = <<>> /\ h.glob < GlobalHeaderBytes THEN h.glob
                ELSE IF seen = <<>> THEN GlobalHeaderBytes ELSE 0

\* tarfile has these bytes already, or may still read them.
Within(n) == n <= handed \/ n <= limit

\* tarfile reads on to n, and may be handed anything up to the limit.
Reads(n) == handed' \in {m \in {handed, n, limit} : handed <= m /\ n <= m}

ExtentOK(h) == h.sound /\ h.kind \in {"file", "dir"} /\ h.head <= Allowance(h)

NameOK(h) ==
  /\ h.name \notin BadNames
  /\ Parts[h.name] = <<>> => h.kind = "dir"
  /\ ~Collision(Parts[h.name], h.kind)

BudgetOK(h) ==
  /\ Size(h) <= MaxFileBytes
  /\ declared + Size(h) <= MaxTotalBytes
  /\ cap > 0 => declared + Size(h) <= cap

HeaderOK(h) ==
  /\ Within(end + h.head)
  /\ Len(seen) < MaxFiles
  /\ ExtentOK(h)
  /\ pass = 1 => NameOK(h)
  /\ BudgetOK(h)

-----------------------------------------------------------------------------
Init ==
  /\ room \in Ratios
  /\ pass = 0 /\ pc = "open" /\ cap = 0
  /\ seen = <<>> /\ declared = 0 /\ end = 0 /\ limit = 0 /\ handed = 0
  /\ dirs = {} /\ explicit = {} /\ files = {} /\ checked = <<>>
  /\ made = {} /\ staging = [p \in {} |-> Absent] /\ written = 0
  /\ collected = [w \in Wanted |-> Absent]
  /\ tape = <<>> /\ touched = FALSE

\* Seeded bug: the second pass goes on counting where the first stopped.
OpenCounting ==
  /\ pc = "open"
  /\ pass' = pass + 1 /\ pc' = "next"
  /\ cap' \in Ratios /\ touched' = (touched \/ cap' # room)
  /\ seen' = <<>> /\ end' = 0 /\ handed' = 0
  /\ limit' = HeaderBytes + GlobalHeaderBytes
  /\ UNCHANGED <<room, declared, names, checked, output, tape>>

\* _members opens the archive and starts from its first byte.
Open ==
  /\ pc = "open"
  /\ pass' = pass + 1 /\ pc' = "next"
  /\ cap' \in Ratios /\ touched' = (touched \/ cap' # room)
  /\ seen' = <<>> /\ declared' = 0 /\ end' = 0 /\ handed' = 0
  /\ limit' = HeaderBytes + GlobalHeaderBytes
  /\ UNCHANGED <<room, names, checked, output, tape>>

\* The call ends with an exception; what is in staging goes with staging.
Refused ==
  /\ pc' = "refused" /\ Reads(handed)
  /\ UNCHANGED <<room, pass, cap, seen, declared, end, limit, names, checked, output>>

\* The header met is the one the first pass met at this place.
AsBefore(h) == Len(seen) < Len(tape) /\ tape[Len(seen) + 1] = h

Meet(h) ==
  /\ tape' = IF pass = 1 THEN Append(tape, h) ELSE tape
  /\ touched' = (touched \/ (pass = 2 /\ ~AsBefore(h)))

\* Seeded bug: every member gets the allowance of the first.
ReachWide(e) == e + HeaderBytes + GlobalHeaderBytes

\* How far tarfile may read once a member ends at e (advance).
Reach(e) == e + HeaderBytes

\* tar.next gives a member that passes.  tarfile may have read up to the
\* limit by then, and may read that far ahead.
Member(h) ==
  /\ pc = "next" /\ HeaderOK(h)
  /\ Meet(h)
  /\ Reads(end + h.head)
  /\ seen' = Append(seen, [name |-> h.name, kind |-> h.kind, size |-> h.size,
                           offset |-> end + h.glob, path |-> Parts[h.name]])
  /\ declared' = declared + Size(h)
  /\ end' = end + h.head + Stored(h)
  /\ limit' = Reach(end')
  /\ IF pass = 1 THEN AddName(Parts[h.name], h.kind) ELSE UNCHANGED names
  /\ pc' = IF pass = 1 THEN "next" ELSE "data"
  /\ UNCHANGED <<room, pass, cap, checked, output>>

RefuseMember(h) ==
  /\ pc = "next" /\ ~HeaderOK(h)
  /\ Meet(h) /\ Refused

\* Reading fails, the data is damaged, the archive ends inside a member, or
\* what follows the last one is no header and not zeros.
Damaged ==
  /\ pc \in {"next", "data"}
  /\ touched' = TRUE
  /\ Refused /\ UNCHANGED tape

\* No further header, and the header allowance after the last member is zeros
\* as far as the archive goes.
EndOfArchive ==
  /\ pc = "next"
  /\ Reads(end) \/ Reads(end + HeaderBytes)
  /\ touched' = (touched \/ (pass = 2 /\ Len(seen) < Len(tape)))
  /\ checked' = IF pass = 1 THEN seen ELSE checked
  /\ pc' = IF pass = 1 THEN "open"
           ELSE IF Len(seen) = Len(checked) THEN "ok" ELSE "refused"
  /\ UNCHANGED <<room, pass, cap, seen, declared, end, limit, names, output, tape>>

-----------------------------------------------------------------------------
(* The second pass writes the member it has just seen.                    *)

Here == seen[Len(seen)]
Now == checked[Len(seen)]  \* what the first pass saw at this place

\* Seeded bug: the sizes are not compared.
SameButSize ==
  /\ Len(seen) <= Len(checked)
  /\ Here.name = Now.name /\ Here.kind = Now.kind /\ Here.offset = Now.offset

\* Seeded bug: the names are not compared.
SameButName ==
  /\ Len(seen) <= Len(checked)
  /\ Here.kind = Now.kind /\ Here.size = Now.size /\ Here.offset = Now.offset

\* The first four fields of both agree.
SameMember ==
  /\ Len(seen) <= Len(checked)
  /\ Here.name = Now.name /\ Here.kind = Now.kind
  /\ Here.size = Now.size /\ Here.offset = Now.offset

\* Directories to make for a member, by spelling.
ToMake(p, kind) == Spelled(p, kind) \ made

\* Every entry is created exclusively, so none may be there yet.
Creates(p, kind) ==
  {Place(q, Fs) : q \in ToMake(p, kind) \cup (IF kind = "file" THEN {p} ELSE {})}

Unreachable(p) == p # <<>> /\ Fs[p[1]] \in Blocked

WriteOK ==
  /\ SameMember
  /\ ~Unreachable(Now.path)
  /\ Creates(Now.path, Here.kind) \cap DOMAIN staging = {}
  /\ Size(Here) <= MaxFileBytes
  /\ written + Size(Here) <= MaxTotalBytes
  /\ room > 0 => written + Size(Here) <= room

\* _SignatureMembers.add: the member is known by its exact name.
Collect(data) ==
  collected' = IF Here.name \in Wanted THEN [collected EXCEPT ![Here.name] = data]
               ELSE collected

Write(data) ==
  /\ pc = "data" /\ WriteOK
  /\ LET p == Now.path
         file == Place(p, Fs)
         new == Creates(p, Here.kind)
     IN  /\ made' = made \cup ToMake(p, Here.kind)
         /\ staging' = [e \in DOMAIN staging \cup new |->
                          IF e \in DOMAIN staging THEN staging[e]
                          ELSE IF Here.kind = "file" /\ e = file
                          THEN [data |-> data, size |-> Here.size]
                          ELSE [data |-> Absent, size |-> 0]]
  /\ written' = written + Size(Here)
  /\ Collect(IF Here.kind = "file" THEN data ELSE Absent)
  /\ pc' = "next" /\ Reads(end)
  /\ UNCHANGED <<room, pass, cap, seen, declared, end, limit, names, checked, tape, touched>>

RefuseWrite ==
  /\ pc = "data" /\ ~WriteOK
  /\ Refused /\ UNCHANGED <<tape, touched>>

Ended == pc \in {"ok", "refused"} /\ UNCHANGED vars

Next ==
  \/ Open
  \/ \E h \in Headers : Member(h) \/ RefuseMember(h)
  \/ Damaged
  \/ EndOfArchive
  \/ \E c \in Contents : Write(c)
  \/ RefuseWrite
  \/ Ended

Spec == Init /\ [][Next]_vars

-----------------------------------------------------------------------------
(* Properties.                                                            *)

\* Whatever the headers say and whoever writes the archive meanwhile, one pass
\* hands tarfile no more than the documentation of unpack promises
\* (_ForwardReader, advance, the budgets of _checked_members).
HandedBounded ==
  handed <= MaxTotalBytes + MaxFiles * (HeaderBytes + BlockSize - 1)
            + HeaderBytes + GlobalHeaderBytes

\* The directories and files a path stands for.
Stands(p, kind) == Spelled(p, kind) \cup (IF kind = "file" THEN {p} ELSE {})

\* Nothing is written before every header has been checked.  What is in staging
\* is what the first pass checked, at its path and with its size, and a call
\* that succeeds wrote every member, each file at an entry of its own, within
\* the budgets (_extract), even if the archive changed between the passes.
WrittenWasChecked ==
  /\ DOMAIN staging # {} => pass = 2
  /\ \A e \in DOMAIN staging : \E k \in DOMAIN checked :
       LET m == checked[k] IN
       IF staging[e].data = Absent
       THEN \E q \in Spelled(m.path, m.kind) : Place(q, Fs) = e
       ELSE m.kind = "file" /\ Place(m.path, Fs) = e /\ staging[e].size = m.size
  /\ pc = "ok" =>
       /\ \A k \in DOMAIN checked : \A q \in Stands(checked[k].path, checked[k].kind) :
            Place(q, Fs) \in DOMAIN staging
       /\ \A j, k \in DOMAIN checked :
            j # k /\ checked[j].kind = "file" /\ checked[k].kind = "file" =>
              Place(checked[j].path, Fs) # Place(checked[k].path, Fs)
       /\ written <= MaxTotalBytes /\ (room > 0 => written <= room)

\* Two members collide: one path by key, a file where the other has a
\* directory, or one directory spelled in two ways.
Collide(m, n) ==
  \/ Place(m.path, Key) = Place(n.path, Key) /\ m.path # <<>>
  \/ m.kind = "file" /\ Place(m.path, Key) \in {Place(q, Key) : q \in Above(n.path)}
  \/ n.kind = "file" /\ Place(n.path, Key) \in {Place(q, Key) : q \in Above(m.path)}
  \/ \E p \in Spelled(m.path, m.kind), q \in Spelled(n.path, n.kind) :
       p # q /\ Place(p, Key) = Place(q, Key)

\* The tables of MemberNames, filled one member at a time, refuse a name
\* exactly when it collides with a member accepted before.
NamesApart ==
  pass = 1 /\ pc = "next" =>
    \A n \in Names \ BadNames, kind \in {"file", "dir"} :
      Parts[n] # <<>> \/ kind = "dir" =>
        (Collision(Parts[n], kind) <=>
           \E k \in DOMAIN seen : Collide(seen[k], [path |-> Parts[n], kind |-> kind]))

\* Signature validation reads, under each name, the bytes that were written
\* for the member of exactly that name, and nothing where there is none, also
\* when the archive changed between the passes (_SignatureMembers, _extract).
CollectedIsWritten ==
  pc = "ok" =>
    \A w \in Wanted :
      IF \E k \in DOMAIN checked : checked[k].name = w /\ checked[k].kind = "file"
      THEN Place(Parts[w], Fs) \in DOMAIN staging
           /\ collected[w] = staging[Place(Parts[w], Fs)].data
      ELSE collected[w] = Absent

\* What the first n members of t declare together, for each n.
Totals(t) ==
  LET sum[n \in 0 .. Len(t)] == IF n = 0 THEN 0 ELSE sum[n - 1] + Size(t[n])
  IN  sum

Part(h) == [path |-> Parts[h.name], kind |-> h.kind]

\* An archive that keeps to the rules, judged as a whole, when the ratio
\* allows it so many bytes.
Kept(t, allowed) ==
  /\ Len(t) <= MaxFiles
  /\ Totals(t)[Len(t)] <= MaxTotalBytes /\ (allowed > 0 => Totals(t)[Len(t)] <= allowed)
  /\ \A k \in DOMAIN t :
       /\ t[k].sound /\ t[k].kind # "other" /\ t[k].name \notin BadNames
       /\ Parts[t[k].name] = <<>> => t[k].kind = "dir"
       /\ Size(t[k]) <= MaxFileBytes
       /\ \/ t[k].head <= HeaderBytes
          \/ /\ k = 1 /\ t[k].head <= HeaderBytes + t[k].glob
             /\ t[k].head <= HeaderBytes + GlobalHeaderBytes
  /\ \A j, k \in DOMAIN t : j < k => ~Collide(Part(t[j]), Part(t[k]))

\* The destination or its file system stands in the way of an archive.
Hindered(t) ==
  LET all == UNION {Stands(Parts[t[k].name], t[k].kind) : k \in DOMAIN t}
  IN  \/ \E p, q \in all : p # q /\ Place(p, Fs) = Place(q, Fs)
      \/ \E k \in DOMAIN t : Unreachable(Parts[t[k].name])

\* An archive that keeps to the rules and that nobody touches is unpacked: the
\* second pass, which goes by what the first noted, refuses nothing on its own.
KeptIsUnpacked == pc = "refused" /\ ~touched => ~Kept(tape, room) \/ Hindered(tape)
=============================================================================
