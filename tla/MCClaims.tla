------------------------------ MODULE MCClaims ------------------------------
(***************************************************************************)
(* Claims read, written and vouched for, as three parts of one run that    *)
(* share nothing: what the arms remember of many claims (Memory), the      *)
(* history of one (Provenance) and the life of a package (PackageLife).    *)
(* Each part moves while the others have not begun.                        *)
(***************************************************************************)
EXTENDS Memory, PackageLife

CONSTANTS MaxEvents, MaxDates  \* the bounds of Provenance

VARIABLE file  \* the lines of provenance.jsonl

Chain == INSTANCE Provenance WITH MaxTime <- MaxDates

ASSUME ChainAssumption == Chain!ProvenanceAssumption
ASSUME PackageAssumption == LifeAssumption

-----------------------------------------------------------------------------
(* The directories an author begins with and what he may write.            *)

Event(id, claim, type, time, prev, inst, target) ==
  [id |-> id, claim |-> claim, type |-> type, time |-> time, prev |-> prev,
   inst |-> inst, target |-> target]

Entry(id, inst, state, path) ==
  [id |-> id, inst |-> inst, hash |-> Sha256("x"), path |-> path, state |-> state]

\* LICENSE and an embedded schema.
License == Stray(1, 0)
Schema == Stray(9, 0)

\* A package without claims, with strays and the file of a signer who has
\* signed nothing.
Strayed ==
  (Manifest :> [format |-> "2.0", package |-> 0, claims |-> {}]) @@ (Events :> <<>>)
    @@ (License :> Nothing) @@ (Schema :> Nothing)
    @@ (SignerFile(2) :> SignerManifest(2, "ed25519", CHOOSE k \in RawKey : TRUE))

\* An empty directory, that one, and one of a withdrawn claim, another claim
\* and a NOTICE, with the events out of the order of their times.
Directories ==
  {<<>>, Strayed,
   (Manifest :> [format |-> "2.0", package |-> 0,
                 claims |-> {Entry(1, 1, "withdrawn", 1), Entry(2, 4, "active", 2)}])
     @@ (Events :> <<Event(3, 1, "withdraw", 2, 1, 0, 1),
                     Event(1, 1, "create", 1, 0, 1, 0),
                     Event(4, 2, "create", 1, 0, 4, 0)>>)
     @@ (ClaimFile(1) :> "x") @@ (ClaimFile(2) :> "x")
     @@ (Notice :> Nothing)}

\* Another instance, another state, and two claims of one path.
SomeEntries ==
  {Entry(1, 2, "active", 1), Entry(1, 1, "withdrawn", 1),
   Entry(2, 4, "active", 2), Entry(2, 4, "active", 1)}

SomeEvents == {Event(2, 1, "revise", 2, 1, 2, 1), Event(5, 2, "withdraw", 2, 4, 0, 4)}

SomeStrays == {Schema}

\* The second signer uses the library: the command signs with ed25519 only.
Algorithms == <<"ed25519", "hmac-sha256">>

-----------------------------------------------------------------------------
ClaimsInit == Init /\ Chain!Init /\ LifeInit

Unwritten == file = <<>>
Unpackaged == edits = 0 /\ archive = Nothing /\ Idle

\* Bound: other tools pack that package, what is signed and has no strays, and
\* what pack makes the same archive of.
OthersBounded ==
  job[Packer] = Nothing /\ job'[Packer] # Nothing =>
    \/ dir = Strayed
    \/ Signed \in DOMAIN dir /\ \A n \in DOMAIN dir : n.kind # "stray"
    \/ PackCheck(dir) = "OK" /\ job'[Packer].tree = Packed(dir)

\* Bound: nothing is edited or killed while the package without claims is in
\* the directory, in the archive or on its way there.
StrayedBounded ==
  edits' # edits =>
    LET trees == {dir} \cup {archive.of : x \in {archive} \ {Nothing}}
                   \cup {job[p].tree : p \in {q \in DOMAIN job : job[q] # Nothing}}
    IN  \A t \in trees : Manifest \in DOMAIN t => t[Manifest] # Strayed[Manifest]

ClaimsNext ==
  \/ Unwritten /\ Unpackaged /\ dir = <<>> /\ Next /\ UNCHANGED file /\ UNCHANGED life
  \/ lines = <<>> /\ records = {} /\ Unpackaged /\ dir = <<>> /\ Chain!Next
       /\ UNCHANGED vars /\ UNCHANGED life
  \/ lines = <<>> /\ records = {} /\ Unwritten /\ LifeNext
       /\ OthersBounded /\ StrayedBounded
       /\ UNCHANGED vars /\ UNCHANGED file

ClaimsSpec == ClaimsInit /\ [][ClaimsNext]_<<vars, file, life>>

Symmetric == Permutations(Subject) \cup Permutations(Value)

OnePath == Chain!OnePath

\* The plain claim of a lineage, with one value for each lineage.
Plain(id, created) ==
  [id |-> id, subject |-> "s", object |-> id, state |-> "active", supersedes |-> {},
   from |-> 0, until |-> 0, polarity |-> Absent, created |-> created]

\* Claims of three lineages and two dates that differ from the plain one in a
\* field or not at all; lineage 4 is never loaded.
Fixtures ==
  UNION {
    {c, [c EXCEPT !.object = 4], [c EXCEPT !.state = "superseded"], [c EXCEPT !.subject = "t"],
     [c EXCEPT !.subject = Absent], [c EXCEPT !.subject = Absent, !.from = 1]}
      \cup {[c EXCEPT !.supersedes = {target}] : target \in (1 .. 4) \ {c.id}}
      \cup {[c EXCEPT !.polarity = p] : p \in {"affirm", "negate", "unknown"}}
      \cup {[c EXCEPT !.from = t] : t \in 1 .. MaxTime}
      \cup {[c EXCEPT !.until = t] : t \in 1 .. MaxTime}
    : c \in {Plain(id, created) : id \in 1 .. 3, created \in 1 .. 2}}

=============================================================================
