--------------------------- MODULE TwoPass_proofs ---------------------------
(***************************************************************************)
(* For every archive, policy and interleaving with a process that writes   *)
(* the archive: what one pass may hand to tarfile, which names collide,    *)
(* what is in staging and what of it is collected, and that an archive     *)
(* which keeps to the rules and is not touched is unpacked.                *)
(***************************************************************************)
EXTENDS TwoPass, FiniteSetTheorems, TLAPS

\* The most a member may move the end of what has been read, its data apart.
PerMember == HeaderBytes + BlockSize - 1

SeenMember == [name : Names, kind : {"file", "dir", "other"}, size : Nat,
               offset : Nat, path : {Parts[n] : n \in Names}]

Counters ==
  /\ seen \in Seq(SeenMember)
  /\ declared \in Nat /\ end \in Nat /\ limit \in Nat /\ handed \in Nat

\* What the accepted members account for: their data, and n members' headers
\* and padding.
Worth(n) == n * PerMember
Accounted == declared + Worth(Len(seen))

\* Every accepted member accounts for its headers and the padding of its data;
\* global headers come on top once, with the first.
Bounded ==
  /\ Len(seen) <= MaxFiles /\ declared <= MaxTotalBytes
  /\ end <= Accounted + IF seen = <<>> THEN 0 ELSE GlobalHeaderBytes
  /\ limit <= Accounted + HeaderBytes + GlobalHeaderBytes
  /\ handed <= Accounted + HeaderBytes + GlobalHeaderBytes

IInv == Counters /\ Bounded

\* Whole blocks hold the data, with less than one block to spare.
LEMMA BlocksBound == \A n \in Nat : Blocks(n) \in Nat /\ n <= Blocks(n)
                                    /\ Blocks(n) <= n + BlockSize - 1
BY DEF Blocks, BlockSize

\* The allowance is a number of bytes.
LEMMA Sizes == HeaderBytes \in Nat /\ GlobalHeaderBytes \in Nat /\ PerMember \in Nat
               /\ PerMember = HeaderBytes + 511
<1>1. 4 * MaxPathLength + 1024 \in Nat
  BY TwoPassAssumption
<1>2. Blocks(4 * MaxPathLength + 1024) \in Nat
  BY <1>1, BlocksBound
<1> QED BY <1>2 DEF HeaderBytes, GlobalHeaderBytes, PerMember, BlockSize

\* One member more accounts for its size and its own allowance.
LEMMA OneMore ==
  ASSUME NEW n \in Nat
  PROVE  Worth(n) \in Nat /\ Worth(n + 1) = Worth(n) + PerMember
<1> DEFINE K == PerMember
<1>1. K \in Nat
  BY Sizes
<1> HIDE DEF K
<1>2. n * K \in Nat /\ (n + 1) * K = n * K + K
  BY <1>1
<1> QED BY <1>2 DEF K, Worth

\* No more members than MaxFiles account for no more.
LEMMA Most ==
  ASSUME NEW n \in Nat, NEW m \in Nat, n <= m
  PROVE  Worth(n) <= Worth(m)
<1> DEFINE K == PerMember
<1>1. K \in Nat
  BY Sizes
<1> HIDE DEF K
<1>2. n * K <= m * K
  BY <1>1
<1> QED BY <1>2 DEF K, Worth

\* What is accounted for, before and after a step.
LEMMA AccountedIs == /\ Accounted = declared + Worth(Len(seen))
                     /\ Accounted' = declared' + Worth(Len(seen'))
BY DEF Accounted, Worth, PerMember

LEMMA InitHolds == Init => IInv
<1> SUFFICES ASSUME Init PROVE IInv
  OBVIOUS
<1>1. Counters
  BY DEF Init, Counters
<1>2. Len(seen) = 0 /\ Worth(0) = 0
  BY Sizes DEF Init, Worth
<1> QED BY <1>1, <1>2, Sizes, TwoPassAssumption DEF Init, IInv, Bounded, Accounted

\* A read moves `handed' no further than the limit or what was needed.
LEMMA ReadsBound ==
  ASSUME IInv, NEW n, Reads(n)
  PROVE  handed' = handed \/ handed' = limit \/ handed' = n
BY DEF Reads

LEMMA OpenKeeps == IInv /\ Open => IInv'
<1> SUFFICES ASSUME IInv, Open PROVE IInv'
  OBVIOUS
<1>1. Counters'
  BY Sizes DEF IInv, Counters, Open
<1>2. Len(seen') = 0 /\ Worth(0) = 0 /\ seen' = <<>>
  BY Sizes DEF Open, Worth
<1> QED BY <1>1, <1>2, Sizes, TwoPassAssumption DEF Open, IInv, Bounded, Accounted

\* A member moves the end by its header blocks and its padded data.
LEMMA Moves ==
  ASSUME IInv, NEW h \in Headers, HeaderOK(h)
  PROVE  /\ h \in Header /\ h.head \in Nat /\ Size(h) \in Nat /\ Stored(h) \in Nat
         /\ Stored(h) <= Size(h) + 511
         /\ h.head <= HeaderBytes + IF seen = <<>> THEN GlobalHeaderBytes ELSE 0
         /\ Len(seen) < MaxFiles /\ declared + Size(h) <= MaxTotalBytes
<1>1. h \in Header
  BY TwoPassAssumption
<1>2. h.head \in Nat /\ h.glob \in Nat /\ h.size \in Nat
  BY <1>1 DEF Header
<1>3. Size(h) \in Nat /\ Stored(h) \in Nat /\ Stored(h) <= Size(h) + 511
  BY <1>2, BlocksBound DEF Size, Stored, BlockSize
<1>4. h.head <= Allowance(h)
  BY DEF HeaderOK, ExtentOK
<1>5. h.head <= HeaderBytes + IF seen = <<>> THEN GlobalHeaderBytes ELSE 0
  BY <1>2, <1>4, Sizes DEF Allowance
<1> QED BY <1>1, <1>2, <1>3, <1>5 DEF HeaderOK, BudgetOK

LEMMA MemberKeeps ==
  ASSUME IInv, NEW h \in Headers, Member(h)
  PROVE  IInv'
<1>1. HeaderOK(h)
  BY DEF Member
<1>2. /\ h \in Header /\ h.head \in Nat /\ Size(h) \in Nat /\ Stored(h) \in Nat
      /\ Stored(h) <= Size(h) + 511
      /\ h.head <= HeaderBytes + IF seen = <<>> THEN GlobalHeaderBytes ELSE 0
      /\ Len(seen) < MaxFiles /\ declared + Size(h) <= MaxTotalBytes
  BY <1>1, Moves
<1>3. Counters /\ Len(seen) \in Nat
  BY DEF IInv, Counters
<1>4. /\ declared' = declared + Size(h)
      /\ end' = end + h.head + Stored(h)
      /\ limit' = end' + HeaderBytes
  BY DEF Member, Reach
<1>5. seen' \in Seq(SeenMember) /\ Len(seen') = Len(seen) + 1 /\ seen' # <<>>
  <2>1. h.name \in Names /\ h.kind \in {"file", "dir", "other"} /\ h.size \in Nat
        /\ end + h.glob \in Nat
    BY <1>2, <1>3 DEF Header, Counters
  <2>2. [name |-> h.name, kind |-> h.kind, size |-> h.size,
         offset |-> end + h.glob, path |-> Parts[h.name]] \in SeenMember
    BY <2>1 DEF SeenMember
  <2> QED BY <2>2, <1>3 DEF Member, Counters
<1>6. declared \in Nat /\ end \in Nat /\ limit \in Nat /\ handed \in Nat
  BY <1>3 DEF Counters
<1>7. HeaderBytes \in Nat /\ GlobalHeaderBytes \in Nat /\ PerMember = HeaderBytes + 511
  BY Sizes
<1>8. h.head \in Nat /\ Size(h) \in Nat /\ Stored(h) \in Nat /\ Stored(h) <= Size(h) + 511
  BY <1>2
<1>9. declared' \in Nat /\ end' \in Nat /\ limit' \in Nat
  BY <1>4, <1>6, <1>7, <1>8
<1>10. handed' = handed \/ handed' = limit \/ handed' = end + h.head
  BY ReadsBound DEF Member
<1>11. handed' \in Nat
  BY <1>6, <1>8, <1>10
<1>12. Worth(Len(seen)) \in Nat /\ Worth(Len(seen')) = Worth(Len(seen)) + PerMember
  BY <1>3, <1>5, OneMore
<1>13. Bounded'
  <2>1. Accounted \in Nat /\ Accounted' = Accounted + Size(h) + PerMember
    <3>1. Accounted = declared + Worth(Len(seen))
      BY AccountedIs
    <3>2. Accounted' = declared + Size(h) + Worth(Len(seen)) + PerMember
      <4>1. Accounted' = declared' + Worth(Len(seen'))
        BY AccountedIs
      <4> QED BY <4>1, <1>4, <1>6, <1>7, <1>8, <1>12
    <3>3. declared \in Nat /\ Worth(Len(seen)) \in Nat /\ Size(h) \in Nat /\ PerMember \in Nat
      BY <1>6, <1>7, <1>8, <1>12
    <3> DEFINE a == declared
               b == Worth(Len(seen))
               size == Size(h)
    <3>4. a \in Nat /\ b \in Nat /\ size \in Nat /\ Accounted = a + b
          /\ Accounted' = a + size + b + PerMember
      BY <3>1, <3>2, <3>3, Zenon
    <3> HIDE DEF a, b, size
    <3>5. Accounted \in Nat /\ Accounted' = Accounted + size + PerMember
      BY <3>3, <3>4
    <3> QED BY <3>5, Zenon DEF size
  <2>2. /\ limit <= Accounted + HeaderBytes + GlobalHeaderBytes
        /\ handed <= Accounted + HeaderBytes + GlobalHeaderBytes
    BY DEF IInv, Bounded
  <2>3. end + h.head <= Accounted + HeaderBytes + GlobalHeaderBytes
    <3>1. CASE seen = <<>>
      <4>1. end <= Accounted /\ h.head <= HeaderBytes + GlobalHeaderBytes
        BY <3>1, <1>2, <1>6, <2>1 DEF IInv, Bounded
      <4> QED BY <4>1, <1>6, <1>7, <1>8, <2>1
    <3>2. CASE seen # <<>>
      <4>1. end <= Accounted + GlobalHeaderBytes /\ h.head <= HeaderBytes
        BY <3>2, <1>2, <1>7 DEF IInv, Bounded
      <4> QED BY <4>1, <1>6, <1>7, <1>8, <2>1
    <3> QED BY <3>1, <3>2
  <2>4. end' <= Accounted' + GlobalHeaderBytes
    BY <1>4, <1>6, <1>7, <1>8, <2>1, <2>3
  <2>5. handed' <= Accounted' + HeaderBytes + GlobalHeaderBytes
    BY <1>6, <1>7, <1>8, <1>10, <2>1, <2>2, <2>3
  <2>6. limit' <= Accounted' + HeaderBytes + GlobalHeaderBytes
    BY <1>4, <1>7, <1>9, <2>1, <2>4
  <2>7. Len(seen') <= MaxFiles /\ declared' <= MaxTotalBytes
    BY <1>2, <1>3, <1>4, <1>5, TwoPassAssumption
  <2> QED BY <1>5, <2>4, <2>5, <2>6, <2>7 DEF Bounded
<1> QED BY <1>5, <1>9, <1>11, <1>13 DEF IInv, Counters

\* A step that reads on within the limit and takes no member keeps the bound.
LEMMA ReadingKeeps ==
  ASSUME IInv, UNCHANGED <<seen, declared, end, limit>>,
         handed' \in {handed, limit, end, end + HeaderBytes}
  PROVE  IInv'
<1>1. Counters /\ Len(seen) \in Nat
  BY DEF IInv, Counters
<1>2. Accounted' = Accounted
  BY AccountedIs
<1>3. Accounted \in Nat
  <2>1. Worth(Len(seen)) \in Nat /\ declared \in Nat
    BY <1>1, OneMore DEF Counters
  <2> QED BY <2>1, AccountedIs
<1>4. handed' \in Nat /\ handed' <= Accounted + HeaderBytes + GlobalHeaderBytes
  BY <1>1, <1>3, Sizes DEF IInv, Bounded, Counters
<1> QED BY <1>1, <1>2, <1>4 DEF IInv, Bounded, Counters

LEMMA NextKeeps == IInv /\ [Next]_vars => IInv'
<1> SUFFICES ASSUME IInv, [Next]_vars PROVE IInv'
  OBVIOUS
<1>1. CASE Open
  BY <1>1, OpenKeeps
<1>2. ASSUME NEW h \in Headers, Member(h) PROVE IInv'
  BY <1>2, MemberKeeps
<1>3. ASSUME NEW h \in Headers, RefuseMember(h) PROVE IInv'
  BY <1>3, ReadsBound, ReadingKeeps DEF RefuseMember, Refused
<1>4. CASE Damaged
  BY <1>4, ReadsBound, ReadingKeeps DEF Damaged, Refused
<1>5. CASE EndOfArchive
  BY <1>5, ReadsBound, ReadingKeeps DEF EndOfArchive
<1>6. ASSUME NEW c \in Contents, Write(c) PROVE IInv'
  BY <1>6, ReadsBound, ReadingKeeps DEF Write
<1>7. CASE RefuseWrite
  BY <1>7, ReadsBound, ReadingKeeps DEF RefuseWrite, Refused
<1>8. CASE UNCHANGED vars
  BY <1>8, ReadingKeeps DEF vars
<1> QED BY <1>1, <1>2, <1>3, <1>4, <1>5, <1>6, <1>7, <1>8 DEF Next, Ended

\* One pass never hands tarfile more than the budgets and the allowances of
\* MaxFiles members come to, whatever the headers say and however the archive
\* changes meanwhile.
THEOREM HandedIsBounded == Spec => []HandedBounded
<1>1. IInv => HandedBounded
  <2> SUFFICES ASSUME IInv PROVE HandedBounded
    OBVIOUS
  <2>1. Len(seen) \in Nat /\ declared \in Nat /\ handed \in Nat
    BY DEF IInv, Counters
  <2>2. Worth(Len(seen)) <= Worth(MaxFiles)
    BY <2>1, Most, TwoPassAssumption DEF IInv, Bounded
  <2>3. Worth(Len(seen)) \in Nat /\ Worth(MaxFiles) \in Nat
    BY <2>1, OneMore, TwoPassAssumption
  <2>4. handed <= MaxTotalBytes + Worth(MaxFiles) + HeaderBytes + GlobalHeaderBytes
    BY <2>1, <2>2, <2>3, Sizes, TwoPassAssumption DEF IInv, Bounded, Accounted
  <2> QED BY <2>4 DEF HandedBounded, PerMember, Worth
<1> QED BY <1>1, InitHolds, NextKeeps, PTL DEF Spec

-----------------------------------------------------------------------------
(* MemberNames: while the first pass runs, the tables say of the members   *)
(* accepted so far what their names say one by one.                        *)

Tables ==
  /\ dirs = {q \in Seq(DOMAIN Key) :
               \E k \in DOMAIN seen : q \in Spelled(seen[k].path, seen[k].kind)}
  /\ explicit = {Place(seen[k].path, Key) :
                   k \in {j \in DOMAIN seen : seen[j].kind = "dir" /\ seen[j].path # <<>>}}
  /\ files = {Place(seen[k].path, Key) : k \in {j \in DOMAIN seen : seen[j].kind # "dir"}}

NamesInv ==
  /\ pass \in Nat /\ (pc \in {"next", "data"} => pass > 0)
  /\ pass = 0 => dirs = {} /\ explicit = {} /\ files = {} /\ seen = <<>>
  /\ pass < 2 => \A k \in DOMAIN seen :
       /\ seen[k].kind \in {"file", "dir"}
       /\ seen[k].path = <<>> => seen[k].kind = "dir"
  /\ pass = 1 => Tables

\* A path names directories by sequences of components.
LEMMA SpelledPaths ==
  ASSUME NEW p \in Seq(DOMAIN Key), NEW kind, NEW q \in Spelled(p, kind)
  PROVE  q \in Seq(DOMAIN Key)
BY DEF Spelled, Above

\* Only the root has the key of the root.
LEMMA RootAlone ==
  ASSUME NEW p \in Seq(DOMAIN Key), NEW q \in Seq(DOMAIN Key),
         Place(p, Key) = Place(q, Key), p # <<>>
  PROVE  q # <<>>
BY DEF Place

\* The tables refuse exactly what collides with some member one by one.
LEMMA TablesDecide ==
  ASSUME Tables, NEW p \in Seq(DOMAIN Key), NEW kind \in {"file", "dir"},
         p # <<>> \/ kind = "dir",
         \A k \in DOMAIN seen :
           /\ seen[k].path \in Seq(DOMAIN Key) /\ seen[k].kind \in {"file", "dir"}
           /\ seen[k].path = <<>> => seen[k].kind = "dir"
  PROVE  Collision(p, kind) <=>
           \E k \in DOMAIN seen : Collide(seen[k], [path |-> p, kind |-> kind])
<1> DEFINE n == [path |-> p, kind |-> kind]
<1>1. n.path = p /\ n.kind = kind
  OBVIOUS
<1> HIDE DEF n
<1>2. ASSUME Collision(p, kind) PROVE \E k \in DOMAIN seen : Collide(seen[k], n)
  <2>1. CASE \E q \in Spelled(p, kind) : Place(q, Key) \in files
    <3>1. PICK q \in Spelled(p, kind), k \in DOMAIN seen :
            seen[k].kind = "file" /\ Place(seen[k].path, Key) = Place(q, Key)
      BY <2>1 DEF Tables
    <3>2. CASE q \in Above(p)
      BY <3>1, <3>2, <1>1 DEF Collide
    <3>3. CASE q = p
      BY <3>1, <3>3, <1>1 DEF Collide
    <3> QED BY <3>1, <3>2, <3>3 DEF Spelled
  <2>2. CASE \E q \in Spelled(p, kind) : \E r \in dirs : Place(r, Key) = Place(q, Key) /\ r # q
    <3>1. PICK q \in Spelled(p, kind), k \in DOMAIN seen :
            \E r \in Spelled(seen[k].path, seen[k].kind) :
              Place(r, Key) = Place(q, Key) /\ r # q
      BY <2>2 DEF Tables
    <3> QED BY <3>1, <1>1 DEF Collide
  <2>3. CASE kind = "dir" /\ p # <<>> /\ Place(p, Key) \in explicit
    BY <2>3, <1>1 DEF Tables, Collide
  <2>4. CASE kind # "dir" /\ Place(p, Key) \in files
    BY <2>4, <1>1 DEF Tables, Collide
  <2>5. CASE kind # "dir" /\ \E q \in dirs : Place(p, Key) = Place(q, Key)
    <3>1. PICK k \in DOMAIN seen : \E q \in Spelled(seen[k].path, seen[k].kind) :
            Place(p, Key) = Place(q, Key)
      BY <2>5 DEF Tables
    <3>2. PICK q \in Spelled(seen[k].path, seen[k].kind) : Place(p, Key) = Place(q, Key)
      BY <3>1
    <3>3. CASE q \in Above(seen[k].path)
      BY <3>2, <3>3, <2>5, <1>1 DEF Collide
    <3>4. CASE q = seen[k].path /\ q # <<>>
      BY <3>2, <3>4, <1>1 DEF Collide
    <3> QED BY <3>2, <3>3, <3>4 DEF Spelled
  <2> QED BY <1>2, <2>1, <2>2, <2>3, <2>4, <2>5 DEF Collision, Claimed
<1>3. ASSUME NEW k \in DOMAIN seen, Collide(seen[k], n) PROVE Collision(p, kind)
  <2>1. CASE Place(seen[k].path, Key) = Place(p, Key) /\ seen[k].path # <<>>
    <3>1. p # <<>>
      BY <2>1, RootAlone
    <3>2. CASE seen[k].kind = "file"
      <4>1. Place(p, Key) \in files
        BY <2>1, <3>2 DEF Tables
      <4> QED BY <3>1, <4>1 DEF Collision, Claimed, Spelled
    <3>3. CASE seen[k].kind = "dir" /\ kind = "dir"
      <4>1. Place(p, Key) \in explicit
        BY <2>1, <3>3 DEF Tables
      <4> QED BY <3>1, <3>3, <4>1 DEF Collision
    <3>4. CASE seen[k].kind = "dir" /\ kind = "file"
      <4>1. seen[k].path \in dirs
        BY <2>1, <3>4 DEF Tables, Spelled
      <4> QED BY <2>1, <3>4, <4>1 DEF Collision
    <3> QED BY <3>2, <3>3, <3>4
  <2>2. CASE seen[k].kind = "file" /\ \E q \in Above(p) : Place(seen[k].path, Key) = Place(q, Key)
    <3>1. PICK q \in Above(p) : Place(q, Key) \in files
      BY <2>2 DEF Tables
    <3> QED BY <3>1 DEF Collision, Claimed, Spelled
  <2>3. CASE kind = "file" /\ \E q \in Above(seen[k].path) : Place(p, Key) = Place(q, Key)
    <3>1. PICK q \in Above(seen[k].path) : Place(p, Key) = Place(q, Key)
      BY <2>3
    <3>2. q \in Spelled(seen[k].path, seen[k].kind)
      BY <3>1 DEF Spelled
    <3>3. q \in dirs
      BY <3>2, SpelledPaths DEF Tables
    <3> QED BY <2>3, <3>1, <3>3 DEF Collision
  <2>4. CASE \E r \in Spelled(seen[k].path, seen[k].kind), q \in Spelled(p, kind) :
               r # q /\ Place(r, Key) = Place(q, Key)
    <3>1. PICK r \in Spelled(seen[k].path, seen[k].kind), q \in Spelled(p, kind) :
            r # q /\ Place(r, Key) = Place(q, Key)
      BY <2>4
    <3>2. r \in dirs
      BY <3>1, SpelledPaths DEF Tables
    <3> QED BY <3>1, <3>2 DEF Collision, Claimed
  <2> QED BY <1>1, <1>3, <2>1, <2>2, <2>3, <2>4 DEF Collide
<1> QED BY <1>2, <1>3 DEF n

LEMMA NamesInit == Init => NamesInv
BY DEF Init, NamesInv

\* A member the first pass accepts goes into the tables.
LEMMA MemberKeepsNames ==
  ASSUME IInv, NamesInv, NEW h \in Headers, Member(h)
  PROVE  NamesInv'
<1>1. CASE pass = 1
  <2> DEFINE m == [name |-> h.name, kind |-> h.kind, size |-> h.size,
                   offset |-> end + h.glob, path |-> Parts[h.name]]
  <2>1. h \in Header /\ Parts[h.name] \in Seq(DOMAIN Key)
    BY TwoPassAssumption DEF Header
  <2>2. seen \in Seq(SeenMember) /\ m \in SeenMember /\ seen' = Append(seen, m)
    <3>1. end + h.glob \in Nat /\ h.name \in Names
          /\ h.kind \in {"file", "dir", "other"} /\ h.size \in Nat
      BY <2>1 DEF IInv, Counters, Header
    <3>2. m \in SeenMember
      BY <3>1 DEF SeenMember
    <3> QED BY <3>2 DEF IInv, Counters, Member
  <2>3. /\ h.kind \in {"file", "dir"} /\ (Parts[h.name] = <<>> => h.kind = "dir")
        /\ AddName(Parts[h.name], h.kind)
    BY <1>1 DEF Member, HeaderOK, ExtentOK, NameOK
  <2>4. m.kind = h.kind /\ m.path = Parts[h.name]
    OBVIOUS
  <2> HIDE DEF m
  <2>5. /\ DOMAIN seen' = DOMAIN seen \cup {Len(seen) + 1}
        /\ seen'[Len(seen) + 1] = m
        /\ \A k \in DOMAIN seen : seen'[k] = seen[k]
    BY <2>2
  <2>6. Tables
    BY <1>1 DEF NamesInv
  <2>7. dirs' = {q \in Seq(DOMAIN Key) :
                  \E k \in DOMAIN seen' : q \in Spelled(seen'[k].path, seen'[k].kind)}
    <3>1. dirs' = dirs \cup Spelled(m.path, m.kind)
      BY <2>3, <2>4 DEF AddName
    <3>2. \A q \in Spelled(m.path, m.kind) : q \in Seq(DOMAIN Key)
      BY <2>1, <2>4, SpelledPaths
    <3> QED BY <3>1, <3>2, <2>5, <2>6 DEF Tables
  <2>8. explicit' = {Place(seen'[k].path, Key) :
                      k \in {j \in DOMAIN seen' : seen'[j].kind = "dir" /\ seen'[j].path # <<>>}}
    <3>1. CASE m.kind = "dir" /\ m.path # <<>>
      <4>1. explicit' = explicit \cup {Place(m.path, Key)}
        <5>1. Place(m.path, Key) # <<>>
          BY <3>1, <2>1, <2>4 DEF Place
        <5> QED BY <3>1, <5>1, <2>3, <2>4 DEF AddName
      <4> QED BY <3>1, <4>1, <2>5, <2>6 DEF Tables
    <3>2. CASE m.kind # "dir"
      <4>1. explicit' = explicit
        BY <3>2, <2>3, <2>4 DEF AddName
      <4> QED BY <3>2, <4>1, <2>5, <2>6 DEF Tables
    <3>3. CASE m.path = <<>>
      <4>1. Place(m.path, Key) = <<>>
        BY <3>3 DEF Place
      <4>2. explicit' = explicit
        BY <4>1, <2>3, <2>4 DEF AddName
      <4> QED BY <3>3, <4>2, <2>5, <2>6 DEF Tables
    <3> QED BY <3>1, <3>2, <3>3
  <2>9. files' = {Place(seen'[k].path, Key) : k \in {j \in DOMAIN seen' : seen'[j].kind # "dir"}}
    <3>1. files' = files \cup (IF m.kind = "dir" THEN {} ELSE {Place(m.path, Key)})
      BY <2>3, <2>4 DEF AddName
    <3> QED BY <3>1, <2>5, <2>6 DEF Tables
  <2>10. pass' = 1 /\ pc' = "next"
    BY <1>1 DEF Member
  <2>11. \A k \in DOMAIN seen' : /\ seen'[k].kind \in {"file", "dir"}
                                 /\ seen'[k].path = <<>> => seen'[k].kind = "dir"
    BY <1>1, <2>3, <2>4, <2>5 DEF NamesInv
  <2> QED BY <2>7, <2>8, <2>9, <2>10, <2>11 DEF NamesInv, Tables
<1>2. CASE pass # 1
  <2>1. pass \in Nat /\ pass > 1 /\ pass' = pass /\ pc' = "data"
    BY <1>2 DEF NamesInv, Member
  <2> QED BY <2>1 DEF NamesInv
<1> QED BY <1>1, <1>2

\* Opening the archive again clears what was seen; the tables are filled only
\* by the first pass.
LEMMA OpenKeepsNames == NamesInv /\ Open => NamesInv'
<1> SUFFICES ASSUME NamesInv, Open PROVE NamesInv'
  OBVIOUS
<1>1. pass \in Nat /\ pass' = pass + 1 /\ seen' = <<>> /\ UNCHANGED names
  BY DEF NamesInv, Open
<1>2. CASE pass = 0
  <2>1. dirs' = {} /\ explicit' = {} /\ files' = {}
    BY <1>1, <1>2 DEF NamesInv, names
  <2>2. Tables'
    BY <1>1, <2>1 DEF Tables
  <2> QED BY <1>1, <1>2, <2>2 DEF NamesInv
<1>3. CASE pass # 0
  BY <1>1, <1>3 DEF NamesInv
<1> QED BY <1>2, <1>3

\* Every other step leaves the members and the tables alone.
LEMMA StillKeepsNames ==
  ASSUME NamesInv, UNCHANGED <<pass, seen, names>>,
         pc' \in {"next", "data"} => pc \in {"next", "data"}
  PROVE  NamesInv'
BY DEF NamesInv, Tables, names

LEMMA NextKeepsNames == IInv /\ NamesInv /\ [Next]_vars => NamesInv'
<1> SUFFICES ASSUME IInv, NamesInv, [Next]_vars PROVE NamesInv'
  OBVIOUS
<1>1. CASE Open
  BY <1>1, OpenKeepsNames
<1>2. ASSUME NEW h \in Headers, Member(h) PROVE NamesInv'
  BY <1>2, MemberKeepsNames
<1>3. ASSUME NEW h \in Headers, RefuseMember(h) PROVE NamesInv'
  BY <1>3, StillKeepsNames DEF RefuseMember, Refused
<1>4. CASE Damaged
  BY <1>4, StillKeepsNames DEF Damaged, Refused
<1>5. CASE EndOfArchive
  BY <1>5, StillKeepsNames DEF EndOfArchive
<1>6. ASSUME NEW c \in Contents, Write(c) PROVE NamesInv'
  BY <1>6, StillKeepsNames DEF Write
<1>7. CASE RefuseWrite
  BY <1>7, StillKeepsNames DEF RefuseWrite, Refused
<1>8. CASE UNCHANGED vars
  BY <1>8, StillKeepsNames DEF vars
<1> QED BY <1>1, <1>2, <1>3, <1>4, <1>5, <1>6, <1>7, <1>8 DEF Next, Ended

\* The tables of MemberNames refuse a name exactly when it collides with a
\* member accepted before, for all names, keys and numbers of members.
THEOREM NamesAreApart == Spec => []NamesApart
<1>1. IInv /\ NamesInv => NamesApart
  <2> SUFFICES ASSUME IInv, NamesInv, pass = 1, pc = "next",
                      NEW n \in Names \ BadNames, NEW kind \in {"file", "dir"},
                      Parts[n] # <<>> \/ kind = "dir"
               PROVE  Collision(Parts[n], kind) <=>
                        \E k \in DOMAIN seen :
                          Collide(seen[k], [path |-> Parts[n], kind |-> kind])
    BY DEF NamesApart
  <2>1. Parts[n] \in Seq(DOMAIN Key)
    BY TwoPassAssumption
  <2>2. Tables
    BY DEF NamesInv
  <2>3. \A k \in DOMAIN seen :
          /\ seen[k].path \in Seq(DOMAIN Key) /\ seen[k].kind \in {"file", "dir"}
          /\ seen[k].path = <<>> => seen[k].kind = "dir"
    <3> SUFFICES ASSUME NEW k \in DOMAIN seen
                 PROVE  /\ seen[k].path \in Seq(DOMAIN Key) /\ seen[k].kind \in {"file", "dir"}
                        /\ seen[k].path = <<>> => seen[k].kind = "dir"
      OBVIOUS
    <3>1. seen[k] \in SeenMember
      BY DEF IInv, Counters
    <3>2. seen[k].path \in Seq(DOMAIN Key)
      BY <3>1, TwoPassAssumption DEF SeenMember
    <3> QED BY <3>2 DEF NamesInv
  <2> QED BY <2>1, <2>2, <2>3, TablesDecide
<1> QED BY <1>1, InitHolds, NextKeeps, NamesInit, NextKeepsNames, PTL DEF Spec

-----------------------------------------------------------------------------
(* Staging: what the second pass has written so far.                      *)

\* How many members of this pass are in staging.
Done == IF pc = "data" THEN Len(seen) - 1 ELSE Len(seen)

FromChecked(e) ==
  \E k \in DOMAIN checked :
    LET m == checked[k] IN
    IF staging[e].data = Absent
    THEN \E q \in Spelled(m.path, m.kind) : Place(q, Fs) = e
    ELSE m.kind = "file" /\ Place(m.path, Fs) = e /\ staging[e].size = m.size

Placed(k) ==
  /\ k \in DOMAIN checked
  /\ \A q \in Stands(checked[k].path, checked[k].kind) : Place(q, Fs) \in DOMAIN staging

OutInv ==
  /\ pass \in {0, 1, 2} /\ checked \in Seq(SeenMember)
  /\ written \in Nat /\ written <= MaxTotalBytes
  /\ room \in Nat /\ (room > 0 => written <= room)
  /\ pass # 2 => DOMAIN staging = {} /\ made = {}
  /\ pc = "open" => pass # 2
  /\ pc = "next" => pass # 0
  /\ pc = "data" => pass = 2 /\ seen # <<>>
  /\ pc = "ok" => pass = 2 /\ Len(seen) = Len(checked)
  /\ \A q \in made : Place(q, Fs) \in DOMAIN staging
  /\ \A e \in DOMAIN staging : FromChecked(e)
  /\ pass = 2 /\ pc # "refused" =>
       /\ \A k \in 1 .. Done : Placed(k)
       /\ \A j, k \in 1 .. Done :
            j # k /\ checked[j].kind = "file" /\ checked[k].kind = "file" =>
              Place(checked[j].path, Fs) # Place(checked[k].path, Fs)

LEMMA OutInit == Init => OutInv
<1> SUFFICES ASSUME Init PROVE OutInv
  OBVIOUS
<1>1. room \in Nat
  BY TwoPassAssumption DEF Init
<1>2. DOMAIN staging = {} /\ checked \in Seq(SeenMember)
  BY DEF Init
<1> QED BY <1>1, <1>2, TwoPassAssumption DEF Init, OutInv

\* A step that leaves staging and what it is compared with alone.
LEMMA StillKeepsOut ==
  ASSUME OutInv, UNCHANGED <<room, pass, seen, checked, made, staging, written>>,
         pc' = pc \/ pc' = "refused"
  PROVE  OutInv'
<1>1. CASE pc' = pc
  BY <1>1 DEF OutInv, Done, Placed, FromChecked
<1>2. CASE pc' = "refused"
  BY <1>2 DEF OutInv, FromChecked
<1> QED BY <1>1, <1>2

LEMMA OpenKeepsOut ==
  ASSUME OutInv, Open
  PROVE  OutInv'
<1>1. /\ pass \in {0, 1} /\ pass' = pass + 1 /\ pc' = "next" /\ seen' = <<>>
      /\ UNCHANGED <<room, checked, made, staging, written>>
  BY DEF OutInv, Open, output
<1>2. DOMAIN staging' = {} /\ made' = {} /\ Done' = 0
  BY <1>1 DEF OutInv, Done
<1> QED BY <1>1, <1>2 DEF OutInv

LEMMA MemberKeepsOut ==
  ASSUME IInv, OutInv, NEW h \in Headers, Member(h)
  PROVE  OutInv'
<1>1. /\ UNCHANGED <<room, pass, checked, made, staging, written>>
      /\ pc = "next" /\ pass \in {1, 2} /\ pc' = IF pass = 1 THEN "next" ELSE "data"
  BY DEF OutInv, Member, output
<1>2. seen \in Seq(SeenMember)
  BY DEF IInv, Counters
<1>3. PICK m : seen' = Append(seen, m)
  BY DEF Member
<1>4. Len(seen) \in Nat /\ Len(seen') = Len(seen) + 1 /\ seen' # <<>>
  BY <1>2, <1>3
<1>5. CASE pass = 1
  BY <1>1, <1>5 DEF OutInv
<1>6. CASE pass = 2
  <2>1. Done' = Done
    BY <1>1, <1>4, <1>6 DEF Done
  <2> QED BY <1>1, <1>4, <1>6, <2>1 DEF OutInv, Placed, FromChecked
<1> QED BY <1>1, <1>5, <1>6

LEMMA EndKeepsOut ==
  ASSUME IInv, OutInv, EndOfArchive
  PROVE  OutInv'
<1>1. /\ UNCHANGED <<room, pass, seen, made, staging, written>>
      /\ pc = "next" /\ pass \in {1, 2}
  BY DEF OutInv, EndOfArchive, output
<1>2. seen \in Seq(SeenMember)
  BY DEF IInv, Counters
<1>3. CASE pass = 1
  <2>1. pc' = "open" /\ checked' = seen /\ DOMAIN staging' = {} /\ made' = {}
    <3>1. pc' = "open" /\ checked' = seen
      BY <1>3 DEF EndOfArchive
    <3>2. DOMAIN staging = {} /\ made = {}
      BY <1>3 DEF OutInv
    <3> QED BY <1>1, <3>1, <3>2
  <2> QED BY <1>1, <1>2, <1>3, <2>1 DEF OutInv
<1>4. CASE pass = 2
  <2>1. checked' = checked
    BY <1>4 DEF EndOfArchive
  <2>2. CASE Len(seen) = Len(checked)
    <3>1. pc' = "ok"
      BY <1>4, <2>2 DEF EndOfArchive
    <3>2. Done' = Done
      BY <1>1, <3>1 DEF Done
    <3> QED BY <1>1, <1>4, <2>1, <2>2, <3>1, <3>2 DEF OutInv, Placed, FromChecked
  <2>3. CASE Len(seen) # Len(checked)
    <3>1. pc' = "refused"
      BY <1>4, <2>3 DEF EndOfArchive
    <3> QED BY <1>1, <2>1, <3>1 DEF OutInv, FromChecked
  <2> QED BY <2>2, <2>3
<1> QED BY <1>1, <1>3, <1>4

\* What one write does to staging, for a member the first pass checked.
LEMMA WriteDoes ==
  ASSUME IInv, OutInv, NEW c \in Contents, Write(c)
  PROVE  /\ pass = 2 /\ Len(seen) \in DOMAIN checked /\ Done = Len(seen) - 1
         /\ Here.kind = Now.kind /\ Here.size = Now.size
         /\ Creates(Now.path, Now.kind) \cap DOMAIN staging = {}
         /\ DOMAIN staging' = DOMAIN staging \cup Creates(Now.path, Now.kind)
         /\ \A e \in DOMAIN staging : staging'[e] = staging[e]
         /\ \A e \in Creates(Now.path, Now.kind) :
              staging'[e] = IF Now.kind = "file" /\ e = Place(Now.path, Fs)
                            THEN [data |-> c, size |-> Now.size]
                            ELSE [data |-> Absent, size |-> 0]
         /\ made' = made \cup ToMake(Now.path, Now.kind)
<1>1. pass = 2 /\ seen # <<>> /\ pc = "data"
  BY DEF OutInv, Write
<1>2. Len(seen) \in Nat /\ Len(seen) > 0
  BY <1>1 DEF IInv, Counters
<1>3. WriteOK /\ SameMember
  BY DEF Write, WriteOK
<1>4. Len(seen) \in DOMAIN checked /\ Done = Len(seen) - 1
  BY <1>1, <1>2, <1>3 DEF SameMember, OutInv, Done
<1>5. Here.kind = Now.kind /\ Here.size = Now.size
  BY <1>3 DEF SameMember
<1>6. Creates(Now.path, Now.kind) \cap DOMAIN staging = {}
  BY <1>3, <1>5 DEF WriteOK
<1>7. /\ staging' = [e \in DOMAIN staging \cup Creates(Now.path, Now.kind) |->
                       IF e \in DOMAIN staging THEN staging[e]
                       ELSE IF Now.kind = "file" /\ e = Place(Now.path, Fs)
                       THEN [data |-> c, size |-> Now.size]
                       ELSE [data |-> Absent, size |-> 0]]
      /\ made' = made \cup ToMake(Now.path, Now.kind)
  BY <1>5 DEF Write
<1> HIDE DEF Creates, ToMake, Now, Here
<1>8. \A e \in Creates(Now.path, Now.kind) : e \notin DOMAIN staging
  BY <1>6
<1> QED BY <1>1, <1>4, <1>5, <1>6, <1>7, <1>8

LEMMA WriteKeepsOut ==
  ASSUME IInv, OutInv, NEW c \in Contents, Write(c)
  PROVE  OutInv'
<1> DEFINE p == Now.path
           kind == Now.kind
<1>1. /\ pass = 2 /\ Len(seen) \in DOMAIN checked /\ Done = Len(seen) - 1
      /\ Here.kind = kind /\ Here.size = Now.size
      /\ Creates(p, kind) \cap DOMAIN staging = {}
      /\ DOMAIN staging' = DOMAIN staging \cup Creates(p, kind)
      /\ \A e \in DOMAIN staging : staging'[e] = staging[e]
      /\ \A e \in Creates(p, kind) :
           staging'[e] = IF kind = "file" /\ e = Place(p, Fs)
                         THEN [data |-> c, size |-> Now.size]
                         ELSE [data |-> Absent, size |-> 0]
      /\ made' = made \cup ToMake(p, kind)
  BY WriteDoes
<1>2. UNCHANGED <<room, pass, seen, checked>> /\ pc' = "next" /\ pc = "data"
  BY DEF Write
<1>3. Len(seen) \in Nat /\ Len(seen) > 0 /\ Done' = Len(seen)
  BY <1>2 DEF IInv, Counters, Done, OutInv
<1>4. Now = checked[Len(seen)]
  BY DEF Now
<1>5. Now \in SeenMember /\ Size(Here) \in Nat
  <2>1. Now \in SeenMember
    BY <1>1, <1>4 DEF OutInv
  <2> QED BY <2>1, <1>1 DEF SeenMember, Size
<1>6. /\ written' \in Nat /\ written' <= MaxTotalBytes
      /\ room' \in Nat /\ (room' > 0 => written' <= room')
  <2>1. /\ written' = written + Size(Here)
        /\ written + Size(Here) <= MaxTotalBytes
        /\ room > 0 => written + Size(Here) <= room
    BY DEF Write, WriteOK
  <2> QED BY <2>1, <1>2, <1>5 DEF OutInv
<1>7. \A q \in made' : Place(q, Fs) \in DOMAIN staging'
  BY <1>1 DEF OutInv, Creates
<1>8. \A q \in Stands(p, kind) : Place(q, Fs) \in DOMAIN staging'
  <2>1. \A q \in Spelled(p, kind) : q \in made'
    BY <1>1 DEF ToMake
  <2>2. kind = "file" => Place(p, Fs) \in DOMAIN staging'
    BY <1>1 DEF Creates
  <2> QED BY <1>7, <2>1, <2>2 DEF Stands
<1>9. \A e \in DOMAIN staging' : FromChecked(e)'
  <2> SUFFICES ASSUME NEW e \in DOMAIN staging' PROVE FromChecked(e)'
    OBVIOUS
  <2>1. CASE e \in DOMAIN staging
    <3>1. FromChecked(e) /\ staging'[e] = staging[e] /\ checked' = checked
      BY <2>1, <1>1, <1>2 DEF OutInv
    <3> QED BY <3>1 DEF FromChecked
  <2>2. CASE e \in Creates(p, kind) /\ kind = "file" /\ e = Place(p, Fs)
    <3>1. staging'[e].data = c /\ staging'[e].size = Now.size /\ c # Absent
      BY <2>2, <1>1, TwoPassAssumption
    <3>2. checked' = checked /\ Len(seen) \in DOMAIN checked
      BY <1>1, <1>2
    <3> QED BY <3>1, <3>2, <2>2, <1>4 DEF FromChecked
  <2>3. CASE e \in Creates(p, kind) /\ ~(kind = "file" /\ e = Place(p, Fs))
    <3>1. staging'[e].data = Absent
      BY <2>3, <1>1
    <3>2. \E q \in Spelled(p, kind) : Place(q, Fs) = e
      BY <2>3 DEF Creates, ToMake
    <3>3. checked' = checked /\ Len(seen) \in DOMAIN checked
      BY <1>1, <1>2
    <3> QED BY <3>1, <3>2, <3>3, <1>4 DEF FromChecked
  <2> QED BY <1>1, <2>1, <2>2, <2>3
<1>10. \A k \in 1 .. Done' : Placed(k)'
  <2> SUFFICES ASSUME NEW k \in 1 .. Done' PROVE Placed(k)'
    OBVIOUS
  <2>1. CASE k \in 1 .. Done
    <3>1. Placed(k)
      BY <2>1, <1>1, <1>2 DEF OutInv
    <3> QED BY <3>1, <1>1, <1>2 DEF Placed
  <2>2. CASE k = Len(seen)
    BY <2>2, <1>1, <1>2, <1>4, <1>8 DEF Placed
  <2> QED BY <1>1, <1>3, <2>1, <2>2
<1>11. ASSUME NEW j \in 1 .. Done', NEW k \in 1 .. Done', j # k,
              checked'[j].kind = "file", checked'[k].kind = "file"
       PROVE  Place(checked'[j].path, Fs) # Place(checked'[k].path, Fs)
  <2>1. \A i \in 1 .. Done : checked[i].kind = "file" =>
          Place(checked[i].path, Fs) \in DOMAIN staging
    BY <1>1, <1>2 DEF OutInv, Placed, Stands
  <2>2. kind = "file" => Place(p, Fs) \notin DOMAIN staging
    BY <1>1 DEF Creates
  <2>3. CASE j \in 1 .. Done /\ k \in 1 .. Done
    BY <2>3, <1>1, <1>2, <1>11 DEF OutInv
  <2>4. CASE j \in 1 .. Done /\ k = Len(seen)
    BY <2>1, <2>2, <2>4, <1>2, <1>4, <1>11
  <2>5. CASE k \in 1 .. Done /\ j = Len(seen)
    BY <2>1, <2>2, <2>5, <1>2, <1>4, <1>11
  <2>6. j \in 1 .. Done \/ j = Len(seen)
    BY <1>1, <1>3
  <2>7. k \in 1 .. Done \/ k = Len(seen)
    BY <1>1, <1>3
  <2> QED BY <2>3, <2>4, <2>5, <2>6, <2>7, <1>11
<1>12. pass' \in {0, 1, 2} /\ checked' \in Seq(SeenMember) /\ pass' = 2
  BY <1>1, <1>2 DEF OutInv
<1> QED BY <1>2, <1>6, <1>7, <1>9, <1>10, <1>11, <1>12 DEF OutInv

LEMMA NextKeepsOut == IInv /\ OutInv /\ [Next]_vars => OutInv'
<1> SUFFICES ASSUME IInv, OutInv, [Next]_vars PROVE OutInv'
  OBVIOUS
<1>1. CASE Open
  BY <1>1, OpenKeepsOut
<1>2. ASSUME NEW h \in Headers, Member(h) PROVE OutInv'
  BY <1>2, MemberKeepsOut
<1>3. ASSUME NEW h \in Headers, RefuseMember(h) PROVE OutInv'
  BY <1>3, StillKeepsOut DEF RefuseMember, Refused, output
<1>4. CASE Damaged
  BY <1>4, StillKeepsOut DEF Damaged, Refused, output
<1>5. CASE EndOfArchive
  BY <1>5, EndKeepsOut
<1>6. ASSUME NEW c \in Contents, Write(c) PROVE OutInv'
  BY <1>6, WriteKeepsOut
<1>7. CASE RefuseWrite
  BY <1>7, StillKeepsOut DEF RefuseWrite, Refused, output
<1>8. CASE UNCHANGED vars
  BY <1>8, StillKeepsOut DEF vars, output
<1> QED BY <1>1, <1>2, <1>3, <1>4, <1>5, <1>6, <1>7, <1>8 DEF Next, Ended

\* What is in staging is what the first pass checked, and a call that succeeds
\* wrote all of it, each file at an entry of its own and within the budgets.
THEOREM WrittenIsChecked == Spec => []WrittenWasChecked
<1>1. OutInv => WrittenWasChecked
  <2> SUFFICES ASSUME OutInv PROVE WrittenWasChecked
    OBVIOUS
  <2>1. DOMAIN staging # {} => pass = 2
    BY DEF OutInv
  <2>2. \A e \in DOMAIN staging : FromChecked(e)
    BY DEF OutInv
  <2>3. ASSUME pc = "ok"
        PROVE  /\ \A k \in DOMAIN checked : Placed(k)
               /\ \A j, k \in DOMAIN checked :
                    j # k /\ checked[j].kind = "file" /\ checked[k].kind = "file" =>
                      Place(checked[j].path, Fs) # Place(checked[k].path, Fs)
    <3>1. Done = Len(checked) /\ DOMAIN checked = 1 .. Done
      BY <2>3 DEF OutInv, Done
    <3> QED BY <2>3, <3>1 DEF OutInv
  <2>4. written <= MaxTotalBytes /\ (room > 0 => written <= room)
    BY DEF OutInv
  <2> QED BY <2>1, <2>2, <2>3, <2>4 DEF WrittenWasChecked, FromChecked, Placed
<1> QED BY <1>1, InitHolds, NextKeeps, OutInit, NextKeepsOut, PTL DEF Spec

-----------------------------------------------------------------------------
(* What signature validation reads.                                       *)

\* In a list of members of which no two collide, a name determines the member.
OneEach(l) ==
  /\ \A k \in DOMAIN l : /\ l[k].path = Parts[l[k].name]
                         /\ l[k].path = <<>> => l[k].kind = "dir"
  /\ \A j, k \in DOMAIN l : j # k /\ l[j].path = l[k].path => l[j].path = <<>>

HasFile(w) == \E k \in 1 .. Done : checked[k].name = w /\ checked[k].kind = "file"

AsWritten(w) ==
  IF HasFile(w)
  THEN /\ Place(Parts[w], Fs) \in DOMAIN staging
       /\ collected[w] = staging[Place(Parts[w], Fs)].data
  ELSE collected[w] = Absent

CollectInv ==
  /\ DOMAIN collected = Wanted
  /\ pass = 0 => seen = <<>>
  /\ pass < 2 => OneEach(seen) /\ \A w \in Wanted : collected[w] = Absent
  /\ pass = 1 /\ pc = "open" => checked = seen
  /\ pass = 2 => OneEach(checked)
  /\ pass = 2 /\ pc # "refused" => \A w \in Wanted : AsWritten(w)

LEMMA CollectInit == Init => CollectInv
BY DEF Init, CollectInv, OneEach

\* A step that leaves the members, staging and the collection alone.
LEMMA StillKeepsCollect ==
  ASSUME CollectInv,
         UNCHANGED <<pass, seen, checked, staging, collected>>,
         pc' = pc \/ pc' = "refused"
  PROVE  CollectInv'
<1>1. CASE pc' = pc
  BY <1>1 DEF CollectInv, OneEach, AsWritten, HasFile, Done
<1>2. CASE pc' = "refused"
  BY <1>2 DEF CollectInv, OneEach
<1> QED BY <1>1, <1>2

LEMMA OpenKeepsCollect ==
  ASSUME OutInv, CollectInv, Open
  PROVE  CollectInv'
<1>1. /\ pass \in {0, 1} /\ pass' = pass + 1 /\ pc' = "next" /\ pc = "open"
      /\ seen' = <<>> /\ UNCHANGED <<checked, staging, collected>>
  BY DEF OutInv, Open, output
<1>2. Done' = 0 /\ OneEach(seen')
  BY <1>1 DEF Done, OneEach
<1>3. pass' = 2 => OneEach(checked')
  BY <1>1 DEF CollectInv, OneEach
<1>4. \A w \in Wanted : AsWritten(w)'
  BY <1>1, <1>2 DEF CollectInv, AsWritten, HasFile
<1> QED BY <1>1, <1>2, <1>3, <1>4 DEF CollectInv, OneEach

\* A member the first pass accepts has a path no earlier member has.
LEMMA AcceptedIsNew ==
  ASSUME IInv, NamesInv, NEW h \in Headers, Member(h), pass = 1
  PROVE  /\ Parts[h.name] = <<>> => h.kind = "dir"
         /\ \A k \in DOMAIN seen : seen[k].path = Parts[h.name] => seen[k].path = <<>>
<1>1. /\ h.kind \in {"file", "dir"} /\ (Parts[h.name] = <<>> => h.kind = "dir")
      /\ ~Collision(Parts[h.name], h.kind)
  BY DEF Member, HeaderOK, ExtentOK, NameOK
<1>2. Parts[h.name] \in Seq(DOMAIN Key)
  BY TwoPassAssumption DEF Header
<1>3. Tables
  BY DEF NamesInv
<1>4. \A k \in DOMAIN seen :
        /\ seen[k].path \in Seq(DOMAIN Key) /\ seen[k].kind \in {"file", "dir"}
        /\ seen[k].path = <<>> => seen[k].kind = "dir"
  <2> SUFFICES ASSUME NEW k \in DOMAIN seen
               PROVE  /\ seen[k].path \in Seq(DOMAIN Key) /\ seen[k].kind \in {"file", "dir"}
                      /\ seen[k].path = <<>> => seen[k].kind = "dir"
    OBVIOUS
  <2>1. seen[k] \in SeenMember
    BY DEF IInv, Counters
  <2>2. seen[k].path \in Seq(DOMAIN Key)
    BY <2>1, TwoPassAssumption DEF SeenMember
  <2> QED BY <2>2 DEF NamesInv
<1>5. Parts[h.name] # <<>> \/ h.kind = "dir"
  BY <1>1
<1>6. \A k \in DOMAIN seen : ~Collide(seen[k], [path |-> Parts[h.name], kind |-> h.kind])
  BY <1>1, <1>2, <1>3, <1>4, <1>5, TablesDecide
<1> QED BY <1>1, <1>6 DEF Collide

LEMMA MemberKeepsCollect ==
  ASSUME IInv, NamesInv, OutInv, CollectInv, NEW h \in Headers, Member(h)
  PROVE  CollectInv'
<1> DEFINE m == [name |-> h.name, kind |-> h.kind, size |-> h.size,
                 offset |-> end + h.glob, path |-> Parts[h.name]]
<1>1. /\ UNCHANGED <<pass, checked, staging, collected>>
      /\ pc = "next" /\ pass \in {1, 2} /\ pc' = IF pass = 1 THEN "next" ELSE "data"
      /\ seen' = Append(seen, m)
  BY DEF OutInv, Member, output
<1>2. m.name = h.name /\ m.kind = h.kind /\ m.path = Parts[h.name]
  OBVIOUS
<1> HIDE DEF m
<1>3. seen \in Seq(SeenMember)
  BY DEF IInv, Counters
<1>4. /\ Len(seen) \in Nat /\ Len(seen') = Len(seen) + 1
      /\ DOMAIN seen' = DOMAIN seen \cup {Len(seen) + 1}
      /\ seen'[Len(seen) + 1] = m
      /\ \A k \in DOMAIN seen : seen'[k] = seen[k]
  BY <1>1, <1>3
<1>5. CASE pass = 1
  <2>1. OneEach(seen)
    BY <1>5 DEF CollectInv
  <2>2. /\ m.path = <<>> => m.kind = "dir"
        /\ \A k \in DOMAIN seen : seen[k].path = m.path => seen[k].path = <<>>
    BY <1>2, <1>5, AcceptedIsNew
  <2>3. OneEach(seen')
    BY <1>2, <1>4, <2>1, <2>2 DEF OneEach
  <2> QED BY <1>1, <1>5, <2>3 DEF CollectInv
<1>6. CASE pass = 2
  <2>1. Done' = Done
    BY <1>1, <1>4, <1>6 DEF Done
  <2>2. \A w \in Wanted : AsWritten(w)'
    BY <1>1, <1>6, <2>1 DEF CollectInv, AsWritten, HasFile
  <2>3. OneEach(checked')
    BY <1>1, <1>6 DEF CollectInv
  <2> QED BY <1>1, <1>6, <2>2, <2>3 DEF CollectInv
<1> QED BY <1>1, <1>5, <1>6

LEMMA EndKeepsCollect ==
  ASSUME OutInv, CollectInv, EndOfArchive
  PROVE  CollectInv'
<1>1. /\ UNCHANGED <<pass, seen, staging, collected>> /\ pc = "next" /\ pass \in {1, 2}
      /\ checked' = IF pass = 1 THEN seen ELSE checked
      /\ pc' = IF pass = 1 THEN "open"
               ELSE IF Len(seen) = Len(checked) THEN "ok" ELSE "refused"
  BY DEF OutInv, EndOfArchive, output
<1>2. CASE pass = 1
  BY <1>1, <1>2 DEF CollectInv, OneEach
<1>3. CASE pass = 2 /\ pc' = "ok"
  <2>1. Done' = Done /\ checked' = checked
    BY <1>1, <1>3 DEF Done
  <2> QED BY <1>1, <1>3, <2>1 DEF CollectInv, OneEach, AsWritten, HasFile
<1>4. CASE pass = 2 /\ pc' = "refused"
  BY <1>1, <1>4 DEF CollectInv, OneEach
<1> QED BY <1>1, <1>2, <1>3, <1>4

LEMMA WriteKeepsCollect ==
  ASSUME IInv, OutInv, CollectInv, NEW c \in Contents, Write(c)
  PROVE  CollectInv'
<1>1. /\ pass = 2 /\ Len(seen) \in DOMAIN checked /\ Done = Len(seen) - 1
      /\ Here.kind = Now.kind
      /\ DOMAIN staging' = DOMAIN staging \cup Creates(Now.path, Now.kind)
      /\ \A e \in DOMAIN staging : staging'[e] = staging[e]
      /\ \A e \in Creates(Now.path, Now.kind) :
           staging'[e] = IF Now.kind = "file" /\ e = Place(Now.path, Fs)
                         THEN [data |-> c, size |-> Now.size]
                         ELSE [data |-> Absent, size |-> 0]
  BY WriteDoes
<1>2. UNCHANGED <<pass, seen, checked>> /\ pc' = "next" /\ pc = "data"
  BY DEF Write
<1>3. Len(seen) \in Nat /\ Len(seen) > 0 /\ Done' = Len(seen)
  BY <1>2 DEF IInv, Counters, Done, OutInv
<1>4. Now = checked[Len(seen)] /\ Here.name = Now.name
  BY DEF Now, Write, WriteOK, SameMember
<1>5. OneEach(checked) /\ Now.path = Parts[Now.name]
  BY <1>1, <1>4 DEF CollectInv, OneEach
<1>6. collected' = IF Now.name \in Wanted
                   THEN [collected EXCEPT ![Now.name] =
                           IF Now.kind = "file" THEN c ELSE Absent]
                   ELSE collected
  BY <1>1, <1>4 DEF Write, Collect
<1>7. Now.kind = "file" => Place(Now.path, Fs) \in Creates(Now.path, Now.kind)
  BY DEF Creates
<1>8. \A k \in 1 .. Done' : k \in 1 .. Done \/ k = Len(seen)
  BY <1>1, <1>3
<1>9. 1 .. Done \subseteq DOMAIN checked /\ Len(seen) \in 1 .. Done' /\ Len(seen) \notin 1 .. Done
      /\ 1 .. Done \subseteq 1 .. Done'
  BY <1>1, <1>3 DEF OutInv
<1>10. ASSUME NEW w \in Wanted PROVE AsWritten(w)'
  <2>1. AsWritten(w)
    BY <1>1, <1>2 DEF CollectInv
  <2>2. CASE w # Now.name
    <3>1. HasFile(w)' = HasFile(w)
      BY <2>2, <1>2, <1>4, <1>8, <1>9 DEF HasFile
    <3>2. collected'[w] = collected[w]
      BY <2>2, <1>6 DEF CollectInv
    <3>3. Place(Parts[w], Fs) \in DOMAIN staging =>
            /\ Place(Parts[w], Fs) \in DOMAIN staging'
            /\ staging'[Place(Parts[w], Fs)] = staging[Place(Parts[w], Fs)]
      BY <1>1
    <3> QED BY <2>1, <3>1, <3>2, <3>3 DEF AsWritten
  <2>3. CASE w = Now.name /\ Now.kind = "file"
    <3>1. HasFile(w)'
      BY <2>3, <1>2, <1>4, <1>9 DEF HasFile
    <3>2. collected'[w] = c
      BY <2>3, <1>6 DEF CollectInv
    <3>3. /\ Place(Parts[w], Fs) \in DOMAIN staging'
          /\ staging'[Place(Parts[w], Fs)].data = c
      BY <2>3, <1>1, <1>5, <1>7
    <3> QED BY <3>1, <3>2, <3>3 DEF AsWritten
  <2>4. CASE w = Now.name /\ Now.kind # "file"
    <3>1. collected'[w] = Absent
      BY <2>4, <1>6 DEF CollectInv
    <3>2. ~HasFile(w)'
      <4> SUFFICES ASSUME NEW k \in 1 .. Done', checked[k].name = w, checked[k].kind = "file"
                   PROVE  FALSE
        BY <1>2 DEF HasFile
      <4>1. k # Len(seen) /\ k \in DOMAIN checked
        BY <2>4, <1>4, <1>8, <1>9
      <4>2. checked[k].path = Now.path
        BY <2>4, <1>5, <4>1 DEF OneEach
      <4> QED BY <1>1, <1>4, <1>5, <4>1, <4>2 DEF OneEach
    <3> QED BY <3>1, <3>2 DEF AsWritten
  <2> QED BY <2>2, <2>3, <2>4
<1>11. DOMAIN collected' = Wanted
  BY <1>6 DEF CollectInv
<1> QED BY <1>1, <1>2, <1>5, <1>10, <1>11 DEF CollectInv

LEMMA NextKeepsCollect ==
  IInv /\ NamesInv /\ OutInv /\ CollectInv /\ [Next]_vars => CollectInv'
<1> SUFFICES ASSUME IInv, NamesInv, OutInv, CollectInv, [Next]_vars PROVE CollectInv'
  OBVIOUS
<1>1. CASE Open
  BY <1>1, OpenKeepsCollect
<1>2. ASSUME NEW h \in Headers, Member(h) PROVE CollectInv'
  BY <1>2, MemberKeepsCollect
<1>3. ASSUME NEW h \in Headers, RefuseMember(h) PROVE CollectInv'
  BY <1>3, StillKeepsCollect DEF RefuseMember, Refused, output
<1>4. CASE Damaged
  BY <1>4, StillKeepsCollect DEF Damaged, Refused, output
<1>5. CASE EndOfArchive
  BY <1>5, EndKeepsCollect
<1>6. ASSUME NEW c \in Contents, Write(c) PROVE CollectInv'
  BY <1>6, WriteKeepsCollect
<1>7. CASE RefuseWrite
  BY <1>7, StillKeepsCollect DEF RefuseWrite, Refused, output
<1>8. CASE UNCHANGED vars
  BY <1>8, StillKeepsCollect DEF vars, output
<1> QED BY <1>1, <1>2, <1>3, <1>4, <1>5, <1>6, <1>7, <1>8 DEF Next, Ended

\* Signature validation reads what was written under exactly the names it asks
\* for: since no two names collide, no other member can have been meant.
THEOREM CollectedAsWritten == Spec => []CollectedIsWritten
<1>1. OutInv /\ CollectInv => CollectedIsWritten
  <2> SUFFICES ASSUME OutInv, CollectInv, pc = "ok", NEW w \in Wanted
               PROVE  IF \E k \in DOMAIN checked : checked[k].name = w /\ checked[k].kind = "file"
                      THEN Place(Parts[w], Fs) \in DOMAIN staging
                           /\ collected[w] = staging[Place(Parts[w], Fs)].data
                      ELSE collected[w] = Absent
    BY DEF CollectedIsWritten
  <2>1. pass = 2 /\ Done = Len(checked) /\ DOMAIN checked = 1 .. Done
    BY DEF OutInv, Done
  <2>2. AsWritten(w)
    BY <2>1 DEF CollectInv
  <2> QED BY <2>1, <2>2 DEF AsWritten, HasFile
<1> QED BY <1>1, InitHolds, NextKeeps, NamesInit, NextKeepsNames, OutInit, NextKeepsOut,
          CollectInit, NextKeepsCollect, PTL DEF Spec

-----------------------------------------------------------------------------
(* What the members of an archive declare together.                       *)

\* Of some numbers there is a least.
LEMMA FirstOfSome ==
  ASSUME NEW T, T \subseteq Nat, T # {}
  PROVE  \E k \in T : \A j \in T : k <= j
<1> DEFINE below(k) == T \cap 0 .. k
           sets == {below(k) : k \in T}
<1>1. sets \subseteq FiniteSubsetsOf(Nat) /\ sets # {}
  <2>1. ASSUME NEW k \in T  PROVE IsFiniteSet(below(k))
    <3>1. IsFiniteSet(0 .. k)
      BY FS_Interval
    <3>2. below(k) \in SUBSET (0 .. k)
      OBVIOUS
    <3> QED
      BY <3>1, <3>2, FS_Subset
  <2> QED
    BY <2>1 DEF FiniteSubsetsOf
<1>2. PICK x \in sets : \A y \in sets : <<y, x>> \notin StrictSubsetOrdering(Nat)
  BY <1>1, FS_StrictSubsetOrderingWellFounded, WFMin
<1>3. PICK k \in T : x = below(k)
  OBVIOUS
<1>4. ASSUME NEW j \in T, ~ (k <= j)  PROVE FALSE
  <2>1. below(j) \subseteq below(k) /\ k \in below(k) /\ k \notin below(j)
    BY <1>4
  <2>2. <<below(j), below(k)>> \in StrictSubsetOrdering(Nat)
    BY <2>1 DEF StrictSubsetOrdering
  <2> QED
    BY <1>2, <1>3, <2>2
<1> QED
  BY <1>4

\* What holds of 0 and of each next number holds of all up to n.
LEMMA StepByStep ==
  ASSUME NEW n \in Nat, NEW S, 0 \in S, \A m \in 0 .. n - 1 : m \in S => m + 1 \in S
  PROVE  \A m \in 0 .. n : m \in S
<1> DEFINE rest == (0 .. n) \ S
<1>1. CASE rest = {}
  BY <1>1
<1>2. CASE rest # {}
  <2>1. rest \subseteq Nat
    OBVIOUS
  <2>2. PICK k \in rest : \A j \in rest : k <= j
    BY <1>2, <2>1, FirstOfSome
  <2>3. k - 1 \in 0 .. n - 1 /\ k - 1 \notin rest /\ (k - 1) + 1 = k /\ k \notin S
    BY <2>2
  <2> QED
    BY <2>3
<1> QED
  BY <1>1, <1>2

\* What the definitions of a header say.
LEMMA SizeIs == \A h \in Headers : Size(h) \in Nat
BY TwoPassAssumption DEF Header, Size

\* s says what the first n members of t declare, for each n.
Sums(s, t) ==
  /\ DOMAIN s = 0 .. Len(t) /\ s[0] = 0
  /\ \A n \in 1 .. Len(t) : s[n] = s[n - 1] + Size(t[n])

\* There are such totals: each prefix has some.
LEMMA TotalsExist ==
  ASSUME NEW t \in Seq(Headers)
  PROVE  \E s : s = [n \in 0 .. Len(t) |-> IF n = 0 THEN 0 ELSE s[n - 1] + Size(t[n])]
<1> DEFINE Good(s, m) == /\ s \in [0 .. m -> Nat] /\ s[0] = 0
                         /\ \A n \in 1 .. m : s[n] = s[n - 1] + Size(t[n])
           S == {m \in 0 .. Len(t) : \E s : Good(s, m)}
<1>1. Len(t) \in Nat /\ \A n \in 1 .. Len(t) : Size(t[n]) \in Nat
  BY SizeIs
<1>2. 0 \in S
  <2>1. Good([n \in 0 .. 0 |-> 0], 0)
    OBVIOUS
  <2> HIDE DEF Good
  <2> QED
    BY <1>1, <2>1
<1>3. ASSUME NEW m \in 0 .. Len(t) - 1, m \in S  PROVE m + 1 \in S
  <2>1. PICK s : Good(s, m)
    BY <1>3
  <2> DEFINE more == [n \in 0 .. m + 1 |-> IF n <= m THEN s[n] ELSE s[m] + Size(t[m + 1])]
  <2>2. Size(t[m + 1]) \in Nat
    BY <1>1
  <2>3. more \in [0 .. m + 1 -> Nat]
    BY <2>1, <2>2
  <2>4. more[0] = 0 /\ \A n \in 1 .. m + 1 : more[n] = more[n - 1] + Size(t[n])
    BY <2>1
  <2> HIDE DEF more
  <2>5. Good(more, m + 1)
    BY <2>3, <2>4
  <2> HIDE DEF Good
  <2> QED
    BY <1>1, <2>5
<1> HIDE DEF S
<1>4. Len(t) \in S
  <2>1. \A m \in 0 .. Len(t) - 1 : m \in S => m + 1 \in S
    BY <1>3
  <2>2. \A m \in 0 .. Len(t) : m \in S
    BY <1>1, <1>2, <2>1, StepByStep
  <2> QED
    BY <1>1, <2>2
<1>5. PICK s : Good(s, Len(t))
  BY <1>4 DEF S
<1>6. s = [n \in 0 .. Len(t) |-> IF n = 0 THEN 0 ELSE s[n - 1] + Size(t[n])]
  BY <1>1, <1>5
<1> QED
  BY <1>6

\* The recursion computes them.
LEMMA TotalsAre ==
  ASSUME NEW t \in Seq(Headers)
  PROVE  Sums(Totals(t), t)
<1> DEFINE s == Totals(t)
<1>1. s = [n \in 0 .. Len(t) |-> IF n = 0 THEN 0 ELSE s[n - 1] + Size(t[n])]
  BY TotalsExist DEF Totals
<1> HIDE DEF s
<1> QED
  BY <1>1 DEF Sums

\* Totals are numbers that do not fall.
LEMMA TotalsGrow ==
  ASSUME NEW t \in Seq(Headers)
  PROVE  /\ \A n \in 0 .. Len(t) : Totals(t)[n] \in Nat
         /\ \A n \in 0 .. Len(t) : Totals(t)[n] <= Totals(t)[Len(t)]
<1> DEFINE s == Totals(t)
           S == {n \in 0 .. Len(t) : s[n] \in Nat /\ \A k \in 0 .. n : s[k] \in Nat /\ s[k] <= s[n]}
<1>1. Len(t) \in Nat /\ Sums(s, t)
  BY TotalsAre
<1> HIDE DEF s
<1>2. 0 \in S
  BY <1>1 DEF Sums
<1>3. ASSUME NEW m \in 0 .. Len(t) - 1, m \in S  PROVE m + 1 \in S
  <2>1. m + 1 \in 1 .. Len(t) /\ Size(t[m + 1]) \in Nat /\ (m + 1) - 1 = m
    BY <1>1, SizeIs
  <2>2. s[m + 1] = s[m] + Size(t[m + 1])
    BY <1>1, <2>1 DEF Sums
  <2>3. s[m + 1] \in Nat /\ s[m] <= s[m + 1]
    BY <1>3, <2>1, <2>2
  <2>4. \A k \in 0 .. m + 1 : k \in 0 .. m \/ k = m + 1
    BY <1>1
  <2> QED
    BY <1>3, <2>1, <2>3, <2>4
<1>4. \A m \in 0 .. Len(t) : m \in S
  <2> HIDE DEF S
  <2> QED
    BY <1>1, <1>2, <1>3, StepByStep
<1> QED
  BY <1>1, <1>4 DEF s

\* What a header more adds.
LEMMA TotalsNext ==
  ASSUME NEW t \in Seq(Headers), NEW h \in Headers
  PROVE  \A n \in 0 .. Len(t) : Totals(Append(t, h))[n] = Totals(t)[n]
<1> DEFINE u == Append(t, h)
           a == Totals(t)
           b == Totals(u)
           S == {n \in 0 .. Len(t) : b[n] = a[n]}
<1>1. /\ u \in Seq(Headers) /\ Len(u) = Len(t) + 1 /\ Len(t) \in Nat
      /\ \A n \in 1 .. Len(t) : u[n] = t[n]
  OBVIOUS
<1> HIDE DEF u
<1>2. Sums(a, t) /\ Sums(b, u)
  BY <1>1, TotalsAre
<1> HIDE DEF a, b
<1>3. 0 \in S
  BY <1>1, <1>2 DEF Sums
<1>4. ASSUME NEW m \in 0 .. Len(t) - 1, m \in S  PROVE m + 1 \in S
  <2>1. m + 1 \in 1 .. Len(t) /\ m + 1 \in 1 .. Len(u) /\ (m + 1) - 1 = m
    BY <1>1
  <2> QED
    BY <1>1, <1>2, <1>4, <2>1 DEF Sums
<1>5. \A m \in 0 .. Len(t) : m \in S
  <2> HIDE DEF S
  <2> QED
    BY <1>1, <1>3, <1>4, StepByStep
<1> QED
  BY <1>5 DEF a, b, u

-----------------------------------------------------------------------------
(* An archive nobody touches.                                             *)

\* What is noted of a header that is met at e.
Noted(h, e) == [name |-> h.name, kind |-> h.kind, size |-> h.size,
                offset |-> e + h.glob, path |-> Parts[h.name]]

\* Where the first n members of l end, of which t are the headers.
EndOf(l, t, n) ==
  IF n = 0 THEN 0 ELSE l[n].offset - t[n].glob + t[n].head + Stored(t[n])

\* The members l are what was noted of the headers t.
Follows(l, t) ==
  /\ Len(l) = Len(t)
  /\ \A k \in DOMAIN t : l[k] = Noted(t[k], EndOf(l, t, k - 1))

\* The counters of a pass say what they should of the members it has met.
Counted ==
  /\ cap = room
  /\ end = EndOf(seen, tape, Len(seen)) /\ declared = Totals(tape)[Len(seen)]
  /\ limit = end + HeaderBytes + IF seen = <<>> THEN GlobalHeaderBytes ELSE 0

\* What was written is what the members done with stand for.
Staged ==
  /\ written = Totals(tape)[Done]
  /\ \A e \in DOMAIN staging : \E k \in 1 .. Done :
       \E q \in Stands(checked[k].path, checked[k].kind) : Place(q, Fs) = e
  /\ \A k \in 1 .. Done : Spelled(checked[k].path, checked[k].kind) \subseteq made

Steady ==
  /\ pass = 0 => tape = <<>> /\ written = 0
  /\ pass = 1 => Follows(seen, tape) /\ written = 0 /\ (pc = "open" => checked = seen)
  /\ pass = 2 => /\ Follows(checked, tape) /\ Staged
                 /\ Len(seen) <= Len(tape) /\ \A k \in DOMAIN seen : seen[k] = checked[k]
  /\ pc \in {"next", "data"} => Counted

SteadyInv ==
  /\ tape \in Seq(Headers)
  /\ ~touched => IF pc = "refused" THEN ~Kept(tape, room) \/ Hindered(tape) ELSE Steady

LEMMA SteadyInit == Init => SteadyInv
BY DEF Init, SteadyInv, Steady

\* A step that leaves all this alone, or ends the call.
LEMMA StillSteady ==
  ASSUME SteadyInv,
         UNCHANGED <<room, pass, cap, seen, declared, end, limit, checked, output, tape>>,
         touched' = touched,
         pc' = pc \/ (pc' = "refused" /\ (~touched => ~Kept(tape, room) \/ Hindered(tape)))
  PROVE  SteadyInv'
<1>1. CASE pc' = pc
  <2>1. Staged => Staged'
    BY <1>1 DEF Staged, Done, output
  <2>2. Counted => Counted'
    BY DEF Counted
  <2>3. Steady => Steady'
    BY <1>1, <2>1, <2>2 DEF Steady, output
  <2>4. /\ Kept(tape, room)' <=> Kept(tape, room)
        /\ Hindered(tape)' <=> Hindered(tape)
    OBVIOUS
  <2> QED
    BY <1>1, <2>3, <2>4 DEF SteadyInv
<1>2. CASE pc' = "refused" /\ (~touched => ~Kept(tape, room) \/ Hindered(tape))
  BY <1>2 DEF SteadyInv
<1> QED
  BY <1>1, <1>2

LEMMA OpenSteady ==
  ASSUME IInv, OutInv, SteadyInv, Open
  PROVE  SteadyInv'
<1>1. /\ pass \in {0, 1} /\ pass' = pass + 1 /\ pc' = "next" /\ pc = "open" /\ seen' = <<>>
      /\ UNCHANGED <<room, checked, made, staging, written, tape>>
      /\ declared' = 0 /\ end' = 0 /\ limit' = HeaderBytes + GlobalHeaderBytes
      /\ touched' = (touched \/ cap' # room)
  BY DEF OutInv, Open, output
<1>2. tape \in Seq(Headers)
  BY DEF SteadyInv
<1>3. CASE touched'
  BY <1>1, <1>2, <1>3 DEF SteadyInv
<1>4. CASE ~touched'
  <2>1. ~touched /\ cap' = room /\ Steady
    BY <1>1, <1>4 DEF SteadyInv
  <2>2. Totals(tape)[0] = 0
    BY <1>2, TotalsAre DEF Sums
  <2>3. Len(seen') = 0 /\ Done' = 0 /\ DOMAIN seen' = {} /\ Len(tape) \in Nat
    BY <1>1, <1>2 DEF Done
  <2>4. Counted'
    BY <1>1, <2>1, <2>2, <2>3, Sizes DEF Counted, EndOf
  <2>5. CASE pass = 0
    <3>1. tape' = <<>> /\ written' = 0
      BY <1>1, <2>1, <2>5 DEF Steady
    <3>2. Follows(seen', tape')
      BY <1>1, <3>1 DEF Follows
    <3> QED
      BY <1>1, <1>2, <2>4, <2>5, <3>1, <3>2 DEF SteadyInv, Steady
  <2>6. CASE pass = 1
    <3>1. Follows(checked', tape') /\ written = 0
      BY <1>1, <2>1, <2>6 DEF Steady
    <3>2. DOMAIN staging = {}
      BY <2>6 DEF OutInv
    <3>3. Staged'
      BY <1>1, <2>2, <2>3, <3>1, <3>2 DEF Staged
    <3> QED
      BY <1>1, <1>2, <2>3, <2>4, <2>6, <3>1, <3>3 DEF SteadyInv, Steady
  <2> QED
    BY <1>1, <2>5, <2>6
<1> QED
  BY <1>3, <1>4

LEMMA HeaderIs ==
  ASSUME NEW h \in Headers
  PROVE  /\ h.head \in Nat /\ h.glob \in Nat /\ h.size \in Nat /\ Stored(h) \in Nat
         /\ Size(h) \in Nat /\ h.kind \in {"file", "dir", "other"} /\ h.name \in Names
<1>1. h \in Header
  BY TwoPassAssumption
<1> QED
  BY <1>1, BlocksBound DEF Header, Stored, Size

\* The counters after one member more.
LEMMA CountsOn ==
  ASSUME IInv, SteadyInv, NEW h \in Headers, Member(h), Counted,
         seen' = Append(seen, Noted(h, end)), Len(seen) + 1 \in 1 .. Len(tape'),
         tape' \in Seq(Headers), tape'[Len(seen) + 1] = h,
         Totals(tape')[Len(seen)] = Totals(tape)[Len(seen)]
  PROVE  Counted'
<1> DEFINE n == Len(seen) + 1
           at == end + h.head + Stored(h)
<1>1. /\ room' = room /\ cap' = cap /\ declared' = declared + Size(h)
      /\ end' = at /\ limit' = at + HeaderBytes
  BY DEF Member, Reach
<1>2. /\ Len(seen) \in Nat /\ end \in Nat /\ n \in Nat \ {0} /\ n - 1 = Len(seen)
      /\ Len(seen') = n /\ seen' # <<>> /\ seen'[n] = Noted(h, end)
      /\ tape'[n] = h /\ n \in 1 .. Len(tape')
  BY DEF IInv, Counters
<1> HIDE DEF n
<1>3. EndOf(seen', tape', n) = at /\ at \in Nat
  <2>1. h.head \in Nat /\ h.glob \in Nat /\ Stored(h) \in Nat
    BY HeaderIs
  <2>2. seen'[n].offset = end + h.glob
    BY <1>2 DEF Noted
  <2>3. EndOf(seen', tape', n) = seen'[n].offset - h.glob + h.head + Stored(h)
    BY <1>2 DEF EndOf
  <2> QED
    BY <1>2, <2>1, <2>2, <2>3
<1>4. declared' = Totals(tape')[n]
  <2>1. Sums(Totals(tape'), tape')
    BY TotalsAre
  <2>2. Totals(tape')[n] = Totals(tape')[Len(seen)] + Size(h)
    BY <1>2, <2>1 DEF Sums
  <2> QED
    BY <1>1, <2>2 DEF Counted
<1> HIDE DEF at
<1>5. limit' = end' + HeaderBytes + IF seen' = <<>> THEN GlobalHeaderBytes ELSE 0
  BY <1>1, <1>2, <1>3, Sizes
<1> QED
  BY <1>1, <1>2, <1>3, <1>4, <1>5 DEF Counted

LEMMA MemberSteady ==
  ASSUME IInv, OutInv, SteadyInv, NEW h \in Headers, Member(h)
  PROVE  SteadyInv'
<1>1. /\ UNCHANGED <<room, pass, checked, made, staging, written>>
      /\ pc = "next" /\ pass \in {1, 2} /\ pc' = IF pass = 1 THEN "next" ELSE "data"
      /\ seen' = Append(seen, Noted(h, end))
      /\ tape' = (IF pass = 1 THEN Append(tape, h) ELSE tape)
      /\ ~touched' => ~touched /\ (pass = 2 => AsBefore(h))
  <2>1. touched' = (touched \/ (pass = 2 /\ ~AsBefore(h)))
    BY DEF Member, Meet
  <2>2. ~touched' => ~touched /\ (pass = 2 => AsBefore(h))
    BY <2>1, Zenon
  <2> QED
    BY <2>2 DEF OutInv, Member, Meet, Noted, output
<1>2. tape \in Seq(Headers) /\ tape' \in Seq(Headers)
  BY <1>1 DEF SteadyInv
<1>3. CASE touched'
  BY <1>1, <1>2, <1>3 DEF SteadyInv
<1>4. CASE ~touched'
  <2>1. ~touched /\ Steady /\ Counted
    BY <1>1, <1>4 DEF SteadyInv, Steady
  <2> DEFINE n == Len(seen)
             m == Noted(h, end)
  <2>2. /\ seen \in Seq(SeenMember) /\ n \in Nat /\ Len(seen') = n + 1 /\ seen'[n + 1] = m
        /\ DOMAIN seen = 1 .. n /\ DOMAIN seen' = 1 .. n + 1
        /\ \A k \in 1 .. n : seen'[k] = seen[k]
    BY <1>1 DEF IInv, Counters
  <2> HIDE DEF m
  <2>3. CASE pass = 1
    <3>1. Follows(seen, tape) /\ Len(tape) = n /\ DOMAIN tape = 1 .. n
      BY <1>2, <2>1, <2>3 DEF Steady, Follows
    <3>2. /\ tape' = Append(tape, h) /\ Len(tape') = n + 1 /\ DOMAIN tape' = 1 .. n + 1
          /\ tape'[n + 1] = h /\ \A k \in 1 .. n : tape'[k] = tape[k]
      BY <1>1, <1>2, <2>2, <2>3, <3>1
    <3>3. Counted'
      <4>1. Totals(tape')[n] = Totals(tape)[n]
        BY <1>2, <2>2, <3>1, <3>2, TotalsNext
      <4>2. n + 1 \in 1 .. Len(tape')
        BY <2>2, <3>2
      <4> QED
        BY <1>1, <1>2, <2>1, <3>2, <4>1, <4>2, CountsOn
    <3>4. Follows(seen', tape')
      <4> SUFFICES ASSUME NEW k \in 1 .. n + 1
                   PROVE  seen'[k] = Noted(tape'[k], EndOf(seen', tape', k - 1))
        BY <2>2, <3>2 DEF Follows
      <4>1. /\ k - 1 \in 0 .. n
            /\ EndOf(seen', tape', k - 1) = EndOf(seen, tape, k - 1)
        BY <2>2, <3>2 DEF EndOf
      <4>2. CASE k \in 1 .. n
        BY <2>2, <3>1, <3>2, <4>1, <4>2 DEF Follows
      <4>3. CASE k = n + 1
        <5>1. k - 1 = n
          BY <2>2, <4>3
        <5> QED
          BY <2>1, <2>2, <3>2, <4>1, <4>3, <5>1 DEF Counted, m
      <4> QED
        BY <2>2, <4>2, <4>3
    <3> QED
      BY <1>1, <1>2, <2>1, <2>3, <3>3, <3>4 DEF SteadyInv, Steady
  <2>4. CASE pass = 2
    <3>1. /\ Follows(checked, tape) /\ Staged /\ \A k \in 1 .. n : seen[k] = checked[k]
          /\ tape' = tape /\ AsBefore(h)
      BY <1>1, <1>4, <2>1, <2>2, <2>4 DEF Steady
    <3>2. n + 1 \in 1 .. Len(tape) /\ tape[n + 1] = h
      BY <1>2, <2>2, <3>1 DEF AsBefore
    <3> HIDE DEF n
    <3>3. Counted'
      <4>1. /\ Len(seen) + 1 \in 1 .. Len(tape') /\ tape'[Len(seen) + 1] = h
            /\ Totals(tape')[Len(seen)] = Totals(tape)[Len(seen)]
        BY <3>1, <3>2 DEF n
      <4> QED
        BY <1>1, <1>2, <2>1, <4>1, CountsOn DEF m
    <3>4. checked[n + 1] = m
      <4>1. end = EndOf(checked, tape, n)
        BY <2>1, <2>2, <3>1 DEF Counted, EndOf
      <4>2. (n + 1) - 1 = n /\ n + 1 \in DOMAIN tape
        BY <1>2, <2>2, <3>2
      <4> QED
        BY <3>1, <3>2, <4>1, <4>2 DEF Follows, m
    <3>5. Len(seen') <= Len(tape') /\ \A k \in DOMAIN seen' : seen'[k] = checked'[k]
      BY <1>1, <1>2, <2>2, <3>1, <3>2, <3>4
    <3>6. Done' = Done
      BY <1>1, <2>2, <2>4 DEF Done
    <3>7. Staged'
      BY <1>1, <3>1, <3>6 DEF Staged
    <3> QED
      BY <1>1, <1>2, <2>4, <3>1, <3>3, <3>5, <3>7 DEF SteadyInv, Steady
  <2> QED
    BY <1>1, <2>3, <2>4
<1> QED
  BY <1>3, <1>4

\* A header of an archive that keeps to the rules passes, its name apart.
LEMMA KeptPasses ==
  ASSUME IInv, OutInv, NEW t \in Seq(Headers), Kept(t, room), Counted,
         Len(seen) + 1 \in 1 .. Len(t), Totals(t)[Len(seen)] = declared
  PROVE  /\ Within(end + t[Len(seen) + 1].head) /\ Len(seen) < MaxFiles
         /\ ExtentOK(t[Len(seen) + 1]) /\ BudgetOK(t[Len(seen) + 1])
<1> DEFINE n == Len(seen) + 1
           h == t[n]
           total == Totals(t)[Len(t)]
<1>1. /\ n \in 1 .. Len(t) /\ Len(seen) \in Nat /\ n - 1 = Len(seen) /\ Len(t) \in Nat
      /\ h \in Headers /\ n \in DOMAIN t /\ (seen = <<>> <=> n = 1)
  BY DEF IInv, Counters
<1>2. /\ Len(t) <= MaxFiles /\ total <= MaxTotalBytes /\ (room > 0 => total <= room)
      /\ h.sound /\ h.kind # "other" /\ Size(h) <= MaxFileBytes
      /\ \/ h.head <= HeaderBytes
         \/ /\ n = 1 /\ h.head <= HeaderBytes + h.glob
            /\ h.head <= HeaderBytes + GlobalHeaderBytes
  BY <1>1 DEF Kept
<1>3. /\ declared + Size(h) <= total /\ total \in Nat
  <2>1. Totals(t)[n] = Totals(t)[n - 1] + Size(h)
    BY <1>1, TotalsAre DEF Sums
  <2>2. Totals(t)[n] <= total /\ total \in Nat
    BY <1>1, TotalsGrow
  <2> QED
    BY <1>1, <2>1, <2>2
<1> HIDE DEF total, h
<1>4. /\ h.head \in Nat /\ h.glob \in Nat /\ Size(h) \in Nat /\ h.kind \in {"file", "dir", "other"}
  BY <1>1, HeaderIs
<1>5. /\ declared \in Nat /\ end \in Nat /\ limit \in Nat /\ room \in Nat /\ cap = room
      /\ limit = end + HeaderBytes + IF seen = <<>> THEN GlobalHeaderBytes ELSE 0
  BY DEF IInv, Counters, OutInv, Counted
<1>6. Within(end + h.head)
  BY <1>1, <1>2, <1>4, <1>5, Sizes DEF Within
<1>7. ExtentOK(h)
  BY <1>1, <1>2, <1>4, Sizes DEF ExtentOK, Allowance
<1>8. BudgetOK(h)
  BY <1>2, <1>3, <1>4, <1>5, TwoPassAssumption DEF BudgetOK
<1>9. Len(seen) < MaxFiles
  BY <1>1, <1>2, TwoPassAssumption
<1> QED
  BY <1>6, <1>7, <1>8, <1>9 DEF h

\* A member the tables refuse collides with one met before.
LEMMA NamePasses ==
  ASSUME IInv, NamesInv, OutInv, pass = 1, NEW t \in Seq(Headers), Kept(t, room),
         NEW n \in 1 .. Len(t), n = Len(seen) + 1,
         \A k \in DOMAIN seen : seen[k].kind = t[k].kind /\ seen[k].path = Parts[t[k].name]
  PROVE  NameOK(t[n])
<1> DEFINE h == t[n]
<1>1. /\ h \in Headers /\ n \in DOMAIN t /\ Len(t) \in Nat /\ seen \in Seq(SeenMember)
      /\ DOMAIN seen = 1 .. n - 1
  BY DEF IInv, Counters
<1>2. h.kind # "other" /\ h.name \notin BadNames /\ (Parts[h.name] = <<>> => h.kind = "dir")
  BY <1>1 DEF Kept
<1>3. \A k \in DOMAIN seen : ~Collide(Part(t[k]), Part(h))
  BY <1>1 DEF Kept
<1>4. \A k \in DOMAIN seen : ~Collide(seen[k], [path |-> Parts[h.name], kind |-> h.kind])
  <2> SUFFICES ASSUME NEW k \in DOMAIN seen
               PROVE  ~Collide(seen[k], [path |-> Parts[h.name], kind |-> h.kind])
    OBVIOUS
  <2>1. Part(t[k]).path = seen[k].path /\ Part(t[k]).kind = seen[k].kind
    BY DEF Part
  <2>2. Part(h) = [path |-> Parts[h.name], kind |-> h.kind]
    BY DEF Part
  <2>3. ~Collide(Part(t[k]), Part(h))
    BY <1>3
  <2> HIDE DEF h
  <2> QED
    BY <2>1, <2>2, <2>3 DEF Collide
<1> HIDE DEF h
<1>5. h.kind \in {"file", "dir"} /\ Parts[h.name] \in Seq(DOMAIN Key)
  BY <1>1, <1>2, HeaderIs, TwoPassAssumption
<1>6. Tables /\ (Parts[h.name] # <<>> \/ h.kind = "dir")
  BY <1>2 DEF NamesInv
<1>7. \A k \in DOMAIN seen :
        /\ seen[k].path \in Seq(DOMAIN Key) /\ seen[k].kind \in {"file", "dir"}
        /\ seen[k].path = <<>> => seen[k].kind = "dir"
  <2> SUFFICES ASSUME NEW k \in DOMAIN seen
               PROVE  /\ seen[k].path \in Seq(DOMAIN Key) /\ seen[k].kind \in {"file", "dir"}
                      /\ seen[k].path = <<>> => seen[k].kind = "dir"
    OBVIOUS
  <2>1. seen[k] \in SeenMember
    BY <1>1
  <2>2. seen[k].path \in Seq(DOMAIN Key)
    BY <2>1, TwoPassAssumption DEF SeenMember
  <2> QED
    BY <2>2 DEF NamesInv
<1>8. ~Collision(Parts[h.name], h.kind)
  BY <1>4, <1>5, <1>6, <1>7, TablesDecide
<1> QED
  BY <1>2, <1>8 DEF NameOK, h

LEMMA RefuseMemberSteady ==
  ASSUME IInv, NamesInv, OutInv, SteadyInv, NEW h \in Headers, RefuseMember(h)
  PROVE  SteadyInv'
<1>1. /\ room' = room /\ pc = "next" /\ pc' = "refused" /\ ~HeaderOK(h) /\ pass \in {1, 2}
      /\ tape' = (IF pass = 1 THEN Append(tape, h) ELSE tape)
      /\ ~touched' => ~touched /\ (pass = 2 => AsBefore(h))
  <2>1. touched' = (touched \/ (pass = 2 /\ ~AsBefore(h)))
    BY DEF RefuseMember, Meet
  <2>2. ~touched' => ~touched /\ (pass = 2 => AsBefore(h))
    BY <2>1, Zenon
  <2> QED
    BY <2>2 DEF OutInv, RefuseMember, Refused, Meet
<1>2. tape \in Seq(Headers) /\ tape' \in Seq(Headers)
  BY <1>1 DEF SteadyInv
<1>3. ASSUME ~touched', Kept(tape', room)  PROVE FALSE
  <2>1. ~touched /\ Steady /\ Counted
    BY <1>1, <1>3 DEF SteadyInv, Steady
  <2> DEFINE n == Len(seen) + 1
  <2>2. /\ seen \in Seq(SeenMember) /\ Len(seen) \in Nat /\ n - 1 = Len(seen)
        /\ DOMAIN seen = 1 .. n - 1
    BY DEF IInv, Counters
  <2>3. /\ n \in 1 .. Len(tape') /\ tape'[n] = h
        /\ Totals(tape')[Len(seen)] = declared
    <3>1. CASE pass = 1
      <4>1. Len(tape) = Len(seen) /\ tape' = Append(tape, h)
        BY <1>1, <2>1, <3>1 DEF Steady, Follows
      <4>2. Totals(tape')[Len(seen)] = Totals(tape)[Len(seen)]
        BY <1>2, <2>2, <4>1, TotalsNext
      <4> QED
        BY <1>2, <2>1, <2>2, <4>1, <4>2 DEF Counted
    <3>2. CASE pass = 2
      <4>1. tape' = tape /\ AsBefore(h)
        BY <1>1, <1>3, <3>2
      <4> QED
        BY <1>2, <2>1, <2>2, <4>1 DEF AsBefore, Counted
    <3> QED
      BY <1>1, <3>1, <3>2
  <2>4. Within(end + h.head) /\ Len(seen) < MaxFiles /\ ExtentOK(h) /\ BudgetOK(h)
    BY <1>2, <1>3, <2>1, <2>3, KeptPasses
  <2>5. ASSUME pass = 1  PROVE NameOK(h)
    <3>1. Follows(seen, tape) /\ tape' = Append(tape, h)
      BY <1>1, <2>1, <2>5 DEF Steady
    <3>2. \A k \in DOMAIN seen : /\ seen[k].kind = tape'[k].kind
                                 /\ seen[k].path = Parts[tape'[k].name]
      BY <1>2, <2>2, <3>1 DEF Follows, Noted
    <3> HIDE DEF n
    <3> QED
      BY <1>2, <1>3, <2>2, <2>3, <2>5, <3>2, NamePasses DEF n
  <2> QED
    BY <1>1, <2>4, <2>5 DEF HeaderOK
<1> QED
  BY <1>1, <1>2, <1>3 DEF SteadyInv

LEMMA EndSteady ==
  ASSUME IInv, OutInv, SteadyInv, EndOfArchive
  PROVE  SteadyInv'
<1>1. /\ UNCHANGED <<room, pass, cap, seen, declared, end, limit, tape, made, staging, written>>
      /\ pc = "next" /\ pass \in {1, 2}
      /\ ~touched' => ~touched /\ (pass = 2 => ~(Len(seen) < Len(tape)))
      /\ checked' = (IF pass = 1 THEN seen ELSE checked)
      /\ pc' = (IF pass = 1 THEN "open"
                ELSE IF Len(seen) = Len(checked) THEN "ok" ELSE "refused")
  <2>1. touched' = (touched \/ (pass = 2 /\ Len(seen) < Len(tape)))
    BY DEF EndOfArchive
  <2>2. ~touched' => ~touched /\ (pass = 2 => ~(Len(seen) < Len(tape)))
    BY <2>1, Zenon
  <2> QED
    BY <2>2 DEF OutInv, EndOfArchive, output
<1>2. CASE touched'
  BY <1>1, <1>2 DEF SteadyInv
<1>3. CASE ~touched'
  <2>1. ~touched /\ Steady /\ Counted
    BY <1>1, <1>3 DEF SteadyInv, Steady
  <2>2. CASE pass = 1
    BY <1>1, <2>1, <2>2 DEF SteadyInv, Steady
  <2>3. CASE pass = 2
    <3>1. /\ Follows(checked, tape) /\ Staged /\ Len(seen) <= Len(tape)
          /\ \A k \in DOMAIN seen : seen[k] = checked[k]
      BY <2>1, <2>3 DEF Steady
    <3>2. Len(seen) = Len(checked)
      <4>1. Len(seen) \in Nat /\ Len(tape) \in Nat
        BY DEF IInv, Counters, SteadyInv
      <4> QED
        BY <1>1, <1>3, <2>3, <3>1, <4>1 DEF Follows
    <3>3. pc' = "ok" /\ Done' = Done /\ checked' = checked
      BY <1>1, <2>3, <3>2 DEF Done
    <3>4. Staged'
      BY <1>1, <3>1, <3>3 DEF Staged
    <3> QED
      BY <1>1, <2>3, <3>1, <3>3, <3>4 DEF SteadyInv, Steady
  <2> QED
    BY <1>1, <2>2, <2>3
<1> QED
  BY <1>2, <1>3

\* While the archive is not touched, the member to write is the one the first
\* pass noted of its header.
LEMMA MemberHere ==
  ASSUME IInv, OutInv, SteadyInv, ~touched, pc = "data"
  PROVE  /\ pass = 2 /\ Steady /\ Staged /\ Follows(checked, tape) /\ tape \in Seq(Headers)
         /\ Len(seen) \in 1 .. Len(tape) /\ Len(checked) = Len(tape) /\ Done = Len(seen) - 1
         /\ tape[Len(seen)] \in Headers
         /\ Here = Now /\ Now = checked[Len(seen)]
         /\ Now.path = Parts[tape[Len(seen)].name] /\ Now.kind = tape[Len(seen)].kind
         /\ Size(Here) = Size(tape[Len(seen)])
         /\ Totals(tape)[Len(seen)] = written + Size(Here)
<1> DEFINE n == Len(seen)
<1>1. /\ pass = 2 /\ Steady /\ Staged /\ Follows(checked, tape) /\ tape \in Seq(Headers)
      /\ Len(seen) <= Len(tape) /\ \A k \in DOMAIN seen : seen[k] = checked[k]
  BY DEF OutInv, SteadyInv, Steady
<1>2. /\ n \in 1 .. Len(tape) /\ n \in DOMAIN seen /\ n \in DOMAIN tape /\ Done = n - 1
      /\ Len(checked) = Len(tape) /\ tape[n] \in Headers
  BY <1>1 DEF IInv, Counters, OutInv, Follows, Done
<1>3. Here = Now /\ Now = checked[n] /\ checked[n] = Noted(tape[n], EndOf(checked, tape, n - 1))
  BY <1>1, <1>2 DEF Here, Now, Follows
<1>4. /\ Now.path = Parts[tape[n].name] /\ Now.kind = tape[n].kind /\ Now.size = tape[n].size
  BY <1>3 DEF Noted
<1>5. Size(Here) = Size(tape[n])
  BY <1>3, <1>4 DEF Size
<1>6. Totals(tape)[n] = Totals(tape)[n - 1] + Size(tape[n])
  BY <1>1, <1>2, TotalsAre DEF Sums
<1>7. written = Totals(tape)[n - 1]
  BY <1>1, <1>2 DEF Staged
<1> QED
  BY <1>1, <1>2, <1>3, <1>4, <1>5, <1>6, <1>7

LEMMA WriteSteady ==
  ASSUME IInv, OutInv, SteadyInv, NEW c \in Contents, Write(c)
  PROVE  SteadyInv'
<1>1. /\ UNCHANGED <<room, pass, cap, seen, declared, end, limit, checked, tape>>
      /\ touched' = touched /\ pc = "data" /\ pc' = "next" /\ written' = written + Size(Here)
  BY DEF Write
<1>2. CASE touched
  BY <1>1, <1>2 DEF SteadyInv
<1>3. CASE ~touched
  <2> DEFINE n == Len(seen)
             p == Now.path
             kind == Now.kind
  <2>1. /\ pass = 2 /\ Steady /\ Staged /\ Done = n - 1 /\ n \in 1 .. Len(tape)
        /\ Now = checked[n] /\ Totals(tape)[n] = written + Size(Here)
    BY <1>1, <1>3, MemberHere
  <2>2. Done' = n /\ n \in Nat /\ \A k \in 1 .. n : k \in 1 .. Done \/ k = n
    BY <1>1, <2>1 DEF IInv, Counters, Done
  <2>3. /\ DOMAIN staging' = DOMAIN staging \cup Creates(p, kind)
        /\ made' = made \cup ToMake(p, kind)
    BY WriteDoes
  <2>4. n \in 1 .. n /\ 1 .. Done \subseteq 1 .. n
    BY <2>1, <2>2
  <2> HIDE DEF n
  <2>5. ASSUME NEW e \in DOMAIN staging'
        PROVE  \E k \in 1 .. n : \E q \in Stands(checked[k].path, checked[k].kind) : Place(q, Fs) = e
    <3>1. CASE e \in DOMAIN staging
      BY <2>1, <2>4, <3>1 DEF Staged
    <3>2. CASE e \in Creates(p, kind)
      <4>1. \E q \in Stands(p, kind) : Place(q, Fs) = e
        BY <3>2 DEF Creates, ToMake, Stands
      <4> QED
        BY <2>1, <2>4, <4>1
    <3> QED
      BY <2>3, <2>5, <3>1, <3>2
  <2>6. ASSUME NEW k \in 1 .. n  PROVE Spelled(checked[k].path, checked[k].kind) \subseteq made'
    <3>1. CASE k \in 1 .. Done
      BY <2>1, <2>3, <3>1 DEF Staged
    <3>2. CASE k = n
      BY <2>1, <2>3, <3>2 DEF ToMake
    <3> QED
      BY <2>2, <3>1, <3>2
  <2>7. Staged'
    BY <1>1, <2>1, <2>2, <2>5, <2>6 DEF Staged
  <2>8. Counted'
    BY <1>1, <2>1 DEF Steady, Counted
  <2> QED
    BY <1>1, <1>3, <2>1, <2>7, <2>8 DEF SteadyInv, Steady
<1> QED
  BY <1>2, <1>3

\* Two members one of which stands where the other does collide, unless both
\* only share directories.
LEMMA Elsewhere ==
  ASSUME NEW m, NEW n, ~Collide(m, n), m.kind \in {"file", "dir"}, n.kind \in {"file", "dir"},
         m.path = <<>> => m.kind = "dir", n.path = <<>> => n.kind = "dir",
         NEW q \in Stands(m.path, m.kind), q \in Stands(n.path, n.kind)
  PROVE  q \in Spelled(m.path, m.kind) /\ q \in Spelled(n.path, n.kind)
         /\ ~(n.kind = "file" /\ q = n.path)
<1>1. ~(m.kind = "file" /\ q = m.path)
  <2> SUFFICES ASSUME m.kind = "file", q = m.path  PROVE FALSE
    OBVIOUS
  <2>1. CASE q \in Above(n.path)
    BY <2>1 DEF Collide
  <2>2. CASE q = n.path
    BY <2>2 DEF Collide
  <2> QED
    BY <2>1, <2>2 DEF Stands, Spelled
<1>2. ~(n.kind = "file" /\ q = n.path)
  <2> SUFFICES ASSUME n.kind = "file", q = n.path  PROVE FALSE
    OBVIOUS
  <2>1. CASE q \in Above(m.path)
    BY <2>1 DEF Collide
  <2>2. CASE q = m.path
    BY <2>2 DEF Collide
  <2> QED
    BY <2>1, <2>2 DEF Stands, Spelled
<1> QED
  BY <1>1, <1>2 DEF Stands

LEMMA WritePasses ==
  ASSUME IInv, OutInv, SteadyInv, ~touched, pc = "data", Kept(tape, room), ~Hindered(tape)
  PROVE  WriteOK
<1> DEFINE n == Len(seen)
           p == Now.path
           kind == Now.kind
           h == tape[n]
<1>1. /\ pass = 2 /\ Staged /\ Follows(checked, tape) /\ tape \in Seq(Headers)
      /\ n \in 1 .. Len(tape) /\ Len(checked) = Len(tape) /\ Done = n - 1
      /\ h \in Headers /\ Here = Now /\ Now = checked[n]
      /\ p = Parts[h.name] /\ kind = h.kind
      /\ Size(Here) = Size(h) /\ Totals(tape)[n] = written + Size(Here)
  BY MemberHere
<1>2. n \in DOMAIN tape /\ n \in 0 .. Len(tape) /\ Len(tape) \in Nat
  BY <1>1
<1>3. SameMember
  BY <1>1, <1>2 DEF SameMember
<1>4. ~Unreachable(p)
  BY <1>1, <1>2 DEF Hindered
<1>5. /\ Size(Here) <= MaxFileBytes
      /\ written + Size(Here) <= MaxTotalBytes
      /\ room > 0 => written + Size(Here) <= room
  <2>1. Size(h) <= MaxFileBytes /\ Totals(tape)[Len(tape)] <= MaxTotalBytes
        /\ (room > 0 => Totals(tape)[Len(tape)] <= room)
    BY <1>2 DEF Kept
  <2>2. Totals(tape)[n] \in Nat /\ Totals(tape)[Len(tape)] \in Nat
        /\ Totals(tape)[n] <= Totals(tape)[Len(tape)]
    BY <1>1, <1>2, TotalsGrow
  <2>3. room \in Nat
    BY DEF OutInv
  <2> QED
    BY <1>1, <2>1, <2>2, <2>3, TwoPassAssumption
<1>6. ASSUME NEW e \in Creates(p, kind), e \in DOMAIN staging  PROVE FALSE
  <2>1. PICK k \in 1 .. n - 1 : \E q \in Stands(checked[k].path, checked[k].kind) : Place(q, Fs) = e
    BY <1>1, <1>6 DEF Staged
  <2>2. k \in DOMAIN tape /\ k < n /\ k \in 1 .. Done
    BY <1>1, <2>1
  <2>3. checked[k].path = Part(tape[k]).path /\ checked[k].kind = Part(tape[k]).kind
    <3>1. checked[k] = Noted(tape[k], EndOf(checked, tape, k - 1))
      BY <1>1, <2>2 DEF Follows
    <3>2. checked[k].path = Parts[tape[k].name] /\ checked[k].kind = tape[k].kind
      BY <3>1 DEF Noted
    <3> QED
      BY <3>2 DEF Part
  <2>4. /\ p = Part(h).path /\ kind = Part(h).kind
        /\ p = Parts[tape[n].name] /\ kind = tape[n].kind
        /\ Part(tape[k]).path = Parts[tape[k].name] /\ Part(tape[k]).kind = tape[k].kind
    BY <1>1 DEF Part
  <2>5. PICK q \in Stands(Part(tape[k]).path, Part(tape[k]).kind) : Place(q, Fs) = e
    BY <2>1, <2>3
  <2>6. PICK r \in ToMake(p, kind) \cup (IF kind = "file" THEN {p} ELSE {}) : Place(r, Fs) = e
    BY <1>6 DEF Creates
  <2>7. r \in Stands(p, kind)
    BY <2>6 DEF ToMake, Stands
  <2>8. q = r
    BY <1>2, <2>2, <2>4, <2>5, <2>6, <2>7 DEF Hindered
  <2>9. ~Collide(Part(tape[k]), Part(tape[n]))
    BY <1>2, <2>2 DEF Kept
  <2>10. /\ Part(tape[k]).kind \in {"file", "dir"} /\ Part(h).kind \in {"file", "dir"}
         /\ Part(tape[k]).path = <<>> => Part(tape[k]).kind = "dir"
         /\ Part(h).path = <<>> => Part(h).kind = "dir"
    <3>1. tape[k] \in Headers /\ tape[k].kind # "other" /\ h.kind # "other"
          /\ (Parts[tape[k].name] = <<>> => tape[k].kind = "dir")
          /\ (Parts[h.name] = <<>> => h.kind = "dir")
      BY <1>1, <1>2, <2>2 DEF Kept
    <3> QED
      BY <1>1, <3>1, HeaderIs DEF Part
  <2> DEFINE a == Part(tape[k])
             b == Part(h)
  <2>11. q \in Stands(a.path, a.kind) /\ q \in Stands(b.path, b.kind)
    BY <2>4, <2>5, <2>7, <2>8
  <2>12. ~Collide(a, b)
    BY <2>9
  <2>13. a.kind \in {"file", "dir"} /\ b.kind \in {"file", "dir"}
         /\ (a.path = <<>> => a.kind = "dir") /\ (b.path = <<>> => b.kind = "dir")
    BY <2>10
  <2> HIDE DEF a, b
  <2>14. q \in Spelled(a.path, a.kind) /\ ~(b.kind = "file" /\ q = b.path)
    BY <2>11, <2>12, <2>13, Elsewhere
  <2>15. q \in made
    BY <1>1, <2>2, <2>3, <2>14 DEF Staged, a
  <2>16. r = p /\ kind = "file"
    BY <2>6, <2>8, <2>15 DEF ToMake
  <2> QED
    BY <2>4, <2>8, <2>14, <2>16 DEF b
<1> QED
  BY <1>1, <1>3, <1>4, <1>5, <1>6 DEF WriteOK

LEMMA NextSteady ==
  ASSUME IInv, NamesInv, OutInv, SteadyInv, [Next]_vars
  PROVE  SteadyInv'
<1>1. CASE Open
  BY <1>1, OpenSteady
<1>2. ASSUME NEW h \in Headers, Member(h) PROVE SteadyInv'
  BY <1>2, MemberSteady
<1>3. ASSUME NEW h \in Headers, RefuseMember(h) PROVE SteadyInv'
  BY <1>3, RefuseMemberSteady
<1>4. CASE Damaged
  BY <1>4 DEF Damaged, SteadyInv
<1>5. CASE EndOfArchive
  BY <1>5, EndSteady
<1>6. ASSUME NEW c \in Contents, Write(c) PROVE SteadyInv'
  BY <1>6, WriteSteady
<1>7. CASE RefuseWrite
  <2>1. ~touched => ~Kept(tape, room) \/ Hindered(tape)
    BY <1>7, WritePasses DEF RefuseWrite
  <2> QED
    BY <1>7, <2>1, StillSteady DEF RefuseWrite, Refused
<1>8. CASE UNCHANGED vars
  BY <1>8, StillSteady DEF vars
<1> QED BY <1>1, <1>2, <1>3, <1>4, <1>5, <1>6, <1>7, <1>8 DEF Next, Ended

\* An archive that keeps to the rules and that nobody touches is never
\* refused, unless the destination or its file system stands in the way.
THEOREM KeptAreUnpacked == Spec => []KeptIsUnpacked
<1>1. SteadyInv => KeptIsUnpacked
  BY DEF SteadyInv, KeptIsUnpacked
<1> QED BY <1>1, InitHolds, NextKeeps, NamesInit, NextKeepsNames, OutInit, NextKeepsOut,
          SteadyInit, NextSteady, PTL DEF Spec
=============================================================================
