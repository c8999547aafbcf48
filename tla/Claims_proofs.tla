---------------------------- MODULE Claims_proofs ----------------------------
(***************************************************************************)
(* What holds of claims for every bound, key, signer, draft and linked     *)
(* line: an accepted history is one path (Provenance); what the arms miss  *)
(* and merge is told apart, arm C surfaces each subject's newest lineage,  *)
(* and the order of import does not matter (Memory); what an accepted      *)
(* package is signed over, vouched for and packed from, that a half-made   *)
(* archive is refused, that one signature more leaves every verdict good,  *)
(* and that the external reader and verify agree (PackageLife).            *)
(***************************************************************************)
EXTENDS MCClaims, FiniteSetTheorems, SequenceTheorems, TLAPS

\* Of some lines there is a first.
LEMMA FirstOfSome ==
  ASSUME NEW T, T \subseteq Nat, T # {}
  PROVE  \E k \in T : \A j \in T : k <= j
<1> DEFINE below(k) == T \cap 0 .. k
           sets == {below(k) : k \in T}
<1>1. sets \subseteq FiniteSubsetsOf(Nat) /\ sets # {}
  <2>1. ASSUME NEW k \in T  PROVE IsFiniteSet(below(k))
    <3>1. IsFiniteSet(0 .. k)
      BY FS_Interval
    <3>2. below(k) \in SUBSET (0 .. k)
      OBVIOUS
    <3> QED
      BY <3>1, <3>2, FS_Subset
  <2> QED
    BY <2>1 DEF FiniteSubsetsOf
<1>2. PICK x \in sets : \A y \in sets : <<y, x>> \notin StrictSubsetOrdering(Nat)
  BY <1>1, FS_StrictSubsetOrderingWellFounded, WFMin
<1>3. PICK k \in T : x = below(k)
  OBVIOUS
<1>4. ASSUME NEW j \in T, ~ (k <= j)  PROVE FALSE
  <2>1. below(j) \subseteq below(k) /\ k \in below(k) /\ k \notin below(j)
    BY <1>4
  <2>2. <<below(j), below(k)>> \in StrictSubsetOrdering(Nat)
    BY <2>1 DEF StrictSubsetOrdering
  <2> QED
    BY <1>2, <1>3, <2>2
<1> QED
  BY <1>4

\* What holds of 0 and of each next number holds of all up to n.
LEMMA StepByStep ==
  ASSUME NEW n \in Nat, NEW S, 0 \in S, \A m \in 0 .. n - 1 : m \in S => m + 1 \in S
  PROVE  \A m \in 0 .. n : m \in S
<1> DEFINE rest == (0 .. n) \ S
<1>1. CASE rest = {}
  BY <1>1
<1>2. CASE rest # {}
  <2>1. rest \subseteq Nat
    OBVIOUS
  <2>2. PICK k \in rest : \A j \in rest : k <= j
    BY <1>2, <2>1, FirstOfSome
  <2>3. k - 1 \in 0 .. n - 1 /\ k - 1 \notin rest /\ (k - 1) + 1 = k /\ k \notin S
    BY <2>2
  <2> QED
    BY <2>3
<1> QED
  BY <1>1, <1>2

\* A value for each step, each made of the one before.
Runs(f, N, X, base, G) ==
  f \in [0 .. N -> X] /\ f[0] = base /\ \A n \in 1 .. N : f[n] = G[n][f[n - 1]]

CanRun(N, X, base, G) == \E f : Runs(f, N, X, base, G)

LEMMA Steps ==
  ASSUME NEW N \in Nat, NEW X, NEW base \in X, NEW G \in [1 .. N -> [X -> X]]
  PROVE  CanRun(N, X, base, G)
<1> DEFINE Good(f, m) == /\ f \in [0 .. m -> X] /\ f[0] = base
                         /\ \A n \in 1 .. m : f[n] = G[n][f[n - 1]]
           S == {m \in 0 .. N : \E f : Good(f, m)}
<1>1. 0 \in S
  <2>1. Good([n \in 0 .. 0 |-> base], 0)
    OBVIOUS
  <2> HIDE DEF Good
  <2> QED
    BY <2>1
<1>2. ASSUME NEW m \in 0 .. N - 1, m \in S  PROVE m + 1 \in S
  <2>1. PICK f : Good(f, m)
    BY <1>2
  <2> DEFINE next == G[m + 1][f[m]]
             more == [n \in 0 .. m + 1 |-> IF n <= m THEN f[n] ELSE next]
  <2>2. next \in X
    <3>1. f[m] \in X /\ m + 1 \in 1 .. N
      BY <2>1
    <3> QED
      BY <3>1
  <2>3. next = G[m + 1][f[m]]
    OBVIOUS
  <2> HIDE DEF next
  <2>4. more \in [0 .. m + 1 -> X] /\ \A n \in 0 .. m : more[n] = f[n]
    BY <2>1, <2>2
  <2>5. more[0] = base /\ more[m + 1] = next
    BY <2>1
  <2> HIDE DEF more
  <2>6. \A n \in 1 .. m + 1 : more[n] = G[n][more[n - 1]]
    <3>1. ASSUME NEW n \in 1 .. m  PROVE more[n] = G[n][more[n - 1]]
      <4>1. n \in 0 .. m /\ n - 1 \in 0 .. m
        OBVIOUS
      <4> QED
        BY <2>1, <2>4, <4>1
    <3>2. (m + 1) - 1 = m /\ m \in 0 .. m /\ \A n \in 1 .. m + 1 : n \in 1 .. m \/ n = m + 1
      OBVIOUS
    <3>3. more[m + 1] = G[m + 1][more[(m + 1) - 1]]
      BY <2>3, <2>4, <2>5, <3>2
    <3> QED
      BY <3>1, <3>2, <3>3
  <2>7. Good(more, m + 1)
    BY <2>4, <2>5, <2>6
  <2> HIDE DEF Good
  <2> QED
    BY <2>7
<1> HIDE DEF S
<1>3. N \in S
  <2>1. \A m \in 0 .. N - 1 : m \in S => m + 1 \in S
    BY <1>2
  <2>2. \A m \in 0 .. N : m \in S
    BY <1>1, <2>1, StepByStep
  <2> QED
    BY <2>2
<1>4. PICK f : Good(f, N)
  BY <1>3 DEF S
<1>5. Runs(f, N, X, base, G)
  BY <1>4 DEF Runs
<1> QED
  BY <1>5 DEF CanRun

\* A function that makes each value of the one before is a run.
LEMMA StepsAre ==
  ASSUME NEW N \in Nat, NEW X, NEW base \in X, NEW G \in [1 .. N -> [X -> X]], NEW f,
         f = [n \in 0 .. N |-> f[n]], f[0] = base,
         \A n \in 1 .. N : f[n - 1] \in X => f[n] = G[n][f[n - 1]]
  PROVE  Runs(f, N, X, base, G)
<1> DEFINE S == {n \in 0 .. N : f[n] \in X}
<1>1. 0 \in S
  OBVIOUS
<1>2. ASSUME NEW m \in 0 .. N - 1, m \in S  PROVE m + 1 \in S
  <2>1. m + 1 \in 1 .. N /\ (m + 1) - 1 = m /\ m + 1 \in 0 .. N
    OBVIOUS
  <2>2. f[m] \in X
    BY <1>2
  <2>3. f[m + 1] = G[m + 1][f[m]]
    BY <2>1, <2>2
  <2>4. G[m + 1] \in [X -> X]
    BY <2>1
  <2>5. f[m + 1] \in X
    BY <2>2, <2>3, <2>4
  <2> QED
    BY <2>1, <2>5
<1> HIDE DEF S
<1>3. \A m \in 0 .. N : m \in S
  BY <1>1, <1>2, StepByStep
<1>4. \A n \in 0 .. N : f[n] \in X
  BY <1>3 DEF S
<1>5. \A n \in 1 .. N : n - 1 \in 0 .. N
  OBVIOUS
<1> QED
  BY <1>4, <1>5 DEF Runs

\* So many are the numbers up to n.
LEMMA UpTo ==
  ASSUME NEW n \in Nat
  PROVE  Cardinality(1 .. n) = n
<1>1. 1 \in Int /\ n \in Int /\ (IF 1 > n THEN 0 ELSE n - 1 + 1) = n
  OBVIOUS
<1> QED
  BY <1>1, FS_Interval

\* Numbers that come with all smaller ones are the first ones.
LEMMA FirstOnes ==
  ASSUME NEW n \in Nat, NEW T, T \subseteq 1 .. n, \A k \in 1 .. n - 1 : k + 1 \in T => k \in T
  PROVE  T = 1 .. Cardinality(T)
<1> DEFINE rest == (1 .. n + 1) \ T
<1>4. PICK m \in rest : \A j \in rest : m <= j
  <2>1. rest \subseteq Nat /\ n + 1 \in rest
    OBVIOUS
  <2> QED
    BY <2>1, FirstOfSome
<1>5. m \in Nat \ {0} /\ m \notin T /\ \A k \in 1 .. m - 1 : k \in T
  <2>1. m \in 1 .. n + 1 /\ m \notin T
    BY <1>4
  <2>2. ASSUME NEW k \in 1 .. m - 1  PROVE k \in T
    <3>1. k \in 1 .. n + 1 /\ ~ (m <= k)
      BY <2>1, <2>2
    <3> QED
      BY <1>4, <3>1
  <2> QED
    BY <2>1, <2>2
<1>6. ASSUME NEW i \in T, i > m  PROVE FALSE
  <2> DEFINE later == {k \in T : k > m}
  <2>1. later \subseteq Nat /\ i \in later
    <3>1. \A k \in T : k \in Nat
      OBVIOUS
    <3>2. i \in later
      BY <1>6
    <3> QED
      BY <3>1, <3>2
  <2>2. PICK k \in later : \A j \in later : k <= j
    <3> HIDE DEF later
    <3> QED
      BY <2>1, FirstOfSome
  <2>3. k \in T /\ k > m /\ k \in 1 .. n
    BY <2>2
  <2>4. k - 1 \in 1 .. n - 1 /\ (k - 1) + 1 = k /\ ~ (k <= k - 1) /\ k - 1 >= m
    BY <1>5, <2>3
  <2>5. k - 1 \in T
    BY <2>3, <2>4
  <2>6. k - 1 # m
    BY <1>5, <2>5
  <2>7. k - 1 \in later
    BY <1>5, <2>4, <2>5, <2>6
  <2> QED
    BY <2>2, <2>4, <2>7
<1>7. T = 1 .. m - 1
  <2>1. ASSUME NEW k \in T  PROVE k \in 1 .. m - 1
    <3>1. k \in 1 .. n /\ ~ (k > m) /\ k # m
      BY <1>5, <1>6, <2>1
    <3> QED
      BY <1>5, <3>1
  <2> QED
    BY <1>5, <2>1
<1>8. m - 1 \in Nat
  BY <1>5
<1>9. Cardinality(T) = m - 1
  BY <1>7, <1>8, UpTo
<1> QED
  BY <1>7, <1>9

-----------------------------------------------------------------------------
(* The parts of a run.                                                     *)

\* A run of the three is a run of each: none moves what is another's.
THEOREM ClaimsAreThree == ClaimsSpec => Spec /\ Chain!Spec /\ LifeSpec
<1>1. ClaimsInit => Init /\ Chain!Init /\ LifeInit
  BY DEF ClaimsInit
<1>2. [ClaimsNext]_<<vars, file, life>> => [Next]_vars /\ [Chain!Next]_file /\ [LifeNext]_life
  BY DEF ClaimsNext
<1> QED
  BY <1>1, <1>2, PTL DEF ClaimsSpec, Spec, Chain!Spec, LifeSpec

-----------------------------------------------------------------------------
(* The history of one claim.                                               *)

\* A line has the number it is written at for an id.
ChainInv ==
  /\ file \in Seq([id : Nat, type : Chain!Types, time : Nat, prev : Nat, inst : Nat, target : Nat])
  /\ \A k \in DOMAIN file : file[k].id = k

LEMMA ChainStep == ASSUME ChainInv, [Chain!Next]_file PROVE ChainInv'
<1> DEFINE Lin == [id : Nat, type : Chain!Types, time : Nat, prev : Nat, inst : Nat, target : Nat]
<1>1. CASE Chain!Append1
  <2> DEFINE n == Len(file) + 1
  <2>1. n \in Nat /\ MaxDates \in Nat /\ MaxEvents \in Nat
    BY ChainAssumption DEF ChainInv, Chain!ProvenanceAssumption
  <2>2. PICK t \in Chain!Types, time \in 1 .. MaxDates, prev \in (Chain!Id \ {n}) \cup {0},
             inst \in {0, 1, n}, target \in Chain!Id \cup {0} :
          file' = Append(file, [id |-> n, type |-> t, time |-> time, prev |-> prev,
                                inst |-> inst, target |-> target])
    BY <1>1 DEF Chain!Append1
  <2> DEFINE e == [id |-> n, type |-> t, time |-> time, prev |-> prev, inst |-> inst, target |-> target]
  <2>3. e \in Lin /\ e.id = n
    BY <2>1, <2>2 DEF Chain!Id
  <2> HIDE DEF Lin, e
  <2>4. file \in Seq(Lin) /\ file' = Append(file, e)
    BY <2>2 DEF ChainInv, Lin, e
  <2>5. file' \in Seq(Lin) /\ DOMAIN file' = 1 .. n /\ file'[n] = e
        /\ \A k \in 1 .. Len(file) : file'[k] = file[k]
    BY <2>3, <2>4
  <2>6. \A k \in 1 .. n : k \in 1 .. Len(file) \/ k = n
    BY <2>1
  <2>7. \A k \in DOMAIN file' : file'[k].id = k
    <3>1. \A k \in 1 .. Len(file) : file[k].id = k
      <4>1. DOMAIN file = 1 .. Len(file)
        BY <2>4
      <4>2. \A k \in DOMAIN file : file[k].id = k
        BY DEF ChainInv
      <4> QED BY <4>1, <4>2
    <3> QED BY <2>3, <2>5, <2>6, <3>1
  <2> QED BY <2>5, <2>7 DEF ChainInv, Lin
<1>2. CASE UNCHANGED file
  BY <1>2 DEF ChainInv
<1> QED BY <1>1, <1>2 DEF Chain!Next, Chain!Full

\* The first n lines have their ids and are one path from a create.
Numbered(s, n) == DOMAIN s = 1 .. n /\ \A k \in 1 .. n : s[k].id = k
PathOf(s, n) ==
  \E p \in Chain!Bijection(1 .. n, 1 .. n) :
    /\ s[p[1]].type = "create"
    /\ \A k \in 2 .. n : s[p[k]].prev = s[p[k - 1]].id

\* Lines whose chain is sound are one path.
LEMMA Path ==
  ASSUME NEW s, NEW n \in Nat, Numbered(s, n), Chain!ChainOK(s)
  PROVE  PathOf(s, n)
<1> USE DEF Numbered
<1>1. PICK c : Chain!Creates(s) = {c}
  <2>1. IsFiniteSet(1 .. n)
    BY FS_Interval
  <2>2. Chain!Creates(s) \in SUBSET (1 .. n)
    BY DEF Chain!Creates
  <2>3. Cardinality(Chain!Creates(s)) = 1
    <3>1. Chain!Cardinality(Chain!Creates(s)) = Cardinality(Chain!Creates(s))
      BY DEF Chain!Cardinality, Cardinality
    <3> QED BY <3>1 DEF Chain!ChainOK
  <2> QED BY <2>1, <2>2, <2>3, FS_Subset, FS_Singleton
<1>2. c \in 1 .. n /\ s[c].type = "create"
  BY <1>1 DEF Chain!Creates
<1>3. ASSUME NEW e \in 1 .. n, e # c
      PROVE  /\ \E j \in 1 .. n : (j < e \/ j = c) /\ s[e].prev = j
             /\ \A j \in 1 .. n : j # c /\ j # e => s[j].prev # s[e].prev
  BY <1>1, <1>3 DEF Chain!ChainOK
<1> DEFINE S(m) == {c} \cup 1 .. m
           Size(m) == IF c <= m THEN m ELSE m + 1
           IsPath(p, m) == /\ p \in [1 .. Size(m) -> S(m)] /\ p[1] = c
                           /\ \A x \in S(m) : \E k \in 1 .. Size(m) : p[k] = x
                           /\ \A j, k \in 1 .. Size(m) : p[j] = p[k] => j = k
                           /\ \A k \in 2 .. Size(m) : s[p[k]].prev = p[k - 1]
           bad == {m \in 0 .. n : ~ \E p : IsPath(p, m)}
<1>4. \E p : IsPath(p, 0)
  <2>1. IsPath([k \in 1 .. 1 |-> c], 0)
    BY <1>2
  <2> QED BY <2>1
<1>5. ASSUME NEW m \in 0 .. n - 1, NEW p, IsPath(p, m) PROVE \E q : IsPath(q, m + 1)
  <2> DEFINE e == m + 1
             l == Size(m)
  <2>1. CASE e = c
    <3>1. S(m + 1) = S(m) /\ Size(m + 1) = Size(m)
      BY <1>2, <2>1
    <3> HIDE DEF S, Size
    <3>2. IsPath(p, m + 1)
      BY <1>5, <3>1
    <3> QED BY <3>2
  <2>2. CASE e # c
    <3>1. e \in 1 .. n /\ e \notin S(m) /\ S(m + 1) = S(m) \cup {e} /\ Size(m + 1) = l + 1 /\ l \in Nat \ {0}
          /\ c \in S(m) /\ \A x \in S(m) : x \in 1 .. n
      BY <1>2, <2>2
    <3>2. PICK j \in S(m) : s[e].prev = j
      BY <1>3, <2>2, <3>1
    <3> HIDE DEF S, Size
    <3>3. PICK i \in 1 .. l : p[i] = j
      BY <1>5
    <3>4. i = l
      <4>1. SUFFICES ASSUME i + 1 \in 2 .. l PROVE FALSE
        BY <3>1, <3>3
      <4>2. p[i + 1] \in S(m) /\ p[i + 1] # c /\ s[p[i + 1]].prev = p[i]
        <5>1. i + 1 \in 1 .. l /\ i + 1 # 1 /\ 1 \in 1 .. l /\ (i + 1) - 1 = i
          BY <3>1, <3>3, <4>1
        <5> QED BY <1>5, <4>1, <5>1
      <4>3. p[i + 1] \in 1 .. n /\ p[i + 1] # e
        BY <3>1, <4>2
      <4> QED BY <1>3, <2>2, <3>1, <3>2, <3>3, <4>2, <4>3
    <3> DEFINE q == [k \in 1 .. l + 1 |-> IF k <= l THEN p[k] ELSE e]
    <3>5. \A k \in 1 .. l : q[k] = p[k] /\ q[k] \in S(m) /\ q[k] # e
      <4>1. \A k \in 1 .. l : p[k] \in S(m)
        BY <1>5
      <4>2. \A k \in 1 .. l : q[k] = p[k]
        BY <3>1
      <4> HIDE DEF q
      <4> QED BY <3>1, <4>1, <4>2
    <3>6. q[l + 1] = e /\ 1 \in 1 .. l
      BY <3>1
    <3>7. \A k \in 1 .. l + 1 : k \in 1 .. l \/ k = l + 1
      BY <3>1
    <3>8. q \in [1 .. l + 1 -> S(m) \cup {e}]
      <4>1. DOMAIN q = 1 .. l + 1 /\ q = [k \in 1 .. l + 1 |-> q[k]]
        OBVIOUS
      <4> HIDE DEF q
      <4> QED BY <3>5, <3>6, <3>7, <4>1
    <3>9. \A k \in 2 .. l + 1 : s[q[k]].prev = q[k - 1]
      <4>1. ASSUME NEW k \in 2 .. l PROVE s[q[k]].prev = q[k - 1]
        <5>1. k \in 1 .. l /\ k - 1 \in 1 .. l
          BY <3>1
        <5> HIDE DEF q
        <5> QED BY <1>5, <3>5, <5>1
      <4>2. s[q[l + 1]].prev = q[l + 1 - 1]
        <5>1. l + 1 - 1 = l /\ l \in 1 .. l
          BY <3>1
        <5> HIDE DEF q
        <5> QED BY <3>2, <3>3, <3>4, <3>5, <3>6, <5>1
      <4>3. \A k \in 2 .. l + 1 : k \in 2 .. l \/ k = l + 1
        BY <3>1
      <4> HIDE DEF q
      <4> QED
        <5>1. SUFFICES ASSUME NEW k \in 2 .. l + 1 PROVE s[q[k]].prev = q[k - 1]
          OBVIOUS
        <5>2. CASE k = l + 1
          BY <3>1, <4>2, <5>2
        <5>3. CASE k # l + 1
          BY <4>1, <4>3, <5>3
        <5> QED BY <5>2, <5>3
    <3>10. \A x \in S(m) \cup {e} : \E k \in 1 .. l + 1 : q[k] = x
      <4>1. \A k \in 1 .. l : k \in 1 .. l + 1
        BY <3>1
      <4>2. l + 1 \in 1 .. l + 1
        BY <3>1
      <4> HIDE DEF q
      <4> QED BY <1>5, <3>5, <3>6, <4>1, <4>2
    <3>11. \A x, y \in 1 .. l + 1 : q[x] = q[y] => x = y
      <4> HIDE DEF q
      <4> QED BY <1>5, <3>5, <3>6, <3>7
    <3>12. q[1] = c
      <4> HIDE DEF q
      <4> QED BY <1>5, <3>5, <3>6
    <3> HIDE DEF q
    <3>13. IsPath(q, m + 1)
      BY <3>1, <3>8, <3>9, <3>10, <3>11, <3>12
    <3> QED BY <3>13
  <2> QED BY <2>1, <2>2
<1>6. bad = {}
  <2>1. SUFFICES ASSUME bad # {} PROVE FALSE
    OBVIOUS
  <2>2. bad \subseteq Nat
    OBVIOUS
  <2>3. PICK m \in bad : \A k \in bad : m <= k
    <3> HIDE DEF bad
    <3> QED BY <2>1, <2>2, FirstOfSome
  <2> HIDE DEF IsPath
  <2>4. m # 0
    BY <1>4
  <2>5. m - 1 \in 0 .. n - 1 /\ m - 1 \notin bad /\ (m - 1) + 1 = m
    BY <2>3, <2>4
  <2>6. PICK p : IsPath(p, m - 1)
    BY <2>5
  <2>7. \E q : IsPath(q, (m - 1) + 1)
    BY <1>5, <2>5, <2>6
  <2> QED BY <2>5, <2>7
<1>7. PICK p : IsPath(p, n)
  <2> HIDE DEF IsPath
  <2>1. n \in 0 .. n
    OBVIOUS
  <2> QED BY <1>6, <2>1
<1>8. S(n) = 1 .. n /\ Size(n) = n
  BY <1>2
<1>9. /\ p \in [1 .. n -> 1 .. n] /\ p[1] = c /\ (\A x \in 1 .. n : \E k \in 1 .. n : p[k] = x)
      /\ \A j, k \in 1 .. n : p[j] = p[k] => j = k
      /\ \A k \in 2 .. n : s[p[k]].prev = p[k - 1]
  <2> HIDE DEF S, Size
  <2> QED BY <1>7, <1>8
<1>10. p \in Chain!Bijection(1 .. n, 1 .. n)
  BY <1>9 DEF Chain!Bijection, Chain!Injection, Chain!Surjection, Chain!IsInjective
<1>11. ASSUME NEW k \in 2 .. n PROVE s[p[k - 1]].id = p[k - 1]
  <2>1. k - 1 \in 1 .. n
    OBVIOUS
  <2>2. p[k - 1] \in 1 .. n
    BY <1>9, <2>1
  <2> QED BY <2>2
<1>12. \A k \in 2 .. n : s[p[k]].prev = s[p[k - 1]].id
  BY <1>9, <1>11
<1>13. s[p[1]].type = "create"
  BY <1>2, <1>9
<1> QED BY <1>10, <1>12, <1>13 DEF PathOf

\* A claim's accepted history is one path.
THEOREM HistoryIsOnePath == Chain!Spec => []OnePath
<1>1. Chain!Init => ChainInv
  BY DEF Chain!Init, ChainInv
<1>2. ChainInv /\ [Chain!Next]_file => ChainInv'
  BY ChainStep
<1>3. ChainInv => OnePath
  <2> SUFFICES ASSUME ChainInv, file # <<>>, Chain!Accepted(file)
               PROVE  \E p \in Chain!Bijection(DOMAIN file, DOMAIN file) :
                        /\ file[p[1]].type = "create"
                        /\ \A k \in 2 .. Len(file) : file[p[k]].prev = file[p[k - 1]].id
    BY DEF OnePath, Chain!OnePath
  <2>1. Len(file) \in Nat /\ DOMAIN file = 1 .. Len(file)
    BY DEF ChainInv
  <2>2. (\A k \in 1 .. Len(file) : file[k].id = k) /\ Chain!ChainOK(file)
    <3>1. \A k \in DOMAIN file : file[k].id = k
      BY DEF ChainInv
    <3> QED BY <2>1, <3>1 DEF Chain!Accepted
  <2>3. PathOf(file, Len(file))
    <3>1. Numbered(file, Len(file))
      BY <2>1, <2>2 DEF Numbered
    <3> QED BY <2>1, <2>2, <3>1, Path
  <2> QED BY <2>1, <2>3 DEF PathOf
<1> QED BY <1>1, <1>2, <1>3, PTL DEF Chain!Spec

-----------------------------------------------------------------------------
(* What the linker makes of the lines.                                     *)

Line == [body : Nat, at : Nat, reading : Reading]

Frontmatter ==
  [id : Nat, subject : Subject \cup ({"own"} \X Nat), object : Value \cup ({"body"} \X Nat),
   state : {"active"}, supersedes : SUBSET Nat, from : Nat, until : {0}, polarity : {Absent},
   created : {0}]

\* What a line says and what frontmatter says are one.
Says(meta, l) == meta.subject = SubjectOf(l) /\ meta.object = ValueOf(l)

MemoryTypes ==
  /\ lines \in Seq(Line) /\ settled \in Seq(Frontmatter) /\ minted \in Nat
  /\ arm \in Arm /\ emitted \in [Arm -> Seq(Frontmatter)]
  /\ \A b \in DOMAIN metaOf : metaOf[b] \in Frontmatter
  /\ \A x \in DOMAIN headMeta : headMeta[x] \in Frontmatter
  /\ \A x \in DOMAIN head : head[x] \in Nat

\* The frontmatter that was settled, that a body carries or that stands.
Known ==
  {settled[k] : k \in DOMAIN settled} \cup {metaOf[b] : b \in DOMAIN metaOf}
    \cup {headMeta[x] : x \in DOMAIN headMeta}

\* Of a lineage there is one frontmatter, and it is no newer than the last.
OneEach ==
  /\ \A m \in Known : m.id <= minted
  /\ \A m, n \in Known : m.id = n.id => m = n

\* Every line is settled as it says, a body carries what its lines say, and
\* what stands on a subject is about it.
LinkedAsSaid ==
  /\ Len(settled) = Len(lines)
  /\ \A k \in 1 .. Len(lines) : Says(settled[k], lines[k])
  /\ \A b \in DOMAIN metaOf : \E k \in 1 .. Len(lines) : lines[k].body = b /\ Says(metaOf[b], lines[k])
  /\ \A x \in DOMAIN headMeta : headMeta[x].subject = x

\* Every arm is given what was settled.
GivenAsSettled ==
  /\ \A a \in Arm : /\ Len(emitted[a]) <= Len(settled)
                    /\ \A k \in 1 .. Len(emitted[a]) : emitted[a][k] = settled[k]
  /\ arm = "A" => Len(emitted["A"]) = Len(settled)

MemoryInv == MemoryTypes /\ OneEach /\ LinkedAsSaid /\ GivenAsSettled

-----------------------------------------------------------------------------

\* A line to be linked is a line.
LEMMA NextLineIs ==
  ASSUME MemoryTypes, NEW l \in NextLine
  PROVE  /\ l \in Line
         /\ \A k \in 1 .. Len(lines) : lines[k].body = l.body => lines[k].reading = l.reading
<1> DEFINE seen == {lines[k].body : k \in DOMAIN lines}
<1>1. Len(lines) \in Nat /\ DOMAIN lines = 1 .. Len(lines)
  BY DEF MemoryTypes
<1>2. Cardinality(seen) \in Nat
  <2>1. IsFiniteSet(DOMAIN lines)
    BY <1>1, FS_Interval
  <2>2. IsFiniteSet(seen)
    <3> DEFINE f == [k \in DOMAIN lines |-> lines[k].body]
    <3>1. f \in Surjection(DOMAIN lines, seen)
      BY DEF Surjection
    <3> QED BY <2>1, <3>1, FS_Surjection
  <2> QED BY <2>2, FS_CardinalityType
<1>3. l \in [body : 1 .. Cardinality(seen) + 1, at : {t \in Time : NotBefore(t)}, reading : Reading]
      /\ \A k \in DOMAIN lines : lines[k].body = l.body => lines[k].reading = l.reading
  BY DEF NextLine
<1> HIDE DEF seen
<1>4. l.body \in Nat /\ l.at \in Nat
  BY <1>2, <1>3, MemoryAssumption DEF Time
<1> QED BY <1>1, <1>3, <1>4 DEF Line

LEMMA SaysTyped ==
  ASSUME NEW l \in Line
  PROVE  SubjectOf(l) \in Subject \cup ({"own"} \X Nat) /\ ValueOf(l) \in Value \cup ({"body"} \X Nat)
BY DEF Line, Reading, SubjectOf, ValueOf

\* The frontmatter of a new lineage.
LEMMA MintedIs ==
  ASSUME MemoryTypes, NEW subject \in Subject \cup ({"own"} \X Nat),
         NEW value \in Value \cup ({"body"} \X Nat), NEW at \in Nat
  PROVE  /\ Minted(subject, value, at) \in Frontmatter
         /\ Minted(subject, value, at).id = minted + 1
         /\ Minted(subject, value, at).subject = subject
         /\ Minted(subject, value, at).object = value
BY DEF MemoryTypes, Minted, Frontmatter

LEMMA LineageNumbered == ASSUME NEW m \in Frontmatter PROVE m.id \in Nat
BY DEF Frontmatter

LEMMA KnownNumbered == ASSUME MemoryTypes, NEW m \in Known PROVE m.id \in Nat
<1>1. \A k \in DOMAIN settled : settled[k] \in Frontmatter
  BY DEF MemoryTypes
<1>2. m \in Frontmatter
  BY <1>1 DEF MemoryTypes, Known
<1> QED BY <1>2, LineageNumbered

\* A line is settled with frontmatter that is known or of a new lineage.
LEMMA EmitKeeps ==
  ASSUME MemoryInv, NEW l \in NextLine, arm = "A", NEW meta \in Frontmatter, Emit(l, meta),
         Says(meta, l), lines' = Append(lines, l), arm' = arm,
         \/ meta \in Known /\ UNCHANGED <<head, headMeta, minted>>
         \/ meta.id = minted + 1 /\ minted' = minted + 1 /\ SetHead(SubjectOf(l), meta)
  PROVE  MemoryInv'
<1>1. /\ settled \in Seq(Frontmatter) /\ lines \in Seq(Line) /\ l \in Line /\ minted \in Nat
      /\ Len(settled) = Len(lines) /\ emitted \in [Arm -> Seq(Frontmatter)]
      /\ emitted["A"] \in Seq(Frontmatter) /\ "A" \in Arm
  BY NextLineIs DEF MemoryInv, MemoryTypes, LinkedAsSaid, Arm
<1> DEFINE n == Len(lines) + 1
<1>2. /\ lines' \in Seq(Line) /\ Len(lines') = n /\ lines'[n] = l /\ Len(lines) \in Nat /\ n \in Nat
      /\ \A k \in 1 .. Len(lines) : lines'[k] = lines[k]
  BY <1>1
<1>3. settled' = Append(settled, meta) /\ metaOf' = Put(metaOf, l.body, meta)
      /\ emitted' = [emitted EXCEPT !["A"] = Append(@, meta)]
  BY DEF Emit
<1>4. /\ settled' \in Seq(Frontmatter) /\ Len(settled') = n /\ settled'[n] = meta
      /\ \A k \in 1 .. Len(lines) : settled'[k] = settled[k]
  BY <1>1, <1>3
<1>5. /\ DOMAIN metaOf' = DOMAIN metaOf \cup {l.body} /\ metaOf'[l.body] = meta
      /\ \A b \in DOMAIN metaOf \ {l.body} : metaOf'[b] = metaOf[b]
  BY <1>3 DEF Put
<1>6. minted' \in Nat /\ meta.id <= minted' /\ minted <= minted'
  BY <1>1, LineageNumbered DEF MemoryInv, OneEach
<1>7. \A k \in 1 .. n : k \in 1 .. Len(lines) \/ k = n
  BY <1>2
<1>8. \A x \in DOMAIN headMeta' : \/ headMeta'[x] = meta /\ x = SubjectOf(l)
                                  \/ x \in DOMAIN headMeta /\ headMeta'[x] = headMeta[x]
  <2>1. CASE UNCHANGED headMeta
    BY <2>1
  <2>2. CASE SetHead(SubjectOf(l), meta)
    BY <2>2 DEF SetHead, Put
  <2> QED BY <2>1, <2>2
<1>9. \A m \in Known' : m \in Known \/ m = meta
  <2>1. DOMAIN settled' = 1 .. n /\ DOMAIN settled = 1 .. Len(lines)
    BY <1>1, <1>4
  <2> QED BY <1>4, <1>5, <1>7, <1>8, <2>1 DEF Known
<1>10. OneEach'
  <2>1. \A m \in Known : m.id \in Nat /\ m.id <= minted
    BY KnownNumbered DEF MemoryInv, OneEach
  <2>2. \A m \in Known : m.id = meta.id => m = meta
    BY <1>1, <2>1 DEF MemoryInv, OneEach
  <2>3. \A m \in Known : m.id <= minted'
    BY <1>1, <1>6, <2>1
  <2>4. \A m \in Known' : m.id <= minted'
    BY <1>6, <1>9, <2>3
  <2>5. \A m, o \in Known' : m.id = o.id => m = o
    BY <1>9, <2>2 DEF MemoryInv, OneEach
  <2> QED BY <2>4, <2>5 DEF OneEach
<1>11. LinkedAsSaid'
  <2>1. \A k \in 1 .. n : Says(settled'[k], lines'[k])
    BY <1>2, <1>4, <1>7 DEF MemoryInv, LinkedAsSaid
  <2>2. \A b \in DOMAIN metaOf' : \E k \in 1 .. n : lines'[k].body = b /\ Says(metaOf'[b], lines'[k])
    <3>1. ASSUME NEW b \in DOMAIN metaOf \ {l.body}
          PROVE  \E k \in 1 .. n : lines'[k].body = b /\ Says(metaOf'[b], lines'[k])
      <4>1. PICK k \in 1 .. Len(lines) : lines[k].body = b /\ Says(metaOf[b], lines[k])
        BY DEF MemoryInv, LinkedAsSaid
      <4>2. k \in 1 .. n
        BY <1>2
      <4> QED BY <1>2, <1>5, <4>1, <4>2
    <3>2. n \in 1 .. n
      BY <1>2
    <3> QED BY <1>2, <1>5, <3>1, <3>2
  <2>3. \A x \in DOMAIN headMeta' : headMeta'[x].subject = x
    BY <1>8 DEF MemoryInv, LinkedAsSaid, Says
  <2> QED BY <1>2, <1>4, <2>1, <2>2, <2>3 DEF LinkedAsSaid, Says
<1>12. MemoryTypes' /\ GivenAsSettled'
  <2>1. /\ emitted' \in [Arm -> Seq(Frontmatter)] /\ emitted'["A"] = Append(emitted["A"], meta)
        /\ \A a \in Arm \ {"A"} : emitted'[a] = emitted[a]
    <3>1. Append(emitted["A"], meta) \in Seq(Frontmatter)
      BY <1>1
    <3> QED BY <1>1, <1>3, <3>1
  <2>2. \A x \in DOMAIN head' : head'[x] \in Nat
    <3>1. (\A x \in DOMAIN head : head[x] \in Nat) /\ meta.id \in Nat
      BY LineageNumbered DEF MemoryInv, MemoryTypes
    <3>2. CASE SetHead(SubjectOf(l), meta)
      BY <3>1, <3>2 DEF SetHead, Put
    <3> QED BY <3>1, <3>2
  <2>3. (\A b \in DOMAIN metaOf' : metaOf'[b] \in Frontmatter)
        /\ \A x \in DOMAIN headMeta' : headMeta'[x] \in Frontmatter
    BY <1>5, <1>8 DEF MemoryInv, MemoryTypes
  <2>4. MemoryTypes'
    BY <1>2, <1>4, <1>6, <2>1, <2>2, <2>3, <1>1 DEF MemoryTypes
  <2>5. Len(emitted'["A"]) = n /\ \A k \in 1 .. n : emitted'["A"][k] = settled'[k]
    <3>1. Len(emitted["A"]) = Len(lines) /\ \A k \in 1 .. Len(lines) : emitted["A"][k] = settled[k]
      BY <1>1 DEF MemoryInv, GivenAsSettled
    <3>2. /\ Len(emitted'["A"]) = n /\ emitted'["A"][n] = meta
          /\ \A k \in 1 .. Len(lines) : emitted'["A"][k] = emitted["A"][k]
      BY <1>1, <2>1, <3>1
    <3> QED BY <1>4, <1>7, <3>1, <3>2
  <2>6. \A a \in Arm \ {"A"} : /\ Len(emitted'[a]) <= n
                              /\ \A k \in 1 .. Len(emitted'[a]) : emitted'[a][k] = settled'[k]
    <3>1. ASSUME NEW a \in Arm \ {"A"}
          PROVE  Len(emitted[a]) \in Nat /\ Len(emitted[a]) <= Len(lines)
                 /\ \A k \in 1 .. Len(emitted[a]) : emitted[a][k] = settled[k]
      BY <1>1 DEF MemoryInv, GivenAsSettled
    <3> QED BY <1>2, <1>4, <2>1, <3>1
  <2>7. GivenAsSettled'
    BY <1>2, <1>4, <2>5, <2>6 DEF GivenAsSettled
  <2> QED BY <2>4, <2>7
<1> QED BY <1>10, <1>11, <1>12 DEF MemoryInv

\* Each way to link a line.
LEMMA LinkKeeps ==
  ASSUME MemoryInv, NEW l \in NextLine, arm = "A", arm' = arm, lines' = Append(lines, l), Link(l)
  PROVE  MemoryInv'
<1>1. /\ MemoryTypes /\ l \in Line
      /\ \A k \in 1 .. Len(lines) : lines[k].body = l.body => lines[k].reading = l.reading
  BY NextLineIs DEF MemoryInv
<1>2. ASSUME l.body \in DOMAIN metaOf
      PROVE  /\ metaOf[l.body] \in Frontmatter /\ metaOf[l.body] \in Known
             /\ Says(metaOf[l.body], l)
  <2>1. PICK k \in 1 .. Len(lines) : lines[k].body = l.body /\ Says(metaOf[l.body], lines[k])
    BY <1>2 DEF MemoryInv, LinkedAsSaid
  <2>2. lines[k].reading = l.reading
    BY <1>1, <2>1
  <2>3. Says(metaOf[l.body], l)
    BY <2>1, <2>2 DEF Says, SubjectOf, ValueOf
  <2> QED BY <1>1, <1>2, <2>3 DEF MemoryTypes, Known
<1>3. /\ SubjectOf(l) \in Subject \cup ({"own"} \X Nat) /\ ValueOf(l) \in Value \cup ({"body"} \X Nat)
      /\ l.at \in Nat
  BY <1>1, SaysTyped DEF Line
<1>4. CASE Restate(l)
  BY <1>2, <1>4, EmitKeeps DEF Restate
<1>5. CASE Revert(l)
  <2> DEFINE prior == metaOf[l.body]
             meta == Minted(prior.subject, prior.object, l.at)
  <2>1. Says(prior, l) /\ Emit(l, meta) /\ SetHead(prior.subject, meta) /\ minted' = minted + 1
    BY <1>2, <1>5 DEF Revert
  <2>2. prior.subject = SubjectOf(l) /\ prior.object = ValueOf(l)
    BY <2>1 DEF Says
  <2>3. meta \in Frontmatter /\ meta.id = minted + 1 /\ Says(meta, l)
    BY <1>1, <1>3, <2>2, MintedIs DEF Says
  <2> HIDE DEF meta, prior
  <2> QED BY <2>1, <2>2, <2>3, EmitKeeps
<1>6. CASE Reword(l)
  <2> DEFINE meta == headMeta[SubjectOf(l)]
  <2>1. /\ SubjectOf(l) \in DOMAIN headMeta /\ meta.object = ValueOf(l) /\ Emit(l, meta)
        /\ UNCHANGED <<head, headMeta, minted>>
    BY <1>6 DEF Reword, SameValue
  <2>2. meta \in Frontmatter /\ meta \in Known /\ Says(meta, l)
    BY <1>1, <2>1 DEF MemoryInv, MemoryTypes, LinkedAsSaid, Known, Says
  <2> HIDE DEF meta
  <2> QED BY <2>1, <2>2, EmitKeeps
<1>7. CASE Mint(l)
  <2> DEFINE meta == Minted(SubjectOf(l), ValueOf(l), l.at)
  <2>1. Emit(l, meta) /\ SetHead(SubjectOf(l), meta) /\ minted' = minted + 1
    BY <1>7 DEF Mint
  <2>2. meta \in Frontmatter /\ meta.id = minted + 1 /\ Says(meta, l)
    BY <1>1, <1>3, MintedIs DEF Says
  <2> HIDE DEF meta
  <2> QED BY <2>1, <2>2, EmitKeeps
<1> QED BY <1>4, <1>5, <1>6, <1>7 DEF Link

LEMMA MemoryStep == ASSUME MemoryInv, [Next]_vars PROVE MemoryInv'
<1>1. CASE Read
  BY <1>1, LinkKeeps DEF Read
<1>2. CASE Replay
  <2>1. /\ emitted' = [emitted EXCEPT ![arm] = Append(@, settled[Len(@) + 1])]
        /\ UNCHANGED <<lines, arm, linker, records>> /\ Len(emitted[arm]) < Len(lines)
    BY <1>2 DEF Replay, Behind
  <2> DEFINE n == Len(emitted[arm]) + 1
  <2>2. /\ arm \in Arm /\ emitted[arm] \in Seq(Frontmatter) /\ settled \in Seq(Frontmatter)
        /\ Len(settled) = Len(lines) /\ emitted \in [Arm -> Seq(Frontmatter)]
    BY DEF MemoryInv, MemoryTypes, LinkedAsSaid
  <2>3. n \in 1 .. Len(settled) /\ settled[n] \in Frontmatter
    BY <2>1, <2>2
  <2>4. /\ emitted'[arm] = Append(emitted[arm], settled[n])
        /\ \A a \in Arm \ {arm} : emitted'[a] = emitted[a]
        /\ emitted' \in [Arm -> Seq(Frontmatter)]
    <3>1. Append(emitted[arm], settled[n]) \in Seq(Frontmatter)
      BY <2>2, <2>3
    <3> QED BY <2>1, <2>2, <3>1
  <2>5. /\ Len(emitted'[arm]) = n /\ emitted'[arm][n] = settled[n]
        /\ \A k \in 1 .. n - 1 : emitted'[arm][k] = emitted[arm][k]
    BY <2>2, <2>4
  <2>6. /\ Len(emitted'[arm]) <= Len(settled)
        /\ \A k \in 1 .. Len(emitted'[arm]) : emitted'[arm][k] = settled[k]
    <3>1. \A k \in 1 .. n : k = n \/ k \in 1 .. n - 1
      BY <2>2
    <3>2. \A k \in 1 .. n - 1 : emitted[arm][k] = settled[k]
      BY <2>2 DEF MemoryInv, GivenAsSettled
    <3> QED BY <2>3, <2>5, <3>1, <3>2
  <2>7. arm # "A"
    BY <2>1, <2>2 DEF MemoryInv, GivenAsSettled
  <2>8. GivenAsSettled'
    BY <2>1, <2>4, <2>6, <2>7 DEF MemoryInv, GivenAsSettled, linker
  <2> QED BY <2>1, <2>4, <2>8 DEF MemoryInv, MemoryTypes, OneEach, Known, LinkedAsSaid, linker
<1>3. CASE NextArm
  BY <1>3 DEF NextArm, Arm, MemoryInv, MemoryTypes, OneEach, Known, LinkedAsSaid, GivenAsSettled,
     linker
<1>4. CASE Import \/ Over \/ UNCHANGED vars
  <2>1. UNCHANGED <<lines, arm, emitted, settled, metaOf, head, headMeta, minted>>
    BY <1>4 DEF Import, Over, vars, linker
  <2> QED BY <2>1 DEF MemoryInv, MemoryTypes, OneEach, Known, LinkedAsSaid, GivenAsSettled, Says
<1> QED BY <1>1, <1>2, <1>3, <1>4 DEF Next

\* What arm C does not merge is split between lineages, what it merges beyond
\* the labels is one fact in two wordings.
THEOREM DeficitIsSplit == Spec => []DeficitIsFragmented
<1>1. Init => MemoryInv
  <2> SUFFICES ASSUME Init PROVE MemoryInv
    OBVIOUS
  <2>1. \A a \in Arm : emitted[a] = <<>>
    BY DEF Init
  <2>2. emitted \in [Arm -> Seq(Frontmatter)]
    <3>1. <<>> \in Seq(Frontmatter)
      OBVIOUS
    <3> QED BY <3>1 DEF Init
  <2> QED BY <2>1, <2>2 DEF Init, Arm, MemoryInv, MemoryTypes, OneEach, Known, LinkedAsSaid,
       GivenAsSettled
<1>2. MemoryInv /\ [Next]_vars => MemoryInv'
  BY MemoryStep
<1>3. ASSUME MemoryInv, Finished PROVE DeficitIsFragmented
  <2> DEFINE n == Len(lines)
             last == emitted["C"]
  <2>1. /\ n \in Nat /\ DOMAIN lines = 1 .. n /\ DOMAIN last = 1 .. n
        /\ \A k \in 1 .. n : last[k] = settled[k] /\ Says(settled[k], lines[k])
        /\ \A j, k \in 1 .. n : settled[j].id = settled[k].id => settled[j] = settled[k]
    <3>1. /\ lines \in Seq(Line) /\ settled \in Seq(Frontmatter) /\ last \in Seq(Frontmatter)
          /\ Len(settled) = n /\ "C" \in Arm
      BY <1>3 DEF MemoryInv, MemoryTypes, LinkedAsSaid, Arm
    <3>2. Len(last) = n
      BY <1>3, <3>1 DEF MemoryInv, GivenAsSettled, Finished, Behind
    <3>3. DOMAIN settled = 1 .. n /\ \A k \in 1 .. n : settled[k] \in Known
      BY <3>1 DEF Known
    <3>4. \A k \in 1 .. n : last[k] = settled[k] /\ Says(settled[k], lines[k])
      BY <1>3, <3>1, <3>2 DEF MemoryInv, GivenAsSettled, LinkedAsSaid
    <3>5. \A j, k \in 1 .. n : settled[j].id = settled[k].id => settled[j] = settled[k]
      BY <1>3, <3>3 DEF MemoryInv, OneEach
    <3> QED BY <3>1, <3>2, <3>4, <3>5
  <2>2. Missed \cap WithinLineage = {}
    <3>1. ASSUME NEW pair \in Labeled \cap WithinLineage PROVE pair \in ClustersC
      <4> DEFINE within == [k \in DOMAIN lines |-> <<lines[k].body, settled[k].id>>]
                 merged == [k \in DOMAIN lines |-> <<last[k].id, Hash(last[k])>>]
      <4>1. /\ DOMAIN within = 1 .. n /\ pair \in kSubset(2, 1 .. n)
            /\ \A j, k \in pair : within[j] = within[k]
        BY <2>1, <3>1 DEF WithinLineage, PairsOf
      <4>2. pair \subseteq 1 .. n
        BY <4>1 DEF kSubset
      <4>3. \A j, k \in pair : settled[j] = settled[k]
        <5>1. \A j, k \in pair : settled[j].id = settled[k].id
          BY <2>1, <4>1, <4>2
        <5> QED BY <2>1, <4>2, <5>1
      <4>4. DOMAIN merged = 1 .. n /\ \A j, k \in pair : merged[j] = merged[k]
        BY <2>1, <4>2, <4>3
      <4> HIDE DEF last
      <4> QED BY <4>1, <4>4 DEF ClustersC, PairsOf, last
    <3> QED BY <3>1 DEF Missed
  <2>3. ASSUME NEW pair \in FalsePositives, NEW j \in pair, NEW k \in pair
        PROVE  SubjectOf(lines[j]) = SubjectOf(lines[k]) /\ ValueOf(lines[j]) = ValueOf(lines[k])
    <3>1. j \in 1 .. n /\ k \in 1 .. n /\ Hash(last[j]) = Hash(last[k])
      <4> DEFINE merged == [i \in DOMAIN lines |-> <<last[i].id, Hash(last[i])>>]
      <4>1. /\ DOMAIN merged = 1 .. n /\ pair \in kSubset(2, 1 .. n)
            /\ merged[j] = merged[k]
        BY <2>1, <2>3 DEF FalsePositives, ClustersC, PairsOf
      <4>2. j \in 1 .. n /\ k \in 1 .. n
        BY <2>3, <4>1 DEF kSubset
      <4> QED BY <2>1, <4>1, <4>2
    <3> QED BY <2>1, <3>1 DEF Hash, Says
  <2> QED BY <2>2, <2>3 DEF DeficitIsFragmented
<1>4. MemoryInv => DeficitIsFragmented
  BY <1>3 DEF DeficitIsFragmented
<1> QED BY <1>1, <1>2, <1>4, PTL DEF Spec

-----------------------------------------------------------------------------
(* What a store keeps.                                                     *)

\* The store after n of the claims.
Stored(V, claims, after) ==
  /\ after \in [0 .. Len(claims) -> [kept : Seq(V), refused : BOOLEAN]]
  /\ after[0] = [kept |-> <<>>, refused |-> FALSE]
  /\ \A n \in 1 .. Len(claims) : after[n] = Coalesce(after[n - 1], claims[n])
  /\ Store(claims) = after[Len(claims)]

\* The recursion has a value at every step.
LEMMA StoredAfter ==
  ASSUME NEW V, NEW claims \in Seq(V)
  PROVE  \E after : Stored(V, claims, after)
<1> DEFINE N == Len(claims)
           X == [kept : Seq(V), refused : BOOLEAN]
           base == [kept |-> <<>>, refused |-> FALSE]
           G == [n \in 1 .. N |-> [x \in X |-> Coalesce(x, claims[n])]]
<1>1. N \in Nat /\ \A n \in 1 .. N : claims[n] \in V
  OBVIOUS
<1>2. base \in X
  OBVIOUS
<1>3. ASSUME NEW x \in X, NEW c \in V  PROVE Coalesce(x, c) \in X
  <2>1. x.kept \in Seq(V) /\ x.refused \in BOOLEAN /\ Append(x.kept, c) \in Seq(V)
    OBVIOUS
  <2>2. [x EXCEPT !.refused = TRUE] \in X /\ [x EXCEPT !.kept = Append(@, c)] \in X
    BY <2>1
  <2> HIDE DEF X
  <2> QED
    BY <2>2 DEF Coalesce
<1> HIDE DEF X, N
<1>4. G \in [1 .. N -> [X -> X]]
  BY <1>1, <1>3
<1>5. \A x \in X, n \in 1 .. N : G[n][x] = Coalesce(x, claims[n])
  OBVIOUS
<1> HIDE DEF G, base
<1>6. PICK f : f \in [0 .. N -> X] /\ f[0] = base /\ \A n \in 1 .. N : f[n] = G[n][f[n - 1]]
  <2>1. CanRun(N, X, base, G)
    BY <1>1, <1>2, <1>4, Steps
  <2> QED
    BY <2>1 DEF CanRun, Runs
<1>7. \A n \in 1 .. N : f[n] = Coalesce(f[n - 1], claims[n])
  <2>1. \A n \in 1 .. N : n - 1 \in 0 .. N
    BY <1>1
  <2> QED
    BY <1>5, <1>6, <2>1
<1> DEFINE Is(g) == g = [n \in 0 .. N |-> IF n = 0 THEN [kept |-> <<>>, refused |-> FALSE]
                                          ELSE Coalesce(g[n - 1], claims[n])]
           after == CHOOSE g : Is(g)
<1>8. Store(claims) = after[N]
  BY DEF Store, N
<1>9. Is(f)
  <2> DEFINE g == [n \in 0 .. N |-> IF n = 0 THEN [kept |-> <<>>, refused |-> FALSE]
                                    ELSE Coalesce(f[n - 1], claims[n])]
  <2>1. ASSUME NEW n \in 0 .. N  PROVE f[n] = g[n]
    <3>1. CASE n = 0
      BY <1>6, <3>1 DEF base
    <3>2. CASE n \in 1 .. N
      BY <1>7, <3>2
    <3> QED
      BY <1>1, <3>1, <3>2
  <2> QED
    BY <1>6, <2>1
<1>10. Is(after)
  BY <1>9
<1> HIDE DEF after
<1>11. after[0] = base /\ \A n \in 1 .. N : after[n] = Coalesce(after[n - 1], claims[n])
  <2>1. \A n \in 1 .. N : n # 0 /\ n \in 0 .. N
    BY <1>1
  <2>2. 0 \in 0 .. N
    BY <1>1
  <2> QED
    BY <1>10, <2>1, <2>2 DEF base
<1>12. after \in [0 .. N -> X]
  <2> DEFINE S == {n \in 0 .. N : after[n] \in X}
  <2>1. 0 \in S
    BY <1>1, <1>2, <1>11
  <2>2. \A m \in 0 .. N - 1 : m \in S => m + 1 \in S
    <3> SUFFICES ASSUME NEW m \in 0 .. N - 1, after[m] \in X  PROVE after[m + 1] \in X
      BY <1>1
    <3>1. m + 1 \in 1 .. N /\ (m + 1) - 1 = m
      BY <1>1
    <3>2. after[m + 1] = Coalesce(after[m], claims[m + 1])
      BY <1>11, <3>1
    <3> QED
      BY <1>1, <1>3, <3>1, <3>2
  <2> HIDE DEF S
  <2>3. \A m \in 0 .. N : m \in S
    BY <1>1, <2>1, <2>2, StepByStep
  <2>4. \A n \in 0 .. N : after[n] \in X
    BY <2>3 DEF S
  <2> QED
    BY <1>10, <2>4
<1> QED
  BY <1>8, <1>11, <1>12 DEF Stored, X, base, N

\* Two records of a lineage between which a reader cannot tell.
Agree(a, b) == a.id = b.id /\ Hash(a) = Hash(b) /\ R4Metadata(a) = R4Metadata(b)

\* What a store holds of the first m claims: one of each lineage, which agrees
\* with all of them; it refuses for two that no store could hold.
Holds(store, claims, m) ==
  /\ store.refused => \E j, k \in 1 .. m : Irreconcilable(claims[j], claims[k])
  /\ ~store.refused =>
       /\ \A i \in DOMAIN store.kept : \E j \in 1 .. m : store.kept[i] = claims[j]
       /\ \A i, j \in DOMAIN store.kept : store.kept[i].id = store.kept[j].id => i = j
       /\ \A j \in 1 .. m : \E i \in DOMAIN store.kept : Agree(store.kept[i], claims[j])

LEMMA CoalesceHolds ==
  ASSUME NEW V, NEW claims \in Seq(V), NEW m \in 0 .. Len(claims) - 1,
         NEW store \in [kept : Seq(V), refused : BOOLEAN], Holds(store, claims, m)
  PROVE  Holds(Coalesce(store, claims[m + 1]), claims, m + 1)
<1> DEFINE c == claims[m + 1]
           new == Coalesce(store, c)
           kept == store.kept
<1>1. /\ Len(claims) \in Nat /\ m \in Nat /\ m + 1 \in 1 .. m + 1 /\ c \in V
      /\ \A j \in 1 .. m : j \in 1 .. m + 1
      /\ \A j \in 1 .. m + 1 : j \in 1 .. m \/ j = m + 1
      /\ kept \in Seq(V) /\ store.refused \in BOOLEAN
  OBVIOUS
<1>2. CASE store.refused
  <2>1. new.refused
    BY <1>2 DEF Coalesce
  <2>2. \E j, k \in 1 .. m + 1 : Irreconcilable(claims[j], claims[k])
    BY <1>1, <1>2 DEF Holds
  <2> QED
    BY <2>1, <2>2 DEF Holds
<1>3. ASSUME ~store.refused, NEW i \in DOMAIN kept, Irreconcilable(kept[i], c)
      PROVE  Holds(new, claims, m + 1)
  <2>1. new.refused
    BY <1>3 DEF Coalesce
  <2>2. PICK j \in 1 .. m : kept[i] = claims[j]
    BY <1>3 DEF Holds
  <2>3. \E k, n \in 1 .. m + 1 : Irreconcilable(claims[k], claims[n])
    BY <1>1, <1>3, <2>2
  <2> QED
    BY <2>1, <2>3 DEF Holds
<1>4. ASSUME ~store.refused, \A i \in DOMAIN kept : ~Irreconcilable(kept[i], c)
      PROVE  Holds(new, claims, m + 1)
  <2>1. /\ \A i \in DOMAIN kept : \E j \in 1 .. m : kept[i] = claims[j]
        /\ \A i, j \in DOMAIN kept : kept[i].id = kept[j].id => i = j
        /\ \A j \in 1 .. m : \E i \in DOMAIN kept : Agree(kept[i], claims[j])
    BY <1>4 DEF Holds
  <2>2. CASE c.id \in Ids(kept, DOMAIN kept)
    <3>1. new = store
      BY <1>4, <2>2 DEF Coalesce
    <3>2. PICK i \in DOMAIN kept : kept[i].id = c.id
      BY <2>2 DEF Ids
    <3>3. Agree(kept[i], c)
      BY <1>4, <3>2 DEF Agree, Irreconcilable
    <3>4. \A j \in 1 .. m + 1 : \E k \in DOMAIN kept : Agree(kept[k], claims[j])
      BY <1>1, <2>1, <3>2, <3>3
    <3>5. \A k \in DOMAIN kept : \E j \in 1 .. m + 1 : kept[k] = claims[j]
      BY <1>1, <2>1
    <3> HIDE DEF new, c
    <3>6. Holds(store, claims, m + 1)
      BY <1>4, <2>1, <3>4, <3>5 DEF Holds
    <3> QED
      BY <3>1, <3>6
  <2>3. CASE c.id \notin Ids(kept, DOMAIN kept)
    <3> DEFINE more == Append(kept, c)
    <3>1. new.kept = more /\ new.refused = store.refused
      BY <1>4, <2>3 DEF Coalesce
    <3>2. /\ DOMAIN kept = 1 .. Len(kept) /\ DOMAIN more = 1 .. Len(kept) + 1 /\ Len(kept) \in Nat
          /\ \A i \in DOMAIN kept : more[i] = kept[i]
          /\ more[Len(kept) + 1] = c
          /\ \A i \in DOMAIN kept : i \in DOMAIN more
          /\ \A i \in DOMAIN more : i \in DOMAIN kept \/ i = Len(kept) + 1
          /\ Len(kept) + 1 \in DOMAIN more
      BY <1>1
    <3> HIDE DEF more, new, c, kept
    <3>3. \A i \in DOMAIN kept : kept[i].id # c.id
      BY <2>3 DEF Ids
    <3>4. \A i \in DOMAIN more : \E j \in 1 .. m + 1 : more[i] = claims[j]
      <4>1. ASSUME NEW i \in DOMAIN kept  PROVE \E j \in 1 .. m + 1 : more[i] = claims[j]
        <5>1. PICK j \in 1 .. m : kept[i] = claims[j]
          BY <2>1
        <5>2. j \in 1 .. m + 1 /\ more[i] = claims[j]
          BY <1>1, <3>2, <5>1
        <5> QED
          BY <5>2
      <4>2. more[Len(kept) + 1] = claims[m + 1] /\ m + 1 \in 1 .. m + 1
        BY <1>1, <3>2 DEF c
      <4>3. \A i \in DOMAIN more : i \in DOMAIN kept \/ i = Len(kept) + 1
        BY <3>2
      <4> QED
        BY <4>1, <4>2, <4>3, Zenon
    <3>5. \A i, j \in DOMAIN more : more[i].id = more[j].id => i = j
      BY <2>1, <3>2, <3>3
    <3>6. \A j \in 1 .. m + 1 : \E i \in DOMAIN more : Agree(more[i], claims[j])
      <4>1. ASSUME NEW j \in 1 .. m  PROVE \E i \in DOMAIN more : Agree(more[i], claims[j])
        BY <2>1, <3>2
      <4>2. Agree(c, c)
        BY DEF Agree
      <4> QED
        BY <1>1, <3>2, <4>1, <4>2 DEF c
    <3> QED
      BY <1>4, <3>1, <3>4, <3>5, <3>6 DEF Holds
  <2> QED
    BY <2>2, <2>3
<1> QED
  BY <1>1, <1>2, <1>3, <1>4

\* A store refuses just when two of the claims are irreconcilable; otherwise it
\* holds one claim of each lineage.
LEMMA StoreHolds ==
  ASSUME NEW V, NEW claims \in Seq(V)
  PROVE  /\ Store(claims) \in [kept : Seq(V), refused : BOOLEAN]
         /\ Store(claims).refused <=> \E j, k \in 1 .. Len(claims) : Irreconcilable(claims[j], claims[k])
         /\ Holds(Store(claims), claims, Len(claims))
<1>1. PICK after : Stored(V, claims, after)
  BY StoredAfter
<1> DEFINE N == Len(claims)
           S == {m \in 0 .. N : Holds(after[m], claims, m)}
<1>2. N \in Nat /\ after \in [0 .. N -> [kept : Seq(V), refused : BOOLEAN]]
  BY <1>1 DEF Stored
<1>3. 0 \in S
  <2>1. after[0] = [kept |-> <<>>, refused |-> FALSE] /\ DOMAIN <<>> = {}
    BY <1>1 DEF Stored
  <2>2. Holds([kept |-> <<>>, refused |-> FALSE], claims, 0)
    BY DEF Holds
  <2>3. Holds(after[0], claims, 0)
    BY <2>1, <2>2
  <2> QED
    BY <1>2, <2>3
<1>4. ASSUME NEW m \in 0 .. N - 1, m \in S  PROVE m + 1 \in S
  <2>1. m + 1 \in 1 .. N /\ (m + 1) - 1 = m /\ m \in 0 .. N /\ m + 1 \in 0 .. N
    BY <1>2
  <2>2. after[m + 1] = Coalesce(after[m], claims[m + 1])
    BY <1>1, <2>1 DEF Stored
  <2>3. after[m] \in [kept : Seq(V), refused : BOOLEAN] /\ Holds(after[m], claims, m)
    BY <1>2, <1>4, <2>1
  <2>4. Holds(after[m + 1], claims, m + 1)
    BY <2>2, <2>3, CoalesceHolds
  <2> QED
    BY <2>1, <2>4
<1> HIDE DEF S
<1>5. Holds(after[N], claims, N) /\ after[N] \in [kept : Seq(V), refused : BOOLEAN]
  <2>1. \A m \in 0 .. N - 1 : m \in S => m + 1 \in S
    BY <1>4
  <2>2. \A m \in 0 .. N : m \in S
    BY <1>2, <1>3, <2>1, StepByStep
  <2> QED
    BY <1>2, <2>2 DEF S
<1>6. Store(claims) = after[N]
  BY <1>1 DEF Stored
<1> DEFINE store == after[N]
<1> HIDE DEF store, N
<1>7. ASSUME ~store.refused, NEW j \in 1 .. N, NEW k \in 1 .. N
      PROVE  ~Irreconcilable(claims[j], claims[k])
  <2>1. PICK i \in DOMAIN store.kept : Agree(store.kept[i], claims[j])
    BY <1>5, <1>7 DEF Holds, store
  <2>2. PICK n \in DOMAIN store.kept : Agree(store.kept[n], claims[k])
    BY <1>5, <1>7 DEF Holds, store
  <2>3. ASSUME claims[j].id = claims[k].id  PROVE i = n
    BY <1>5, <1>7, <2>1, <2>2, <2>3 DEF Holds, Agree, store
  <2> QED
    BY <2>1, <2>2, <2>3 DEF Irreconcilable, Agree
<1> QED
  BY <1>5, <1>6, <1>7 DEF Holds, store, N

-----------------------------------------------------------------------------
(* What surfaces of a set of claims, whatever order they come in.          *)

\* One claim of each lineage, and their ids and dates are numbers.
Distinct(kept) ==
  /\ kept \in Seq({kept[k] : k \in DOMAIN kept})
  /\ \A k \in DOMAIN kept : kept[k].id \in Nat /\ kept[k].created \in Nat
  /\ \A j, k \in DOMAIN kept : kept[j].id = kept[k].id => j = k

\* The claims at some of the positions.
At(kept, some) == {kept[k] : k \in some}

\* What the adapter's steps leave of the claims C (R4Resolve), by one subject.
IdsOf(C) == {c.id : c \in C}
LiveOf(C) == {c \in C : c.state \notin {"superseded", "withdrawn"}}
ActiveOf(C, s, t) == {c \in C : c.subject = s /\ R2Active(c, t)}
GoneOf(A) == (UNION {c.supersedes : c \in A}) \cap IdsOf(A)
LeftOf(A) == {c \in A : c.id \notin GoneOf(A)}
PolaritiesOf(L) == {Polarity(c) : c \in L}
NewerThan(c, d) == c.created > d.created \/ (c.created = d.created /\ c.id <= d.id)
NewestOf(L) == CHOOSE c \in L : \A d \in L : NewerThan(c, d)

\* The lineages of subject s that surface at t, of the live claims C.
SurfacedOf(C, s, t) ==
  LET A == ActiveOf(C, s, t)
      L == LeftOf(A)
  IN  IF A = {} THEN {}
      ELSE IF \E c : A = {c} THEN IdsOf(A) \ {0}
      ELSE IF \E c : L = {c} THEN IdsOf(L) \ {0}
      ELSE IF Definite \subseteq PolaritiesOf(L) THEN IdsOf(L)
      ELSE IF "unknown" \in PolaritiesOf(L) /\ PolaritiesOf(L) \cap Definite # {} THEN IdsOf(L)
      ELSE IF L = {} THEN {}
      ELSE {NewestOf(L).id} \ {0}

\* What surfaces at t of the claims K, subjects together.
AllSurfaced(K, t) ==
  LET C == LiveOf(K)
  IN  IdsOf({c \in C : c.subject = Absent})
        \cup UNION {SurfacedOf({c \in C : c.subject = s}, s, t) : s \in {c.subject : c \in C} \ {Absent}}

\* Positions and the claims at them are one to one.
LEMMA OneToOne ==
  ASSUME NEW kept, Distinct(kept), NEW some \in SUBSET (DOMAIN kept)
  PROVE  /\ some = {} <=> At(kept, some) = {}
         /\ Ids(kept, some) = IdsOf(At(kept, some))
         /\ Cardinality(some) = 1 <=> \E c : At(kept, some) = {c}
         /\ \A k \in DOMAIN kept : kept[k] \in At(kept, some) <=> k \in some
<1>1. \A k \in DOMAIN kept : kept[k] \in At(kept, some) <=> k \in some
  BY DEF Distinct, At
<1>2. Ids(kept, some) = IdsOf(At(kept, some)) /\ (some = {} <=> At(kept, some) = {})
  BY DEF Ids, IdsOf, At
<1>3. Cardinality(some) = 1 <=> \E k : some = {k}
  <2>1. IsFiniteSet(some)
    <3>1. DOMAIN kept = 1 .. Len(kept) /\ Len(kept) \in Nat
      BY DEF Distinct
    <3>2. IsFiniteSet(DOMAIN kept)
      BY <3>1, FS_Interval
    <3> QED
      BY <3>2, FS_Subset
  <2> QED
    BY <2>1, FS_Singleton
<1>4. ASSUME NEW k, some = {k}  PROVE \E c : At(kept, some) = {c}
  <2>1. At(kept, some) = {kept[k]}
    BY <1>4 DEF At
  <2> QED
    BY <2>1
<1>5. ASSUME NEW c, At(kept, some) = {c}  PROVE \E k : some = {k}
  <2>1. PICK k \in some : kept[k] = c
    BY <1>5 DEF At
  <2>2. \A j \in some : kept[j] = c
    BY <1>5 DEF At
  <2>3. \A j \in some : j = k
    BY <2>1, <2>2 DEF Distinct
  <2> QED
    BY <2>1, <2>3
<1> QED
  BY <1>1, <1>2, <1>3, <1>4, <1>5

\* Of some claims one is the newest.
LEMMA NewestIs ==
  ASSUME NEW kept, Distinct(kept), NEW some \in SUBSET (DOMAIN kept), some # {}
  PROVE  /\ NewestOf(At(kept, some)) \in At(kept, some)
         /\ \A d \in At(kept, some) : NewerThan(NewestOf(At(kept, some)), d)
         /\ Newest(kept, some) = NewestOf(At(kept, some))
<1> DEFINE n == Len(kept)
           best(k, some_) == k \in some_ /\ \A j \in some_ : NewerThan(kept[k], kept[j])
           S == {m \in 0 .. n : some \cap (1 .. m) # {} => \E k \in some : best(k, some \cap (1 .. m))}
<1>1. n \in Nat /\ DOMAIN kept = 1 .. n
  BY DEF Distinct
<1>2. /\ \A j, k \in DOMAIN kept : NewerThan(kept[j], kept[k]) \/ NewerThan(kept[k], kept[j])
      /\ \A j \in DOMAIN kept : NewerThan(kept[j], kept[j])
      /\ \A i, j, k \in DOMAIN kept :
           NewerThan(kept[i], kept[j]) /\ NewerThan(kept[j], kept[k]) => NewerThan(kept[i], kept[k])
      /\ \A j, k \in DOMAIN kept : NewerThan(kept[j], kept[k]) /\ NewerThan(kept[k], kept[j]) => j = k
  <2>1. \A k \in DOMAIN kept : kept[k].id \in Nat /\ kept[k].created \in Nat
    BY DEF Distinct
  <2>2. \A j, k \in DOMAIN kept : kept[j].id = kept[k].id => j = k
    BY DEF Distinct
  <2>3. \A j, k \in DOMAIN kept : NewerThan(kept[j], kept[k]) \/ NewerThan(kept[k], kept[j])
    BY <2>1 DEF NewerThan
  <2>4. \A i, j, k \in DOMAIN kept :
          NewerThan(kept[i], kept[j]) /\ NewerThan(kept[j], kept[k]) => NewerThan(kept[i], kept[k])
    BY <2>1 DEF NewerThan
  <2>5. \A j, k \in DOMAIN kept :
          NewerThan(kept[j], kept[k]) /\ NewerThan(kept[k], kept[j]) => kept[j].id = kept[k].id
    BY <2>1 DEF NewerThan
  <2> QED
    BY <2>2, <2>3, <2>4, <2>5
<1>3. 0 \in S
  BY <1>1
<1>4. ASSUME NEW m \in 0 .. n - 1, m \in S  PROVE m + 1 \in S
  <2> DEFINE old == some \cap (1 .. m)
             new == some \cap (1 .. m + 1)
  <2>1. /\ m + 1 \in 0 .. n /\ m + 1 \in DOMAIN kept /\ old \subseteq DOMAIN kept
        /\ new = IF m + 1 \in some THEN old \cup {m + 1} ELSE old
    BY <1>1
  <2>2. old # {} => \E k \in some : best(k, old)
    BY <1>4
  <2> HIDE DEF old, new
  <2>3. CASE m + 1 \notin some
    <3>1. new = old
      BY <2>1, <2>3
    <3>2. new # {} => \E k \in some : best(k, new)
      BY <2>2, <3>1
    <3> QED
      BY <2>1, <3>2 DEF new
  <2>4. CASE m + 1 \in some /\ old = {}
    <3>1. best(m + 1, new)
      BY <1>2, <2>1, <2>4
    <3> QED
      BY <2>1, <2>4, <3>1 DEF new
  <2>5. CASE m + 1 \in some /\ old # {}
    <3>1. PICK k \in some : best(k, old)
      BY <2>2, <2>5
    <3>2. new = old \cup {m + 1} /\ k \in DOMAIN kept /\ k \in new /\ m + 1 \in new
      BY <2>1, <2>5, <3>1
    <3>3. CASE NewerThan(kept[k], kept[m + 1])
      <4>1. best(k, new)
        BY <3>1, <3>2, <3>3
      <4> QED
        BY <2>1, <4>1 DEF new
    <3>4. CASE NewerThan(kept[m + 1], kept[k])
      <4>1. \A j \in old : NewerThan(kept[m + 1], kept[j])
        BY <1>2, <2>1, <3>1, <3>2, <3>4
      <4>2. best(m + 1, new)
        BY <1>2, <2>1, <3>2, <4>1
      <4> QED
        BY <2>1, <2>5, <4>2 DEF new
    <3> QED
      BY <1>2, <2>1, <3>2, <3>3, <3>4
  <2> QED
    BY <2>3, <2>4, <2>5
<1> HIDE DEF S
<1>5. PICK k \in some : best(k, some)
  <2>1. \A m \in 0 .. n - 1 : m \in S => m + 1 \in S
    BY <1>4
  <2>2. \A m \in 0 .. n : m \in S
    BY <1>1, <1>3, <2>1, StepByStep
  <2>3. n \in S
    BY <1>1, <2>2
  <2>4. some \cap (1 .. n) = some
    BY <1>1
  <2> QED
    BY <2>3, <2>4 DEF S
<1> DEFINE L == At(kept, some)
<1>6. kept[k] \in L /\ \A d \in L : NewerThan(kept[k], d)
  BY <1>5 DEF At
<1>7. NewestOf(L) \in L /\ \A d \in L : NewerThan(NewestOf(L), d)
  BY <1>6 DEF NewestOf
<1>8. NewestOf(L) = kept[k]
  <2>1. PICK j \in some : NewestOf(L) = kept[j]
    BY <1>7 DEF At
  <2>2. NewerThan(kept[j], kept[k]) /\ NewerThan(kept[k], kept[j])
    BY <1>6, <1>7, <2>1
  <2> QED
    BY <1>2, <2>1, <2>2
<1> DEFINE first == CHOOSE i \in some : \A j \in some : NewerThan(kept[i], kept[j])
<1>9. Newest(kept, some) = kept[first]
  BY DEF Newest, NewerThan
<1>10. first = k
  <2>1. first \in some /\ \A j \in some : NewerThan(kept[first], kept[j])
    BY <1>5
  <2> HIDE DEF first
  <2> QED
    BY <1>2, <1>5, <2>1
<1> QED
  BY <1>7, <1>8, <1>9, <1>10

\* The order of the claims does not matter to what surfaces of a subject.
LEMMA QuerySurfaces ==
  ASSUME NEW kept, Distinct(kept), NEW group \in SUBSET (DOMAIN kept), NEW s, NEW t
  PROVE  SurfacedBy(Query(kept, group, s, t)) = SurfacedOf(At(kept, group), s, t)
<1> DEFINE active == Active(kept, group, s, t)
           gone == Superseded(kept, active)
           left == {k \in active : kept[k].id \notin gone}
           A == ActiveOf(At(kept, group), s, t)
           L == LeftOf(A)
           definite == {k \in left : Polarity(kept[k]) \in Definite}
<1>1. active \in SUBSET (DOMAIN kept) /\ At(kept, active) = A
  BY DEF Active, ActiveOf, At
<1>2. gone = GoneOf(A)
  <2>1. Ids(kept, active) = IdsOf(A)
    BY <1>1, OneToOne
  <2>2. \A x : x \in gone <=> x \in Ids(kept, active) /\ \E k \in active : x \in kept[k].supersedes
    <3> HIDE DEF active
    <3> QED
      BY DEF Superseded
  <2>3. \A x : x \in GoneOf(A) <=> x \in IdsOf(A) /\ \E c \in A : x \in c.supersedes
    <3> HIDE DEF A
    <3> QED
      BY DEF GoneOf
  <2>4. A = {kept[k] : k \in active}
    BY <1>1 DEF At
  <2> HIDE DEF active, A, gone
  <2>5. \A x : (\E k \in active : x \in kept[k].supersedes) <=> \E c \in A : x \in c.supersedes
    BY <2>4
  <2>6. \A x : x \in gone <=> x \in GoneOf(A)
    BY <2>1, <2>2, <2>3, <2>5
  <2> QED
    BY <2>6
<1>3. left \in SUBSET (DOMAIN kept) /\ At(kept, left) = L
  <2>1. A = {kept[k] : k \in active}
    BY <1>1 DEF At
  <2> HIDE DEF active, A, gone
  <2> QED
    BY <1>1, <1>2, <2>1 DEF LeftOf, At
<1>4. /\ active = {} <=> A = {}
      /\ Ids(kept, active) = IdsOf(A)
      /\ Cardinality(active) = 1 <=> \E c : A = {c}
  <2> HIDE DEF active, A
  <2>1. /\ active = {} <=> At(kept, active) = {}
        /\ Ids(kept, active) = IdsOf(At(kept, active))
        /\ Cardinality(active) = 1 <=> \E c : At(kept, active) = {c}
    BY <1>1, OneToOne
  <2> QED
    BY <1>1, <2>1
<1>5. /\ left = {} <=> L = {}
      /\ Ids(kept, left) = IdsOf(L)
      /\ Cardinality(left) = 1 <=> \E c : L = {c}
  <2> HIDE DEF left, L
  <2>1. /\ left = {} <=> At(kept, left) = {}
        /\ Ids(kept, left) = IdsOf(At(kept, left))
        /\ Cardinality(left) = 1 <=> \E c : At(kept, left) = {c}
    BY <1>3, OneToOne
  <2> QED
    BY <1>3, <2>1
<1>6. Query(kept, group, s, t) =
        IF active = {} THEN Verdict("not_found", 0, {})
        ELSE IF Cardinality(active) = 1 THEN Sole("none", kept, active)
        ELSE IF Cardinality(left) = 1 THEN Sole("supersession", kept, left)
        ELSE Residual(kept, left)
  BY DEF Query
<1>7. SurfacedOf(At(kept, group), s, t) =
        IF A = {} THEN {}
        ELSE IF \E c : A = {c} THEN IdsOf(A) \ {0}
        ELSE IF \E c : L = {c} THEN IdsOf(L) \ {0}
        ELSE IF Definite \subseteq PolaritiesOf(L) THEN IdsOf(L)
        ELSE IF "unknown" \in PolaritiesOf(L) /\ PolaritiesOf(L) \cap Definite # {} THEN IdsOf(L)
        ELSE IF L = {} THEN {}
        ELSE {NewestOf(L).id} \ {0}
  BY DEF SurfacedOf
<1> HIDE DEF active, gone, left, A, L
<1>8. ASSUME NEW some \in SUBSET (DOMAIN kept), NEW class \in {"none", "supersession"},
             \E c : At(kept, some) = {c}
      PROVE  SurfacedBy(Sole(class, kept, some)) = IdsOf(At(kept, some)) \ {0}
  <2>1. PICK c : At(kept, some) = {c}
    BY <1>8
  <2>2. some # {} /\ \A k \in some : kept[k] = c
    BY <2>1 DEF At
  <2>3. kept[CHOOSE k \in some : TRUE].id = c.id
    BY <2>2
  <2>4. Sole(class, kept, some) = Verdict(class, c.id, {c.id})
    BY <2>3 DEF Sole
  <2>5. IdsOf(At(kept, some)) = {c.id}
    BY <2>1 DEF IdsOf
  <2> QED
    BY <1>8, <2>4, <2>5 DEF SurfacedBy, Verdict
<1>9. ASSUME \A c : L # {c}
      PROVE  SurfacedBy(Residual(kept, left)) =
               IF Definite \subseteq PolaritiesOf(L) THEN IdsOf(L)
               ELSE IF "unknown" \in PolaritiesOf(L) /\ PolaritiesOf(L) \cap Definite # {} THEN IdsOf(L)
               ELSE IF L = {} THEN {}
               ELSE {NewestOf(L).id} \ {0}
  <2>1. L = {kept[k] : k \in left}
    BY <1>3 DEF At
  <2>2. {Polarity(kept[k]) : k \in left} = PolaritiesOf(L)
    BY <2>1 DEF PolaritiesOf
  <2>3. definite # {} <=> PolaritiesOf(L) \cap Definite # {}
    BY <2>1 DEF PolaritiesOf
  <2>4. left # {} => Newest(kept, left) = NewestOf(L)
    BY <1>3, NewestIs
  <2>5. Residual(kept, left) =
          IF Definite \subseteq PolaritiesOf(L) THEN Verdict("contradiction", 0, Ids(kept, left))
          ELSE IF "unknown" \in PolaritiesOf(L) /\ definite # {}
            THEN Verdict("ambiguity", kept[Min(definite)].id, Ids(kept, left))
          ELSE IF left = {} THEN Verdict("supersession", 0, {})
          ELSE Verdict("supersession", Newest(kept, left).id, Ids(kept, left))
    BY <2>2 DEF Residual
  <2> HIDE DEF definite
  <2>6. CASE Definite \subseteq PolaritiesOf(L)
    BY <1>5, <2>5, <2>6 DEF SurfacedBy, Verdict
  <2>7. CASE ~(Definite \subseteq PolaritiesOf(L)) /\ "unknown" \in PolaritiesOf(L) /\ definite # {}
    BY <1>5, <2>3, <2>5, <2>7 DEF SurfacedBy, Verdict
  <2>8. CASE ~(Definite \subseteq PolaritiesOf(L)) /\ ~("unknown" \in PolaritiesOf(L) /\ definite # {})
    BY <1>5, <2>3, <2>4, <2>5, <2>8 DEF SurfacedBy, Verdict
  <2> QED
    BY <2>6, <2>7, <2>8
<1>10. CASE A = {}
  BY <1>4, <1>6, <1>7, <1>10 DEF SurfacedBy, Verdict
<1>11. CASE A # {} /\ \E c : A = {c}
  <2>1. SurfacedBy(Sole("none", kept, active)) = IdsOf(A) \ {0}
    BY <1>1, <1>8, <1>11
  <2> QED
    BY <1>4, <1>6, <1>7, <1>11, <2>1
<1>12. CASE A # {} /\ (\A c : A # {c}) /\ \E c : L = {c}
  <2>1. SurfacedBy(Sole("supersession", kept, left)) = IdsOf(L) \ {0}
    BY <1>3, <1>8, <1>12
  <2> QED
    BY <1>4, <1>5, <1>6, <1>7, <1>12, <2>1
<1>13. CASE A # {} /\ (\A c : A # {c}) /\ \A c : L # {c}
  BY <1>4, <1>5, <1>6, <1>7, <1>9, <1>13
<1> QED
  BY <1>10, <1>11, <1>12, <1>13

\* What surfaces of the claims kept is a matter of which they are.
LEMMA SurfacedIs ==
  ASSUME NEW kept, Distinct(kept), NEW t
  PROVE  Surfaced(kept, t) = AllSurfaced(At(kept, DOMAIN kept), t)
<1> DEFINE live == {k \in DOMAIN kept : kept[k].state \notin {"superseded", "withdrawn"}}
           group(s) == {k \in live : kept[k].subject = s}
           subjects == {kept[k].subject : k \in live} \ {Absent}
           C == LiveOf(At(kept, DOMAIN kept))
           part(s) == {c \in C : c.subject = s}
           topics == {c.subject : c \in C} \ {Absent}
<1>1. C = {kept[k] : k \in live}
  BY DEF LiveOf, At
<1>2. \A s : group(s) \in SUBSET (DOMAIN kept) /\ At(kept, group(s)) = part(s)
  <2> SUFFICES ASSUME NEW s  PROVE group(s) \in SUBSET (DOMAIN kept) /\ At(kept, group(s)) = part(s)
    OBVIOUS
  <2>1. live \subseteq DOMAIN kept
    OBVIOUS
  <2> HIDE DEF live, C
  <2> QED
    BY <1>1, <2>1 DEF At
<1>3. subjects = topics
  <2> HIDE DEF live, C
  <2> QED
    BY <1>1
<1>4. Surfaced(kept, t) = Ids(kept, group(Absent))
                            \cup UNION {SurfacedBy(Query(kept, group(s), s, t)) : s \in subjects}
  BY DEF Surfaced
<1>5. AllSurfaced(At(kept, DOMAIN kept), t) =
        IdsOf(part(Absent)) \cup UNION {SurfacedOf(part(s), s, t) : s \in topics}
  BY DEF AllSurfaced
<1> HIDE DEF live, C, group, part, subjects, topics
<1>6. Ids(kept, group(Absent)) = IdsOf(part(Absent))
  BY <1>2, OneToOne
<1>7. \A s : SurfacedBy(Query(kept, group(s), s, t)) = SurfacedOf(part(s), s, t)
  BY <1>2, QuerySurfaces
<1> QED
  BY <1>3, <1>4, <1>5, <1>6, <1>7

-----------------------------------------------------------------------------
(* Claims imported in any order.                                           *)

\* What is remembered of a set of claims, where a lineage has one of them.
RememberedOf(R) ==
  IF (\E a, b \in R : Irreconcilable(a, b)) \/ \E c \in R : Unscoped(c)
    THEN [refused |-> TRUE, at |-> <<>>]
  ELSE [refused |-> FALSE, at |-> [t \in Instant |-> AllSurfaced(R, t)]]

\* Records that agree and were made at one instant are one record.
LEMMA OneRecord ==
  ASSUME NEW a, NEW b, IsClaim(a), IsClaim(b), Agree(a, b), a.created = b.created
  PROVE  a = b
BY DEF IsClaim, Agree, Hash, R4Metadata

\* Of claims of one date each, whatever their order, what is kept is all of them.
LEMMA AnyOrder ==
  ASSUME NEW R, \A c \in R : IsClaim(c), \A c, d \in R : c.id = d.id => c.created = d.created,
         NEW order \in Seq(R), R = {order[k] : k \in DOMAIN order}
  PROVE  Remembered(order) = RememberedOf(R)
<1> DEFINE store == Store(order)
           kept == store.kept
<1>1. Len(order) \in Nat /\ DOMAIN order = 1 .. Len(order)
  OBVIOUS
<1>2. /\ store \in [kept : Seq(R), refused : BOOLEAN]
      /\ store.refused <=> \E j, k \in 1 .. Len(order) : Irreconcilable(order[j], order[k])
      /\ Holds(store, order, Len(order))
  BY StoreHolds
<1> HIDE DEF store
<1>3. store.refused <=> \E a, b \in R : Irreconcilable(a, b)
  BY <1>1, <1>2
<1>4. CASE store.refused
  BY <1>3, <1>4 DEF Remembered, RememberedOf, store
<1>5. CASE ~store.refused
  <2>1. /\ kept \in Seq(R)
        /\ \A i \in DOMAIN kept : kept[i] \in R
        /\ \A i, j \in DOMAIN kept : kept[i].id = kept[j].id => i = j
        /\ \A j \in 1 .. Len(order) : \E i \in DOMAIN kept : Agree(kept[i], order[j])
    BY <1>2, <1>5 DEF Holds
  <2> HIDE DEF kept
  <2>2. \A c \in R : \E i \in DOMAIN kept : kept[i] = c
    <3> SUFFICES ASSUME NEW c \in R  PROVE \E i \in DOMAIN kept : kept[i] = c
      OBVIOUS
    <3>1. PICK j \in 1 .. Len(order) : order[j] = c
      BY <1>1
    <3>2. PICK i \in DOMAIN kept : Agree(kept[i], c)
      BY <2>1, <3>1
    <3>3. kept[i].created = c.created
      BY <2>1, <3>2 DEF Agree
    <3>4. kept[i] = c
      BY <2>1, <3>2, <3>3, OneRecord
    <3> QED
      BY <3>2, <3>4
  <2>3. At(kept, DOMAIN kept) = R
    <3>1. \A i \in DOMAIN kept : kept[i] \in R
      BY <2>1
    <3>2. \A c : c \in R <=> \E k \in DOMAIN kept : kept[k] = c
      BY ONLY <2>2, <3>1
    <3>3. \A c : c \in At(kept, DOMAIN kept) <=> \E k \in DOMAIN kept : kept[k] = c
      BY ONLY TRUE DEF At
    <3> QED
      BY ONLY <3>2, <3>3
  <2>4. Distinct(kept)
    <3>1. \A k \in DOMAIN kept : kept[k].id \in Nat /\ kept[k].created \in Nat
      BY <2>1 DEF IsClaim
    <3>2. kept \in Seq({kept[k] : k \in DOMAIN kept})
      <4>1. DOMAIN kept = 1 .. Len(kept) /\ Len(kept) \in Nat /\ kept = [k \in 1 .. Len(kept) |-> kept[k]]
        BY <2>1
      <4> DEFINE all == {kept[k] : k \in DOMAIN kept}
      <4>2. \A k \in 1 .. Len(kept) : kept[k] \in all
        BY <4>1
      <4> HIDE DEF all
      <4>3. kept \in [1 .. Len(kept) -> all]
        BY <4>1, <4>2
      <4>4. kept \in Seq(all)
        BY <4>1, <4>3
      <4> QED
        BY <4>4 DEF all
    <3> QED
      BY <2>1, <3>1, <3>2 DEF Distinct
  <2>5. (\E k \in DOMAIN kept : Unscoped(kept[k])) <=> \E c \in R : Unscoped(c)
    <3>1. \A i \in DOMAIN kept : kept[i] \in R
      BY <2>1
    <3> QED
      BY ONLY <2>2, <3>1
  <2>6. \A t : Surfaced(kept, t) = AllSurfaced(R, t)
    <3>1. \A t : Surfaced(kept, t) = AllSurfaced(At(kept, DOMAIN kept), t)
      BY <2>4, SurfacedIs
    <3> QED
      BY <2>3, <3>1
  <2>7. Remembered(order) =
          IF store.refused \/ \E k \in DOMAIN kept : Unscoped(kept[k])
            THEN [refused |-> TRUE, at |-> <<>>]
          ELSE [refused |-> FALSE, at |-> [t \in Instant |-> Surfaced(kept, t)]]
    <3> DEFINE s == Store(order)
    <3>1. Remembered(order) =
            IF s.refused \/ \E k \in DOMAIN s.kept : Unscoped(s.kept[k])
              THEN [refused |-> TRUE, at |-> <<>>]
            ELSE [refused |-> FALSE, at |-> [t \in Instant |-> Surfaced(s.kept, t)]]
      BY DEF Remembered
    <3> QED
      BY <3>1 DEF store, kept
  <2>8. [t \in Instant |-> Surfaced(kept, t)] = [t \in Instant |-> AllSurfaced(R, t)]
    BY <2>6
  <2> QED
    BY <1>3, <1>5, <2>5, <2>7, <2>8 DEF RememberedOf
<1> QED
  BY <1>2, <1>4, <1>5

\* The orders of a finite set.
LEMMA OrdersAre ==
  ASSUME NEW R, IsFiniteSet(R)
  PROVE  /\ SetToSeqs(R) # {}
         /\ \A order \in SetToSeqs(R) : order \in Seq(R) /\ R = {order[k] : k \in DOMAIN order}
<1> DEFINE n == Cardinality(R)
           D == 1 .. n
<1>1. n \in Nat /\ ExistsBijection(D, R) /\ IsFiniteSet(D) /\ Cardinality(D) = n
  BY FS_CardinalityType, FS_Interval
<1>2. SetToSeqs(R) = {f \in [D -> R] : \A i, j \in D : i # j => f[i] # f[j]}
  BY DEF SetToSeqs
<1> HIDE DEF n, D
<1>3. PICK f : f \in Bijection(D, R)
  BY <1>1 DEF ExistsBijection
<1>4. f \in SetToSeqs(R)
  BY <1>2, <1>3 DEF Bijection, Injection, IsInjective
<1>5. ASSUME NEW order \in SetToSeqs(R)
      PROVE  order \in Seq(R) /\ R = {order[k] : k \in DOMAIN order}
  <2>1. order \in [D -> R] /\ order \in Injection(D, R)
    BY <1>2 DEF Injection, IsInjective
  <2>2. order \in Surjection(D, R)
    BY <1>1, <2>1, FS_Injection DEF n
  <2>3. order \in Seq(R)
    BY <1>1, <2>1 DEF D
  <2> QED
    BY <2>1, <2>2, <2>3 DEF Surjection
<1> QED
  BY <1>4, <1>5

\* Only claims of the fixture are imported.
Imported == records \subseteq Fixture

\* Records of a lineage that agree on created_at are remembered alike in any order.
THEOREM ImportOrderIsFree == Spec => []OrderFreeIfDated
<1>1. Init => Imported
  BY DEF Init, Imported
<1>2. Imported /\ [Next]_vars => Imported'
  BY DEF Imported, Next, Read, Replay, NextArm, Import, Over, vars
<1>3. ASSUME Imported, SameDates  PROVE ImportOrderFree
  <2>1. IsFiniteSet(records) /\ \A c \in records : IsClaim(c)
    BY <1>3, MemoryAssumption, FS_Subset DEF Imported
  <2>2. \A c, d \in records : c.id = d.id => c.created = d.created
    BY <1>3 DEF SameDates
  <2>3. \A order \in SetToSeqs(records) : Remembered(order) = RememberedOf(records)
    BY <2>1, <2>2, OrdersAre, AnyOrder
  <2>4. {Remembered(order) : order \in SetToSeqs(records)} = {RememberedOf(records)}
    BY <2>1, <2>3, OrdersAre
  <2> QED
    BY <2>4, FS_Singleton DEF ImportOrderFree
<1>4. Imported => OrderFreeIfDated
  BY <1>3 DEF OrderFreeIfDated
<1> QED
  BY <1>1, <1>2, <1>4, PTL DEF Spec

-----------------------------------------------------------------------------
(* The lineages of a subject.                                              *)

\* Line p is the last of subject s.
LastOf(L, s, p) ==
  p \in 1 .. Len(L) /\ SubjectOf(L[p]) = s /\ \A j \in p + 1 .. Len(L) : SubjectOf(L[j]) # s

\* A line was settled with the lineage of an earlier line or began one, dated
\* by that line unless it is the first of its subject.
Begun(L, S, k) ==
  \E i \in 1 .. k :
    /\ S[i] = S[k]
    /\ S[i].from = IF \E j \in 1 .. i - 1 : SubjectOf(L[j]) = SubjectOf(L[i]) THEN L[i].at ELSE 0

\* Lineage a of a subject was superseded by line k.
Retired(L, S, s, a, k) ==
  \E i \in 1 .. k : SubjectOf(L[i]) = s /\ a \in S[i].supersedes

\* The lines L come in the order of their dates, and the lineages S of one
\* subject follow one another, each superseding the one before.
Linked(L, S) ==
  /\ \A j, k \in 1 .. Len(L) : j <= k => L[j].at <= L[k].at
  /\ \A k \in 1 .. Len(L) : /\ S[k].id >= 1 /\ S[k].from <= L[k].at
                            /\ \A x \in S[k].supersedes : x < S[k].id
                            /\ Begun(L, S, k)
  /\ \A j, k \in 1 .. Len(L) : j <= k /\ SubjectOf(L[j]) = SubjectOf(L[k]) =>
       /\ S[j].id <= S[k].id
       /\ S[j] = S[k] \/ Retired(L, S, SubjectOf(L[k]), S[j].id, k)

\* A line more: it is settled with the lineage that stands, with one that
\* supersedes it, or with its subject's first.
LEMMA LinkedAppend ==
  ASSUME NEW L \in Seq(Line), NEW S \in Seq(Frontmatter), Len(S) = Len(L), Linked(L, S),
         NEW l \in Line, \A k \in 1 .. Len(L) : L[k].at <= l.at,
         NEW meta \in Frontmatter, meta.id >= 1,
         \/ \E p : LastOf(L, SubjectOf(l), p) /\ meta = S[p]
         \/ /\ \E p : LastOf(L, SubjectOf(l), p) /\ meta.supersedes = {S[p].id}
            /\ meta.from = l.at /\ \A k \in 1 .. Len(L) : S[k].id < meta.id
         \/ /\ \A k \in 1 .. Len(L) : SubjectOf(L[k]) # SubjectOf(l)
            /\ meta.supersedes = {} /\ meta.from = 0
  PROVE  Linked(Append(L, l), Append(S, meta))
<1> DEFINE N == Len(L)
           n == N + 1
           M == Append(L, l)
           T == Append(S, meta)
           s == SubjectOf(l)
<1>1. /\ N \in Nat /\ Len(M) = n /\ M[n] = l /\ T[n] = meta
      /\ \A k \in 1 .. N : M[k] = L[k] /\ T[k] = S[k]
      /\ \A k \in 1 .. n : k \in 1 .. N \/ k = n
      /\ \A k \in 1 .. N : L[k] \in Line /\ S[k] \in Frontmatter
  OBVIOUS
<1>2. /\ \A k \in 1 .. N : L[k].at \in Nat /\ S[k].id \in Nat /\ S[k].from \in Nat
      /\ l.at \in Nat /\ meta.id \in Nat /\ meta.from \in Nat
  BY <1>1 DEF Line, Frontmatter
<1> HIDE DEF M, T, N
<1>3. ASSUME NEW k \in 1 .. N  PROVE Begun(L, S, k) => Begun(M, T, k)
  <2> SUFFICES ASSUME NEW i \in 1 .. k, S[i] = S[k],
                      S[i].from = IF \E j \in 1 .. i - 1 : SubjectOf(L[j]) = SubjectOf(L[i])
                                    THEN L[i].at ELSE 0
               PROVE  Begun(M, T, k)
    BY DEF Begun
  <2>1. i \in 1 .. N /\ \A j \in 1 .. i - 1 : j \in 1 .. N
    BY <1>1
  <2>2. T[i] = S[i] /\ T[k] = S[k] /\ M[i] = L[i] /\ \A j \in 1 .. i - 1 : M[j] = L[j]
    BY <1>1, <2>1
  <2> QED
    BY <2>2 DEF Begun
<1>4. ASSUME NEW k \in 1 .. N, NEW a, NEW x, Retired(L, S, x, a, k)
      PROVE  Retired(M, T, x, a, k) /\ Retired(M, T, x, a, n)
  <2>1. PICK i \in 1 .. k : SubjectOf(L[i]) = x /\ a \in S[i].supersedes
    BY <1>4 DEF Retired
  <2>2. i \in 1 .. N /\ i \in 1 .. n
    BY <1>1
  <2>3. SubjectOf(M[i]) = x /\ a \in T[i].supersedes
    BY <1>1, <2>1, <2>2
  <2> QED
    BY <2>2, <2>3 DEF Retired
<1>5. \A j, k \in 1 .. n : j <= k => M[j].at <= M[k].at
  <2>1. \A j, k \in 1 .. N : j <= k => L[j].at <= L[k].at
    BY DEF Linked, N
  <2> QED
    BY <1>1, <1>2, <2>1 DEF N
<1>6. ASSUME NEW p, LastOf(L, s, p)
      PROVE  /\ p \in 1 .. N /\ SubjectOf(L[p]) = s
             /\ \A j \in 1 .. N : SubjectOf(L[j]) = s =>
                  /\ j <= p /\ S[j].id <= S[p].id
                  /\ S[j] = S[p] \/ Retired(M, T, s, S[j].id, n)
  <2>1. p \in 1 .. N /\ SubjectOf(L[p]) = s
    BY <1>6 DEF LastOf, N
  <2>2. ASSUME NEW j \in 1 .. N, SubjectOf(L[j]) = s
        PROVE  j <= p /\ S[j].id <= S[p].id /\ (S[j] = S[p] \/ Retired(M, T, s, S[j].id, n))
    <3>1. j <= p
      <4>1. j \in p + 1 .. N => SubjectOf(L[j]) # s
        BY <1>6 DEF LastOf, N
      <4> QED
        BY <1>1, <2>1, <2>2, <4>1
    <3>2. S[j].id <= S[p].id /\ (S[j] = S[p] \/ Retired(L, S, s, S[j].id, p))
      BY <2>1, <2>2, <3>1 DEF Linked, N
    <3> QED
      BY <1>4, <2>1, <3>1, <3>2
  <2> QED
    BY <2>1, <2>2
<1>7. n \in 1 .. n /\ \A j \in 1 .. n - 1 : j \in 1 .. N
  BY <1>1
<1>8. /\ meta.from <= l.at /\ (\A x \in meta.supersedes : x < meta.id) /\ Begun(M, T, n)
      /\ \A j \in 1 .. N : SubjectOf(L[j]) = s =>
           /\ S[j].id <= meta.id
           /\ S[j] = meta \/ Retired(M, T, s, S[j].id, n)
  <2>1. CASE \E p : LastOf(L, s, p) /\ meta = S[p]
    <3>0. PICK p : LastOf(L, s, p) /\ meta = S[p]
      BY <2>1
    <3>1. /\ p \in 1 .. N
          /\ \A j \in 1 .. N : SubjectOf(L[j]) = s =>
               S[j].id <= S[p].id /\ (S[j] = S[p] \/ Retired(M, T, s, S[j].id, n))
      BY <1>6, <3>0
    <3>2. S[p].from <= L[p].at /\ L[p].at <= l.at /\ (\A x \in S[p].supersedes : x < S[p].id)
          /\ Begun(L, S, p)
      BY <3>1 DEF Linked, N
    <3>3. Begun(M, T, p) /\ T[p] = meta
      BY <1>1, <1>3, <3>0, <3>1, <3>2
    <3>4. Begun(M, T, n)
      <4>1. \A i \in 1 .. p : i \in 1 .. n
        BY <1>1, <3>1
      <4> QED
        BY <1>1, <3>3, <4>1 DEF Begun
    <3>5. meta.from <= l.at
      BY <1>2, <3>0, <3>1, <3>2
    <3> QED
      BY <3>0, <3>1, <3>2, <3>4, <3>5
  <2>2. CASE \E p : LastOf(L, s, p) /\ meta.supersedes = {S[p].id}
                   /\ meta.from = l.at /\ \A k \in 1 .. N : S[k].id < meta.id
    <3>0. PICK p : LastOf(L, s, p) /\ meta.supersedes = {S[p].id}
                   /\ meta.from = l.at /\ \A k \in 1 .. N : S[k].id < meta.id
      BY <2>2
    <3>1. /\ p \in 1 .. N
          /\ \A j \in 1 .. N : SubjectOf(L[j]) = s =>
               S[j].id <= S[p].id /\ (S[j] = S[p] \/ Retired(M, T, s, S[j].id, n))
      BY <1>6, <3>0
    <3>2. Begun(M, T, n)
      <4>1. p \in 1 .. n - 1 /\ SubjectOf(M[p]) = SubjectOf(M[n]) /\ T[n].from = M[n].at
        BY <1>1, <1>6, <3>0
      <4> HIDE DEF n
      <4> QED
        BY <1>7, <4>1 DEF Begun
    <3>3. Retired(M, T, s, S[p].id, n)
      BY <1>1, <1>7, <3>0 DEF Retired
    <3>4. ASSUME NEW j \in 1 .. N, SubjectOf(L[j]) = s
          PROVE  S[j].id <= meta.id /\ (S[j] = meta \/ Retired(M, T, s, S[j].id, n))
      <4>1. S[j].id <= meta.id
        BY <1>2, <3>0
      <4>2. S[j] = S[p] \/ Retired(M, T, s, S[j].id, n)
        BY <3>1, <3>4
      <4> QED
        BY <3>3, <4>1, <4>2
    <3>5. \A x \in meta.supersedes : x < meta.id
      BY <3>0, <3>1
    <3>6. meta.from <= l.at
      BY <1>2, <3>0
    <3> QED
      BY <3>2, <3>4, <3>5, <3>6
  <2>3. CASE /\ \A k \in 1 .. N : SubjectOf(L[k]) # s
             /\ meta.supersedes = {} /\ meta.from = 0
    <3>1. \A j \in 1 .. n - 1 : SubjectOf(M[j]) # SubjectOf(M[n])
      BY <1>1, <1>7, <2>3
    <3>2. Begun(M, T, n)
      <4>1. T[n].from = 0
        BY <1>1, <2>3
      <4> HIDE DEF n
      <4> QED
        BY <1>7, <3>1, <4>1 DEF Begun
    <3> QED
      BY <1>2, <2>3, <3>2
  <2> QED
    BY <2>1, <2>2, <2>3 DEF N
<1>9. ASSUME NEW k \in 1 .. n
      PROVE  /\ T[k].id >= 1 /\ T[k].from <= M[k].at
             /\ \A x \in T[k].supersedes : x < T[k].id
             /\ Begun(M, T, k)
  <2>1. CASE k \in 1 .. N
    <3>1. /\ S[k].id >= 1 /\ S[k].from <= L[k].at
          /\ \A x \in S[k].supersedes : x < S[k].id
          /\ Begun(L, S, k)
      BY <2>1 DEF Linked, N
    <3> QED
      BY <1>1, <1>3, <2>1, <3>1
  <2>2. CASE k = n
    BY <1>1, <1>8, <2>2
  <2> QED
    BY <1>1, <2>1, <2>2
<1>10. ASSUME NEW j \in 1 .. n, NEW k \in 1 .. n, j <= k, SubjectOf(M[j]) = SubjectOf(M[k])
       PROVE  /\ T[j].id <= T[k].id
              /\ T[j] = T[k] \/ Retired(M, T, SubjectOf(M[k]), T[j].id, k)
  <2>1. CASE k \in 1 .. N
    <3>1. j \in 1 .. N
      BY <1>1, <1>10, <2>1
    <3>2. S[j].id <= S[k].id /\ (S[j] = S[k] \/ Retired(L, S, SubjectOf(L[k]), S[j].id, k))
      BY <1>1, <1>10, <2>1, <3>1 DEF Linked, N
    <3> QED
      BY <1>1, <1>4, <2>1, <3>1, <3>2
  <2>2. CASE k = n /\ j = n
    BY <1>1, <1>2, <2>2
  <2>3. CASE k = n /\ j \in 1 .. N
    BY <1>1, <1>8, <1>10, <2>3
  <2> QED
    BY <1>1, <2>1, <2>2, <2>3
<1> QED
  BY <1>1, <1>5, <1>9, <1>10 DEF Linked, M, T

\* A line more is the last of its subject and of no other.
LEMMA LastAppend ==
  ASSUME NEW L \in Seq(Line), NEW l
  PROVE  /\ LastOf(Append(L, l), SubjectOf(l), Len(L) + 1)
         /\ \A x, p : x # SubjectOf(l) /\ LastOf(L, x, p) => LastOf(Append(L, l), x, p)
<1> DEFINE n == Len(L) + 1
           M == Append(L, l)
<1>1. /\ Len(L) \in Nat /\ Len(M) = n /\ M[n] = l /\ \A k \in 1 .. Len(L) : M[k] = L[k]
      /\ \A k \in 1 .. n : k \in 1 .. Len(L) \/ k = n
      /\ n \in 1 .. n /\ n + 1 .. n = {} /\ \A k \in 1 .. Len(L) : k \in 1 .. n
  OBVIOUS
<1> HIDE DEF M
<1>2. LastOf(M, SubjectOf(l), n)
  BY <1>1 DEF LastOf
<1>3. ASSUME NEW x, NEW p, x # SubjectOf(l), LastOf(L, x, p)  PROVE LastOf(M, x, p)
  <2>1. p \in 1 .. Len(L) /\ SubjectOf(L[p]) = x /\ \A j \in p + 1 .. Len(L) : SubjectOf(L[j]) # x
    BY <1>3 DEF LastOf
  <2>2. \A j \in p + 1 .. n : (j \in p + 1 .. Len(L) /\ j \in 1 .. Len(L)) \/ j = n
    BY <1>1, <2>1
  <2> QED
    BY <1>1, <1>3, <2>1, <2>2 DEF LastOf
<1> QED
  BY <1>2, <1>3 DEF M

\* What stands on a subject is what its last line was settled with.
HeadsStand ==
  /\ DOMAIN head = DOMAIN headMeta
  /\ \A k \in 1 .. Len(lines) : SubjectOf(lines[k]) \in DOMAIN headMeta
  /\ \A x \in DOMAIN headMeta : /\ head[x] = headMeta[x].id
                                /\ \E p : LastOf(lines, x, p) /\ headMeta[x] = settled[p]

\* What is linked stands as it was linked: the invariant under CurrentSurfaces.
SurfaceInv == MemoryInv /\ Linked(lines, settled) /\ HeadsStand

\* A line is settled with what stands on its subject or with a new lineage.
LEMMA LinkIs ==
  ASSUME SurfaceInv, NEW l \in NextLine, arm = "A", Link(l)
  PROVE  \E meta \in Frontmatter :
           /\ settled' = Append(settled, meta) /\ meta.id >= 1
           /\ \/ /\ SubjectOf(l) \in DOMAIN headMeta /\ meta = headMeta[SubjectOf(l)]
                 /\ UNCHANGED <<head, headMeta>>
              \/ /\ \E value : meta = Minted(SubjectOf(l), value, l.at)
                 /\ meta.id = minted + 1 /\ SetHead(SubjectOf(l), meta)
<1> DEFINE s == SubjectOf(l)
<1>1. /\ MemoryTypes /\ l \in Line /\ minted \in Nat
      /\ \A k \in 1 .. Len(lines) : lines[k].body = l.body => lines[k].reading = l.reading
      /\ s \in Subject \cup ({"own"} \X Nat) /\ ValueOf(l) \in Value \cup ({"body"} \X Nat)
      /\ l.at \in Nat
  <2>1. MemoryTypes /\ l \in Line
    BY NextLineIs DEF SurfaceInv, MemoryInv
  <2> QED
    BY <2>1, NextLineIs, SaysTyped DEF MemoryTypes, Line
<1>2. ASSUME l.body \in DOMAIN metaOf
      PROVE  /\ metaOf[l.body] \in Frontmatter /\ metaOf[l.body] \in Known
             /\ Says(metaOf[l.body], l) /\ s \in DOMAIN headMeta
  <2>1. PICK k \in 1 .. Len(lines) : lines[k].body = l.body /\ Says(metaOf[l.body], lines[k])
    BY <1>2 DEF SurfaceInv, MemoryInv, LinkedAsSaid
  <2>2. lines[k].reading = l.reading
    BY <1>1, <2>1
  <2>3. Says(metaOf[l.body], l) /\ SubjectOf(lines[k]) = s
    BY <2>1, <2>2 DEF Says, SubjectOf, ValueOf
  <2>4. s \in DOMAIN headMeta
    BY <2>3 DEF SurfaceInv, HeadsStand
  <2> QED
    BY <1>1, <1>2, <2>3, <2>4 DEF MemoryTypes, Known
<1>3. ASSUME s \in DOMAIN headMeta
      PROVE  /\ headMeta[s] \in Frontmatter /\ headMeta[s] \in Known /\ headMeta[s].id >= 1
             /\ head[s] = headMeta[s].id
  <2>1. PICK p : LastOf(lines, s, p) /\ headMeta[s] = settled[p]
    BY <1>3 DEF SurfaceInv, HeadsStand
  <2>2. settled[p].id >= 1
    BY <2>1 DEF SurfaceInv, Linked, LastOf
  <2> QED
    BY <1>1, <1>3, <2>1, <2>2 DEF SurfaceInv, HeadsStand, MemoryTypes, Known
<1>4. CASE Restate(l)
  <2> DEFINE meta == metaOf[l.body]
  <2>1. l.body \in DOMAIN metaOf /\ meta.id = head[meta.subject] /\ Emit(l, meta)
        /\ UNCHANGED <<head, headMeta, minted>>
    BY <1>4 DEF Restate, Standing
  <2>2. meta.subject = s
    BY <1>2, <2>1 DEF Says
  <2>3. meta = headMeta[s]
    BY <1>2, <1>3, <2>1, <2>2 DEF SurfaceInv, MemoryInv, OneEach
  <2>4. settled' = Append(settled, meta)
    BY <2>1 DEF Emit
  <2> HIDE DEF meta
  <2> QED
    BY <1>2, <1>3, <2>1, <2>3, <2>4
<1>5. ASSUME NEW value \in Value \cup ({"body"} \X Nat),
             Emit(l, Minted(s, value, l.at)), SetHead(s, Minted(s, value, l.at))
      PROVE  \E meta \in Frontmatter :
               /\ settled' = Append(settled, meta) /\ meta.id >= 1
               /\ \E v : meta = Minted(s, v, l.at)
               /\ meta.id = minted + 1 /\ SetHead(s, meta)
  <2> DEFINE meta == Minted(s, value, l.at)
  <2>1. meta \in Frontmatter /\ meta.id = minted + 1 /\ meta.id >= 1
    BY <1>1, MintedIs
  <2>2. settled' = Append(settled, meta) /\ SetHead(s, meta)
    BY <1>5 DEF Emit
  <2>3. \E v : meta = Minted(s, v, l.at)
    OBVIOUS
  <2> HIDE DEF meta
  <2> QED
    BY <2>1, <2>2, <2>3
<1>6. CASE Revert(l)
  <2> DEFINE prior == metaOf[l.body]
  <2>1. /\ l.body \in DOMAIN metaOf /\ Emit(l, Minted(prior.subject, prior.object, l.at))
        /\ SetHead(prior.subject, Minted(prior.subject, prior.object, l.at))
    BY <1>6 DEF Revert
  <2>2. prior.subject = s /\ prior.object \in Value \cup ({"body"} \X Nat)
    BY <1>1, <1>2, <2>1 DEF Says
  <2> HIDE DEF prior
  <2> QED
    BY <1>5, <2>1, <2>2
<1>7. CASE Reword(l)
  <2>1. s \in DOMAIN headMeta /\ Emit(l, headMeta[s]) /\ UNCHANGED <<head, headMeta, minted>>
    BY <1>7 DEF Reword, SameValue
  <2>2. settled' = Append(settled, headMeta[s])
    BY <2>1 DEF Emit
  <2> QED
    BY <1>3, <2>1, <2>2
<1>8. CASE Mint(l)
  <2>1. Emit(l, Minted(s, ValueOf(l), l.at)) /\ SetHead(s, Minted(s, ValueOf(l), l.at))
    BY <1>8 DEF Mint
  <2> QED
    BY <1>1, <1>5, <2>1
<1> QED
  BY <1>4, <1>6, <1>7, <1>8 DEF Link

\* A line more, and its subject's lineages still follow one another.
LEMMA LinkLinks ==
  ASSUME SurfaceInv, NEW l \in NextLine, arm = "A", lines' = Append(lines, l), Link(l)
  PROVE  Linked(lines, settled)' /\ HeadsStand'
<1> DEFINE s == SubjectOf(l)
           N == Len(lines)
           n == N + 1
<1>1. /\ lines \in Seq(Line) /\ settled \in Seq(Frontmatter) /\ Len(settled) = N /\ N \in Nat
      /\ l \in Line /\ minted \in Nat /\ Linked(lines, settled) /\ HeadsStand
  BY NextLineIs DEF SurfaceInv, MemoryInv, MemoryTypes, LinkedAsSaid
<1>2. PICK meta \in Frontmatter :
        /\ settled' = Append(settled, meta) /\ meta.id >= 1
        /\ \/ s \in DOMAIN headMeta /\ meta = headMeta[s] /\ UNCHANGED <<head, headMeta>>
           \/ /\ \E value : meta = Minted(s, value, l.at)
              /\ meta.id = minted + 1 /\ SetHead(s, meta)
  BY LinkIs
<1>3. \A k \in 1 .. N : lines[k].at <= l.at
  <2>1. NotBefore(l.at)
    BY DEF NextLine
  <2>2. ASSUME NEW k \in 1 .. N  PROVE lines[k].at <= l.at
    <3>1. N \in 1 .. N /\ lines # <<>> /\ lines[k] \in Line /\ lines[N] \in Line
      BY <1>1
    <3>2. lines[N].at <= l.at
      BY <2>1, <3>1 DEF NotBefore, Last
    <3>3. lines[k].at <= lines[N].at
      BY <1>1, <3>1 DEF Linked
    <3> QED
      BY <1>1, <3>1, <3>2, <3>3 DEF Line
  <2> QED
    BY <2>2
<1>4. \A k \in 1 .. N : settled[k].id \in Nat /\ settled[k].id <= minted
  <2>1. \A k \in 1 .. N : settled[k] \in Known
    BY <1>1 DEF Known
  <2> QED
    BY <2>1, KnownNumbered DEF SurfaceInv, MemoryInv, OneEach
<1>5. \/ \E p : LastOf(lines, s, p) /\ meta = settled[p]
      \/ /\ \E p : LastOf(lines, s, p) /\ meta.supersedes = {settled[p].id}
         /\ meta.from = l.at /\ \A k \in 1 .. Len(lines) : settled[k].id < meta.id
      \/ /\ \A k \in 1 .. Len(lines) : SubjectOf(lines[k]) # s
         /\ meta.supersedes = {} /\ meta.from = 0
  <2>1. CASE s \in DOMAIN headMeta /\ meta = headMeta[s]
    BY <1>1, <2>1 DEF HeadsStand
  <2>2. CASE s \in DOMAIN headMeta /\ meta.id = minted + 1 /\ \E value : meta = Minted(s, value, l.at)
    <3>1. PICK p : LastOf(lines, s, p) /\ headMeta[s] = settled[p]
      BY <1>1, <2>2 DEF HeadsStand
    <3>2. s \in DOMAIN head /\ head[s] = settled[p].id
      BY <1>1, <2>2, <3>1 DEF HeadsStand
    <3>3. meta.supersedes = {settled[p].id} /\ meta.from = l.at
      BY <2>2, <3>2 DEF Minted
    <3>4. \A k \in 1 .. Len(lines) : settled[k].id < meta.id
      BY <1>1, <1>4, <2>2
    <3> QED
      BY <3>1, <3>3, <3>4
  <2>3. CASE s \notin DOMAIN headMeta /\ \E value : meta = Minted(s, value, l.at)
    <3>1. s \notin DOMAIN head /\ \A k \in 1 .. Len(lines) : SubjectOf(lines[k]) # s
      BY <1>1, <2>3 DEF HeadsStand
    <3>2. meta.supersedes = {} /\ meta.from = 0
      BY <2>3, <3>1 DEF Minted
    <3> QED
      BY <3>1, <3>2
  <2> QED
    BY <1>2, <2>1, <2>2, <2>3
<1>6. Linked(Append(lines, l), Append(settled, meta))
  BY <1>1, <1>2, <1>3, <1>5, LinkedAppend
<1>7. /\ Len(lines') = n /\ settled'[n] = meta
      /\ \A k \in 1 .. N : lines'[k] = lines[k] /\ settled'[k] = settled[k]
      /\ \A k \in 1 .. n : k \in 1 .. N \/ k = n
      /\ lines'[n] = l
  BY <1>1, <1>2
<1>8. /\ LastOf(lines', s, n)
      /\ \A x, p : x # s /\ LastOf(lines, x, p) => LastOf(lines', x, p)
  BY <1>1, LastAppend
<1>9. /\ DOMAIN headMeta' = DOMAIN headMeta \cup {s} /\ DOMAIN head' = DOMAIN head \cup {s}
      /\ headMeta'[s] = meta /\ head'[s] = meta.id
      /\ \A x \in DOMAIN headMeta \ {s} : headMeta'[x] = headMeta[x] /\ head'[x] = head[x]
  <2>1. DOMAIN head = DOMAIN headMeta
    BY <1>1 DEF HeadsStand
  <2>2. CASE s \in DOMAIN headMeta /\ meta = headMeta[s] /\ UNCHANGED <<head, headMeta>>
    <3>1. head[s] = headMeta[s].id
      BY <1>1, <2>2 DEF HeadsStand
    <3> QED
      BY <2>1, <2>2, <3>1
  <2>3. CASE SetHead(s, meta)
    BY <2>1, <2>3 DEF SetHead, Put
  <2> QED
    BY <1>2, <2>2, <2>3
<1>10. ASSUME NEW x \in DOMAIN headMeta'
       PROVE  head'[x] = headMeta'[x].id /\ \E p : LastOf(lines', x, p) /\ headMeta'[x] = settled'[p]
  <2>1. CASE x = s
    BY <1>7, <1>8, <1>9, <2>1
  <2>2. CASE x # s
    <3>1. x \in DOMAIN headMeta /\ headMeta'[x] = headMeta[x] /\ head'[x] = head[x]
      BY <1>9, <1>10, <2>2
    <3>2. PICK p : LastOf(lines, x, p) /\ headMeta[x] = settled[p]
      BY <1>1, <3>1 DEF HeadsStand
    <3>3. settled'[p] = settled[p]
      BY <1>7, <3>2 DEF LastOf
    <3>4. head[x] = headMeta[x].id
      BY <1>1, <3>1 DEF HeadsStand
    <3> QED
      BY <1>8, <2>2, <3>1, <3>2, <3>3, <3>4
  <2> QED
    BY <2>1, <2>2
<1>11. \A k \in 1 .. n : SubjectOf(lines'[k]) \in DOMAIN headMeta'
  BY <1>1, <1>7, <1>9 DEF HeadsStand
<1>12. DOMAIN head' = DOMAIN headMeta'
  BY <1>1, <1>9 DEF HeadsStand
<1>13. HeadsStand'
  BY <1>7, <1>10, <1>11, <1>12 DEF HeadsStand
<1> QED
  BY <1>2, <1>6, <1>13

LEMMA SurfaceStep == ASSUME SurfaceInv, [Next]_vars PROVE SurfaceInv'
<1>1. MemoryInv'
  BY MemoryStep DEF SurfaceInv
<1>2. CASE Read
  BY <1>1, <1>2, LinkLinks DEF Read, SurfaceInv
<1>3. CASE UNCHANGED <<lines, settled, head, headMeta>>
  BY <1>1, <1>3 DEF SurfaceInv, HeadsStand
<1>4. Replay \/ NextArm \/ Import \/ Over \/ UNCHANGED vars =>
        UNCHANGED <<lines, settled, head, headMeta>>
  BY DEF Replay, NextArm, Import, Over, vars, linker
<1> QED
  BY <1>2, <1>3, <1>4 DEF Next

\* The lines L are settled as they say, with the lineages S.
Settles(L, S) ==
  /\ L \in Seq(Line) /\ S \in Seq(Frontmatter) /\ Len(S) = Len(L)
  /\ Linked(L, S) /\ \A k \in 1 .. Len(L) : Says(S[k], L[k])

\* Line m is the last of subject s that is true at t, or the first of all when
\* none is.
Current(L, s, t, m) ==
  /\ m \in 1 .. Len(L) /\ SubjectOf(L[m]) = s
  /\ \A k \in 1 .. Len(L) : SubjectOf(L[k]) = s /\ L[k].at <= t => k <= m
  /\ L[m].at <= t \/ \A k \in 1 .. Len(L) : SubjectOf(L[k]) = s => m <= k

\* The lineages of subject s.
About(C, L, S, s) == \A c : c \in C <=> \E k \in 1 .. Len(L) : S[k] = c /\ SubjectOf(L[k]) = s

\* Of a subject's lineages the one of the line then current surfaces.
LEMMA SubjectSurfaces ==
  ASSUME NEW L, NEW S, Settles(L, S), NEW s, NEW t \in Nat, NEW m, Current(L, s, t, m),
         NEW C, About(C, L, S, s)
  PROVE  SurfacedOf(C, s, t) = {S[m].id}
<1>0. /\ L \in Seq(Line) /\ S \in Seq(Frontmatter) /\ Len(S) = Len(L) /\ Linked(L, S)
      /\ \A k \in 1 .. Len(L) : Says(S[k], L[k])
      /\ m \in 1 .. Len(L) /\ SubjectOf(L[m]) = s
      /\ \A k \in 1 .. Len(L) : SubjectOf(L[k]) = s /\ L[k].at <= t => k <= m
      /\ L[m].at <= t \/ \A k \in 1 .. Len(L) : SubjectOf(L[k]) = s => m <= k
      /\ \A c : c \in C <=> \E k \in 1 .. Len(L) : S[k] = c /\ SubjectOf(L[k]) = s
  BY DEF Settles, Current, About
<1> USE <1>0
<1> DEFINE N == Len(L)
           A == ActiveOf(C, s, t)
           top == S[m]
<1>1. /\ N \in Nat
      /\ \A k \in 1 .. N : /\ L[k].at \in Nat /\ S[k].id \in Nat /\ S[k].from \in Nat /\ S[k].until = 0
                           /\ S[k].subject = SubjectOf(L[k])
      /\ S[m].id >= 1
  <2>1. \A k \in 1 .. N : L[k] \in Line /\ S[k] \in Frontmatter
    OBVIOUS
  <2>2. \A k \in 1 .. N : L[k].at \in Nat
    BY <2>1 DEF Line
  <2>3. \A k \in 1 .. N : S[k].id \in Nat /\ S[k].from \in Nat /\ S[k].until = 0
    BY <2>1 DEF Frontmatter
  <2>4. \A k \in 1 .. N : S[k].subject = SubjectOf(L[k])
    BY DEF Says
  <2>5. S[m].id >= 1
    BY DEF Linked
  <2> QED
    BY <2>2, <2>3, <2>4, <2>5
<1>2. ASSUME NEW k \in 1 .. N, SubjectOf(L[k]) = s, R2Active(S[k], t)
      PROVE  \E i \in 1 .. m : SubjectOf(L[i]) = s /\ S[i] = S[k]
  <2>1. PICK i \in 1 .. k : /\ S[i] = S[k]
                            /\ S[i].from = IF \E j \in 1 .. i - 1 : SubjectOf(L[j]) = SubjectOf(L[i])
                                             THEN L[i].at ELSE 0
    BY DEF Linked, Begun
  <2>2. i \in 1 .. N /\ SubjectOf(L[i]) = s
    BY <1>1, <1>2, <2>1
  <2>3. i <= m
    <3>1. CASE \E j \in 1 .. i - 1 : SubjectOf(L[j]) = SubjectOf(L[i])
      <4>1. S[i].from = L[i].at
        BY <2>1, <3>1
      <4>2. L[i].at <= t
        BY <1>1, <1>2, <2>1, <2>2, <4>1 DEF R2Active
      <4> QED
        BY <2>2, <4>2
    <3>2. CASE \A j \in 1 .. i - 1 : SubjectOf(L[j]) # SubjectOf(L[i])
      <4>1. m \notin 1 .. i - 1
        BY <2>2, <3>2
      <4> QED
        BY <2>2, <4>1
    <3> QED
      BY <3>1, <3>2
  <2> QED
    BY <2>1, <2>2, <2>3
<1>3. ASSUME NEW i \in 1 .. m, SubjectOf(L[i]) = s  PROVE S[i] \in A
  <2>1. i \in 1 .. N /\ i <= m
    BY <1>1
  <2>2. S[i].from # 0 => S[i].from <= t
    <3>1. CASE L[m].at <= t
      <4>1. S[i].from <= L[i].at /\ L[i].at <= L[m].at
        BY <2>1 DEF Linked
      <4> QED
        BY <1>1, <2>1, <3>1, <4>1
    <3>2. CASE \A k \in 1 .. N : SubjectOf(L[k]) = s => m <= k
      <4>1. PICK j \in 1 .. i : /\ S[j] = S[i]
                                /\ S[j].from = IF \E k \in 1 .. j - 1 : SubjectOf(L[k]) = SubjectOf(L[j])
                                                 THEN L[j].at ELSE 0
        BY <2>1 DEF Linked, Begun
      <4>2. j \in 1 .. N /\ SubjectOf(L[j]) = s /\ j <= m
        BY <1>1, <1>3, <2>1, <4>1
      <4>3. \A k \in 1 .. j - 1 : k \in 1 .. N /\ k < m
        BY <2>1, <4>2
      <4>4. \A k \in 1 .. j - 1 : SubjectOf(L[k]) # s
        BY <3>2, <4>3
      <4> QED
        BY <4>1, <4>2, <4>4
    <3> QED
      BY <3>1, <3>2
  <2>3. S[i] \in C /\ S[i].subject = s /\ R2Active(S[i], t)
    BY <1>1, <1>3, <2>1, <2>2 DEF R2Active
  <2> QED
    BY <2>3 DEF ActiveOf
<1>4. ASSUME NEW c \in A  PROVE \E i \in 1 .. m : SubjectOf(L[i]) = s /\ S[i] = c
  <2>1. c \in C /\ R2Active(c, t)
    BY DEF ActiveOf
  <2>2. PICK k \in 1 .. N : S[k] = c /\ SubjectOf(L[k]) = s
    BY <2>1
  <2> QED
    BY <1>2, <2>1, <2>2
<1> HIDE DEF A
<1>5. top \in A
  BY <1>3
<1>6. \A c \in A : \A x \in c.supersedes : x # top.id
  <2> SUFFICES ASSUME NEW c \in A, NEW x \in c.supersedes, x = top.id  PROVE FALSE
    OBVIOUS
  <2>1. PICK i \in 1 .. m : SubjectOf(L[i]) = s /\ S[i] = c
    BY <1>4
  <2>2. i \in 1 .. N /\ i <= m
    BY <1>1, <2>1
  <2>3. S[i].id <= S[m].id
    BY <2>1, <2>2 DEF Linked
  <2>4. x < S[i].id
    BY <2>1, <2>2 DEF Linked
  <2> QED
    BY <1>1, <2>2, <2>3, <2>4
<1>7. ASSUME NEW c \in A, c # top  PROVE c.id \in GoneOf(A)
  <2>1. PICK i \in 1 .. m : SubjectOf(L[i]) = s /\ S[i] = c
    BY <1>4
  <2>2. i \in 1 .. N /\ i <= m
    BY <1>1, <2>1
  <2>3. Retired(L, S, s, c.id, m)
    BY <1>7, <2>1, <2>2 DEF Linked
  <2>4. PICK k \in 1 .. m : SubjectOf(L[k]) = s /\ c.id \in S[k].supersedes
    BY <2>3 DEF Retired
  <2>5. S[k] \in A
    BY <1>3, <2>4
  <2>6. c.id \in UNION {d.supersedes : d \in A}
    BY <2>4, <2>5
  <2>7. c.id \in IdsOf(A)
    BY DEF IdsOf
  <2> QED
    BY <2>6, <2>7 DEF GoneOf
<1>8. top.id \notin GoneOf(A)
  <2>1. top.id \notin UNION {d.supersedes : d \in A}
    BY <1>6
  <2> QED
    BY <2>1 DEF GoneOf
<1>9. LeftOf(A) = {top}
  BY <1>5, <1>7, <1>8 DEF LeftOf
<1>10. /\ IdsOf({top}) \ {0} = {top.id}
       /\ \A c : A = {c} => IdsOf(A) \ {0} = {top.id}
       /\ A # {}
  BY <1>1, <1>5 DEF IdsOf
<1> HIDE DEF top
<1>11. SurfacedOf(C, s, t) =
         IF A = {} THEN {}
         ELSE IF \E c : A = {c} THEN IdsOf(A) \ {0}
         ELSE IdsOf(LeftOf(A)) \ {0}
  <2>1. \E c : LeftOf(A) = {c}
    BY <1>9
  <2> QED
    BY <2>1 DEF SurfacedOf, A
<1> QED
  BY <1>9, <1>10, <1>11 DEF top

\* Of some numbers up to n one is the largest.
LEMMA LastOfSome ==
  ASSUME NEW n \in Nat, NEW some \in SUBSET (1 .. n), some # {}
  PROVE  Max(some) \in some /\ \A k \in some : k <= Max(some)
<1> DEFINE rest == {i \in Nat : n - i \in some}
<1>1. rest # {}
  <2>1. PICK k : k \in some
    OBVIOUS
  <2>2. n - k \in Nat /\ n - (n - k) = k
    BY <2>1
  <2> QED
    BY <2>1, <2>2
<1>2. PICK i \in rest : \A j \in rest : i <= j
  <2>1. rest \subseteq Nat
    OBVIOUS
  <2> HIDE DEF rest
  <2> QED
    BY <1>1, <2>1, FirstOfSome
<1>3. \A k \in some : k <= n - i
  <2>1. \A k \in some : n - k \in Nat /\ n - (n - k) = k /\ k \in Nat
    OBVIOUS
  <2>2. \A k \in some : n - k \in rest
    BY <2>1
  <2> QED
    BY <1>2, <2>1, <2>2
<1>4. n - i \in some /\ \A k \in some : n - i >= k
  BY <1>2, <1>3
<1>5. \E x \in some : \A y \in some : x >= y
  BY <1>4
<1>6. Max(some) \in some /\ \A y \in some : Max(some) >= y
  BY <1>5 DEF Max
<1> QED
  BY <1>6

\* The last line true at t of a subject there are lines of.
LEMMA SaidIs ==
  ASSUME lines \in Seq(Line), NEW s, NEW t \in Nat, \E k \in 1 .. Len(lines) : SubjectOf(lines[k]) = s
  PROVE  Current(lines, s, t, Max(Said(s, t)))
<1> DEFINE N == Len(lines)
           all == {k \in DOMAIN lines : SubjectOf(lines[k]) = s}
           past == {k \in all : lines[k].at <= t}
           m == Max(Said(s, t))
<1>1. N \in Nat /\ DOMAIN lines = 1 .. N /\ all # {} /\ all \in SUBSET (1 .. N) /\ past \in SUBSET all
      /\ past \in SUBSET (1 .. N)
  OBVIOUS
<1>2. Said(s, t) = IF past = {} THEN {Min(all)} ELSE past
  BY DEF Said
<1>3. CASE past # {}
  <2>1. m \in past /\ \A k \in past : k <= m
    <3>1. Max(past) \in past /\ \A k \in past : k <= Max(past)
      <4> HIDE DEF past, N
      <4> QED
        BY <1>1, <1>3, LastOfSome
    <3>2. Said(s, t) = past
      BY <1>2, <1>3
    <3> HIDE DEF past
    <3> QED
      BY <3>1, <3>2
  <2> HIDE DEF m
  <2>2. /\ m \in 1 .. N /\ SubjectOf(lines[m]) = s /\ lines[m].at <= t
        /\ \A k \in 1 .. N : SubjectOf(lines[k]) = s /\ lines[k].at <= t => k <= m
    BY <1>1, <2>1
  <2> QED
    BY <2>2 DEF m, Current
<1>4. CASE past = {}
  <2>1. Min(all) \in all /\ \A k \in all : Min(all) <= k
    <3> HIDE DEF all
    <3>1. all \subseteq Nat
      BY <1>1
    <3>2. PICK k \in all : \A j \in all : k <= j
      BY <1>1, <3>1, FirstOfSome
    <3> QED
      BY <3>2 DEF Min
  <2>2. m = Min(all)
    <3> DEFINE first == Min(all)
    <3>1. first \in 1 .. N
      BY <1>1, <2>1
    <3> HIDE DEF first
    <3>2. Max({first}) = first
      <4> DEFINE top == CHOOSE x \in {first} : \A y \in {first} : x >= y
      <4>1. top \in {first}
        BY <3>1
      <4>2. Max({first}) = top
        BY DEF Max
      <4> HIDE DEF top
      <4> QED
        BY <4>1, <4>2
    <3> QED
      BY <1>2, <1>4, <3>2 DEF first
  <2> HIDE DEF m
  <2>3. \A k \in all : ~(lines[k].at <= t)
    BY <1>4
  <2>4. /\ m \in 1 .. N /\ SubjectOf(lines[m]) = s
        /\ \A k \in 1 .. N : SubjectOf(lines[k]) = s => m <= k /\ ~(lines[k].at <= t)
    BY <1>1, <2>1, <2>2, <2>3
  <2> QED
    BY <2>4 DEF m, Current
<1> QED
  BY <1>3, <1>4

\* For every subject and instant arm C surfaces the lineage of the last line
\* then true, and no other.
THEOREM NewestSurfaces == Spec => []CurrentSurfaces
<1>1. Init => SurfaceInv
  <2> SUFFICES ASSUME Init PROVE SurfaceInv
    OBVIOUS
  <2>1. \A a \in Arm : emitted[a] = <<>>
    BY DEF Init
  <2>2. emitted \in [Arm -> Seq(Frontmatter)]
    <3>1. <<>> \in Seq(Frontmatter)
      OBVIOUS
    <3> QED
      BY <3>1 DEF Init
  <2>3. MemoryInv
    BY <2>1, <2>2 DEF Init, Arm, MemoryInv, MemoryTypes, OneEach, Known, LinkedAsSaid,
       GivenAsSettled
  <2>4. lines = <<>> /\ settled = <<>> /\ head = <<>> /\ headMeta = <<>>
    BY DEF Init
  <2>5. Linked(lines, settled)
    BY <2>4 DEF Linked
  <2>6. HeadsStand
    BY <2>4 DEF HeadsStand
  <2> QED
    BY <2>3, <2>5, <2>6 DEF SurfaceInv
<1>2. SurfaceInv /\ [Next]_vars => SurfaceInv'
  BY SurfaceStep
<1>3. ASSUME SurfaceInv, Finished  PROVE CurrentSurfaces
  <2> DEFINE N == Len(lines)
             given == emitted["C"]
             R == {given[k] : k \in DOMAIN given}
  <2>1. /\ lines \in Seq(Line) /\ settled \in Seq(Frontmatter) /\ Len(settled) = N /\ N \in Nat
        /\ Linked(lines, settled)
        /\ \A k \in 1 .. N : settled[k] \in Frontmatter /\ Says(settled[k], lines[k])
        /\ \A j, k \in 1 .. N : settled[j].id = settled[k].id => settled[j] = settled[k]
        /\ given \in Seq(Frontmatter) /\ Len(given) = N /\ \A k \in 1 .. N : given[k] = settled[k]
    <3>1. /\ lines \in Seq(Line) /\ settled \in Seq(Frontmatter) /\ given \in Seq(Frontmatter)
          /\ Len(settled) = N /\ "C" \in Arm /\ Linked(lines, settled)
      BY <1>3 DEF SurfaceInv, MemoryInv, MemoryTypes, LinkedAsSaid, Arm
    <3>2. Len(given) = N
      BY <1>3, <3>1 DEF SurfaceInv, MemoryInv, GivenAsSettled, Finished, Behind
    <3>3. DOMAIN settled = 1 .. N /\ \A k \in 1 .. N : settled[k] \in Known /\ settled[k] \in Frontmatter
      BY <3>1 DEF Known
    <3>4. \A k \in 1 .. N : given[k] = settled[k] /\ Says(settled[k], lines[k])
      BY <1>3, <3>1, <3>2 DEF SurfaceInv, MemoryInv, GivenAsSettled, LinkedAsSaid
    <3>5. \A j, k \in 1 .. N : settled[j].id = settled[k].id => settled[j] = settled[k]
      BY <1>3, <3>3 DEF SurfaceInv, MemoryInv, OneEach
    <3> QED
      BY <3>1, <3>2, <3>3, <3>4, <3>5
  <2> HIDE DEF given
  <2>2. /\ \A c : c \in R <=> \E k \in 1 .. N : settled[k] = c
        /\ given \in Seq(R)
    <3>1. DOMAIN given = 1 .. N /\ given = [k \in 1 .. N |-> given[k]]
      BY <2>1
    <3>2. \A c : c \in R <=> \E k \in 1 .. N : given[k] = c
      BY <3>1
    <3> HIDE DEF R
    <3>3. given \in [1 .. N -> R]
      BY <3>1, <3>2
    <3>4. given \in Seq(R)
      BY <2>1, <3>3
    <3> QED
      BY <2>1, <3>2, <3>4
  <2>3. /\ \A c \in R : IsClaim(c) /\ c \in Frontmatter /\ c.subject # Absent
        /\ \A c, d \in R : c.id = d.id => c = d
    <3>1. \A c \in R : c \in Frontmatter
      BY <2>1, <2>2
    <3>2. \A c \in Frontmatter : IsClaim(c)
      BY DEF Frontmatter, IsClaim
    <3>3. \A c \in Frontmatter : c.subject # Absent
      BY MemoryAssumption DEF Frontmatter
    <3> QED
      BY <2>1, <2>2, <3>1, <3>2, <3>3
  <2>4. Remembered(given) = RememberedOf(R)
    <3>1. \A c, d \in R : c.id = d.id => c.created = d.created
      BY <2>3
    <3>2. \A c \in R : IsClaim(c)
      BY <2>3
    <3> QED
      BY <2>2, <3>1, <3>2, AnyOrder
  <2> HIDE DEF R
  <2>5. RememberedOf(R) = [refused |-> FALSE, at |-> [t \in Instant |-> AllSurfaced(R, t)]]
    <3>1. \A a, b \in R : ~Irreconcilable(a, b)
      BY <2>3 DEF Irreconcilable
    <3>2. \A c \in R : ~Unscoped(c)
      BY <2>3 DEF Unscoped
    <3> QED
      BY <3>1, <3>2 DEF RememberedOf
  <2>6. LiveOf(R) = R
    <3>1. \A c \in R : c.state = "active"
      BY <2>3 DEF Frontmatter
    <3> QED
      BY <3>1 DEF LiveOf
  <2> DEFINE part(s) == {d \in R : d.subject = s}
             topics == {d.subject : d \in R} \ {Absent}
             latest(s, t) == settled[Max(Said(s, t))]
  <2>7. ASSUME NEW k \in 1 .. N, NEW t \in Instant
        PROVE  LET s == SubjectOf(lines[k])
               IN  /\ Max(Said(s, t)) \in 1 .. N /\ SubjectOf(lines[Max(Said(s, t))]) = s
                   /\ SurfacedOf(part(s), s, t) = {latest(s, t).id}
    <3> DEFINE s == SubjectOf(lines[k])
               m == Max(Said(s, t))
               C == part(s)
    <3>1. t \in Nat
      BY MemoryAssumption DEF Instant
    <3>2. Current(lines, s, t, m) /\ m \in 1 .. N /\ SubjectOf(lines[m]) = s
      <4>1. Current(lines, s, t, m)
        BY <2>1, <3>1, SaidIs
      <4> QED
        BY <4>1 DEF Current
    <3>3. About(C, lines, settled, s)
      <4>1. \A j \in 1 .. N : settled[j].subject = SubjectOf(lines[j])
        BY <2>1 DEF Says
      <4> HIDE DEF s
      <4> QED
        BY <2>2, <4>1 DEF About
    <3>4. Settles(lines, settled)
      BY <2>1 DEF Settles
    <3> HIDE DEF s, m, C
    <3>5. SurfacedOf(C, s, t) = {settled[m].id}
      BY <3>1, <3>2, <3>3, <3>4, SubjectSurfaces
    <3> QED
      BY <3>2, <3>5 DEF s, m, C
  <2>8. ASSUME NEW t \in Instant, NEW c \in R
        PROVE  c.id \in AllSurfaced(R, t) <=> c = latest(c.subject, t)
    <3>1. AllSurfaced(R, t) = IdsOf(part(Absent)) \cup UNION {SurfacedOf(part(s), s, t) : s \in topics}
      BY <2>6 DEF AllSurfaced
    <3>2. IdsOf(part(Absent)) = {} /\ c.subject \in topics
      BY <2>3 DEF IdsOf
    <3>3. ASSUME NEW s \in topics
          PROVE  /\ SurfacedOf(part(s), s, t) = {latest(s, t).id}
                 /\ latest(s, t) \in R /\ latest(s, t).subject = s
      <4>1. PICK k \in 1 .. N : settled[k].subject = s
        BY <2>2
      <4>2. SubjectOf(lines[k]) = s
        BY <2>1, <4>1 DEF Says
      <4>3. /\ Max(Said(s, t)) \in 1 .. N /\ SubjectOf(lines[Max(Said(s, t))]) = s
            /\ SurfacedOf(part(s), s, t) = {latest(s, t).id}
        BY <2>7, <4>2
      <4> QED
        BY <2>1, <2>2, <4>3 DEF Says
    <3> HIDE DEF part, topics, latest
    <3>4. c.id \in AllSurfaced(R, t) <=> \E s \in topics : c.id = latest(s, t).id
      BY <3>1, <3>2, <3>3
    <3>5. \A s \in topics : c.id = latest(s, t).id => c = latest(s, t) /\ s = c.subject
      BY <2>3, <3>3
    <3> QED
      BY <3>2, <3>4, <3>5
  <2>9. Remembered(given) = [refused |-> FALSE, at |-> [t \in Instant |-> AllSurfaced(R, t)]]
    BY <2>4, <2>5
  <2> DEFINE surfaced(s, t) ==
               {c \in ToSet(given) : c.subject = s /\ c.id \in Remembered(given).at[t]}
  <2>10. ASSUME NEW t \in Instant, NEW k \in DOMAIN lines
         PROVE  LET s == SubjectOf(lines[k])
                IN  surfaced(s, t) = {latest(s, t)} /\ latest(s, t).object = ValueOf(lines[Max(Said(s, t))])
    <3> DEFINE s == SubjectOf(lines[k])
               m == Max(Said(s, t))
    <3>1. m \in 1 .. N /\ SubjectOf(lines[m]) = s
      BY <2>1, <2>7
    <3> HIDE DEF m, s
    <3>2. settled[m] \in R /\ settled[m].subject = s /\ settled[m].object = ValueOf(lines[m])
      BY <2>1, <2>2, <3>1 DEF Says
    <3>3. ToSet(given) = R
      BY DEF ToSet, R
    <3>4. Remembered(given).at[t] = AllSurfaced(R, t)
      BY <2>9
    <3>5. \A c : c \in surfaced(s, t) <=> c \in R /\ c.subject = s /\ c.id \in AllSurfaced(R, t)
      BY <3>3, <3>4
    <3>6. \A c \in R : c.subject = s => (c.id \in AllSurfaced(R, t) <=> c = settled[m])
      BY <2>8 DEF m
    <3> HIDE DEF surfaced
    <3>7. surfaced(s, t) = {settled[m]}
      BY <3>2, <3>5, <3>6
    <3> QED
      BY <3>2, <3>7 DEF s, m
  <2>11. ~Remembered(given).refused
    BY <2>9
  <2>12. \A t \in Instant, x \in {SubjectOf(lines[k]) : k \in DOMAIN lines} :
           \E c \in surfaced(x, t) : surfaced(x, t) = {c} /\ c.object = ValueOf(lines[Max(Said(x, t))])
    <3> SUFFICES ASSUME NEW t \in Instant, NEW k \in DOMAIN lines
                 PROVE  LET x == SubjectOf(lines[k])
                        IN  \E c \in surfaced(x, t) :
                              surfaced(x, t) = {c} /\ c.object = ValueOf(lines[Max(Said(x, t))])
      OBVIOUS
    <3> HIDE DEF surfaced, latest
    <3> QED
      BY <2>10
  <2> QED
    BY <2>11, <2>12 DEF CurrentSurfaces, given
<1>4. SurfaceInv => CurrentSurfaces
  BY <1>3 DEF CurrentSurfaces
<1> QED
  BY <1>1, <1>2, <1>4, PTL DEF Spec

-----------------------------------------------------------------------------
(* A package: what a signature and an accepted archive are.                *)

\* A genuine envelope was made with the key of its signer's file, which names
\* that signer and has that key's fingerprint.
LEMMA EnvelopeGenuine ==
  ASSUME NEW e, NEW signers, NEW digest, CheckEnvelope(e, signers, digest) = "OK"
  PROVE  /\ e.signer_id \in DOMAIN signers
         /\ signers[e.signer_id].signer_id = e.signer_id
         /\ signers[e.signer_id].fingerprint = Sha256(signers[e.signer_id].public_key)
         /\ e.signature = Signature(e.algorithm, signers[e.signer_id].public_key, digest)
BY DEF CheckEnvelope, SignerParses, HMACVerify, Ed25519Verify, VerifierRules, Genuine, Registry

\* A package whose signatures are found good has only genuine ones.
LEMMA AllGenuine ==
  ASSUME NEW envelopes, NEW S, envelopes \in Seq(S), NEW signers, NEW manifest,
         CheckSignatures(envelopes, signers, manifest) = "OK"
  PROVE  \A k \in DOMAIN envelopes : CheckEnvelope(envelopes[k], signers, PackageHash(manifest)) = "OK"
<1> DEFINE code(k) == CheckEnvelope(envelopes[k], signers, PackageHash(manifest))
           bad     == {k \in DOMAIN envelopes : code(k) # "OK"}
           first   == CHOOSE k \in bad : \A j \in bad : k <= j
<1>1. SUFFICES ASSUME bad # {}  PROVE FALSE
  OBVIOUS
<1>2. bad \subseteq Nat
  OBVIOUS
<1>3. first \in bad
  BY <1>1, <1>2, FirstOfSome
<1>4. code(first) # "OK"
  BY <1>3
<1>5. code(first) = "OK"
  BY <1>1 DEF CheckSignatures
<1> QED
  BY <1>4, <1>5

\* What a package that verify_package accepts has passed.
LEMMA AcceptedPassed ==
  ASSUME NEW package, NEW signed, VerifyPackage(package, signed, FALSE) = "OK"
  PROVE  /\ Manifest \in DOMAIN package.tree /\ Events \in DOMAIN package.tree
         /\ ValidPackage(package.tree[Manifest], package.tree[Events])
         /\ PathsOK(package.tree[Manifest])
         /\ HashesOK(package.tree[Manifest], package.tree)
         /\ FilesetOK(package.tree[Manifest], package.tree)
         /\ signed => Signed \in DOMAIN package.tree
         /\ Signed \in DOMAIN package.tree =>
              CheckSignatures(package.tree[Signed], SignerFiles(package.tree), package.tree[Manifest])
                = "OK"
<1>1. Verify(package.tree) = "OK"
  BY DEF VerifyPackage
<1>2. /\ Manifest \in DOMAIN package.tree /\ Events \in DOMAIN package.tree
      /\ Checked(package.tree, package.tree[Manifest], package.tree[Events]) = "OK"
  BY <1>1 DEF Verify
<1>3. /\ signed => Signed \in DOMAIN package.tree
      /\ Signed \in DOMAIN package.tree =>
           CheckSignatures(package.tree[Signed], SignerFiles(package.tree), package.tree[Manifest])
             = "OK"
  BY <1>1 DEF VerifyPackage
<1> QED
  BY <1>2, <1>3 DEF Checked

\* The hashes an accepted manifest declares are those of the claim files.
LEMMA DeclaredIsHeld ==
  ASSUME NEW tree, PathsOK(tree[Manifest]), HashesOK(tree[Manifest], tree)
  PROVE  PackageHash(tree[Manifest]) = Held(tree)
<1>1. \A c \in tree[Manifest].claims : c.hash = Sha256(tree[ClaimFile(c.id)])
  BY DEF PathsOK, HashesOK
<1>2. {<<c.id, c.inst, c.hash>> : c \in tree[Manifest].claims}
        = {<<c.id, c.inst, Sha256(tree[ClaimFile(c.id)])>> : c \in tree[Manifest].claims}
  BY <1>1
<1> QED
  BY <1>2 DEF PackageHash, Held

-----------------------------------------------------------------------------
(* What the trees of a life are made of.                                   *)

\* The directory, the archive and the archives to be written are trees, and a
\* job is being written only while there is one.
TreesOK ==
  /\ IsTree(dir)
  /\ archive = Nothing \/ (/\ archive = [tree |-> archive.tree, cut |-> archive.cut, of |-> archive.of]
                         /\ IsTree(archive.tree))
  /\ job = [p \in Signer \cup {Packer} |-> job[p]]
  /\ \A p \in Signer \cup {Packer} : job[p] = Nothing \/ IsTree(job[p].tree)
  /\ writer = Nothing \/ (writer \in Signer \cup {Packer} /\ job[writer] # Nothing)
  /\ now \in Nat

\* The lines of a file are a sequence of what they are.
LEMMA LinesOf ==
  ASSUME NEW S, NEW x \in Seq(S)
  PROVE  IsLines(x)
<1>1. x \in [1 .. Len(x) -> ToSet(x)]
  BY DEF ToSet
<1> QED
  BY <1>1, SeqDef DEF IsLines

\* A tree with another file put in it is one.
LEMMA WithFile ==
  ASSUME NEW t, IsTree(t), NEW n, NEW x, IsName(n),
         n = Manifest => IsManifest(x), n = Events => IsEvents(x), n = Signed => IsSignatures(x)
  PROVE  IsTree(With(t, n, x))
<1> DEFINE new == With(t, n, x)
<1>1. /\ DOMAIN new = DOMAIN t \cup {n} /\ new[n] = x
      /\ \A m \in DOMAIN t \ {n} : new[m] = t[m]
      /\ new = [m \in DOMAIN new |-> new[m]]
  BY DEF With
<1>2. SUFFICES IsTree(new)
  OBVIOUS
<1> HIDE DEF new
<1>3. \A m \in DOMAIN new : IsName(m)
  BY <1>1 DEF IsTree
<1>4. Manifest \in DOMAIN new => IsManifest(new[Manifest])
  BY <1>1 DEF IsTree
<1>5. Signed \in DOMAIN new => IsSignatures(new[Signed])
  BY <1>1 DEF IsTree
<1>6. Events \in DOMAIN new => IsEvents(new[Events])
  BY <1>1 DEF IsTree
<1>7. IsFiniteSet(DOMAIN new)
  BY <1>1, FS_AddElement DEF IsTree
<1> QED
  BY <1>1, <1>3, <1>4, <1>5, <1>6, <1>7 DEF IsTree

\* What an entry and a manifest with one field replaced are.
LEMMA HashReplaced ==
  ASSUME NEW c, IsEntry(c), NEW h
  PROVE  [c EXCEPT !.hash = h]
           = [id |-> c.id, inst |-> c.inst, hash |-> h, path |-> c.path, state |-> c.state]
<1>1. [c EXCEPT !.hash = h] = [f \in DOMAIN c |-> IF f = "hash" THEN h ELSE c[f]]
  OBVIOUS
<1>2. [f \in DOMAIN c |-> IF f = "hash" THEN h ELSE c[f]]
        = [id |-> c.id, inst |-> c.inst, hash |-> h, path |-> c.path, state |-> c.state]
  BY DEF IsEntry
<1> QED
  BY <1>1, <1>2

LEMMA ManifestReplaced ==
  ASSUME NEW m, IsManifest(m), m # Junk, NEW C, NEW F
  PROVE  /\ [m EXCEPT !.claims = C]
              = [format |-> m.format, package |-> m.package, claims |-> C]
         /\ [m EXCEPT !.format = F]
              = [format |-> F, package |-> m.package, claims |-> m.claims]
<1>1. /\ [m EXCEPT !.claims = C] = [f \in DOMAIN m |-> IF f = "claims" THEN C ELSE m[f]]
      /\ [m EXCEPT !.format = F] = [f \in DOMAIN m |-> IF f = "format" THEN F ELSE m[f]]
  OBVIOUS
<1>2. /\ [f \in DOMAIN m |-> IF f = "claims" THEN C ELSE m[f]]
            = [format |-> m.format, package |-> m.package, claims |-> C]
      /\ [f \in DOMAIN m |-> IF f = "format" THEN F ELSE m[f]]
            = [format |-> F, package |-> m.package, claims |-> m.claims]
  BY DEF IsManifest
<1> QED
  BY <1>1, <1>2

\* A part of a tree is one.
LEMMA PartOfTree ==
  ASSUME NEW t, IsTree(t), NEW N
  PROVE  IsTree(Only(t, N))
<1>1. IsFiniteSet(DOMAIN t \cap N)
  BY FS_Intersection DEF IsTree
<1> QED
  BY <1>1 DEF IsTree, Only

\* No files are a tree.
LEMMA EmptyTree == IsTree(<<>>)
BY FS_EmptySet DEF IsTree

\* The names that are written are names of files.
LEMMA NamesAre ==
  /\ \A n \in {Notice, Manifest, Events, Signed} : IsName(n)
  /\ \A i : IsName(ClaimFile(i)) /\ IsName(SignerFile(i))
  /\ \A n : IsStray(n) => IsName(n)
  /\ Manifest # Signed /\ Events \notin {Manifest, Signed} /\ Notice \notin {Manifest, Events, Signed}
  /\ \A i : {ClaimFile(i), SignerFile(i)} \cap {Notice, Manifest, Events, Signed} = {}
  /\ \A i, j : ClaimFile(i) # SignerFile(j)
BY DEF IsName, IsStray, Stray, ClaimFile, SignerFile, Notice, Manifest, Events, Signed, Name

\* A manifest hashed anew.
LEMMA RehashedIs ==
  ASSUME NEW t, IsTree(t), Manifest \in DOMAIN t, t[Manifest] # Junk
  PROVE  /\ Rehashed(t) =
              [format |-> t[Manifest].format, package |-> t[Manifest].package,
               claims |-> {[id |-> c.id, inst |-> c.inst, hash |-> Sha256(t[ClaimFile(c.path)]),
                            path |-> c.path, state |-> c.state] : c \in t[Manifest].claims}]
         /\ IsManifest(Rehashed(t))
<1> DEFINE m == t[Manifest]
           hashed(c) == [c EXCEPT !.hash = Sha256(t[ClaimFile(c.path)])]
           entry(c) == [id |-> c.id, inst |-> c.inst, hash |-> Sha256(t[ClaimFile(c.path)]),
                        path |-> c.path, state |-> c.state]
           old == {hashed(c) : c \in m.claims}
           new == {entry(c) : c \in m.claims}
<1>1. IsManifest(m) /\ \A c \in m.claims : IsEntry(c)
  BY DEF IsTree, IsManifest
<1>2. \A c \in m.claims : hashed(c) = entry(c)
  BY <1>1, HashReplaced
<1>3. old = new
  <2> HIDE DEF hashed, entry
  <2> QED
    BY <1>2
<1>4. Rehashed(t) = [m EXCEPT !.claims = old]
  BY DEF Rehashed
<1>5. Rehashed(t) = [format |-> m.format, package |-> m.package, claims |-> new]
  <2> HIDE DEF old, new, m
  <2> QED
    BY <1>1, <1>3, <1>4, ManifestReplaced DEF m
<1>6. \A c \in new : IsEntry(c)
  BY DEF IsEntry
<1>7. IsManifest([format |-> m.format, package |-> m.package, claims |-> new])
  <2> HIDE DEF new, m
  <2> QED
    BY <1>6 DEF IsManifest
<1> QED
  BY <1>5, <1>7

\* What pack writes is a tree.
LEMMA PackedTree ==
  ASSUME NEW t, IsTree(t), PackCheck(t) = "OK"
  PROVE  IsTree(Packed(t))
<1>1. Manifest \in DOMAIN t /\ t[Manifest] # Junk
  BY DEF PackCheck, ValidPackage, ManifestOK
<1> QED
  BY <1>1, RehashedIs, PartOfTree, WithFile, NamesAre DEF Packed

\* The lines x with e among them, behind the first b.
Inserted(w, x, e, b) ==
  /\ IsLines(w) /\ Len(w) = Len(x) + 1 /\ w[b + 1] = e
  /\ \A k \in 1 .. b : w[k] = x[k]
  /\ \A k \in b + 1 .. Len(x) : w[k + 1] = x[k]

\* A line put behind as many others as there are in P.
LEMMA LineInserted ==
  ASSUME NEW x, IsLines(x), NEW e, NEW P, P \subseteq DOMAIN x
  PROVE  /\ Len(x) \in Nat /\ DOMAIN x = 1 .. Len(x)
         /\ Cardinality(P) \in 0 .. Len(x)
         /\ Inserted(SubSeq(x, 1, Cardinality(P)) \o <<e>>
                       \o SubSeq(x, Cardinality(P) + 1, Len(x)), x, e, Cardinality(P))
<1> DEFINE S == ToSet(x) \cup {e}
           before == Cardinality(P)
           first == SubSeq(x, 1, before)
           rest  == SubSeq(x, before + 1, Len(x))
           w     == first \o <<e>> \o rest
<1>1. x \in Seq(S) /\ Len(x) \in Nat /\ DOMAIN x = 1 .. Len(x)
  BY SeqDef DEF IsLines
<1>2. before \in Nat /\ before <= Len(x)
  <2>1. IsFiniteSet(1 .. Len(x)) /\ Cardinality(1 .. Len(x)) = Len(x)
    <3>1. ASSUME NEW n \in Nat  PROVE IsFiniteSet(1 .. n) /\ Cardinality(1 .. n) = n
      <4>1. 1 \in Int /\ n \in Int /\ (IF 1 > n THEN 0 ELSE n - 1 + 1) = n
        OBVIOUS
      <4> QED
        BY <4>1, FS_Interval
    <3> QED
      BY <1>1, <3>1
  <2>2. P \in SUBSET (1 .. Len(x))
    BY <1>1
  <2> QED
    BY <2>1, <2>2, FS_Subset, FS_CardinalityType
<1> HIDE DEF before
<1>3. first \in Seq(S) /\ rest \in Seq(S)
  <2>1. \A i \in 1 .. Len(x) : x[i] \in S
    BY <1>1
  <2> HIDE DEF S
  <2>2. before \in Int /\ before + 1 \in Int /\ Len(x) \in Int /\ 1 \in Int
    BY <1>1, <1>2
  <2>3. \A i \in 1 .. before : x[i] \in S
    BY <1>1, <1>2, <2>1
  <2>4. \A i \in before + 1 .. Len(x) : x[i] \in S
    BY <1>1, <1>2, <2>1
  <2> QED
    BY <2>2, <2>3, <2>4, SubSeqProperties
<1>4. /\ Len(first) = before /\ Len(rest) = Len(x) - before
      /\ \A k \in 1 .. before : first[k] = x[k]
      /\ \A k \in 1 .. Len(x) - before : rest[k] = x[before + k]
  <2> HIDE DEF S
  <2>1. \A i \in 1 .. Len(x) : x[i] \in S
    BY <1>1
  <2>2. before \in Int /\ before + 1 \in Int /\ Len(x) \in Int /\ 1 \in Int
    BY <1>1, <1>2
  <2>3. /\ \A i \in 1 .. before : x[i] \in S
        /\ \A i \in before + 1 .. Len(x) : x[i] \in S
    BY <1>1, <1>2, <2>1
  <2>4. Len(first) = before /\ \A k \in 1 .. before : first[k] = x[k]
    BY <1>1, <1>2, <2>2, <2>3, SubSeqProperties
  <2>5. /\ Len(rest) = Len(x) - before
        /\ \A k \in 1 .. Len(x) - before : rest[k] = x[before + k]
    <3>1. /\ Len(rest) = IF before + 1 <= Len(x) THEN Len(x) - (before + 1) + 1 ELSE 0
          /\ \A k \in 1 .. Len(x) - (before + 1) + 1 : rest[k] = x[before + 1 + k - 1]
      BY <2>2, <2>3, SubSeqProperties
    <3> HIDE DEF rest
    <3>2. Len(x) - (before + 1) + 1 = Len(x) - before
      BY <1>1, <1>2
    <3>3. Len(rest) = Len(x) - before
      <4>1. CASE before + 1 <= Len(x)
        BY <3>1, <3>2, <4>1
      <4>2. CASE before = Len(x)
        <5>1. ~ (before + 1 <= Len(x)) /\ Len(x) - before = 0
          BY <1>1, <1>2, <4>2
        <5> QED
          BY <3>1, <5>1
      <4>3. before + 1 <= Len(x) \/ before = Len(x)
        <5>1. Len(x) \in Nat
          BY <1>1
        <5> QED
          BY <1>2, <5>1
      <4> QED
        BY <4>1, <4>2, <4>3
    <3>4. ASSUME NEW k \in 1 .. Len(x) - before
          PROVE  rest[k] = x[before + k]
      <4>1. before + 1 + k - 1 = before + k
        BY <1>1, <1>2
      <4>2. rest[k] = x[before + 1 + k - 1]
        BY <3>1, <3>2, <3>4
      <4> QED
        BY <4>1, <4>2
    <3> QED
      BY <3>3, <3>4
  <2> QED
    BY <2>4, <2>5
<1>5. w = first \o <<e>> \o rest
  OBVIOUS
<1>6. first \o <<e>> \in Seq(S) /\ Len(first \o <<e>>) = before + 1
      /\ (first \o <<e>>)[before + 1] = e
      /\ \A k \in 1 .. before : (first \o <<e>>)[k] = x[k]
  <2>1. e \in S
    OBVIOUS
  <2> HIDE DEF first, rest, S
  <2> QED
    BY <1>2, <1>3, <1>4, <2>1
<1>7. /\ w \in Seq(S) /\ Len(w) = Len(x) + 1 /\ w[before + 1] = e
      /\ \A k \in 1 .. before : w[k] = x[k]
      /\ \A k \in before + 1 .. Len(x) : w[k + 1] = x[k]
  <2> DEFINE start == first \o <<e>>
  <2>1. w = start \o rest /\ start \in Seq(S) /\ rest \in Seq(S)
        /\ Len(start) = before + 1 /\ Len(rest) = Len(x) - before
    BY <1>3, <1>4, <1>5, <1>6
  <2>2. /\ \A k \in 1 .. before : start[k] = x[k]
        /\ start[before + 1] = e
        /\ \A k \in 1 .. Len(x) - before : rest[k] = x[before + k]
    BY <1>4, <1>6
  <2> HIDE DEF start, rest, first, S, w
  <2>3. /\ w \in Seq(S) /\ Len(w) = Len(x) + 1
        /\ \A k \in 1 .. before + 1 : w[k] = start[k]
        /\ \A k \in 1 .. Len(x) - before : w[before + 1 + k] = rest[k]
    BY <1>1, <1>2, <2>1
  <2>4. \A k \in before + 1 .. Len(x) : w[k + 1] = x[k]
    <3>1. SUFFICES ASSUME NEW k \in before + 1 .. Len(x)
                   PROVE  w[k + 1] = x[k]
      OBVIOUS
    <3>2. k - before \in 1 .. Len(x) - before /\ before + 1 + (k - before) = k + 1
          /\ before + (k - before) = k
      BY <1>1, <1>2, <3>1
    <3> QED
      BY <2>2, <2>3, <3>2
  <2> QED
    BY <1>2, <2>2, <2>3, <2>4
<1>8. before = Cardinality(P) /\ before \in 0 .. Len(x)
  BY <1>1, <1>2 DEF before
<1>9. w = SubSeq(x, 1, Cardinality(P)) \o <<e>> \o SubSeq(x, Cardinality(P) + 1, Len(x))
  BY DEF before
<1> HIDE DEF w, S
<1>10. Inserted(w, x, e, before)
  BY <1>7, LinesOf DEF Inserted
<1> QED
  BY <1>1, <1>8, <1>9, <1>10

\* The lines an envelope is written behind.
Preceding(x, e) == {k \in DOMAIN x : ~SortsAfter(x[k], e)}

\* write_signatures_jsonl puts the new line among the others.
LEMMA LinesWritten ==
  ASSUME NEW x, IsLines(x), NEW e
  PROVE  /\ Len(x) \in Nat /\ DOMAIN x = 1 .. Len(x)
         /\ Cardinality(Preceding(x, e)) \in 0 .. Len(x)
         /\ Inserted(WriteSignatures(x, e), x, e, Cardinality(Preceding(x, e)))
<1> DEFINE P == Preceding(x, e)
<1>1. P \subseteq DOMAIN x
  BY DEF Preceding
<1>2. WriteSignatures(x, e) = SubSeq(x, 1, Cardinality(P)) \o <<e>>
                                \o SubSeq(x, Cardinality(P) + 1, Len(x))
  BY DEF WriteSignatures, Preceding
<1> HIDE DEF P
<1> QED
  BY <1>1, <1>2, LineInserted DEF P

\* The envelopes of a file with one more.
LEMMA SignaturesWritten ==
  ASSUME NEW x, IsSignatures(x), NEW e, e.signer_id \in Nat, e.signed_at \in Nat
  PROVE  IsSignatures(WriteSignatures(x, e))
<1> DEFINE w == WriteSignatures(x, e)
<1>1. PICK b \in 0 .. Len(x) : Inserted(w, x, e, b) /\ Len(x) \in Nat /\ DOMAIN x = 1 .. Len(x)
  BY LinesWritten DEF IsSignatures
<1> HIDE DEF w
<1>2. DOMAIN w = 1 .. Len(x) + 1
  BY <1>1 DEF Inserted, IsLines
<1>3. \A k \in 1 .. Len(x) : x[k] = Junk \/ (x[k].signer_id \in Nat /\ x[k].signed_at \in Nat)
  BY <1>1 DEF IsSignatures
<1>4. ASSUME NEW k \in 1 .. Len(x) + 1
      PROVE  w[k] = Junk \/ (w[k].signer_id \in Nat /\ w[k].signed_at \in Nat)
  <2>1. CASE k <= b
    BY <1>1, <1>3, <2>1 DEF Inserted
  <2>2. CASE k = b + 1
    BY <1>1, <2>2 DEF Inserted
  <2>3. CASE k > b + 1
    <3>1. k - 1 \in b + 1 .. Len(x) /\ (k - 1) + 1 = k /\ k - 1 \in 1 .. Len(x)
      BY <1>1, <2>3
    <3>2. w[k] = x[k - 1]
      BY <1>1, <3>1 DEF Inserted
    <3> QED
      BY <1>3, <3>1, <3>2
  <2> QED
    BY <1>1, <2>1, <2>2, <2>3
<1> QED
  BY <1>1, <1>2, <1>4 DEF IsSignatures, w, Inserted

\* No lines are lines, events and envelopes.
LEMMA NoLines == IsLines(<<>>) /\ IsEvents(<<>>) /\ IsSignatures(<<>>) /\ Len(<<>>) = 0
<1>1. <<>> \in Seq({}) /\ DOMAIN <<>> = {} /\ Len(<<>>) = 0
  OBVIOUS
<1>2. IsLines(<<>>)
  BY <1>1, LinesOf
<1> QED
  BY <1>1, <1>2 DEF IsSignatures, IsEvents

\* What sign writes is a tree.
LEMMA SignedTree ==
  ASSUME NEW t, IsTree(t), NEW s \in Nat, NEW algorithm, NEW k, NEW at \in Nat
  PROVE  IsTree(WithSignature(t, s, algorithm, k, at))
<1> DEFINE envelopes == IF Signed \in DOMAIN t THEN t[Signed] ELSE <<>>
           own   == SignedEnvelope(s, algorithm, k, at, PackageHash(t[Manifest]))
           filed  == With(t, SignerFile(s), SignerManifest(s, algorithm, k))
           new   == WriteSignatures(envelopes, own)
<1>1. IsSignatures(envelopes)
  BY NoLines DEF IsTree
<1>2. IsSignatures(new)
  <2>1. own.signer_id \in Nat /\ own.signed_at \in Nat
    BY DEF SignedEnvelope
  <2> HIDE DEF own, envelopes
  <2> QED
    BY <1>1, <2>1, SignaturesWritten
<1>3. IsTree(filed)
  BY WithFile, NamesAre
<1>4. IsTree(With(filed, Signed, new))
  <2> HIDE DEF filed, new
  <2> QED
    BY <1>2, <1>3, WithFile, NamesAre
<1> QED
  BY <1>4 DEF WithSignature

\* The author turns the lines around, or writes one that does not parse.
LEMMA SignaturesEdited ==
  ASSUME NEW x, IsSignatures(x), NEW y \in {Reverse(x), Append(x, Junk)}
  PROVE  IsSignatures(y) /\ \A k \in DOMAIN x : \E j \in DOMAIN y : y[j] = x[k]
<1> DEFINE S == ToSet(x) \cup {Junk}
<1>1. x \in Seq(S) /\ Len(x) \in Nat /\ DOMAIN x = 1 .. Len(x)
      /\ \A k \in 1 .. Len(x) : x[k] = Junk \/ (x[k].signer_id \in Nat /\ x[k].signed_at \in Nat)
  BY SeqDef DEF IsSignatures, IsLines
<1>2. CASE y = Append(x, Junk)
  <2>1. y \in Seq(S) /\ DOMAIN y = 1 .. Len(x) + 1 /\ y[Len(x) + 1] = Junk
        /\ \A k \in 1 .. Len(x) : y[k] = x[k]
    BY <1>1, <1>2
  <2>2. \A k \in 1 .. Len(x) + 1 : k \in 1 .. Len(x) \/ k = Len(x) + 1
    BY <1>1
  <2> QED
    BY <1>1, <2>1, <2>2, LinesOf DEF IsSignatures
<1>3. CASE y = Reverse(x)
  <2>1. y = [k \in 1 .. Len(x) |-> x[(Len(x) - k) + 1]]
    BY <1>3 DEF Reverse
  <2>2. \A k \in 1 .. Len(x) : (Len(x) - k) + 1 \in 1 .. Len(x) /\ (Len(x) - ((Len(x) - k) + 1)) + 1 = k
    BY <1>1
  <2>3. \A k \in 1 .. Len(x) : x[k] \in S
    BY <1>1
  <2> HIDE DEF S
  <2>4. y \in [1 .. Len(x) -> S]
    BY <2>1, <2>2, <2>3
  <2>5. y \in Seq(S) /\ DOMAIN y = 1 .. Len(x)
    BY <1>1, <2>4, SeqDef
  <2>6. \A k \in 1 .. Len(x) : y[(Len(x) - k) + 1] = x[k]
    BY <2>1, <2>2
  <2> QED
    BY <1>1, <2>1, <2>2, <2>5, <2>6, LinesOf DEF IsSignatures
<1> QED
  BY <1>2, <1>3

\* Whatever the author edits stays a tree.
LEMMA EditedTree ==
  ASSUME LifeAssumption, IsTree(dir), NEW t \in Edited
  PROVE  IsTree(t)
<1> DEFINE m == dir[Manifest]
<1>1. ASSUME NEW c, NEW x, t = With(dir, ClaimFile(c.id), x)
      PROVE  IsTree(t)
  BY <1>1, WithFile, NamesAre
<1>2. ASSUME NEW n, t = Only(dir, DOMAIN dir \ {n})
      PROVE  IsTree(t)
  BY <1>2, PartOfTree
<1>3. ASSUME NEW n \in {Notice} \cup Strays, t = With(dir, n, Nothing)
      PROVE  IsTree(t)
  <2>1. IsName(n)
    BY NamesAre DEF LifeAssumption
  <2>2. n \notin {Manifest, Events, Signed}
    <3>1. CASE n = Notice
      BY <3>1, NamesAre
    <3>2. CASE n \in Strays
      <4>1. n.kind = "stray"
        BY <3>2 DEF LifeAssumption, IsStray, Stray
      <4> QED
        BY <4>1 DEF Manifest, Events, Signed, Name
    <3> QED
      BY <3>1, <3>2
  <2> QED
    BY <1>3, <2>1, <2>2, WithFile
<1>4. ASSUME NEW e \in Entries, Manifest \in DOMAIN dir, m # Junk,
             t = With(dir, Manifest, EntryPut(m, e))
      PROVE  IsTree(t)
  <2> DEFINE claims == {c \in m.claims : c.id # e.id} \cup {e}
             new == EntryPut(m, e)
  <2>1. IsManifest(m) /\ IsEntry(e) /\ \A c \in claims : IsEntry(c)
    BY <1>4 DEF IsTree, IsManifest, LifeAssumption
  <2>2. IsManifest(new)
    <3>1. EntryPut(m, e) = [m EXCEPT !.claims = claims]
      BY DEF EntryPut
    <3> HIDE DEF new, claims
    <3>2. new = [format |-> m.format, package |-> m.package, claims |-> claims]
      BY <1>4, <2>1, <3>1, ManifestReplaced DEF new
    <3> QED
      BY <2>1, <3>2 DEF IsManifest
  <2>3. t = With(dir, Manifest, new)
    BY <1>4
  <2> HIDE DEF new
  <2> QED
    BY <2>2, <2>3, WithFile, NamesAre
<1>5. ASSUME Manifest \in DOMAIN dir, m # Junk,
             t = With(dir, Manifest, Later(m))
      PROVE  IsTree(t)
  <2> DEFINE new == Later(m)
  <2>1. IsManifest(m)
    BY <1>5 DEF IsTree
  <2>2. IsManifest(new)
    <3>1. new = [format |-> "2.minor", package |-> m.package, claims |-> m.claims]
      BY <1>5, <2>1, ManifestReplaced DEF Later
    <3> HIDE DEF new
    <3> QED
      BY <1>5, <2>1, <3>1 DEF IsManifest
  <2>3. t = With(dir, Manifest, new)
    BY <1>5
  <2> HIDE DEF new
  <2> QED
    BY <2>2, <2>3, WithFile, NamesAre
<1>6. ASSUME Events \in DOMAIN dir, NEW e \in EventLines,
             t = With(dir, Events, Append(dir[Events], e))
      PROVE  IsTree(t)
  <2> DEFINE y == dir[Events]
             x == Append(y, e)
             S == ToSet(y) \cup {e}
  <2>1. y \in Seq(S) /\ \A k \in DOMAIN y : IsEvent(y[k])
    BY <1>6, SeqDef DEF IsTree, IsEvents, IsLines
  <2>2. x \in Seq(S) /\ \A k \in DOMAIN x : (k \in DOMAIN y /\ x[k] = y[k]) \/ x[k] = e
    BY <2>1
  <2>3. IsEvent(e)
    BY DEF LifeAssumption
  <2> HIDE DEF x, y
  <2>4. IsEvents(x)
    BY <2>1, <2>2, <2>3, LinesOf DEF IsEvents
  <2> QED
    BY <1>6, <2>4, WithFile, NamesAre DEF x, y
<1>7. ASSUME Signed \in DOMAIN dir, NEW x \in {Reverse(dir[Signed]), Append(dir[Signed], Junk)},
             t = With(dir, Signed, x)
      PROVE  IsTree(t)
  <2>1. IsSignatures(dir[Signed])
    BY <1>7 DEF IsTree
  <2>2. IsSignatures(x)
    BY <1>7, <2>1, SignaturesEdited
  <2> QED
    BY <1>7, <2>2, WithFile, NamesAre
<1>8. ASSUME NEW s, NEW x, t = With(dir, SignerFile(s), x)
      PROVE  IsTree(t)
  BY <1>8, WithFile, NamesAre
<1>9. \/ \E c, x : t = With(dir, ClaimFile(c.id), x)
      \/ \E n : t = Only(dir, DOMAIN dir \ {n})
      \/ \E n \in {Notice} \cup Strays : t = With(dir, n, Nothing)
      \/ /\ Manifest \in DOMAIN dir /\ m # Junk
         /\ \/ \E e \in Entries : t = With(dir, Manifest, EntryPut(m, e))
            \/ t = With(dir, Manifest, Later(m))
      \/ /\ Events \in DOMAIN dir
         /\ \E e \in EventLines : t = With(dir, Events, Append(dir[Events], e))
      \/ /\ Signed \in DOMAIN dir
         /\ \E x \in {Reverse(dir[Signed]), Append(dir[Signed], Junk)} : t = With(dir, Signed, x)
      \/ \E s, x : t = With(dir, SignerFile(s), x)
  BY DEF Edited
<1> HIDE DEF m
<1> QED
  BY <1>1, <1>2, <1>3, <1>4, <1>5, <1>6, <1>7, <1>8, <1>9

LEMMA TreesInit == LifeAssumption /\ LifeInit => TreesOK
BY DEF LifeAssumption, LifeInit, TreesOK

LEMMA TreesStep ==
  ASSUME LifeAssumption, TreesOK, [LifeNext]_life
  PROVE  TreesOK'
<1> USE DEF TreesOK
<1>1. CASE \E force, confirmed \in BOOLEAN : InitManifest(force, confirmed)
  <2>1. \A id : IsManifest(Skeleton(id))
    BY DEF IsManifest, Skeleton
  <2>2. IsManifest(Junk)
    BY DEF IsManifest
  <2>3. IsTree(dir')
    <3>1. PICK force, confirmed \in BOOLEAN : InitManifest(force, confirmed)
      BY <1>1
    <3>2. \/ dir' = With(dir, Manifest, Skeleton(edits'))
          \/ dir' = With(dir, Manifest, Junk)
      BY <3>1 DEF InitManifest
    <3> QED
      BY <2>1, <2>2, <3>2, WithFile, NamesAre
  <2> QED
    BY <1>1, <2>3 DEF InitManifest
<1>2. CASE InitProvenance
  <2>1. IsTree(dir')
    BY <1>2, WithFile, NamesAre, NoLines DEF InitProvenance
  <2> QED
    BY <1>2, <2>1 DEF InitProvenance
<1>3. CASE Author
  <2>1. IsTree(dir')
    BY <1>3, EditedTree DEF Author
  <2> QED
    BY <1>3, <2>1 DEF Author
<1>4. CASE NewDirectory
  BY <1>4, EmptyTree DEF NewDirectory
<1>5. CASE (\E s \in Signer : ChangeKey(s)) \/ Tick
  BY <1>5 DEF ChangeKey, Tick
<1>6. CASE Pack
  <2>1. IsTree(Packed(dir))
    BY <1>6, PackedTree DEF Pack
  <2> QED
    BY <1>6, <2>1 DEF Pack
<1>7. CASE OtherTool
  BY <1>7 DEF OtherTool
<1>8. CASE \E s \in Signer : Sign(s)
  <2>1. PICK s \in Signer : Sign(s)
    BY <1>8
  <2> DEFINE signed == WithSignature(archive.tree, s, Uses[s], key[s], now)
             made   == [base |-> archive, tree |-> signed, of |-> Atop(signed, archive.of)]
  <2>2. IsTree(signed)
    <3>1. s \in Nat /\ now \in Nat /\ IsTree(archive.tree)
      BY <2>1 DEF Sign, LifeAssumption
    <3> QED
      BY <3>1, SignedTree
  <2>3. job' = [job EXCEPT ![s] = made]
    BY <2>1 DEF Sign
  <2>4. made.tree = signed
    OBVIOUS
  <2>5. job'[s] = made /\ \A p \in (Signer \cup {Packer}) \ {s} : job'[p] = job[p]
    BY <2>3
  <2>6. job' = [p \in Signer \cup {Packer} |-> job'[p]]
    BY <2>3
  <2>7. UNCHANGED <<dir, archive, writer, now>> /\ job[s] = Nothing
    BY <2>1 DEF Sign
  <2> HIDE DEF made, signed
  <2> QED
    BY <2>2, <2>4, <2>5, <2>6, <2>7
<1>9. CASE \E p \in DOMAIN job : Write(p)
  <2>1. PICK p \in Signer \cup {Packer} : Write(p)
    BY <1>9
  <2>2. PICK begun \in Beginnings(job[p].tree) :
          archive' = [tree |-> begun.tree, cut |-> begun.cut, of |-> job[p].of]
    BY <2>1 DEF Write
  <2>3. IsTree(job[p].tree) /\ job[p] # Nothing
    BY <2>1 DEF Write
  <2>4. IsTree(begun.tree)
    <3>1. \A k : IsTree(Beginning(job[p].tree, k))
      BY <2>3, PartOfTree DEF Beginning
    <3> QED
      BY <3>1, EmptyTree DEF Beginnings
  <2>5. writer' = p /\ UNCHANGED <<dir, job, now>>
    BY <2>1 DEF Write
  <2> QED
    BY <2>2, <2>3, <2>4, <2>5
<1>10. CASE Written
  <2>1. /\ IsTree(job[writer].tree)
        /\ archive' = [tree |-> job[writer].tree, cut |-> "none", of |-> archive.of]
        /\ job' = [job EXCEPT ![writer] = Nothing] /\ writer' = Nothing /\ dir' = dir /\ now' = now
    BY <1>10 DEF Written
  <2> QED
    BY <2>1
<1>11. CASE \E p \in DOMAIN job : Kill(p)
  BY <1>11 DEF Kill
<1>12. CASE Unpack
  BY <1>12 DEF Unpack
<1>13. CASE UNCHANGED life
  BY <1>13 DEF life
<1> QED
  BY <1>1, <1>2, <1>3, <1>4, <1>5, <1>6, <1>7, <1>8, <1>9, <1>10, <1>11, <1>12, <1>13
     DEF LifeNext, Resting

\* Every directory, archive and job of a life is a tree of known files, with
\* one manifest and a sequence of signatures.
THEOREM TreesAreTrees ==
  ASSUME LifeAssumption
  PROVE  LifeSpec => []TreesOK
<1>1. LifeInit => TreesOK
  BY TreesInit
<1>2. TreesOK /\ [LifeNext]_life => TreesOK'
  BY TreesStep
<1> QED
  BY <1>1, <1>2, PTL DEF LifeSpec

-----------------------------------------------------------------------------
(* What a signature and an attestation are worth.                          *)

\* The signatures of an accepted archive are genuine, each under the key of
\* its signer's file and over what the archive holds.
LEMMA AcceptedGenuine ==
  ASSUME TreesOK, NEW signed, Accepts(archive, signed), Signed \in DOMAIN archive.tree,
         NEW k \in DOMAIN archive.tree[Signed]
  PROVE  LET e    == archive.tree[Signed][k]
             signer == archive.tree[SignerFile(e.signer_id)]
         IN  /\ signer.signer_id = e.signer_id
             /\ signer.fingerprint = Sha256(signer.public_key)
             /\ e.signature = Signature(e.algorithm, signer.public_key, Held(archive.tree))
<1> DEFINE tree  == archive.tree
           envelopes == tree[Signed]
           e     == envelopes[k]
           signers == SignerFiles(tree)
<1>1. VerifyPackage(archive, signed, FALSE) = "OK" /\ IsTree(tree)
  BY DEF Accepts, TreesOK
<1>2. /\ PathsOK(tree[Manifest]) /\ HashesOK(tree[Manifest], tree)
      /\ CheckSignatures(envelopes, signers, tree[Manifest]) = "OK"
  BY <1>1, AcceptedPassed
<1>3. envelopes \in Seq(ToSet(envelopes))
  BY <1>1 DEF IsTree, IsSignatures, IsLines
<1>4. CheckEnvelope(e, signers, Held(tree)) = "OK"
  BY <1>2, <1>3, AllGenuine, DeclaredIsHeld
<1>5. /\ e.signer_id \in DOMAIN signers
      /\ signers[e.signer_id].signer_id = e.signer_id
      /\ signers[e.signer_id].fingerprint = Sha256(signers[e.signer_id].public_key)
      /\ e.signature = Signature(e.algorithm, signers[e.signer_id].public_key, Held(tree))
  BY <1>4, EnvelopeGenuine
<1>6. signers[e.signer_id] = tree[SignerFile(e.signer_id)]
  BY <1>5 DEF SignerFiles
<1> QED
  BY <1>5, <1>6

\* Whatever is edited, packed by whom, signed, killed and unpacked, every
\* envelope of an accepted package is over the claim files it has.
THEOREM SignedIsHeld ==
  ASSUME LifeAssumption
  PROVE  LifeSpec => []VouchedContent
<1>1. TreesOK => VouchedContent
  BY AcceptedGenuine DEF VouchedContent
<1> QED
  BY <1>1, TreesAreTrees, PTL

\* An attestation found good was issued, by the key of that notary, for this
\* signer and this fingerprint.
LEMMA AttestationBinds ==
  ASSUME NEW manifest, NEW line, NEW notary,
         ResolveAttestation(manifest, line, notary) = "verified-by-notary"
  PROVE  line.signature = Signature(notary.algorithm, notary.public_key,
           AttestationHash(manifest.signer_id, notary.signer_id, manifest.fingerprint))
<1>1. /\ line.signer_id = manifest.signer_id
      /\ line.fingerprint = manifest.fingerprint
      /\ line.notary_id = notary.signer_id
      /\ AttestationSigned(notary,
           AttestationHash(line.signer_id, line.notary_id, line.fingerprint), line.signature)
             = "verified-by-notary"
  BY DEF ResolveAttestation
<1> QED
  BY <1>1 DEF AttestationSigned, Genuine

\* A signature and an attestation that are both found good are about one key.
THEOREM AttestedIsSigner ==
  ASSUME LifeAssumption
  PROVE  LifeSpec => []NotaryBound
<1>1. ASSUME TreesOK, Accepts(archive, TRUE), NEW k \in DOMAIN archive.tree[Signed],
             NEW g \in Registry, NEW n \in RawKey, NEW a,
             ResolveAttestation(archive.tree[SignerFile(archive.tree[Signed][k].signer_id)], a,
                                SignerManifest(Packer, g, n)) = "verified-by-notary"
      PROVE  a.signature = Signature(g, n, AttestationHash(archive.tree[Signed][k].signer_id, Packer,
                                       Sha256(archive.tree[Signed][k].signature.by)))
  <2> DEFINE e      == archive.tree[Signed][k]
             signer   == archive.tree[SignerFile(e.signer_id)]
             notary == SignerManifest(Packer, g, n)
  <2>1. Signed \in DOMAIN archive.tree
    BY <1>1, AcceptedPassed DEF Accepts
  <2>2. /\ signer.signer_id = e.signer_id
        /\ signer.fingerprint = Sha256(signer.public_key)
        /\ e.signature = Signature(e.algorithm, signer.public_key, Held(archive.tree))
    BY <1>1, <2>1, AcceptedGenuine
  <2>3. e.signature.by = signer.public_key
    BY <2>2 DEF Signature
  <2>4. notary.algorithm = g /\ notary.public_key = n /\ notary.signer_id = Packer
    BY DEF SignerManifest
  <2>5. a.signature = Signature(notary.algorithm, notary.public_key,
          AttestationHash(signer.signer_id, notary.signer_id, signer.fingerprint))
    BY <1>1, AttestationBinds
  <2> QED
    BY <2>2, <2>3, <2>4, <2>5
<1>2. TreesOK => NotaryBound
  BY <1>1 DEF NotaryBound
<1> QED
  BY <1>2, TreesAreTrees, PTL

-----------------------------------------------------------------------------
(* Packing again.                                                          *)

\* The files of an accepted package that pack knows of are those it takes.
LEMMA AcceptedFiles ==
  ASSUME NEW t, IsTree(t), Manifest \in DOMAIN t, Events \in DOMAIN t,
         HashesOK(t[Manifest], t), FilesetOK(t[Manifest], t),
         NEW n
  PROVE  n \in DOMAIN t /\ PackKnows(n)
           <=> n \in {Manifest} \cup (DOMAIN t \cap
                 ({Notice, Events} \cup {ClaimFile(c.path) : c \in t[Manifest].claims}))
<1>1. CASE n \in {Notice, Manifest, Events, Signed}
  BY <1>1 DEF PackKnows, Notice, Manifest, Events, Signed, ClaimFile, Name
<1>2. CASE n \in DOMAIN t /\ n = ClaimFile(n.of)
  <2>1. n.kind = "claim"
    BY <1>2 DEF ClaimFile, Name
  <2>2. n.of \in {c.path : c \in t[Manifest].claims}
    BY <1>2, <2>1 DEF FilesetOK, FileIds
  <2> QED
    BY <1>2, <2>1, <2>2 DEF PackKnows
<1>3. CASE n = SignerFile(n.of) \/ n.kind = "stray"
  <2>1. n.kind \in {"signer", "stray"}
    BY <1>3 DEF SignerFile, Name
  <2>2. n \notin {Notice, Manifest, Events} /\ \A i : n # ClaimFile(i)
    BY <2>1 DEF Notice, Manifest, Events, ClaimFile, Name
  <2> QED
    BY <2>1, <2>2 DEF PackKnows
<1>4. CASE n \notin DOMAIN t
  BY <1>4
<1> QED
  BY <1>1, <1>2, <1>3, <1>4 DEF IsTree, IsName

\* The hashes of an accepted package are what pack computes.
LEMMA AcceptedHashes ==
  ASSUME NEW t, IsTree(t), Manifest \in DOMAIN t, t[Manifest] # Junk, HashesOK(t[Manifest], t)
  PROVE  Rehashed(t) = t[Manifest]
<1> DEFINE m == t[Manifest]
           entry(c) == [id |-> c.id, inst |-> c.inst, hash |-> Sha256(t[ClaimFile(c.path)]),
                        path |-> c.path, state |-> c.state]
           new == {entry(c) : c \in m.claims}
<1>1. /\ m = [format |-> m.format, package |-> m.package, claims |-> m.claims]
      /\ \A c \in m.claims : IsEntry(c)
  BY DEF IsTree, IsManifest
<1>2. \A c \in m.claims : entry(c) = c
  BY <1>1 DEF HashesOK, IsEntry
<1>3. new = m.claims
  <2> HIDE DEF entry
  <2> QED
    BY <1>2
<1>4. Rehashed(t) = [format |-> m.format, package |-> m.package, claims |-> new]
  BY RehashedIs
<1> HIDE DEF new, m
<1> QED
  BY <1>1, <1>3, <1>4 DEF m

\* A package without some of its files is accepted if it has all its claims.
LEMMA AcceptedPart ==
  ASSUME NEW t, NEW p, Verify(t) = "OK",
         Manifest \in DOMAIN p, p[Manifest] = t[Manifest],
         Events \in DOMAIN p, p[Events] = t[Events],
         \A i : ClaimFile(i) \in DOMAIN t <=> ClaimFile(i) \in DOMAIN p,
         \A i : ClaimFile(i) \in DOMAIN t => p[ClaimFile(i)] = t[ClaimFile(i)],
         FilesetOK(t[Manifest], p)
  PROVE  Verify(p) = "OK"
<1>1. Manifest \in DOMAIN t /\ Events \in DOMAIN t
      /\ Checked(t, t[Manifest], t[Events]) = "OK"
  BY DEF Verify
<1>2. HashesOK(t[Manifest], t)
  BY <1>1 DEF Checked
<1>3. HashesOK(t[Manifest], p)
  BY <1>2 DEF HashesOK
<1>4. Checked(p, t[Manifest], t[Events]) = "OK"
  BY <1>1, <1>3 DEF Checked
<1> QED
  BY <1>4 DEF Verify

\* An accepted package that was unpacked and is packed again is accepted
\* again, with all that pack knows of; signatures and strays are lost.
THEOREM PackedAgain ==
  ASSUME LifeAssumption
  PROVE  LifeSpec => []RoundTrip
<1> DEFINE t == archive.tree
           names == {Notice, Events} \cup {ClaimFile(c.path) : c \in t[Manifest].claims}
           known == {n \in DOMAIN t : PackKnows(n)}
<1>1. ASSUME TreesOK, Accepts(archive, FALSE)
      PROVE  PackCheck(t) = "OK" /\ Verify(Packed(t)) = "OK" /\ Packed(t) = Only(t, known)
  <2>1. /\ IsTree(t) /\ Manifest \in DOMAIN t /\ Events \in DOMAIN t
        /\ ValidPackage(t[Manifest], t[Events]) /\ ManifestOK(t[Manifest])
        /\ PathsOK(t[Manifest]) /\ HashesOK(t[Manifest], t) /\ FilesetOK(t[Manifest], t)
    BY <1>1, AcceptedPassed DEF Accepts, TreesOK, ValidPackage
  <2>2. PackCheck(t) = "OK"
    <3>1. \A c \in t[Manifest].claims : ClaimFile(c.path) \in DOMAIN t
      BY <2>1 DEF HashesOK
    <3>2. \A c, d \in t[Manifest].claims : c.path = d.path => c = d
      BY <2>1 DEF PathsOK, ManifestOK
    <3> QED
      BY <2>1, <3>1, <3>2 DEF PackCheck
  <2>3. Rehashed(t) = t[Manifest]
    BY <2>1, AcceptedHashes DEF ManifestOK
  <2> DEFINE p == Packed(t)
  <2>4. /\ DOMAIN p = {Manifest} \cup (DOMAIN t \cap names)
        /\ p = [n \in DOMAIN p |-> t[n]]
    BY <2>3 DEF Packed, With, Only
  <2>5. DOMAIN p = known
    BY <2>1, <2>4, AcceptedFiles
  <2> HIDE DEF p
  <2>6. p = Only(t, known)
    <3>1. DOMAIN t \cap known = known
      OBVIOUS
    <3> QED
      BY <2>4, <2>5, <3>1 DEF Only
  <2>7. Verify(p) = "OK"
    <3>1. Manifest \in known /\ Events \in known /\ \A i : PackKnows(ClaimFile(i))
      BY <2>1 DEF PackKnows, Manifest, Events, ClaimFile, Name
    <3>2. FileIds(p, "claim") = FileIds(t, "claim")
      BY <2>5 DEF FileIds, PackKnows
    <3>3. FilesetOK(t[Manifest], p)
      BY <2>1, <3>2 DEF FilesetOK
    <3>4. Verify(t) = "OK"
      BY <1>1, AcceptedPassed DEF Accepts, VerifyPackage
    <3> HIDE DEF t
    <3> QED
      BY <2>4, <2>5, <3>1, <3>3, <3>4, AcceptedPart
  <2> QED
    BY <2>2, <2>6, <2>7 DEF p
<1>2. TreesOK => RoundTrip
  BY <1>1 DEF RoundTrip
<1> QED
  BY <1>2, TreesAreTrees, PTL

-----------------------------------------------------------------------------
(* What is made half.                                                      *)

\* t is what there is of a whole: no member that whole has not, and all of
\* those up to the provenance once that is there.
HalfOf(t, whole) ==
  /\ IsTree(whole)
  /\ \A n \in DOMAIN t : n \in DOMAIN whole /\ t[n] = whole[n]
  /\ Events \in DOMAIN t => \A n \in DOMAIN whole \ DOMAIN t : PathBefore(Events, n)

HalvesOK ==
  /\ archive # Nothing => HalfOf(archive.tree, archive.of)
  /\ \A p \in Signer \cup {Packer} : job[p] # Nothing => HalfOf(job[p].tree, job[p].of)
  /\ writer # Nothing => archive.of = job[writer].of
  /\ starting => Manifest \in DOMAIN dir /\ dir[Manifest].claims = {}

\* The kinds of names.
LEMMA KindsAre ==
  /\ Notice.kind = "notice" /\ Manifest.kind = "manifest" /\ Events.kind = "provenance"
  /\ Signed.kind = "signatures"
  /\ \A i : ClaimFile(i).kind = "claim" /\ SignerFile(i).kind = "signer" /\ SignerFile(i).of = i
BY DEF Notice, Manifest, Events, Signed, ClaimFile, SignerFile, Name

\* The ids of the signers' files of a tree.
LEMMA SignersAre ==
  ASSUME NEW t, IsTree(t), NEW s
  PROVE  s \in FileIds(t, "signer") <=> SignerFile(s) \in DOMAIN t
<1>1. \A n \in DOMAIN t : n.kind = "signer" => n = SignerFile(n.of)
  BY KindsAre DEF IsTree, IsName
<1> QED
  BY <1>1, KindsAre DEF FileIds

\* The places of names.
LEMMA PlaceIs ==
  ASSUME NEW n, IsName(n)
  PROVE  /\ Place(n) \in 1 .. 13 /\ (Place(n) = 8 => n = Events)
         /\ Place(Events) = 8 /\ Events.of = 0
         /\ n.kind \in {"notice", "claim", "manifest"} => Place(n) < 8
<1>1. CASE n \in {Notice, Manifest, Events, Signed}
  BY <1>1, KindsAre DEF Place, Rank, Events, Name
<1>2. CASE n = ClaimFile(n.of)
  BY <1>2, KindsAre DEF Place, Rank, Events, Name
<1>3. CASE n = SignerFile(n.of)
  BY <1>3, KindsAre DEF Place, Rank, Events, Name
<1>4. CASE n.kind = "stray" /\ IsStray(n)
  BY <1>4, KindsAre DEF Place, Rank, Events, Name, IsStray, Gaps
<1> QED
  BY <1>1, <1>2, <1>3, <1>4 DEF IsName

\* The members a beginning has, it has with all before them.
LEMMA BeginningHas ==
  ASSUME NEW t, IsTree(t), NEW k \in Int, NEW m \in DOMAIN t, NEW n \in DOMAIN Beginning(t, k),
         \A x \in DOMAIN t : PathBefore(x, m) => PathBefore(x, n)
  PROVE  m \in DOMAIN Beginning(t, k)
<1> DEFINE before(x) == {y \in DOMAIN t : PathBefore(y, x)}
<1>1. DOMAIN Beginning(t, k) = {x \in DOMAIN t : Cardinality(before(x)) < k}
  BY DEF Beginning, Only
<1>2. IsFiniteSet(before(n)) /\ IsFiniteSet(before(m))
  <2>1. IsFiniteSet(DOMAIN t) /\ before(n) \in SUBSET DOMAIN t /\ before(m) \in SUBSET DOMAIN t
    BY DEF IsTree
  <2> HIDE DEF before
  <2> QED
    BY <2>1, FS_Subset
<1>3. before(m) \in SUBSET before(n)
  OBVIOUS
<1> HIDE DEF before
<1>4. Cardinality(before(m)) <= Cardinality(before(n))
      /\ Cardinality(before(m)) \in Nat /\ Cardinality(before(n)) \in Nat
  BY <1>2, <1>3, FS_Subset, FS_CardinalityType
<1> QED
  BY <1>1, <1>4

\* A beginning is a tree and a part; one with the provenance has all that is
\* before it.
LEMMA BeginningIs ==
  ASSUME NEW t, IsTree(t), NEW k \in Int
  PROVE  LET b == Beginning(t, k)
         IN  /\ IsTree(b)
             /\ \A n \in DOMAIN b : n \in DOMAIN t /\ b[n] = t[n]
             /\ Events \in DOMAIN b => \A n \in DOMAIN t \ DOMAIN b : PathBefore(Events, n)
<1> DEFINE b == Beginning(t, k)
<1>1. /\ IsTree(b)
      /\ \A n \in DOMAIN b : n \in DOMAIN t /\ b[n] = t[n]
  BY PartOfTree DEF Beginning, Only
<1>2. \A x \in DOMAIN t : IsName(x)
  BY DEF IsTree
<1>3. \A x \in DOMAIN t : Place(x) \in 1 .. 13 /\ (Place(x) = 8 => x = Events)
  BY <1>2, PlaceIs
<1>4. ASSUME Events \in DOMAIN b, NEW n \in DOMAIN t \ DOMAIN b
      PROVE  PathBefore(Events, n)
  <2>1. Place(Events) = 8
    BY <1>1, <1>2, <1>4, PlaceIs
  <2>2. CASE Place(n) < 8
    <3>1. \A x \in DOMAIN t : PathBefore(x, n) => PathBefore(x, Events)
      BY <1>3, <2>1, <2>2 DEF PathBefore
    <3> QED
      BY <1>4, <3>1, BeginningHas
  <2>3. CASE Place(n) > 8
    BY <1>3, <1>4, <2>1, <2>3 DEF PathBefore
  <2>4. Place(n) # 8
    BY <1>3, <1>4
  <2> QED
    BY <1>3, <2>2, <2>3, <2>4
<1> QED
  BY <1>1, <1>4

\* A beginning of what there is of a whole is what there is of it.
LEMMA HalfBegun ==
  ASSUME NEW t, IsTree(t), NEW whole, HalfOf(t, whole), NEW k \in Int
  PROVE  HalfOf(Beginning(t, k), whole)
<1> DEFINE b == Beginning(t, k)
<1>1. /\ \A n \in DOMAIN b : n \in DOMAIN t /\ b[n] = t[n]
      /\ Events \in DOMAIN b => \A n \in DOMAIN t \ DOMAIN b : PathBefore(Events, n)
  BY BeginningIs
<1> HIDE DEF b
<1>2. ASSUME Events \in DOMAIN b, NEW n \in DOMAIN whole \ DOMAIN b
      PROVE  PathBefore(Events, n)
  <2>1. CASE n \in DOMAIN t
    BY <1>1, <1>2, <2>1
  <2>2. CASE n \notin DOMAIN t
    BY <1>1, <1>2, <2>2 DEF HalfOf
  <2> QED
    BY <2>1, <2>2
<1> QED
  BY <1>1, <1>2 DEF HalfOf, b

LEMMA NothingOf ==
  ASSUME NEW whole, IsTree(whole)
  PROVE  HalfOf(<<>>, whole)
<1>1. DOMAIN <<>> = {}
  OBVIOUS
<1> QED
  BY <1>1 DEF HalfOf

\* What sign makes of a tree.
Resigned(new, t, s, algorithm, k, at) ==
  /\ DOMAIN new = DOMAIN t \cup {SignerFile(s), Signed}
  /\ \A n \in DOMAIN t \ {SignerFile(s), Signed} : new[n] = t[n]
  /\ new[SignerFile(s)] = SignerManifest(s, algorithm, k)
  /\ new[Signed] = WriteSignatures(Lines(t),
                     SignedEnvelope(s, algorithm, k, at, PackageHash(t[Manifest])))

LEMMA SignedIs ==
  ASSUME NEW t, NEW s, NEW algorithm, NEW k, NEW at
  PROVE  Resigned(WithSignature(t, s, algorithm, k, at), t, s, algorithm, k, at)
<1>1. SignerFile(s) # Signed
  BY KindsAre
<1> QED
  BY <1>1 DEF Resigned, WithSignature, With, Lines

\* A written file has the lines there were and the new one.
LEMMA WrittenHas ==
  ASSUME NEW x, IsLines(x), NEW e
  PROVE  /\ \A k \in DOMAIN x : \E j \in DOMAIN WriteSignatures(x, e) : WriteSignatures(x, e)[j] = x[k]
         /\ \E j \in DOMAIN WriteSignatures(x, e) : WriteSignatures(x, e)[j] = e
<1> DEFINE w == WriteSignatures(x, e)
<1>1. PICK b \in 0 .. Len(x) : Inserted(w, x, e, b) /\ Len(x) \in Nat /\ DOMAIN x = 1 .. Len(x)
  BY LinesWritten
<1> HIDE DEF w
<1>2. DOMAIN w = 1 .. Len(x) + 1
  BY <1>1 DEF Inserted, IsLines
<1>3. ASSUME NEW k \in 1 .. Len(x)
      PROVE  \E j \in 1 .. Len(x) + 1 : w[j] = x[k]
  <2>1. CASE k <= b
    <3>1. k \in 1 .. Len(x) + 1 /\ w[k] = x[k]
      BY <1>1, <2>1 DEF Inserted
    <3> QED
      BY <3>1
  <2>2. CASE k > b
    <3>1. k + 1 \in 1 .. Len(x) + 1 /\ w[k + 1] = x[k]
      BY <1>1, <2>2 DEF Inserted
    <3> QED
      BY <3>1
  <2> QED
    BY <1>1, <2>1, <2>2
<1>4. b + 1 \in 1 .. Len(x) + 1 /\ w[b + 1] = e
  BY <1>1 DEF Inserted
<1> QED
  BY <1>1, <1>2, <1>3, <1>4 DEF w

\* One tree laid atop another.
LEMMA AtopTree ==
  ASSUME NEW t, IsTree(t), NEW u, IsTree(u)
  PROVE  IsTree(Atop(t, u))
<1>1. IsFiniteSet(DOMAIN t \cup DOMAIN u)
  BY FS_Union DEF IsTree
<1> QED
  BY <1>1 DEF IsTree, Atop

\* What was signed half is of what would be signed whole.
LEMMA SignedHalf ==
  ASSUME NEW t, IsTree(t), NEW whole, HalfOf(t, whole),
         NEW s \in Nat, NEW algorithm, NEW k, NEW at \in Nat
  PROVE  LET new == WithSignature(t, s, algorithm, k, at)
         IN  HalfOf(new, Atop(new, whole))
<1> DEFINE new == WithSignature(t, s, algorithm, k, at)
           of == Atop(new, whole)
<1>1. DOMAIN new = DOMAIN t \cup {SignerFile(s), Signed}
  <2>1. Resigned(new, t, s, algorithm, k, at)
    BY SignedIs
  <2> QED
    BY <2>1 DEF Resigned
<1>2. IsTree(new) /\ IsTree(whole)
  BY SignedTree DEF HalfOf
<1> HIDE DEF new
<1>3. /\ IsTree(of) /\ DOMAIN of = DOMAIN new \cup DOMAIN whole
      /\ \A n \in DOMAIN new : of[n] = new[n]
  BY <1>2, AtopTree DEF Atop
<1> HIDE DEF of
<1>4. ASSUME Events \in DOMAIN new, NEW n \in DOMAIN of \ DOMAIN new
      PROVE  PathBefore(Events, n)
  <2>1. Events \in DOMAIN t
    BY <1>1, <1>4, KindsAre
  <2>2. n \in DOMAIN whole \ DOMAIN t
    BY <1>1, <1>3, <1>4
  <2> QED
    BY <2>1, <2>2 DEF HalfOf
<1>5. HalfOf(new, of)
  BY <1>3, <1>4 DEF HalfOf
<1> QED
  BY <1>5 DEF new, of

\* What is accepted of an archive lacks nothing up to the provenance, and
\* where signatures are required only what nothing names.
LEMMA AcceptedWhole ==
  ASSUME NEW signed, TreesOK, HalvesOK, Accepts(archive, signed)
  PROVE  \A n \in Lost(archive) :
           /\ PathBefore(Events, n)
           /\ signed =>
                \/ n.kind = "stray"
                \/ /\ n.kind = "signer"
                   /\ \A k \in DOMAIN archive.tree[Signed] :
                        archive.tree[Signed][k].signer_id # n.of
<1> DEFINE t == archive.tree
           whole == archive.of
<1>1. IsTree(t) /\ HalfOf(t, whole) /\ IsTree(whole)
  BY DEF Accepts, TreesOK, HalvesOK, HalfOf
<1>2. /\ Manifest \in DOMAIN t /\ Events \in DOMAIN t
      /\ signed => Signed \in DOMAIN t
      /\ Signed \in DOMAIN t => CheckSignatures(t[Signed], SignerFiles(t), t[Manifest]) = "OK"
  BY AcceptedPassed DEF Accepts
<1>3. Lost(archive) = DOMAIN whole \ DOMAIN t
  BY DEF Lost
<1> SUFFICES ASSUME NEW n \in DOMAIN whole \ DOMAIN t
             PROVE  /\ PathBefore(Events, n)
                    /\ signed => \/ n.kind = "stray"
                                 \/ /\ n.kind = "signer"
                                    /\ \A k \in DOMAIN t[Signed] : t[Signed][k].signer_id # n.of
  BY <1>3
<1> HIDE DEF t, whole
<1>4. PathBefore(Events, n)
  BY <1>1, <1>2 DEF HalfOf
<1>5. IsName(n)
  BY <1>1 DEF IsTree
<1>6. ASSUME signed, n.kind # "stray"
      PROVE  n.kind = "signer" /\ \A k \in DOMAIN t[Signed] : t[Signed][k].signer_id # n.of
  <2>1. n.kind \notin {"notice", "claim", "manifest"}
    BY <1>4, <1>5, PlaceIs DEF PathBefore
  <2>2. n \notin {Events, Signed}
    BY <1>2, <1>6
  <2>3. n = SignerFile(n.of)
    BY <1>5, <1>6, <2>1, <2>2, KindsAre DEF IsName
  <2>4. ASSUME NEW k \in DOMAIN t[Signed], t[Signed][k].signer_id = n.of
        PROVE  FALSE
    <3>1. t[Signed] \in Seq(ToSet(t[Signed]))
      BY <1>1, <1>2, <1>6 DEF IsTree, IsSignatures, IsLines
    <3>2. CheckEnvelope(t[Signed][k], SignerFiles(t), PackageHash(t[Manifest])) = "OK"
      BY <1>2, <1>6, <2>4, <3>1, AllGenuine
    <3>3. n.of \in DOMAIN SignerFiles(t)
      BY <2>4, <3>2, EnvelopeGenuine
    <3>4. n.of \in FileIds(t, "signer")
      BY <3>3 DEF SignerFiles
    <3> QED
      BY <1>1, <2>3, <3>4, SignersAre
  <2> QED
    BY <2>3, <2>4, KindsAre
<1> QED
  BY <1>4, <1>6

\* A directory init has not finished with is accepted only without events.
LEMMA StartingRefused ==
  ASSUME TreesOK, HalvesOK, starting, VerifyDirectory(dir, FALSE, FALSE) = "OK"
  PROVE  Events \in DOMAIN dir /\ dir[Events] = <<>>
<1>1. /\ Manifest \in DOMAIN dir /\ Events \in DOMAIN dir
      /\ Checked(dir, dir[Manifest], dir[Events]) = "OK"
  BY DEF VerifyDirectory, Verify
<1>2. RefsOK(dir[Manifest], dir[Events])
  BY <1>1 DEF Checked
<1>3. DOMAIN dir[Events] = {}
  BY <1>2 DEF RefsOK, HalvesOK
<1>4. dir[Events] \in Seq(ToSet(dir[Events]))
  BY <1>1 DEF TreesOK, IsTree, IsEvents, IsLines
<1> DEFINE e == dir[Events]
<1>5. Len(e) \in Nat /\ DOMAIN e = 1 .. Len(e)
  BY <1>4, LenProperties
<1>6. e # <<>> => Len(e) \in Nat \ {0}
  BY <1>4, EmptySeq
<1> HIDE DEF e
<1>7. Len(e) = 0
  <2>1. 1 \notin 1 .. Len(e)
    BY <1>3, <1>5 DEF e
  <2> QED
    BY <1>5, <2>1
<1>8. e = <<>>
  BY <1>6, <1>7
<1> QED
  BY <1>1, <1>8 DEF e

LEMMA HalvesInit == LifeAssumption /\ LifeInit => HalvesOK
BY DEF LifeAssumption, LifeInit, HalvesOK

\* A tree is what there is of itself.
LEMMA HalfOfItself ==
  ASSUME NEW t, IsTree(t)
  PROVE  HalfOf(t, t)
BY DEF HalfOf

LEMMA HalvesStep ==
  ASSUME LifeAssumption, TreesOK, HalvesOK, [LifeNext]_life
  PROVE  HalvesOK'
<1> DEFINE Part(a) == a # Nothing => HalfOf(a.tree, a.of)
<1> HIDE DEF Part
<1>0. /\ Part(archive) /\ \A p \in Signer \cup {Packer} : Part(job[p])
      /\ writer # Nothing => archive.of = job[writer].of
      /\ starting => Manifest \in DOMAIN dir /\ dir[Manifest].claims = {}
  BY DEF HalvesOK, Part
<1>00. SUFFICES /\ Part(archive') /\ \A p \in Signer \cup {Packer} : Part(job'[p])
                /\ writer' # Nothing => archive'.of = job'[writer'].of
                /\ starting' => Manifest \in DOMAIN dir' /\ dir'[Manifest].claims = {}
  BY DEF HalvesOK, Part
<1>000. /\ DOMAIN job = Signer \cup {Packer} /\ IsTree(dir)
        /\ job = [p \in Signer \cup {Packer} |-> job[p]]
        /\ writer = Nothing \/ (writer \in Signer \cup {Packer} /\ job[writer] # Nothing)
  BY DEF TreesOK
<1>1. CASE \E force, confirmed \in BOOLEAN : InitManifest(force, confirmed)
  <2>1. PICK x : dir' = With(dir, Manifest, x)
                 /\ (starting' => x.claims = {} \/ (starting /\ starting' = starting))
                 /\ UNCHANGED <<archive, job, writer>> /\ ~starting
    BY <1>1 DEF InitManifest, Skeleton
  <2>2. Manifest \in DOMAIN dir' /\ dir'[Manifest] = x
    BY <2>1 DEF With
  <2> QED
    BY <1>0, <2>1, <2>2
<1>2. CASE InitProvenance
  BY <1>0, <1>2 DEF InitProvenance
<1>3. CASE Author
  BY <1>0, <1>3 DEF Author
<1>4. CASE NewDirectory
  BY <1>0, <1>4 DEF NewDirectory
<1>5. CASE (\E s \in Signer : ChangeKey(s)) \/ Tick
  BY <1>0, <1>5 DEF ChangeKey, Tick
<1>6. CASE Pack
  <2> DEFINE made == [base |-> Nothing, tree |-> Packed(dir), of |-> Packed(dir)]
  <2>1. Part(made)
    BY <1>6, <1>000, PackedTree, HalfOfItself DEF Pack, Part
  <2>2. job' = [job EXCEPT ![Packer] = made] /\ job[Packer] = Nothing
        /\ UNCHANGED <<dir, starting, archive, writer>>
    BY <1>6 DEF Pack
  <2> HIDE DEF made
  <2> QED
    BY <1>0, <1>000, <2>1, <2>2
<1>7. CASE OtherTool
  <2> DEFINE made == [base |-> Nothing, tree |-> dir, of |-> dir]
  <2>1. Part(made)
    BY <1>000, HalfOfItself DEF Part
  <2>2. job' = [job EXCEPT ![Packer] = made] /\ job[Packer] = Nothing
        /\ UNCHANGED <<dir, starting, archive, writer>>
    BY <1>7 DEF OtherTool
  <2> HIDE DEF made
  <2> QED
    BY <1>0, <1>000, <2>1, <2>2
<1>8. CASE \E s \in Signer : Sign(s)
  <2>1. PICK s \in Signer : Sign(s)
    BY <1>8
  <2> DEFINE signed == WithSignature(archive.tree, s, Uses[s], key[s], now)
             made   == [base |-> archive, tree |-> signed, of |-> Atop(signed, archive.of)]
  <2>2. Part(made)
    <3>1. s \in Nat /\ now \in Nat /\ IsTree(archive.tree) /\ archive # Nothing
      BY <2>1 DEF Sign, LifeAssumption, TreesOK
    <3>2. HalfOf(archive.tree, archive.of)
      BY <1>0, <3>1 DEF Part
    <3> QED
      BY <3>1, <3>2, SignedHalf DEF Part
  <2>3. job' = [job EXCEPT ![s] = made] /\ job[s] = Nothing
        /\ UNCHANGED <<dir, starting, archive, writer>>
    BY <2>1 DEF Sign
  <2> HIDE DEF made, signed
  <2> QED
    BY <1>0, <1>000, <2>2, <2>3
<1>9. CASE \E p \in DOMAIN job : Write(p)
  <2>1. PICK p \in Signer \cup {Packer} : Write(p)
    BY <1>000, <1>9
  <2>2. PICK begun \in Beginnings(job[p].tree) :
          archive' = [tree |-> begun.tree, cut |-> begun.cut, of |-> job[p].of]
    BY <2>1 DEF Write
  <2>3. /\ IsTree(job[p].tree) /\ job[p] # Nothing /\ writer' = p
        /\ UNCHANGED <<dir, starting, job>>
    BY <2>1 DEF Write, TreesOK
  <2>4. HalfOf(job[p].tree, job[p].of)
    BY <1>0, <2>3 DEF Part
  <2>5. HalfOf(begun.tree, job[p].of)
    <3> DEFINE last == Cardinality(DOMAIN job[p].tree) - 1
    <3>0. last \in Int
      <4>1. IsFiniteSet(DOMAIN job[p].tree)
        BY <2>3 DEF IsTree
      <4> QED
        BY <4>1, FS_CardinalityType
    <3>1. HalfOf(<<>>, job[p].of)
      BY <2>4, NothingOf DEF HalfOf
    <3>2. \A k \in Int : HalfOf(Beginning(job[p].tree, k), job[p].of)
      BY <2>3, <2>4, HalfBegun
    <3>3. \/ begun.tree = <<>>
          \/ \E k \in 0 .. last : begun.tree = Beginning(job[p].tree, k)
          \/ begun.tree = Beginning(job[p].tree, last)
      BY <2>2 DEF Beginnings
    <3> QED
      BY <3>0, <3>1, <3>2, <3>3
  <2>6. Part(archive') /\ archive'.of = job[p].of
    BY <2>2, <2>5 DEF Part
  <2> QED
    BY <1>0, <2>3, <2>6
<1>10. CASE Written
  <2>1. /\ writer \in Signer \cup {Packer} /\ job[writer] # Nothing /\ writer # Nothing
        /\ archive' = [tree |-> job[writer].tree, cut |-> "none", of |-> archive.of]
        /\ job' = [job EXCEPT ![writer] = Nothing] /\ writer' = Nothing
        /\ UNCHANGED <<dir, starting>>
    BY <1>000, <1>10 DEF Written
  <2>2. Part(archive')
    BY <1>0, <2>1 DEF Part
  <2>3. Part(Nothing)
    BY DEF Part
  <2> QED
    BY <1>0, <1>000, <2>1, <2>2, <2>3
<1>11. CASE \E p \in DOMAIN job : Kill(p)
  <2>1. PICK p \in Signer \cup {Packer} : Kill(p)
    BY <1>000, <1>11
  <2>2. Part(Nothing)
    BY DEF Part
  <2> QED
    BY <1>0, <1>000, <2>1, <2>2 DEF Kill
<1>12. CASE Unpack
  BY <1>0, <1>12 DEF Unpack
<1>13. CASE UNCHANGED life
  BY <1>0, <1>13 DEF life
<1> QED
  BY <1>1, <1>2, <1>3, <1>4, <1>5, <1>6, <1>7, <1>8, <1>9, <1>10, <1>11, <1>12, <1>13
     DEF LifeNext, Resting

\* Wherever a command is killed and whoever signs what is left, what is made
\* half is refused, or lacks only what sorts behind the provenance, and, where
\* signatures are required, what nothing names.
THEOREM HalfIsRefused ==
  ASSUME LifeAssumption
  PROVE  LifeSpec => []HalfMadeRefused
<1>1. LifeInit => HalvesOK
  BY HalvesInit
<1>2. TreesOK /\ HalvesOK /\ [LifeNext]_life => HalvesOK'
  BY HalvesStep
<1>3. TreesOK /\ HalvesOK => HalfMadeRefused
  BY AcceptedWhole, StartingRefused DEF HalfMadeRefused
<1> QED
  BY <1>1, <1>2, <1>3, TreesAreTrees, PTL DEF LifeSpec

-----------------------------------------------------------------------------
(* One signature more.                                                     *)

\* What the records of this module are not: Junk and Nothing.
NoRecord ==
  /\ \A x : Sha256(x) # Junk
  /\ \A g, k, d : Signature(g, k, d) # Junk
  /\ \A s, g, k : SignerManifest(s, g, k) # Junk
  /\ \A s, g, k, at, d : SignedEnvelope(s, g, k, at, d) # Junk
  /\ \A t : [tree |-> t, cut |-> "none"] # Nothing

\* An envelope that sorts: its signer and date are numbers.
Dated(e) == e.signer_id \in Nat /\ e.signed_at \in Nat

\* Lines that are all envelopes, in their order.
Sorted(x) ==
  /\ IsLines(x) /\ \A k \in DOMAIN x : Dated(x[k])
  /\ \A k \in 1 .. Len(x) - 1 : ~SortsAfter(x[k], x[k + 1])

LEMMA OrderIs ==
  ASSUME NEW e, NEW f, NEW g, Dated(e), Dated(f), Dated(g)
  PROVE  /\ ~SortsAfter(e, f) /\ ~SortsAfter(f, g) => ~SortsAfter(e, g)
         /\ SortsAfter(e, f) => ~SortsAfter(f, e)
BY DEF Dated, SortsAfter

\* The lines a new one is written behind are the first ones.
LEMMA PrecedingIs ==
  ASSUME NEW x, Sorted(x), NEW e, Dated(e)
  PROVE  Preceding(x, e) = 1 .. Cardinality(Preceding(x, e))
<1> DEFINE T == Preceding(x, e)
           n == Len(x)
<1>1. n \in Nat /\ DOMAIN x = 1 .. n
  BY LinesWritten DEF Sorted
<1>2. T \subseteq 1 .. n /\ \A k \in 1 .. n : k \in T <=> ~SortsAfter(x[k], e)
  BY <1>1 DEF Preceding
<1> HIDE DEF T
<1>3. ASSUME NEW k \in 1 .. n - 1, k + 1 \in T
      PROVE  k \in T
  <2>1. k \in 1 .. n /\ k + 1 \in 1 .. n
    BY <1>1
  <2>2. Dated(x[k]) /\ Dated(x[k + 1]) /\ ~SortsAfter(x[k], x[k + 1])
    BY <1>1, <2>1 DEF Sorted
  <2> QED
    BY <1>2, <1>3, <2>1, <2>2, OrderIs
<1> QED
  BY <1>1, <1>2, <1>3, FirstOnes DEF T

\* The lines stay in their order.
LEMMA SortedWritten ==
  ASSUME NEW x, Sorted(x), NEW e, Dated(e)
  PROVE  LET w == WriteSignatures(x, e)
         IN  \A k \in 1 .. Len(w) - 1 : ~SortsAfter(w[k], w[k + 1])
<1> DEFINE w == WriteSignatures(x, e)
           b == Cardinality(Preceding(x, e))
           n == Len(x)
<1>1. Inserted(w, x, e, b) /\ n \in Nat /\ DOMAIN x = 1 .. n /\ b \in 0 .. n
  BY LinesWritten DEF Sorted
<1>2. Preceding(x, e) = 1 .. b
  BY PrecedingIs
<1>3. /\ \A k \in 1 .. b : ~SortsAfter(x[k], e)
      /\ \A k \in b + 1 .. n : SortsAfter(x[k], e)
  <2>1. \A k \in 1 .. n : k \in 1 .. b <=> ~SortsAfter(x[k], e)
    BY <1>1, <1>2 DEF Preceding
  <2> QED
    BY <1>1, <2>1
<1> HIDE DEF w, b
<1>4. Len(w) = n + 1 /\ w[b + 1] = e
      /\ (\A k \in 1 .. b : w[k] = x[k]) /\ (\A k \in b + 1 .. n : w[k + 1] = x[k])
  BY <1>1 DEF Inserted
<1>5. ASSUME NEW k \in 1 .. n
      PROVE  ~SortsAfter(w[k], w[k + 1])
  <2>1. CASE k < b
    <3>1. k \in 1 .. b /\ k + 1 \in 1 .. b /\ k \in 1 .. n - 1
      BY <1>1, <2>1
    <3> QED
      BY <1>4, <3>1 DEF Sorted
  <2>2. CASE k = b
    <3>1. k \in 1 .. b
      BY <1>1, <2>2
    <3> QED
      BY <1>3, <1>4, <2>2, <3>1
  <2>3. CASE k = b + 1
    <3>1. k \in b + 1 .. n
      BY <1>1, <2>3
    <3>2. w[k] = e /\ w[k + 1] = x[k] /\ SortsAfter(x[k], e)
      BY <1>3, <1>4, <2>3, <3>1
    <3>3. Dated(x[k])
      BY <1>1 DEF Sorted
    <3> QED
      BY <3>2, <3>3, OrderIs
  <2>4. CASE k > b + 1
    <3>1. k - 1 \in b + 1 .. n /\ k \in b + 1 .. n /\ (k - 1) + 1 = k /\ k - 1 \in 1 .. n - 1
      BY <1>1, <2>4
    <3>2. w[k] = x[k - 1] /\ w[k + 1] = x[k]
      BY <1>4, <3>1
    <3> QED
      BY <3>1, <3>2 DEF Sorted
  <2> QED
    BY <1>1, <2>1, <2>2, <2>3, <2>4
<1>6. Len(w) - 1 = n
  BY <1>1, <1>4
<1> QED
  BY <1>5, <1>6 DEF w

\* Every line of a written file was there or is the new one.
LEMMA WrittenFrom ==
  ASSUME NEW x, IsLines(x), NEW e, NEW j \in DOMAIN WriteSignatures(x, e)
  PROVE  LET w == WriteSignatures(x, e)
         IN  w[j] = e \/ \E k \in DOMAIN x : w[j] = x[k]
<1> DEFINE w == WriteSignatures(x, e)
<1>1. PICK b \in 0 .. Len(x) : Inserted(w, x, e, b) /\ Len(x) \in Nat /\ DOMAIN x = 1 .. Len(x)
  BY LinesWritten
<1> HIDE DEF w
<1>2. j \in 1 .. Len(x) + 1
  BY <1>1 DEF Inserted, IsLines, w
<1>3. CASE j <= b
  <2>1. j \in 1 .. b /\ j \in 1 .. Len(x)
    BY <1>1, <1>2, <1>3
  <2> QED
    BY <1>1, <2>1 DEF Inserted, w
<1>4. CASE j = b + 1
  BY <1>1, <1>4 DEF Inserted, w
<1>5. CASE j > b + 1
  <2>1. j - 1 \in b + 1 .. Len(x) /\ (j - 1) + 1 = j /\ j - 1 \in 1 .. Len(x)
    BY <1>1, <1>2, <1>5
  <2>2. w[j] = x[j - 1]
    BY <1>1, <2>1 DEF Inserted
  <2> QED
    BY <1>1, <2>1, <2>2 DEF w
<1> QED
  BY <1>1, <1>2, <1>3, <1>4, <1>5

\* A signer's own envelope is good beside its own file.
LEMMA OwnGenuine ==
  ASSUME NoRecord, NEW s, NEW algorithm \in Registry, NEW k \in RawKey, Junk \notin RawKey,
         algorithm = "ed25519" => Cryptography,
         NEW signers, s \in DOMAIN signers, signers[s] = SignerManifest(s, algorithm, k),
         NEW at, NEW digest, digest # Junk
  PROVE  CheckEnvelope(SignedEnvelope(s, algorithm, k, at, digest), signers, digest) = "OK"
<1> DEFINE e == SignedEnvelope(s, algorithm, k, at, digest)
           own == SignerManifest(s, algorithm, k)
<1>1. /\ e.signer_id = s /\ e.algorithm = algorithm /\ e.hash = digest
      /\ e.signature = Signature(algorithm, k, digest)
  BY DEF SignedEnvelope
<1>2. /\ own.signer_id = s /\ own.algorithm = algorithm /\ own.public_key = k
      /\ own.fingerprint = Sha256(k)
  BY DEF SignerManifest
<1>3. own # Junk /\ k # Junk /\ Sha256(k) # Junk /\ e.signature # Junk
  BY <1>1 DEF NoRecord
<1> HIDE DEF e, own
<1>4. SignerParses(own, s)
  BY <1>2, <1>3 DEF SignerParses, Decodes
<1>5. \A g : algorithm = g => VerifierRules(e, own, digest, g) = "OK"
  BY <1>1, <1>2, <1>3 DEF VerifierRules, Decodes
<1>6. /\ algorithm = "hmac-sha256" => HMACVerify(e, own, digest) = "OK"
      /\ algorithm = "ed25519" => Ed25519Verify(e, own, digest) = "OK"
  BY <1>1, <1>2, <1>5 DEF HMACVerify, Ed25519Verify, Genuine
<1>7. signers[e.signer_id] = own /\ e.signer_id \in DOMAIN signers
  BY <1>1 DEF own
<1>8. CheckEnvelope(e, signers, digest) = "OK"
  BY <1>1, <1>2, <1>3, <1>4, <1>6, <1>7 DEF CheckEnvelope, Decodes, Registry
<1> QED
  BY <1>8 DEF e

\* An envelope is judged by the file of its own signer.
LEMMA SameFile ==
  ASSUME NEW e, NEW signers, NEW others, NEW digest, e.signer_id \in DOMAIN others,
         CheckEnvelope(e, signers, digest) = "OK", others[e.signer_id] = signers[e.signer_id]
  PROVE  CheckEnvelope(e, others, digest) = "OK"
BY DEF CheckEnvelope

\* What a signer computed it computed of an archive it could sign.
SignersOK ==
  /\ key \in [Signer -> RawKey]
  /\ \A s \in Signer : job[s] # Nothing =>
       \E k \in RawKey, at \in Nat :
         /\ SignCheck(job[s].base, Uses[s], k) = "OK" /\ IsTree(job[s].base.tree)
         /\ job[s].tree = WithSignature(job[s].base.tree, s, Uses[s], k, at)

\* A signature keeps an accepted package accepted.
LEMMA KeptSigned ==
  ASSUME NoRecord, LifeAssumption, NEW s \in Signer, NEW k \in RawKey, NEW at \in Nat,
         NEW base, IsTree(base.tree), SignCheck(base, Uses[s], k) = "OK",
         Accepts(base, FALSE), NEW new, new = WithSignature(base.tree, s, Uses[s], k, at),
         SignerFile(s) \in DOMAIN base.tree => base.tree[SignerFile(s)] = new[SignerFile(s)]
  PROVE  /\ Accepts([tree |-> new, cut |-> "none"], TRUE)
         /\ Len(Lines(new)) = Len(Lines(base.tree)) + 1
         /\ ToSet(Lines(base.tree)) \subseteq ToSet(Lines(new))
<1> DEFINE old == base.tree
           x == Lines(old)
           m == old[Manifest]
           own == SignedEnvelope(s, Uses[s], k, at, PackageHash(m))
           w == WriteSignatures(x, own)
<1>1. /\ Manifest \in DOMAIN old /\ Events \in DOMAIN old
      /\ Checked(old, m, old[Events]) = "OK"
      /\ Signed \in DOMAIN old => CheckSignatures(x, SignerFiles(old), m) = "OK"
  <2>1. VerifyPackage(base, FALSE, FALSE) = "OK"
    BY DEF Accepts
  <2>2. Verify(old) = "OK"
    BY <2>1 DEF VerifyPackage
  <2> QED
    BY <2>1, <2>2, AcceptedPassed DEF Verify, Lines
<1>2. /\ DOMAIN new = DOMAIN old \cup {SignerFile(s), Signed}
      /\ \A n \in DOMAIN old \ {SignerFile(s), Signed} : new[n] = old[n]
      /\ new[SignerFile(s)] = SignerManifest(s, Uses[s], k)
      /\ new[Signed] = w
  <2>1. Resigned(new, old, s, Uses[s], k, at)
    BY SignedIs
  <2> QED
    BY <2>1 DEF Resigned
<1>3. IsSignatures(x)
  BY NoLines DEF IsTree, Lines
<1>4. /\ Dated(own) /\ own # Junk /\ PackageHash(m) # Junk /\ own.signer_id = s
      /\ Uses[s] \in Registry /\ Junk \notin RawKey /\ (Uses[s] = "ed25519" => Cryptography)
  BY DEF LifeAssumption, NoRecord, PackageHash, SignedEnvelope, Dated, SignCheck
<1>5. Sorted(x) /\ \A i \in DOMAIN x : x[i] # Junk
  <2>1. CASE Signed \notin DOMAIN old
    <3>1. x = <<>>
      BY <2>1 DEF Lines
    <3> QED
      BY <3>1, NoLines DEF Sorted
  <2>2. CASE Signed \in DOMAIN old
    <3>1. ReadSignatures(x) = "OK"
      BY <1>1, <2>2 DEF CheckSignatures
    <3>2. \A i \in DOMAIN x : x[i] # Junk
      BY <3>1 DEF ReadSignatures, EnvelopeParses
    <3>3. \A i \in 1 .. Len(x) - 1 : ~SortsAfter(x[i], x[i + 1])
      BY <3>1 DEF ReadSignatures
    <3> HIDE DEF x
    <3> QED
      BY <1>3, <3>2, <3>3 DEF Sorted, IsSignatures, Dated
  <2> QED
    BY <2>1, <2>2
<1>6. IsLines(x)
  BY <1>3 DEF IsSignatures
<1> HIDE DEF x, own
<1>7. /\ Len(w) = Len(x) + 1 /\ Len(x) \in Nat /\ IsLines(w)
      /\ \A k1 \in 1 .. Len(w) - 1 : ~SortsAfter(w[k1], w[k1 + 1])
  <2>1. PICK b \in 0 .. Len(x) : Inserted(w, x, own, b) /\ Len(x) \in Nat
    BY <1>6, LinesWritten
  <2> QED
    BY <1>4, <1>5, <2>1, SortedWritten DEF Inserted
<1>8. \A j \in DOMAIN w : w[j] = own \/ \E i \in DOMAIN x : w[j] = x[i]
  BY <1>6, WrittenFrom
<1>9. \A i \in DOMAIN x : \E j \in DOMAIN w : w[j] = x[i]
  BY <1>6, WrittenHas
<1> HIDE DEF w
<1>10. ReadSignatures(w) = "OK"
  <2>1. w # <<>>
    <3>1. Len(w) # 0
      BY <1>7
    <3> QED
      BY <3>1
  <2>2. \A j \in DOMAIN w : w[j] # Junk
    BY <1>4, <1>5, <1>8
  <2> QED
    BY <1>7, <2>1, <2>2 DEF ReadSignatures, EnvelopeParses
<1>11. /\ DOMAIN SignerFiles(new) = FileIds(old, "signer") \cup {s}
       /\ SignerFiles(new)[s] = SignerManifest(s, Uses[s], k)
       /\ \A i \in FileIds(old, "signer") : SignerFiles(new)[i] = SignerFiles(old)[i]
  <2>1. FileIds(new, "signer") = FileIds(old, "signer") \cup {s}
    BY <1>2, KindsAre DEF FileIds
  <2>2. \A i \in FileIds(new, "signer") : SignerFiles(new)[i] = new[SignerFile(i)]
    BY DEF SignerFiles
  <2>3. ASSUME NEW i \in FileIds(old, "signer")
        PROVE  SignerFiles(new)[i] = SignerFiles(old)[i]
    <3>1. SignerFile(i) \in DOMAIN old /\ SignerFiles(old)[i] = old[SignerFile(i)]
      BY <2>3, SignersAre DEF SignerFiles
    <3>2. SignerFile(i) # Signed
      BY KindsAre
    <3>3. new[SignerFile(i)] = old[SignerFile(i)]
      BY <1>2, <3>1, <3>2
    <3> QED
      BY <2>1, <2>2, <3>1, <3>3
  <2>4. DOMAIN SignerFiles(new) = FileIds(new, "signer")
    BY DEF SignerFiles
  <2> QED
    BY <1>2, <2>1, <2>2, <2>3, <2>4
<1>12. \A i \in DOMAIN x : CheckEnvelope(x[i], SignerFiles(old), PackageHash(m)) = "OK"
  <2>1. CASE Signed \notin DOMAIN old
    <3>1. DOMAIN x = {}
      BY <2>1 DEF x, Lines
    <3> QED
      BY <3>1
  <2>2. CASE Signed \in DOMAIN old
    BY <1>1, <1>6, <2>2, AllGenuine DEF IsLines
  <2> QED
    BY <2>1, <2>2
<1>13. \A j \in DOMAIN w : CheckEnvelope(w[j], SignerFiles(new), PackageHash(m)) = "OK"
  <2>1. CheckEnvelope(own, SignerFiles(new), PackageHash(m)) = "OK"
    BY <1>4, <1>11, OwnGenuine DEF own
  <2>2. ASSUME NEW i \in DOMAIN x
        PROVE  CheckEnvelope(x[i], SignerFiles(new), PackageHash(m)) = "OK"
    <3>1. x[i].signer_id \in DOMAIN SignerFiles(old)
      BY <1>12, <2>2, EnvelopeGenuine
    <3>2. x[i].signer_id \in FileIds(old, "signer")
      BY <3>1 DEF SignerFiles
    <3> QED
      BY <1>11, <1>12, <2>2, <3>2, SameFile
  <2> QED
    BY <1>8, <2>1, <2>2
<1>14. /\ Manifest \in DOMAIN new /\ Events \in DOMAIN new /\ Signed \in DOMAIN new
       /\ new[Manifest] = m /\ new[Events] = old[Events]
       /\ \A i : (ClaimFile(i) \in DOMAIN new <=> ClaimFile(i) \in DOMAIN old)
                 /\ (ClaimFile(i) \in DOMAIN old => new[ClaimFile(i)] = old[ClaimFile(i)])
       /\ FileIds(new, "claim") = FileIds(old, "claim")
  <2>1. /\ Manifest \notin {SignerFile(s), Signed} /\ Events \notin {SignerFile(s), Signed}
        /\ \A i : ClaimFile(i) \notin {SignerFile(s), Signed}
    BY KindsAre
  <2>2. FileIds(new, "claim") = FileIds(old, "claim")
    BY <1>2, KindsAre DEF FileIds
  <2> QED
    BY <1>1, <1>2, <2>1, <2>2
<1>15. CheckSignatures(new[Signed], SignerFiles(new), new[Manifest]) = "OK"
  BY <1>2, <1>10, <1>13, <1>14 DEF CheckSignatures
<1>16. Verify(new) = "OK"
  <2>1. HashesOK(m, new) <=> HashesOK(m, old)
    BY <1>14 DEF HashesOK
  <2>2. FilesetOK(m, new) <=> FilesetOK(m, old)
    BY <1>14 DEF FilesetOK
  <2>3. Checked(new, m, old[Events]) = Checked(old, m, old[Events])
    BY <2>1, <2>2 DEF Checked
  <2> QED
    BY <1>1, <1>14, <2>3 DEF Verify
<1>17. Accepts([tree |-> new, cut |-> "none"], TRUE)
  <2> DEFINE made == [tree |-> new, cut |-> "none"]
  <2>1. made.tree = new /\ made.cut = "none" /\ made # Nothing
    BY DEF NoRecord
  <2>2. new # <<>>
    <3>1. DOMAIN <<>> = {}
      OBVIOUS
    <3> QED
      BY <1>14, <3>1
  <2> HIDE DEF made
  <2>3. VerifyPackage(made, TRUE, FALSE) = "OK"
    BY <1>14, <1>15, <1>16, <2>1, <2>2 DEF VerifyPackage, Readable, Acceptable
  <2>4. Accepts(made, TRUE)
    BY <2>1, <2>3 DEF Accepts
  <2> QED
    BY <2>4 DEF made
<1>18. Lines(new) = w
  BY <1>2, <1>14 DEF Lines
<1>19. ToSet(x) \subseteq ToSet(w)
  <2> QED
    BY <1>9 DEF ToSet
<1> QED
  BY <1>7, <1>17, <1>18, <1>19 DEF x

LEMMA SignersInit == LifeAssumption /\ LifeInit => SignersOK
BY DEF LifeAssumption, LifeInit, SignersOK

LEMMA SignersStep ==
  ASSUME LifeAssumption, TreesOK, SignersOK, [LifeNext]_life
  PROVE  SignersOK'
<1> DEFINE Made(j, s) ==
             j # Nothing => \E k \in RawKey, at \in Nat :
               /\ SignCheck(j.base, Uses[s], k) = "OK" /\ IsTree(j.base.tree)
               /\ j.tree = WithSignature(j.base.tree, s, Uses[s], k, at)
<1> HIDE DEF Made
<1>1. key \in [Signer -> RawKey] /\ \A s \in Signer : Made(job[s], s)
  BY DEF SignersOK, Made
<1>2. SUFFICES key' \in [Signer -> RawKey] /\ \A s \in Signer : Made(job'[s], s)
  BY DEF SignersOK, Made
<1>3. /\ DOMAIN job = Signer \cup {Packer} /\ job = [p \in Signer \cup {Packer} |-> job[p]]
      /\ Packer \notin Signer /\ \A s : Made(Nothing, s)
  BY DEF TreesOK, LifeAssumption, Made
<1>4. CASE \E s \in Signer : ChangeKey(s)
  BY <1>1, <1>4 DEF ChangeKey
<1>5. CASE Pack \/ OtherTool
  BY <1>1, <1>3, <1>5 DEF Pack, OtherTool
<1>6. CASE \E s \in Signer : Sign(s)
  <2>1. PICK s \in Signer : Sign(s)
    BY <1>6
  <2> DEFINE signed == WithSignature(archive.tree, s, Uses[s], key[s], now)
             made   == [base |-> archive, tree |-> signed, of |-> Atop(signed, archive.of)]
  <2>2. Made(made, s)
    <3>1. /\ key[s] \in RawKey /\ now \in Nat /\ IsTree(archive.tree)
          /\ SignCheck(archive, Uses[s], key[s]) = "OK"
      BY <1>1, <2>1 DEF Sign, TreesOK
    <3>2. made.base = archive /\ made.tree = signed
      OBVIOUS
    <3> HIDE DEF made
    <3> QED
      BY <3>1, <3>2 DEF Made
  <2>3. job' = [job EXCEPT ![s] = made] /\ key' = key
    BY <2>1 DEF Sign
  <2> HIDE DEF made, signed
  <2> QED
    BY <1>1, <1>3, <2>2, <2>3
<1>7. CASE Written \/ \E p \in DOMAIN job : Kill(p)
  <2>1. /\ key' = key
        /\ \E p \in DOMAIN job : job' = [job EXCEPT ![p] = Nothing]
    BY <1>3, <1>7 DEF Written, Kill, TreesOK
  <2> QED
    BY <1>1, <1>3, <2>1
<1>8. CASE UNCHANGED <<job, key>>
  BY <1>1, <1>8
<1> QED
  BY <1>4, <1>5, <1>6, <1>7, <1>8
     DEF LifeNext, InitManifest, InitProvenance, Author, NewDirectory, Tick, Write, Unpack,
         Resting, life

\* Whoever signs an accepted archive, and whatever other signers and the
\* author did meanwhile, what is computed is accepted and has every envelope.
THEOREM SigningIsKept ==
  ASSUME LifeAssumption, NoRecord
  PROVE  LifeSpec => []SigningKeeps
<1>1. LifeInit => SignersOK
  BY SignersInit
<1>2. TreesOK /\ SignersOK /\ [LifeNext]_life => SignersOK'
  BY SignersStep
<1>3. SignersOK => SigningKeeps
  <2> SUFFICES ASSUME SignersOK, NEW s \in Signer, job[s] # Nothing,
                      Accepts(job[s].base, FALSE),
                      SignerFile(s) \in DOMAIN job[s].base.tree
                        => job[s].base.tree[SignerFile(s)] = job[s].tree[SignerFile(s)]
               PROVE  /\ Accepts([tree |-> job[s].tree, cut |-> "none"], TRUE)
                      /\ Len(Lines(job[s].tree)) = Len(Lines(job[s].base.tree)) + 1
                      /\ ToSet(Lines(job[s].base.tree)) \subseteq ToSet(Lines(job[s].tree))
    BY DEF SigningKeeps
  <2>1. PICK k \in RawKey, at \in Nat :
          /\ SignCheck(job[s].base, Uses[s], k) = "OK" /\ IsTree(job[s].base.tree)
          /\ job[s].tree = WithSignature(job[s].base.tree, s, Uses[s], k, at)
    BY DEF SignersOK
  <2> QED
    BY <2>1, KeptSigned
<1> QED
  BY <1>1, <1>2, <1>3, TreesAreTrees, PTL DEF LifeSpec

-----------------------------------------------------------------------------
(* The order of events.                                                    *)

\* Events in the order of their times and ids.
InTime(x) ==
  /\ IsEvents(x)
  /\ \A j, k \in DOMAIN x : j < k => History!Earlier(x[j], x[k])

\* Events are ordered by date and id: strictly, and wholly when the ids differ.
LEMMA EarlierIs ==
  ASSUME NEW a, NEW b, NEW c, IsEvent(a), IsEvent(b), IsEvent(c)
  PROVE  /\ History!Earlier(a, b) => ~History!Earlier(b, a)
         /\ History!Earlier(a, b) /\ History!Earlier(b, c) => History!Earlier(a, c)
         /\ a.id # b.id => History!Earlier(a, b) \/ History!Earlier(b, a)
BY DEF IsEvent, History!Earlier

\* The lines an event is put behind.
Before(x, e) == {k \in DOMAIN x : ~History!Earlier(e, x[k])}

\* Provenance counts as this module does.
LEMMA HistoryCounts == ASSUME NEW S PROVE History!Cardinality(S) = Cardinality(S)
BY DEF Cardinality, History!Cardinality

LEMMA InsertedIs ==
  ASSUME NEW x, IsLines(x), NEW e
  PROVE  /\ Len(x) \in Nat /\ DOMAIN x = 1 .. Len(x)
         /\ Cardinality(Before(x, e)) \in 0 .. Len(x)
         /\ Inserted(History!Inserted(x, e), x, e, Cardinality(Before(x, e)))
<1> DEFINE P == Before(x, e)
<1>1. P \subseteq DOMAIN x
  BY DEF Before
<1>2. History!Inserted(x, e) = SubSeq(x, 1, Cardinality(P)) \o <<e>>
                                 \o SubSeq(x, Cardinality(P) + 1, Len(x))
  BY HistoryCounts DEF History!Inserted, Before
<1> HIDE DEF P
<1> QED
  BY <1>1, <1>2, LineInserted DEF P

\* The lines of w are those of x and e.
LEMMA InsertedLines ==
  ASSUME NEW x, IsLines(x), Len(x) \in Nat, NEW w, NEW e, NEW b \in 0 .. Len(x), Inserted(w, x, e, b)
  PROVE  /\ DOMAIN x = 1 .. Len(x) /\ DOMAIN w = 1 .. Len(x) + 1 /\ w[b + 1] = e
         /\ \A k \in DOMAIN w : \/ k = b + 1
                                \/ k <= b /\ k \in DOMAIN x /\ w[k] = x[k]
                                \/ k > b + 1 /\ k - 1 \in DOMAIN x /\ w[k] = x[k - 1]
         /\ ToSet(w) = ToSet(x) \cup {e}
<1> DEFINE n == Len(x)
<1>1. n \in Nat /\ DOMAIN x = 1 .. n /\ DOMAIN w = 1 .. n + 1 /\ w[b + 1] = e
  BY DEF Inserted, IsLines
<1>2. (\A k \in 1 .. b : w[k] = x[k]) /\ (\A k \in b + 1 .. n : w[k + 1] = x[k])
  BY DEF Inserted
<1>3. ASSUME NEW k \in 1 .. n + 1
      PROVE  \/ k = b + 1
             \/ k <= b /\ k \in 1 .. n /\ w[k] = x[k]
             \/ k > b + 1 /\ k - 1 \in 1 .. n /\ w[k] = x[k - 1]
  <2>1. CASE k <= b
    BY <1>1, <1>2, <2>1
  <2>2. CASE k > b + 1
    <3>1. k - 1 \in b + 1 .. n /\ (k - 1) + 1 = k /\ k - 1 \in 1 .. n
      BY <1>1, <2>2
    <3> QED
      BY <1>2, <2>2, <3>1
  <2> QED
    BY <1>1, <2>1, <2>2
<1>4. ASSUME NEW k \in 1 .. n  PROVE \E j \in 1 .. n + 1 : w[j] = x[k]
  <2>1. CASE k <= b
    BY <1>1, <1>2, <2>1
  <2>2. CASE k > b
    BY <1>1, <1>2, <2>2
  <2> QED
    BY <1>1, <2>1, <2>2
<1>5. ASSUME NEW y  PROVE y \in ToSet(w) <=> y \in ToSet(x) \cup {e}
  <2>1. y \in ToSet(w) <=> \E j \in 1 .. n + 1 : w[j] = y
    BY <1>1 DEF ToSet
  <2>2. y \in ToSet(x) <=> \E j \in 1 .. n : x[j] = y
    BY <1>1 DEF ToSet
  <2>3. b + 1 \in 1 .. n + 1
    BY <1>1
  <2> QED
    BY <1>1, <1>3, <1>4, <2>1, <2>2, <2>3
<1> QED
  BY <1>1, <1>3, <1>5

LEMMA InsertedInTime ==
  ASSUME NEW x, InTime(x), NEW e, IsEvent(e), \A k \in DOMAIN x : x[k].id # e.id
  PROVE  InTime(History!Inserted(x, e))
<1> DEFINE P == Before(x, e)
           b == Cardinality(P)
           n == Len(x)
           w == History!Inserted(x, e)
<1>1. IsLines(x) /\ \A k \in DOMAIN x : IsEvent(x[k])
  BY DEF InTime, IsEvents
<1>2. n \in Nat /\ DOMAIN x = 1 .. n /\ b \in 0 .. n /\ Inserted(w, x, e, b)
  BY <1>1, InsertedIs
<1> HIDE DEF w
<1>3. P = 1 .. b
  <2>1. P \subseteq 1 .. n
    BY <1>2 DEF Before
  <2>2. ASSUME NEW k \in 1 .. n - 1, k + 1 \in P  PROVE k \in P
    <3>1. k \in 1 .. n /\ k + 1 \in 1 .. n /\ k < k + 1
      BY <1>2
    <3>2. History!Earlier(x[k], x[k + 1]) /\ ~History!Earlier(e, x[k + 1])
      BY <1>2, <2>2, <3>1 DEF InTime, Before
    <3>3. ~History!Earlier(e, x[k])
      BY <1>1, <1>2, <3>1, <3>2, EarlierIs
    <3> QED
      BY <1>2, <3>1, <3>3 DEF Before
  <2> HIDE DEF P
  <2> QED
    BY <1>2, <2>1, <2>2, FirstOnes
<1>4. /\ \A k \in DOMAIN x : k <= b => History!Earlier(x[k], e)
      /\ \A k \in DOMAIN x : k > b => History!Earlier(e, x[k])
  <2>1. \A k \in DOMAIN x : k \in 1 .. b <=> ~History!Earlier(e, x[k])
    BY <1>3 DEF Before
  <2>2. \A k \in DOMAIN x : History!Earlier(e, x[k]) \/ History!Earlier(x[k], e)
    BY <1>1, EarlierIs
  <2> HIDE DEF b
  <2> QED
    BY <1>2, <2>1, <2>2
<1> HIDE DEF b, P
<1>5. /\ DOMAIN w = 1 .. n + 1 /\ w[b + 1] = e
      /\ \A k \in DOMAIN w : \/ k = b + 1
                             \/ k <= b /\ k \in DOMAIN x /\ w[k] = x[k]
                             \/ k > b + 1 /\ k - 1 \in DOMAIN x /\ w[k] = x[k - 1]
  BY <1>1, <1>2, InsertedLines
<1>6. ASSUME NEW k \in DOMAIN w  PROVE IsEvent(w[k])
  BY <1>1, <1>5
<1>7. ASSUME NEW j \in DOMAIN w, NEW k \in DOMAIN w, j < k  PROVE History!Earlier(w[j], w[k])
  <2>1. /\ j \in Nat /\ k \in Nat /\ b \in Nat
    BY <1>2, <1>5
  <2>2. CASE j = b + 1
    <3>1. k > b + 1 /\ k - 1 \in DOMAIN x /\ w[k] = x[k - 1] /\ k - 1 > b
      BY <1>5, <1>7, <2>1, <2>2
    <3> QED
      BY <1>4, <1>5, <2>2, <3>1
  <2>3. CASE k = b + 1
    <3>1. j <= b /\ j \in DOMAIN x /\ w[j] = x[j]
      BY <1>5, <1>7, <2>1, <2>3
    <3> QED
      BY <1>4, <1>5, <2>3, <3>1
  <2>4. CASE j # b + 1 /\ k # b + 1
    <3>1. PICK i \in DOMAIN x, l \in DOMAIN x : w[j] = x[i] /\ w[k] = x[l] /\ i < l
      <4>1. CASE j <= b /\ k <= b
        <5>1. j \in DOMAIN x /\ w[j] = x[j] /\ k \in DOMAIN x /\ w[k] = x[k]
          BY <1>5, <2>1, <4>1
        <5> QED
          BY <1>7, <5>1
      <4>2. CASE j <= b /\ k > b + 1
        <5>1. j \in DOMAIN x /\ w[j] = x[j] /\ k - 1 \in DOMAIN x /\ w[k] = x[k - 1]
          BY <1>5, <2>1, <4>2
        <5>2. j < k - 1
          BY <2>1, <4>2
        <5> QED
          BY <5>1, <5>2
      <4>3. CASE j > b + 1 /\ k > b + 1
        <5>1. j - 1 \in DOMAIN x /\ w[j] = x[j - 1] /\ k - 1 \in DOMAIN x /\ w[k] = x[k - 1]
          BY <1>5, <2>1, <4>3
        <5>2. j - 1 < k - 1
          BY <1>7, <2>1
        <5> QED
          BY <5>1, <5>2
      <4> QED
        BY <1>7, <2>1, <2>4, <4>1, <4>2, <4>3
    <3> QED
      BY <3>1 DEF InTime
  <2> QED
    BY <2>2, <2>3, <2>4
<1> QED
  BY <1>2, <1>6, <1>7 DEF InTime, IsEvents, Inserted, w

\* To insert an element keeps a sequence of a set one.
LEMMA InsertedSeq ==
  ASSUME NEW V, NEW x \in Seq(V), NEW e \in V
  PROVE  History!Inserted(x, e) \in Seq(V)
<1> DEFINE w == History!Inserted(x, e)
           b == Cardinality(Before(x, e))
<1>1. IsLines(x) /\ Len(x) \in Nat /\ DOMAIN x = 1 .. Len(x) /\ \A k \in DOMAIN x : x[k] \in V
  BY LinesOf
<1>2. b \in 0 .. Len(x) /\ Inserted(w, x, e, b)
  BY <1>1, InsertedIs
<1> HIDE DEF w, b
<1>3. ToSet(w) = ToSet(x) \cup {e} /\ DOMAIN w = 1 .. Len(x) + 1 /\ w \in Seq(ToSet(w))
  BY <1>1, <1>2, InsertedLines DEF Inserted, IsLines
<1>4. ToSet(x) \subseteq V
  BY <1>1 DEF ToSet
<1>5. ToSet(w) \subseteq V
  BY <1>3, <1>4
<1>6. \A k \in 1 .. Len(w) : w[k] \in V
  BY <1>3, <1>5
<1>7. w \in Seq(V)
  BY <1>3, <1>6
<1> QED
  BY <1>7 DEF w

\* No two events of one id.
OneIdEach(s) == \A j, k \in DOMAIN s : s[j].id = s[k].id => j = k

\* The lines after n of the events are put among each other.
LEMMA SortedAfter ==
  ASSUME NEW s, IsLines(s)
  PROVE  \E sorted : /\ sorted[0] = <<>>
                     /\ \A n \in 1 .. Len(s) : sorted[n] = History!Inserted(sorted[n - 1], s[n])
                     /\ History!Canonical(s) = sorted[Len(s)]
<1> DEFINE N == Len(s)
           V == ToSet(s)
           X == Seq(V)
           G == [n \in 1 .. N |-> [x \in X |-> History!Inserted(x, s[n])]]
           Is(g) == g = [n \in 0 .. N |-> IF n = 0 THEN <<>> ELSE History!Inserted(g[n - 1], s[n])]
           sorted == CHOOSE g : Is(g)
<1>1. N \in Nat /\ DOMAIN s = 1 .. N /\ \A n \in 1 .. N : s[n] \in V
  BY DEF IsLines
<1>2. History!Canonical(s) = sorted[N]
  BY DEF History!Canonical
<1> HIDE DEF N, V
<1>3. <<>> \in X /\ \A x \in X, e \in V : History!Inserted(x, e) \in X
  BY InsertedSeq
<1> HIDE DEF X
<1>4. G \in [1 .. N -> [X -> X]]
  BY <1>1, <1>3
<1>5. \A x \in X, n \in 1 .. N : G[n][x] = History!Inserted(x, s[n])
  OBVIOUS
<1> HIDE DEF G
<1>6. PICK f : f \in [0 .. N -> X] /\ f[0] = <<>> /\ \A n \in 1 .. N : f[n] = G[n][f[n - 1]]
  <2>1. CanRun(N, X, <<>>, G)
    BY <1>1, <1>3, <1>4, Steps
  <2> QED
    BY <2>1 DEF CanRun, Runs
<1>7. \A n \in 1 .. N : f[n] = History!Inserted(f[n - 1], s[n])
  <2>1. \A n \in 1 .. N : n - 1 \in 0 .. N
    BY <1>1
  <2> QED
    BY <1>5, <1>6, <2>1
<1>8. Is(f)
  <2> DEFINE g == [n \in 0 .. N |-> IF n = 0 THEN <<>> ELSE History!Inserted(f[n - 1], s[n])]
  <2>1. ASSUME NEW n \in 0 .. N  PROVE f[n] = g[n]
    <3>1. CASE n = 0
      BY <1>6, <3>1
    <3>2. CASE n \in 1 .. N
      BY <1>7, <3>2
    <3> QED
      BY <1>1, <3>1, <3>2
  <2> QED
    BY <1>6, <2>1
<1>9. Is(sorted)
  BY <1>8
<1> HIDE DEF sorted
<1>10. sorted[0] = <<>> /\ \A n \in 1 .. N : sorted[n] = History!Inserted(sorted[n - 1], s[n])
  <2>1. 0 \in 0 .. N /\ \A n \in 1 .. N : n # 0 /\ n \in 0 .. N
    BY <1>1
  <2> QED
    BY <1>9, <2>1
<1> QED
  BY <1>2, <1>10 DEF N

\* A canonical history has the events of the lines, in their order.
LEMMA CanonicalIs ==
  ASSUME NEW s, IsEvents(s), OneIdEach(s)
  PROVE  InTime(History!Canonical(s)) /\ ToSet(History!Canonical(s)) = ToSet(s)
<1>1. PICK sorted : /\ sorted[0] = <<>>
                    /\ \A n \in 1 .. Len(s) : sorted[n] = History!Inserted(sorted[n - 1], s[n])
                    /\ History!Canonical(s) = sorted[Len(s)]
  BY SortedAfter DEF IsEvents
<1> DEFINE N == Len(s)
           Up(m) == {s[k] : k \in 1 .. m}
           S == {m \in 0 .. N : InTime(sorted[m]) /\ ToSet(sorted[m]) = Up(m)}
<1>2. N \in Nat /\ DOMAIN s = 1 .. N /\ \A k \in 1 .. N : IsEvent(s[k])
  BY DEF IsEvents, IsLines
<1>3. 0 \in S
  <2>1. ToSet(sorted[0]) = {} /\ Up(0) = {}
    BY <1>1 DEF ToSet
  <2>2. InTime(<<>>)
    BY NoLines DEF InTime
  <2> QED
    BY <1>1, <1>2, <2>1, <2>2
<1>4. ASSUME NEW m \in 0 .. N - 1, m \in S  PROVE m + 1 \in S
  <2> DEFINE x == sorted[m]
             e == s[m + 1]
             w == History!Inserted(x, e)
             b == Cardinality(Before(x, e))
  <2>1. m + 1 \in 1 .. N /\ (m + 1) - 1 = m /\ m + 1 \in 0 .. N /\ \A k \in 1 .. m : k \in 1 .. N /\ k # m + 1
    BY <1>2
  <2>2. InTime(x) /\ ToSet(x) = Up(m) /\ IsEvent(e)
    BY <1>2, <1>4, <2>1
  <2>3. sorted[m + 1] = w
    BY <1>1, <2>1
  <2>4. \A k \in DOMAIN x : x[k].id # e.id
    <3>1. ASSUME NEW k \in DOMAIN x  PROVE x[k].id # e.id
      <4>1. PICK j \in 1 .. m : x[k] = s[j]
        <5>1. x[k] \in ToSet(x)
          BY DEF ToSet
        <5> QED
          BY <2>2, <5>1
      <4> QED
        BY <1>2, <2>1, <4>1 DEF OneIdEach
    <3> QED
      BY <3>1
  <2> HIDE DEF x, e
  <2>5. InTime(w)
    BY <2>2, <2>4, InsertedInTime
  <2>6. ToSet(w) = ToSet(x) \cup {e}
    <3>1. IsLines(x)
      BY <2>2 DEF InTime, IsEvents
    <3>2. Len(x) \in Nat /\ b \in 0 .. Len(x) /\ Inserted(w, x, e, b)
      BY <3>1, InsertedIs
    <3> HIDE DEF w, b
    <3> QED
      BY <3>1, <3>2, InsertedLines
  <2>7. Up(m + 1) = Up(m) \cup {e}
    BY <2>1 DEF e
  <2> HIDE DEF w, Up
  <2> QED
    BY <2>1, <2>2, <2>3, <2>5, <2>6, <2>7
<1> HIDE DEF S
<1>5. N \in S
  <2>1. \A m \in 0 .. N - 1 : m \in S => m + 1 \in S
    BY <1>4
  <2>2. \A m \in 0 .. N : m \in S
    BY <1>2, <1>3, <2>1, StepByStep
  <2> QED
    BY <1>2, <2>2
<1>6. InTime(sorted[N]) /\ ToSet(sorted[N]) = Up(N)
  BY <1>5 DEF S
<1>7. Up(N) = ToSet(s)
  BY <1>2 DEF ToSet
<1> QED
  BY <1>1, <1>6, <1>7

-----------------------------------------------------------------------------
(* Two walks of one history.                                               *)

\* The events of a claim: all of them, and no others.
EventOf(e, events, c, m) == e.claim = c /\ \E k \in 1 .. m : e = events[k]
\* x holds the events of claim c among the first m.
Own(x, events, c, m) ==
  /\ IsLines(x) /\ OneIdEach(x)
  /\ \A e : e \in ToSet(x) <=> EventOf(e, events, c, m)

\* The lines with one more at the end.
LEMMA AppendLines ==
  ASSUME NEW x, IsLines(x), NEW e
  PROVE  /\ IsLines(Append(x, e)) /\ ToSet(Append(x, e)) = ToSet(x) \cup {e}
         /\ \A k \in DOMAIN Append(x, e) : (k \in DOMAIN x /\ Append(x, e)[k] = x[k])
                                           \/ (k = Len(x) + 1 /\ Append(x, e)[k] = e)
<1> DEFINE S == ToSet(x) \cup {e}
           y == Append(x, e)
<1>1. x \in Seq(S) /\ Len(x) \in Nat /\ DOMAIN x = 1 .. Len(x)
  BY SeqDef DEF IsLines
<1>2. /\ y \in Seq(S) /\ DOMAIN y = 1 .. Len(x) + 1 /\ y[Len(x) + 1] = e
      /\ \A k \in 1 .. Len(x) : y[k] = x[k]
  BY <1>1
<1> HIDE DEF y, S
<1>3. IsLines(y)
  BY <1>2, LinesOf
<1>4. \A k \in 1 .. Len(x) + 1 : k \in 1 .. Len(x) \/ k = Len(x) + 1
  BY <1>1
<1>5. ASSUME NEW z  PROVE z \in ToSet(y) <=> z \in ToSet(x) \cup {e}
  <2>1. z \in ToSet(y) <=> \E k \in 1 .. Len(x) + 1 : y[k] = z
    BY <1>2 DEF ToSet
  <2>2. z \in ToSet(x) <=> \E k \in 1 .. Len(x) : x[k] = z
    BY <1>1 DEF ToSet
  <2>3. Len(x) + 1 \in 1 .. Len(x) + 1 /\ \A k \in 1 .. Len(x) : k \in 1 .. Len(x) + 1
    BY <1>1
  <2> QED
    BY <1>2, <1>4, <2>1, <2>2, <2>3
<1> QED
  BY <1>1, <1>2, <1>3, <1>4, <1>5 DEF y

\* The events of a claim so far, event by event.
LEMMA OwnAfter ==
  ASSUME NEW events, IsLines(events), NEW c
  PROVE  \E own :
           /\ own[0] = <<>>
           /\ \A n \in 1 .. Len(events) :
                own[n] = IF events[n].claim = c THEN Append(own[n - 1], events[n]) ELSE own[n - 1]
           /\ EventsOf(events, c) = own[Len(events)]
<1> DEFINE N == Len(events)
           V == ToSet(events)
           X == Seq(V)
           G == [n \in 1 .. N |->
                   [x \in X |-> IF events[n].claim = c THEN Append(x, events[n]) ELSE x]]
           Is(g) == g = [n \in 0 .. N |->
                           IF n = 0 THEN <<>>
                           ELSE IF events[n].claim = c THEN Append(g[n - 1], events[n]) ELSE g[n - 1]]
           own == CHOOSE g : Is(g)
<1>1. N \in Nat /\ DOMAIN events = 1 .. N /\ \A n \in 1 .. N : events[n] \in V
  BY DEF IsLines
<1>2. EventsOf(events, c) = own[N]
  BY DEF EventsOf
<1> HIDE DEF N, V
<1>3. <<>> \in X /\ \A x \in X, e \in V : Append(x, e) \in X
  OBVIOUS
<1> HIDE DEF X
<1>4. G \in [1 .. N -> [X -> X]]
  BY <1>1, <1>3
<1>5. \A x \in X, n \in 1 .. N :
        G[n][x] = IF events[n].claim = c THEN Append(x, events[n]) ELSE x
  OBVIOUS
<1> HIDE DEF G
<1>6. PICK f : f \in [0 .. N -> X] /\ f[0] = <<>> /\ \A n \in 1 .. N : f[n] = G[n][f[n - 1]]
  <2>1. CanRun(N, X, <<>>, G)
    BY <1>1, <1>3, <1>4, Steps
  <2> QED
    BY <2>1 DEF CanRun, Runs
<1>7. \A n \in 1 .. N :
        f[n] = IF events[n].claim = c THEN Append(f[n - 1], events[n]) ELSE f[n - 1]
  <2>1. \A n \in 1 .. N : n - 1 \in 0 .. N
    BY <1>1
  <2> QED
    BY <1>5, <1>6, <2>1
<1>8. Is(f)
  <2> DEFINE g == [n \in 0 .. N |->
                     IF n = 0 THEN <<>>
                     ELSE IF events[n].claim = c THEN Append(f[n - 1], events[n]) ELSE f[n - 1]]
  <2>1. ASSUME NEW n \in 0 .. N  PROVE f[n] = g[n]
    <3>1. CASE n = 0
      BY <1>6, <3>1
    <3>2. CASE n \in 1 .. N
      BY <1>7, <3>2
    <3> QED
      BY <1>1, <3>1, <3>2
  <2> QED
    BY <1>6, <2>1
<1>9. Is(own)
  BY <1>8
<1> HIDE DEF own
<1>10. /\ own[0] = <<>>
       /\ \A n \in 1 .. N :
            own[n] = IF events[n].claim = c THEN Append(own[n - 1], events[n]) ELSE own[n - 1]
  <2>1. 0 \in 0 .. N /\ \A n \in 1 .. N : n # 0 /\ n \in 0 .. N
    BY <1>1
  <2> QED
    BY <1>9, <2>1
<1> QED
  BY <1>2, <1>10 DEF N

\* EventsOf takes the events of a claim, all and no others.
LEMMA EventsOfIs ==
  ASSUME NEW events, IsEvents(events), OneIdEach(events), NEW c
  PROVE  /\ IsEvents(EventsOf(events, c)) /\ OneIdEach(EventsOf(events, c))
         /\ \A e : e \in ToSet(EventsOf(events, c)) <=> e.claim = c /\ e \in ToSet(events)
<1> DEFINE N == Len(events)
<1>1. PICK own :
           /\ own[0] = <<>>
           /\ \A n \in 1 .. N :
                own[n] = IF events[n].claim = c THEN Append(own[n - 1], events[n]) ELSE own[n - 1]
           /\ EventsOf(events, c) = own[N]
  BY OwnAfter DEF IsEvents
<1> DEFINE S == {m \in 0 .. N : Own(own[m], events, c, m)}
<1>2. N \in Nat /\ DOMAIN events = 1 .. N /\ \A k \in 1 .. N : IsEvent(events[k])
  BY DEF IsEvents, IsLines
<1>3. 0 \in S
  <2>1. ToSet(own[0]) = {} /\ DOMAIN own[0] = {} /\ IsLines(own[0])
    BY <1>1, NoLines DEF ToSet
  <2>2. Own(own[0], events, c, 0)
    BY <2>1 DEF Own, OneIdEach, EventOf
  <2> QED
    BY <1>2, <2>2
<1>4. ASSUME NEW m \in 0 .. N - 1, m \in S  PROVE m + 1 \in S
  <2> DEFINE x == own[m]
             e == events[m + 1]
             y == Append(x, e)
  <2>1. /\ m + 1 \in 1 .. N /\ (m + 1) - 1 = m /\ m + 1 \in 0 .. N
        /\ \A k \in 1 .. m : k \in 1 .. N /\ k # m + 1 /\ k \in 1 .. m + 1
        /\ \A k \in 1 .. m + 1 : k \in 1 .. m \/ k = m + 1
        /\ m + 1 \in 1 .. m + 1
    BY <1>2
  <2>2. IsLines(x) /\ OneIdEach(x) /\ \A z : z \in ToSet(x) <=> EventOf(z, events, c, m)
    BY <1>4 DEF Own
  <2>3. own[m + 1] = IF e.claim = c THEN y ELSE x
    BY <1>1, <2>1
  <2>4. \A z : EventOf(z, events, c, m + 1) <=> EventOf(z, events, c, m) \/ (z = e /\ e.claim = c)
    BY <2>1 DEF EventOf
  <2>5. CASE e.claim # c
    <3>1. \A z : z \in ToSet(x) <=> EventOf(z, events, c, m + 1)
      BY <2>2, <2>4, <2>5
    <3> HIDE DEF x
    <3>2. Own(x, events, c, m + 1)
      BY <2>2, <3>1 DEF Own
    <3> QED
      BY <2>1, <2>3, <2>5, <3>2
  <2>6. CASE e.claim = c
    <3>1. \A k \in DOMAIN x : x[k].id # e.id
      <4>1. ASSUME NEW k \in DOMAIN x  PROVE x[k].id # e.id
        <5>1. x[k] \in ToSet(x)
          BY DEF ToSet
        <5>2. PICK j \in 1 .. m : x[k] = events[j]
          BY <2>2, <5>1 DEF EventOf
        <5> QED
          BY <1>2, <2>1, <5>2 DEF OneIdEach
      <4> QED
        BY <4>1
    <3> HIDE DEF x, e
    <3>2. /\ IsLines(y) /\ ToSet(y) = ToSet(x) \cup {e}
          /\ \A k \in DOMAIN y : (k \in DOMAIN x /\ y[k] = x[k]) \/ (k = Len(x) + 1 /\ y[k] = e)
      BY <2>2, AppendLines
    <3> HIDE DEF y
    <3>3. OneIdEach(y)
      BY <2>2, <3>1, <3>2 DEF OneIdEach
    <3>4. \A z : z \in ToSet(y) <=> EventOf(z, events, c, m + 1)
      BY <2>2, <2>4, <2>6, <3>2
    <3>5. Own(y, events, c, m + 1)
      BY <3>2, <3>3, <3>4 DEF Own
    <3> QED
      BY <2>1, <2>3, <2>6, <3>5
  <2> QED
    BY <2>5, <2>6
<1> HIDE DEF S
<1>5. N \in S
  <2>1. \A m \in 0 .. N - 1 : m \in S => m + 1 \in S
    BY <1>4
  <2>2. \A m \in 0 .. N : m \in S
    BY <1>2, <1>3, <2>1, StepByStep
  <2> QED
    BY <1>2, <2>2
<1> DEFINE x == EventsOf(events, c)
<1>6. Own(x, events, c, N)
  BY <1>1, <1>5 DEF S
<1> HIDE DEF x
<1>7. \A e : e \in ToSet(events) <=> \E k \in 1 .. N : e = events[k]
  BY <1>2 DEF ToSet
<1>8. \A e : e \in ToSet(x) <=> e.claim = c /\ e \in ToSet(events)
  BY <1>6, <1>7 DEF Own, EventOf
<1>9. \A k \in DOMAIN x : IsEvent(x[k])
  <2>1. \A k \in DOMAIN x : x[k] \in ToSet(x)
    BY DEF ToSet
  <2> QED
    BY <1>2, <1>7, <1>8, <2>1
<1> QED
  BY <1>6, <1>8, <1>9 DEF Own, IsEvents, x

\* Where a walk along a history may stand.
LegalStates == {"active", "superseded", "withdrawn"}
Walked == LegalStates \cup {"new", "illegal"}

\* An illegal walk stays illegal, and a legal step is the reader's step.
LEMMA WalkIs ==
  ASSUME NEW state, NEW e
  PROVE  /\ History!Walk(state, e) \in LegalStates \cup {"illegal"}
         /\ History!Walk("illegal", e) = "illegal"
         /\ History!Walk(state, e) # "illegal" =>
              History!Walk(state, e) = ReaderStep(IF state = "new" THEN "NEW" ELSE state, e)
<1>1. History!Matrix(state, e.type) \in LegalStates \cup {"illegal"}
  BY DEF History!Matrix, LegalStates
<1>2. History!Matrix("illegal", e.type) = "illegal"
  BY DEF History!Matrix
<1>3. History!Matrix(state, e.type) # "illegal" =>
        History!Matrix(state, e.type) = ReaderStep(IF state = "new" THEN "NEW" ELSE state, e)
  BY DEF History!Matrix, ReaderStep
<1> QED
  BY <1>1, <1>2, <1>3 DEF History!Walk

\* The states of one claim along its history.
Along(chain, state) ==
  /\ state[0] = "new"
  /\ \A n \in 1 .. Len(chain) :
       state[n] = History!Walk(state[n - 1], chain[n]) /\ state[n] \in LegalStates

\* A legal history has the state after each of its events.
LEMMA LegalWalk ==
  ASSUME NEW s, IsLines(History!Canonical(s)), History!LifecycleOK(s)
  PROVE  \E state : Along(History!Canonical(s), state)
<1> DEFINE chain == History!Canonical(s)
           N == Len(chain)
           G == [n \in 1 .. N |-> [x \in Walked |-> History!Walk(x, chain[n])]]
           Is(g) == g = [n \in 0 .. N |-> IF n = 0 THEN "new" ELSE History!Walk(g[n - 1], chain[n])]
           state == CHOOSE g : Is(g)
<1>1. N \in Nat
  BY DEF IsLines
<1>2. state[N] # "illegal"
  BY DEF History!LifecycleOK
<1> HIDE DEF N, chain
<1>3. "new" \in Walked /\ \A x, e : History!Walk(x, e) \in Walked
  BY WalkIs DEF Walked
<1>4. G \in [1 .. N -> [Walked -> Walked]]
  BY <1>1, <1>3
<1>5. \A x \in Walked, n \in 1 .. N : G[n][x] = History!Walk(x, chain[n])
  OBVIOUS
<1> HIDE DEF G
<1>6. PICK f : f \in [0 .. N -> Walked] /\ f[0] = "new" /\ \A n \in 1 .. N : f[n] = G[n][f[n - 1]]
  <2>1. CanRun(N, Walked, "new", G)
    BY <1>1, <1>3, <1>4, Steps
  <2> QED
    BY <2>1 DEF CanRun, Runs
<1>7. \A n \in 1 .. N : f[n] = History!Walk(f[n - 1], chain[n])
  <2>1. \A n \in 1 .. N : n - 1 \in 0 .. N
    BY <1>1
  <2> QED
    BY <1>5, <1>6, <2>1
<1>8. Is(f)
  <2> DEFINE g == [n \in 0 .. N |-> IF n = 0 THEN "new" ELSE History!Walk(f[n - 1], chain[n])]
  <2>1. ASSUME NEW n \in 0 .. N  PROVE f[n] = g[n]
    <3>1. CASE n = 0
      BY <1>6, <3>1
    <3>2. CASE n \in 1 .. N
      BY <1>7, <3>2
    <3> QED
      BY <1>1, <3>1, <3>2
  <2> QED
    BY <1>6, <2>1
<1>9. Is(state)
  BY <1>8
<1> HIDE DEF state
<1>10. state[0] = "new" /\ \A n \in 1 .. N : state[n] = History!Walk(state[n - 1], chain[n])
  <2>1. 0 \in 0 .. N /\ \A n \in 1 .. N : n # 0 /\ n \in 0 .. N
    BY <1>1
  <2> QED
    BY <1>9, <2>1
<1> DEFINE S == {m \in 0 .. N : state[N - m] # "illegal"}
<1>11. 0 \in S
  BY <1>1, <1>2
<1>12. ASSUME NEW m \in 0 .. N - 1, m \in S  PROVE m + 1 \in S
  <2>1. N - m \in 1 .. N /\ (N - m) - 1 = N - (m + 1) /\ m + 1 \in 0 .. N
    BY <1>1
  <2>2. state[N - m] = History!Walk(state[N - (m + 1)], chain[N - m])
    BY <1>10, <2>1
  <2>3. state[N - (m + 1)] # "illegal"
    BY <1>12, <2>2, WalkIs
  <2> QED
    BY <2>1, <2>3
<1> HIDE DEF S
<1>13. \A m \in 0 .. N : m \in S
  <2>1. \A m \in 0 .. N - 1 : m \in S => m + 1 \in S
    BY <1>12
  <2> QED
    BY <1>1, <1>11, <2>1, StepByStep
<1>14. ASSUME NEW n \in 1 .. N  PROVE state[n] \in LegalStates
  <2>1. N - n \in 0 .. N /\ N - (N - n) = n
    BY <1>1
  <2>2. N - n \in S
    BY <1>13, <2>1
  <2>3. state[n] # "illegal"
    BY <2>1, <2>2 DEF S
  <2> QED
    BY <1>10, <2>3, WalkIs
<1> QED
  BY <1>10, <1>14 DEF Along, N, chain

\* The states the reader gives all claims along all events.
Reads(events, claims, states) ==
  LET walk == InOrder(events)
      met == claims \cup {events[k].claim : k \in DOMAIN events}
  IN  /\ \A c \in met : states[0][c] = "NEW"
      /\ \A n \in 1 .. Len(walk), c \in met :
           states[n][c] = IF walk[n].claim = c THEN ReaderStep(states[n - 1][c], walk[n])
                          ELSE states[n - 1][c]
      /\ DOMAIN ReaderStates(events, claims) = met
      /\ ReaderStates(events, claims) = states[Len(walk)]

\* The reader goes along all events in order, a state for each claim it met.
LEMMA ReaderReads ==
  ASSUME NEW events, IsEvents(events), OneIdEach(events), NEW claims
  PROVE  \E states : Reads(events, claims, states)
<1> DEFINE walk == InOrder(events)
           met == claims \cup {events[k].claim : k \in DOMAIN events}
           N == Len(walk)
           Y == LegalStates \cup {"NEW", "illegal"}
           X == [met -> Y]
           base == [c \in met |-> "NEW"]
           next(x, n) == [x EXCEPT ![walk[n].claim] = ReaderStep(@, walk[n])]
           G == [n \in 1 .. N |-> [x \in X |-> next(x, n)]]
           Is(g) == g = [n \in 0 .. N |-> IF n = 0 THEN base ELSE next(g[n - 1], n)]
           states == CHOOSE g : Is(g)
<1>1. N \in Nat /\ \A n \in 1 .. N : walk[n].claim \in met
  <2>1. InTime(walk) /\ ToSet(walk) = ToSet(events)
    BY CanonicalIs DEF InOrder
  <2>2. N \in Nat /\ DOMAIN walk = 1 .. N
    BY <2>1 DEF InTime, IsEvents, IsLines
  <2>3. \A n \in 1 .. N : walk[n] \in ToSet(events)
    BY <2>1, <2>2 DEF ToSet
  <2>4. \A e \in ToSet(events) : e.claim \in met
    BY DEF ToSet
  <2> QED
    BY <2>2, <2>3, <2>4
<1>2. ReaderStates(events, claims) = states[N]
  BY DEF ReaderStates
<1> HIDE DEF N, walk, met
<1>3. \A s, e : ReaderStep(s, e) \in Y
  BY DEF ReaderStep, LegalStates
<1> HIDE DEF Y
<1>4. ASSUME NEW x \in X, NEW n \in 1 .. N
      PROVE  /\ next(x, n) \in X
             /\ \A c \in met : next(x, n)[c] = IF walk[n].claim = c THEN ReaderStep(x[c], walk[n])
                                               ELSE x[c]
  BY <1>1, <1>3
<1>5. base \in X
  BY DEF Y
<1> HIDE DEF X, next, base
<1>6. G \in [1 .. N -> [X -> X]]
  BY <1>4
<1>7. \A x \in X, n \in 1 .. N : G[n][x] = next(x, n)
  OBVIOUS
<1> HIDE DEF G
<1>8. PICK f : f \in [0 .. N -> X] /\ f[0] = base /\ \A n \in 1 .. N : f[n] = G[n][f[n - 1]]
  <2>1. CanRun(N, X, base, G)
    BY <1>1, <1>5, <1>6, Steps
  <2> QED
    BY <2>1 DEF CanRun, Runs
<1>9. \A n \in 1 .. N : f[n] = next(f[n - 1], n)
  <2>1. \A n \in 1 .. N : n - 1 \in 0 .. N
    BY <1>1
  <2> QED
    BY <1>7, <1>8, <2>1
<1>10. Is(f)
  <2> DEFINE g == [n \in 0 .. N |-> IF n = 0 THEN base ELSE next(f[n - 1], n)]
  <2>1. ASSUME NEW n \in 0 .. N  PROVE f[n] = g[n]
    <3>1. CASE n = 0
      BY <1>8, <3>1
    <3>2. CASE n \in 1 .. N
      BY <1>9, <3>2
    <3> QED
      BY <1>1, <3>1, <3>2
  <2> QED
    BY <1>8, <2>1
<1>11. Is(states)
  BY <1>10
<1> HIDE DEF states
<1>12. states[0] = base /\ \A n \in 1 .. N : states[n] = next(states[n - 1], n)
  <2>1. 0 \in 0 .. N /\ \A n \in 1 .. N : n # 0 /\ n \in 0 .. N
    BY <1>1
  <2> QED
    BY <1>11, <2>1
<1>13. states \in [0 .. N -> X]
  <2>1. states = [n \in 0 .. N |-> states[n]]
    BY <1>11
  <2>2. \A n \in 1 .. N : states[n - 1] \in X => states[n] = G[n][states[n - 1]]
    BY <1>7, <1>12
  <2>3. Runs(states, N, X, base, G)
    BY <1>1, <1>5, <1>6, <1>12, <2>1, <2>2, StepsAre
  <2> QED
    BY <2>3 DEF Runs
<1>14. ASSUME NEW n \in 1 .. N, NEW c \in met
       PROVE  states[n][c] = IF walk[n].claim = c THEN ReaderStep(states[n - 1][c], walk[n])
                             ELSE states[n - 1][c]
  <2>1. n - 1 \in 0 .. N
    BY <1>1
  <2>2. states[n - 1] \in X
    BY <1>13, <2>1
  <2> QED
    BY <1>4, <1>12, <2>2
<1>15. \A c \in met : states[0][c] = "NEW"
  BY <1>12 DEF base
<1>16. DOMAIN states[N] = met
  <2>1. N \in 0 .. N
    BY <1>1
  <2> QED
    BY <1>13, <2>1 DEF X
<1> QED
  BY <1>2, <1>14, <1>15, <1>16 DEF Reads, N, walk, met

\* The reader's walk of all events leaves a claim in the state that a legal
\* walk of its own events ends in.
LEMMA WalksAgree ==
  ASSUME NEW events, IsEvents(events), OneIdEach(events), NEW claims,
         NEW c, History!LifecycleOK(EventsOf(events, c)),
         NEW some \in DOMAIN events, events[some].claim = c
  PROVE  ReaderStates(events, claims)[c] \in LegalStates
<1> DEFINE own == EventsOf(events, c)
           chain == History!Canonical(own)
           walk == InOrder(events)
           M == Len(chain)
           N == Len(walk)
           met == claims \cup {events[k].claim : k \in DOMAIN events}
<1>1. /\ IsEvents(own) /\ OneIdEach(own)
      /\ \A e : e \in ToSet(own) <=> e.claim = c /\ e \in ToSet(events)
  BY EventsOfIs
<1>2. InTime(chain) /\ ToSet(chain) = ToSet(own)
  <2> HIDE DEF own
  <2> QED
    BY <1>1, CanonicalIs
<1>3. InTime(walk) /\ ToSet(walk) = ToSet(events)
  BY CanonicalIs DEF InOrder
<1>4. PICK state : Along(chain, state)
  <2>1. IsLines(chain)
    BY <1>2 DEF InTime, IsEvents
  <2> QED
    BY <2>1, LegalWalk
<1>5. PICK states : Reads(events, claims, states)
  BY ReaderReads
<1>6. c \in met
  OBVIOUS
<1>7. /\ states[0][c] = "NEW" /\ ReaderStates(events, claims) = states[N]
      /\ \A n \in 1 .. N : states[n][c] = IF walk[n].claim = c THEN ReaderStep(states[n - 1][c], walk[n])
                                          ELSE states[n - 1][c]
  BY <1>5, <1>6 DEF Reads
<1> HIDE DEF own, chain, walk, met
<1>8. M \in Nat /\ DOMAIN chain = 1 .. M /\ N \in Nat /\ DOMAIN walk = 1 .. N
  BY <1>2, <1>3 DEF InTime, IsEvents, IsLines
<1> HIDE DEF M, N
<1>9. /\ \A i \in 1 .. M : IsEvent(chain[i]) /\ chain[i].claim = c /\ \E k \in 1 .. N : walk[k] = chain[i]
      /\ \A k \in 1 .. N : walk[k].claim = c => \E i \in 1 .. M : walk[k] = chain[i]
      /\ \A k \in 1 .. N : IsEvent(walk[k])
  <2>1. \A e : e \in ToSet(chain) <=> e.claim = c /\ e \in ToSet(walk)
    BY <1>1, <1>2, <1>3
  <2>2. /\ \A e : e \in ToSet(chain) <=> \E i \in 1 .. M : chain[i] = e
        /\ \A e : e \in ToSet(walk) <=> \E k \in 1 .. N : walk[k] = e
    BY <1>8 DEF ToSet
  <2>3. (\A i \in 1 .. M : IsEvent(chain[i])) /\ \A k \in 1 .. N : IsEvent(walk[k])
    BY <1>2, <1>3, <1>8 DEF InTime, IsEvents
  <2> QED
    BY <2>1, <2>2, <2>3
<1>10. /\ \A i, j \in 1 .. M : i < j => History!Earlier(chain[i], chain[j])
       /\ \A i, j \in 1 .. N : i < j => History!Earlier(walk[i], walk[j])
  BY <1>2, <1>3, <1>8 DEF InTime
<1>11. \A a, b : IsEvent(a) /\ IsEvent(b) /\ History!Earlier(a, b) => ~History!Earlier(b, a) /\ a # b
  BY EarlierIs
<1> DEFINE Reached(m) == IF m = 0 THEN "NEW" ELSE state[m]
           Same(n, m) == \A e : (\E i \in 1 .. m : e = chain[i])
                                  <=> (\E k \in 1 .. n : e = walk[k] /\ e.claim = c)
           Met(n, m) == m \in 0 .. M /\ Same(n, m) /\ states[n][c] = Reached(m)
           S == {n \in 0 .. N : \E m : Met(n, m)}
<1>12. 0 \in S
  <2>1. Same(0, 0) /\ states[0][c] = Reached(0) /\ 0 \in 0 .. M /\ 0 \in 0 .. N
    BY <1>7, <1>8
  <2> HIDE DEF Same, Reached
  <2> QED
    BY <2>1
<1>13. ASSUME NEW n \in 0 .. N - 1, n \in S  PROVE n + 1 \in S
  <2>1. PICK m : Met(n, m)
    BY <1>13
  <2> DEFINE e == walk[n + 1]
  <2>2. /\ n + 1 \in 1 .. N /\ (n + 1) - 1 = n /\ n + 1 \in 0 .. N /\ n \in Nat /\ m \in 0 .. M /\ m \in Nat
        /\ \A k \in 1 .. n : k \in 1 .. N /\ k < n + 1 /\ k \in 1 .. n + 1
        /\ \A k \in 1 .. n + 1 : k \in 1 .. n \/ k = n + 1
        /\ n + 1 \in 1 .. n + 1
    BY <1>8, <2>1
  <2>3. Same(n, m) /\ states[n][c] = Reached(m)
    BY <2>1
  <2>4. states[n + 1][c] = IF e.claim = c THEN ReaderStep(states[n][c], e) ELSE states[n][c]
    BY <1>7, <2>2
  <2>5. CASE e.claim # c
    <3>1. Same(n + 1, m)
      BY <2>2, <2>3, <2>5
    <3> HIDE DEF Same, Reached
    <3>2. Met(n + 1, m)
      BY <2>2, <2>3, <2>4, <2>5, <3>1
    <3> QED
      BY <2>2, <3>2
  <2>6. CASE e.claim = c
    <3>1. PICK j \in 1 .. M : e = chain[j]
      BY <1>9, <2>2, <2>6
    <3>2. j \notin 1 .. m
      <4>1. ASSUME j \in 1 .. m  PROVE FALSE
        <5>1. PICK k \in 1 .. n : e = walk[k]
          BY <2>3, <3>1, <4>1
        <5>2. History!Earlier(walk[k], walk[n + 1]) /\ IsEvent(walk[k])
          BY <1>9, <1>10, <2>2, <5>1
        <5> QED
          BY <1>11, <5>1, <5>2
      <4> QED
        BY <4>1
    <3>3. m + 1 \in 1 .. M /\ m + 1 <= j
      BY <1>8, <2>2, <3>1, <3>2
    <3>4. PICK i \in 1 .. N : walk[i] = chain[m + 1]
      BY <1>9, <3>3
    <3>5. i \notin 1 .. n
      <4>1. ASSUME i \in 1 .. n  PROVE FALSE
        <5>1. chain[m + 1].claim = c
          BY <1>9, <3>3
        <5>2. PICK l \in 1 .. m : chain[m + 1] = chain[l]
          BY <2>3, <3>4, <4>1, <5>1
        <5>3. l \in 1 .. M /\ l < m + 1
          BY <1>8, <2>2, <5>2
        <5>4. History!Earlier(chain[l], chain[m + 1]) /\ IsEvent(chain[l])
          BY <1>9, <1>10, <3>3, <5>3
        <5> QED
          BY <1>11, <5>2, <5>4
      <4> QED
        BY <4>1
    <3>6. ~ (n + 1 < i)
      <4>1. ASSUME n + 1 < i  PROVE FALSE
        <5>1. History!Earlier(chain[j], chain[m + 1])
          BY <1>10, <2>2, <3>1, <3>4, <4>1
        <5>2. IsEvent(chain[j]) /\ IsEvent(chain[m + 1])
          BY <1>9, <3>1, <3>3
        <5>3. j # m + 1
          BY <1>11, <5>1, <5>2
        <5>4. m + 1 < j
          BY <2>2, <3>1, <3>3, <5>3
        <5>5. History!Earlier(chain[m + 1], chain[j])
          BY <1>10, <3>1, <3>3, <5>4
        <5> QED
          BY <1>11, <5>1, <5>2, <5>5
      <4> QED
        BY <4>1
    <3>7. i = n + 1
      BY <1>8, <2>2, <3>4, <3>5, <3>6
    <3>8. e = chain[m + 1]
      BY <3>4, <3>7
    <3>9. Same(n + 1, m + 1)
      <4>1. \A l \in 1 .. m + 1 : l \in 1 .. m \/ l = m + 1
        BY <2>2
      <4>2. m + 1 \in 1 .. m + 1 /\ \A l \in 1 .. m : l \in 1 .. m + 1
        BY <2>2
      <4>3. ASSUME NEW z
            PROVE  (\E l \in 1 .. m + 1 : z = chain[l]) <=> (\E l \in 1 .. m : z = chain[l]) \/ z = e
        BY <3>8, <4>1, <4>2
      <4>4. ASSUME NEW z
            PROVE  (\E k \in 1 .. n + 1 : z = walk[k] /\ z.claim = c)
                     <=> (\E k \in 1 .. n : z = walk[k] /\ z.claim = c) \/ z = e
        BY <2>2, <2>6
      <4> QED
        BY <2>3, <4>3, <4>4
    <3>10. states[n + 1][c] = Reached(m + 1)
      <4>1. state[m + 1] = History!Walk(state[m], e) /\ state[m + 1] \in LegalStates
        <5>1. (m + 1) - 1 = m /\ m + 1 \in 1 .. Len(chain)
          BY <2>2, <3>3 DEF M
        <5> QED
          BY <1>4, <3>8, <5>1 DEF Along
      <4>2. state[m + 1] # "illegal"
        BY <4>1 DEF LegalStates
      <4>3. state[m + 1] = ReaderStep(IF state[m] = "new" THEN "NEW" ELSE state[m], e)
        BY <4>1, <4>2, WalkIs
      <4>4. Reached(m) = IF state[m] = "new" THEN "NEW" ELSE state[m]
        <5>1. CASE m = 0
          BY <1>4, <5>1 DEF Along
        <5>2. CASE m \in 1 .. M
          BY <1>4, <5>2 DEF Along, M, LegalStates
        <5> QED
          BY <2>2, <5>1, <5>2
      <4>5. states[n + 1][c] = ReaderStep(Reached(m), e)
        BY <2>3, <2>4, <2>6
      <4>6. Reached(m + 1) = state[m + 1]
        BY <2>2
      <4> HIDE DEF Reached
      <4> QED
        BY <4>3, <4>4, <4>5, <4>6
    <3> HIDE DEF Same, Reached
    <3>11. m + 1 \in 0 .. M
      BY <1>8, <3>3
    <3>12. Met(n + 1, m + 1)
      BY <3>9, <3>10, <3>11
    <3> QED
      BY <2>2, <3>12
  <2> QED
    BY <2>5, <2>6
<1> HIDE DEF S
<1>14. N \in S
  <2>1. \A n \in 0 .. N - 1 : n \in S => n + 1 \in S
    BY <1>13
  <2>2. \A n \in 0 .. N : n \in S
    BY <1>8, <1>12, <2>1, StepByStep
  <2> QED
    BY <1>8, <2>2
<1>15. PICK m : Met(N, m)
  BY <1>14 DEF S
<1>16. m \in 1 .. M
  <2>1. events[some] \in ToSet(walk)
    BY <1>3 DEF ToSet
  <2>2. \E k \in 1 .. N : events[some] = walk[k]
    BY <1>8, <2>1 DEF ToSet
  <2>3. \E i \in 1 .. m : events[some] = chain[i]
    BY <1>15, <2>2
  <2> QED
    BY <1>8, <1>15, <2>3
<1>17. state[m] \in LegalStates
  BY <1>4, <1>16 DEF Along, M
<1>18. states[N][c] = state[m]
  BY <1>8, <1>15, <1>16
<1> QED
  BY <1>7, <1>17, <1>18

\* What verify accepts the reader does.
LEMMA AcceptedIsRead ==
  ASSUME NEW t, IsTree(t), Verify(t) = "OK"
  PROVE  CanonicalCheck(t) = "OK"
<1> DEFINE m == t[Manifest]
           events == t[Events]
           claims == {c.id : c \in m.claims}
           states == ReaderStates(events, claims)
<1>1. Manifest \in DOMAIN t /\ Events \in DOMAIN t /\ Checked(t, m, events) = "OK"
  BY DEF Verify
<1>2. /\ ValidPackage(m, events) /\ IdsUnique(m, events) /\ PathsOK(m) /\ HashesOK(m, t)
      /\ InstancesOK(m, events)
  BY <1>1 DEF Checked
<1>3. IsEvents(events) /\ OneIdEach(events)
  BY <1>1, <1>2 DEF IsTree, IdsUnique, OneIdEach
<1>4. m # Junk /\ m.format = "2.0" /\ \A c, d \in m.claims : c.id = d.id => c = d
  BY <1>2 DEF ValidPackage, ManifestOK, VersionOK
<1>5. \A k \in DOMAIN events : History!LifecycleOK(EventsOf(events, events[k].claim))
  BY <1>2 DEF ValidPackage
<1>6. \A c \in claims : \E k \in DOMAIN events : events[k].claim = c
  BY <1>2 DEF InstancesOK
<1> HIDE DEF m, events, claims
<1>7. DOMAIN states = claims \cup {events[k].claim : k \in DOMAIN events}
  <2>1. PICK all : Reads(events, claims, all)
    BY <1>3, ReaderReads
  <2> QED
    BY <2>1 DEF Reads
<1>8. ASSUME NEW c \in DOMAIN states  PROVE states[c] \in LegalStates
  <2>1. PICK k \in DOMAIN events : events[k].claim = c
    BY <1>6, <1>7, <1>8
  <2>2. History!LifecycleOK(EventsOf(events, c))
    BY <1>5, <2>1
  <2> QED
    BY <1>3, <2>1, <2>2, WalksAgree
<1>9. /\ ~\E c \in DOMAIN states : states[c] = "illegal"
      /\ ~\E c \in claims : states[c] = "NEW"
  BY <1>7, <1>8 DEF LegalStates
<1>10. Classify(t) = "valid"
  <2>1. ReaderEvents(t) = events
    BY <1>1 DEF ReaderEvents, events
  <2> HIDE DEF states
  <2>2. states = ReaderStates(ReaderEvents(t), claims)
    BY <2>1 DEF states
  <2> QED
    BY <1>1, <1>4, <1>9, <2>2 DEF Classify, m, claims
<1>11. \A c \in m.claims : ClaimFile(c.path) \in DOMAIN t
  BY <1>2 DEF HashesOK
<1>12. NamesDiffer(m)
  BY <1>2, <1>4 DEF NamesDiffer, PathsOK
<1> QED
  BY <1>1, <1>4, <1>10, <1>11, <1>12 DEF CanonicalCheck, RequireValid, m

\* The two archives of a directory are one.
LEMMA PackedIsCanonical ==
  ASSUME NEW t, IsTree(t), PackCheck(t) = "OK", CanonicalCheck(t) = "OK"
  PROVE  Packed(t) = CanonicalArchive(t)
<1> DEFINE m == t[Manifest]
           entry(c) == [id |-> c.id, inst |-> c.inst, hash |-> Sha256(t[ClaimFile(c.path)]),
                        path |-> c.path, state |-> c.state]
           anew(c) == [id |-> c.id, inst |-> c.inst, path |-> c.path, state |-> c.state,
                       hash |-> Sha256(t[ClaimFile(c.path)])]
           files == {ClaimFile(c.path) : c \in m.claims}
<1>1. Manifest \in DOMAIN t /\ Events \in DOMAIN t /\ m # Junk
  BY DEF CanonicalCheck
<1>2. files \subseteq DOMAIN t
  BY DEF CanonicalCheck
<1>3. Rehashed(t) = ManifestAnew(t)
  <2>1. \A c : entry(c) = anew(c)
    OBVIOUS
  <2> HIDE DEF entry, anew
  <2>2. {entry(c) : c \in m.claims} = {anew(c) : c \in m.claims}
    BY <2>1
  <2>3. Rehashed(t) = [format |-> m.format, package |-> m.package,
                       claims |-> {entry(c) : c \in m.claims}]
    BY <1>1, RehashedIs DEF entry
  <2>4. ManifestAnew(t) = [format |-> m.format, package |-> m.package,
                           claims |-> {anew(c) : c \in m.claims}]
    BY DEF ManifestAnew, anew
  <2> QED
    BY <2>2, <2>3, <2>4
<1> HIDE DEF files
<1> DEFINE names == DOMAIN t \cap ({Notice, Events} \cup files)
           domain == {Manifest, Events} \cup files \cup (IF Notice \in DOMAIN t THEN {Notice} ELSE {})
<1>4. /\ Packed(t) = [n \in names \cup {Manifest} |-> IF n = Manifest THEN Rehashed(t)
                                                      ELSE [k \in names |-> t[k]][n]]
  BY DEF Packed, With, Only, files
<1>5. CanonicalArchive(t) = [n \in domain |-> IF n = Manifest THEN ManifestAnew(t) ELSE t[n]]
  BY DEF CanonicalArchive, files
<1>6. names \cup {Manifest} = domain
  BY <1>1, <1>2
<1> HIDE DEF names, domain
<1> QED
  BY <1>3, <1>4, <1>5, <1>6

\* What verify accepts the reader has an archive of, and pack's is the same:
\* two walks of one history end in the same states, in whatever order the
\* lines are.
THEOREM ReaderIsPacker ==
  ASSUME LifeAssumption
  PROVE  LifeSpec => []ReadersAgree
<1>1. TreesOK => ReadersAgree
  <2> SUFFICES ASSUME TreesOK  PROVE ReadersAgree
    OBVIOUS
  <2>1. IsTree(dir)
    BY DEF TreesOK
  <2>2. VerifyDirectory(dir, FALSE, FALSE) = Verify(dir)
    BY DEF VerifyDirectory
  <2> QED
    BY <2>1, <2>2, AcceptedIsRead, PackedIsCanonical DEF ReadersAgree
<1> QED
  BY <1>1, TreesAreTrees, PTL

=============================================================================
