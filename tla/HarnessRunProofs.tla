-------------------------- MODULE HarnessRunProofs --------------------------
(***************************************************************************)
(* Proofs about HarnessRun for every suite, every order of the tests and   *)
(* every choice of filters: the deploy cache never deploys a contract      *)
(* twice, and the loop's counters agree with what became of each test.     *)
(***************************************************************************)
EXTENDS HarnessRun, NaturalsInduction, WellFoundedInduction, SequenceTheorems,
        FiniteSetTheorems, TLAPS

-----------------------------------------------------------------------------
(* Induction over an interval of naturals, by a least counterexample: the  *)
(* recursive functions of the model (the deploy loop, SelectSeq) are       *)
(* reasoned about with it.                                                 *)

\* A set of indices that holds 0 and is closed under successor up to n holds
\* all of 0..n.
LEMMA IntervalInduction ==
    ASSUME NEW n \in Nat, NEW G, 0 \in G,
           \A k \in 1..n : k - 1 \in G => k \in G
    PROVE  0..n \subseteq G
<1> SUFFICES ASSUME {i \in 0..n : i \notin G} # {} PROVE FALSE
  OBVIOUS
<1> DEFINE Bad == {i \in 0..n : i \notin G}
<1>0. Bad \subseteq Nat /\ Bad # {}
  OBVIOUS
<1>1. PICK i \in Bad : \A j \in Bad : ~(<<j, i>> \in OpToRel(<, Nat))
  BY <1>0, NatLessThanWellFounded, WFMin, Zenon
<1>2. i # 0
  BY <1>1
<1>3. i - 1 \in 0..n /\ <<i - 1, i>> \in OpToRel(<, Nat)
  BY <1>1, <1>2 DEF OpToRel
<1>4. i - 1 \notin Bad
  BY <1>1, <1>3
<1>5. i \in 0..n /\ i \notin G
  BY <1>1 DEF Bad
<1>6. i - 1 \in G
  BY <1>3, <1>4 DEF Bad
<1>7. i \in 1..n
  BY <1>2, <1>5
<1>8. QED
  BY <1>5, <1>6, <1>7
-----------------------------------------------------------------------------
(* The deploy cache.                                                       *)

\* The records the deploy loop threads through its calls of deploy_contract.
DeployRec ==
    [cache : [Contracts -> Nat], next_id : Nat \ {0},
     deployments : [Contracts -> Nat], all_ok : BOOLEAN]

\* A sound cache: every cached id was handed out, a path is deployed at most
\* once and is cached exactly when it was, and no two paths share an id.
DeployOK(s) ==
    /\ s \in DeployRec
    /\ \A p \in Contracts : s.cache[p] < s.next_id
    /\ \A p \in Contracts :
          /\ s.deployments[p] <= 1
          /\ s.cache[p] # NoId <=> s.deployments[p] = 1
    /\ \A p, q \in Contracts : s.cache[p] = s.cache[q] /\ s.cache[p] # NoId => p = q

\* The cache of t keeps every id the cache of s holds.
Keeps(s, t) == \A q \in Contracts : s.cache[q] # NoId => t.cache[q] = s.cache[q]

\* One call of deploy_contract keeps the cache sound and leaves the ids
\* already cached alone.
LEMMA DeployStepOK ==
    ASSUME NEW s, DeployOK(s), NEW p \in Contracts, NEW ok \in BOOLEAN
    PROVE  DeployOK(DeployStep(s, p, ok)) /\ Keeps(s, DeployStep(s, p, ok))
<1>1. CASE s.cache[p] # NoId
  BY <1>1 DEF DeployStep, Keeps
<1>2. CASE s.cache[p] = NoId /\ ~ok
  BY <1>2 DEF DeployStep, DeployOK, DeployRec, Keeps
<1>3. CASE s.cache[p] = NoId /\ ok
  <2> DEFINE t == [cache |-> [s.cache EXCEPT ![p] = s.next_id],
                   next_id |-> s.next_id + 1,
                   deployments |-> [s.deployments EXCEPT ![p] = @ + 1],
                   all_ok |-> s.all_ok]
  <2>0. s = [cache |-> s.cache, next_id |-> s.next_id,
             deployments |-> s.deployments, all_ok |-> s.all_ok]
    BY DEF DeployOK, DeployRec
  <2>1. DeployStep(s, p, ok) = t
    BY <1>3, <2>0 DEF DeployStep
  <2>2. t \in DeployRec
    BY DEF DeployOK, DeployRec
  <2>3. \A q \in Contracts : t.cache[q] < t.next_id
    BY DEF DeployOK, DeployRec
  <2>4. \A q \in Contracts : t.deployments[q] <= 1 /\ (t.cache[q] # NoId <=> t.deployments[q] = 1)
    BY <1>3 DEF DeployOK, DeployRec, NoId
  <2>5. \A q, r \in Contracts : t.cache[q] = t.cache[r] /\ t.cache[q] # NoId => q = r
    BY DEF DeployOK, DeployRec, NoId
  <2>6. Keeps(s, t)
    BY <1>3 DEF DeployOK, DeployRec, Keeps
  <2>7. QED
    BY <2>1, <2>2, <2>3, <2>4, <2>5, <2>6 DEF DeployOK
<1>4. QED
  BY <1>1, <1>2, <1>3

\* The whole deploy loop of a RunsWithContract test keeps the cache sound
\* and the ids cached before it, whatever the paths and whichever
\* deployments fail.
LEMMA DeployAllOK ==
    ASSUME DeployOK([cache |-> cache, next_id |-> next_id,
                     deployments |-> deployments, all_ok |-> TRUE]),
           NEW paths \in Seq(Contracts), NEW succeeds \in [DOMAIN paths -> BOOLEAN]
    PROVE  /\ DeployOK(DeployAll(paths, succeeds))
           /\ Keeps([cache |-> cache, next_id |-> next_id,
                     deployments |-> deployments, all_ok |-> TRUE],
                    DeployAll(paths, succeeds))
<1> DEFINE s0 == [cache |-> cache, next_id |-> next_id,
                  deployments |-> deployments, all_ok |-> TRUE]
           n == Len(paths)
           st[i \in 0..n] == IF i = 0 THEN s0
                             ELSE DeployStep(st[i - 1], paths[i], succeeds[i])
           Good == {s \in DeployRec : DeployOK(s) /\ Keeps(s0, s)}
<1>1. n \in Nat /\ DOMAIN paths = 1..n
  BY LenProperties
<1>2. DeployAll(paths, succeeds) = st[n]
  BY DEF DeployAll
<1>3. FiniteNatInductiveDefConclusion(st, s0,
          LAMBDA v, i : DeployStep(v, paths[i], succeeds[i]), 0, n)
  <2>1. FiniteNatInductiveDefHypothesis(st, s0,
          LAMBDA v, i : DeployStep(v, paths[i], succeeds[i]), 0, n)
    BY DEF FiniteNatInductiveDefHypothesis
  <2>2. QED
    BY <2>1, <1>1, FiniteNatInductiveDef
<1>4. /\ st[0] = s0
      /\ \A i \in 1..n : st[i] = DeployStep(st[i - 1], paths[i], succeeds[i])
  <2>1. st = [i \in 0..n |-> IF i = 0 THEN s0
                             ELSE DeployStep(st[i - 1], paths[i], succeeds[i])]
    BY <1>3, Zenon DEF FiniteNatInductiveDefConclusion
  <2>2. 0 \in 0..n /\ \A i \in 1..n : i \in 0..n /\ i # 0
    BY <1>1
  <2>3. QED
    BY <2>1, <2>2, Zenon
<1>5. \A i \in 1..n : st[i - 1] \in Good => st[i] \in Good
  <2>1. SUFFICES ASSUME NEW i \in 1..n, st[i - 1] \in Good PROVE st[i] \in Good
    OBVIOUS
  <2>2. paths[i] \in Contracts /\ succeeds[i] \in BOOLEAN
    BY <1>1, ElementOfSeq
  <2>3. DeployOK(st[i - 1]) /\ Keeps(s0, st[i - 1])
    BY <2>1 DEF Good
  <2>4. DeployOK(st[i]) /\ Keeps(st[i - 1], st[i])
    BY <2>2, <2>3, <1>4, DeployStepOK
  <2>5. Keeps(s0, st[i])
    BY <2>3, <2>4 DEF Keeps
  <2>6. QED
    BY <2>4, <2>5 DEF Good, DeployOK
<1>6. 0..n \subseteq {i \in 0..n : st[i] \in Good}
  <2>1. st[0] \in Good
    <3>1. DeployOK(st[0]) /\ Keeps(s0, st[0])
      BY <1>4 DEF Keeps
    <3>2. QED
      BY <3>1 DEF Good, DeployOK
  <2>2. \A k \in 1..n : k - 1 \in {i \in 0..n : st[i] \in Good}
                       => k \in {i \in 0..n : st[i] \in Good}
    <3> SUFFICES ASSUME NEW k \in 1..n, k - 1 \in {i \in 0..n : st[i] \in Good}
                 PROVE  k \in {i \in 0..n : st[i] \in Good}
      OBVIOUS
    <3>1. st[k] \in Good
      BY <1>5, Zenon
    <3>2. k \in 0..n
      BY <1>1
    <3>3. QED
      BY <3>1, <3>2, Zenon
  <2>3. 0 \in {i \in 0..n : st[i] \in Good}
    BY <1>1, <2>1
  <2>4. QED
    BY <1>1, <2>2, <2>3, IntervalInduction
<1>7. st[n] \in Good
  <2>1. n \in 0..n
    BY <1>1
  <2>2. QED
    BY <1>6, <2>1, Zenon
<1>8. QED
  BY <1>2, <1>7 DEF Good, s0
-----------------------------------------------------------------------------
(* The filters of run().                                                   *)

\* After i elements of s, the list retain builds holds elements of A, each
\* once, all among the first i elements of s.
RetainPrefixOK(A, s, f, i) ==
    /\ f[i] \in Seq(A)
    /\ IsInjective(f[i])
    /\ ToSet(f[i]) \subseteq {s[j] : j \in 1..i}

\* Vec::retain keeps a list without duplicates free of them, and keeps only
\* elements of the list it is given.
LEMMA RetainOK ==
    ASSUME NEW A, NEW s \in Seq(A), IsInjective(s), NEW Keep
    PROVE  /\ Retain(s, Keep) \in Seq(A)
           /\ IsInjective(Retain(s, Keep))
           /\ ToSet(Retain(s, Keep)) \subseteq ToSet(s)
<1> DEFINE n == Len(s)
           F[i \in 0..n] ==
             IF i = 0 THEN <<>>
             ELSE IF s[i] \in Keep THEN Append(F[i - 1], s[i]) ELSE F[i - 1]
<1>1. n \in Nat /\ DOMAIN s = 1..n
  BY LenProperties
<1>2. Retain(s, Keep) = F[n]
  BY DEF Retain
<1>3. FiniteNatInductiveDefConclusion(F, <<>>,
          LAMBDA v, i : IF s[i] \in Keep THEN Append(v, s[i]) ELSE v, 0, n)
  <2>1. FiniteNatInductiveDefHypothesis(F, <<>>,
          LAMBDA v, i : IF s[i] \in Keep THEN Append(v, s[i]) ELSE v, 0, n)
    BY DEF FiniteNatInductiveDefHypothesis
  <2>2. QED
    BY <2>1, <1>1, FiniteNatInductiveDef
<1>4. /\ F[0] = <<>>
      /\ \A i \in 1..n : F[i] = IF s[i] \in Keep THEN Append(F[i - 1], s[i]) ELSE F[i - 1]
  <2>1. F = [i \in 0..n |-> IF i = 0 THEN <<>>
                            ELSE IF s[i] \in Keep THEN Append(F[i - 1], s[i]) ELSE F[i - 1]]
    BY <1>3, Zenon DEF FiniteNatInductiveDefConclusion
  <2>2. 0 \in 0..n /\ \A i \in 1..n : i \in 0..n /\ i # 0
    BY <1>1
  <2>3. QED
    BY <2>1, <2>2, Zenon
<1>5. \A i \in 1..n : RetainPrefixOK(A, s, F, i - 1) => RetainPrefixOK(A, s, F, i)
  <2>1. SUFFICES ASSUME NEW i \in 1..n, RetainPrefixOK(A, s, F, i - 1) PROVE RetainPrefixOK(A, s, F, i)
    OBVIOUS
  <2>2. CASE s[i] \notin Keep
    <3>1. F[i] = F[i - 1]
      BY <2>2, <1>4
    <3>2. {s[j] : j \in 1..(i - 1)} \subseteq {s[j] : j \in 1..i}
      BY <1>1
    <3>3. QED
      BY <2>1, <3>1, <3>2 DEF RetainPrefixOK
  <2>3. CASE s[i] \in Keep
    <3> DEFINE u == F[i - 1]
    <3>1. F[i] = Append(u, s[i])
      BY <2>3, <1>4
    <3>2. u \in Seq(A) /\ s[i] \in A
      BY <2>1, <1>1, ElementOfSeq DEF RetainPrefixOK, u
    <3>3. /\ Append(u, s[i]) \in Seq(A)
          /\ Len(Append(u, s[i])) = Len(u) + 1
          /\ \A k \in 1..Len(u) : Append(u, s[i])[k] = u[k]
          /\ Append(u, s[i])[Len(u) + 1] = s[i]
      BY <3>2, AppendProperties
    <3>4. Len(u) \in Nat /\ DOMAIN u = 1..Len(u)
          /\ DOMAIN Append(u, s[i]) = 1..(Len(u) + 1)
      BY <3>2, <3>3, LenProperties
    <3>5. s[i] \notin ToSet(u)
      <4>1. SUFFICES ASSUME NEW k \in DOMAIN u, u[k] = s[i] PROVE FALSE
        BY DEF ToSet
      <4>2. PICK j \in 1..(i - 1) : u[k] = s[j]
        BY <2>1 DEF ToSet, RetainPrefixOK, u
      <4>3. i \in DOMAIN s /\ j \in DOMAIN s /\ i # j /\ s[i] = s[j]
        BY <4>1, <4>2, <1>1
      <4>4. QED
        BY <4>3, <1>1 DEF IsInjective
    <3>6. IsInjective(u)
      BY <2>1 DEF RetainPrefixOK, u
    <3>7. IsInjective(Append(u, s[i]))
      <4>1. SUFFICES ASSUME NEW a \in 1..(Len(u) + 1), NEW b \in 1..(Len(u) + 1),
                            Append(u, s[i])[a] = Append(u, s[i])[b]
                     PROVE  a = b
        BY <3>4 DEF IsInjective
      <4>2. CASE a \in 1..Len(u) /\ b \in 1..Len(u)
        BY <4>1, <4>2, <3>3, <3>4, <3>6 DEF IsInjective
      <4>3. CASE a \in 1..Len(u) /\ b = Len(u) + 1
        BY <4>1, <4>3, <3>3, <3>4, <3>5 DEF ToSet
      <4>4. CASE a = Len(u) + 1 /\ b \in 1..Len(u)
        BY <4>1, <4>4, <3>3, <3>4, <3>5 DEF ToSet
      <4>5. CASE a = Len(u) + 1 /\ b = Len(u) + 1
        BY <4>5
      <4>6. QED
        BY <4>2, <4>3, <4>4, <4>5, <3>4
    <3>9. ToSet(Append(u, s[i])) \subseteq {s[j] : j \in 1..i}
      <4>1. ToSet(u) \subseteq {s[j] : j \in 1..(i - 1)}
        BY <2>1 DEF RetainPrefixOK, u
      <4>2. {s[j] : j \in 1..(i - 1)} \subseteq {s[j] : j \in 1..i}
        BY <1>1
      <4>3. SUFFICES ASSUME NEW k \in 1..(Len(u) + 1)
                     PROVE  Append(u, s[i])[k] \in {s[j] : j \in 1..i}
        BY <3>4 DEF ToSet
      <4>4. CASE k \in 1..Len(u)
        <5>1. Append(u, s[i])[k] \in ToSet(u)
          BY <4>4, <3>3, <3>4 DEF ToSet
        <5>2. QED
          BY <5>1, <4>1, <4>2
      <4>5. CASE k = Len(u) + 1
        <5>1. i \in 1..i
          BY <2>1
        <5>2. QED
          BY <4>5, <3>3, <5>1
      <4>6. k \in 1..Len(u) \/ k = Len(u) + 1
        BY <3>4
      <4>7. QED
        BY <4>4, <4>5, <4>6
    <3>10. QED
      BY <3>1, <3>3, <3>7, <3>9 DEF RetainPrefixOK, u
  <2>4. QED
    BY <2>2, <2>3
<1>6. 0..n \subseteq {i \in 0..n : RetainPrefixOK(A, s, F, i)}
  <2>1. 0 \in {i \in 0..n : RetainPrefixOK(A, s, F, i)}
    <3>1. RetainPrefixOK(A, s, F, 0)
      <4>1. F[0] = <<>> /\ <<>> \in Seq(A)
        BY <1>4, EmptySeq
      <4>2. IsInjective(<<>>) /\ ToSet(<<>>) = {}
        BY DEF IsInjective, ToSet
      <4>3. QED
        BY <4>1, <4>2 DEF RetainPrefixOK
    <3>2. QED
      BY <3>1, <1>1
  <2>2. \A k \in 1..n : k - 1 \in {i \in 0..n : RetainPrefixOK(A, s, F, i)} => k \in {i \in 0..n : RetainPrefixOK(A, s, F, i)}
    BY <1>5, <1>1
  <2>3. QED
    BY <1>1, <2>1, <2>2, IntervalInduction
<1>7. RetainPrefixOK(A, s, F, n)
  BY <1>1, <1>6
<1>8. QED
  BY <1>1, <1>2, <1>7 DEF ToSet, RetainPrefixOK
\* A non-empty set of naturals has a least element: the index SelectInSeq
\* returns is that of the first match.
LEMMA MinOfNat ==
    ASSUME NEW I \in SUBSET Nat, I # {}
    PROVE  Min(I) \in I /\ \A y \in I : Min(I) <= y
<1>1. \E x \in I : \A y \in I : ~(<<y, x>> \in OpToRel(<, Nat))
  BY NatLessThanWellFounded, WFMin, Zenon
<1>2. \E x \in I : \A y \in I : x <= y
  <2>1. PICK x \in I : \A y \in I : ~(<<y, x>> \in OpToRel(<, Nat))
    BY <1>1
  <2>2. \A y \in I : y < x => <<y, x>> \in OpToRel(<, Nat)
    BY DEF OpToRel
  <2>3. SUFFICES ASSUME NEW y \in I PROVE x <= y
    OBVIOUS
  <2>4. ~(y < x)
    BY <2>1, <2>2, Zenon
  <2>5. QED
    BY <2>4
<1>3. QED
  BY <1>2 DEF Min

\* A suffix of a list without duplicates has none.
LEMMA SubSeqInjective ==
    ASSUME NEW A, NEW s \in Seq(A), IsInjective(s), NEW m \in 1..Len(s)
    PROVE  SubSeq(s, m, Len(s)) \in Seq(A) /\ IsInjective(SubSeq(s, m, Len(s)))
<1>1. \A k \in m..Len(s) : s[k] \in A
  BY ElementOfSeq
<1>2. /\ SubSeq(s, m, Len(s)) \in Seq(A)
      /\ Len(SubSeq(s, m, Len(s))) = Len(s) - m + 1
      /\ \A k \in 1..(Len(s) - m + 1) : SubSeq(s, m, Len(s))[k] = s[m + k - 1]
  BY <1>1, SubSeqProperties
<1>3. DOMAIN SubSeq(s, m, Len(s)) = 1..(Len(s) - m + 1) /\ DOMAIN s = 1..Len(s)
  BY <1>2, LenProperties
<1>4. QED
  BY <1>2, <1>3 DEF IsInjective

\* skip_until keeps a list without duplicates free of them.
LEMMA SkipUntilOK ==
    ASSUME NEW s \in Seq(Tests), IsInjective(s)
    PROVE  SkipUntilFilter(s) \in Seq(Tests) /\ IsInjective(SkipUntilFilter(s))
<1> DEFINE I == {i \in 1..Len(s) : Matches(SkipUntil, s[i])}
<1>1. Len(s) \in Nat /\ DOMAIN s = 1..Len(s)
  BY LenProperties
<1>2. CASE SkipUntil = NoRegex
  BY <1>2 DEF SkipUntilFilter
<1>3. CASE SkipUntil # NoRegex /\ I = {}
  <2>1. SkipUntilFilter(s) = <<>>
    BY <1>3 DEF SkipUntilFilter, SelectInSeq
  <2>2. QED
    BY <2>1, EmptySeq DEF IsInjective
<1>4. CASE SkipUntil # NoRegex /\ I # {}
  <2> DEFINE m == Min(I)
  <2>0. I \in SUBSET Nat /\ I # {}
    BY <1>4, <1>1
  <2>1. m \in 1..Len(s)
    <3>1. Min(I) \in I
      BY <2>0, MinOfNat
    <3>2. QED
      BY <3>1 DEF m
  <2>2. SkipUntilFilter(s) = SubSeq(s, m, Len(s))
    <3>1. SelectInSeq(s, LAMBDA t : Matches(SkipUntil, t)) = m
      BY <1>4 DEF SelectInSeq, m
    <3>2. QED
      <4>1. m # 0
        BY <2>1
      <4>2. QED
        BY <1>4, <3>1, <4>1, Zenon DEF SkipUntilFilter
  <2>3. SubSeq(s, m, Len(s)) \in Seq(Tests) /\ IsInjective(SubSeq(s, m, Len(s)))
    BY <2>1, SubSeqInjective
  <2>4. QED
    BY <2>2, <2>3
<1>5. QED
  BY <1>2, <1>3, <1>4

\* The tests the filters select: a list of tests, each at most once.
LEMMA SelectedOK ==
    Selected \in Seq(Tests) /\ IsInjective(Selected)
<1>1. TestOrder \in Seq(Tests) /\ IsInjective(TestOrder)
  BY TestsAssumption DEF IsInjective
<1> DEFINE s1 == SkipUntilFilter(TestOrder)
           s2 == Retain(s1, {t \in Tests : Desc[t].cat # "Disabled"})
           s3 == IF Include = NoRegex THEN s2
                 ELSE Retain(s2, {t \in Tests : Matches(Include, t)})
           s4 == IF Exclude = NoRegex THEN s3
                 ELSE Retain(s3, {t \in Tests : ~Matches(Exclude, t)})
           s5 == IF AbiOnly THEN Retain(s4, {t \in Tests : Desc[t].validate_abi})
                 ELSE s4
           s6 == IF ContractOnly
                 THEN Retain(s5, {t \in Tests : Desc[t].cat = "RunsWithContract"})
                 ELSE s5
<1>2. s1 \in Seq(Tests) /\ IsInjective(s1)
  BY <1>1, SkipUntilOK
<1>3. s2 \in Seq(Tests) /\ IsInjective(s2)
  BY <1>2, RetainOK
<1>4. s3 \in Seq(Tests) /\ IsInjective(s3)
  BY <1>3, RetainOK
<1>5. s4 \in Seq(Tests) /\ IsInjective(s4)
  BY <1>4, RetainOK
<1>6. s5 \in Seq(Tests) /\ IsInjective(s5)
  BY <1>5, RetainOK
<1>7. s6 \in Seq(Tests) /\ IsInjective(s6)
  BY <1>6, RetainOK
<1>8. Selected = IF FirstOnly /\ s6 # <<>> THEN <<Head(s6)>> ELSE s6
  BY DEF Selected
<1>9. CASE FirstOnly /\ s6 # <<>>
  <2>1. Head(s6) \in Tests
    BY <1>7, <1>9, HeadTailProperties
  <2>2. <<Head(s6)>> \in Seq(Tests)
    BY <2>1
  <2>3. IsInjective(<<Head(s6)>>)
    <3>1. DOMAIN <<Head(s6)>> = {1}
      OBVIOUS
    <3>2. QED
      BY <3>1, Zenon DEF IsInjective
  <2>4. QED
    BY <1>8, <1>9, <2>2, <2>3
<1>10. QED
  BY <1>7, <1>8, <1>9


-----------------------------------------------------------------------------
(* The loop of run().                                                      *)

\* The deploy cache as the loop holds it between two tests.
DeployState == [cache |-> cache, next_id |-> next_id,
                deployments |-> deployments, all_ok |-> TRUE]

\* The tests whose run returned Ok or Err, and those that returned Err.
RanTests == {t \in Tests : outcome[t] \in {"ok", "err"}}
FailedTests == {t \in Tests : outcome[t] = "err"}

\* The inductive invariant of the loop: the queue is what is left of the
\* selected tests, each once, and a test has an outcome exactly when it was
\* selected and is no longer queued; the counters count those outcomes; the
\* deploy cache is sound.  The injectivity of the queue is what keeps a taken
\* test from being met again, so that each counter grows once per test.
IInv ==
    /\ HarnessTypeOK
    /\ DeployOK(DeployState)
    /\ IsInjective(queue)
    /\ ToSet(queue) \subseteq ToSet(Selected)
    /\ \A t \in Tests :
          outcome[t] = "none" <=> t \notin ToSet(Selected) \/ t \in ToSet(queue)
    /\ phase = "done" => queue = <<>>
    /\ executed = Cardinality(RanTests)
    /\ failed = Cardinality(FailedTests)
    /\ failed_tests = FailedTests


\* The suite is finite: every test is somewhere in the discovery order.
LEMMA TestsFinite == IsFiniteSet(Tests)
<1>1. \A t \in Tests : \E i \in 1..Len(TestOrder) : TestOrder[i] = t
  BY TestsAssumption, LenProperties
<1>2. QED
  BY <1>1, TestsAssumption DEF IsFiniteSet

\* Taking the head of a queue without repetitions leaves the other tests
\* queued, each once, and not the head.
LEMMA TailOK ==
    ASSUME NEW S, NEW q \in Seq(S), q # <<>>, IsInjective(q)
    PROVE  /\ Tail(q) \in Seq(S)
           /\ IsInjective(Tail(q))
           /\ Head(q) \in ToSet(q)
           /\ ToSet(Tail(q)) = ToSet(q) \ {Head(q)}
<1>1. /\ Tail(q) \in Seq(S)
      /\ Len(Tail(q)) = Len(q) - 1
      /\ \A i \in 1..Len(Tail(q)) : Tail(q)[i] = q[i + 1]
      /\ DOMAIN Tail(q) = 1..Len(Tail(q))
      /\ DOMAIN q = 1..Len(q)
      /\ Len(q) \in Nat \ {0}
      /\ Head(q) = q[1]
  BY HeadTailProperties, LenProperties
<1>2. \A a, b \in DOMAIN q : q[a] = q[b] => a = b
  BY DEF IsInjective
<1>3. IsInjective(Tail(q))
  BY <1>1, <1>2 DEF IsInjective
<1>4. Head(q) \in ToSet(q)
  BY <1>1 DEF ToSet
<1>5. ToSet(Tail(q)) = ToSet(q) \ {Head(q)}
  <2>1. ToSet(Tail(q)) \subseteq ToSet(q) \ {Head(q)}
    BY <1>1, <1>2 DEF ToSet
  <2>2. ToSet(q) \ {Head(q)} \subseteq ToSet(Tail(q))
    <3> SUFFICES ASSUME NEW j \in 1..Len(q), q[j] # Head(q)
                 PROVE  q[j] \in ToSet(Tail(q))
      BY <1>1 DEF ToSet
    <3>1. j # 1 /\ j - 1 \in 1..Len(Tail(q))
      BY <1>1
    <3>2. Tail(q)[j - 1] = q[j]
      BY <1>1, <3>1
    <3>3. j - 1 \in DOMAIN Tail(q)
      BY <1>1, <3>1
    <3>4. QED
      BY <3>2, <3>3, Zenon DEF ToSet
  <2>3. QED
    BY <2>1, <2>2
<1>6. QED
  BY <1>1, <1>3, <1>4, <1>5


\* What every step of the loop that takes a test does: the head of the queue
\* is taken off and gets outcome o, the counters count an Ok or an Err, a
\* panic ends the run, and the cache stays sound.
TakeStep(o) ==
    /\ phase = "running"
    /\ queue # <<>>
    /\ queue' = Tail(queue)
    /\ outcome' = [outcome EXCEPT ![Head(queue)] = o]
    /\ executed' = IF o \in {"ok", "err"} THEN executed + 1 ELSE executed
    /\ failed' = IF o = "err" THEN failed + 1 ELSE failed
    /\ failed_tests' =
          IF o = "err" THEN failed_tests \cup {Head(queue)} ELSE failed_tests
    /\ phase' = IF o = "panic" THEN "panicked" ELSE phase
    /\ DeployOK(DeployState')

\* Taking a test keeps the invariant: the test was queued, so it had no
\* outcome and was counted nowhere, and it is not queued a second time.
LEMMA TakeOK ==
    ASSUME IInv, NEW o \in {"ok", "err", "panic", "skipped"}, TakeStep(o)
    PROVE  IInv'
<1> DEFINE h == Head(queue)
<1>1. /\ Tail(queue) \in Seq(Tests)
      /\ IsInjective(Tail(queue))
      /\ h \in ToSet(queue)
      /\ ToSet(Tail(queue)) = ToSet(queue) \ {h}
  BY TailOK DEF IInv, HarnessTypeOK, TakeStep
<1>2. h \in Tests /\ h \in ToSet(Selected) /\ outcome[h] = "none"
  <2>1. ToSet(queue) \subseteq Tests
    BY LenProperties DEF IInv, HarnessTypeOK, ToSet
  <2>2. QED
    BY <1>1, <2>1 DEF IInv
<1>3. HarnessTypeOK'
  <2>1. executed' \in Nat /\ failed' \in Nat /\ failed_tests' \subseteq Tests
    BY <1>2 DEF TakeStep, IInv, HarnessTypeOK
  <2>2. /\ cache' \in [Contracts -> 0..(next_id' - 1)]
        /\ next_id' \in Nat \ {0}
        /\ deployments' \in [Contracts -> Nat]
    BY DEF TakeStep, DeployOK, DeployState, DeployRec
  <2>3. outcome' \in [Tests -> Outcomes] /\ phase' \in {"running", "done", "panicked"}
    BY DEF TakeStep, IInv, HarnessTypeOK, Outcomes
  <2>4. QED
    BY <1>1, <2>1, <2>2, <2>3 DEF TakeStep, HarnessTypeOK
<1>4. \A t \in Tests :
         outcome'[t] = "none" <=> t \notin ToSet(Selected) \/ t \in ToSet(queue')
  <2> SUFFICES ASSUME NEW t \in Tests
               PROVE  outcome'[t] = "none" <=> t \notin ToSet(Selected) \/ t \in ToSet(queue')
    OBVIOUS
  <2>1. CASE t = h
    BY <1>1, <1>2, <2>1 DEF TakeStep, IInv, HarnessTypeOK
  <2>2. CASE t # h
    BY <1>1, <2>2 DEF TakeStep, IInv, HarnessTypeOK
  <2>3. QED
    BY <2>1, <2>2
<1>5. IsFiniteSet(RanTests) /\ IsFiniteSet(FailedTests)
  BY TestsFinite, FS_Subset DEF RanTests, FailedTests
<1>6. /\ RanTests' = IF o \in {"ok", "err"} THEN RanTests \cup {h} ELSE RanTests
      /\ FailedTests' = IF o = "err" THEN FailedTests \cup {h} ELSE FailedTests
  BY <1>2 DEF TakeStep, RanTests, FailedTests, IInv, HarnessTypeOK
<1>7. h \notin RanTests /\ h \notin FailedTests
  BY <1>2 DEF RanTests, FailedTests
<1>8. /\ executed' = Cardinality(RanTests')
      /\ failed' = Cardinality(FailedTests')
  <2>0. IsFiniteSet(RanTests) /\ h \notin RanTests
    BY <1>5, <1>7
  <2>1. /\ Cardinality(RanTests \cup {h}) = Cardinality(RanTests) + 1
        /\ Cardinality(FailedTests \cup {h}) = Cardinality(FailedTests) + 1
    <3>1. Cardinality(RanTests \cup {h}) = Cardinality(RanTests) + 1
      BY <2>0, FS_AddElement
    <3>2. Cardinality(FailedTests \cup {h}) = Cardinality(FailedTests) + 1
      BY <1>5, <1>7, FS_AddElement
    <3>3. QED
      BY <3>1, <3>2
  <2>2. executed' = Cardinality(RanTests')
    BY <1>6, <2>1 DEF TakeStep, IInv
  <2>3. failed' = Cardinality(FailedTests')
    BY <1>6, <2>1 DEF TakeStep, IInv
  <2>4. QED
    BY <2>2, <2>3
<1>9. failed_tests' = FailedTests'
  BY <1>6 DEF TakeStep, IInv
<1>10. ToSet(queue') \subseteq ToSet(Selected)
  BY <1>1 DEF TakeStep, IInv
<1>11. phase' # "done"
  BY DEF TakeStep
<1>12. IsInjective(queue') /\ DeployOK(DeployState')
  BY <1>1 DEF TakeStep
<1>13. QED
  BY <1>3, <1>4, <1>8, <1>9, <1>10, <1>11, <1>12 DEF IInv


\* Recording the verdict of TestContext::run for the head test keeps the
\* invariant, whichever of Ok, Err or a panic it is.
LEMMA RecordOK ==
    ASSUME IInv, phase = "running", queue # <<>>, NEW v,
           Record(Head(queue), v), TakeTest, DeployOK(DeployState')
    PROVE  IInv'
<1>1. CASE v = "ok"
  <2>1. TakeStep("ok")
    BY <1>1 DEF Record, TakeStep, TakeTest
  <2>2. QED
    BY <2>1, TakeOK
<1>2. CASE v = "err"
  <2>1. TakeStep("err")
    BY <1>2 DEF Record, TakeStep, TakeTest
  <2>2. QED
    BY <2>1, TakeOK
<1>3. CASE v = "panic"
  <2>1. TakeStep("panic")
    BY <1>3 DEF Record, TakeStep, TakeTest
  <2>2. QED
    BY <2>1, TakeOK
<1>4. QED
  BY <1>1, <1>2, <1>3 DEF Record

\* The loop starts with the selected tests queued and nothing counted.
LEMMA InitOK == Init => IInv
<1> SUFFICES ASSUME Init PROVE IInv
  OBVIOUS
<1>1. Selected \in Seq(Tests) /\ IsInjective(Selected)
  BY SelectedOK
<1>2. HarnessTypeOK
  BY <1>1 DEF Init, HarnessTypeOK, NoId, Outcomes
<1>3. DeployOK(DeployState)
  BY DEF Init, DeployOK, DeployState, DeployRec, NoId
<1>4. RanTests = {} /\ FailedTests = {}
  BY DEF Init, RanTests, FailedTests
<1>5. QED
  BY <1>1, <1>2, <1>3, <1>4, FS_EmptySet DEF Init, IInv


\* A RunsWithContract test leaves the cache sound and every id already
\* cached in place: deploy_contract runs on its paths only after the
\* expected-result and path checks, and its results replace the cache.
LEMMA ContractDeployOK ==
    ASSUME IInv, RunRunsWithContract
    PROVE  /\ DeployOK(DeployState')
           /\ \A p \in Contracts : cache[p] # NoId => cache'[p] = cache[p]
<1> DEFINE d == Desc[Head(queue)]
<1>1. Current("RunsWithContract")
  BY DEF RunRunsWithContract
<1>2. PICK succeeds \in [DOMAIN d.contracts -> BOOLEAN], node \in NodeAnswers :
        LET deploys == d.expected.kind = "Result" /\ d.contracts # <<>>
        IN  /\ cache' = IF deploys THEN DeployAll(d.contracts, succeeds).cache ELSE cache
            /\ next_id' = IF deploys THEN DeployAll(d.contracts, succeeds).next_id ELSE next_id
            /\ deployments' =
                  IF deploys THEN DeployAll(d.contracts, succeeds).deployments ELSE deployments
  BY Zenon DEF RunRunsWithContract
<1>3. d.contracts \in Seq(Contracts)
  <2>1. Head(queue) \in Tests
    BY <1>1, HeadTailProperties DEF Current, IInv, HarnessTypeOK
  <2>2. QED
    BY <2>1, DescAssumption DEF Descriptions
<1> DEFINE after == DeployAll(d.contracts, succeeds)
<1>4. DeployOK(after) /\ Keeps(DeployState, after)
  BY <1>3, DeployAllOK DEF IInv, DeployState
<1>5. CASE d.expected.kind = "Result" /\ d.contracts # <<>>
  <2>1. DeployState' = [cache |-> after.cache, next_id |-> after.next_id,
                        deployments |-> after.deployments, all_ok |-> TRUE]
    BY <1>2, <1>5 DEF DeployState
  <2>2. DeployOK(DeployState')
    BY <1>4, <2>1 DEF DeployOK, DeployRec
  <2>3. \A p \in Contracts : cache[p] # NoId => cache'[p] = cache[p]
    BY <1>2, <1>4, <1>5 DEF Keeps, DeployState
  <2>4. QED
    BY <2>2, <2>3
<1>6. CASE ~(d.expected.kind = "Result" /\ d.contracts # <<>>)
  BY <1>2, <1>6 DEF IInv, DeployState
<1>7. QED
  BY <1>5, <1>6

\* Every step of the loop, and a stutter, keeps the invariant.
LEMMA NextOK == IInv /\ [Next]_vars => IInv'
<1> SUFFICES ASSUME IInv, [Next]_vars PROVE IInv'
  OBVIOUS
<1>0. DeployOK(DeployState) /\ UNCHANGED <<cache, next_id, deployments>>
        => DeployOK(DeployState')
  BY DEF IInv, DeployState
<1>1. CASE SkipTarget
  <2>1. TakeStep("skipped")
    BY <1>0, <1>1 DEF SkipTarget, TakeStep, IInv
  <2>2. QED
    BY <2>1, TakeOK
<1>2. CASE RunRuns
  <2>1. PICK v : Record(Head(queue), v)
    BY <1>2, Zenon DEF RunRuns
  <2>2. QED
    BY <1>0, <1>2, <2>1, RecordOK DEF RunRuns, Current, IInv
<1>3. CASE RunCompiles
  <2>1. PICK v : Record(Head(queue), v)
    BY <1>3, Zenon DEF RunCompiles
  <2>2. QED
    BY <1>0, <1>3, <2>1, RecordOK DEF RunCompiles, Current, IInv
<1>4. CASE RunFailsToCompile
  <2>1. PICK v : Record(Head(queue), v)
    BY <1>4, Zenon DEF RunFailsToCompile
  <2>2. QED
    BY <1>0, <1>4, <2>1, RecordOK DEF RunFailsToCompile, Current, IInv
<1>5. CASE RunUnitTestsPass
  <2>1. PICK v : Record(Head(queue), v)
    BY <1>5, Zenon DEF RunUnitTestsPass
  <2>2. QED
    BY <1>0, <1>5, <2>1, RecordOK DEF RunUnitTestsPass, Current, IInv
<1>6. CASE RunRunsWithContract
  <2>1. Current("RunsWithContract") /\ TakeTest
    BY <1>6 DEF RunRunsWithContract
  <2>2. PICK v : Record(Head(queue), v)
    BY <1>6, Zenon DEF RunRunsWithContract
  <2>3. DeployOK(DeployState')
    BY <1>6, ContractDeployOK
  <2>4. QED
    BY <2>1, <2>2, <2>3, RecordOK DEF Current
<1>7. CASE Finish
  BY <1>7 DEF Finish, IInv, HarnessTypeOK, DeployState, RanTests, FailedTests
<1>8. CASE UNCHANGED vars
  BY <1>8 DEF vars, IInv, HarnessTypeOK, DeployState, RanTests, FailedTests
<1>9. QED
  BY <1>1, <1>2, <1>3, <1>4, <1>5, <1>6, <1>7, <1>8 DEF Next


\* The loop of run() keeps its inductive invariant in every reachable state,
\* for every suite, discovery order, filter choice and build target.
THEOREM HarnessInvariant == Spec => []IInv
BY InitOK, NextOK, PTL DEF Spec

\* Type correctness of the loop's state, and a cached contract id is one that
\* deploy_contract has already handed out.
THEOREM HarnessTypeCorrect == Spec => []HarnessTypeOK
<1>1. IInv => HarnessTypeOK
  BY DEF IInv
<1>2. QED
  BY <1>1, HarnessInvariant, PTL

\* TestContext::deploy_contract deploys a contract path at most once in the
\* whole run, caches exactly the paths it deployed and never gives two paths
\* the same id, whatever the tests, their order and the failures.
THEOREM DeployOnceCorrect == Spec => []DeployOnce
<1>1. IInv => DeployOnce
  BY DEF IInv, DeployOK, DeployState, DeployOnce
<1>2. QED
  BY <1>1, HarnessInvariant, PTL

\* number_of_tests_executed, number_of_tests_failed and failed_tests count
\* exactly the tests that returned Ok or Err, and a run that reaches the
\* summary has taken every test the filters selected and no other.
THEOREM RunAccountingCorrect == Spec => []RunAccounting
<1>1. IInv => RunAccounting
  <2> SUFFICES ASSUME IInv PROVE RunAccounting
    OBVIOUS
  <2>1. phase = "done" => ToSet(queue) = {}
    BY DEF IInv, ToSet
  <2>2. QED
    BY <2>1 DEF IInv, RunAccounting, RanTests, FailedTests
<1>2. QED
  BY <1>1, HarnessInvariant, PTL


\* No step of the loop changes an id that is already cached.
LEMMA NextKeepsCache ==
    IInv /\ [Next]_vars
      => [\A p \in Contracts : cache[p] # NoId => cache'[p] = cache[p]]_cache
<1> SUFFICES ASSUME IInv, [Next]_vars
             PROVE  [\A p \in Contracts : cache[p] # NoId => cache'[p] = cache[p]]_cache
  OBVIOUS
<1>1. CASE RunRunsWithContract
  BY <1>1, ContractDeployOK
<1>2. CASE ~RunRunsWithContract
  <2>1. UNCHANGED cache
    BY <1>2 DEF Next, vars, SkipTarget, RunRuns, RunCompiles, RunFailsToCompile,
                RunUnitTestsPass, Finish
  <2>2. QED
    BY <2>1
<1>3. QED
  BY <1>1, <1>2

\* deployed_contracts is never overwritten: an id, once cached for a path,
\* is reused by every later test and the path is never deployed again.
THEOREM CacheStableCorrect == Spec => CacheStable
BY HarnessInvariant, NextKeepsCache, PTL DEF Spec, CacheStable

=============================================================================
