------------------------- MODULE IRConstantEqProofs -------------------------
(***************************************************************************)
(* Constant::eq decides the equality of spec section 4.3 (EqMatchesSpec),  *)
(* for every value of the constants.                                       *)
(*                                                                         *)
(* ConstEqOn, Known and Denote are recursive functions over the pool.      *)
(* They satisfy their recursion equations only if the recursion descends:  *)
(* Constants are values built bottom-up, so every element of a composite   *)
(* constant was built before it.  RankInv records this as a rank, the      *)
(* number of constants built before it, that its elements are below.       *)
(* Under that well-founded order the three functions unfold, and the       *)
(* equivalence follows by induction on the sum of the ranks of the two     *)
(* operands, using ShapeInv: two constants of one type that are not Undef  *)
(* have the same variant and, if composite, payloads of the same length.   *)
(***************************************************************************)
EXTENDS IRConstantProofs, FiniteSetTheorems, WellFoundedInduction

\* rk ranks the constants P below their number, every element below its
\* container.
RankOK(P, rk) ==
    /\ rk \in [P -> 0..(Cardinality(P) - 1)]
    /\ \A c \in P :
          c.tag \in Composite => \A k \in DOMAIN c.pl : rk[c.pl[k]] < rk[c]

RankInv == IsFiniteSet(pool) /\ \E rk : RankOK(pool, rk)

\* Every step leaves the pool or adds one constant whose elements are held.
LEMMA PoolStep ==
    ASSUME TypeOK, [Next]_vars
    PROVE  \/ pool' = pool
           \/ \E c : /\ pool' = pool \cup {c}
                     /\ c.tag \in Composite => c.pl \in Seq(pool)
<1>1. ASSUME NEW c, NewOK(c), Build(c) \/ BuildAndAlloc(c)
      PROVE  \E d : pool' = pool \cup {d}
                    /\ (d.tag \in Composite => d.pl \in Seq(pool))
  BY <1>1 DEF NewOK, Build, BuildAndAlloc
<1>2. CASE new_unit \/ get_unit \/ new_bool \/ get_bool \/ new_uint
           \/ get_uint \/ new_uint256 \/ get_uint256 \/ new_b256
           \/ get_b256 \/ new_string \/ get_string
  BY <1>1, <1>2, ScalarTypes
  DEF new_unit, get_unit, new_bool, get_bool, new_uint, get_uint,
      new_uint256, get_uint256, new_b256, get_b256, new_string, get_string
<1>3. CASE new_array
  <2>1. PICK elm_ty \in types, elems \in ElemLists :
            Build(new_array_c(elm_ty, elems))
    <3>1. \A ty \in types :
              SeqOf({c \in pool : c.ty = ty}, MaxLen) \subseteq ElemLists
      BY BoundsAssumption DEF ElemLists, SeqOf
    <3>2. QED
      BY <1>3, <3>1 DEF new_array
  <2>2. elems \in Seq(pool)
    BY <2>1, SeqOfIsSeq, BoundsAssumption DEF ElemLists
  <2>3. QED
    BY <2>1, <2>2 DEF Build, new_array_c, Mk
<1>4. CASE new_struct
  <2>0. PICK fields \in ElemLists :
            \E field_tys : Build(new_struct_c(field_tys, fields))
    BY <1>4 DEF new_struct
  <2>1. PICK field_tys : Build(new_struct_c(field_tys, fields))
    BY <2>0
  <2>2. fields \in Seq(pool)
    BY <2>0, SeqOfIsSeq, BoundsAssumption DEF ElemLists
  <2>3. QED
    BY <2>1, <2>2 DEF Build, new_struct_c, Mk
<1>5. CASE get_undef
  BY <1>5 DEF get_undef, Build, get_undef_c, Mk, Composite
<1>6. CASE get_array \/ get_struct \/ UNCHANGED vars
  BY <1>6 DEF get_array, get_struct, AssertThenAlloc, vars
<1>7. QED
  BY <1>2, <1>3, <1>4, <1>5, <1>6 DEF Next

\* Adding a constant whose elements are held keeps a ranking: the new one
\* gets the old size of the pool, above every rank given so far.
LEMMA AddRank ==
    ASSUME TypeOK, RankInv, NEW c, c.tag \in Composite => c.pl \in Seq(pool),
           pool' = pool \cup {c}
    PROVE  RankInv'
<1>1. CASE c \in pool
  <2>1. pool' = pool
    BY <1>1
  <2>2. QED
    BY <2>1 DEF RankInv, RankOK
<1>2. CASE c \notin pool
  <2>1. PICK rk : RankOK(pool, rk)
    BY DEF RankInv
  <2> DEFINE N == Cardinality(pool)
             rk2 == [x \in pool' |-> IF x \in pool THEN rk[x] ELSE N]
  <2>2. IsFiniteSet(pool') /\ Cardinality(pool') = N + 1 /\ N \in Nat
    BY <1>2, FS_AddElement, FS_CardinalityType DEF RankInv
  <2>3. rk2 \in [pool' -> 0..(Cardinality(pool') - 1)]
    BY <2>1, <2>2 DEF RankOK
  <2>4. ASSUME NEW x \in pool', x.tag \in Composite, NEW k \in DOMAIN x.pl
        PROVE  rk2[x.pl[k]] < rk2[x]
    <3>1. CASE x \in pool
      <4>1. x.pl[k] \in pool
        BY <2>4, <3>1 DEF TypeOK
      <4>2. QED
        BY <2>1, <2>4, <3>1, <4>1 DEF RankOK
    <3>2. CASE x \notin pool
      <4>1. x = c /\ x.pl[k] \in pool
        BY <2>4, <3>2
      <4>2. rk[x.pl[k]] \in 0..(N - 1)
        BY <2>1, <4>1 DEF RankOK
      <4>3. QED
        BY <3>2, <4>1, <4>2, <2>2
    <3>3. QED
      BY <3>1, <3>2
  <2>5. RankOK(pool', rk2)
    BY <2>3, <2>4 DEF RankOK
  <2>6. QED
    BY <2>2, <2>5 DEF RankInv
<1>3. QED
  BY <1>1, <1>2

\* Every constant the program can hold was built after its elements.
THEOREM RankCorrect == Spec => [](TypeOK /\ RankInv)
<1>1. Init => RankInv
  <2> SUFFICES ASSUME Init PROVE RankInv
    OBVIOUS
  <2>1. IsFiniteSet(pool) /\ Cardinality(pool) = 0
    BY FS_EmptySet DEF Init
  <2>2. RankOK(pool, [x \in pool |-> 0])
    BY <2>1 DEF Init, RankOK
  <2>3. QED
    BY <2>1, <2>2 DEF RankInv
<1>2. TypeOK /\ RankInv /\ [Next]_vars => RankInv'
  <2> SUFFICES ASSUME TypeOK, RankInv, [Next]_vars PROVE RankInv'
    OBVIOUS
  <2>1. CASE pool' = pool
    BY <2>1 DEF RankInv, RankOK
  <2>2. CASE \E c : /\ pool' = pool \cup {c}
                    /\ c.tag \in Composite => c.pl \in Seq(pool)
    BY <2>2, AddRank
  <2>3. QED
    BY <2>1, <2>2, PoolStep
<1>3. QED
  BY <1>1, <1>2, TypeCorrect, PTL DEF Spec

-----------------------------------------------------------------------------
(* The recursion equations of Known, Denote and ConstEqOn(pool).           *)

\* The bodies of the three recursive definitions of IRConstant, with the
\* function being defined as the parameter g.
KnownDef(g, c) ==
    /\ c.tag # "Undef"
    /\ c.tag \in Composite => \A k \in DOMAIN c.pl : g[c.pl[k]]
DenoteDef(g, c) ==
    [ty |-> c.ty,
     v  |-> IF c.tag \in Composite
            THEN [k \in DOMAIN c.pl |-> g[c.pl[k]]]
            ELSE c.pl]
EqDef(g, p) ==
    LET l == p[1]
        r == p[2]
    IN  /\ l.ty = r.ty
        /\ l.tag # "Undef" /\ r.tag # "Undef"
        /\ l.tag = r.tag
        /\ IF l.tag \in Composite
           THEN \A k \in DOMAIN Zip(l.pl, r.pl) : g[Zip(l.pl, r.pl)[k]]
           ELSE l.pl = r.pl

\* The order of S by a natural-number measure m.
MeasureRel(S, m) == {ss \in S \X S : m[ss[1]] < m[ss[2]]}

\* An order by a natural-number measure is well founded.
LEMMA MeasureWF ==
    ASSUME NEW S, NEW m \in [S -> Nat]
    PROVE  IsWellFoundedOn(MeasureRel(S, m), S)
<1> SUFFICES ASSUME NEW c \in [Nat -> S],
                   \A n \in Nat : <<c[n + 1], c[n]>> \in MeasureRel(S, m)
            PROVE  FALSE
  BY DEF IsWellFoundedOn
<1> DEFINE d == [n \in Nat |-> m[c[n]]]
<1>1. d \in [Nat -> Nat]
  BY DEF d
<1>2. ASSUME NEW n \in Nat PROVE d[n + 1] < d[n]
  <2>1. <<c[n + 1], c[n]>> \in MeasureRel(S, m)
    OBVIOUS
  <2>2. m[c[n + 1]] < m[c[n]]
    BY <2>1 DEF MeasureRel
  <2>3. QED
    BY <2>2 DEF d
<1>3. ASSUME NEW n \in Nat PROVE <<d[n + 1], d[n]>> \in OpToRel(<, Nat)
  BY <1>1, <1>2 DEF OpToRel
<1>4. QED
  BY <1>1, <1>3, NatLessThanWellFounded, Zenon DEF IsWellFoundedOn

\* What zip returns: the pairs of elements at the positions of both lists,
\* all of them when the lists are equally long.
LEMMA ZipFacts ==
    ASSUME NEW S, NEW s \in Seq(S), NEW t \in Seq(S)
    PROVE  /\ DOMAIN Zip(s, t) \subseteq DOMAIN s \cap DOMAIN t
           /\ \A k \in DOMAIN Zip(s, t) : Zip(s, t)[k] = <<s[k], t[k]>>
           /\ Len(s) = Len(t) => DOMAIN Zip(s, t) = DOMAIN s
BY DEF Zip

\* Known satisfies its recursion equation in a ranked pool.
LEMMA KnownUnfold ==
    ASSUME TypeOK, NEW rk, RankOK(pool, rk)
    PROVE  Known = [c \in pool |-> KnownDef(Known, c)]
<1> DEFINE R == MeasureRel(pool, rk)
<1>1. IsWellFoundedOn(R, pool)
  BY MeasureWF DEF RankOK
<1>2. WFDefOn(R, pool, LAMBDA g, c : KnownDef(g, c))
  <2> SUFFICES ASSUME NEW g, NEW h, NEW x \in pool,
                      \A y \in SetLessThan(x, R, pool) : g[y] = h[y]
               PROVE  KnownDef(g, x) = KnownDef(h, x)
    BY DEF WFDefOn
  <2>1. ASSUME x.tag \in Composite, NEW k \in DOMAIN x.pl
        PROVE  x.pl[k] \in SetLessThan(x, R, pool)
    <3>1. x.pl[k] \in pool
      BY <2>1 DEF TypeOK
    <3>2. rk[x.pl[k]] < rk[x]
      BY <2>1 DEF RankOK
    <3>3. QED
      BY <3>1, <3>2 DEF SetLessThan, MeasureRel, R
  <2>2. QED
    BY <2>1 DEF KnownDef
<1>3. OpDefinesFcn(Known, pool, LAMBDA g, c : KnownDef(g, c))
  BY DEF OpDefinesFcn, Known, KnownDef
<1>4. WFInductiveDefines(Known, pool, LAMBDA g, c : KnownDef(g, c))
  BY <1>1, <1>2, <1>3, WFInductiveDef
<1>5. QED
  BY <1>4 DEF WFInductiveDefines

\* Denote satisfies its recursion equation in a ranked pool.
LEMMA DenoteUnfold ==
    ASSUME TypeOK, NEW rk, RankOK(pool, rk)
    PROVE  Denote = [c \in pool |-> DenoteDef(Denote, c)]
<1> DEFINE R == MeasureRel(pool, rk)
<1>1. IsWellFoundedOn(R, pool)
  BY MeasureWF DEF RankOK
<1>2. WFDefOn(R, pool, LAMBDA g, c : DenoteDef(g, c))
  <2> SUFFICES ASSUME NEW g, NEW h, NEW x \in pool,
                      \A y \in SetLessThan(x, R, pool) : g[y] = h[y]
               PROVE  DenoteDef(g, x) = DenoteDef(h, x)
    BY DEF WFDefOn
  <2>1. ASSUME x.tag \in Composite, NEW k \in DOMAIN x.pl
        PROVE  x.pl[k] \in SetLessThan(x, R, pool)
    <3>1. x.pl[k] \in pool
      BY <2>1 DEF TypeOK
    <3>2. rk[x.pl[k]] < rk[x]
      BY <2>1 DEF RankOK
    <3>3. QED
      BY <3>1, <3>2 DEF SetLessThan, MeasureRel, R
  <2>2. QED
    BY <2>1 DEF DenoteDef
<1>3. OpDefinesFcn(Denote, pool, LAMBDA g, c : DenoteDef(g, c))
  BY DEF OpDefinesFcn, Denote, DenoteDef
<1>4. WFInductiveDefines(Denote, pool, LAMBDA g, c : DenoteDef(g, c))
  BY <1>1, <1>2, <1>3, WFInductiveDef
<1>5. QED
  BY <1>4 DEF WFInductiveDefines

\* Constant::eq, as ConstEqOn(pool), satisfies its recursion equation in a
\* ranked pool: a pair of constants is compared through pairs of elements,
\* whose ranks sum to less.
LEMMA EqUnfold ==
    ASSUME TypeOK, NEW rk, RankOK(pool, rk)
    PROVE  ConstEqOn(pool) = [p \in pool \X pool |-> EqDef(ConstEqOn(pool), p)]
<1> DEFINE S == pool \X pool
           m == [p \in S |-> rk[p[1]] + rk[p[2]]]
           R == MeasureRel(S, m)
<1>1. IsWellFoundedOn(R, S)
  <2>1. m \in [S -> Nat]
    BY DEF RankOK
  <2>2. QED
    BY <2>1, MeasureWF
<1>2. WFDefOn(R, S, LAMBDA g, p : EqDef(g, p))
  <2> SUFFICES ASSUME NEW g, NEW h, NEW x \in S,
                      \A y \in SetLessThan(x, R, S) : g[y] = h[y]
               PROVE  EqDef(g, x) = EqDef(h, x)
    BY DEF WFDefOn
  <2> DEFINE l == x[1]
             r == x[2]
             z == Zip(l.pl, r.pl)
  <2>1. CASE l.tag = r.tag /\ l.tag \in Composite
    <3>1. l.pl \in Seq(pool) /\ r.pl \in Seq(pool)
      BY <2>1 DEF TypeOK
    <3>2. ASSUME NEW k \in DOMAIN z PROVE g[z[k]] = h[z[k]]
      <4>1. k \in DOMAIN l.pl /\ k \in DOMAIN r.pl /\ z[k] = <<l.pl[k], r.pl[k]>>
        BY <3>1, ZipFacts
      <4>2. l.pl[k] \in pool /\ r.pl[k] \in pool
        BY <3>1, <4>1
      <4>3. rk[l.pl[k]] < rk[l] /\ rk[r.pl[k]] < rk[r]
        BY <2>1, <4>1 DEF RankOK
      <4>4. z[k] \in SetLessThan(x, R, S)
        BY <4>1, <4>2, <4>3 DEF RankOK, SetLessThan, MeasureRel, R, m, S
      <4>5. QED
        BY <4>4
    <3>3. QED
      BY <3>2 DEF EqDef
  <2>2. CASE ~(l.tag = r.tag /\ l.tag \in Composite)
    BY <2>2 DEF EqDef
  <2>3. QED
    BY <2>1, <2>2
<1>3. OpDefinesFcn(ConstEqOn(pool), S, LAMBDA g, p : EqDef(g, p))
  BY DEF OpDefinesFcn, ConstEqOn, EqDef
<1>4. WFInductiveDefines(ConstEqOn(pool), S, LAMBDA g, p : EqDef(g, p))
  BY <1>1, <1>2, <1>3, WFInductiveDef
<1>5. QED
  BY <1>4 DEF WFInductiveDefines


-----------------------------------------------------------------------------
(* The equivalence, by induction on the sum of the ranks.                  *)

\* The statement of EqMatchesSpec for one pair of constants.
EqOk(l, r) ==
    ConstEq(l, r) <=> (Known[l] /\ Known[r] /\ Denote[l] = Denote[r])

\* Two well-shaped constants of one type that are not Undef have the same
\* variant, and arrays or structs of one type have as many elements.
LEMMA SameShape ==
    ASSUME NEW l, NEW r, WellShaped(l), WellShaped(r), l.ty = r.ty,
           l.tag # "Undef", r.tag # "Undef",
           l.tag \in Composite => l.pl \in Seq(pool),
           r.tag \in Composite => r.pl \in Seq(pool)
    PROVE  /\ l.tag = r.tag
           /\ l.tag \in Composite => Len(l.pl) = Len(r.pl)
<1>1. l.tag = r.tag
  BY DEF WellShaped, UnitT, BoolT, UintT, B256T, StringT, MkType,
         is_array, is_struct
<1>2. CASE l.tag = "Array"
  BY <1>1, <1>2 DEF WellShaped
<1>3. CASE l.tag = "Struct"
  <2>1. TypesOf(l.pl) = TypesOf(r.pl)
    BY <1>1, <1>3 DEF WellShaped
  <2>2. DOMAIN l.pl = DOMAIN r.pl
    BY <2>1 DEF TypesOf
  <2>3. QED
    BY <1>1, <1>3, <2>2, LenProperties DEF Composite
<1>4. QED
  BY <1>1, <1>2, <1>3 DEF Composite

\* One step of the induction: if every pair of constants whose ranks sum to
\* less satisfies EqOk, the pair l, r does.
LEMMA PairOk ==
    ASSUME TypeOK, ShapeInv, NEW rk, RankOK(pool, rk),
           NEW l \in pool, NEW r \in pool,
           \A a, b \in pool : rk[a] + rk[b] < rk[l] + rk[r] => EqOk(a, b)
    PROVE  EqOk(l, r)
<1>1. ConstEq(l, r) = EqDef(ConstEqOn(pool), <<l, r>>)
  BY EqUnfold DEF ConstEq
<1>2. Known[l] = KnownDef(Known, l) /\ Known[r] = KnownDef(Known, r)
  BY KnownUnfold
<1>3. Denote[l] = DenoteDef(Denote, l) /\ Denote[r] = DenoteDef(Denote, r)
  BY DenoteUnfold
<1>4. CASE l.tag = "Undef" \/ r.tag = "Undef"
  BY <1>1, <1>2, <1>4 DEF EqOk, EqDef, KnownDef
<1>5. CASE l.tag # "Undef" /\ r.tag # "Undef" /\ l.ty # r.ty
  BY <1>1, <1>3, <1>5 DEF EqOk, EqDef, DenoteDef
<1>6. CASE l.tag # "Undef" /\ r.tag # "Undef" /\ l.ty = r.ty
  <2>1. /\ l.tag = r.tag
        /\ l.tag \in Composite => Len(l.pl) = Len(r.pl)
    BY <1>6, SameShape DEF TypeOK, ShapeInv
  <2>2. CASE l.tag \notin Composite
    BY <1>1, <1>2, <1>3, <1>6, <2>1, <2>2 DEF EqOk, EqDef, KnownDef, DenoteDef
  <2>3. CASE l.tag \in Composite
    <3> DEFINE z == Zip(l.pl, r.pl)
               D == DOMAIN l.pl
    <3>1. l.pl \in Seq(pool) /\ r.pl \in Seq(pool)
      BY <2>1, <2>3 DEF TypeOK
    <3>2. DOMAIN z = D /\ DOMAIN r.pl = D
      BY <2>1, <2>3, <3>1, ZipFacts, LenProperties
    <3>3. ASSUME NEW k \in D
          PROVE  /\ z[k] = <<l.pl[k], r.pl[k]>>
                 /\ EqOk(l.pl[k], r.pl[k])
      <4>1. z[k] = <<l.pl[k], r.pl[k]>>
        BY <3>1, <3>2, ZipFacts
      <4>2. l.pl[k] \in pool /\ r.pl[k] \in pool
        BY <3>1, <3>2
      <4>3. rk[l.pl[k]] < rk[l] /\ rk[r.pl[k]] < rk[r]
        BY <2>1, <2>3, <3>2 DEF RankOK
      <4>4. rk[l.pl[k]] + rk[r.pl[k]] < rk[l] + rk[r]
        BY <4>2, <4>3 DEF RankOK
      <4>5. QED
        BY <4>1, <4>2, <4>4
    <3>4. ConstEq(l, r) <=> \A k \in D : ConstEq(l.pl[k], r.pl[k])
      <4>1. ConstEq(l, r) <=> \A k \in DOMAIN z : ConstEqOn(pool)[z[k]]
        BY <1>1, <1>6, <2>1, <2>3 DEF EqDef
      <4>2. \A k \in D : ConstEqOn(pool)[z[k]] = ConstEq(l.pl[k], r.pl[k])
        BY <3>3 DEF ConstEq
      <4>3. QED
        BY <3>2, <4>1, <4>2
    <3>5. /\ Known[l] <=> \A k \in D : Known[l.pl[k]]
          /\ Known[r] <=> \A k \in D : Known[r.pl[k]]
      BY <1>2, <1>6, <2>1, <2>3, <3>2 DEF KnownDef
    <3>6. Denote[l] = Denote[r] <=> \A k \in D : Denote[l.pl[k]] = Denote[r.pl[k]]
      <4>1. Denote[l] = [ty |-> l.ty, v |-> [k \in D |-> Denote[l.pl[k]]]]
        BY <1>3, <2>3 DEF DenoteDef
      <4>2. Denote[r] = [ty |-> r.ty, v |-> [k \in D |-> Denote[r.pl[k]]]]
        BY <1>3, <2>1, <2>3, <3>2 DEF DenoteDef
      <4>3. QED
        BY <1>6, <4>1, <4>2
    <3>7. QED
      BY <3>3, <3>4, <3>5, <3>6 DEF EqOk
  <2>4. QED
    BY <2>2, <2>3
<1>7. QED
  BY <1>4, <1>5, <1>6

\* In every state with a ranked, well-shaped pool, Constant::eq decides the
\* equality of spec section 4.3.  A least sum of ranks of a pair violating
\* it would contradict PairOk.
LEMMA EqInState ==
    ASSUME TypeOK, ShapeInv, RankInv
    PROVE  EqMatchesSpec
<1>1. PICK rk : RankOK(pool, rk)
  BY DEF RankInv
<1>2. rk \in [pool -> Nat]
  BY <1>1 DEF RankOK
<1> DEFINE Bad == {n \in Nat : \E l, r \in pool : rk[l] + rk[r] = n /\ ~EqOk(l, r)}
<1>3. SUFFICES ASSUME Bad # {} PROVE FALSE
  <2>1. \A l, r \in pool : rk[l] + rk[r] \in Nat
    BY <1>2
  <2>2. QED
    BY <2>1 DEF EqMatchesSpec, EqOk, Bad
<1>4. PICK n \in Bad : \A j \in Bad : ~(<<j, n>> \in OpToRel(<, Nat))
  BY <1>3, NatLessThanWellFounded, WFMin, Zenon
<1>5. \A a, b \in pool : rk[a] + rk[b] < n => EqOk(a, b)
  <2> SUFFICES ASSUME NEW a \in pool, NEW b \in pool, rk[a] + rk[b] < n,
                      ~EqOk(a, b)
               PROVE  FALSE
    OBVIOUS
  <2>1. rk[a] + rk[b] \in Bad /\ n \in Nat
    BY <1>2 DEF Bad
  <2>2. <<rk[a] + rk[b], n>> \in OpToRel(<, Nat)
    BY <1>2, <2>1 DEF OpToRel
  <2>3. QED
    BY <1>4, <2>1, <2>2, Zenon
<1>6. PICK l \in pool, r \in pool : rk[l] + rk[r] = n /\ ~EqOk(l, r)
  BY <1>4 DEF Bad
<1>7. EqOk(l, r)
  BY <1>1, <1>5, <1>6, PairOk
<1>8. QED
  BY <1>6, <1>7

\* Spec section 4.3 and constant.rs Constant::eq: with well-typed callers,
\* two constants compare equal exactly when neither contains an Undef at
\* any depth and they denote the same value, however the constructors
\* nest them and whatever the bounds.
THEOREM EqMatchesSpecCorrect ==
    ASSUME WellTyped PROVE Spec => []EqMatchesSpec
<1>1. TypeOK /\ ShapeInv /\ RankInv => EqMatchesSpec
  BY EqInState
<1>2. QED
  BY <1>1, RankCorrect, ShapeCorrect, PTL

\* Spec section 8 and constant.rs Constant::eq: with well-typed callers an
\* Undef nested anywhere in either operand makes eq return not-equal.  The
\* run ir_struct_arity shows that ill-typed struct fields break it.
THEOREM UndefNeverEqualCorrect ==
    ASSUME WellTyped PROVE Spec => []UndefNeverEqual
<1>1. EqMatchesSpec => UndefNeverEqual
  BY DEF EqMatchesSpec, UndefNeverEqual
<1>2. QED
  BY <1>1, EqMatchesSpecCorrect, PTL

=============================================================================
