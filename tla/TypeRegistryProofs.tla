------------------------- MODULE TypeRegistryProofs -------------------------
(***************************************************************************)
(* Proofs about TypeRegistry for every value of its constants: the table   *)
(* never holds a content twice, and the registry implements the abstract  *)
(* one of AbstractTypeRegistry.                                            *)
(***************************************************************************)
EXTENDS TypeRegistry, SequenceTheorems, WellFoundedInduction, TLAPS

\* The contents a slot may hold.
CS == [kind : Kinds, n : Nat, sub : Seq(Nat \ {0})]

\* The inductive invariant: the type invariant (which orders the handles a
\* content refers to) and no content stored twice.
IInv == RegistryTypeOK /\ Interning

\* The field lists new_struct can be given are sequences.
LEMMA SeqOfIsSeq ==
    ASSUME NEW S, NEW n \in Nat
    PROVE  SeqOf(S, n) \subseteq Seq(S)
BY DEF SeqOf

\* The lookup-then-append of every constructor keeps the invariant, for a
\* content that refers only to types already in the table.
LEMMA InternStep ==
    ASSUME IInv, NEW c \in CS,
           \A k \in DOMAIN c.sub : c.sub[k] \in 1..Len(slots),
           Intern(c)
    PROVE  IInv'
<1>1. CASE \E h \in DOMAIN slots : slots[h] = c
  BY <1>1 DEF Intern, IInv, RegistryTypeOK, Interning
<1>2. CASE ~\E h \in DOMAIN slots : slots[h] = c
  <2>1. slots' = Append(slots, c)
    BY <1>2 DEF Intern
  <2>2. slots \in Seq(CS)
    BY DEF IInv, RegistryTypeOK, CS
  <2>3. /\ slots' \in Seq(CS)
        /\ Len(slots') = Len(slots) + 1
        /\ \A i \in 1..Len(slots) : slots'[i] = slots[i]
        /\ slots'[Len(slots) + 1] = c
    BY <2>1, <2>2, AppendProperties
  <2>4. /\ DOMAIN slots = 1..Len(slots)
        /\ DOMAIN slots' = 1..(Len(slots) + 1)
        /\ Len(slots) \in Nat
    BY <2>2, <2>3, LenProperties
  <2>5. \A h \in DOMAIN slots' : \A k \in DOMAIN slots'[h].sub : slots'[h].sub[k] < h
    <3>1. SUFFICES ASSUME NEW h \in DOMAIN slots', NEW k \in DOMAIN slots'[h].sub
                   PROVE  slots'[h].sub[k] < h
      OBVIOUS
    <3>2. CASE h \in 1..Len(slots)
      BY <3>2, <2>3, <2>4 DEF IInv, RegistryTypeOK
    <3>3. CASE h = Len(slots) + 1
      BY <3>3, <2>3, <2>4
    <3>4. QED
      BY <3>2, <3>3, <2>4
  <2>6. Interning'
    BY <1>2, <2>3, <2>4 DEF IInv, Interning
  <2>7. QED
    BY <2>3, <2>5, <2>6 DEF IInv, RegistryTypeOK, CS
<1>3. QED
  BY <1>1, <1>2

\* spec.md 8, Interning: every table the constructors build holds each type
\* content once, with every content referring only to types allocated
\* before it.
THEOREM RegistryInterning == Spec => []IInv
<1>1. Init => IInv
  BY EmptySeq DEF Init, IInv, RegistryTypeOK, Interning
<1>2. IInv /\ [Next]_slots => IInv'
  <2> SUFFICES ASSUME IInv, [Next]_slots PROVE IInv'
    OBVIOUS
  <2>1. /\ slots \in Seq(CS)
        /\ DOMAIN slots = 1..Len(slots)
        /\ Len(slots) \in Nat
    BY LenProperties DEF IInv, RegistryTypeOK, CS
  <2>2. ASSUME NEW k \in Kinds, NEW n \in Nat, Intern(Content(k, n, <<>>))
        PROVE  IInv'
    <3>1. Content(k, n, <<>>) \in CS
      BY EmptySeq DEF Content, CS
    <3>2. \A i \in DOMAIN Content(k, n, <<>>).sub : FALSE
      BY DEF Content
    <3>3. QED
      BY <2>2, <3>1, <3>2, InternStep
  <2>3. CASE get_unit \/ get_bool \/ get_b256
    BY <2>3, <2>2 DEF get_unit, get_bool, get_b256, Kinds
  <2>4. CASE new_uint
    BY <2>4, <2>2, RegistryAssumption DEF new_uint, Kinds
  <2>5. CASE new_string
    BY <2>5, <2>2, RegistryAssumption DEF new_string, Kinds
  <2>6. CASE new_array
    <3>1. PICK elm \in DOMAIN slots, len \in Lengths :
                 Intern(Content("Array", len, <<elm>>))
      BY <2>6 DEF new_array
    <3>2. Content("Array", len, <<elm>>) \in CS
      BY <2>1, RegistryAssumption DEF Content, CS, Kinds
    <3>3. \A i \in DOMAIN Content("Array", len, <<elm>>).sub :
             Content("Array", len, <<elm>>).sub[i] \in 1..Len(slots)
      BY <2>1 DEF Content
    <3>4. QED
      BY <3>1, <3>2, <3>3, InternStep
  <2>7. CASE new_struct
    <3>1. PICK fields \in SeqOf(DOMAIN slots, MaxLen) :
                 Intern(Content("Struct", 0, fields))
      BY <2>7 DEF new_struct
    <3>2. fields \in Seq(DOMAIN slots)
      BY <3>1, SeqOfIsSeq, RegistryAssumption
    <3>3. fields \in Seq(Nat \ {0})
      BY <3>2, <2>1, SeqMonotonic
    <3>4. \A i \in DOMAIN fields : fields[i] \in 1..Len(slots)
      BY <3>2, <2>1, ElementOfSeq, LenProperties
    <3>5. QED
      BY <3>1, <3>3, <3>4, InternStep DEF Content, CS, Kinds
  <2>8. CASE UNCHANGED slots
    BY <2>8 DEF IInv, RegistryTypeOK, Interning
  <2>9. QED
    BY <2>3, <2>4, <2>5, <2>6, <2>7, <2>8 DEF Next
<1>3. QED
  BY <1>1, <1>2, PTL DEF Spec

\* The type invariant of the registry, from the inductive one.
THEOREM RegistryTypeCorrect == Spec => []RegistryTypeOK
BY RegistryInterning, PTL DEF IInv

\* A constructor call is a step of the abstract registry, or leaves the
\* table's entries as they are: a content found keeps the table, a content
\* not found is appended under the next handle, which no entry holds.
LEMMA InternRefines ==
    ASSUME IInv, NEW c, Intern(c)
    PROVE  [Abs!Intern]_Entries
<1>1. CASE \E h \in DOMAIN slots : slots[h] = c
  <2>1. slots' = slots
    BY <1>1 DEF Intern
  <2>2. QED
    BY <2>1 DEF Entries
<1>2. CASE ~\E h \in DOMAIN slots : slots[h] = c
  <2> DEFINE n == Len(slots)
             p == <<c, n + 1>>
  <2>1. slots' = Append(slots, c)
    BY <1>2 DEF Intern
  <2>2. slots \in Seq(CS \cup {c})
    <3>1. slots \in Seq(CS)
      BY DEF IInv, RegistryTypeOK, CS
    <3>2. QED
      BY <3>1, SeqMonotonic
  <2>3. /\ Len(slots') = n + 1
        /\ \A i \in 1..n : slots'[i] = slots[i]
        /\ slots'[n + 1] = c
        /\ DOMAIN slots = 1..n
        /\ DOMAIN slots' = 1..(n + 1)
        /\ n \in Nat
    BY <2>1, <2>2, AppendProperties, LenProperties
  <2>4. Entries' = Entries \cup {p}
    BY <2>3 DEF Entries
  <2>5. p \notin Entries /\ p = <<p[1], p[2]>>
    BY <2>3 DEF Entries
  <2>6. p[1] \notin Abs!InternedTypes
    BY <1>2 DEF Abs!InternedTypes, Entries
  <2>7. p[2] \notin Abs!GivenHandles
    BY <2>3 DEF Abs!GivenHandles, Entries
  <2>8. QED
    BY <2>4, <2>5, <2>6, <2>7 DEF Abs!Intern
<1>3. QED
  BY <1>1, <1>2

\* Spec 4.1 and 8 as a refinement (AbsSpec): read through its entries, the
\* table the constructors build is an abstract registry in which each
\* request adds a fresh type under a fresh handle or changes nothing.
THEOREM RegistryRefinement == Spec => AbsSpec
<1>1. Init => Abs!Init
  BY DEF Init, Abs!Init, Entries
<1>2. IInv /\ [Next]_slots => [Abs!Intern]_Entries
  <2> SUFFICES ASSUME IInv, [Next]_slots PROVE [Abs!Intern]_Entries
    OBVIOUS
  <2>1. CASE \E c : Intern(c)
    BY <2>1, InternRefines
  <2>2. CASE UNCHANGED slots
    BY <2>2 DEF Entries
  <2>3. QED
    BY <2>1, <2>2 DEF Next, get_unit, get_bool, get_b256, new_uint, new_string,
                      new_array, new_struct
<1>3. QED
  BY <1>1, <1>2, RegistryInterning, PTL DEF Spec, AbsSpec, Abs!Spec


-----------------------------------------------------------------------------
(* Structural interning.  Structure is a recursive function over the       *)
(* handles; it is well defined because a content refers only to smaller    *)
(* handles, and two handles with the same structure are equal by an        *)
(* induction on the larger of them.                                        *)

\* One unfolding of Structure at handle i, with g for the structures of the
\* handles slot i refers to.
StructDef(g, i) ==
    [kind |-> slots[i].kind, n |-> slots[i].n,
     sub |-> [k \in DOMAIN slots[i].sub |-> g[slots[i].sub[k]]]]

\* The recursive function Structure reads.
StructFn ==
    CHOOSE st : st = [i \in DOMAIN slots |->
                        [kind |-> slots[i].kind, n |-> slots[i].n,
                         sub |-> [k \in DOMAIN slots[i].sub |-> st[slots[i].sub[k]]]]]

\* A slot refers to handles of the table below its own.
LEMMA SubBelow ==
    ASSUME RegistryTypeOK, NEW x \in DOMAIN slots, NEW k \in DOMAIN slots[x].sub
    PROVE  slots[x].sub[k] \in DOMAIN slots /\ slots[x].sub[k] < x
<1>1. DOMAIN slots = 1..Len(slots)
  BY LenProperties DEF RegistryTypeOK
<1>2. slots[x] \in [kind : Kinds, n : Nat, sub : Seq(Nat \ {0})]
  BY <1>1, ElementOfSeq DEF RegistryTypeOK
<1>3. slots[x].sub[k] \in Nat \ {0}
  BY <1>2, ElementOfSeq, LenProperties
<1>4. QED
  BY <1>1, <1>3 DEF RegistryTypeOK

\* The unfolding at x only reads the structures of handles below x.
LEMMA StructDefLocal ==
    ASSUME RegistryTypeOK, NEW g, NEW h, NEW x \in DOMAIN slots,
           \A y \in DOMAIN slots : y < x => g[y] = h[y]
    PROVE  StructDef(g, x) = StructDef(h, x)
BY SubBelow DEF StructDef

\* Structure satisfies its recursion equation in every well-typed table.
LEMMA StructUnfold ==
    ASSUME RegistryTypeOK
    PROVE  StructFn = [i \in DOMAIN slots |-> StructDef(StructFn, i)]
<1> DEFINE S == DOMAIN slots
           R == OpToRel(<, Nat)
<1>1. S = 1..Len(slots) /\ S \subseteq Nat
  BY LenProperties DEF RegistryTypeOK, S
<1>2. IsWellFoundedOn(R, S)
  BY <1>1, NatLessThanWellFounded, IsWellFoundedOnSubset, Zenon DEF R
<1>3. WFDefOn(R, S, LAMBDA g, i : StructDef(g, i))
  <2> SUFFICES ASSUME NEW g, NEW h, NEW x \in S,
                      \A y \in SetLessThan(x, R, S) : g[y] = h[y]
               PROVE  StructDef(g, x) = StructDef(h, x)
    BY DEF WFDefOn
  <2>1. \A y \in DOMAIN slots : y < x => g[y] = h[y]
    BY <1>1, Zenon DEF SetLessThan, OpToRel, R, S
  <2>2. QED
    BY <2>1, StructDefLocal DEF S
<1>4. OpDefinesFcn(StructFn, S, LAMBDA g, i : StructDef(g, i))
  BY DEF OpDefinesFcn, StructFn, StructDef, S
<1>5. WFInductiveDefines(StructFn, S, LAMBDA g, i : StructDef(g, i))
  BY <1>2, <1>3, <1>4, WFInductiveDef
<1>6. QED
  BY <1>5 DEF WFInductiveDefines, S

\* Structure, read as the function StructFn.
LEMMA StructureIsFn ==
    \A h \in DOMAIN slots : Structure(h) = StructFn[h]
BY DEF Structure, StructFn


\* In a table without repeated contents whose contents refer to smaller
\* handles, different handles have different structures.  A least handle h
\* sharing its structure with a smaller g would have the kind, width and
\* field structures of g; fields with equal structures are equal handles,
\* since they are below h, so slots[h] = slots[g], which interning forbids.
LEMMA StructInjective ==
    ASSUME IInv PROVE StructuralInterning
<1>1. StructFn = [i \in DOMAIN slots |-> StructDef(StructFn, i)]
  BY StructUnfold DEF IInv
<1>2. DOMAIN slots \subseteq Nat
  BY LenProperties DEF IInv, RegistryTypeOK
<1> DEFINE Bad == {h \in DOMAIN slots :
                     \E g \in DOMAIN slots : g < h /\ StructFn[h] = StructFn[g]}
<1>3. SUFFICES Bad = {}
  <2> SUFFICES ASSUME Bad = {}, NEW h \in DOMAIN slots, NEW g \in DOMAIN slots,
                      StructFn[h] = StructFn[g]
               PROVE  h = g
    BY StructureIsFn DEF StructuralInterning
  <2>1. ~(g < h) /\ ~(h < g)
    BY DEF Bad
  <2>2. QED
    BY <1>2, <2>1
<1>4. SUFFICES ASSUME Bad # {} PROVE FALSE
  OBVIOUS
<1>5. PICK h \in Bad : \A j \in Bad : ~(<<j, h>> \in OpToRel(<, Nat))
  <2>1. Bad \subseteq Nat
    BY <1>2 DEF Bad
  <2>2. QED
    BY <1>4, <2>1, NatLessThanWellFounded, WFMin, Zenon
<1>6. \A j \in DOMAIN slots : j < h => j \notin Bad
  BY <1>2, <1>5, Zenon DEF OpToRel, Bad
<1>7. PICK g \in DOMAIN slots : g < h /\ StructFn[h] = StructFn[g]
  BY <1>5 DEF Bad
<1>8. /\ slots[h].kind = slots[g].kind
      /\ slots[h].n = slots[g].n
      /\ DOMAIN slots[h].sub = DOMAIN slots[g].sub
      /\ \A k \in DOMAIN slots[h].sub :
            StructFn[slots[h].sub[k]] = StructFn[slots[g].sub[k]]
  <2>1. StructDef(StructFn, h) = StructDef(StructFn, g)
    BY <1>1, <1>5, <1>7 DEF Bad
  <2>2. QED
    BY <2>1 DEF StructDef
<1>9. \A k \in DOMAIN slots[h].sub : slots[h].sub[k] = slots[g].sub[k]
  <2> SUFFICES ASSUME NEW k \in DOMAIN slots[h].sub,
                      slots[h].sub[k] # slots[g].sub[k]
               PROVE  FALSE
    OBVIOUS
  <2> DEFINE a == slots[h].sub[k]
             b == slots[g].sub[k]
  <2>1. a \in DOMAIN slots /\ a < h
    BY <1>5, SubBelow DEF IInv, Bad
  <2>2. b \in DOMAIN slots /\ b < g
    BY <1>7, <1>8, SubBelow DEF IInv
  <2>3. StructFn[a] = StructFn[b]
    BY <1>8
  <2>4. CASE a < b
    <3>1. b \in Bad
      BY <2>1, <2>2, <2>3, <2>4 DEF Bad
    <3>2. b < h
      BY <1>2, <1>7, <2>2
    <3>3. QED
      BY <1>6, <2>2, <3>1, <3>2
  <2>5. CASE b < a
    <3>1. a \in Bad
      BY <2>1, <2>2, <2>3, <2>5 DEF Bad
    <3>2. QED
      BY <1>6, <2>1, <3>1
  <2>6. QED
    BY <1>2, <2>1, <2>2, <2>4, <2>5
<1>10. slots[h] = slots[g]
  <2>1. slots[h] \in CS /\ slots[g] \in CS
    BY <1>5, <1>7, ElementOfSeq, LenProperties DEF IInv, RegistryTypeOK, CS, Bad
  <2>2. slots[h].sub = slots[g].sub
    BY <1>8, <1>9, <2>1 DEF CS
  <2>3. QED
    BY <1>8, <2>1, <2>2 DEF CS
<1>11. h = g
  BY <1>5, <1>7, <1>10, Zenon DEF IInv, Interning, Bad
<1>12. QED
  BY <1>2, <1>7, <1>11

\* spec.md 8, Interning, read structurally: the registry never gives two
\* handles to the same type, however deeply its element and field types
\* are nested, in every table the constructors build.
THEOREM StructuralInterningCorrect == Spec => []StructuralInterning
<1>1. IInv => StructuralInterning
  BY StructInjective
<1>2. QED
  BY <1>1, RegistryInterning, PTL

=============================================================================
