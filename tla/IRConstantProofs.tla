-------------------------- MODULE IRConstantProofs --------------------------
(***************************************************************************)
(* Proofs about IRConstant for every value of its constants.               *)
(***************************************************************************)
EXTENDS IRConstant, SequenceTheorems, TLAPS

\* The element lists a constructor can be given are sequences.
LEMMA SeqOfIsSeq ==
    ASSUME NEW S, NEW n \in Nat
    PROVE  SeqOf(S, n) \subseteq Seq(S)
BY DEF SeqOf

\* A constant whose type is well formed over the registry and whose
\* elements are held, added by a constructor, keeps TypeOK.
NewOK(c) ==
    /\ c.ty.kind \in Kinds
    /\ c.ty.n \in Nat
    /\ c.ty.sub \in Seq(types)
    /\ c.tag \in Tags
    /\ c.tag \in Composite => c.pl \in Seq(pool)

LEMMA AddConstTypeOK ==
    ASSUME TypeOK, NEW c, NewOK(c),
           pool' = pool \cup {c}, types' = types \cup {c.ty},
           arena' = arena \/ arena' = Append(arena, c),
           aborted' = aborted
    PROVE  TypeOK'
<1>1. \A t \in types' : t.kind \in Kinds /\ t.n \in Nat /\ t.sub \in Seq(types')
  <2>1. Seq(types) \subseteq Seq(types')
    BY SeqMonotonic
  <2>2. QED
    BY <2>1 DEF TypeOK, NewOK
<1>2. Seq(pool) \subseteq Seq(pool')
  BY SeqMonotonic
<1>3. \A e \in pool' : e.ty \in types' /\ e.tag \in Tags
                      /\ (e.tag \in Composite => e.pl \in Seq(pool'))
  BY <1>2 DEF TypeOK, NewOK
<1>4. arena' \in Seq(pool')
  BY <1>2, AppendProperties DEF TypeOK
<1>5. QED
  BY <1>1, <1>3, <1>4 DEF TypeOK

LEMMA BuildTypeOK ==
    ASSUME TypeOK, NEW c, NewOK(c), Build(c) \/ BuildAndAlloc(c)
    PROVE  TypeOK'
BY AddConstTypeOK DEF Build, BuildAndAlloc, new_constant

\* The types the constructors intern are well formed.
LEMMA ScalarTypes ==
    /\ NewOK(new_unit_c)
    /\ \A b \in BOOLEAN : NewOK(new_bool_c(b))
    /\ \A w \in Widths, n \in Lits : NewOK(new_uint_c(w, n))
    /\ \A n \in Lits256 : NewOK(new_uint256_c(n))
    /\ \A bs \in [1..ByteLen -> ByteVals] : NewOK(new_b256_c(bs))
    /\ \A s \in Strings : NewOK(new_string_c(s))
<1>1. <<>> \in Seq(types)
  BY EmptySeq
<1>2. NewOK(new_unit_c)
  BY <1>1 DEF NewOK, new_unit_c, Mk, UnitT, MkType, Kinds, Tags, Composite
<1>3. \A b \in BOOLEAN : NewOK(new_bool_c(b))
  BY <1>1 DEF NewOK, new_bool_c, Mk, BoolT, MkType, Kinds, Tags, Composite
<1>4. ASSUME NEW w \in Widths, NEW n \in Lits PROVE NewOK(new_uint_c(w, n))
  <2>1. w \in Nat
    BY WidthsAssumption
  <2>2. new_uint_c(w, n).tag \in {"U256", "Uint"}
    BY DEF new_uint_c, Mk
  <2>3. QED
    BY <1>1, <2>1, <2>2
    DEF NewOK, new_uint_c, Mk, UintT, MkType, Kinds, Tags, Composite
<1>5. \A n \in Lits256 : NewOK(new_uint256_c(n))
  <2>1. 256 \in Nat
    OBVIOUS
  <2>2. \A n \in Lits256 : new_uint256_c(n).tag = "U256"
    BY DEF new_uint256_c, Mk
  <2>3. QED
    BY <1>1, <2>1, <2>2
    DEF NewOK, new_uint256_c, Mk, UintT, MkType, Kinds, Tags, Composite
<1>6. \A bs \in [1..ByteLen -> ByteVals] : NewOK(new_b256_c(bs))
  BY <1>1 DEF NewOK, new_b256_c, Mk, B256T, MkType, Kinds, Tags, Composite
<1>7. \A s \in Strings : NewOK(new_string_c(s))
  <2>1. \A s \in Strings : Len(s) \in Nat
    BY StringsAssumption, LenProperties
  <2>2. QED
    BY <1>1, <2>1
    DEF NewOK, new_string_c, Mk, StringT, MkType, Kinds, Tags, Composite
<1>8. QED
  BY <1>2, <1>3, <1>4, <1>5, <1>6, <1>7

THEOREM TypeCorrect == Spec => []TypeOK
<1>1. Init => TypeOK
  <2> SUFFICES ASSUME Init PROVE TypeOK
    OBVIOUS
  <2>1. <<>> \in Seq(types) /\ <<>> \in Seq(pool)
    BY EmptySeq
  <2>2. \A t \in types : t.kind \in Kinds /\ t.n \in Nat /\ t.sub = <<>>
    BY DEF Init, UnitT, BoolT, B256T, MkType, Kinds
  <2>3. QED
    BY <2>1, <2>2 DEF Init, TypeOK
<1>2. TypeOK /\ [Next]_vars => TypeOK'
  <2> SUFFICES ASSUME TypeOK, [Next]_vars PROVE TypeOK'
    OBVIOUS
  <2>1. CASE new_unit \/ get_unit
    BY <2>1, BuildTypeOK, ScalarTypes DEF new_unit, get_unit
  <2>2. CASE new_bool \/ get_bool
    BY <2>2, BuildTypeOK, ScalarTypes DEF new_bool, get_bool
  <2>3. CASE new_uint \/ get_uint
    BY <2>3, BuildTypeOK, ScalarTypes DEF new_uint, get_uint
  <2>4. CASE new_uint256 \/ get_uint256
    BY <2>4, BuildTypeOK, ScalarTypes DEF new_uint256, get_uint256
  <2>5. CASE new_b256 \/ get_b256
    BY <2>5, BuildTypeOK, ScalarTypes DEF new_b256, get_b256
  <2>6. CASE new_string \/ get_string
    BY <2>6, BuildTypeOK, ScalarTypes DEF new_string, get_string
  <2>7. CASE new_array
    <3>1. PICK elm_ty \in types, elems \in ElemLists :
              Build(new_array_c(elm_ty, elems))
      <4>1. \A ty \in types :
                SeqOf({c \in pool : c.ty = ty}, MaxLen) \subseteq ElemLists
        BY BoundsAssumption DEF ElemLists, SeqOf
      <4>2. QED
        BY <2>7, <4>1 DEF new_array
    <3>2. elems \in Seq(pool)
      BY <3>1, SeqOfIsSeq, BoundsAssumption DEF ElemLists
    <3>3. <<elm_ty>> \in Seq(types)
      OBVIOUS
    <3>4. NewOK(new_array_c(elm_ty, elems))
      BY <3>2, <3>3, LenProperties
      DEF NewOK, new_array_c, Mk, ArrayT, MkType, Kinds, Tags, Composite
    <3>5. QED
      BY <3>1, <3>4, BuildTypeOK
  <2>8. CASE new_struct
    <3>1. PICK fields \in ElemLists, field_tys \in FieldTyLists :
              Build(new_struct_c(field_tys, fields))
      <4>1. ASSUME NEW fs \in ElemLists PROVE TypesOf(fs) \in FieldTyLists
        <5>1. PICK m \in 0..MaxLen : fs \in [1..m -> pool]
          BY DEF ElemLists, SeqOf
        <5>2. TypesOf(fs) \in [1..m -> types]
          BY <5>1 DEF TypesOf, TypeOK
        <5>3. QED
          BY <5>1, <5>2 DEF FieldTyLists, SeqOf
      <4>2. QED
        BY <2>8, <4>1 DEF new_struct
    <3>2. fields \in Seq(pool) /\ field_tys \in Seq(types)
      BY <3>1, SeqOfIsSeq, BoundsAssumption DEF ElemLists, FieldTyLists
    <3>3. NewOK(new_struct_c(field_tys, fields))
      BY <3>2, LenProperties
      DEF NewOK, new_struct_c, Mk, StructT, MkType, Kinds, Tags, Composite
    <3>4. QED
      BY <3>1, <3>3, BuildTypeOK
  <2>9. CASE get_undef
    <3>1. PICK ty \in types : Build(get_undef_c(ty))
      BY <2>9 DEF get_undef
    <3>2. NewOK(get_undef_c(ty))
      BY DEF TypeOK, NewOK, get_undef_c, Mk, Tags, Composite
    <3>3. QED
      BY <3>1, <3>2, BuildTypeOK
  <2>10. CASE get_array \/ get_struct
    <3>1. PICK c \in pool : AssertThenAlloc(c, is_array(c.ty))
                           \/ AssertThenAlloc(c, is_struct(c.ty))
      BY <2>10 DEF get_array, get_struct
    <3>2. arena' = Append(arena, c) \/ arena' = arena
      BY <3>1 DEF AssertThenAlloc, new_constant
    <3>3. types' = types /\ pool' = pool /\ aborted' \in BOOLEAN
      BY <3>1 DEF AssertThenAlloc, TypeOK
    <3>4. arena' \in Seq(pool)
      BY <3>2, AppendProperties DEF TypeOK
    <3>5. QED
      BY <3>3, <3>4 DEF TypeOK
  <2>11. CASE UNCHANGED vars
    BY <2>11 DEF vars, TypeOK
  <2>12. QED
    BY <2>1, <2>2, <2>3, <2>4, <2>5, <2>6, <2>7, <2>8, <2>9, <2>10, <2>11
    DEF Next
<1>3. QED
  BY <1>1, <1>2, PTL DEF Spec

\* Adding a well-shaped constant keeps ShapeInv.
LEMMA AddConstShape ==
    ASSUME ShapeInv, NEW c, WellShaped(c), pool' = pool \cup {c}
    PROVE  ShapeInv'
BY DEF ShapeInv

\* Each constructor of constant.rs produces a constant of the shape its
\* type records: new_uint widens exactly the 256-bit literals.
LEMMA ScalarShapes ==
    /\ WellShaped(new_unit_c)
    /\ \A b \in BOOLEAN : WellShaped(new_bool_c(b))
    /\ \A w \in Widths, n \in Lits : WellShaped(new_uint_c(w, n))
    /\ \A n \in Lits256 : WellShaped(new_uint256_c(n))
    /\ \A bs \in [1..ByteLen -> ByteVals] : WellShaped(new_b256_c(bs))
    /\ \A s \in Strings : WellShaped(new_string_c(s))
    /\ \A ty \in types : WellShaped(get_undef_c(ty))
<1>1. WellShaped(new_unit_c)
  BY DEF WellShaped, new_unit_c, Mk
<1>2. \A b \in BOOLEAN : WellShaped(new_bool_c(b))
  BY DEF WellShaped, new_bool_c, Mk
<1>3. ASSUME NEW w \in Widths, NEW n \in Lits PROVE WellShaped(new_uint_c(w, n))
  <2>1. CASE w = 256
    BY <2>1 DEF WellShaped, new_uint_c, Mk
  <2>2. CASE w # 256
    BY <2>2 DEF WellShaped, new_uint_c, Mk, UintT, MkType
  <2>3. QED
    BY <2>1, <2>2
<1>4. \A n \in Lits256 : WellShaped(new_uint256_c(n))
  BY DEF WellShaped, new_uint256_c, Mk
<1>5. \A bs \in [1..ByteLen -> ByteVals] : WellShaped(new_b256_c(bs))
  BY DEF WellShaped, new_b256_c, Mk
<1>6. \A s \in Strings : WellShaped(new_string_c(s))
  BY DEF WellShaped, new_string_c, Mk
<1>7. \A ty \in types : WellShaped(get_undef_c(ty))
  BY DEF WellShaped, get_undef_c, Mk
<1>8. QED
  BY <1>1, <1>2, <1>3, <1>4, <1>5, <1>6, <1>7

\* With well-typed callers every constant built has the shape its type
\* records (spec section 3), whatever the widths, literals and bounds.
THEOREM ShapeCorrect == ASSUME WellTyped PROVE Spec => []ShapeInv
<1>1. Init => ShapeInv
  BY DEF Init, ShapeInv
<1>2. ShapeInv /\ [Next]_vars => ShapeInv'
  <2> SUFFICES ASSUME ShapeInv, [Next]_vars PROVE ShapeInv'
    OBVIOUS
  <2>1. ASSUME NEW c, WellShaped(c), Build(c) \/ BuildAndAlloc(c)
        PROVE  ShapeInv'
    BY <2>1, AddConstShape DEF Build, BuildAndAlloc
  <2>2. CASE new_unit \/ get_unit \/ new_bool \/ get_bool \/ new_uint
             \/ get_uint \/ new_uint256 \/ get_uint256 \/ new_b256
             \/ get_b256 \/ new_string \/ get_string \/ get_undef
    BY <2>1, <2>2, ScalarShapes
    DEF new_unit, get_unit, new_bool, get_bool, new_uint, get_uint,
        new_uint256, get_uint256, new_b256, get_b256, new_string,
        get_string, get_undef
  <2>3. CASE new_array
    <3>0. PICK elm_ty \in types :
               \E elems \in SeqOf({c \in pool : c.ty = elm_ty}, MaxLen) :
                  Build(new_array_c(elm_ty, elems))
      BY <2>3 DEF new_array
    <3>1. PICK elems \in SeqOf({c \in pool : c.ty = elm_ty}, MaxLen) :
               Build(new_array_c(elm_ty, elems))
      BY <3>0
    <3>2. PICK m \in 0..MaxLen : elems \in [1..m -> {c \in pool : c.ty = elm_ty}]
      BY <3>1 DEF SeqOf
    <3>3. Len(elems) = m
      BY <3>2, BoundsAssumption
    <3>4. WellShaped(new_array_c(elm_ty, elems))
      BY <3>2, <3>3
      DEF WellShaped, new_array_c, Mk, ArrayT, MkType, is_array
    <3>5. QED
      BY <3>1, <3>4, <2>1
  <2>4. CASE new_struct
    <3>1. PICK fields \in ElemLists :
               Build(new_struct_c(TypesOf(fields), fields))
      BY <2>4 DEF new_struct
    <3>2. WellShaped(new_struct_c(TypesOf(fields), fields))
      BY DEF WellShaped, new_struct_c, Mk, StructT, MkType, is_struct
    <3>3. QED
      BY <3>1, <3>2, <2>1
  <2>5. CASE get_array \/ get_struct
    BY <2>5 DEF get_array, get_struct, AssertThenAlloc, ShapeInv
  <2>6. CASE UNCHANGED vars
    BY <2>6 DEF vars, ShapeInv
  <2>7. QED
    BY <2>2, <2>3, <2>4, <2>5, <2>6 DEF Next
<1>3. QED
  BY <1>1, <1>2, PTL DEF Spec


\* A well-shaped constant of an enum-shaped type is an Undef or a struct of
\* two fields whose first field has the type u64.
LEMMA EnumOfShape ==
    ASSUME NEW c, WellShaped(c), NEW T, c.ty.sub \in Seq(T),
           c.tag \in Composite => c.pl \in Seq(pool)
    PROVE  /\ extract_enum_tag_and_value(c) # None
                 <=> is_enum(c.ty) /\ c.tag # "Undef"
           /\ extract_enum_tag_and_value(c) # None
                 => extract_enum_tag_and_value(c)[1].ty = UintT(64)
<1>1. CASE is_enum(c.ty) /\ c.tag # "Undef"
  <2>1. c.tag = "Struct"
    BY <1>1 DEF WellShaped, is_enum, is_struct, is_array, UnitT, BoolT,
                B256T, UintT, StringT, MkType
  <2>2. TypesOf(c.pl) = c.ty.sub /\ c.pl \in Seq(pool)
    BY <2>1 DEF WellShaped, Composite
  <2>3. Len(c.ty.sub) = 2 /\ c.ty.sub[1] = UintT(64)
    BY <1>1 DEF is_enum
  <2>4. DOMAIN c.pl = 1..2
    BY <2>2, <2>3, LenProperties DEF TypesOf
  <2>5. Len(c.pl) = 2 /\ c.pl[1].ty = UintT(64)
    BY <2>2, <2>3, <2>4, LenProperties DEF TypesOf
  <2>6. QED
    BY <1>1, <2>1, <2>5 DEF extract_enum_tag_and_value, None
<1>2. CASE ~(is_enum(c.ty) /\ c.tag # "Undef")
  BY <1>2 DEF extract_enum_tag_and_value, None
<1>3. QED
  BY <1>1, <1>2

\* With well-typed callers, extract_enum_tag_and_value succeeds on exactly
\* the constants of an enum-shaped type that are not Undef, and the tag it
\* returns is a u64: its second None is reached only through get_undef.
THEOREM EnumExtractionCorrect ==
    ASSUME WellTyped PROVE Spec => []EnumExtraction
<1>1. TypeOK /\ ShapeInv => EnumExtraction
  <2> SUFFICES ASSUME TypeOK, ShapeInv, NEW c \in pool
               PROVE  /\ extract_enum_tag_and_value(c) # None
                             <=> is_enum(c.ty) /\ c.tag # "Undef"
                      /\ extract_enum_tag_and_value(c) # None
                             => extract_enum_tag_and_value(c)[1].ty = UintT(64)
    BY DEF EnumExtraction
  <2>1. WellShaped(c) /\ c.ty.sub \in Seq(types)
        /\ (c.tag \in Composite => c.pl \in Seq(pool))
    BY DEF TypeOK, ShapeInv
  <2>2. QED
    BY <2>1, EnumOfShape
<1>2. QED
  BY <1>1, TypeCorrect, ShapeCorrect, PTL

=============================================================================
