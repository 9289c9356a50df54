----------------------------- MODULE IRConstant -----------------------------
(***************************************************************************)
(* Typed constants of the sway IR (src/sway-ir/src/constant.rs) inside one  *)
(* compilation Context.                                                    *)
(*                                                                         *)
(* A Constant is a record [ty, tag, pl]: its interned Type, the variant of *)
(* ConstantValue and the payload of that variant.  A Type is represented   *)
(* by its structural description, so that two handles of the registry are  *)
(* equal exactly when their descriptions are (the interning the Context    *)
(* guarantees).  The state is                                              *)
(*   types   the Type registry of the Context (what has been interned),    *)
(*   pool    the constants the compiler has built so far (Constants are    *)
(*           immutable values, so the set of them is what callers hold),   *)
(*   arena   the Values allocated by Value::new_constant, in order: a      *)
(*           Value handle is an index of arena,                            *)
(*   aborted TRUE once an assert! of the code has failed (a panic ends     *)
(*           the compilation task).                                        *)
(* Every constructor of constant.rs is an action; eq and                   *)
(* extract_enum_tag_and_value are pure and are operators.                  *)
(***************************************************************************)
EXTENDS Naturals, Sequences, SequencesExt

CONSTANTS
    Widths,     \* nbits given to new_uint
    Lits,       \* u64 literals given to new_uint
    Lits256,    \* U256 literals given to new_uint256
    ByteVals,   \* byte values of the [u8; 32] given to new_b256
    ByteLen,    \* length of that byte array (32 in the code)
    Strings,    \* byte strings given to new_string
    MaxLen,     \* longest element / field list given to new_array, new_struct
    MaxPool,    \* bound on the number of distinct constants built
    MaxValues,  \* bound on the number of Values allocated in the arena
    WellTyped   \* TRUE: upstream phases pass elements of the declared types

ASSUME WidthsAssumption == Widths \subseteq {8, 16, 32, 64, 256}
ASSUME LitsAssumption == Lits \subseteq Nat /\ Lits256 \subseteq Nat
ASSUME BytesAssumption == ByteVals \subseteq 0..255 /\ ByteLen \in Nat
ASSUME StringsAssumption == \A s \in Strings : s \in Seq(0..255)
ASSUME BoundsAssumption ==
    MaxLen \in Nat /\ MaxPool \in Nat /\ MaxValues \in Nat
ASSUME WellTypedAssumption == WellTyped \in BOOLEAN

VARIABLES types, pool, arena, aborted

vars == <<types, pool, arena, aborted>>

-----------------------------------------------------------------------------
(* Type descriptions: kind, a number (width or length) and sub-types.      *)

MkType(k, n, sub) == [kind |-> k, n |-> n, sub |-> sub]
UnitT == MkType("Unit", 0, <<>>)
BoolT == MkType("Bool", 0, <<>>)
B256T == MkType("B256", 0, <<>>)
UintT(w) == MkType("Uint", w, <<>>)
StringT(len) == MkType("String", len, <<>>)
ArrayT(elm, len) == MkType("Array", len, <<elm>>)
StructT(fields) == MkType("Struct", Len(fields), fields)

\* Type::is_array, Type::is_struct.
is_array(ty) == ty.kind = "Array"
is_struct(ty) == ty.kind = "Struct"

\* Type::is_enum: an enum is encoded as a struct of a u64 discriminant and a
\* payload field; the predicate recognises that shape only.
is_enum(ty) == is_struct(ty) /\ Len(ty.sub) = 2 /\ ty.sub[1] = UintT(64)

-----------------------------------------------------------------------------
(* Constants.                                                              *)

Mk(ty, tag, pl) == [ty |-> ty, tag |-> tag, pl |-> pl]

Tags == {"Undef", "Unit", "Bool", "Uint", "U256", "B256", "String",
         "Array", "Struct"}
Composite == {"Array", "Struct"}

\* B256::from_be_bytes: the first byte is the most significant one.
FromBeBytes(bs) ==
    LET acc[i \in 0..Len(bs)] == IF i = 0 THEN 0 ELSE acc[i - 1] * 256 + bs[i]
    IN  acc[Len(bs)]

new_unit_c == Mk(UnitT, "Unit", <<>>)
new_bool_c(b) == Mk(BoolT, "Bool", b)
\* Mutant: a 256-bit literal kept in the Uint variant (no widening).
mut_new_uint_c(nbits, n) == Mk(UintT(nbits), "Uint", n)
new_uint_c(nbits, n) ==
    Mk(UintT(nbits), IF nbits = 256 THEN "U256" ELSE "Uint", n)
new_uint256_c(n) == Mk(UintT(256), "U256", n)
new_b256_c(bytes) == Mk(B256T, "B256", FromBeBytes(bytes))
new_string_c(s) == Mk(StringT(Len(s)), "String", s)
new_array_c(elm_ty, elems) == Mk(ArrayT(elm_ty, Len(elems)), "Array", elems)
new_struct_c(field_tys, fields) == Mk(StructT(field_tys), "Struct", fields)
get_undef_c(ty) == Mk(ty, "Undef", <<>>)

\* The value extract_enum_tag_and_value returns when it returns None.
None == <<>>

\* Mutant: the is_enum early return dropped.
mut_extract_enum_tag_and_value(c) ==
    IF c.tag = "Struct" /\ Len(c.pl) = 2 THEN <<c.pl[1], c.pl[2]>> ELSE None

extract_enum_tag_and_value(c) ==
    IF is_enum(c.ty) /\ c.tag = "Struct" /\ Len(c.pl) = 2
    THEN <<c.pl[1], c.pl[2]>>
    ELSE None

\* Mutant: eq without the Undef arm, as the derived PartialEq would compare.
MutConstEqOn(P) ==
    LET eq[p \in P \X P] ==
            LET l == p[1]
                r == p[2]
            IN  /\ l.ty = r.ty
                /\ l.tag = r.tag
                /\ IF l.tag \in Composite
                   THEN \A k \in DOMAIN Zip(l.pl, r.pl) :
                            eq[Zip(l.pl, r.pl)[k]]
                   ELSE l.pl = r.pl
    IN  eq

\* Constant::eq on the constants of a set P closed under taking elements:
\* equal types, then Undef on either side is unequal, then same variants
\* compare their payloads, arrays and structs pairwise over zip (which
\* stops at the shorter list), and different variants are unequal.
ConstEqOn(P) ==
    LET eq[p \in P \X P] ==
            LET l == p[1]
                r == p[2]
            IN  /\ l.ty = r.ty
                /\ l.tag # "Undef" /\ r.tag # "Undef"
                /\ l.tag = r.tag
                /\ IF l.tag \in Composite
                   THEN \A k \in DOMAIN Zip(l.pl, r.pl) :
                            eq[Zip(l.pl, r.pl)[k]]
                   ELSE l.pl = r.pl
    IN  eq

ConstEq(l, r) == ConstEqOn(pool)[<<l, r>>]

-----------------------------------------------------------------------------
(* Operations.                                                             *)

\* Mutant: a constructor that builds its type without interning it.
MutBuild(c) ==
    /\ ~aborted
    /\ c \notin pool
    /\ Cardinality(pool) < MaxPool
    /\ pool' = pool \cup {c}
    /\ UNCHANGED <<types, arena, aborted>>

\* A constructor that returns the constant by value to its caller: the
\* types it interns join the registry.
Build(c) ==
    /\ ~aborted
    /\ c \notin pool
    /\ Cardinality(pool) < MaxPool
    /\ pool' = pool \cup {c}
    /\ types' = types \cup {c.ty}
    /\ UNCHANGED <<arena, aborted>>

\* Value::new_constant: a fresh arena slot, never shared with an equal one.
new_constant(c) ==
    /\ Len(arena) < MaxValues
    /\ arena' = Append(arena, c)

\* get_unit, get_bool, ...: the constructor followed by Value::new_constant.
BuildAndAlloc(c) ==
    /\ ~aborted
    /\ c \in pool \/ Cardinality(pool) < MaxPool
    /\ pool' = pool \cup {c}
    /\ types' = types \cup {c.ty}
    /\ new_constant(c)
    /\ UNCHANGED aborted

\* The element (field) lists a caller can pass: constants it holds, and
\* when WellTyped of the declared element (field) types.
ElemLists == SeqOf(pool, MaxLen)
FieldTyLists == SeqOf(types, MaxLen)
TypesOf(cs) == [k \in DOMAIN cs |-> cs[k].ty]

new_unit == Build(new_unit_c)
new_bool == \E b \in BOOLEAN : Build(new_bool_c(b))
new_uint == \E w \in Widths, n \in Lits : Build(new_uint_c(w, n))
new_uint256 == \E n \in Lits256 : Build(new_uint256_c(n))
new_b256 == \E bs \in [1..ByteLen -> ByteVals] : Build(new_b256_c(bs))
new_string == \E s \in Strings : Build(new_string_c(s))
new_array ==
    \E elm_ty \in types :
        \E elems \in IF WellTyped THEN SeqOf({c \in pool : c.ty = elm_ty}, MaxLen)
                                 ELSE ElemLists :
            Build(new_array_c(elm_ty, elems))
new_struct ==
    \E fields \in ElemLists :
        \E field_tys \in IF WellTyped THEN {TypesOf(fields)} ELSE FieldTyLists :
            Build(new_struct_c(field_tys, fields))
get_undef == \E ty \in types : Build(get_undef_c(ty))

get_unit == BuildAndAlloc(new_unit_c)
get_bool == \E b \in BOOLEAN : BuildAndAlloc(new_bool_c(b))
get_uint == \E w \in Widths, n \in Lits : BuildAndAlloc(new_uint_c(w, n))
get_uint256 == \E n \in Lits256 : BuildAndAlloc(new_uint256_c(n))
get_b256 == \E bs \in [1..ByteLen -> ByteVals] : BuildAndAlloc(new_b256_c(bs))
get_string == \E s \in Strings : BuildAndAlloc(new_string_c(s))

\* get_array / get_struct hand a constant the caller built to the arena
\* after assert!(value.ty.is_array / is_struct); a failed assert panics.
AssertThenAlloc(c, holds) ==
    /\ ~aborted
    /\ \/ holds /\ new_constant(c) /\ UNCHANGED aborted
       \/ ~holds /\ aborted' = TRUE /\ UNCHANGED arena
    /\ UNCHANGED <<types, pool>>

get_array == \E c \in pool : AssertThenAlloc(c, is_array(c.ty))
get_struct == \E c \in pool : AssertThenAlloc(c, is_struct(c.ty))

\* Context::new interns the primitive types: get_unit, get_bool and
\* get_b256 take the Context immutably, so they cannot intern them.
Init ==
    /\ types = {UnitT, BoolT, B256T}
    /\ pool = {}
    /\ arena = <<>>
    /\ aborted = FALSE

Next ==
    \/ new_unit \/ new_bool \/ new_uint \/ new_uint256 \/ new_b256
    \/ new_string \/ new_array \/ new_struct \/ get_undef
    \/ get_unit \/ get_bool \/ get_uint \/ get_uint256 \/ get_b256
    \/ get_string \/ get_array \/ get_struct

Spec == Init /\ [][Next]_vars

-----------------------------------------------------------------------------
(* Properties.                                                             *)

Kinds == {"Unit", "Bool", "B256", "Uint", "String", "Array", "Struct"}

\* Type correctness: the registry holds the sub-types of what it holds,
\* every constant's type is interned, the elements of a composite constant
\* are constants the caller held, and every Value wraps such a constant.
TypeOK ==
    /\ \A t \in types :
          t.kind \in Kinds /\ t.n \in Nat /\ t.sub \in Seq(types)
    /\ \A c \in pool :
          /\ c.ty \in types
          /\ c.tag \in Tags
          /\ c.tag \in Composite => c.pl \in Seq(pool)
    /\ arena \in Seq(pool)
    /\ aborted \in BOOLEAN

\* The invariant of spec section 3 that every constant's value has the
\* shape its Type records (Undef carries any type and no payload).
WellShaped(c) ==
    \/ c.tag = "Undef"
    \/ c.tag = "Unit" /\ c.ty = UnitT
    \/ c.tag = "Bool" /\ c.ty = BoolT
    \/ c.tag = "Uint" /\ c.ty.kind = "Uint" /\ c.ty.n # 256
    \/ c.tag = "U256" /\ c.ty = UintT(256)
    \/ c.tag = "B256" /\ c.ty = B256T
    \/ c.tag = "String" /\ c.ty = StringT(Len(c.pl))
    \/ /\ c.tag = "Array" /\ is_array(c.ty) /\ c.ty.n = Len(c.pl)
       /\ \A k \in DOMAIN c.pl : c.pl[k].ty = c.ty.sub[1]
    \/ /\ c.tag = "Struct" /\ is_struct(c.ty)
       /\ TypesOf(c.pl) = c.ty.sub

\* Every constant the constructors of constant.rs produce (new_uint's
\* widening of 256-bit literals, new_array's and new_struct's derived types
\* included) has the shape its type claims.
ShapeInv == \A c \in pool : WellShaped(c)

\* What a constant denotes (spec section 4.3): Known when no Undef occurs in
\* it at any depth, and its value as a nested record of type and data, in
\* which a 64-bit and a 256-bit literal of the same type are the same number.
Known ==
    LET kn[c \in pool] ==
            /\ c.tag # "Undef"
            /\ c.tag \in Composite => \A k \in DOMAIN c.pl : kn[c.pl[k]]
    IN  kn
Denote ==
    LET dn[c \in pool] ==
            [ty |-> c.ty,
             v  |-> IF c.tag \in Composite
                    THEN [k \in DOMAIN c.pl |-> dn[c.pl[k]]]
                    ELSE c.pl]
    IN  dn

\* Constant::eq decides the equality of spec section 4.3: two constants are
\* equal exactly when neither contains an Undef and they denote the same
\* value, so new_uint(256, n) equals new_uint256(n), an Undef field makes
\* a whole struct unequal, and equal structs built apart compare equal.
EqMatchesSpec ==
    \A l, r \in pool :
        ConstEq(l, r) <=> (Known[l] /\ Known[r] /\ Denote[l] = Denote[r])

\* extract_enum_tag_and_value returns the (tag, payload) pair of exactly the
\* constants of an enum-shaped type that are not Undef, never of a plain
\* two-field struct, and the tag it returns is the u64 discriminant.
EnumExtraction ==
    \A c \in pool :
        /\ extract_enum_tag_and_value(c) # None
               <=> is_enum(c.ty) /\ c.tag # "Undef"
        /\ extract_enum_tag_and_value(c) # None
               => extract_enum_tag_and_value(c)[1].ty = UintT(64)

\* The comment at constant.rs line 148 (and spec 4.2): a constant of an
\* enum-shaped type always is a two-element struct, so the second None of
\* extract_enum_tag_and_value is unreachable.
EnumNeverNone ==
    \A c \in pool : is_enum(c.ty) => extract_enum_tag_and_value(c) # None

\* Spec section 8: an Undef nested anywhere in either operand makes
\* Constant::eq return not-equal.
UndefNeverEqual ==
    \A l, r \in pool : ~Known[l] \/ ~Known[r] => ~ConstEq(l, r)

=============================================================================
