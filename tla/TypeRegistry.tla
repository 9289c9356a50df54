---------------------------- MODULE TypeRegistry ----------------------------
(***************************************************************************)
(* The type registry of the IR Context, which constant.rs calls through    *)
(* Type::get_unit, Type::new_uint, ... but which is not under src/: it is  *)
(* modelled from spec.md 4.1 and section 9.  Types live in a Context-owned *)
(* table and a Type is a handle, an index into it; the content of a       *)
(* composite type refers to its element and field types by handle.  Every *)
(* constructor looks the content up first and allocates a slot only for   *)
(* a content not in the table.                                             *)
(***************************************************************************)
EXTENDS Naturals, Sequences, SequencesExt

CONSTANTS
    Widths,    \* integer widths requested
    Lengths,   \* string and array lengths requested
    MaxLen,    \* bound on the fields of a struct
    MaxTypes   \* bound on the table

ASSUME RegistryAssumption ==
    /\ Widths \subseteq Nat /\ Lengths \subseteq Nat
    /\ MaxLen \in Nat /\ MaxTypes \in Nat

VARIABLE slots     \* slots[h]: the content of the type with handle h

Content(k, n, sub) == [kind |-> k, n |-> n, sub |-> sub]
Kinds == {"Unit", "Bool", "B256", "Uint", "String", "Array", "Struct"}

\* Mutant: the lookup dropped, a new slot for every request.
MutIntern(c) ==
    /\ Len(slots) < MaxTypes
    /\ slots' = Append(slots, c)

Intern(c) ==
    IF \E h \in DOMAIN slots : slots[h] = c THEN UNCHANGED slots
    ELSE /\ Len(slots) < MaxTypes
         /\ slots' = Append(slots, c)

get_unit == Intern(Content("Unit", 0, <<>>))
get_bool == Intern(Content("Bool", 0, <<>>))
get_b256 == Intern(Content("B256", 0, <<>>))
new_uint == \E w \in Widths : Intern(Content("Uint", w, <<>>))
new_string == \E len \in Lengths : Intern(Content("String", len, <<>>))
\* Mutant: an element type that is the array type itself.
mut_new_array ==
    \E elm \in 1..(Len(slots) + 1), len \in Lengths :
        Intern(Content("Array", len, <<elm>>))

new_array ==
    \E elm \in DOMAIN slots, len \in Lengths : Intern(Content("Array", len, <<elm>>))
new_struct ==
    \E fields \in SeqOf(DOMAIN slots, MaxLen) : Intern(Content("Struct", 0, fields))

Init == slots = <<>>

Next == get_unit \/ get_bool \/ get_b256 \/ new_uint \/ new_string
        \/ new_array \/ new_struct

Spec == Init /\ [][Next]_slots

-----------------------------------------------------------------------------
(* Properties.                                                             *)

\* A content refers only to types allocated before it.
RegistryTypeOK ==
    /\ slots \in Seq([kind : Kinds, n : Nat, sub : Seq(Nat \ {0})])
    /\ \A h \in DOMAIN slots : \A k \in DOMAIN slots[h].sub : slots[h].sub[k] < h

\* No content is stored twice, so a request finds the one handle of its type.
Interning == \A h, g \in DOMAIN slots : slots[h] = slots[g] => h = g

\* The type a handle stands for, with every handle in it replaced by the
\* type it stands for.
Structure(h) ==
    LET st[i \in DOMAIN slots] ==
            [kind |-> slots[i].kind, n |-> slots[i].n,
             sub |-> [k \in DOMAIN slots[i].sub |-> st[slots[i].sub[k]]]]
    IN  st[h]

\* spec.md 8, Interning: two handles stand for structurally equal types only
\* if they are the same handle, however deep the types are nested.
StructuralInterning ==
    \A h, g \in DOMAIN slots : Structure(h) = Structure(g) => h = g

\* The table, read as the abstract registry: the pairs of each slot's
\* content and its handle.
Entries == {<<slots[h], h>> : h \in DOMAIN slots}

Abs == INSTANCE AbstractTypeRegistry WITH interned <- Entries

\* Spec 4.1 and 8: every constructor call either finds its type and changes
\* nothing, or adds one type not in the table under a handle no type had;
\* no entry is ever changed or dropped.  A lookup that misses an interned
\* type (a duplicate slot) or a write over a used slot is not such a step.
AbsSpec == Abs!Spec

=============================================================================
