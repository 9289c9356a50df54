------------------------- MODULE AbstractTypeRegistry -------------------------
(***************************************************************************)
(* What the type registry of the IR Context promises (spec.md 4.1 and the *)
(* Interning property of section 8), with storage left out: the registry  *)
(* is the set of types requested so far, each paired with the handle it   *)
(* was given.  A request for a type not interned yet pairs it with a      *)
(* handle nobody holds; a request for an interned type changes nothing;   *)
(* no pair is ever removed or changed.  So every type has one handle and  *)
(* no two types share one.                                                 *)
(***************************************************************************)
VARIABLE interned   \* set of <<type, handle>> pairs

InternedTypes == {p[1] : p \in interned}
GivenHandles == {p[2] : p \in interned}

Init == interned = {}

\* A request for a type not interned yet: one new pair, of a fresh type and
\* a fresh handle, and every old pair kept.
Intern ==
    \E p \in interned' \ interned :
        /\ interned' = interned \cup {p}
        /\ p = <<p[1], p[2]>>
        /\ p[1] \notin InternedTypes
        /\ p[2] \notin GivenHandles

\* A request for a type already interned changes nothing: a stuttering step.
Spec == Init /\ [][Intern]_interned

=============================================================================
