----------------------------- MODULE Equality -----------------------------
(***************************************************************************)
(* operator== of the types (src/src/equality.cpp), with which a test or a  *)
(* user asks whether two types that were parsed are the same.  The visits  *)
(* of the two variants compare what they hold only if they hold the same   *)
(* kind of type.  Types are the records of Parser; those of arrays, which  *)
(* are never parsed, have their dimensions as parts.                       *)
(***************************************************************************)
EXTENDS Naturals, Sequences

EnumValuesEqual(v, w) == v.name = w.name /\ v.value = w.value

(* The sizes are compared first: the loop indexes both with one counter.   *)
EnumsEqualUpToFirst(t, u) ==                                 \* seeded fault
    /\ \A i \in DOMAIN t.parts \cap DOMAIN u.parts : EnumValuesEqual(t.parts[i], u.parts[i])
    /\ t.base = u.base /\ t.name = u.name
EnumsEqual(t, u) ==
    /\ Len(t.parts) = Len(u.parts)
    /\ \A i \in DOMAIN t.parts : EnumValuesEqual(t.parts[i], u.parts[i])
    /\ t.base = u.base /\ t.name = u.name

(* Of an opaque type `base` is the length.                                 *)
LeavesEqual(t, u) == t.base = u.base /\ t.name = u.name

DimensionsEqual(d, e) == d.name = e.name /\ d.length = e.length

ArraysEqual(t, u) ==
    /\ t.base = u.base /\ t.name = u.name
    /\ Len(t.parts) = Len(u.parts)
    /\ \A i \in DOMAIN t.parts : DimensionsEqual(t.parts[i], u.parts[i])

RECURSIVE Equal(_, _)

(* The names of the fields, and their types in turn.                       *)
CompoundsEqual(t, u) ==
    /\ t.name = u.name
    /\ Len(t.parts) = Len(u.parts)
    /\ \A i \in DOMAIN t.parts :
          t.parts[i].name = u.parts[i].name /\ Equal(t.parts[i].type, u.parts[i].type)

Equal(t, u) ==
    /\ t.kind = u.kind
    /\ CASE t.kind = "enum" -> EnumsEqual(t, u)
         [] t.kind = "compound" -> CompoundsEqual(t, u)
         [] t.kind = "array" -> ArraysEqual(t, u)
         [] t.kind \in {"opaque", "vlen"} -> LeavesEqual(t, u)
         [] t.kind = "basic" -> t.name = u.name
=============================================================================
