---------------------------- MODULE Description ----------------------------
(***************************************************************************)
(* What print_tree prints of a tree: the description and as_string         *)
(* functions of src/src/types.cpp, with Description (src/src/logging.h).   *)
(* A line is its indentation and its words, those of one name or number    *)
(* together.  Indentation is part of it: it alone says which group a group *)
(* belongs to.                                                             *)
(***************************************************************************)
EXTENDS ElementTypes, Sequences, SequencesExt

Line(indent, words) == [indent |-> indent, words |-> words]

(* Description::operator<<: only the first line of a block moves.          *)
Put(indent, block) ==
    [block EXCEPT ![1].indent = @ + indent]

Each(F(_), s) == FlattenSeq([i \in DOMAIN s |-> F(s[i])])
Separated(words, separator) ==
    FlattenSeq([i \in DOMAIN words |->
                  IF i = 1 THEN << words[i] >> ELSE << separator, words[i] >>])

(***************************************************************************)
(* NetCDFType::name.  That of a user defined type is a view of a string    *)
(* that ComplexType::name returned by value, which is gone: what is read   *)
(* there may be anything, and Dangling stands for it.                      *)
(***************************************************************************)
Dangling == "undefined"
NameOf(type) == IF type.kind = "basic" THEN type.name ELSE Dangling

(* as_string of the values of attributes.                                  *)
NumberTexts(numbers) == [i \in DOMAIN numbers |-> numbers[i].text]
InBrackets(words) == << "[" >> \o Separated(words, ",") \o << "]" >>
ValueText(value) ==
    CASE value.kind = "raw" -> IF value.items[1].kind \in {"quoted", "letter"}
                               THEN << "quote", value.items[1].text, "quote" >>
                               ELSE << value.items[1].text >>
      [] value.kind = "string" -> << value.items[1] >>
      [] value.kind = "number" -> NumberTexts(value.items)
      [] value.kind \in {"range", "array"} -> InBrackets(NumberTexts(value.items))

(* as_string of the types: a compound of one field does not show it.       *)
FieldsText(type) ==
    IF Len(type.parts) = 1 THEN << "[", "]" >>
    ELSE << "[" >> \o Each(LAMBDA f : << f.type.name, f.name, ";" >>, type.parts) \o << "]" >>
TypeText(type) ==
    CASE type.kind = "opaque" -> << "OpaqueType", "opaque", type.base, type.name >>
      [] type.kind = "vlen" -> << "VLenType", type.base, "(*)", type.name >>
      [] type.kind = "enum" ->
           << "EnumType", type.name, type.base >>
             \o Each(LAMBDA v : << v.name, "=", v.value >>, type.parts)
      [] type.kind = "compound" -> << "CompoundType", type.name >> \o FieldsText(type)

DimensionText(d) == << d.name, "=", IF d.length = "0" THEN "unlimited" ELSE d.length >>

VariableFirstDimension(v) ==                                 \* seeded fault
    << NameOf(v.type), v.name >>
      \o (IF v.dimensions = << >> THEN << >> ELSE << "(", v.dimensions[1], ")" >>)
VariableText(v) ==
    << NameOf(v.type), v.name >>
      \o (IF v.dimensions = << >> THEN << >>
          ELSE << "(" >> \o Separated(v.dimensions, ",") \o << ")" >>)

AttributeText(a) ==
    (IF a.type.kind = "none" THEN << >> ELSE << NameOf(a.type) >>)
      \o << a.variable, ":", a.name, "=" >> \o ValueText(a.value)

(***************************************************************************)
(* Group::description at a depth, with the blocks of Dimensions and        *)
(* Variables one deeper, if the group has them.                            *)
(***************************************************************************)
Block(title, depth, texts) ==
    << Line(2 * depth, << title >>) >>
      \o [i \in DOMAIN texts |-> Line(2 * depth + 2 * (depth + 1), texts[i])]
AttributeBlock(depth, texts) ==
    IF texts = << >> THEN << >>
    ELSE << Line(2 * (depth + 1), << "Attributes" >>) >>
           \o [i \in DOMAIN texts |-> Line(2 * (depth + 3), texts[i])]

All(F(_), s) == [i \in DOMAIN s |-> F(s[i])]

RECURSIVE GroupLines(_, _)
GroupLines(g, depth) ==
    << Line(2 * depth, << "Group", g.name >>) >>
      \o (IF g.types = << >> THEN << >>
          ELSE << Line(2 * (depth + 2), << "Types:" >>) >>
                 \o All(LAMBDA t : Line(2 * (depth + 3), TypeText(t)), g.types))
      \o (IF g.dimensions = << >> THEN << >>
          ELSE Put(2 * depth, Block("Dimensions", depth + 1, All(DimensionText, g.dimensions))))
      \o (IF ~ g.listed THEN << >>
          ELSE Put(2 * depth, Block("Variables", depth + 1, All(VariableText, g.variables)))
                 \o AttributeBlock(depth + 1, All(AttributeText, g.attributes)))
      \o Each(LAMBDA h : Put(2 * depth, GroupLines(h, depth + 1)), g.groups)

(***************************************************************************)
(* RootGroup::print_tree.  The text is passed as a format string, and a    *)
(* brace of an attribute's value is a field of it that has no argument:    *)
(* then it throws.  No name has a brace.                                   *)
(***************************************************************************)
Printed(root) == GroupLines(root, 0)
Prints(root) == \A line \in ToSet(Printed(root)) : ToSet(line.words) \cap {"{", "}"} = {}
=============================================================================
