------------------------------ MODULE MCParser ------------------------------
(***************************************************************************)
(* Schemas for the parser: what a text declares, the text written out as   *)
(* ncdump writes it (sections in the order types, dimensions, variables    *)
(* with the attributes, data, groups), and the tree that it stands for.    *)
(* What a name refers to is read off the schema: the nearest declaration   *)
(* around its use, or the one under a path from the root.                  *)
(***************************************************************************)
EXTENDS Parser, Equality

CONSTANTS Schemas

Described == INSTANCE Description

(* Declarations.  A type's `parts` are <<label, number>> pairs or          *)
(* <<token, field>> pairs.                                                 *)
EnumType(name, base, labels, semicolon) ==
    [kind |-> "enum", name |-> name, base |-> base, parts |-> labels, semicolon |-> semicolon]
VLenType(name, base, semicolon) ==
    [kind |-> "vlen", name |-> name, base |-> base, parts |-> << >>, semicolon |-> semicolon]
OpaqueType(name) ==
    [kind |-> "opaque", name |-> name, base |-> "11", parts |-> << >>, semicolon |-> TRUE]
CompoundType(name, fields) ==
    [kind |-> "compound", name |-> name, base |-> "", parts |-> fields, semicolon |-> TRUE]

Line(type, list) == [type |-> type, vars |-> list]  \* int a(x), b(x) ;
Assigned(type, token, value) == [type |-> type, token |-> token, value |-> value]

(* `early` are the attributes before the section variables:.               *)
Schema(name, types, dims, early, lines, attrs, data, groups) ==
    [name |-> name, types |-> types, dims |-> dims, early |-> early, lines |-> lines,
     attrs |-> attrs, data |-> data, groups |-> groups]

-----------------------------------------------------------------------------
(* The text of a schema.                                                   *)
W(text) == << Word(text) >>
Each(F(_), s) == FlattenSeq([i \in DOMAIN s |-> F(s[i])])
Listed(F(_), s) == FlattenSeq([i \in DOMAIN s |-> (IF i = 1 THEN << >> ELSE W(",")) \o F(s[i])])
End(semicolon) == IF semicolon THEN W(";") ELSE << >>

TypeText(t) ==
    LET Label(l) == W(l[1]) \o W("=") \o << Num(l[2]) >>
        Field(f) == << f[1] >> \o W(f[2]) \o W(";")
    IN  CASE t.kind = "enum" -> W(t.base) \o W("enum") \o W(t.name) \o W("{")
                                  \o Listed(Label, t.parts) \o W("}") \o End(t.semicolon)
          [] t.kind = "vlen" -> W(t.base) \o W("(") \o W("*") \o W(")") \o W(t.name)
                                  \o End(t.semicolon)
          [] t.kind = "opaque" -> W("opaque") \o W("(") \o << Num(t.base) >> \o W(")")
                                    \o W(t.name) \o W(";")
          [] t.kind = "compound" -> W("compound") \o W(t.name) \o W("{")
                                      \o Each(Field, t.parts) \o W("}") \o W(";")

VariableText(v) == W(v[1]) \o (IF v[2] = << >> THEN << >> ELSE W("(") \o Listed(W, v[2]) \o W(")"))
LineText(l) == << l.type >> \o Listed(VariableText, l.vars) \o W(";")
DimText(d) == W(d[1]) \o W("=") \o << IF d[2] = "0" THEN Word("unlimited") ELSE Num(d[2]) >>
AssignedText(a) == (IF a.type = NoToken THEN << >> ELSE << a.type >>)
                     \o << a.token >> \o W("=") \o a.value \o W(";")
Section(name, text) == IF text = << >> THEN << >> ELSE W(name) \o text

RECURSIVE Text(_)
Text(g) == W(g.name) \o W("{")
             \o Section("types:", Each(TypeText, g.types))
             \o (IF g.dims = << >> THEN << >>
                 ELSE W("dimensions:") \o Listed(DimText, g.dims) \o W(";"))
             \o Each(AssignedText, g.early)
             \o Section("variables:", Each(LineText, g.lines) \o Each(AssignedText, g.attrs))
             \o Section("data:", Each(AssignedText, g.data))
             \o FlattenSeq([i \in DOMAIN g.groups |-> W("group:") \o Text(g.groups[i])])
             \o W("}")

-----------------------------------------------------------------------------
(* The tree of a schema: `around` are the types declared around it, the    *)
(* nearest first, `complete` the groups of the root that are before it; a  *)
(* path may also name the group that it is used in.                        *)
RECURSIVE TypesUnder(_, _)
TypesUnder(groups, path) ==
    LET here == CHOOSE g \in ToSet(groups) : g.name = path[1]
    IN  IF \A g \in ToSet(groups) : g.name # path[1] THEN << >>
        ELSE IF Len(path) = 1 THEN here.types
        ELSE TypesUnder(here.groups, Tail(path))

Refers(token, types, complete) ==
    LET seen == IF token.kind = "path" THEN TypesUnder(complete, token.parts) ELSE types
        same == {i \in DOMAIN seen : seen[i].name = token.name}
    IN  IF token.text \in Elementary THEN Basic(token.text)
        ELSE IF same = {} THEN NoType
        ELSE seen[CHOOSE i \in same : \A j \in same : i <= j]

(***************************************************************************)
(* The value of an attribute: the items between the commas, as what they   *)
(* are written.  What an enum or compound stands for is not kept (the code *)
(* says "TODO: return actual EnumType data").                              *)
(***************************************************************************)
Items(value) == SelectSeq(value, LAMBDA t : t.text \notin {",", "{", "}"})
Means(a, type) ==
    LET items == Items(a.value)
        texts == [i \in DOMAIN items |-> items[i].text]
        numbers(name) == [i \in DOMAIN items |-> [text |-> items[i].text, type |-> name]]
    IN  IF a.token.name \in Untyped \cup Special THEN Value("raw", items)
        ELSE IF a.token.name = "valid_range" THEN Value("range", numbers(type.name))
        ELSE IF a.token.parts[1] # "" /\ a.token.name # "_FillValue" THEN Value("raw", items)
        ELSE IF type.kind = "vlen" THEN Value("array", numbers(type.base))
        ELSE IF type.kind # "basic" THEN EmptyArray
        ELSE IF type.name \in Textual THEN Value("string", texts)
        ELSE Value("number", numbers(type.name))

RECURSIVE Tree(_, _, _, _)
Tree(g, depth, around, complete) ==
    LET types[n \in 0 .. Len(g.types)] ==
          IF n = 0 THEN << >>
          ELSE LET t == g.types[n]
                   Field(f) == [name |-> f[2],
                                type |-> Refers(f[1], types[n - 1] \o around, complete)]
                   Label(l) == [name |-> l[1], value |-> l[2]]
               IN  Append(types[n - 1],
                      Type(t.kind, t.name, t.base,
                           [i \in DOMAIN t.parts |-> IF t.kind = "enum" THEN Label(t.parts[i])
                                                     ELSE Field(t.parts[i])]))
        seen == types[Len(g.types)] \o around
        own == IF depth # 1 THEN << >>
               ELSE << [name |-> g.name, types |-> types[Len(g.types)], groups |-> << >>] >>
        Of(token) == Refers(token, seen, complete \o own)
        Vars(l) == [i \in DOMAIN l.vars |->
                      [name |-> l.vars[i][1], type |-> Of(l.type), dimensions |-> l.vars[i][2]]]
        variables == Each(Vars, g.lines)
        owned(a) == CHOOSE v \in ToSet(variables) : v.name = a.token.parts[1]
        TypeOf(a) == IF a.token.name \in {"_FillValue", "valid_range"} THEN owned(a).type
                     ELSE IF a.token.name \in Special THEN Basic("string")
                     ELSE IF a.type # NoToken THEN Of(a.type)
                     ELSE IF a.token.parts[1] = "" THEN Basic("string") ELSE NoType
        Attr1(a) == [variable |-> a.token.parts[1], name |-> a.token.name,
                     type |-> TypeOf(a), value |-> Means(a, TypeOf(a))]
        groups[n \in 0 .. Len(g.groups)] ==
          IF n = 0 THEN << >>
          ELSE Append(groups[n - 1],
                  Tree(g.groups[n], depth + 1, seen,
                       IF depth = 0 THEN groups[n - 1] ELSE complete))
    IN  [name |-> g.name, types |-> types[Len(g.types)],
         dimensions |-> [i \in DOMAIN g.dims |-> [name |-> g.dims[i][1], length |-> g.dims[i][2]]],
         listed |-> g.early \o g.lines \o g.attrs # << >>,
         variables |-> variables,
         attributes |-> [i \in DOMAIN (g.early \o g.attrs) |-> Attr1((g.early \o g.attrs)[i])],
         groups |-> groups[Len(g.groups)]]
-----------------------------------------------------------------------------
Written(s) == W("netcdf") \o Text(s)
Declared(s) == Tree(s, 0, << >>, << >>)
TextsOf == {Written(s) : s \in Schemas}
Pairs == {<<Written(s), Declared(s)>> : s \in Schemas}

(***************************************************************************)
(* A text that declares a schema is parsed to exactly that schema: all of  *)
(* its types, dimensions, variables, attributes and groups, each name with *)
(* the type of the declaration it refers to (Group::parse and all that it  *)
(* calls).                                                                 *)
(***************************************************************************)
RoundTrip ==
    outcome \in Final /\ tokens \in TextsOf
        => outcome = "parsed" /\ <<tokens, tree>> \in Pairs

(***************************************************************************)
(* Two types of a tree are equal by operator== exactly if they were        *)
(* declared with the same words: wherever they stand in it, and however    *)
(* one of them continues or contains the other.                            *)
(***************************************************************************)
RECURSIVE TypesBelow(_)
TypesBelow(group) ==
    ToSet(group.types) \cup UNION {TypesBelow(group.groups[i]) : i \in DOMAIN group.groups}

X(length) == [name |-> "x", length |-> length]
ArrayTypes == {Type("array", "t", "int", parts) :
                 parts \in {<< X("3") >>, << X("3"), X("3") >>, << X("0"), X("3") >>}}
AllTypes(root) ==
    TypesBelow(root) \cup {Basic(name) : name \in {"int", "uint"}} \cup ArrayTypes
EqualIffSame ==
    outcome = "parsed" => \A t, u \in AllTypes(tree) : Equal(t, u) <=> t = u

(***************************************************************************)
(* What print_tree prints of a parsed file says which schema it is: no     *)
(* other is printed alike.  That holds for trees whose variables and       *)
(* attributes have elementary types, as a user defined type's name is a    *)
(* dangling view (NetCDFType::name), and without compounds of one field,   *)
(* whose field is not printed (CompoundType::as_string).                   *)
(***************************************************************************)
RECURSIVE Printable(_)
Printable(g) ==
    /\ \A item \in ToSet(g.variables) \cup ToSet(g.attributes) : item.type.kind \in {"basic", "none"}
    /\ \A t \in ToSet(g.types) : t.kind = "compound" => Len(t.parts) # 1
    /\ \A i \in DOMAIN g.groups : Printable(g.groups[i])

PrintedSchemas ==
    {<<Described!Printed(d), d>> : d \in {d \in {Declared(s) : s \in Schemas} : Printable(d)}}
PrintShowsTree ==
    outcome = "parsed" /\ Printable(tree) =>
        \A p \in PrintedSchemas : p[1] = Described!Printed(tree) => p[2] = tree

(***************************************************************************)
(* The program prints the tree of every file that it has parsed            *)
(* (parse_file, main.cpp).  The code breaks it for texts with a brace.     *)
(***************************************************************************)
PrintsTree == outcome = "parsed" => Described!Prints(tree)

-----------------------------------------------------------------------------
IntWord == Word("int")
TWord == Word("t")
GT == Path("/g/t", << "g" >>, "t")
GKT == Path("/g/k/t", << "g", "k" >>, "t")
Untyped1 == Assigned(NoToken, Attr(":title", "", "title"), << Quoted >>)
Typed1 == Assigned(IntWord, Attr(":version", "", "version"), << Num("7") >>)
Of(v, name, text, value) == Assigned(NoToken, Attr(text, v, name), value)

Enum1 == EnumType("t", "ubyte", << <<"L", "0">>, <<"M", "1">> >>, TRUE)
VLen1 == VLenType("t", "int", TRUE)
Compound1 == CompoundType("c", << <<TWord, "f">> >>)

(* Values of the type t, by its kind, and of int.                          *)
ValueOf(types) ==
    IF types = << >> THEN << Num("1") >> \o W(",") \o << Num("2") >>
    ELSE IF types[1].kind = "enum" THEN << Dotted("t.L", "t", "L") >>
    ELSE W("{") \o << Num("1") >> \o W(",") \o << Num("2") >> \o W("}")

TypeLists == {<< >>, <<Enum1>>, <<VLen1>>, <<VLen1, Compound1>>, <<OpaqueType("o"), Enum1>>}

(* Groups named g and k; a variable of the type t when one is declared.    *)
Inner(name, types, groups, own) ==
    Schema(name, types, << >>, << >>,
           << Line(IF own THEN TWord ELSE IntWord, << << "b", << >> >> >>) >>, << >>, << >>, groups)
Users(token) == Schema("h", << >>, << >>, << >>, << Line(token, << << "u", << >> >> >>) >>,
                       << >>, << >>, << >>)

SubGroups(around) ==
    LET kinds == {<< >>, <<Enum1>>, <<VLen1>>}
        seesT(types) == types # << >> \/ around # << >>
    IN  {<< >>}
          \cup {<< Inner("g", ts, << >>, seesT(ts)) >> : ts \in kinds}
          \cup {<< Inner("g", << >>, << >>, FALSE), Inner("k", << >>, << >>, FALSE) >>}
          \cup {<< Inner("g", ts, << Inner("k", us, << >>, seesT(ts \o us)) >>, FALSE) >> :
                   ts \in kinds, us \in kinds}
          \cup {<< Inner("g", ts, << >>, TRUE), Users(GT) >> : ts \in kinds \ {<< >>}}
          \cup {<< Inner("g", ts, << Inner("k", us, << >>, TRUE) >>, FALSE), Users(GKT) >> :
                   ts \in kinds, us \in kinds \ {<< >>}}

(* The root: a line of variables, one with a user defined type, attributes *)
(* of each form, and data.                                                 *)
Root(types, dims, early, attributes, data, groups) ==
    LET lines == << Line(IntWord, << << "a", << "x", "y" >> >>, << "z", << "x" >> >> >>),
                    Line(IF types = << >> THEN IntWord ELSE TWord, << << "v", << >> >> >>) >>
    IN  Schema("r", types, dims, early, lines, attributes,
               IF data THEN << Assigned(NoToken, Word("v"), ValueOf(SelectSeq(types, LAMBDA t : t.name = "t"))) >>
               ELSE << >>, groups)

Attributes ==
    {<< >>, << Untyped1 >>,
     << Of("a", "units", "a:units", << Quoted >>), Typed1 >>,
     << Of("a", "_FillValue", "a:_FillValue", << Num("1") >>),
        Of("a", "valid_range", "a:valid_range", << Num("1"), Word(","), Num("2") >>),
        Of("a", "_Storage", "a:_Storage", << Quoted >>) >>}

Dims == {<< >>, << << "x", "3" >>, << "y", "0" >> >>}

(***************************************************************************)
(* A variable of each elementary type with its attributes, a typed global  *)
(* attribute and data, with numbers that the type holds; texts; and global *)
(* attributes of the user defined types.                                   *)
(***************************************************************************)
Holds(type) ==
    {Num("1")}
      \cup (IF type \in {"byte", "short", "int", "long", "int64"} \cup Floating
            THEN {Negative} ELSE {})
      \cup (IF type \in {"uint", "int64", "uint64"} \cup Floating THEN {Big} ELSE {})
      \cup (IF type \in Floating THEN {Fraction} ELSE {})
      \cup (IF type = "double" THEN {Beyond} ELSE {})

OfType(type, attrs, value) ==
    Schema("r", << >>, << << "x", "3" >> >>, << >>,
           << Line(Word(type), << << "a", << "x" >> >> >>) >>, attrs,
           << Assigned(NoToken, Word("a"), value) >>, << >>)

Numbers(type, tokenPairs) ==
    {OfType(type, << Of("a", "_FillValue", "a:_FillValue", << p[1] >>),
                     Of("a", "valid_range", "a:valid_range", << p[1], Word(","), p[2] >>),
                     Assigned(Word(type), Attr(":version", "", "version"), << p[2] >>) >>,
             << p[2], Word(","), p[1] >>) : p \in tokenPairs}

Text1(type, token) ==
    OfType(type, << Of("a", "_FillValue", "a:_FillValue", << token >>),
                    Assigned(Word(type), Attr(":title", "", "title"), << token >>) >>,
           << token >>)

(* A global attribute of the type t, which is declared.                    *)
OfUserType(type, value) ==
    Schema("r", << type >>, << >>, << >>, << Line(IntWord, << << "a", << >> >> >>) >>,
           << Assigned(TWord, Attr(":kind", "", "kind"), value) >>, << >>, << >>)

Values ==
    UNION {Numbers(type, (Holds(type) \ {Beyond}) \X (Holds(type) \ {Beyond})) :
             type \in Numeric \ {"int64", "uint64"}}
      \cup {Text1("char", Letter), Text1("string", Letter), Text1("string", Quoted)}
      \cup {OfUserType(Enum1, << Dotted("t.L", "t", "L") >>),
            OfUserType(VLenType("t", "float", TRUE), W("{") \o << Fraction >> \o W("}")),
            OfUserType(VLen1, ValueOf(<<VLen1>>))}

(***************************************************************************)
(* A group and one in it that declare types of the same name, or nearly    *)
(* the same type; the groups nested in the other way; a dimension more.    *)
(***************************************************************************)
TwoFields == CompoundType("c", << <<TWord, "f">>, <<TWord, "g">> >>)
Kinds ==
    {<< EnumType("t", base, labels, TRUE) >> :
        base \in {"ubyte", "uint"},
        labels \in {<< <<"L", "0">> >>, << <<"L", "1">> >>, << <<"L", "0">>, <<"M", "1">> >>}}
      \cup {<< VLen1 >>, << VLenType("t", "uint", TRUE) >>, << OpaqueType("t") >>}
      \cup {<< VLen1, c >> : c \in {Compound1, TwoFields,
               CompoundType("c", << <<TWord, "f">>, <<TWord, "h">> >>)}}
      \cup {<< Enum1, TwoFields >>}

Twice ==
    {Schema("r", types, << << "x", "3" >>, << "y", "0" >> >>, << >>,
            << Line(IntWord, << << "a", dims >> >>) >>, << >>, << >>,
            << Schema("g", inner, << >>, << >>, << >>, << >>, << >>, << >>) >>) :
        types \in Kinds, inner \in Kinds, dims \in {<< "x" >>, << "x", "y" >>}}

Valid ==
    Values \cup Twice \cup UNION {{Root(ts, ds, << >>, as, data, gs) :
              ds \in Dims, as \in Attributes, data \in BOOLEAN, gs \in SubGroups(ts)} :
           ts \in TypeLists}

-----------------------------------------------------------------------------
(* Texts with one mistake: a token too few, one too many, one for another, *)
(* two swapped, or the rest of the text missing.                           *)
Replacements ==
    {W(";"), W("}"), W("{"), W("="), W(","), W("t"), W("int"), W("types:"),
     << Big >>, << Negative >>, << Fraction >>}
Edits(text) ==
    {SubSeq(text, 1, i - 1) \o new \o SubSeq(text, i + 1, Len(text)) :
        i \in DOMAIN text, new \in Replacements \cup {<< >>}}
      \cup {SubSeq(text, 1, i) \o << text[i] >> \o SubSeq(text, i + 1, Len(text)) :
              i \in DOMAIN text}
      \cup {SubSeq(text, 1, i - 1) \o << text[i + 1], text[i] >> \o SubSeq(text, i + 2, Len(text)) :
              i \in 1 .. Len(text) - 1}
      \cup {SubSeq(text, 1, i) : i \in 0 .. Len(text) - 1}

UserOfT == Inner("h", << >>, << >>, TRUE)
ManyAttributes ==
    << Untyped1, Typed1, Of("a", "units", "a:units", << Quoted >>),
       Of("a", "_FillValue", "a:_FillValue", << Num("1") >>),
       Of("a", "valid_range", "a:valid_range", << Num("1"), Word(","), Num("2") >>) >>
Rich ==
    {Root(<<OpaqueType("o"), VLen1>>, << << "x", "3" >> >>, << >>, ManyAttributes, TRUE,
          << Inner("g", << Enum1 >>, << >>, TRUE), Users(GT) >>),
     Root(<<Enum1>>, << << "x", "0" >>, << "y", "3" >> >>, << >>, << Untyped1 >>, TRUE,
          << UserOfT >>),
     Schema("r", << VLen1, Compound1 >>, << >>, << >>,
            << Line(Word("c"), << << "v", << >> >> >>) >>, << >>,
            << Assigned(NoToken, Word("v"), W("{") \o ValueOf(<<VLen1>>) \o W("}")) >>,
            << Inner("g", << Enum1 >>, << UserOfT >>, TRUE) >>)}
EditedTexts == UNION {Edits(Written(s)) : s \in Rich}
AllTexts == TextsOf \cup EditedTexts

-----------------------------------------------------------------------------
(* Texts that the grammar or the documentation allows.                     *)
Plain(types, early, lines, groups) ==
    Schema("r", types, << << "x", "3" >> >>, early, lines, << >>, << >>, groups)

(* int a, b ; without dimensions                                           *)
Scalars ==
    {Plain(<< >>, << >>, << Line(IntWord, << << "a", d >>, << "b", e >> >>),
                            Line(IntWord, << << "c", << >> >> >>) >>, << >>) :
        d \in {<< >>, << "x" >>}, e \in {<< >>, << "x" >>}}

(* types without the semicolon that is optional                            *)
OptionalSemicolons ==
    {Plain(<< t, EnumType("e", "int", << <<"A", "-1">> >>, TRUE) >>, << >>,
           << Line(IntWord, << << "a", << >> >> >>) >>, << >>) :
        t \in {EnumType("t", "ubyte", << <<"L", "0">>, <<"M", "1">> >>, b) : b \in BOOLEAN}
                \cup {VLenType("t", "int", b) : b \in BOOLEAN}}

(* global attributes outside of the section variables:, behind dimensions: *)
EarlyAttributes ==
    {Plain(<< >>, early, << Line(IntWord, << << "a", << >> >> >>) >>, << >>) :
        early \in {<< >>, << Untyped1 >>, << Typed1 >>}}

(* numbers of the 64 bit types, and those that only a double holds         *)
Wide == UNION {Numbers(type, Holds(type) \X Holds(type)) : type \in {"int64", "uint64"}}
Doubles == Numbers("double", Holds("double") \X Holds("double"))

(* an attribute with one value or more, and data with several entries for  *)
(* a variable of a vlen type                                               *)
Entries ==
    {OfType("int", << Assigned(NoToken, Attr(text, v, name), << Num("1") >> \o more) >>,
            << Num("1") >>) :
        more \in {<< >>, W(",") \o << Num("2") >>},
        <<text, v, name>> \in {<<"a:flags", "a", "flags">>, <<"a:_ChunkSizes", "a", "_ChunkSizes">>}}
VLens ==
    {Schema("r", << VLen1 >>, << << "x", "3" >> >>, << >>,
            << Line(TWord, << << "b", << "x" >> >> >>) >>, << >>,
            << Assigned(NoToken, Word("b"), ValueOf(<<VLen1>>) \o more) >>,
            << Inner("g", << >>, << >>, FALSE) >>) :
        more \in {<< >>, W(",") \o ValueOf(<<VLen1>>)}}

(* a text with a brace in it                                               *)
Braces == {Text1("string", token) : token \in {Quoted, Token("quoted", "{", << >>, "{")}}

(* a type used by its path in the group that declares it, or another       *)
OwnPaths ==
    {Plain(<< >>, << >>, << Line(IntWord, << << "a", << >> >> >>) >>,
           << Schema("g", << Enum1 >>, << >>, << >>,
                     << Line(token, << << "b", << >> >> >>) >>, << >>, << >>, << >>),
              Users(GT) >>) : token \in {TWord, GT}}
=============================================================================
