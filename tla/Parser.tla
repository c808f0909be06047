------------------------------- MODULE Parser -------------------------------
(***************************************************************************)
(* The CDL parser: Parser (src/src/parser.{h,cpp}) and the parse functions *)
(* of the declarations (src/src/types.cpp).  The functions call each other *)
(* recursively; group_stack and the section that each group is in are what *)
(* they remember between two declarations, and here they are the state.    *)
(* One action parses one declaration, in the section where it stands.      *)
(*                                                                         *)
(* A pop takes a token also when it is not the one that was asked for, so  *)
(* a declaration that fails has used up tokens; the functions around it    *)
(* end their section and go on with what is left.  What the parser keeps   *)
(* of a file is names, types, structure and the values of attributes: data *)
(* is read and dropped.                                                    *)
(***************************************************************************)
EXTENDS ElementTypes, Sequences, SequencesExt

CONSTANTS Texts  \* the sequences of tokens to parse

TextsAssumption ==
    Texts \subseteq Seq([kind : STRING, text : STRING, parts : Seq(STRING), name : STRING])
ASSUME TextsAssumption

(***************************************************************************)
(* Tokens: words, names with a group path (/g/t), names with a colon       *)
(* (v:a, or :a with the empty variable name), names with a dot (t.x),      *)
(* numbers and quoted strings; with their text and, for what is split, the *)
(* parts before the last separator and the name after it.                  *)
(***************************************************************************)
Token(kind, text, parts, name) ==
    [kind |-> kind, text |-> text, parts |-> parts, name |-> name]
Word(text) == Token("word", text, << >>, text)
Path(text, groups, name) == Token("path", text, groups, name)
Attr(text, variable, name) == Token("colon", text, << variable >>, name)
Dotted(text, type, name) == Token("dot", text, << type >>, name)
Num(text) == Token("number", text, << >>, text)
Quoted == Token("quoted", "quoted", << >>, "quoted")  \* longer than a character
Letter == Token("letter", "c", << >>, "c")            \* at most 4 bytes, quoted too
NoToken == Token("none", "", << >>, "")

(***************************************************************************)
(* Numbers that not every conversion reads as they are written: stoi has   *)
(* the range of int, stof that of float, stoul takes a minus sign and      *)
(* wraps around, and the conversions to integers stop at "." and "e".      *)
(***************************************************************************)
Big == Num("3000000000")
Beyond == Num("1e300")
Negative == Num("-1")
Fraction == Num("0.5")

OutOfRange(token, conversion) ==
    <<token, conversion>> \in {<<Big, "stoi">>, <<Beyond, "stof">>}
Converted(token, conversion) ==
    IF conversion = "stof" THEN token.text
    ELSE CASE token = Beyond -> "1"
           [] token = Fraction -> "0"
           [] token = Negative /\ conversion = "stoul" -> "18446744073709551615"
           [] OTHER -> token.text

(* stoi alone, whose exceptions nobody catches, and its result as size_t.  *)
BadInt(token) == token.kind # "number" \/ OutOfRange(token, "stoi")
Size(token) ==
    IF token = Negative THEN Converted(token, "stoul") ELSE Converted(token, "stoi")

Sections == {"types:", "dimensions:", "variables:", "data:"}
Keyword == Sections \cup {"group:"}
Marks == {"{", "}", "(", ")", "*", ",", ";", "="}

Type(kind, name, base, parts) ==
    [kind |-> kind, name |-> name, base |-> base, parts |-> parts]
Basic(name) == Type("basic", name, name, << >>)
NoType == Type("none", "", "", << >>)

VARIABLES
    tokens,  \* m_tokens
    cursor,  \* m_cursor, from 1
    stack,   \* group_stack: the groups that are open, root first
    outcome, \* how parsing went
    tree     \* the root group that parse returns

vars == <<tokens, cursor, stack, outcome, tree>>

Final == {"parsed", "failed", "aborted", "undefined"}

(* `listed` says that there is an m_variables, which may be empty.         *)
Group(name) ==
    [name |-> name, types |-> << >>, dimensions |-> << >>, listed |-> FALSE,
     variables |-> << >>, attributes |-> << >>, groups |-> << >>]

(* A group under construction: the section, or "group" between sections,   *)
(* the local previous_type, and the enum or compound being read.           *)
Frame(name) == [group |-> Group(name), mode |-> "group",
                previous |-> NoType, partial |-> NoType]

Init ==
    /\ tokens \in Texts
    /\ cursor = 1
    /\ stack = << >>
    /\ outcome = "start"
    /\ tree = Group("")

-----------------------------------------------------------------------------
(* peek, peek_specific and pop: popping stops at the end of the text.      *)
Exists(i) == i \in DOMAIN tokens
Tok(i) == IF Exists(i) THEN tokens[i] ELSE NoToken
At(i, words) == Tok(i).kind = "word" /\ Tok(i).text \in words

Upto(i) == IF i <= Len(tokens) THEN i ELSE Len(tokens) + 1

(* is_group_end, or no token at all.                                       *)
GroupEnd(i) == ~ Exists(i) \/ At(i, Keyword \cup {"}"})

(* pop_identifier succeeds.                                                *)
Identifier(i) == Exists(i) /\ ~ At(i, Marks)

(* skip_extra_tokens                                                       *)
Skip(i) == CHOOSE j \in i .. Len(tokens) + 1 :
              ~ At(j, {";"}) /\ \A k \in i .. j - 1 : At(k, {";"})

(* The least m for which Stop(m): every use has one before the text ends.  *)
First(Stop(_)) == CHOOSE m \in 0 .. Len(tokens) :
                     Stop(m) /\ \A k \in 0 .. m - 1 : ~ Stop(k)

Top == stack[Len(stack)]
WithTop(frame) == [stack EXCEPT ![Len(stack)] = frame]
In(mode) == outcome = "parsing" /\ Top.mode = mode

Continue(i, frame) ==
    /\ cursor' = Upto(i)
    /\ stack' = WithTop(frame)
    /\ UNCHANGED <<tokens, outcome, tree>>

(* The section ends, well or not: Group::parse goes on at token i.         *)
Leave(i) ==
    /\ cursor' = Skip(Upto(i))
    /\ stack' = WithTop([Top EXCEPT !.mode = "group", !.previous = NoType,
                                    !.partial = NoType])
    /\ UNCHANGED <<tokens, outcome, tree>>

(* An exception that nobody catches, or an empty optional that is used.    *)
Stops(how) == outcome' = how /\ UNCHANGED <<tokens, cursor, stack, tree>>

-----------------------------------------------------------------------------
(* The first of the items with the name, as a sequence of one, or of none. *)
Named(name, items) ==
    LET same == {i \in DOMAIN items : items[i].name = name}
    IN  IF same = {} THEN << >> ELSE << items[Min(same)] >>

(* resolve_group_from_path: groups that are complete, from the root down.  *)
GroupAt(path) ==
    LET found[n \in 0 .. Len(path)] ==
          IF n = 0 THEN << stack[1].group >>
          ELSE LET around == found[n - 1]
               IN  IF around = << >> THEN << >> ELSE Named(path[n], around[1].groups)
    IN  found[Len(path)]

(* The declaration of the innermost group that has one of the name.        *)
Declaring(name) == {k \in DOMAIN stack : Named(name, stack[k].group.types) # << >>}
OutermostType(name) ==                                       \* seeded fault
    IF Declaring(name) = {} THEN << >>
    ELSE Named(name, stack[Min(Declaring(name))].group.types)
InnermostType(name) ==
    IF Declaring(name) = {} THEN << >>
    ELSE Named(name, stack[Max(Declaring(name))].group.types)

(* resolve_type_for_name                                                   *)
TypeNamed(token) ==
    IF token.kind # "path" THEN InnermostType(token.text)
    ELSE LET group == GroupAt(token.parts)
         IN  IF group = << >> THEN << >> ELSE Named(token.name, group[1].types)
AnyWordIsType(token) ==                                      \* seeded fault
    LET found == TypeNamed(token)
    IN  IF token.kind = "word" /\ token.text \notin Marks /\ found = << >>
        THEN Basic(token.text)
        ELSE IF found = << >> THEN NoType ELSE found[1]
Resolve(token) ==
    LET found == TypeNamed(token)
    IN  IF token.text \in Elementary THEN Basic(token.text)
        ELSE IF found = << >> THEN NoType ELSE found[1]

(* type_for_token: the base of an enum or vlen; no word is refused.        *)
BaseOf(token) == IF token.text \in Elementary THEN token.text ELSE Default

-----------------------------------------------------------------------------
(* Group::parse                                                            *)
Opens(i) == Identifier(i) /\ At(i + 1, {"{"})
HeaderEnd(i) == IF Identifier(i) THEN Upto(i + 2) ELSE Upto(i + 1)

(* RootGroup::parse                                                        *)
Start ==
    /\ outcome = "start"
    /\ IF At(1, {"netcdf"}) /\ Opens(2)
       THEN /\ stack' = << Frame(Tok(2).text) >>
            /\ cursor' = HeaderEnd(2)
            /\ outcome' = "parsing"
       ELSE outcome' = "failed" /\ UNCHANGED <<cursor, stack>>
    /\ UNCHANGED <<tokens, tree>>

(* A second dimensions section replaces the first.                         *)
EnterFresh ==                                                \* seeded fault
    /\ In("group") /\ At(cursor, Sections)
    /\ Continue(cursor + 1,
          [Top EXCEPT !.mode = Tok(cursor).text,
                      !.group.types = IF At(cursor, {"types:"}) THEN << >> ELSE @])
EnterSection ==
    /\ In("group") /\ At(cursor, Sections)
    /\ Continue(cursor + 1,
          [Top EXCEPT !.mode = Tok(cursor).text,
                      !.group.dimensions =
                          IF At(cursor, {"dimensions:"}) THEN << >> ELSE @,
                      !.group.listed = @ \/ At(cursor, {"variables:"})])

(* Anything else is taken for the declaration of a variable or attribute.  *)
EnterOther ==
    /\ In("group") /\ Exists(cursor) /\ ~ GroupEnd(cursor)
    /\ Continue(cursor, [Top EXCEPT !.mode = "variables:", !.group.listed = TRUE])

OpenGroup ==
    /\ In("group") /\ At(cursor, {"group:"})
    /\ IF Opens(cursor + 1)
       THEN /\ stack' = Append(stack, Frame(Tok(cursor + 1).text))
            /\ cursor' = HeaderEnd(cursor + 1)
            /\ UNCHANGED <<tokens, outcome, tree>>
       ELSE Leave(HeaderEnd(cursor + 1))

CloseGroup ==
    /\ In("group") /\ At(cursor, {"}"})
    /\ stack' = IF Len(stack) = 1 THEN << >>
                ELSE [Front(stack) EXCEPT ![Len(stack) - 1].group.groups =
                          Append(@, Top.group)]
    /\ IF Len(stack) = 1
       THEN outcome' = "parsed" /\ tree' = Top.group /\ cursor' = cursor + 1
       ELSE cursor' = Skip(cursor + 1) /\ UNCHANGED <<outcome, tree>>
    /\ UNCHANGED tokens

(* The text ends within a group: the group is dropped, and its parents.    *)
RootDropped ==                                               \* seeded fault
    /\ In("group") /\ ~ Exists(cursor)
    /\ stack' = Front(stack)
    /\ UNCHANGED <<tokens, cursor, outcome, tree>>
TextEnds ==
    /\ In("group") /\ ~ Exists(cursor)
    /\ stack' = Front(stack)
    /\ outcome' = IF Len(stack) = 1 THEN "failed" ELSE outcome
    /\ UNCHANGED <<tokens, cursor, tree>>

-----------------------------------------------------------------------------
(* Dimension::parse; stoi throws for what is not a number, or too big.     *)
Dimension ==
    /\ In("dimensions:")
    /\ LET i == cursor
           complete == At(i + 1, {"="}) /\ At(i + 3, {",", ";"})
           unlimited == At(i + 2, {"unlimited", "UNLIMITED"})
       IN  \/ GroupEnd(i) /\ Leave(i)
           \/ ~ GroupEnd(i) /\ ~ complete /\ Leave(i + 4)
           \/ /\ ~ GroupEnd(i) /\ complete
              /\ ~ unlimited /\ BadInt(Tok(i + 2))
              /\ Stops("aborted")
           \/ /\ ~ GroupEnd(i) /\ complete
              /\ unlimited \/ ~ BadInt(Tok(i + 2))
              /\ Continue(i + 4,
                    [Top EXCEPT !.group.dimensions = Append(@,
                        [name |-> Tok(i).text,
                         length |-> IF unlimited THEN "0" ELSE Size(Tok(i + 2))])])

-----------------------------------------------------------------------------
(* A type is complete: Types::parse skips semicolons and keeps it.         *)
Declare(type, i) ==
    /\ cursor' = Skip(Upto(i))
    /\ stack' = WithTop([Top EXCEPT !.group.types = Append(@, type),
                                    !.mode = "types:", !.partial = NoType])
    /\ UNCHANGED <<tokens, outcome, tree>>

(* Types::parse: no more types.                                            *)
NoMoreTypes == In("types:") /\ GroupEnd(cursor) /\ Leave(cursor)

InTypes == In("types:") /\ ~ GroupEnd(cursor)

(* ComplexType::parse, opaque(11) name ;  only the number is looked at.    *)
Opaque ==
    /\ InTypes /\ At(cursor, {"opaque"})
    /\ LET size == Tok(cursor + 2)
       IN  IF ~ Exists(cursor + 5) THEN Leave(cursor + 6)
           ELSE IF BadInt(size) THEN Stops("aborted")
           ELSE Declare(Type("opaque", Tok(cursor + 4).text, Size(size), << >>), cursor + 6)

(* CompoundType::parse.  The message for a missing brace is malformed and  *)
(* throws itself.                                                          *)
Compound ==
    /\ InTypes /\ At(cursor, {"compound"})
    /\ IF ~ Identifier(cursor + 1) THEN Leave(cursor + 2)
       ELSE IF ~ At(cursor + 2, {"{"}) THEN Stops("aborted")
       ELSE Continue(cursor + 3,
               [Top EXCEPT !.mode = "compound",
                           !.partial = Type("compound", Tok(cursor + 1).text, "", << >>)])

CompoundField ==
    /\ In("compound")
    /\ LET i == cursor
           type == Resolve(Tok(i))
           larger == [Top.partial EXCEPT !.parts =
                        Append(@, [name |-> Tok(i + 1).text, type |-> type])]
       IN  IF ~ Exists(i) \/ type = NoType THEN Leave(i + 1)
           ELSE IF ~ Identifier(i + 1) THEN Leave(i + 2)
           ELSE IF ~ At(i + 2, {";"}) \/ type.kind = "basic" THEN Leave(i + 3)
           ELSE IF At(i + 3, {"}"}) THEN Declare(larger, i + 4)
           ELSE Continue(i + 3, [Top EXCEPT !.partial = larger])

(* ComplexType::parse, base enum name { ... }; any word is taken as base.  *)
Enum ==
    /\ InTypes /\ ~ At(cursor, {"opaque", "compound"})
    /\ At(cursor + 1, {"enum"})
    /\ IF ~ Exists(cursor + 3) THEN Leave(cursor + 4)
       ELSE Continue(cursor + 4,
               [Top EXCEPT !.mode = "enum",
                           !.partial = Type("enum", Tok(cursor + 2).text,
                                            BaseOf(Tok(cursor)), << >>)])

(* EnumValue::parse: the values go on until something is no value.         *)
EnumValue ==
    /\ In("enum")
    /\ LET i == cursor
           complete == At(i + 1, {"="}) /\ At(i + 3, {",", "}"})
       IN  IF GroupEnd(i) THEN Declare(Top.partial, i)
           ELSE IF At(i, {";"}) THEN Declare(Top.partial, i + 1)
           ELSE IF ~ complete THEN Declare(Top.partial, i + 4)
           ELSE IF BadInt(Tok(i + 2)) THEN Stops("aborted")
           ELSE Continue(i + 4,
                   [Top EXCEPT !.partial.parts =
                       Append(@, [name |-> Tok(i).text, value |-> Converted(Tok(i + 2), "stoi")])])

(* ComplexType::parse, base ( * ) name ;                                   *)
VLen ==
    /\ InTypes /\ ~ At(cursor, {"opaque", "compound"})
    /\ ~ At(cursor + 1, {"enum"})
    /\ LET i == cursor
           complete == /\ Exists(i + 5) /\ At(i + 1, {"("})
                       /\ At(i + 2, {"*"}) /\ At(i + 3, {")"})
       IN  IF complete
           THEN Declare(Type("vlen", Tok(i + 4).text, BaseOf(Tok(i)), << >>), i + 6)
           ELSE Leave(i + 6)

-----------------------------------------------------------------------------
(***************************************************************************)
(* The parse functions for one item at token i: whether it succeeds, which *)
(* token is next and what was read.                                        *)
(***************************************************************************)
Gives(next, value) == [fate |-> "ok", next |-> Upto(next), value |-> value]
Fails(next) == [fate |-> "fails", next |-> Upto(next), value |-> NoType]
Breaks(how) == [fate |-> how, next |-> 0, value |-> NoType]

(* Variable::parse: name ; or name ( dimension, ... ) and ; or , after it. *)
VariableAt(i, type) ==
    LET Name(m) == i + 2 * m
        Separated(m) == At(Name(m) + 1, {")", ","})
        n == First(LAMBDA m : m > 0 /\ (~ Separated(m) \/ At(Name(m) + 2, {";", ","})))
        Extent(count) == [name |-> Tok(i).text, type |-> type,
                          dimensions |-> [m \in 1 .. count |-> Tok(Name(m)).text]]
    IN  IF At(i + 1, {";"}) THEN Gives(i + 2, Extent(0))
        ELSE IF ~ At(i + 1, {"("}) THEN Fails(i + 2)
        ELSE IF ~ Separated(n)
        THEN IF At(Name(n) + 2, {";"}) THEN Gives(Name(n) + 3, Extent(n - 1))
             ELSE Fails(Name(n) + 3)
        ELSE IF At(Name(n) + 2, {";"}) THEN Gives(Name(n) + 3, Extent(n))
        ELSE Gives(Name(n) + 2, Extent(n))

(***************************************************************************)
(* parse_number.  What is not a number is refused, which the caller takes  *)
(* for a failure; out_of_range is not caught.                              *)
(***************************************************************************)
Reads(i, base) == base \in Numeric /\ Tok(i).kind = "number"
TooBig(i, base) == Reads(i, base) /\ OutOfRange(Tok(i), Conversion(base))
NumberAt(i, base) == [text |-> Converted(Tok(i), Conversion(base)), type |-> Marked(base)]

(* What an attribute keeps: "raw" is the token itself, with its quotes.    *)
Value(kind, items) == [kind |-> kind, items |-> items]
EmptyArray == Value("array", << >>)

(* Numbers with commas between them, parse_array and the vlen loop.        *)
NumbersAt(i, base) ==
    LET n == First(LAMBDA m : ~ Reads(i + 2 * m, base) \/ ~ At(i + 2 * m + 1, {","}))
        count == IF Reads(i + 2 * n, base) THEN n + 1 ELSE n
    IN  IF \E m \in 0 .. n : TooBig(i + 2 * m, base) THEN Breaks("aborted")
        ELSE Gives(i + 2 * n + 1,
                   Value("array", [m \in 1 .. count |-> NumberAt(i + 2 * (m - 1), base)]))

(* A value of an enum is split at a dot, also when it is a number.         *)
HasDot(token) == token.kind = "dot" \/ token = Fraction
BeforeDot(token) == IF token = Fraction THEN "0" ELSE token.parts[1]

(* parse_complex_type_data of a type that has no fields.                   *)
PlainData(type, i) ==
    CASE type.kind = "opaque" -> Fails(i)
      [] type.kind = "enum" ->
           IF ~ Exists(i) THEN Fails(i)
           ELSE IF HasDot(Tok(i)) /\ Resolve(Word(BeforeDot(Tok(i)))) = NoType THEN Fails(i + 1)
           ELSE IF ~ Exists(i + 1) THEN Breaks("undefined")
           ELSE Gives(i + 1, EmptyArray)
      [] type.kind = "vlen" ->
           LET numbers == NumbersAt(i + 1, type.base)
           IN  IF ~ At(i, {"{"}) THEN Fails(i + 1)
               ELSE IF numbers.fate # "ok" THEN numbers
               ELSE IF At(numbers.next, {"}"}) THEN Gives(numbers.next + 1, numbers.value)
               ELSE Fails(numbers.next + 1)

(***************************************************************************)
(* The calls of parse_complex_type_data for compounds within each other:   *)
(* the fields that each has still to read, the innermost first, and        *)
(* whether a field is read next or one has been.  One step reads a field,  *)
(* or what is behind it.                                                   *)
(***************************************************************************)
Reading(item, behind, fields) == [item |-> item, behind |-> behind, fields |-> fields]
WholeRead(r) == r.item.fate # "ok" \/ (r.behind /\ Len(r.fields) = 1)

ReadOn(r) ==
    LET i == r.item.next
        fields == Head(r.fields)
        type == Head(fields).type
        around == Tail(r.fields)
        Closed(next) == Reading(IF Exists(next) THEN Gives(next, EmptyArray)
                                ELSE Breaks("undefined"), TRUE, around)
    IN  CASE r.behind /\ At(i, {"}"}) -> Closed(i + 1)
          [] r.behind /\ At(i, {","}) -> Reading(Gives(i + 1, EmptyArray), FALSE, r.fields)
          [] r.behind /\ ~ At(i, {"}", ","}) -> Reading(Breaks("aborted"), TRUE, r.fields)
          [] ~ r.behind /\ fields = << >> -> Closed(i)
          [] ~ r.behind /\ fields # << >> ->
               IF type.kind # "compound"
               THEN Reading(PlainData(type, i), TRUE, << Tail(fields) >> \o around)
               ELSE IF At(i, {"{"})
               THEN Reading(Gives(i + 1, EmptyArray), FALSE,
                            << type.parts, Tail(fields) >> \o around)
               ELSE Reading(Fails(i + 1), TRUE, r.fields)

(* The set of the one reading that is under way after n steps.             *)
ComplexData(type, i) ==
    LET steps == 2 * Len(tokens) + 3
        after[n \in 0 .. steps] ==
          IF n = 0 THEN {Reading(Gives(i, EmptyArray), FALSE, << << [type |-> type] >> >>)}
          ELSE {IF WholeRead(r) THEN r ELSE ReadOn(r) : r \in after[n - 1]}
        end == CHOOSE r \in after[steps] : TRUE
    IN  end.item

(* parse_string: a quoted token, without its quotes, and short for a char. *)
StringAt(i, type) ==
    IF Tok(i).kind = "letter" \/ (Tok(i).kind = "quoted" /\ type = "string")
    THEN Gives(i + 1, Value("string", << Tok(i).text >>)) ELSE Fails(i + 1)

(* VariableData::parse: one value of the type.                             *)
ValueAt(type, i) ==
    IF type.kind # "basic" THEN ComplexData(type, i)
    ELSE IF type.name \in Textual THEN StringAt(i, type.name)
    ELSE IF TooBig(i, type.name) THEN Breaks("aborted")
    ELSE IF Reads(i, type.name) THEN Gives(i + 1, Value("number", << NumberAt(i, type.name) >>))
    ELSE Fails(i + 1)

(* parse_data, whose result is dropped: an array never fails.              *)
DataAt(type, i) ==
    IF type.kind = "basic" THEN NumbersAt(i, type.name) ELSE ComplexData(type, i)

(* basic_type: what a user defined type is not.                            *)
BasicOf(variable) == IF variable.type.kind = "basic" THEN variable.type ELSE Basic(Default)

TwoNumbers(i, base) ==
    IF TooBig(i, base) \/ TooBig(i + 2, base) THEN Breaks("aborted")
    ELSE IF Reads(i, base) /\ At(i + 1, {","}) /\ Reads(i + 2, base)
    THEN Gives(i + 3, Value("range", << NumberAt(i, base), NumberAt(i + 2, base) >>))
    ELSE Fails(i + 3)

(* pop_until_specific of a semicolon.                                      *)
Semicolons(i) == {j \in i .. Len(tokens) : At(j, {";"})}
AfterSemicolon(i) == Min(Semicolons(i)) + 1

ToSemicolon(data, kept) ==
    IF data.fate # "ok" THEN data
    ELSE IF Semicolons(data.next) = {} THEN Fails(Len(tokens) + 1)
    ELSE Gives(AfterSemicolon(data.next), kept)

(***************************************************************************)
(* Attribute::parse.  Its value decides the type, or the variable it is an *)
(* attribute of; the name decides what is looked for.                      *)
(***************************************************************************)
Untyped == {"units", "long_name", "_Shuffle"}
Special == {"_ChunkSizes", "_Storage", "_Fletcher32", "_DeflateLevel", "_Endianness",
            "_NoFill", "_IsNetcdf4"}

AttributeAt(i, type) ==
    LET token == Tok(i)
        owner == IF token.kind = "colon" THEN token.parts[1] ELSE ""
        variable == Named(owner, Top.group.variables)
        global == owner = ""
        As(t, data) ==
            ToSemicolon(data, [variable |-> owner, name |-> token.name, type |-> t,
                               value |-> data.value])
        OneToken == IF Exists(i + 2) THEN Gives(i + 3, Value("raw", << Tok(i + 2) >>))
                    ELSE Fails(i + 2)
        declared == IF type = NoType THEN Basic("string") ELSE type
    IN  IF ~ At(i + 1, {"="}) \/ token.kind # "colon" THEN Fails(i + 2)
        ELSE IF variable = << >> /\ ~ global THEN Fails(i + 2)
        ELSE IF token.name \in Untyped THEN As(type, OneToken)
        ELSE IF token.name \in Special THEN As(Basic("string"), OneToken)
        ELSE IF token.name \in {"_FillValue", "valid_range"}
        THEN IF global THEN Fails(i + 2)
             ELSE IF token.name = "_FillValue"
             THEN As(BasicOf(variable[1]), ValueAt(BasicOf(variable[1]), i + 2))
             ELSE As(BasicOf(variable[1]), TwoNumbers(i + 2, BasicOf(variable[1]).name))
        ELSE IF global THEN As(declared, ValueAt(declared, i + 2))
        ELSE As(type, OneToken)

-----------------------------------------------------------------------------
(* Variables::parse: what the item at a token came to.                     *)
Keeps(item, next, frame) ==
    CASE item.fate = "ok" -> Continue(next, frame)
      [] item.fate = "fails" -> Leave(item.next)
      [] OTHER -> Stops(item.fate)

KeepVariable(item) ==
    LET more == At(item.next, {","})
    IN  Keeps(item, IF more THEN item.next + 1 ELSE item.next,
           [Top EXCEPT !.group.variables = Append(@, item.value),
                       !.previous = IF more THEN item.value.type ELSE NoType])
KeepAttribute(item) ==
    Keeps(item, item.next, [Top EXCEPT !.group.attributes = Append(@, item.value)])

(* VariableDeclaration::parse                                              *)
NoMoreVariables == In("variables:") /\ GroupEnd(cursor) /\ Leave(cursor)

NextVariable ==
    /\ In("variables:") /\ ~ GroupEnd(cursor)
    /\ Top.previous # NoType
    /\ KeepVariable(VariableAt(cursor, Top.previous))

(* A name with a colon is that of an attribute, and so is a keyword.       *)
HasColon(i) == Tok(i).kind = "colon" \/ At(i, Keyword)

UnpoppedAttribute ==                                         \* seeded fault
    /\ In("variables:") /\ ~ GroupEnd(cursor)
    /\ Top.previous = NoType
    /\ Resolve(Tok(cursor)) = NoType
    /\ IF Tok(cursor).kind # "colon" THEN Leave(cursor)
       ELSE KeepAttribute(AttributeAt(cursor, NoType))
Attribute ==
    /\ In("variables:") /\ ~ GroupEnd(cursor)
    /\ Top.previous = NoType
    /\ Resolve(Tok(cursor)) = NoType
    /\ KeepAttribute(AttributeAt(cursor, NoType))

TypedAttribute ==
    /\ In("variables:") /\ ~ GroupEnd(cursor)
    /\ Top.previous = NoType
    /\ Resolve(Tok(cursor)) # NoType /\ HasColon(cursor + 1)
    /\ KeepAttribute(AttributeAt(cursor + 1, Resolve(Tok(cursor))))

Variable ==
    /\ In("variables:") /\ ~ GroupEnd(cursor)
    /\ Top.previous = NoType
    /\ Resolve(Tok(cursor)) # NoType /\ ~ HasColon(cursor + 1)
    /\ KeepVariable(VariableAt(cursor + 1, Resolve(Tok(cursor))))

-----------------------------------------------------------------------------
(***************************************************************************)
(* VariableSection::parse.  Semicolons are skipped after the look at the   *)
(* end of the group, so the name that is popped may be anything, or none:  *)
(* then an empty optional is used.                                         *)
(***************************************************************************)
Data ==
    /\ In("data:")
    /\ LET i == Skip(cursor)
           variable == Named(Tok(i).text, Top.group.variables)
       IN  IF GroupEnd(cursor) THEN Leave(cursor)
           ELSE IF ~ Exists(i) THEN Stops("undefined")
           ELSE IF variable = << >> THEN Leave(i + 1)
           ELSE IF ~ At(i + 1, {"="}) THEN Leave(i + 2)
           ELSE \E data \in {DataAt(variable[1].type, i + 2)} :
                   CASE data.fate = "fails" -> Leave(data.next)
                     [] data.fate \in Final -> Stops(data.fate)
                     [] data.fate = "ok" /\ At(data.next, {";"}) -> Continue(data.next + 1, Top)
                     [] OTHER -> Leave(data.next + 1)

Next == \/ Start \/ EnterSection \/ EnterOther \/ OpenGroup \/ CloseGroup \/ TextEnds
        \/ Dimension
        \/ NoMoreTypes \/ Opaque \/ Compound \/ CompoundField \/ Enum \/ EnumValue \/ VLen
        \/ NoMoreVariables \/ NextVariable \/ Attribute \/ TypedAttribute \/ Variable
        \/ Data

Spec == Init /\ [][Next]_vars /\ WF_vars(Next)

-----------------------------------------------------------------------------
(* Every variable has its type.                                            *)
TypeOK ==
    /\ cursor \in 1 .. Len(tokens) + 1
    /\ outcome \in Final \cup {"start", "parsing"}
    /\ outcome = "parsing" => stack # << >>
    /\ outcome \in {"start", "parsed", "failed"} => stack = << >>
    /\ \A i \in DOMAIN stack :
          /\ stack[i].mode \in Sections \cup {"group", "enum", "compound"}
          /\ i < Len(stack) => stack[i].mode = "group"

(* The groups that are complete, n levels below the root.                  *)
GroupsBelow(root, n) ==
    LET down[m \in 0 .. n] ==
          IF m = 0 THEN {root} ELSE UNION {ToSet(group.groups) : group \in down[m - 1]}
    IN  down[n]

(* What a name may stand for in the i-th of the open groups.               *)
InScope(type, i) ==
    \/ type.kind = "basic" /\ type.name \in Elementary
    \/ \E k \in 1 .. i : type \in ToSet(stack[k].group.types)
    \/ \E token \in ToSet(tokens) :
          /\ token.kind = "path"
          /\ \E group \in GroupsBelow(stack[1].group, Len(token.parts)) :
                type \in ToSet(group.types)

(***************************************************************************)
(* Whatever the text, a variable never has a type that is not elementary   *)
(* and was not declared in its group, in one around it or in one that is   *)
(* complete and as deep as a path in the text, not even after an error has *)
(* thrown the parser off its track (resolve_type_for_name).                *)
(***************************************************************************)
Scoped ==
    \A i \in DOMAIN stack : \A j \in DOMAIN stack[i].group.variables :
        InScope(stack[i].group.variables[j].type, i)

(***************************************************************************)
(* Whatever the text, what was declared in a group that is still open is   *)
(* not lost or changed by what comes later in it, in particular not by the *)
(* recovery from an error.  (Dimensions are, by a second section.)         *)
(***************************************************************************)
DeclarationsKept ==
    [][\A i \in DOMAIN stack \cap DOMAIN stack' :
          LET before == stack[i].group
              after == stack'[i].group
          IN  /\ IsPrefix(before.types, after.types)
              /\ IsPrefix(before.variables, after.variables)
              /\ IsPrefix(before.attributes, after.attributes)
              /\ IsPrefix(before.groups, after.groups)]_vars

(* Every text is parsed to its end, or given up.                           *)
Terminates == <>(outcome \in Final)
=============================================================================
