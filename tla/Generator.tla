----------------------------- MODULE Generator -----------------------------
(***************************************************************************)
(* The code generator (src/src/generator/), as a build calls it, and the   *)
(* code that it generates.  A build runs the generator once for a header,  *)
(* with a struct for every group and the functions that write and read it  *)
(* over every pipe, and once for the source file that defines them; it     *)
(* then compiles both (examples/CMakeLists.txt).  The functions of a group *)
(* call those of its subgroups, and the order in which they reach the pipe *)
(* decides whether two programs understand each other: the ZeroMQ pipe     *)
(* hands out fields in the order they were written.                        *)
(*                                                                         *)
(* The generator walks the groups depth first.  Here a walk keeps the      *)
(* groups still to be visited, next first; visiting one puts its subgroups *)
(* in front.  The generated program is then compiled, which resolves the   *)
(* calls against the header, and run on any group, with a stack of calls.  *)
(***************************************************************************)
EXTENDS ElementTypes, Sequences, SequencesExt, FiniteSets

CONSTANTS Schemas,  \* the schemas to generate from
          Builds    \* the sequences of commands that a build may consist of

(***************************************************************************)
(* A schema maps the path of each group (<< >> is the root) to its         *)
(* variables and the names of its subgroups, in the order of the CDL file. *)
(* A file that cannot be parsed has not even a root.  Every group is a     *)
(* subgroup of the one around it, and CDL gives names once in a group.     *)
(***************************************************************************)
Unique(names) == \A i, j \in DOMAIN names : names[i] = names[j] => i = j
IsGroup(s, group) ==
    /\ group \in Seq(STRING)
    /\ s[group].vars \in Seq([name : STRING, type : STRING, rank : Nat])
    /\ s[group].subs \in Seq(STRING)
    /\ Unique([i \in DOMAIN s[group].vars |-> s[group].vars[i].name])
    /\ Unique(s[group].subs)
    /\ \A i \in DOMAIN s[group].subs : Append(group, s[group].subs[i]) \in DOMAIN s
    /\ \A n \in 0 .. Len(group) - 1 :
          /\ SubSeq(group, 1, n) \in DOMAIN s
          /\ group[n + 1] \in ToSet(s[SubSeq(group, 1, n)].subs)

ASSUME SchemaAssumption == \A s \in Schemas : \A group \in DOMAIN s : IsGroup(s, group)

(***************************************************************************)
(* A command has its flags (--header, --source), the pipes it names, the   *)
(* components of the namespace, a::b having two, and the name given with   *)
(* --interface_class_name, "" when it is left out.  The name only says     *)
(* which header the source file includes: the generator prints, and it is  *)
(* the build that sends what it prints to HeaderFile, as                   *)
(* test/CMakeLists.txt does with generated_simple.h.                       *)
(***************************************************************************)
Op == {"write", "read"}
Target == {"header", "source"}

ASSUME BuildAssumption ==
    Builds \subseteq Seq([flags : SUBSET Target, pipes : Seq(STRING), space : Seq(STRING),
                          class : STRING])

Command(flags, pipes, space, class) ==
    [flags |-> flags, pipes |-> pipes, space |-> space, class |-> class]
Supported == {"NetCDFPipe", "ZeroMQPipe"}  \* supported_pipes
RootName == "Data"                         \* the name of the root group
HeaderFile == "generated_simple"           \* the header of the build, without its .h

VARIABLES
    schema,   \* what the generator reads
    build,    \* the commands of the build
    commands, \* those that have not ended
    stage,    \* what the generator, the compiler or the program is at
    pending,  \* groups the current walk has still to visit, next first
    header,   \* the header: pipes included, structs, functions declared
    source,   \* the source file: functions defined, in order
    included, \* the headers that the source file includes
    top,      \* the group the program reads and writes
    frames,   \* the calls under way: statements still to be executed
    trace     \* trace[op]: the fields op passed to its pipe

files == <<header, source, included>>
program == <<top, frames, trace>>
vars == <<schema, build, commands, stage, pending, files, program>>

HeaderWalks == <<"struct", "header read", "header write">>
SourceWalks == <<"source write", "source read">>
WalksOf(target) == IF target = "header" THEN HeaderWalks ELSE SourceWalks
Stages == ToSet(HeaderWalks) \cup ToSet(SourceWalks)
            \cup {"build", "failed", "rejected", "unused", "write", "read", "done"}

NameOf(group) == IF group = << >> THEN RootName ELSE Last(group)

(* The arguments of a recursive dump_* call.                               *)
Visit(group, space) == [group |-> group, space |-> space]

(* fully_qualified_struct_name, and the subgroups to be visited with it.   *)
Struct(v) == Append(v.space, NameOf(v.group))

Subs(v) == [i \in DOMAIN schema[v.group].subs |->
              Visit(Append(v.group, schema[v.group].subs[i]), Struct(v))]

Function(scope, op, pipe, struct) ==
    [scope |-> scope, op |-> op, pipe |-> pipe, struct |-> struct]

Init ==
    /\ schema \in Schemas
    /\ build \in Builds
    /\ commands = build
    /\ stage = "build"
    /\ pending = << >>
    /\ header = [pipes |-> {}, structs |-> << >>, functions |-> {}]
    /\ source = << >>
    /\ included = {}
    /\ top = << >>
    /\ frames = << >>
    /\ trace = [op \in Op |-> << >>]

-----------------------------------------------------------------------------
(* main: the flags are looked at first, then the pipes, then the file.     *)
Current == Head(commands)
AtCommand == stage = "build" /\ commands # << >>
Unsupported == ~ ToSet(Current.pipes) \subseteq Supported
Parses == << >> \in DOMAIN schema
Start == << Visit(<< >>, Current.space) >>

(* Exit code 1, or an exception: the build stops.                          *)
Refuse ==
    /\ AtCommand
    /\ Current.flags = Target \/ (Current.flags # {} /\ Unsupported)
    /\ stage' = "failed"
    /\ UNCHANGED <<schema, build, commands, pending, files, program>>

(* No flag, or a file that is not parsed, which only prints so: exit 0.    *)
GenerateNothing ==
    /\ AtCommand
    /\ Current.flags = {} \/ (Current.flags # Target /\ ~ Unsupported /\ ~ Parses)
    /\ commands' = Tail(commands)
    /\ UNCHANGED <<schema, build, stage, pending, files, program>>

(* dump_source_headers includes the pipes; dump_source begins with the     *)
(* include of options.header_name.                                         *)
Generate(target) ==
    /\ AtCommand
    /\ Current.flags = {target} /\ ~ Unsupported /\ Parses
    /\ stage' = WalksOf(target)[1]
    /\ pending' = Start
    /\ header' = IF target = "header" THEN [header EXCEPT !.pipes = ToSet(Current.pipes)]
                 ELSE header
    /\ included' = IF target = "source" THEN {Current.class} ELSE included
    /\ UNCHANGED <<schema, build, commands, source, program>>

(* The types of the generated code, container_for_dimensions.              *)
ContainerFlat(variable) == << CppName(variable.type), 1 >>   \* seeded fault
Container(variable) == << CppName(variable.type), variable.rank >>

(* dump_header: a struct and, in it, those of the subgroups.               *)
DumpStruct ==
    /\ stage = "struct"
    /\ pending # << >>
    /\ LET v == Head(pending)
           struct == [name |-> Struct(v), nested |-> schema[v.group].subs,
                      fields |-> [i \in DOMAIN schema[v.group].vars |->
                                    << schema[v.group].vars[i].name,
                                       Container(schema[v.group].vars[i]) >>]]
       IN  /\ header' = [header EXCEPT !.structs = Append(@, struct)]
           /\ pending' = Subs(v) \o Tail(pending)
    /\ UNCHANGED <<schema, build, commands, stage, source, included, program>>

(* dump_header_reading, dump_header_writing: one group.                    *)
Declare(op) ==
    /\ stage = IF op = "read" THEN "header read" ELSE "header write"
    /\ pending # << >>
    /\ header' = [header EXCEPT !.functions = @ \cup
          {Function(Current.space, op, pipe, Struct(Head(pending))) :
              pipe \in ToSet(Current.pipes)}]
    /\ pending' = Subs(Head(pending)) \o Tail(pending)
    /\ UNCHANGED <<schema, build, commands, stage, source, included, program>>

(***************************************************************************)
(* The statements of one function: a pipe call for each variable, with its *)
(* full path, its container and its element, then a call for each          *)
(* subgroup.  The call is qualified with the namespace name that the walk  *)
(* passes down, the definition with the first component of it.             *)
(***************************************************************************)
Field(path, variable) ==
    [path |-> path, container |-> Container(variable), element |-> CppName(variable.type)]
FieldsWithoutGroup(v) ==                                     \* seeded fault
    [i \in DOMAIN schema[v.group].vars |->
       Field(<< schema[v.group].vars[i].name >>, schema[v.group].vars[i])]
Fields(v) ==
    [i \in DOMAIN schema[v.group].vars |->
       Field(Append(v.group, schema[v.group].vars[i].name), schema[v.group].vars[i])]

CallsInStruct(v, op, pipe) ==                                \* seeded fault
    [i \in DOMAIN Subs(v) |->
       Function(Struct(v), op, pipe, Struct(Subs(v)[i]))]
Calls(v, op, pipe) ==
    [i \in DOMAIN Subs(v) |->
       Function(v.space, op, pipe, Struct(Subs(v)[i]))]

StatementsSwapped(v, op, pipe) ==                            \* seeded fault
    IF op = "read" THEN Calls(v, op, pipe) \o Fields(v)
    ELSE Fields(v) \o Calls(v, op, pipe)
StatementsOfGroup(v, op, pipe) == Fields(v)                  \* seeded fault
Statements(v, op, pipe) == Fields(v) \o Calls(v, op, pipe)

IsCall(statement) == "op" \in DOMAIN statement

(* dump_source_read_group, dump_source_write_group: one group.             *)
Define(op) ==
    /\ stage = IF op = "read" THEN "source read" ELSE "source write"
    /\ pending # << >>
    /\ LET v == Head(pending)
           Definition(pipe) ==
               [function |-> Function(<< Head(v.space) >>, op, pipe, Struct(v)),
                body |-> Statements(v, op, pipe)]
       IN  /\ source' = source \o [i \in DOMAIN Current.pipes |-> Definition(Current.pipes[i])]
           /\ pending' = Subs(v) \o Tail(pending)
    /\ UNCHANGED <<schema, build, commands, stage, header, included, program>>

(* A walk is over: the next one starts at the root again, or the command   *)
(* ends.                                                                   *)
NextWalk ==
    /\ pending = << >>
    /\ \E target \in Target : \E i \in DOMAIN WalksOf(target) :
          /\ stage = WalksOf(target)[i]
          /\ IF i = Len(WalksOf(target))
             THEN stage' = "build" /\ commands' = Tail(commands) /\ UNCHANGED pending
             ELSE stage' = WalksOf(target)[i + 1] /\ pending' = Start /\ UNCHANGED commands
    /\ UNCHANGED <<schema, build, files, program>>

-----------------------------------------------------------------------------
(***************************************************************************)
(* The C++ compiler.  The source file includes the header that was         *)
(* generated, and no file that is not there.  A function defined with a qualified name, or called  *)
(* with one, must be declared in that namespace; none is defined twice; a  *)
(* struct in a struct does not have its name; what a field is read into    *)
(* has the type of the member, and elements are arithmetic, as the pipes   *)
(* require.  The program is then run on some group, read over one pipe     *)
(* after it was written to one.                                            *)
(***************************************************************************)
Defined == {source[i].function : i \in DOMAIN source}
BodyOf(f) == source[CHOOSE i \in DOMAIN source : source[i].function = f].body

Arithmetic == {"int8_t", "uint8_t", "int16_t", "uint16_t", "int", "int32_t", "int64_t",
               "uint64_t", "float", "double"}
Member(struct, field) ==
    \E s \in ToSet(header.structs) :
        s.name = struct /\ << Last(field.path), field.container >> \in ToSet(s.fields)
Resolves(f, statement) ==
    IF IsCall(statement) THEN statement \in header.functions
    ELSE statement.element \in Arithmetic /\ Member(f.struct, statement)

Compiled ==
    /\ header.structs # << >>
    /\ included \subseteq {HeaderFile}
    /\ \A s \in ToSet(header.structs) : Last(s.name) \notin ToSet(s.nested)
    /\ \A f \in header.functions : f.pipe \in header.pipes
    /\ Defined \subseteq header.functions
    /\ Cardinality(Defined) = Len(source)
    /\ \A f \in Defined : \A i \in DOMAIN BodyOf(f) : Resolves(f, BodyOf(f)[i])

Entries(op, group) ==
    {<< << f >> >> : f \in {f \in Defined : f.op = op /\ Tail(f.struct) = << RootName >> \o group}}

Compile ==
    /\ stage = "build" /\ commands = << >>
    /\ IF Compiled /\ source # << >>
       THEN /\ stage' = "write"
            /\ top' \in DOMAIN schema
            /\ frames' \in Entries("write", top')
       ELSE stage' = (IF Compiled THEN "unused" ELSE "rejected") /\ UNCHANGED <<top, frames>>
    /\ UNCHANGED <<schema, build, commands, pending, files, trace>>

(* The program: the next statement of the innermost call.                  *)
Code == Head(frames)
Rest == << Tail(Code) >> \o Tail(frames)

Execute ==
    /\ stage \in Op
    /\ frames # << >> /\ Code # << >>
    /\ IF IsCall(Head(Code))
       THEN /\ frames' = << BodyOf(Head(Code)) >> \o Rest
            /\ UNCHANGED trace
       ELSE /\ frames' = Rest
            /\ trace' = [trace EXCEPT ![stage] = Append(@, Head(Code))]
    /\ UNCHANGED <<schema, build, commands, stage, pending, files, top>>

Return ==
    /\ stage \in Op
    /\ frames # << >> /\ Code = << >>
    /\ frames' = Tail(frames)
    /\ UNCHANGED <<schema, build, commands, stage, pending, files, top, trace>>

ReadBack ==
    /\ stage = "write"
    /\ frames = << >>
    /\ stage' = "read"
    /\ frames' \in Entries("read", top)
    /\ UNCHANGED <<schema, build, commands, pending, files, top, trace>>

Finish ==
    /\ stage = "read"
    /\ frames = << >>
    /\ stage' = "done"
    /\ UNCHANGED <<schema, build, commands, pending, files, program>>

Next == \/ Refuse \/ GenerateNothing \/ \E target \in Target : Generate(target)
        \/ DumpStruct \/ \E op \in Op : Declare(op) \/ Define(op)
        \/ NextWalk \/ Compile \/ Execute \/ Return \/ ReadBack \/ Finish

Spec == Init /\ [][Next]_vars
FairSpec == Spec /\ WF_vars(Next)

-----------------------------------------------------------------------------
(* The paths and ranks of the fields of the group g and of those below it. *)
FieldsBelow(g) ==
    UNION {{<<Append(h, v.name), v>> : v \in ToSet(schema[h].vars)} :
           h \in {h \in DOMAIN schema : IsPrefix(g, h)}}
PathsBelow(g) == {f[1] : f \in FieldsBelow(g)}

Once(fields) == \A i, j \in DOMAIN fields : fields[i].path = fields[j].path => i = j

(* Every variable has its type.                                            *)
TypeOK ==
    /\ schema \in Schemas /\ build \in Builds
    /\ IsSuffix(commands, build)
    /\ stage \in Stages
    /\ \A i \in DOMAIN pending : pending[i].group \in DOMAIN schema
    /\ \A f \in header.functions \cup Defined : f.op \in Op /\ f.pipe \in Supported
    /\ top = << >> \/ top \in DOMAIN schema
    /\ \A op \in Op : \A i \in DOMAIN trace[op] : trace[op][i].path \in PathsBelow(<< >>)

(***************************************************************************)
(* The generated read asks for the fields in the order in which the        *)
(* generated write writes them, with the same containers, also across      *)
(* different pipes: the ZeroMQ pipe (read, zeromq_pipe.h) fails otherwise. *)
(***************************************************************************)
ReadsInWriteOrder ==
    stage \in {"read", "done"} => IsPrefix(trace["read"], trace["write"])

(***************************************************************************)
(* "read/write the contents of the entire file or its subgroups"           *)
(* (README.md): whichever group is written, each field of it and of the    *)
(* groups below is written exactly once, under a path of its own, and no   *)
(* other field is; and the same of read.                                   *)
(***************************************************************************)
Visits(op, fields) ==
    Once(trace[op]) /\ {trace[op][i].path : i \in DOMAIN trace[op]} = fields

WholeGroup ==
    /\ stage \in {"read", "done"} => Visits("write", PathsBelow(top))
    /\ stage = "done" => Visits("read", PathsBelow(top))

(***************************************************************************)
(* Kind and bytes of the numbers of a type: those of a CDL type in a file, *)
(* where "long" is another word for int and "real" for float (so also the  *)
(* comments in parse_number), and those of a C++ type.                     *)
(***************************************************************************)
InFile(type) ==
    CASE type = "byte" -> <<"signed", 1>>   [] type = "ubyte" -> <<"unsigned", 1>>
      [] type = "short" -> <<"signed", 2>>  [] type = "ushort" -> <<"unsigned", 2>>
      [] type \in {"int", "long"} -> <<"signed", 4>>
      [] type = "uint" -> <<"unsigned", 4>>
      [] type = "int64" -> <<"signed", 8>>  [] type = "uint64" -> <<"unsigned", 8>>
      [] type \in {"float", "real"} -> <<"floating", 4>>
      [] type = "double" -> <<"floating", 8>>
      [] OTHER -> <<"text", 1>>
InMemory(cpp) ==
    CASE cpp = "int8_t" -> <<"signed", 1>>  [] cpp = "uint8_t" -> <<"unsigned", 1>>
      [] cpp = "int16_t" -> <<"signed", 2>> [] cpp = "uint16_t" -> <<"unsigned", 2>>
      [] cpp \in {"int", "int32_t"} -> <<"signed", 4>>
      [] cpp = "int64_t" -> <<"signed", 8>> [] cpp = "uint64_t" -> <<"unsigned", 8>>
      [] cpp = "float" -> <<"floating", 4>> [] cpp = "double" -> <<"floating", 8>>

(* The types whose C++ type is that of the file.                           *)
Fitting == {"byte", "ubyte", "short", "ushort", "int", "int64", "uint64", "float", "double"}

(***************************************************************************)
(* A pipe call passes elements of the kind and width that the variable has *)
(* in a file of the schema, in a container nested once for each dimension: *)
(* NetCDFPipe copies the memory of the file's elements as it is, and the   *)
(* ZeroMQ pipe counts elements by their size (read, netcdf_pipe.h and      *)
(* zeromq_pipe.h).                                                         *)
(***************************************************************************)
ElementsFit ==
    \A op \in Op : \A field \in ToSet(trace[op]) : \A f \in FieldsBelow(<< >>) :
        f[1] = field.path =>
            InMemory(field.element) = InFile(f[2].type) /\ field.container[2] = f[2].rank

(* Builds without a namespace in a namespace; schemas of types that fit.   *)
PlainSpaces(builds) == \A b \in builds : \A i \in DOMAIN b : Len(b[i].space) = 1
FittingTypes(schemas) ==
    \A s \in schemas : \A group \in DOMAIN s : \A i \in DOMAIN s[group].vars :
        s[group].vars[i].type \in Fitting

(***************************************************************************)
(* A header and a source file generated as in test/CMakeLists.txt and      *)
(* examples/CMakeLists.txt, with the name of the header given, for the     *)
(* same pipes or the source for some of them, compile and the program with *)
(* them runs to its end.                                                   *)
(***************************************************************************)
Documented ==
    /\ Len(build) = 2
    /\ build[1].flags = {"header"} /\ build[2].flags = {"source"}
    /\ build[1].space = build[2].space /\ Len(build[1].space) = 1
    /\ build[2].pipes # << >> /\ IsInjective(build[2].pipes)
    /\ ToSet(build[2].pipes) \subseteq ToSet(build[1].pipes)
    /\ ToSet(build[1].pipes) \subseteq Supported
    /\ build[2].class = HeaderFile
Usable == Documented /\ Parses => <>(stage = "done")

(***************************************************************************)
(* "The generated code for reading and writing to pipes can be used to     *)
(* read/write the contents of the entire file or its subgroups"            *)
(* (README.md), whatever the schema.  The code breaks it for groups nested *)
(* more than one level deep: a call is qualified with the struct around    *)
(* it, which has no such function.  And it breaks it in the build that     *)
(* README.md prints, whose source file includes ".h".                      *)
(***************************************************************************)
Compiles == stage # "rejected"
=============================================================================
