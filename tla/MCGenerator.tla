---------------------------- MODULE MCGenerator ----------------------------
(***************************************************************************)
(* Schemas for the generator: every tree of groups over two names up to a  *)
(* depth, each group with up to two variables.  The same names are used in *)
(* different groups, as CDL allows.  And builds: those of the build files  *)
(* and of README.md, and those with a slip of the hand.                    *)
(***************************************************************************)
EXTENDS Generator

Var(name, type, rank) == [name |-> name, type |-> type, rank |-> rank]
Scalar == Var("a", "int", 0)
Matrix == Var("b", "double", 2)

Variables == {<< >>, <<Scalar>>, <<Matrix, Scalar>>}
SubGroups == {<< >>, <<"g">>, <<"g", "h">>, <<"h", "g">>}

SubsOf(shape, p) == {Append(p, shape[p][i]) : i \in DOMAIN shape[p]}

(* The schemas with the groups in `paths`: exactly those have a parent.    *)
SchemasOver(paths) ==
    {[p \in paths |-> [vars |-> vs[p], subs |-> ss[p]]] :
       vs \in [paths -> Variables],
       ss \in {ss \in [paths -> SubGroups] :
                 UNION {SubsOf(ss, p) : p \in paths} = paths \ {<< >>}}}

(* One variable of a type, in the root and in a group.                     *)
OfType(type) ==
    {(<< >> :> [vars |-> << Var("a", type, m) >>, subs |-> <<"g">>])
       @@ (<<"g">> :> [vars |-> << Var("b", "float", 1), Var("a", type, n) >>, subs |-> << >>]) :
       m \in 0 .. 1, n \in 0 .. 2}

Unparsable == << >>

(* Groups below the root only, as in data/simple.cdl.                      *)
FlatSchemas == UNION {SchemasOver(paths) :
                        paths \in {{<< >>}, {<< >>, <<"g">>}, {<< >>, <<"g">>, <<"h">>}}}
                 \cup UNION {OfType(type) : type \in Fitting}
                 \cup {Unparsable}

(* A group within a group within the root.                                 *)
DeepSchemas == SchemasOver({<< >>, <<"g">>, <<"g", "h">>})
                 \cup SchemasOver({<< >>, <<"g">>, <<"h">>, <<"h", "g">>})

OtherTypes == UNION {OfType(type) : type \in {"uint", "long", "real"}}
Simple == SchemasOver({<< >>, <<"g">>})

(* A group with the name of the one around it.                             *)
SameName == {(<< >> :> [vars |-> << Scalar >>, subs |-> <<RootName>>])
               @@ (<<RootName>> :> [vars |-> << >>, subs |-> << >>])}

-----------------------------------------------------------------------------
Space == << "generated" >>
Both == << "NetCDFPipe", "ZeroMQPipe" >>
PipeLists == {Both, << "ZeroMQPipe" >>, << >>}

HeaderThenSource(pipes, others, space) ==
    << Command({"header"}, pipes, space, HeaderFile),
       Command({"source"}, others, space, HeaderFile) >>

(* The two commands of a CMakeLists.txt.                                    *)
DefaultBuild == {HeaderThenSource(Both, Both, Space)}

(* The two commands of README.md, which give no name.                      *)
ReadmeBuild == {<< Command({"header"}, Both, <<"ncdlgen">>, ""),
                   Command({"source"}, Both, <<"ncdlgen">>, "") >>}

(* Flags forgotten or both given, a pipe misspelt or named twice, the name *)
(* left out or another, a source file for pipes that the header is not for.*)
Slips ==
    {<< Command({"header", "source"}, Both, Space, HeaderFile) >>,
     << Command({"header"}, Both, Space, HeaderFile), Command({}, Both, Space, HeaderFile) >>,
     << Command({"source"}, Both, Space, HeaderFile),
        Command({"header"}, Both, Space, HeaderFile) >>,
     << Command({"header"}, Both, Space, HeaderFile), Command({"source"}, Both, Space, "") >>,
     << Command({"header"}, Both, Space, ""),
        Command({"source"}, Both, Space, "example_data") >>,
     << Command({"header"}, Both, Space, ""), Command({"source"}, Both, Space, HeaderFile) >>,
     HeaderThenSource(<< "FilePipe" >>, Both, Space),
     HeaderThenSource(Both, << "ZeroMQPipe", "ZeroMQPipe" >>, Space)}

AllBuilds == Slips \cup {HeaderThenSource(ps, qs, Space) : ps \in PipeLists, qs \in PipeLists}

(* The proofs are about these builds and schemas.                          *)
ASSUME BuildsArePlain == PlainSpaces(AllBuilds)
ASSUME TypesFit == FittingTypes(FlatSchemas \cup DeepSchemas)

(* A namespace in a namespace.                                             *)
NestedSpace == {HeaderThenSource(Both, Both, << "a", "b" >>)}
=============================================================================
