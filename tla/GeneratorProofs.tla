-------------------------- MODULE GeneratorProofs --------------------------
(***************************************************************************)
(* What a generated program reads is what it wrote, in that order: the     *)
(* proofs about the generator, for any schema and any build without a      *)
(* namespace in a namespace.                                               *)
(***************************************************************************)
EXTENDS Generator, NaturalsInduction, WellFoundedInduction, SequenceTheorems, TLAPS

-----------------------------------------------------------------------------
(* Sequences.                                                              *)
LEMMA AppendIs ==
    ASSUME NEW S, NEW s \in Seq(S), NEW x \in S
    PROVE  /\ Append(s, x) \in Seq(S) /\ Len(Append(s, x)) = Len(s) + 1
           /\ Len(s) \in Nat
           /\ Append(s, x)[Len(s) + 1] = x
           /\ \A i \in 1 .. Len(s) : Append(s, x)[i] = s[i]
           /\ Append(s, x) # << >>
<1>1. Append(s, x) \in Seq(S) /\ Len(Append(s, x)) = Len(s) + 1 /\ Len(s) \in Nat
  OBVIOUS
<1>2. Append(s, x)[Len(s) + 1] = x /\ \A i \in 1 .. Len(s) : Append(s, x)[i] = s[i]
  OBVIOUS
<1>3. Append(s, x) # << >>
  BY <1>1
<1> QED
  BY <1>1, <1>2, <1>3

LEMMA BeginningIs ==
    ASSUME NEW S, NEW s \in Seq(S), NEW k \in Nat, k <= Len(s)
    PROVE  /\ SubSeq(s, 1, k) \in Seq(S) /\ Len(SubSeq(s, 1, k)) = k
           /\ \A i \in 1 .. k : SubSeq(s, 1, k)[i] = s[i]
  OBVIOUS

LEMMA AppendFront ==
    ASSUME NEW S, NEW s \in Seq(S), NEW x \in S
    PROVE  Front(Append(s, x)) = s /\ Last(Append(s, x)) = x
<1> DEFINE a == Append(s, x)
           n == Len(s)
<1>1. a \in Seq(S) /\ Len(a) = n + 1 /\ n \in Nat /\ a[n + 1] = x
      /\ \A i \in 1 .. n : a[i] = s[i]
  BY AppendIs
<1> HIDE DEF a
<1>2. /\ SubSeq(a, 1, n) \in Seq(S) /\ Len(SubSeq(a, 1, n)) = n
      /\ \A i \in 1 .. n : SubSeq(a, 1, n)[i] = a[i]
  <2>1. n <= Len(a)
    BY <1>1
  <2> QED
    BY <1>1, <2>1
<1>3. SubSeq(a, 1, n) = s
  BY <1>1, <1>2, SeqEqual
<1> QED
  BY <1>1, <1>3 DEF Front, Last, a

LEMMA FrontLast ==
    ASSUME NEW S, NEW s \in Seq(S), s # << >>
    PROVE  /\ Len(s) \in Nat \ {0} /\ Last(s) \in S
           /\ Front(s) \in Seq(S) /\ Len(Front(s)) = Len(s) - 1
           /\ Append(Front(s), Last(s)) = s
<1> DEFINE n == Len(s)
           f == SubSeq(s, 1, n - 1)
<1>1. n \in Nat \ {0} /\ s[n] \in S
  OBVIOUS
<1>2. f \in Seq(S) /\ Len(f) = n - 1 /\ \A i \in 1 .. n - 1 : f[i] = s[i]
  <2>1. n - 1 \in Nat /\ n - 1 <= Len(s)
    BY <1>1
  <2> QED
    BY <2>1, BeginningIs
<1> HIDE DEF f
<1>3. /\ Append(f, s[n]) \in Seq(S) /\ Len(Append(f, s[n])) = n
      /\ \A i \in 1 .. n : Append(f, s[n])[i] = s[i]
  BY <1>1, <1>2
<1>4. Append(f, s[n]) = s
  BY <1>3, SeqEqual
<1> QED
  BY <1>1, <1>2, <1>4 DEF Front, Last, f

LEMMA ConcatIs ==
    ASSUME NEW S, NEW s \in Seq(S), NEW t \in Seq(S)
    PROVE  /\ s \o t \in Seq(S) /\ Len(s \o t) = Len(s) + Len(t)
           /\ Len(s) \in Nat /\ Len(t) \in Nat
           /\ \A i \in 1 .. Len(s) : (s \o t)[i] = s[i]
           /\ \A i \in 1 .. Len(t) : (s \o t)[Len(s) + i] = t[i]
<1>1. Len(s) \in Nat /\ Len(t) \in Nat
  OBVIOUS
<1>2. s \o t \in Seq(S) /\ Len(s \o t) = Len(s) + Len(t)
  BY ConcatProperties
<1>3. ASSUME NEW i \in 1 .. Len(s)
      PROVE  (s \o t)[i] = s[i]
  BY <1>1, ConcatProperties
<1>4. ASSUME NEW i \in 1 .. Len(t)
      PROVE  (s \o t)[Len(s) + i] = t[i]
  BY <1>1, ConcatProperties
<1> QED
  BY <1>1, <1>2, <1>3, <1>4

(***************************************************************************)
(* The name of the struct of a group, qualified; and the namespace in      *)
(* which the walk is at the group.                                         *)
(***************************************************************************)
Name == STRING \cup {RootName}
Path(space, group) == (space \o << RootName >>) \o group
SpaceOf(space, group) == IF group = << >> THEN space ELSE Path(space, Front(group))

LEMMA RootIsName == RootName \in Name
  BY DEF Name

LEMMA RootConcat ==
    ASSUME NEW space \in Seq(Name)
    PROVE  /\ space \o << RootName >> = Append(space, RootName)
           /\ space \o << RootName >> \in Seq(Name)
           /\ Len(space) \in Nat /\ Len(space \o << RootName >>) = Len(space) + 1
<1> DEFINE root == RootName
<1>1. root \in Name
  BY RootIsName
<1> HIDE DEF root
<1>2. space \o << root >> = Append(space, root)
  BY <1>1
<1>3. Append(space, root) \in Seq(Name) /\ Len(Append(space, root)) = Len(space) + 1
      /\ Len(space) \in Nat
  BY <1>1, AppendIs
<1> QED
  BY <1>2, <1>3 DEF root

LEMMA PathIs ==
    ASSUME NEW space \in Seq(Name), NEW group \in Seq(Name)
    PROVE  /\ Path(space, group) \in Seq(Name)
           /\ Len(Path(space, group)) = Len(space) + 1 + Len(group)
           /\ Len(space) \in Nat /\ Len(group) \in Nat
           /\ \A i \in 1 .. Len(group) : Path(space, group)[Len(space) + 1 + i] = group[i]
<1> DEFINE front == space \o << RootName >>
<1>1. front \in Seq(Name) /\ Len(space) \in Nat /\ Len(front) = Len(space) + 1
  BY RootConcat
<1> HIDE DEF front
<1>2. /\ front \o group \in Seq(Name) /\ Len(front \o group) = Len(front) + Len(group)
      /\ Len(group) \in Nat
      /\ \A i \in 1 .. Len(group) : (front \o group)[Len(front) + i] = group[i]
  BY <1>1
<1> QED
  BY <1>1, <1>2 DEF Path, front

LEMMA PathGroup ==
    ASSUME NEW space \in Seq(Name), NEW g \in Seq(Name), NEW h \in Seq(Name),
           Path(space, g) = Path(space, h)
    PROVE  g = h
<1>1. Len(g) = Len(h) /\ Len(g) \in Nat
  BY PathIs
<1>2. ASSUME NEW i \in 1 .. Len(g)
      PROVE  g[i] = h[i]
  <2>1. Path(space, g)[Len(space) + 1 + i] = g[i]
    BY PathIs
  <2>2. Path(space, h)[Len(space) + 1 + i] = h[i]
    <3>1. i \in 1 .. Len(h)
      BY <1>1
    <3> QED
      BY <3>1, PathIs, Zenon
  <2> QED
    BY <2>1, <2>2
<1> QED
  BY <1>1, <1>2, SeqEqual

LEMMA PathAppend ==
    ASSUME NEW space \in Seq(Name), NEW group \in Seq(Name), NEW name \in Name
    PROVE  Append(Path(space, group), name) = Path(space, Append(group, name))
<1> DEFINE front == space \o << RootName >>
<1>1. front \in Seq(Name)
  BY RootConcat
<1> HIDE DEF front
<1>2. Append(front \o group, name) = front \o Append(group, name)
  BY <1>1
<1> QED
  BY <1>2 DEF Path, front

LEMMA PathRoot ==
    ASSUME NEW space \in Seq(Name)
    PROVE  Append(space, RootName) = Path(space, << >>)
<1>1. space \o << RootName >> = Append(space, RootName) /\ space \o << RootName >> \in Seq(Name)
  BY RootConcat
<1> QED
  BY <1>1, ConcatEmptySeq DEF Path

LEMMA PathHead ==
    ASSUME NEW space \in Seq(Name), Len(space) = 1, NEW group \in Seq(Name)
    PROVE  << Head(SpaceOf(space, group)) >> = space
<1>1. << space[1] >> = space
  BY SeqEqual
<1>2. CASE group = << >>
  BY <1>1, <1>2 DEF SpaceOf
<1>3. CASE group # << >>
  <2> DEFINE root == space \o << RootName >>
             f == Front(group)
  <2>1. /\ root = Append(space, RootName) /\ root \in Seq(Name) /\ Len(root) = 2
    <3>1. root = Append(space, RootName) /\ root \in Seq(Name) /\ Len(root) = Len(space) + 1
      BY RootConcat
    <3> HIDE DEF root
    <3> QED
      BY <3>1
  <2>2. root[1] = space[1]
    <3>1. Append(space, RootName)[1] = space[1]
      BY RootIsName, AppendIs
    <3> QED
      BY <2>1, <3>1
  <2>3. f \in Seq(Name)
    BY <1>3, FrontLast
  <2> HIDE DEF root, f
  <2>4. /\ root \o f \in Seq(Name) /\ (root \o f)[1] = root[1] /\ Len(root \o f) >= 1
    BY <2>1, <2>3
  <2>5. SpaceOf(space, group) = root \o f
    BY <1>3 DEF SpaceOf, Path, root, f
  <2>6. Head(root \o f) = root[1]
    BY <2>4
  <2> QED
    BY <1>1, <2>2, <2>5, <2>6
<1> QED
  BY <1>2, <1>3

LEMMA PathTail ==
    ASSUME NEW space \in Seq(Name), Len(space) = 1,
           NEW g \in Seq(Name), NEW h \in Seq(Name),
           Tail(Path(space, g)) = << RootName >> \o h
    PROVE  g = h
<1> DEFINE p == Path(space, g)
           r == << RootName >>
           q == r \o h
<1>1. p \in Seq(Name) /\ Len(p) = 2 + Len(g) /\ Len(g) \in Nat
      /\ \A i \in 1 .. Len(g) : p[2 + i] = g[i]
  <2>1. /\ p \in Seq(Name) /\ Len(p) = Len(space) + 1 + Len(g) /\ Len(g) \in Nat
        /\ \A i \in 1 .. Len(g) : p[Len(space) + 1 + i] = g[i]
    BY PathIs
  <2> HIDE DEF p
  <2>2. \A i \in 1 .. Len(g) : Len(space) + 1 + i = 2 + i
    BY <2>1
  <2> QED
    BY <2>1, <2>2
<1>2. r \in Seq(Name) /\ Len(r) = 1
  BY RootIsName
<1>3. Tail(p) = q
  OBVIOUS
<1> HIDE DEF p, q, r
<1>4. Len(q) = 1 + Len(h) /\ Len(h) \in Nat /\ \A i \in 1 .. Len(h) : q[1 + i] = h[i]
  <2>1. Len(r \o h) = Len(r) + Len(h) /\ Len(h) \in Nat
    BY <1>2, ConcatIs
  <2>2. ASSUME NEW i \in 1 .. Len(h)
        PROVE  (r \o h)[Len(r) + i] = h[i]
    BY <1>2, ConcatIs
  <2> QED
    BY <1>2, <2>1, <2>2 DEF q
<1>5. p # << >>
  BY <1>1
<1>6. Len(Tail(p)) = 1 + Len(g) /\ \A i \in 1 .. Len(g) : Tail(p)[1 + i] = g[i]
  <2>1. Len(Tail(p)) = Len(p) - 1 /\ \A i \in 1 .. Len(Tail(p)) : Tail(p)[i] = p[i + 1]
    BY <1>1, <1>5, HeadTailProperties
  <2>2. \A i \in 1 .. Len(g) : 1 + i \in 1 .. Len(Tail(p)) /\ (1 + i) + 1 = 2 + i
    BY <1>1, <2>1
  <2> QED
    BY <1>1, <2>1, <2>2
<1>7. Len(g) = Len(h)
  BY <1>1, <1>3, <1>4, <1>6
<1>8. \A i \in 1 .. Len(g) : g[i] = h[i]
  BY <1>3, <1>4, <1>6, <1>7
<1> QED
  BY <1>7, <1>8, SeqEqual

-----------------------------------------------------------------------------
(* What the generator makes of a group, by its path.                       *)
Vars(group) == schema[group].vars
SubNames(group) == schema[group].subs
Sub(group, i) == Append(group, SubNames(group)[i])

FieldsOf(group) ==
    [i \in DOMAIN Vars(group) |-> Field(Append(group, Vars(group)[i].name), Vars(group)[i])]
CallsOf(space, group, op, pipe) ==
    [i \in DOMAIN SubNames(group) |->
       Function(SpaceOf(space, group), op, pipe, Path(space, Sub(group, i)))]

Plain == {space \in Seq(Name) : Len(space) = 1}
Visits1(space) == {Visit(g, SpaceOf(space, g)) : g \in DOMAIN schema}
AnyFunction == {Function(space, op, pipe, struct) :
                  space \in Plain, op \in Op, pipe \in Supported, struct \in Seq(Name)}
FunctionOf(space, op, pipe, group) == Function(space, op, pipe, Path(space, group))
DefinitionOf(space, op, pipe, group) ==
    [function |-> FunctionOf(space, op, pipe, group),
     body |-> FieldsOf(group) \o CallsOf(space, group, op, pipe)]
AnyDefinition == {DefinitionOf(space, op, pipe, g) :
                    space \in Plain, op \in Op, pipe \in Supported, g \in DOMAIN schema}

(* The group h is g or is around it.                                       *)
Under(h, g) == Len(h) <= Len(g) /\ \A i \in 1 .. Len(h) : h[i] = g[i]

LEMMA GroupFacts ==
    ASSUME schema \in Schemas, NEW g \in DOMAIN schema
    PROVE  /\ g \in Seq(Name) /\ Len(g) \in Nat
           /\ SubNames(g) \in Seq(Name) /\ Len(SubNames(g)) \in Nat
           /\ DOMAIN SubNames(g) = 1 .. Len(SubNames(g))
           /\ Vars(g) \in Seq([name : STRING, type : STRING, rank : Nat])
           /\ \A i, j \in DOMAIN Vars(g) : Vars(g)[i].name = Vars(g)[j].name => i = j
           /\ \A i, j \in DOMAIN SubNames(g) : SubNames(g)[i] = SubNames(g)[j] => i = j
           /\ \A i \in DOMAIN SubNames(g) : SubNames(g)[i] \in Name /\ Sub(g, i) \in DOMAIN schema
           /\ \A n \in 0 .. Len(g) - 1 :
                 /\ SubSeq(g, 1, n) \in DOMAIN schema
                 /\ g[n + 1] \in ToSet(SubNames(SubSeq(g, 1, n)))
<1>1. IsGroup(schema, g)
  BY SchemaAssumption
<1>2. g \in Seq(STRING) /\ SubNames(g) \in Seq(STRING)
  BY <1>1 DEF IsGroup, SubNames
<1>3. STRING \subseteq Name
  BY DEF Name
<1>4. g \in Seq(Name) /\ SubNames(g) \in Seq(Name)
  BY <1>2, <1>3, SeqMonotonic
<1>5. /\ Len(g) \in Nat /\ Len(SubNames(g)) \in Nat
      /\ DOMAIN SubNames(g) = 1 .. Len(SubNames(g))
      /\ \A i \in DOMAIN SubNames(g) : SubNames(g)[i] \in Name
  BY <1>4
<1>6. Vars(g) \in Seq([name : STRING, type : STRING, rank : Nat])
  BY <1>1 DEF IsGroup, Vars
<1>7. \A i, j \in DOMAIN Vars(g) : Vars(g)[i].name = Vars(g)[j].name => i = j
  BY <1>1 DEF IsGroup, Vars, Unique
<1>8. \A i, j \in DOMAIN SubNames(g) : SubNames(g)[i] = SubNames(g)[j] => i = j
  BY <1>1 DEF IsGroup, SubNames, Unique
<1>9. \A i \in DOMAIN SubNames(g) : Sub(g, i) \in DOMAIN schema
  BY <1>1 DEF IsGroup, SubNames, Sub
<1>10. \A n \in 0 .. Len(g) - 1 :
          /\ SubSeq(g, 1, n) \in DOMAIN schema
          /\ g[n + 1] \in ToSet(SubNames(SubSeq(g, 1, n)))
  BY <1>1 DEF IsGroup, SubNames
<1> QED
  BY <1>4, <1>5, <1>6, <1>7, <1>8, <1>9, <1>10

(* A group below another is below one of its subgroups.                    *)
LEMMA UnderSub ==
    ASSUME schema \in Schemas, NEW h \in DOMAIN schema, NEW g \in DOMAIN schema,
           Under(h, g), h # g
    PROVE  \E i \in DOMAIN SubNames(h) : Under(Sub(h, i), g)
<1> DEFINE n == Len(h)
<1>1. h \in Seq(Name) /\ g \in Seq(Name) /\ n \in Nat /\ Len(g) \in Nat
  BY GroupFacts
<1>2. n < Len(g)
  <2>1. CASE n = Len(g)
    BY <1>1, <2>1, SeqEqual DEF Under
  <2> QED
    BY <1>1, <2>1 DEF Under
<1>3. SubSeq(g, 1, n) = h
  <2>1. /\ SubSeq(g, 1, n) \in Seq(Name) /\ Len(SubSeq(g, 1, n)) = n
        /\ \A i \in 1 .. n : SubSeq(g, 1, n)[i] = g[i]
    BY <1>1, <1>2, BeginningIs
  <2>2. \A i \in 1 .. n : SubSeq(g, 1, n)[i] = h[i]
    BY <2>1 DEF Under
  <2> QED
    BY <1>1, <2>1, <2>2, SeqEqual
<1>4. g[n + 1] \in ToSet(SubNames(h))
  <2>1. n \in 0 .. Len(g) - 1
    BY <1>1, <1>2
  <2> QED
    BY <1>3, <2>1, GroupFacts
<1>5. PICK i \in DOMAIN SubNames(h) : SubNames(h)[i] = g[n + 1]
  BY <1>4 DEF ToSet
<1> DEFINE name == SubNames(h)[i]
<1>6. name \in Name
  BY GroupFacts
<1>7. /\ Len(Append(h, name)) = n + 1 /\ Append(h, name)[n + 1] = name
      /\ \A j \in 1 .. n : Append(h, name)[j] = h[j]
  BY <1>1, <1>6, AppendIs
<1>8. \A j \in 1 .. n + 1 : j = n + 1 \/ j \in 1 .. n
  BY <1>1
<1>9. Under(Append(h, name), g)
  <2>1. n + 1 <= Len(g)
    BY <1>1, <1>2
  <2>2. ASSUME NEW j \in 1 .. n + 1
        PROVE  Append(h, name)[j] = g[j]
    <3>1. CASE j = n + 1
      BY <1>5, <1>7, <3>1
    <3>2. CASE j \in 1 .. n
      BY <1>7, <3>2 DEF Under
    <3> QED
      BY <1>8, <3>1, <3>2
  <2> QED
    BY <1>7, <2>1, <2>2 DEF Under
<1> QED
  BY <1>9 DEF Sub

(* What a visit to a group gives.                                          *)
LEMMA VisitFacts ==
    ASSUME schema \in Schemas, NEW space \in Seq(Name), NEW v \in Visits1(space)
    PROVE  /\ v.group \in DOMAIN schema /\ v.space = SpaceOf(space, v.group)
           /\ Struct(v) = Path(space, v.group)
           /\ Len(Subs(v)) = Len(SubNames(v.group))
           /\ Subs(v) \in Seq(Visits1(space))
           /\ DOMAIN Subs(v) = DOMAIN SubNames(v.group)
           /\ \A i \in DOMAIN SubNames(v.group) : Subs(v)[i].group = Sub(v.group, i)
           /\ \A op \in Op, pipe \in Supported :
                 Statements(v, op, pipe) = DefinitionOf(space, op, pipe, v.group).body
<1> DEFINE g == v.group
<1>1. g \in DOMAIN schema /\ v.space = SpaceOf(space, g)
  BY DEF Visits1, Visit
<1>2. g \in Seq(Name)
  BY <1>1, GroupFacts
<1>3. Struct(v) = Path(space, g)
  <2>1. CASE g = << >>
    <3>1. NameOf(g) = RootName /\ v.space = space
      BY <1>1, <2>1 DEF NameOf, SpaceOf
    <3> QED
      BY <2>1, <3>1, PathRoot DEF Struct
  <2>2. CASE g # << >>
    <3>1. NameOf(g) = Last(g) /\ v.space = Path(space, Front(g))
      BY <1>1, <2>2 DEF NameOf, SpaceOf
    <3>2. Front(g) \in Seq(Name) /\ Last(g) \in Name /\ Append(Front(g), Last(g)) = g
      BY <1>2, <2>2, FrontLast
    <3>3. Append(Path(space, Front(g)), Last(g)) = Path(space, g)
      BY <3>2, PathAppend
    <3> QED
      BY <3>1, <3>3 DEF Struct
  <2> QED
    BY <2>1, <2>2
<1>4. ASSUME NEW i \in DOMAIN SubNames(g)
      PROVE  /\ Visit(Sub(g, i), Path(space, g)) \in Visits1(space)
             /\ Struct(Visit(Sub(g, i), Path(space, g))) = Path(space, Sub(g, i))
  <2>1. SubNames(g)[i] \in Name /\ Sub(g, i) \in DOMAIN schema
    BY <1>1, GroupFacts
  <2>2. /\ Sub(g, i) # << >> /\ Front(Sub(g, i)) = g
        /\ Last(Sub(g, i)) = SubNames(g)[i]
    BY <1>2, <2>1, AppendIs, AppendFront DEF Sub
  <2>3. SpaceOf(space, Sub(g, i)) = Path(space, g)
    BY <2>2 DEF SpaceOf
  <2>4. Append(Path(space, g), SubNames(g)[i]) = Path(space, Sub(g, i))
    BY <1>2, <2>1, PathAppend DEF Sub
  <2>5. NameOf(Sub(g, i)) = SubNames(g)[i]
    BY <2>2 DEF NameOf
  <2>6. Struct(Visit(Sub(g, i), Path(space, g))) = Append(Path(space, g), NameOf(Sub(g, i)))
    BY DEF Struct, Visit
  <2> QED
    BY <2>1, <2>3, <2>4, <2>5, <2>6 DEF Visits1
<1>5. Subs(v) = [i \in DOMAIN SubNames(g) |-> Visit(Sub(g, i), Path(space, g))]
  BY <1>3 DEF Subs, SubNames, Sub
<1>6. /\ DOMAIN Subs(v) = DOMAIN SubNames(g)
      /\ \A i \in DOMAIN SubNames(g) : Subs(v)[i] = Visit(Sub(g, i), Path(space, g))
  BY <1>5
<1>7. Len(SubNames(g)) \in Nat /\ DOMAIN SubNames(g) = 1 .. Len(SubNames(g))
  BY <1>1, GroupFacts
<1>8. Subs(v) \in Seq(Visits1(space)) /\ Len(Subs(v)) = Len(SubNames(g))
  <2> DEFINE m == Len(SubNames(g))
             S == Visits1(space)
             f == Subs(v)
  <2>1. f = [i \in 1 .. m |-> f[i]] /\ m \in Nat
    BY <1>5, <1>6, <1>7
  <2>2. \A i \in 1 .. m : f[i] \in S
    BY <1>4, <1>6, <1>7
  <2> HIDE DEF f, m, S
  <2>3. f \in Seq(S) /\ Len(f) = m
    BY <2>1, <2>2
  <2> QED
    BY <2>3 DEF f, m, S
<1>9. \A i \in DOMAIN SubNames(g) : Subs(v)[i].group = Sub(g, i)
  BY <1>6 DEF Visit
<1>10. ASSUME NEW op \in Op, NEW pipe \in Supported
       PROVE  Statements(v, op, pipe) = DefinitionOf(space, op, pipe, g).body
  <2>1. Fields(v) = FieldsOf(g)
    BY DEF Fields, FieldsOf, Vars
  <2>2. Calls(v, op, pipe) = CallsOf(space, g, op, pipe)
    BY <1>1, <1>4, <1>6 DEF Calls, CallsOf
  <2> QED
    BY <2>1, <2>2 DEF Statements, DefinitionOf
<1> QED
  BY <1>1, <1>3, <1>6, <1>8, <1>9, <1>10

-----------------------------------------------------------------------------
(***************************************************************************)
(* What holds of the two files while they are generated, and afterwards.   *)
(* Every function defined is that of a group; and once one is defined for  *)
(* a pipe, those of all other groups are too, or the walk that defines     *)
(* them is under way.                                                      *)
(***************************************************************************)
AnyCommand ==
    [flags : SUBSET Target, pipes : Seq(STRING), space : Seq(STRING), class : STRING]
SourceStage(op) == IF op = "read" THEN "source read" ELSE "source write"
WalkStages == {"struct", "header read", "header write", "source write", "source read"}

CommandsLeft ==
    /\ commands \in Seq(AnyCommand) /\ Len(commands) <= Len(build)
    /\ \A i \in 1 .. Len(commands) : commands[i] = build[Len(build) - Len(commands) + i]

WalkUnderWay ==
    IF stage \in WalkStages
    THEN /\ commands # << >> /\ Parses
         /\ ToSet(Current.pipes) \subseteq Supported
         /\ pending \in Seq(Visits1(Current.space))
    ELSE pending = << >>

FilesTyped ==
    /\ header = [pipes |-> header.pipes, structs |-> header.structs,
                 functions |-> header.functions]
    /\ header.functions \subseteq AnyFunction
    /\ source \in Seq(AnyDefinition)

WalkCovers ==
    \A op \in Op : stage = SourceStage(op) => \A g \in DOMAIN schema :
        \/ \E k \in DOMAIN pending : Under(pending[k].group, g)
        \/ \A pipe \in ToSet(Current.pipes) : FunctionOf(Current.space, op, pipe, g) \in Defined

Complete ==
    \A f \in Defined :
        \/ \A g \in DOMAIN schema : FunctionOf(f.scope, f.op, f.pipe, g) \in Defined
        \/ stage = SourceStage(f.op) /\ f.scope = Current.space /\ f.pipe \in ToSet(Current.pipes)

Generated ==
    /\ schema \in Schemas /\ build \in Builds /\ stage \in Stages
    /\ CommandsLeft /\ WalkUnderWay /\ FilesTyped
    /\ WalkCovers /\ Complete

LEMMA CurrentFacts ==
    ASSUME PlainSpaces(Builds), Generated, commands # << >>
    PROVE  /\ Current = commands[1] /\ Current \in AnyCommand
           /\ Current.space \in Plain /\ Current.space \in Seq(Name)
           /\ Current.pipes \in Seq(STRING)
<1>1. commands \in Seq(AnyCommand) /\ build \in Builds
  BY DEF Generated, CommandsLeft
<1>2. Current = commands[1] /\ 1 \in 1 .. Len(commands) /\ Len(commands) \in Nat
  BY <1>1 DEF Current
<1>3. Current \in AnyCommand
  BY <1>1, <1>2
<1>4. build \in Seq(AnyCommand) /\ Len(build) \in Nat
  BY <1>1, BuildAssumption DEF AnyCommand
<1>5. Len(build) - Len(commands) + 1 \in DOMAIN build
  BY <1>1, <1>2, <1>4 DEF Generated, CommandsLeft
<1>6. Len(Current.space) = 1
  <2>1. commands[1] = build[Len(build) - Len(commands) + 1]
    BY <1>2 DEF Generated, CommandsLeft
  <2> QED
    BY <1>1, <1>2, <1>5, <2>1 DEF PlainSpaces
<1>7. Current.space \in Seq(STRING) /\ Current.pipes \in Seq(STRING)
  BY <1>3 DEF AnyCommand
<1>8. STRING \subseteq Name
  BY DEF Name
<1>9. Current.space \in Seq(Name)
  BY <1>7, <1>8, SeqMonotonic
<1> QED
  BY <1>2, <1>3, <1>6, <1>7, <1>9 DEF Plain

LEMMA CommandsTail ==
    ASSUME CommandsLeft, commands # << >>, commands' = Tail(commands), build' = build,
           build \in Seq(AnyCommand)
    PROVE  CommandsLeft'
<1> DEFINE t == Tail(commands)
           n == Len(commands)
           b == Len(build)
<1>1. commands \in Seq(AnyCommand) /\ n \in Nat \ {0} /\ b \in Nat /\ n <= b
      /\ \A i \in 1 .. n : commands[i] = build[b - n + i]
  BY DEF CommandsLeft
<1>2. t \in Seq(AnyCommand) /\ Len(t) = n - 1 /\ \A i \in 1 .. n - 1 : t[i] = commands[i + 1]
  BY <1>1, HeadTailProperties
<1> HIDE DEF t
<1>3. ASSUME NEW i \in 1 .. n - 1
      PROVE  t[i] = build[b - (n - 1) + i]
  <2>1. i + 1 \in 1 .. n /\ b - n + (i + 1) = b - (n - 1) + i
    BY <1>1
  <2> QED
    BY <1>1, <1>2, <2>1
<1>4. commands' = t
  BY DEF t
<1>5. Len(t) <= b
  BY <1>1, <1>2
<1> QED
  BY <1>2, <1>3, <1>4, <1>5 DEF CommandsLeft

LEMMA SameDefinitions ==
    ASSUME schema' = schema
    PROVE  AnyDefinition' = AnyDefinition
  BY DEF AnyDefinition, DefinitionOf, FieldsOf, CallsOf, Vars, SubNames, Sub

(* A step outside the walks that leaves the files alone.                   *)
LEMMA FilesStay ==
    ASSUME Generated, schema' = schema, build' = build, header' = header, source' = source,
           pending' = pending, stage \notin WalkStages, stage' \in Stages \ WalkStages,
           commands' = commands \/ (commands # << >> /\ commands' = Tail(commands))
    PROVE  Generated'
<1>1. CommandsLeft'
  <2>1. CASE commands' = commands
    BY <2>1 DEF Generated, CommandsLeft
  <2>2. CASE commands # << >> /\ commands' = Tail(commands)
    <3>1. build \in Seq(AnyCommand)
      BY BuildAssumption DEF Generated, AnyCommand
    <3> QED
      BY <2>2, <3>1, CommandsTail DEF Generated
  <2> QED
    BY <2>1, <2>2
<1>2. WalkUnderWay'
  BY DEF Generated, WalkUnderWay
<1>3. FilesTyped'
  <2>1. AnyDefinition' = AnyDefinition
    BY SameDefinitions
  <2> QED
    BY <2>1 DEF Generated, FilesTyped
<1>4. \A op \in Op : SourceStage(op) \in WalkStages
  BY DEF SourceStage, WalkStages
<1>5. WalkCovers'
  BY <1>4 DEF WalkCovers
<1>6. Defined' = Defined
  BY DEF Defined
<1>7. \A f \in Defined : f.op \in Op => \A g \in DOMAIN schema :
         FunctionOf(f.scope, f.op, f.pipe, g) \in Defined
  BY <1>4 DEF Generated, Complete
<1>8. \A f \in Defined : f.op \in Op
  <2>1. \A i \in DOMAIN source : source[i] \in AnyDefinition
    BY DEF Generated, FilesTyped
  <2> QED
    BY <2>1 DEF Defined, AnyDefinition, DefinitionOf, FunctionOf, Function
<1>9. Complete'
  BY <1>6, <1>7, <1>8 DEF Complete
<1> QED
  BY <1>1, <1>2, <1>3, <1>5, <1>9 DEF Generated

LEMMA DefinedTyped ==
    ASSUME Generated, NEW f \in Defined
    PROVE  f \in AnyFunction /\ f.op \in Op /\ f.pipe \in Supported /\ f.scope \in Plain
<1>1. PICK i \in DOMAIN source : f = source[i].function
  BY DEF Defined
<1>2. source[i] \in AnyDefinition
  BY DEF Generated, FilesTyped
<1>3. PICK space \in Plain, op \in Op, pipe \in Supported, g \in DOMAIN schema :
          source[i] = DefinitionOf(space, op, pipe, g)
  BY <1>2 DEF AnyDefinition
<1>4. f = Function(space, op, pipe, Path(space, g))
  BY <1>1, <1>3 DEF DefinitionOf, FunctionOf
<1>5. Path(space, g) \in Seq(Name)
  <2>1. space \in Seq(Name) /\ g \in Seq(Name)
    BY GroupFacts DEF Plain, Generated
  <2> QED
    BY <2>1, PathIs
<1>6. f.op = op /\ f.pipe = pipe /\ f.scope = space
  BY <1>4 DEF Function
<1> QED
  BY <1>4, <1>5, <1>6 DEF AnyFunction

LEMMA SourceStages ==
    /\ \A op \in Op : SourceStage(op) \in WalkStages
    /\ \A op \in Op : SourceStage(op) \notin {"struct", "header read", "header write"}
    /\ \A o, p \in Op : SourceStage(o) = SourceStage(p) => o = p
    /\ WalkStages \subseteq Stages
<1>1. \A a, b, c : ToSet(<< a, b, c >>) = {a, b, c}
  <2> SUFFICES ASSUME NEW a, NEW b, NEW c
               PROVE  ToSet(<< a, b, c >>) = {a, b, c}
    OBVIOUS
  <2> DEFINE s == << a, b, c >>
  <2>1. DOMAIN s = 1 .. 3 /\ s[1] = a /\ s[2] = b /\ s[3] = c
    OBVIOUS
  <2> HIDE DEF s
  <2>2. ToSet(s) = {a, b, c}
    BY <2>1 DEF ToSet
  <2> QED
    BY <2>2 DEF s
<1>2. ToSet(HeaderWalks) = {"struct", "header read", "header write"}
  BY <1>1, Zenon DEF HeaderWalks
<1>3. ToSet(SourceWalks) = {"source write", "source read"}
  <2> DEFINE a == "source write"
             b == "source read"
             s == << a, b >>
  <2>1. DOMAIN s = 1 .. 2 /\ s[1] = a /\ s[2] = b
    OBVIOUS
  <2> HIDE DEF s, a, b
  <2>2. ToSet(s) = {a, b}
    BY <2>1 DEF ToSet
  <2> QED
    BY <2>2 DEF s, a, b, SourceWalks
<1> QED
  BY <1>2, <1>3 DEF SourceStage, WalkStages, Stages, Op

(* The first walk of a file, and the next one, start at the root.          *)
LEMMA StartFacts ==
    ASSUME PlainSpaces(Builds), Generated, commands # << >>, Parses
    PROVE  /\ Start \in Seq(Visits1(Current.space)) /\ 1 \in DOMAIN Start
           /\ \A g \in DOMAIN schema : Under(Start[1].group, g)
<1> DEFINE v == Visit(<< >>, Current.space)
<1>1. v \in Visits1(Current.space)
  BY DEF Visits1, SpaceOf, Parses
<1>2. Start = << v >> /\ v.group = << >>
  BY DEF Start, Visit
<1>3. \A g \in DOMAIN schema : g \in Seq(Name)
  BY GroupFacts DEF Generated
<1>4. \A g \in DOMAIN schema : Under(<< >>, g)
  BY <1>3 DEF Under
<1> HIDE DEF v
<1>5. Start \in Seq(Visits1(Current.space)) /\ 1 \in DOMAIN Start /\ Start[1] = v
  BY <1>1, <1>2
<1> QED
  BY <1>2, <1>4, <1>5

LEMMA GenerateStep ==
    ASSUME PlainSpaces(Builds), Generated, NEW target \in Target, Generate(target)
    PROVE  Generated'
<1>1. /\ stage = "build" /\ commands # << >> /\ ToSet(Current.pipes) \subseteq Supported
      /\ Parses /\ stage' = WalksOf(target)[1] /\ pending' = Start
      /\ schema' = schema /\ build' = build /\ commands' = commands /\ source' = source
      /\ header' = header \/ header' = [header EXCEPT !.pipes = ToSet(Current.pipes)]
  BY DEF Generate, AtCommand, Unsupported
<1>2. stage' \in WalkStages
  BY <1>1 DEF WalksOf, HeaderWalks, SourceWalks, WalkStages, Target
<1>3. CommandsLeft'
  BY <1>1 DEF Generated, CommandsLeft
<1>4. Current' = Current /\ (Visits1(Current.space))' = Visits1(Current.space) /\ Parses'
  BY <1>1 DEF Current, Visits1, Parses
<1>5. WalkUnderWay'
  BY <1>1, <1>2, <1>4, StartFacts DEF WalkUnderWay
<1>6. FilesTyped'
  <2>1. AnyDefinition' = AnyDefinition
    BY <1>1, SameDefinitions
  <2>2. CASE header' = header
    BY <1>1, <2>1, <2>2 DEF Generated, FilesTyped
  <2>3. CASE header' = [header EXCEPT !.pipes = ToSet(Current.pipes)]
    <3>1. header = [pipes |-> header.pipes, structs |-> header.structs,
                    functions |-> header.functions]
      BY DEF Generated, FilesTyped
    <3>2. header' = [pipes |-> ToSet(Current.pipes), structs |-> header.structs,
                     functions |-> header.functions]
      BY <2>3, <3>1
    <3> QED
      BY <1>1, <2>1, <3>2 DEF Generated, FilesTyped
  <2> QED
    BY <1>1, <2>2, <2>3
<1>7. WalkCovers'
  BY <1>1, StartFacts DEF WalkCovers, Under
<1>8. Complete'
  <2>1. Defined' = Defined
    BY <1>1 DEF Defined
  <2>2. \A f \in Defined : f.op \in Op
    BY DefinedTyped
  <2>3. \A f \in Defined : \A g \in DOMAIN schema : FunctionOf(f.scope, f.op, f.pipe, g) \in Defined
    BY <1>1, <2>2, SourceStages DEF Generated, Complete, WalkStages
  <2> QED
    BY <1>1, <2>1, <2>3 DEF Complete
<1> QED
  BY <1>1, <1>2, <1>3, <1>5, <1>6, <1>7, <1>8, SourceStages DEF Generated

(* One group is visited: what is left of the walk.                         *)
LEMMA VisitStep ==
    ASSUME PlainSpaces(Builds), Generated, stage \in WalkStages, pending # << >>
    PROVE  LET left == Subs(Head(pending)) \o Tail(pending)
           IN  /\ Head(pending) \in Visits1(Current.space)
               /\ left \in Seq(Visits1(Current.space))
               /\ \A g \in DOMAIN schema : (\E k \in DOMAIN pending : Under(pending[k].group, g)) =>
                     g = Head(pending).group \/ \E k \in DOMAIN left : Under(left[k].group, g)
<1> DEFINE S == Visits1(Current.space)
           v == Head(pending)
           t == Tail(pending)
           s == Subs(v)
           left == s \o t
<1>1. pending \in Seq(S) /\ commands # << >>
  BY DEF Generated, WalkUnderWay
<1>2. Current.space \in Seq(Name)
  BY <1>1, CurrentFacts
<1>3. /\ v \in S /\ v = pending[1] /\ t \in Seq(S) /\ Len(pending) \in Nat
      /\ \A k \in 1 .. Len(t) : t[k] = pending[k + 1]
      /\ Len(t) = Len(pending) - 1
  <2>1. v = pending[1] /\ Len(pending) \in Nat
    BY <1>1
  <2> QED
    BY <1>1, <2>1, HeadTailProperties
<1>4. /\ v.group \in DOMAIN schema /\ s \in Seq(S)
      /\ DOMAIN s = DOMAIN SubNames(v.group)
      /\ \A i \in DOMAIN SubNames(v.group) : s[i].group = Sub(v.group, i)
  BY <1>2, <1>3, VisitFacts DEF Generated
<1> HIDE DEF S, v, t, s
<1>5. /\ left \in Seq(S) /\ Len(left) = Len(s) + Len(t) /\ Len(s) \in Nat /\ Len(t) \in Nat
      /\ \A i \in 1 .. Len(s) : left[i] = s[i]
      /\ \A i \in 1 .. Len(t) : left[Len(s) + i] = t[i]
  <2>1. left \in Seq(S) /\ Len(left) = Len(s) + Len(t) /\ Len(s) \in Nat /\ Len(t) \in Nat
    BY <1>3, <1>4, ConcatIs
  <2>2. ASSUME NEW i \in 1 .. Len(s)
        PROVE  left[i] = s[i]
    BY <1>3, <1>4, ConcatIs
  <2>3. ASSUME NEW i \in 1 .. Len(t)
        PROVE  left[Len(s) + i] = t[i]
    BY <1>3, <1>4, ConcatIs
  <2> QED
    BY <2>1, <2>2, <2>3
<1>6. DOMAIN left = 1 .. Len(s) + Len(t) /\ DOMAIN s = 1 .. Len(s)
  BY <1>3, <1>4, <1>5
<1> HIDE DEF left
<1>7. ASSUME NEW g \in DOMAIN schema, NEW k \in DOMAIN pending, Under(pending[k].group, g),
             g # v.group
      PROVE  \E j \in DOMAIN left : Under(left[j].group, g)
  <2>1. CASE k = 1
    <3>1. PICK i \in DOMAIN SubNames(v.group) : Under(Sub(v.group, i), g)
      BY <1>3, <1>4, <1>7, <2>1, UnderSub DEF Generated
    <3>2. i \in DOMAIN left /\ left[i] = s[i]
      BY <1>4, <1>5, <1>6
    <3> QED
      BY <1>4, <3>1, <3>2
  <2>2. CASE k # 1
    <3>1. k \in 1 .. Len(pending)
      BY <1>1
    <3>2. k - 1 \in 1 .. Len(t) /\ (k - 1) + 1 = k
      BY <1>3, <2>2, <3>1
    <3>3. t[k - 1] = pending[k]
      BY <1>3, <3>2
    <3>4. Len(s) + (k - 1) \in DOMAIN left /\ left[Len(s) + (k - 1)] = t[k - 1]
      BY <1>5, <1>6, <3>2
    <3> QED
      BY <1>7, <3>3, <3>4
  <2> QED
    BY <2>1, <2>2
<1> QED
  BY <1>3, <1>5, <1>7 DEF S, v, t, s, left

(* Visits of the walks over the header.                                    *)
LEMMA HeaderStep ==
    ASSUME PlainSpaces(Builds), Generated, pending # << >>,
           stage \in {"struct", "header read", "header write"},
           schema' = schema, build' = build, commands' = commands, stage' = stage,
           source' = source, pending' = Subs(Head(pending)) \o Tail(pending),
           header' = [pipes |-> header'.pipes, structs |-> header'.structs,
                      functions |-> header'.functions],
           header'.functions \subseteq AnyFunction
    PROVE  Generated'
<1>1. stage \in WalkStages /\ \A op \in Op : stage # SourceStage(op)
  BY SourceStages DEF WalkStages
<1>2. CommandsLeft'
  BY DEF Generated, CommandsLeft
<1>3. Current' = Current /\ (Visits1(Current.space))' = Visits1(Current.space)
      /\ (Parses <=> Parses')
  BY DEF Current, Visits1, Parses
<1>4. WalkUnderWay'
  BY <1>1, <1>3, VisitStep DEF Generated, WalkUnderWay
<1>5. FilesTyped'
  <2>1. AnyDefinition' = AnyDefinition
    BY SameDefinitions
  <2> QED
    BY <2>1 DEF Generated, FilesTyped
<1>6. WalkCovers'
  BY <1>1 DEF WalkCovers
<1>7. Complete'
  <2>1. Defined' = Defined
    BY DEF Defined
  <2>2. \A f \in Defined : f.op \in Op
    BY DefinedTyped
  <2>3. \A f \in Defined : \A g \in DOMAIN schema : FunctionOf(f.scope, f.op, f.pipe, g) \in Defined
    BY <1>1, <2>2 DEF Generated, Complete
  <2> QED
    BY <2>1, <2>3 DEF Complete
<1> QED
  BY <1>2, <1>4, <1>5, <1>6, <1>7 DEF Generated

LEMMA DumpStructStep ==
    ASSUME PlainSpaces(Builds), Generated, DumpStruct
    PROVE  Generated'
<1>1. PICK x : header' = [header EXCEPT !.structs = Append(@, x)]
  BY DEF DumpStruct
<1>2. header = [pipes |-> header.pipes, structs |-> header.structs,
                functions |-> header.functions] /\ header.functions \subseteq AnyFunction
  BY DEF Generated, FilesTyped
<1>3. header' = [pipes |-> header.pipes, structs |-> Append(header.structs, x),
                 functions |-> header.functions]
  BY <1>1, <1>2
<1>4. /\ header' = [pipes |-> header'.pipes, structs |-> header'.structs,
                    functions |-> header'.functions]
      /\ header'.functions \subseteq AnyFunction
  BY <1>2, <1>3
<1> QED
  BY <1>4, HeaderStep DEF DumpStruct

LEMMA DeclareStep ==
    ASSUME PlainSpaces(Builds), Generated, NEW op \in Op, Declare(op)
    PROVE  Generated'
<1> DEFINE v == Head(pending)
           more == {Function(Current.space, op, pipe, Struct(v)) : pipe \in ToSet(Current.pipes)}
<1>1. /\ stage \in {"header read", "header write"} /\ pending # << >>
      /\ header' = [header EXCEPT !.functions = @ \cup more]
      /\ pending' = Subs(v) \o Tail(pending)
      /\ schema' = schema /\ build' = build /\ commands' = commands /\ stage' = stage
      /\ source' = source
  BY DEF Declare
<1>2. header = [pipes |-> header.pipes, structs |-> header.structs,
                functions |-> header.functions] /\ header.functions \subseteq AnyFunction
  BY DEF Generated, FilesTyped
<1>3. commands # << >> /\ ToSet(Current.pipes) \subseteq Supported
  BY <1>1 DEF Generated, WalkUnderWay, WalkStages
<1>4. Current.space \in Plain /\ Current.space \in Seq(Name)
  BY <1>3, CurrentFacts
<1>5. Struct(v) \in Seq(Name)
  <2>1. v \in Visits1(Current.space)
    BY <1>1, VisitStep DEF WalkStages
  <2>2. Struct(v) = Path(Current.space, v.group) /\ v.group \in DOMAIN schema
    BY <1>4, <2>1, VisitFacts DEF Generated
  <2>3. v.group \in Seq(Name)
    BY <2>2, GroupFacts DEF Generated
  <2> QED
    BY <1>4, <2>2, <2>3, PathIs
<1> HIDE DEF v
<1>6. more \subseteq AnyFunction
  BY <1>3, <1>4, <1>5 DEF AnyFunction
<1> HIDE DEF more
<1>7. header' = [pipes |-> header.pipes, structs |-> header.structs,
                 functions |-> header.functions \cup more]
  BY <1>1, <1>2
<1>8. /\ header' = [pipes |-> header'.pipes, structs |-> header'.structs,
                    functions |-> header'.functions]
      /\ header'.functions \subseteq AnyFunction
  BY <1>2, <1>6, <1>7
<1> QED
  BY <1>1, <1>8, HeaderStep DEF v

(* One group is visited in a walk over the source file.                    *)
LEMMA DefineStep ==
    ASSUME PlainSpaces(Builds), Generated, NEW op \in Op, Define(op)
    PROVE  Generated'
<1> DEFINE v == Head(pending)
           g == v.group
           space == Current.space
           pipes == Current.pipes
           raw == [i \in DOMAIN pipes |->
                     [function |-> Function(<< Head(v.space) >>, op, pipes[i], Struct(v)),
                      body |-> Statements(v, op, pipes[i])]]
           more == [i \in DOMAIN pipes |-> DefinitionOf(space, op, pipes[i], g)]
<1>1. /\ stage = SourceStage(op) /\ pending # << >>
      /\ source' = source \o raw /\ pending' = Subs(v) \o Tail(pending)
      /\ schema' = schema /\ build' = build /\ commands' = commands /\ stage' = stage
      /\ header' = header
  BY DEF Define, SourceStage
<1>2. stage \in WalkStages
  BY <1>1, SourceStages
<1>3. commands # << >> /\ ToSet(pipes) \subseteq Supported
  BY <1>2 DEF Generated, WalkUnderWay
<1>4. space \in Plain /\ space \in Seq(Name) /\ Len(space) = 1 /\ pipes \in Seq(STRING)
  BY <1>3, CurrentFacts DEF Plain
<1>5. /\ g \in DOMAIN schema /\ v.space = SpaceOf(space, g) /\ Struct(v) = Path(space, g)
      /\ \A pipe \in Supported : Statements(v, op, pipe) = DefinitionOf(space, op, pipe, g).body
  <2>1. v \in Visits1(space)
    BY <1>1, <1>2, VisitStep
  <2> QED
    BY <1>4, <2>1, VisitFacts DEF Generated
<1>6. << Head(v.space) >> = space
  <2>1. g \in Seq(Name)
    BY <1>5, GroupFacts DEF Generated
  <2> QED
    BY <1>4, <1>5, <2>1, PathHead
<1>7. \A i \in DOMAIN pipes : pipes[i] \in Supported /\ pipes[i] \in ToSet(pipes)
  BY <1>3 DEF ToSet
<1>8. raw = more
  BY <1>5, <1>6, <1>7 DEF DefinitionOf, FunctionOf
<1>9. more \in Seq(AnyDefinition) /\ DOMAIN more = DOMAIN pipes
      /\ \A i \in DOMAIN pipes : more[i] = DefinitionOf(space, op, pipes[i], g)
  <2>1. \A i \in DOMAIN pipes : DefinitionOf(space, op, pipes[i], g) \in AnyDefinition
    BY <1>4, <1>5, <1>7 DEF AnyDefinition
  <2>2. DOMAIN pipes = 1 .. Len(pipes) /\ Len(pipes) \in Nat
    BY <1>4
  <2> QED
    BY <2>1, <2>2
<1>10. source' = source \o more
  BY <1>1, <1>8
<1>11. source \in Seq(AnyDefinition)
  BY DEF Generated, FilesTyped
<1> HIDE DEF raw, more
<1>12. source' \in Seq(AnyDefinition) /\ Len(source') = Len(source) + Len(more)
       /\ Len(source) \in Nat /\ Len(more) \in Nat
  BY <1>9, <1>10, <1>11, ConcatIs
<1>13. ASSUME NEW i \in 1 .. Len(source)
       PROVE  source'[i] = source[i]
  BY <1>9, <1>10, <1>11, ConcatIs
<1>14. ASSUME NEW i \in 1 .. Len(more)
       PROVE  source'[Len(source) + i] = more[i]
  BY <1>9, <1>10, <1>11, ConcatIs
<1>15. /\ DOMAIN source = 1 .. Len(source) /\ DOMAIN source' = 1 .. Len(source) + Len(more)
       /\ DOMAIN more = 1 .. Len(more)
  BY <1>9, <1>11, <1>12
<1>16. Defined \subseteq Defined'
  BY <1>12, <1>13, <1>15 DEF Defined
<1> HIDE DEF v, g, space, pipes
<1>17. \A i \in DOMAIN pipes : more[i].function = FunctionOf(space, op, pipes[i], g)
  <2>1. \A i \in DOMAIN pipes :
           DefinitionOf(space, op, pipes[i], g).function = FunctionOf(space, op, pipes[i], g)
    BY DEF DefinitionOf
  <2> QED
    BY <1>9, <2>1
<1>18. \A pipe \in ToSet(pipes) : FunctionOf(space, op, pipe, g) \in Defined'
  <2> SUFFICES ASSUME NEW i \in DOMAIN pipes
               PROVE  FunctionOf(space, op, pipes[i], g) \in Defined'
    BY DEF ToSet
  <2>1. i \in 1 .. Len(more) /\ Len(source) + i \in DOMAIN source'
    BY <1>9, <1>12, <1>15
  <2> QED
    BY <1>14, <1>17, <2>1 DEF Defined
<1>19. ASSUME NEW f \in Defined'
       PROVE  f \in Defined \/ (f.scope = space /\ f.op = op /\ f.pipe \in ToSet(pipes))
  <2>1. PICK i \in DOMAIN source' : f = source'[i].function
    BY DEF Defined
  <2>2. CASE i \in 1 .. Len(source)
    BY <1>13, <1>15, <2>1, <2>2 DEF Defined
  <2>3. CASE i \notin 1 .. Len(source)
    <3>1. i - Len(source) \in 1 .. Len(more) /\ Len(source) + (i - Len(source)) = i
      BY <1>12, <1>15, <2>3
    <3>2. f = more[i - Len(source)].function
      BY <1>14, <2>1, <3>1
    <3>3. i - Len(source) \in DOMAIN pipes
      BY <1>9, <1>15, <3>1
    <3>4. f = FunctionOf(space, op, pipes[i - Len(source)], g)
      BY <1>17, <3>2, <3>3
    <3>5. f.scope = space /\ f.op = op /\ f.pipe = pipes[i - Len(source)]
      BY <3>4 DEF FunctionOf, Function
    <3> QED
      BY <1>7, <3>3, <3>5
  <2> QED
    BY <2>2, <2>3
<1>20. Current' = Current /\ (Visits1(Current.space))' = Visits1(Current.space)
       /\ (Parses <=> Parses')
  BY <1>1 DEF Current, Visits1, Parses
<1>21. CommandsLeft'
  BY <1>1 DEF Generated, CommandsLeft
<1>22. WalkUnderWay'
  BY <1>1, <1>2, <1>20, VisitStep DEF Generated, WalkUnderWay, v
<1>23. FilesTyped'
  BY <1>1, <1>12, SameDefinitions DEF Generated, FilesTyped
<1>24. WalkCovers'
  <2>1. ASSUME NEW h \in DOMAIN schema
        PROVE  \/ \E k \in DOMAIN pending' : Under(pending'[k].group, h)
               \/ \A pipe \in ToSet(pipes) : FunctionOf(space, op, pipe, h) \in Defined'
    <3>1. CASE \E k \in DOMAIN pending : Under(pending[k].group, h)
      BY <1>1, <1>2, <1>18, <3>1, VisitStep DEF v, g
    <3>2. CASE \A pipe \in ToSet(pipes) : FunctionOf(space, op, pipe, h) \in Defined
      BY <1>16, <3>2
    <3> QED
      BY <1>1, <3>1, <3>2 DEF Generated, WalkCovers, space, pipes
  <2>2. \A o \in Op : stage = SourceStage(o) => o = op
    BY <1>1, SourceStages
  <2> QED
    BY <1>1, <1>20, <2>1, <2>2 DEF WalkCovers, space, pipes
<1>25. Complete'
  <2>1. ASSUME NEW f \in Defined'
        PROVE  \/ \A h \in DOMAIN schema : FunctionOf(f.scope, f.op, f.pipe, h) \in Defined'
               \/ stage = SourceStage(f.op) /\ f.scope = space /\ f.pipe \in ToSet(pipes)
    <3>1. CASE f \in Defined
      BY <1>16, <3>1 DEF Generated, Complete, space, pipes
    <3> QED
      BY <1>1, <1>19, <3>1
  <2> QED
    BY <1>1, <1>20, <2>1 DEF Complete, space, pipes
<1> QED
  BY <1>1, <1>21, <1>22, <1>23, <1>24, <1>25 DEF Generated

(* A walk ends: no group is left, so every one has its function.           *)
LEMMA WalkEnds ==
    ASSUME NextWalk
    PROVE  /\ pending = << >> /\ stage \in WalkStages
           /\ \/ /\ stage' = "build" /\ commands' = Tail(commands) /\ pending' = pending
              \/ /\ stage' \in WalkStages /\ commands' = commands /\ pending' = Start
           /\ schema' = schema /\ build' = build /\ header' = header /\ source' = source
<1>1. PICK target \in Target : \E i \in DOMAIN WalksOf(target) :
          /\ stage = WalksOf(target)[i]
          /\ IF i = Len(WalksOf(target))
             THEN stage' = "build" /\ commands' = Tail(commands) /\ UNCHANGED pending
             ELSE stage' = WalksOf(target)[i + 1] /\ pending' = Start /\ UNCHANGED commands
  BY DEF NextWalk
<1>2. PICK i \in DOMAIN WalksOf(target) :
          /\ stage = WalksOf(target)[i]
          /\ IF i = Len(WalksOf(target))
             THEN stage' = "build" /\ commands' = Tail(commands) /\ UNCHANGED pending
             ELSE stage' = WalksOf(target)[i + 1] /\ pending' = Start /\ UNCHANGED commands
  BY <1>1
<1>3. /\ \A j \in DOMAIN WalksOf(target) : WalksOf(target)[j] \in WalkStages
      /\ DOMAIN WalksOf(target) = 1 .. Len(WalksOf(target)) /\ Len(WalksOf(target)) \in Nat
  <2>1. CASE target = "header"
    <3> DEFINE a == "struct"
               b == "header read"
               c == "header write"
    <3>1. WalksOf(target) = << a, b, c >>
      BY <2>1 DEF WalksOf, HeaderWalks
    <3>2. a \in WalkStages /\ b \in WalkStages /\ c \in WalkStages
      BY DEF WalkStages
    <3> HIDE DEF a, b, c
    <3>3. /\ \A j \in DOMAIN << a, b, c >> : << a, b, c >>[j] \in WalkStages
          /\ DOMAIN << a, b, c >> = 1 .. Len(<< a, b, c >>) /\ Len(<< a, b, c >>) \in Nat
      BY <3>2
    <3> QED
      BY <3>1, <3>3, Zenon
  <2>2. CASE target = "source"
    <3> DEFINE a == "source write"
               b == "source read"
    <3>1. WalksOf(target) = << a, b >>
      BY <2>2 DEF WalksOf, SourceWalks
    <3>2. a \in WalkStages /\ b \in WalkStages
      BY DEF WalkStages
    <3> HIDE DEF a, b
    <3>3. /\ \A j \in DOMAIN << a, b >> : << a, b >>[j] \in WalkStages
          /\ DOMAIN << a, b >> = 1 .. Len(<< a, b >>) /\ Len(<< a, b >>) \in Nat
      BY <3>2
    <3> QED
      BY <3>1, <3>3, Zenon
  <2> QED
    BY <2>1, <2>2 DEF Target
<1>4. i # Len(WalksOf(target)) => i + 1 \in DOMAIN WalksOf(target)
  BY <1>3
<1>5. pending = << >> /\ schema' = schema /\ build' = build /\ header' = header /\ source' = source
  BY DEF NextWalk, files
<1> QED
  BY <1>2, <1>3, <1>4, <1>5

LEMMA NextWalkStep ==
    ASSUME PlainSpaces(Builds), Generated, NextWalk
    PROVE  Generated'
<1>1. /\ pending = << >> /\ stage \in WalkStages
      /\ \/ /\ stage' = "build" /\ commands' = Tail(commands) /\ pending' = pending
         \/ /\ stage' \in WalkStages /\ commands' = commands /\ pending' = Start
      /\ schema' = schema /\ build' = build /\ header' = header /\ source' = source
  BY WalkEnds
<1>2. commands # << >> /\ Parses /\ ToSet(Current.pipes) \subseteq Supported
  BY <1>1 DEF Generated, WalkUnderWay
<1>3. \A f \in Defined : \A g \in DOMAIN schema : FunctionOf(f.scope, f.op, f.pipe, g) \in Defined
  <2> SUFFICES ASSUME NEW f \in Defined, NEW g \in DOMAIN schema
               PROVE  FunctionOf(f.scope, f.op, f.pipe, g) \in Defined
    OBVIOUS
  <2>1. DOMAIN pending = {}
    BY <1>1
  <2>2. f.op \in Op
    BY DefinedTyped
  <2> QED
    BY <2>1, <2>2 DEF Generated, Complete, WalkCovers
<1>4. Complete'
  <2>1. Defined' = Defined
    BY <1>1 DEF Defined
  <2> QED
    BY <1>1, <1>3, <2>1 DEF Complete
<1>5. FilesTyped'
  BY <1>1, SameDefinitions DEF Generated, FilesTyped
<1>6. CASE stage' = "build" /\ commands' = Tail(commands) /\ pending' = pending
  <2>1. stage' \notin WalkStages /\ stage' \in Stages
    BY <1>6 DEF WalkStages, Stages
  <2>2. CommandsLeft'
    <3>1. build \in Seq(AnyCommand)
      BY BuildAssumption DEF Generated, AnyCommand
    <3> QED
      BY <1>1, <1>2, <1>6, <3>1, CommandsTail DEF Generated
  <2>3. WalkUnderWay'
    BY <1>1, <1>6, <2>1 DEF WalkUnderWay
  <2>4. WalkCovers'
    BY <1>6, <2>1, SourceStages DEF WalkCovers
  <2> QED
    BY <1>1, <1>4, <1>5, <2>1, <2>2, <2>3, <2>4 DEF Generated
<1>7. CASE stage' \in WalkStages /\ commands' = commands /\ pending' = Start
  <2>1. stage' \in Stages
    BY <1>7, SourceStages
  <2>2. CommandsLeft'
    BY <1>1, <1>7 DEF Generated, CommandsLeft
  <2>3. Current' = Current /\ (Visits1(Current.space))' = Visits1(Current.space) /\ Parses'
    BY <1>1, <1>2, <1>7 DEF Current, Visits1, Parses
  <2>4. WalkUnderWay'
    BY <1>2, <1>7, <2>3, StartFacts DEF WalkUnderWay
  <2>5. WalkCovers'
    BY <1>1, <1>2, <1>7, StartFacts DEF WalkCovers, Under
  <2> QED
    BY <1>1, <1>4, <1>5, <2>1, <2>2, <2>4, <2>5 DEF Generated
<1> QED
  BY <1>1, <1>6, <1>7

(* What the build does besides walking, and what the program does.         *)
LEMMA OtherSteps ==
    ASSUME Generated,
           \/ Refuse \/ GenerateNothing \/ Compile \/ Execute \/ Return \/ ReadBack \/ Finish
    PROVE  Generated'
<1>1. /\ stage \in {"build", "write", "read"}
      /\ stage' \in {"build", "write", "read", "failed", "unused", "rejected", "done"}
      /\ schema' = schema /\ build' = build /\ header' = header /\ source' = source
      /\ pending' = pending
      /\ commands' = commands \/ (commands # << >> /\ commands' = Tail(commands))
  <2>1. CASE Refuse
    BY <2>1 DEF Refuse, AtCommand, files
  <2>2. CASE GenerateNothing
    BY <2>2 DEF GenerateNothing, AtCommand, files
  <2>3. CASE Compile
    BY <2>3 DEF Compile, files
  <2>4. CASE Execute
    BY <2>4 DEF Execute, files, Op
  <2>5. CASE Return
    BY <2>5 DEF Return, files, Op
  <2>6. CASE ReadBack
    BY <2>6 DEF ReadBack, files
  <2>7. CASE Finish
    BY <2>7 DEF Finish, files
  <2> QED
    BY <2>1, <2>2, <2>3, <2>4, <2>5, <2>6, <2>7
<1>2. stage \notin WalkStages
  BY <1>1 DEF WalkStages
<1>3. stage' \in Stages \ WalkStages
  <2>1. {"build", "write", "read", "failed", "unused", "rejected", "done"} \subseteq Stages
    BY DEF Stages
  <2> QED
    BY <1>1, <2>1 DEF WalkStages
<1> QED
  BY <1>1, <1>2, <1>3, FilesStay

(* Whatever is generated keeps to this, for every schema and every build.  *)
LEMMA AlwaysGenerated ==
    ASSUME PlainSpaces(Builds)
    PROVE  Spec => []Generated
<1>1. ASSUME Init
      PROVE  Generated
  <2>1. /\ schema \in Schemas /\ build \in Builds /\ commands = build /\ stage = "build"
        /\ pending = << >> /\ source = << >>
        /\ header = [pipes |-> {}, structs |-> << >>, functions |-> {}]
    BY <1>1 DEF Init
  <2>2. stage \in Stages /\ stage \notin WalkStages
    BY <2>1 DEF Stages, WalkStages
  <2>3. CommandsLeft
    <3>1. build \in Seq(AnyCommand)
      BY <2>1, BuildAssumption DEF AnyCommand
    <3>2. Len(build) \in Nat /\ \A i \in 1 .. Len(build) : Len(build) - Len(build) + i = i
      BY <3>1
    <3> QED
      BY <2>1, <3>1, <3>2 DEF CommandsLeft
  <2>4. WalkUnderWay
    BY <2>1, <2>2 DEF WalkUnderWay
  <2>5. FilesTyped
    <3>1. << >> \in Seq(AnyDefinition)
      BY EmptySeq
    <3> QED
      BY <2>1, <3>1 DEF FilesTyped
  <2>6. Defined = {}
    BY <2>1 DEF Defined
  <2>7. WalkCovers /\ Complete
    BY <2>2, <2>6, SourceStages DEF WalkCovers, Complete
  <2> QED
    BY <2>1, <2>2, <2>3, <2>4, <2>5, <2>7 DEF Generated
<1>2. ASSUME Generated, [Next]_vars
      PROVE  Generated'
  <2>1. ASSUME NEW target \in Target, Generate(target)
        PROVE  Generated'
    BY <1>2, <2>1, GenerateStep
  <2>2. CASE DumpStruct
    BY <1>2, <2>2, DumpStructStep
  <2>3. ASSUME NEW op \in Op, Declare(op) \/ Define(op)
        PROVE  Generated'
    BY <1>2, <2>3, DeclareStep, DefineStep
  <2>4. CASE NextWalk
    BY <1>2, <2>4, NextWalkStep
  <2>5. CASE Refuse \/ GenerateNothing \/ Compile \/ Execute \/ Return \/ ReadBack \/ Finish
    BY <1>2, <2>5, OtherSteps
  <2>6. CASE UNCHANGED vars
    <3>1. /\ schema' = schema /\ build' = build /\ header' = header /\ source' = source
          /\ pending' = pending /\ commands' = commands /\ stage' = stage
      BY <2>6 DEF vars, files
    <3>2. (Defined' = Defined) /\ (Current' = Current)
          /\ (Visits1(Current.space))' = Visits1(Current.space) /\ (Parses <=> Parses')
      BY <3>1 DEF Defined, Current, Visits1, Parses
    <3>3. CommandsLeft' /\ WalkUnderWay'
      BY <1>2, <3>1, <3>2 DEF Generated, CommandsLeft, WalkUnderWay
    <3>4. FilesTyped'
      BY <1>2, <3>1, SameDefinitions DEF Generated, FilesTyped
    <3>5. WalkCovers' /\ Complete'
      BY <1>2, <3>1, <3>2 DEF Generated, WalkCovers, Complete
    <3> QED
      BY <1>2, <3>1, <3>3, <3>4, <3>5 DEF Generated
  <2> QED
    BY <1>2, <2>1, <2>2, <2>3, <2>4, <2>5, <2>6 DEF Next
<1> QED
  BY <1>1, <1>2, PTL DEF Spec

-----------------------------------------------------------------------------
(***************************************************************************)
(* The functions of the generated program.  A function is that of one      *)
(* group, and its statements are the fields and the calls of that group.   *)
(* A call that resolves names the plain namespace, so that it is made in   *)
(* the function of the root: what it calls makes no further call.          *)
(***************************************************************************)
AnyField == UNION {ToSet(FieldsOf(g)) : g \in DOMAIN schema}
AnyCall == {Function(space, op, pipe, struct) :
              space \in Seq(Name), op \in Op, pipe \in Supported, struct \in Seq(Name)}
IsFunctionOf(f, group) == f = FunctionOf(f.scope, f.op, f.pipe, group)
CallsIn(f, group) == CallsOf(f.scope, group, f.op, f.pipe)

LEMMA FieldsFacts ==
    ASSUME schema \in Schemas, NEW g \in DOMAIN schema
    PROVE  /\ FieldsOf(g) \in Seq(AnyField) /\ Len(FieldsOf(g)) = Len(Vars(g))
           /\ Len(FieldsOf(g)) \in Nat /\ DOMAIN FieldsOf(g) = DOMAIN Vars(g)
           /\ DOMAIN FieldsOf(g) = 1 .. Len(FieldsOf(g))
           /\ \A i \in DOMAIN FieldsOf(g) :
                 FieldsOf(g)[i] = Field(Append(g, Vars(g)[i].name), Vars(g)[i])
<1> DEFINE f == FieldsOf(g)
           n == Len(Vars(g))
           S == ToSet(f)
<1>1. Vars(g) \in Seq([name : STRING, type : STRING, rank : Nat])
  BY GroupFacts
<1>2. DOMAIN Vars(g) = 1 .. n /\ n \in Nat
  BY <1>1
<1>3. /\ DOMAIN f = DOMAIN Vars(g)
      /\ \A i \in DOMAIN f : f[i] = Field(Append(g, Vars(g)[i].name), Vars(g)[i])
  BY DEF FieldsOf
<1>4. f = [i \in 1 .. n |-> f[i]]
  BY <1>2 DEF FieldsOf
<1>5. \A i \in 1 .. n : f[i] \in S
  BY <1>2, <1>3 DEF ToSet
<1> HIDE DEF f, n, S
<1>6. f \in Seq(S) /\ Len(f) = n
  BY <1>2, <1>4, <1>5
<1>7. S \subseteq AnyField
  BY DEF S, f, AnyField
<1>8. f \in Seq(AnyField)
  BY <1>6, <1>7, SeqMonotonic
<1> QED
  BY <1>2, <1>3, <1>6, <1>8 DEF f, n

LEMMA CallsFacts ==
    ASSUME schema \in Schemas, NEW g \in DOMAIN schema, NEW space \in Seq(Name),
           NEW op \in Op, NEW pipe \in Supported
    PROVE  /\ CallsOf(space, g, op, pipe) \in Seq(AnyCall)
           /\ Len(CallsOf(space, g, op, pipe)) = Len(SubNames(g)) /\ Len(SubNames(g)) \in Nat
           /\ DOMAIN CallsOf(space, g, op, pipe) = DOMAIN SubNames(g)
           /\ DOMAIN SubNames(g) = 1 .. Len(SubNames(g))
           /\ \A i \in DOMAIN SubNames(g) : CallsOf(space, g, op, pipe)[i] =
                 Function(SpaceOf(space, g), op, pipe, Path(space, Sub(g, i)))
<1> DEFINE c == CallsOf(space, g, op, pipe)
           n == Len(SubNames(g))
<1>1. g \in Seq(Name) /\ n \in Nat /\ DOMAIN SubNames(g) = 1 .. n
      /\ \A i \in DOMAIN SubNames(g) : Sub(g, i) \in Seq(Name)
  BY GroupFacts
<1>2. SpaceOf(space, g) \in Seq(Name)
  <2>1. CASE g = << >>
    BY <2>1 DEF SpaceOf
  <2>2. CASE g # << >>
    BY <1>1, <2>2, FrontLast, PathIs DEF SpaceOf
  <2> QED
    BY <2>1, <2>2
<1>3. \A i \in DOMAIN SubNames(g) : Path(space, Sub(g, i)) \in Seq(Name)
  BY <1>1, PathIs
<1>4. \A i \in 1 .. n : Function(SpaceOf(space, g), op, pipe, Path(space, Sub(g, i))) \in AnyCall
  BY <1>1, <1>2, <1>3 DEF AnyCall
<1>5. /\ c = [i \in 1 .. n |-> Function(SpaceOf(space, g), op, pipe, Path(space, Sub(g, i)))]
  BY <1>1 DEF CallsOf
<1> HIDE DEF c, n
<1>6. c \in Seq(AnyCall) /\ Len(c) = n
  BY <1>1, <1>4, <1>5
<1> QED
  BY <1>1, <1>5, <1>6 DEF c, n

LEMMA BodyFacts ==
    ASSUME Generated, NEW f \in Defined
    PROVE  \E g \in DOMAIN schema :
              IsFunctionOf(f, g) /\ BodyOf(f) = FieldsOf(g) \o CallsIn(f, g)
<1> DEFINE i == CHOOSE i \in DOMAIN source : source[i].function = f
<1>1. i \in DOMAIN source /\ source[i].function = f
  BY DEF Defined
<1>2. BodyOf(f) = source[i].body
  BY DEF BodyOf
<1> HIDE DEF i
<1>3. source[i] \in AnyDefinition
  BY <1>1 DEF Generated, FilesTyped
<1>4. PICK space \in Plain, op \in Op, pipe \in Supported, g \in DOMAIN schema :
          source[i] = DefinitionOf(space, op, pipe, g)
  BY <1>3 DEF AnyDefinition
<1>5. f = FunctionOf(space, op, pipe, g) /\ BodyOf(f) = FieldsOf(g) \o CallsOf(space, g, op, pipe)
  BY <1>1, <1>2, <1>4 DEF DefinitionOf
<1>6. f.scope = space /\ f.op = op /\ f.pipe = pipe
  BY <1>5 DEF FunctionOf, Function
<1> QED
  BY <1>5, <1>6 DEF IsFunctionOf, CallsIn

LEMMA BodyOfGroup ==
    ASSUME Generated, NEW f \in Defined, NEW g \in DOMAIN schema, IsFunctionOf(f, g)
    PROVE  BodyOf(f) = FieldsOf(g) \o CallsIn(f, g)
<1>1. PICK h \in DOMAIN schema : IsFunctionOf(f, h) /\ BodyOf(f) = FieldsOf(h) \o CallsIn(f, h)
  BY BodyFacts
<1>2. f.struct = Path(f.scope, g) /\ f.struct = Path(f.scope, h)
  BY <1>1 DEF IsFunctionOf, FunctionOf, Function
<1>3. f.scope \in Seq(Name) /\ g \in Seq(Name) /\ h \in Seq(Name)
  BY DefinedTyped, GroupFacts DEF Generated, Plain
<1>4. g = h
  BY <1>2, <1>3, PathGroup
<1> QED
  BY <1>1, <1>4

(* When the code compiles, only the root has subgroups.                    *)
LEMMA OnlyFlat ==
    ASSUME Generated, Compiled, Defined # {}, stage \notin WalkStages,
           NEW g \in DOMAIN schema, g # << >>
    PROVE  SubNames(g) = << >>
<1>1. PICK e \in Defined : TRUE
  OBVIOUS
<1> DEFINE f == FunctionOf(e.scope, e.op, e.pipe, g)
<1>2. f \in Defined
  BY <1>1, DefinedTyped, SourceStages DEF Generated, Complete
<1>3. f.scope = e.scope /\ f.op = e.op /\ f.pipe = e.pipe /\ IsFunctionOf(f, g)
  BY DEF FunctionOf, Function, IsFunctionOf
<1>4. e.scope \in Plain /\ e.scope \in Seq(Name) /\ e.op \in Op /\ e.pipe \in Supported
  BY <1>1, DefinedTyped DEF Plain
<1> HIDE DEF f
<1>5. BodyOf(f) = FieldsOf(g) \o CallsIn(f, g)
  BY <1>2, <1>3, BodyOfGroup
<1> DEFINE s == FieldsOf(g)
           c == CallsIn(f, g)
           n == Len(SubNames(g))
<1>6. SUFFICES ASSUME SubNames(g) # << >>
               PROVE  FALSE
  OBVIOUS
<1>7. n \in Nat \ {0}
  BY <1>6, GroupFacts DEF Generated
<1>8. /\ c \in Seq(AnyCall) /\ Len(c) = n /\ 1 \in DOMAIN SubNames(g)
      /\ c[1] = Function(SpaceOf(f.scope, g), f.op, f.pipe, Path(f.scope, Sub(g, 1)))
  <2>1. 1 \in DOMAIN SubNames(g)
    BY <1>7, GroupFacts DEF Generated
  <2> QED
    BY <1>3, <1>4, <2>1, CallsFacts DEF Generated, CallsIn
<1>9. s \in Seq(AnyField) /\ Len(s) \in Nat
  BY FieldsFacts DEF Generated
<1>10. BodyOf(f) = s \o c
  BY <1>5
<1> HIDE DEF s, c, n
<1>11. Len(s) + 1 \in DOMAIN (s \o c) /\ (s \o c)[Len(s) + 1] = c[1]
  BY <1>7, <1>8, <1>9
<1>12. Resolves(f, c[1])
  BY <1>2, <1>10, <1>11 DEF Compiled
<1>13. c[1] \in header.functions
  BY <1>8, <1>12 DEF Resolves, IsCall, Function
<1>14. c[1].scope \in Plain
  <2>1. c[1] \in AnyFunction
    BY <1>13 DEF Generated, FilesTyped
  <2> QED
    BY <2>1 DEF AnyFunction, Function
<1>15. SpaceOf(f.scope, g) \in Plain
  BY <1>8, <1>14 DEF Function
<1>16. Len(Path(e.scope, Front(g))) = 2 + Len(Front(g)) /\ Len(Front(g)) \in Nat
  <2>1. g \in Seq(Name)
    BY GroupFacts DEF Generated
  <2>2. Front(g) \in Seq(Name)
    BY <2>1, FrontLast
  <2>3. Len(e.scope) = 1
    BY <1>4 DEF Plain
  <2>4. Len(Path(e.scope, Front(g))) = Len(e.scope) + 1 + Len(Front(g)) /\ Len(Front(g)) \in Nat
    BY <1>4, <2>2, PathIs, Zenon
  <2> QED
    BY <2>3, <2>4
<1>17. SpaceOf(f.scope, g) = Path(e.scope, Front(g))
  BY <1>3 DEF SpaceOf
<1>18. Len(Path(e.scope, Front(g))) = 1
  BY <1>15, <1>17 DEF Plain
<1> QED
  BY <1>16, <1>18

(* What a function of a compiled program calls.                            *)
LEMMA CalleeFacts ==
    ASSUME Generated, Compiled, stage \notin WalkStages, NEW f \in Defined,
           NEW g \in DOMAIN schema, IsFunctionOf(f, g), NEW i \in DOMAIN SubNames(g)
    PROVE  /\ CallsIn(f, g)[i] = FunctionOf(f.scope, f.op, f.pipe, Sub(g, i))
           /\ CallsIn(f, g)[i] \in Defined /\ IsCall(CallsIn(f, g)[i])
           /\ BodyOf(CallsIn(f, g)[i]) = FieldsOf(Sub(g, i))
<1> DEFINE h == Sub(g, i)
           c == FunctionOf(f.scope, f.op, f.pipe, h)
<1>1. g = << >>
  <2>1. SubNames(g) # << >>
    BY GroupFacts DEF Generated
  <2> QED
    BY <2>1, OnlyFlat
<1>2. /\ h \in DOMAIN schema /\ h \in Seq(Name) /\ h # << >>
  <2>1. h \in DOMAIN schema /\ g \in Seq(Name) /\ SubNames(g)[i] \in Name
    BY GroupFacts DEF Generated
  <2>2. h \in Seq(Name)
    BY <2>1, GroupFacts DEF Generated
  <2> QED
    BY <2>1, <2>2, AppendIs DEF Sub
<1>3. f.scope \in Plain /\ f.scope \in Seq(Name) /\ f.op \in Op /\ f.pipe \in Supported
  BY DefinedTyped DEF Plain
<1>4. CallsIn(f, g)[i] = Function(SpaceOf(f.scope, g), f.op, f.pipe, Path(f.scope, h))
  BY <1>3, CallsFacts DEF Generated, CallsIn
<1>5. CallsIn(f, g)[i] = c
  BY <1>1, <1>4 DEF SpaceOf, FunctionOf
<1>6. c \in Defined
  BY <1>2, <1>3, SourceStages DEF Generated, Complete
<1>7. IsCall(c) /\ IsFunctionOf(c, h)
  BY DEF IsCall, IsFunctionOf, FunctionOf, Function
<1>8. c.scope = f.scope /\ c.op = f.op /\ c.pipe = f.pipe
  BY DEF FunctionOf, Function
<1> HIDE DEF c
<1>9. BodyOf(c) = FieldsOf(h) \o CallsIn(c, h)
  BY <1>2, <1>6, <1>7, BodyOfGroup
<1>10. CallsIn(c, h) = << >>
  <2>1. SubNames(h) = << >>
    BY <1>2, OnlyFlat
  <2>2. CallsIn(c, h) \in Seq(AnyCall) /\ Len(CallsIn(c, h)) = 0
    BY <1>2, <1>3, <1>8, <2>1, CallsFacts DEF Generated, CallsIn
  <2> QED
    BY <2>2
<1>11. BodyOf(c) = FieldsOf(h)
  <2>1. FieldsOf(h) \in Seq(AnyField)
    BY <1>2, FieldsFacts DEF Generated
  <2> QED
    BY <1>9, <1>10, <2>1, ConcatEmptySeq
<1> QED
  BY <1>5, <1>6, <1>7, <1>11 DEF c

-----------------------------------------------------------------------------
(***************************************************************************)
(* What is left of a sequence after its first i elements, and stacks of at *)
(* most three of them.                                                     *)
(***************************************************************************)
Left(s, i) == SubSeq(s, i + 1, Len(s))

LEMMA LeftFacts ==
    ASSUME NEW S, NEW s \in Seq(S), NEW i \in 0 .. Len(s)
    PROVE  /\ Left(s, 0) = s
           /\ Left(s, i) = << >> <=> i = Len(s)
           /\ i # Len(s) => /\ Head(Left(s, i)) = s[i + 1] /\ i + 1 \in 1 .. Len(s)
                            /\ Tail(Left(s, i)) = Left(s, i + 1)
<1> DEFINE n == Len(s)
           t == Left(s, i)
           u == Left(s, i + 1)
<1>1. n \in Nat /\ i \in Nat /\ i <= n
  OBVIOUS
<1>2. t \in Seq(S) /\ Len(t) = n - i /\ \A m \in 1 .. n - i : t[m] = s[i + m]
  BY <1>1 DEF Left
<1>3. Left(s, 0) \in Seq(S) /\ Len(Left(s, 0)) = n /\ \A m \in 1 .. n : Left(s, 0)[m] = s[m]
  BY <1>1 DEF Left
<1>4. Left(s, 0) = s
  BY <1>3, SeqEqual
<1>5. i # n => u \in Seq(S) /\ Len(u) = n - (i + 1) /\ \A m \in 1 .. n - (i + 1) : u[m] = s[i + 1 + m]
  BY <1>1 DEF Left
<1> HIDE DEF t, u
<1>6. t = << >> <=> i = n
  BY <1>1, <1>2
<1>7. ASSUME i # n
      PROVE  Head(t) = s[i + 1] /\ i + 1 \in 1 .. n /\ Tail(t) = u
  <2>1. t # << >> /\ 1 \in 1 .. n - i
    BY <1>1, <1>2, <1>6, <1>7
  <2>2. Head(t) = t[1] /\ Tail(t) \in Seq(S) /\ Len(Tail(t)) = n - i - 1
        /\ \A m \in 1 .. Len(Tail(t)) : Tail(t)[m] = t[m + 1]
    BY <1>1, <1>2, <2>1, HeadTailProperties
  <2>3. ASSUME NEW m \in 1 .. Len(Tail(t))
        PROVE  Tail(t)[m] = u[m]
    <3>1. m + 1 \in 1 .. n - i /\ m \in 1 .. n - (i + 1) /\ i + (m + 1) = i + 1 + m
      BY <1>1, <2>2
    <3> QED
      BY <1>2, <1>5, <1>7, <2>2, <3>1
  <2>4. Len(Tail(t)) = Len(u) /\ u \in Seq(S)
    BY <1>1, <1>5, <1>7, <2>2
  <2>5. Tail(t) = u
    BY <2>2, <2>3, <2>4, SeqEqual
  <2> QED
    BY <1>1, <1>2, <1>7, <2>1, <2>2, <2>5
<1> QED
  BY <1>4, <1>6, <1>7 DEF t, u

LEMMA PairIs ==
    ASSUME NEW x, NEW y
    PROVE  Append(<< x >>, y) = << x, y >>
<1> DEFINE S == {x, y}
           a == << x >>
           d == << x, y >>
           u == Append(a, y)
<1>1. /\ a \in Seq(S) /\ Len(a) = 1 /\ a[1] = x /\ y \in S
      /\ d \in Seq(S) /\ Len(d) = 2 /\ d[1] = x /\ d[2] = y
  OBVIOUS
<1> HIDE DEF S, a, d
<1>2. u \in Seq(S) /\ Len(u) = Len(a) + 1 /\ u[Len(a) + 1] = y
  BY <1>1, AppendIs
<1>3. \A i \in 1 .. Len(a) : u[i] = a[i]
  <2>1. a \in Seq(S) /\ y \in S
    BY <1>1
  <2> QED
    BY <2>1, AppendIs
<1> HIDE DEF u
<1>4. u[1] = d[1] /\ u[2] = d[2] /\ Len(u) = Len(d)
  BY <1>1, <1>2, <1>3
<1>5. \A i \in 1 .. Len(u) : i = 1 \/ i = 2
  BY <1>1, <1>4
<1>6. \A i \in 1 .. Len(u) : u[i] = d[i]
  BY <1>4, <1>5
<1> QED
  BY <1>1, <1>2, <1>4, <1>6, SeqEqual DEF a, d, u

LEMMA TripleIs ==
    ASSUME NEW x, NEW y, NEW z
    PROVE  Append(<< x, y >>, z) = << x, y, z >>
<1> DEFINE S == {x, y, z}
           a == << x, y >>
           d == << x, y, z >>
           u == Append(a, z)
<1>1. /\ a \in Seq(S) /\ Len(a) = 2 /\ a[1] = x /\ a[2] = y /\ z \in S
      /\ d \in Seq(S) /\ Len(d) = 3 /\ d[1] = x /\ d[2] = y /\ d[3] = z
  OBVIOUS
<1> HIDE DEF S, a, d
<1>2. u \in Seq(S) /\ Len(u) = Len(a) + 1 /\ u[Len(a) + 1] = z
  BY <1>1, AppendIs
<1>3. \A i \in 1 .. Len(a) : u[i] = a[i]
  <2>1. a \in Seq(S) /\ z \in S
    BY <1>1
  <2> QED
    BY <2>1, AppendIs
<1> HIDE DEF u
<1>4. u[1] = d[1] /\ u[2] = d[2] /\ u[3] = d[3] /\ Len(u) = Len(d)
  BY <1>1, <1>2, <1>3
<1>5. \A i \in 1 .. Len(u) : i = 1 \/ i = 2 \/ i = 3
  BY <1>1, <1>4
<1>6. \A i \in 1 .. Len(u) : u[i] = d[i]
  BY <1>4, <1>5
<1> QED
  BY <1>1, <1>2, <1>4, <1>6, SeqEqual DEF a, d, u

LEMMA Stack2 ==
    ASSUME NEW x, NEW y
    PROVE  << x >> \o << >> = << x >> /\ << x >> \o << y >> = << x, y >>
<1> DEFINE S == {x, y}
           a == << x >>
<1>1. a \in Seq(S) /\ x \in S /\ y \in S
  OBVIOUS
<1>2. Append(a, y) = << x, y >>
  BY PairIs
<1> HIDE DEF S, a
<1>3. a \o << >> = a /\ a \o << y >> = Append(a, y)
  BY <1>1, ConcatEmptySeq, AppendIsConcat
<1> QED
  BY <1>2, <1>3 DEF a

LEMMA Stack3 ==
    ASSUME NEW x, NEW y, NEW z
    PROVE  << x >> \o << y, z >> = << x, y, z >>
<1> DEFINE S == {x, y, z}
           a == << x >>
           b == << y >>
<1>1. a \in Seq(S) /\ b \in Seq(S) /\ x \in S /\ y \in S /\ z \in S
  OBVIOUS
<1>2. a \o b = << x, y >>
  BY Stack2
<1>3. Append(b, z) = << y, z >>
  BY PairIs
<1>4. Append(<< x, y >>, z) = << x, y, z >>
  BY TripleIs
<1> HIDE DEF S, a, b
<1>5. a \o Append(b, z) = Append(a \o b, z)
  BY <1>1
<1> QED
  BY <1>2, <1>3, <1>4, <1>5 DEF a

LEMMA Stacks ==
    ASSUME NEW x, NEW y, NEW z
    PROVE  /\ Head(<< x >>) = x /\ Tail(<< x >>) = << >> /\ << x >> # << >>
           /\ Head(<< x, y >>) = x /\ Tail(<< x, y >>) = << y >> /\ << x, y >> # << >>
           /\ Head(<< x, y, z >>) = x /\ Tail(<< x, y, z >>) = << y, z >>
           /\ << x, y, z >> # << >>
           /\ << x >> \o << >> = << x >> /\ << x >> \o << y >> = << x, y >>
           /\ << x >> \o << y, z >> = << x, y, z >>
<1>1. /\ Head(<< x >>) = x /\ Tail(<< x >>) = << >> /\ << x >> # << >>
      /\ Head(<< x, y >>) = x /\ << x, y >> # << >>
      /\ Head(<< x, y, z >>) = x /\ << x, y, z >> # << >>
  OBVIOUS
<1>2. Tail(<< x, y >>) = << y >>
  OBVIOUS
<1>3. Tail(<< x, y, z >>) = << y, z >>
  OBVIOUS
<1>4. << x >> \o << >> = << x >> /\ << x >> \o << y >> = << x, y >>
  BY Stack2
<1>5. << x >> \o << y, z >> = << x, y, z >>
  BY Stack3
<1> QED
  BY <1>1, <1>2, <1>3, <1>4, <1>5

(***************************************************************************)
(* A sequence t of fields is laid out in blocks b, from 0 on: the block i  *)
(* begins after position at[i], each begins where the one before it ends,  *)
(* and t ends after the j-th field of the block k.                         *)
(***************************************************************************)
Extent(b, k, j, i) == IF i < k THEN Len(b[i]) ELSE j
Laid(b, t, at, k, j) ==
    /\ at[0] = 0
    /\ \A i \in 0 .. k - 1 : at[i + 1] = at[i] + Len(b[i])
    /\ Len(t) = at[k] + j
    /\ \A i \in 0 .. k : at[i] + Extent(b, k, j, i) <= Len(t)
    /\ \A i \in 0 .. k : \A m \in 1 .. Extent(b, k, j, i) : t[at[i] + m] = b[i][m]
    /\ \A x \in 1 .. Len(t) : \E i \in 0 .. k : \E m \in 1 .. Extent(b, k, j, i) : x = at[i] + m

LEMMA LaidStart ==
    ASSUME NEW b, NEW at \in [Nat -> Nat], at[0] = 0
    PROVE  Laid(b, << >>, at, 0, 0)
<1>1. \A i \in 0 .. 0 : i = 0 /\ Extent(b, 0, 0, i) = 0
  BY DEF Extent
<1>2. Len(<< >>) = 0 /\ 0 .. 0 - 1 = {} /\ 1 .. 0 = {}
  OBVIOUS
<1> QED
  BY <1>1, <1>2 DEF Laid

(* The blocks and the positions up to the block k, and one more element.   *)
Sized(b, at, k) == \A i \in 0 .. k : Len(b[i]) \in Nat /\ at[i] \in Nat
OneMore(t, u, x) ==
    /\ Len(t) \in Nat /\ Len(u) = Len(t) + 1
    /\ u[Len(t) + 1] = x /\ \A y \in 1 .. Len(t) : u[y] = t[y]

LEMMA ExtentFacts ==
    ASSUME NEW b, NEW at, NEW k \in Nat, NEW j \in Nat, Sized(b, at, k), NEW i \in 0 .. k
    PROVE  /\ Extent(b, k, j, i) \in Nat
           /\ i # k => Extent(b, k, j, i) = Len(b[i])
           /\ i = k => Extent(b, k, j, i) = j
           /\ at[i] \in Nat /\ Len(b[i]) \in Nat
  BY DEF Extent, Sized

LEMMA LaidNext ==
    ASSUME NEW b, NEW t, NEW u, NEW at, NEW k \in Nat, NEW j \in Nat,
           Sized(b, at, k), OneMore(t, u, b[k][j + 1]), Laid(b, t, at, k, j)
    PROVE  Laid(b, u, at, k, j + 1)
<1> DEFINE old(i) == Extent(b, k, j, i)
           new(i) == Extent(b, k, j + 1, i)
<1>1. \A i \in 0 .. k : /\ old(i) \in Nat /\ at[i] \in Nat
                        /\ i # k => new(i) = old(i)
                        /\ i = k => old(i) = j /\ new(i) = j + 1
  <2> SUFFICES ASSUME NEW i \in 0 .. k
               PROVE  /\ old(i) \in Nat /\ at[i] \in Nat
                      /\ i # k => new(i) = old(i)
                      /\ i = k => old(i) = j /\ new(i) = j + 1
    OBVIOUS
  <2>1. j + 1 \in Nat
    OBVIOUS
  <2>2. /\ old(i) \in Nat /\ at[i] \in Nat
        /\ (i # k => old(i) = Len(b[i])) /\ (i = k => old(i) = j)
    BY ExtentFacts
  <2>3. (i # k => new(i) = Len(b[i])) /\ (i = k => new(i) = j + 1)
    BY <2>1, ExtentFacts
  <2> QED
    BY <2>2, <2>3
<1>2. /\ at[0] = 0 /\ \A i \in 0 .. k - 1 : at[i + 1] = at[i] + Len(b[i])
      /\ Len(t) = at[k] + j
  BY DEF Laid
<1>3. /\ \A i \in 0 .. k : at[i] + old(i) <= Len(t)
      /\ \A i \in 0 .. k : \A m \in 1 .. old(i) : t[at[i] + m] = b[i][m]
      /\ \A y \in 1 .. Len(t) : \E i \in 0 .. k : \E m \in 1 .. old(i) : y = at[i] + m
  BY DEF Laid
<1>4. Len(t) \in Nat /\ Len(u) = Len(t) + 1
  BY DEF OneMore
<1> HIDE DEF old, new
<1>5. k \in 0 .. k /\ old(k) = j /\ new(k) = j + 1 /\ at[k] \in Nat
  BY <1>1
<1>6. ASSUME NEW i \in 0 .. k
      PROVE  at[i] + new(i) <= Len(u)
  <2>1. at[i] + old(i) <= Len(t) /\ at[i] \in Nat /\ old(i) \in Nat
    BY <1>1, <1>3
  <2>2. new(i) = old(i) \/ new(i) = old(i) + 1
    BY <1>1
  <2> QED
    BY <1>4, <2>1, <2>2
<1>7. ASSUME NEW i \in 0 .. k, NEW m \in 1 .. new(i)
      PROVE  u[at[i] + m] = b[i][m]
  <2>1. at[i] + old(i) <= Len(t) /\ at[i] \in Nat /\ old(i) \in Nat
    BY <1>1, <1>3
  <2>2. CASE m \in 1 .. old(i)
    <3>1. at[i] + m \in 1 .. Len(t)
      BY <1>4, <2>1, <2>2
    <3>2. u[at[i] + m] = t[at[i] + m]
      BY <3>1 DEF OneMore
    <3> QED
      BY <1>3, <2>2, <3>2
  <2>3. CASE m \notin 1 .. old(i)
    <3>1. i = k
      BY <1>1, <2>3
    <3>2. m = j + 1
      BY <1>5, <2>3, <3>1
    <3>3. at[i] + m = Len(t) + 1
      <4>1. Len(t) = at[k] + j
        BY <1>2
      <4>2. at[k] + (j + 1) = Len(t) + 1
        BY <1>5, <4>1
      <4> QED
        BY <3>1, <3>2, <4>2
    <3> QED
      BY <3>1, <3>2, <3>3 DEF OneMore
  <2> QED
    BY <2>2, <2>3
<1>8. ASSUME NEW y \in 1 .. Len(u)
      PROVE  \E i \in 0 .. k : \E m \in 1 .. new(i) : y = at[i] + m
  <2>1. CASE y \in 1 .. Len(t)
    <3>1. PICK i \in 0 .. k : \E m \in 1 .. old(i) : y = at[i] + m
      BY <1>3, <2>1
    <3>2. PICK m \in 1 .. old(i) : y = at[i] + m
      BY <3>1
    <3>3. m \in 1 .. new(i)
      BY <1>1
    <3> QED
      BY <3>2, <3>3
  <2>2. CASE y \notin 1 .. Len(t)
    <3>1. y = at[k] + (j + 1)
      BY <1>2, <1>4, <1>5, <2>2
    <3>2. j + 1 \in 1 .. new(k)
      BY <1>5
    <3> QED
      BY <1>5, <3>1, <3>2
  <2> QED
    BY <2>1, <2>2
<1>9. Len(u) = at[k] + (j + 1)
  BY <1>2, <1>4, <1>5
<1> QED
  BY <1>2, <1>6, <1>7, <1>8, <1>9 DEF Laid, new

LEMMA LaidBlock ==
    ASSUME NEW b, NEW t, NEW at, NEW k \in Nat, Sized(b, at, k + 1), Len(t) \in Nat,
           at[k + 1] = at[k] + Len(b[k]), Laid(b, t, at, k, Len(b[k]))
    PROVE  Laid(b, t, at, k + 1, 0)
<1> DEFINE old(i) == Extent(b, k, Len(b[k]), i)
           new(i) == Extent(b, k + 1, 0, i)
<1>1. /\ at[0] = 0 /\ \A i \in 0 .. k - 1 : at[i + 1] = at[i] + Len(b[i])
      /\ Len(t) = at[k] + Len(b[k])
  BY DEF Laid
<1>2. /\ \A i \in 0 .. k : at[i] + old(i) <= Len(t)
      /\ \A i \in 0 .. k : \A m \in 1 .. old(i) : t[at[i] + m] = b[i][m]
      /\ \A y \in 1 .. Len(t) : \E i \in 0 .. k : \E m \in 1 .. old(i) : y = at[i] + m
  BY DEF Laid
<1>3. \A i \in 0 .. k : i \in 0 .. k + 1 /\ old(i) = Len(b[i]) /\ new(i) = Len(b[i])
  BY DEF Extent
<1>4. new(k + 1) = 0 /\ k + 1 \in 0 .. k + 1
  BY DEF Extent
<1> HIDE DEF old, new
<1>5. \A i \in 0 .. k + 1 : i \in 0 .. k \/ i = k + 1
  OBVIOUS
<1>6. \A i \in 0 .. (k + 1) - 1 : at[i + 1] = at[i] + Len(b[i])
  <2>1. \A i \in 0 .. (k + 1) - 1 : i \in 0 .. k - 1 \/ i = k
    OBVIOUS
  <2> QED
    BY <1>1, <2>1
<1>7. Len(t) = at[k + 1] + 0 /\ at[k + 1] \in Nat
  BY <1>1, <1>4 DEF Sized
<1>8. \A i \in 0 .. k + 1 : at[i] + new(i) <= Len(t)
  <2>1. at[k + 1] + new(k + 1) <= Len(t)
    BY <1>4, <1>7
  <2> QED
    BY <1>2, <1>3, <1>5, <2>1
<1>9. \A i \in 0 .. k + 1 : \A m \in 1 .. new(i) : t[at[i] + m] = b[i][m]
  <2>1. 1 .. new(k + 1) = {}
    BY <1>4
  <2> QED
    BY <1>2, <1>3, <1>5, <2>1
<1>10. \A y \in 1 .. Len(t) : \E i \in 0 .. k + 1 : \E m \in 1 .. new(i) : y = at[i] + m
  BY <1>2, <1>3
<1> QED
  BY <1>1, <1>6, <1>7, <1>8, <1>9, <1>10 DEF Laid, new

LEMMA LaidChange ==
    ASSUME NEW b, NEW t, NEW at, NEW to, NEW k \in Nat, NEW j,
           \A i \in 0 .. k : to[i] = at[i], Laid(b, t, at, k, j)
    PROVE  Laid(b, t, to, k, j)
<1>1. 0 \in 0 .. k /\ k \in 0 .. k /\ \A i \in 0 .. k - 1 : i \in 0 .. k /\ i + 1 \in 0 .. k
  OBVIOUS
<1>2. to[0] = 0 /\ Len(t) = to[k] + j /\ \A i \in 0 .. k - 1 : to[i + 1] = to[i] + Len(b[i])
  BY <1>1 DEF Laid
<1> DEFINE e(i) == Extent(b, k, j, i)
<1>3. /\ \A i \in 0 .. k : at[i] + e(i) <= Len(t)
      /\ \A i \in 0 .. k : \A m \in 1 .. e(i) : t[at[i] + m] = b[i][m]
      /\ \A x \in 1 .. Len(t) : \E i \in 0 .. k : \E m \in 1 .. e(i) : x = at[i] + m
  BY DEF Laid
<1> HIDE DEF e
<1>4. \A i \in 0 .. k : to[i] + e(i) <= Len(t)
  BY <1>3
<1>5. \A i \in 0 .. k : \A m \in 1 .. e(i) : t[to[i] + m] = b[i][m]
  BY <1>3
<1>6. \A x \in 1 .. Len(t) : \E i \in 0 .. k : \E m \in 1 .. e(i) : x = to[i] + m
  BY <1>3
<1> QED
  BY <1>2, <1>4, <1>5, <1>6 DEF Laid, e

(* All blocks, to the end of the last one.                                 *)
Whole(b, n, t, at) == Laid(b, t, at, n, Len(b[n]))

LEMMA WholeIs ==
    ASSUME NEW b, NEW t, NEW at, NEW n \in Nat, Sized(b, at, n), Len(t) \in Nat,
           Whole(b, n, t, at)
    PROVE  /\ \A i \in 0 .. n : at[i] \in Nat /\ Len(b[i]) \in Nat /\ at[i] + Len(b[i]) <= Len(t)
           /\ \A i \in 0 .. n : \A m \in 1 .. Len(b[i]) :
                 at[i] + m \in 1 .. Len(t) /\ t[at[i] + m] = b[i][m]
           /\ \A x \in 1 .. Len(t) : \E i \in 0 .. n : \E m \in 1 .. Len(b[i]) : x = at[i] + m
<1> DEFINE e(i) == Extent(b, n, Len(b[n]), i)
<1>1. \A i \in 0 .. n : e(i) = Len(b[i])
  BY DEF Extent
<1>2. /\ \A i \in 0 .. n : at[i] + e(i) <= Len(t)
      /\ \A i \in 0 .. n : \A m \in 1 .. e(i) : t[at[i] + m] = b[i][m]
      /\ \A x \in 1 .. Len(t) : \E i \in 0 .. n : \E m \in 1 .. e(i) : x = at[i] + m
  BY DEF Whole, Laid
<1> HIDE DEF e
<1>3. \A i \in 0 .. n : at[i] \in Nat /\ Len(b[i]) \in Nat /\ at[i] + Len(b[i]) <= Len(t)
  BY <1>1, <1>2 DEF Sized
<1>4. ASSUME NEW i \in 0 .. n, NEW m \in 1 .. Len(b[i])
      PROVE  at[i] + m \in 1 .. Len(t) /\ t[at[i] + m] = b[i][m]
  <2>1. at[i] \in Nat /\ Len(b[i]) \in Nat /\ at[i] + Len(b[i]) <= Len(t)
    BY <1>3
  <2>2. at[i] + m \in 1 .. Len(t)
    BY <2>1
  <2> QED
    BY <1>1, <1>2, <2>2
<1> QED
  BY <1>1, <1>2, <1>3, <1>4

LEMMA LaidSame ==
    ASSUME NEW b, NEW t, NEW w, NEW at, NEW n \in Nat, NEW k \in 0 .. n, NEW j \in Nat,
           Sized(b, at, n), Len(t) \in Nat, Len(w) \in Nat, j <= Len(b[k]),
           Laid(b, t, at, k, j), Whole(b, n, w, at)
    PROVE  Len(t) <= Len(w) /\ \A x \in 1 .. Len(t) : t[x] = w[x]
<1>1. /\ \A i \in 0 .. n : at[i] \in Nat /\ Len(b[i]) \in Nat /\ at[i] + Len(b[i]) <= Len(w)
      /\ \A i \in 0 .. n : \A m \in 1 .. Len(b[i]) : w[at[i] + m] = b[i][m]
  BY WholeIs
<1>2. Len(t) = at[k] + j
  BY DEF Laid
<1>3. at[k] \in Nat /\ Len(b[k]) \in Nat /\ at[k] + Len(b[k]) <= Len(w)
  BY <1>1
<1>4. Len(t) <= Len(w)
  BY <1>2, <1>3
<1>5. ASSUME NEW x \in 1 .. Len(t)
      PROVE  t[x] = w[x]
  <2>1. PICK i \in 0 .. k : \E m \in 1 .. Extent(b, k, j, i) : x = at[i] + m
    BY DEF Laid
  <2>2. PICK m \in 1 .. Extent(b, k, j, i) : x = at[i] + m
    BY <2>1
  <2>3. t[x] = b[i][m]
    BY <2>2 DEF Laid
  <2>4. i \in 0 .. n
    OBVIOUS
  <2>5. Len(b[i]) \in Nat
    BY <1>1, <2>4
  <2>6. m \in 1 .. Len(b[i])
    <3>1. CASE i < k
      BY <3>1 DEF Extent
    <3>2. CASE ~ (i < k)
      <4>1. i = k
        BY <3>2
      <4> QED
        BY <2>5, <3>2, <4>1 DEF Extent
    <3> QED
      BY <3>1, <3>2
  <2> QED
    BY <1>1, <2>2, <2>3, <2>4, <2>6
<1> QED
  BY <1>4, <1>5

-----------------------------------------------------------------------------
(***************************************************************************)
(* The program that runs on a group: the fields of the group itself are    *)
(* the block 0, those of its i-th subgroup the block i.                    *)
(***************************************************************************)
Count(g) == Len(SubNames(g))
GroupAt(g, k) == IF k = 0 THEN g ELSE Sub(g, k)
Blocks(g) == [k \in 0 .. Count(g) |-> FieldsOf(GroupAt(g, k))]

(* What a function f with this body makes of n + 1 blocks b.               *)
Machine(b, n, f, body) ==
    /\ n \in Nat /\ \A i \in 0 .. n : b[i] \in Seq(AnyField)
    /\ body = BodyOf(f) /\ body \in Seq(AnyField \cup AnyCall) /\ Len(body) = Len(b[0]) + n
    /\ \A m \in 1 .. Len(b[0]) : body[m] = b[0][m]
    /\ \A i \in 1 .. n : /\ IsCall(body[Len(b[0]) + i])
                         /\ BodyOf(body[Len(b[0]) + i]) = b[i]
    /\ IsCall(f) /\ \A x \in AnyField : ~ IsCall(x)

(* Where the calls under way are, when j fields of the block k are done.   *)
At(b, n, f, body, fs, k, j) ==
    \/ fs = << << f >> >> /\ k = 0 /\ j = 0
    \/ fs = << Left(body, j), << >> >> /\ k = 0
    \/ fs = << Left(b[k], j), Left(body, Len(b[0]) + k), << >> >> /\ k # 0
    \/ fs = << Left(body, Len(b[0]) + k), << >> >> /\ k # 0 /\ j = Len(b[k])
    \/ fs \in {<< << >> >>, << >>} /\ k = n /\ j = Len(b[k])

LEMMA GroupAtFacts ==
    ASSUME schema \in Schemas, NEW g \in DOMAIN schema
    PROVE  /\ Count(g) \in Nat /\ DOMAIN SubNames(g) = 1 .. Count(g)
           /\ \A k \in 0 .. Count(g) : GroupAt(g, k) \in DOMAIN schema
           /\ \A k \in 0 .. Count(g) : Blocks(g)[k] = FieldsOf(GroupAt(g, k))
           /\ \A k \in 0 .. Count(g) : Blocks(g)[k] \in Seq(AnyField) /\ Len(Blocks(g)[k]) \in Nat
<1>1. Count(g) \in Nat /\ DOMAIN SubNames(g) = 1 .. Count(g)
  BY GroupFacts DEF Count
<1>2. ASSUME NEW k \in 0 .. Count(g)
      PROVE  GroupAt(g, k) \in DOMAIN schema
  <2>1. k = 0 \/ k \in DOMAIN SubNames(g)
    BY <1>1
  <2> QED
    BY <2>1, GroupFacts DEF GroupAt
<1>3. \A k \in 0 .. Count(g) : Blocks(g)[k] = FieldsOf(GroupAt(g, k))
  BY DEF Blocks
<1>4. \A k \in 0 .. Count(g) : Blocks(g)[k] \in Seq(AnyField) /\ Len(Blocks(g)[k]) \in Nat
  BY <1>2, <1>3, FieldsFacts
<1> QED
  BY <1>1, <1>2, <1>3, <1>4

LEMMA MachineFacts ==
    ASSUME Generated, Compiled, stage \notin WalkStages, NEW g \in DOMAIN schema,
           NEW f \in Defined, IsFunctionOf(f, g)
    PROVE  Machine(Blocks(g), Count(g), f, BodyOf(f))
<1> DEFINE s == FieldsOf(g)
           c == CallsIn(f, g)
           n == Count(g)
<1>1. /\ n \in Nat /\ DOMAIN SubNames(g) = 1 .. n
      /\ \A i \in 0 .. n : Blocks(g)[i] \in Seq(AnyField) /\ Blocks(g)[i] = FieldsOf(GroupAt(g, i))
  BY GroupAtFacts DEF Generated
<1>2. Blocks(g)[0] = s /\ \A i \in 1 .. n : Blocks(g)[i] = FieldsOf(Sub(g, i))
  BY <1>1 DEF GroupAt
<1>3. s \in Seq(AnyField) /\ Len(s) \in Nat
  BY FieldsFacts DEF Generated
<1>4. c \in Seq(AnyCall) /\ Len(c) = n
  BY DefinedTyped, CallsFacts DEF Generated, CallsIn, Plain, Count
<1>5. BodyOf(f) = s \o c
  BY BodyOfGroup
<1>6. \A i \in 1 .. n : IsCall(c[i]) /\ BodyOf(c[i]) = Blocks(g)[i]
  BY <1>1, <1>2, CalleeFacts
<1>7. IsCall(f)
  BY DEF IsFunctionOf, FunctionOf, Function, IsCall
<1>8. \A x \in AnyField : ~ IsCall(x)
  <2> SUFFICES ASSUME NEW h \in DOMAIN schema, NEW i \in DOMAIN FieldsOf(h)
               PROVE  ~ IsCall(FieldsOf(h)[i])
    BY DEF AnyField, ToSet
  <2>1. FieldsOf(h)[i] = Field(Append(h, Vars(h)[i].name), Vars(h)[i])
    BY FieldsFacts DEF Generated
  <2> QED
    BY <2>1 DEF Field, IsCall
<1> HIDE DEF s, c, n
<1> DEFINE S == AnyField \cup AnyCall
<1>9. s \in Seq(S) /\ c \in Seq(S)
  <2>1. AnyField \subseteq S /\ AnyCall \subseteq S
    OBVIOUS
  <2> HIDE DEF S
  <2> QED
    BY <1>3, <1>4, <2>1, SeqMonotonic
<1> HIDE DEF S
<1>10. s \o c \in Seq(S) /\ Len(s \o c) = Len(s) + n
  BY <1>4, <1>9, ConcatIs
<1>11. ASSUME NEW i \in 1 .. Len(s)
       PROVE  (s \o c)[i] = s[i]
  BY <1>9, ConcatIs
<1>12. ASSUME NEW i \in 1 .. n
       PROVE  (s \o c)[Len(s) + i] = c[i]
  BY <1>4, <1>9, ConcatIs
<1> QED
  BY <1>1, <1>2, <1>5, <1>6, <1>7, <1>8, <1>10, <1>11, <1>12 DEF Machine, n, S

LEMMA MachineLengths ==
    ASSUME NEW b, NEW n, NEW f, NEW body, Machine(b, n, f, body), NEW k \in 0 .. n
    PROVE  /\ n \in Nat /\ k \in Nat /\ k <= n /\ b[k] \in Seq(AnyField) /\ Len(b[k]) \in Nat
           /\ b[0] \in Seq(AnyField) /\ Len(b[0]) \in Nat /\ Len(body) = Len(b[0]) + n
           /\ body \in Seq(AnyField \cup AnyCall)
           /\ Len(b[0]) + k \in 0 .. Len(body)
           /\ Len(b[0]) + k = Len(body) <=> k = n
<1>1. n \in Nat /\ k \in Nat /\ k <= n /\ 0 \in 0 .. n
  BY DEF Machine
<1>2. b[k] \in Seq(AnyField) /\ b[0] \in Seq(AnyField)
  BY <1>1 DEF Machine
<1>3. Len(b[k]) \in Nat /\ Len(b[0]) \in Nat
  BY <1>2
<1>4. Len(body) = Len(b[0]) + n /\ body \in Seq(AnyField \cup AnyCall)
  BY DEF Machine
<1> QED
  BY <1>1, <1>2, <1>3, <1>4

(* What the statement at hand does to the calls under way.                 *)
LEMMA ExecuteIs ==
    ASSUME Execute, NEW c, NEW rest, frames = << c >> \o rest, c # << >>, frames # << >>,
           Head(frames) = c, Tail(frames) = rest
    PROVE  IF IsCall(Head(c))
           THEN frames' = << BodyOf(Head(c)) >> \o (<< Tail(c) >> \o rest) /\ trace' = trace
           ELSE /\ frames' = << Tail(c) >> \o rest
                /\ trace' = [trace EXCEPT ![stage] = Append(@, Head(c))]
  BY DEF Execute, Code, Rest

LEMMA CallStep ==
    ASSUME NEW b, NEW n, NEW f, NEW body, Machine(b, n, f, body), NEW k \in 0 .. n, k # n,
           frames = << Left(body, Len(b[0]) + k), << >> >>, Execute
    PROVE  /\ frames' = << Left(b[k + 1], 0), Left(body, Len(b[0]) + (k + 1)), << >> >>
           /\ trace' = trace
<1> DEFINE p == Len(b[0]) + k
           c == Left(body, p)
<1>1. /\ n \in Nat /\ k \in Nat /\ k <= n /\ Len(b[0]) \in Nat
      /\ body \in Seq(AnyField \cup AnyCall)
      /\ p \in 0 .. Len(body) /\ p # Len(body)
  BY MachineLengths
<1>2. p + 1 = Len(b[0]) + (k + 1) /\ k + 1 \in 1 .. n
  <2>1. Len(b[0]) \in Nat /\ k \in Nat /\ n \in Nat /\ k <= n /\ k # n
    BY <1>1
  <2> DEFINE m == Len(b[0])
  <2>2. m \in Nat
    BY <2>1
  <2> HIDE DEF m
  <2>3. (m + k) + 1 = m + (k + 1) /\ k + 1 \in 1 .. n
    BY <2>1, <2>2
  <2> QED
    BY <2>3 DEF m
<1> HIDE DEF p
<1>3. /\ c # << >> /\ Head(c) = body[p + 1] /\ Tail(c) = Left(body, p + 1)
  BY <1>1, LeftFacts
<1>4. IsCall(Head(c)) /\ BodyOf(Head(c)) = b[k + 1]
  <2>1. IsCall(body[Len(b[0]) + (k + 1)]) /\ BodyOf(body[Len(b[0]) + (k + 1)]) = b[k + 1]
    BY <1>2 DEF Machine
  <2> QED
    BY <1>2, <1>3, <2>1
<1> HIDE DEF c
<1>5. /\ frames = << c, << >> >> /\ frames = << c >> \o << << >> >> /\ frames # << >>
      /\ Head(frames) = c /\ Tail(frames) = << << >> >>
  BY Stacks DEF c, p
<1>6. frames' = << BodyOf(Head(c)) >> \o (<< Tail(c) >> \o << << >> >>) /\ trace' = trace
  BY <1>3, <1>4, <1>5, ExecuteIs
<1>7. frames' = << b[k + 1], Tail(c), << >> >>
  <2> DEFINE l == Tail(c)
             e == << >>
             h == b[k + 1]
  <2>1. frames' = << h >> \o (<< l >> \o << e >>)
    BY <1>4, <1>6
  <2> HIDE DEF l, e, h
  <2>2. << l >> \o << e >> = << l, e >> /\ << h >> \o << l, e >> = << h, l, e >>
    BY Stack2, Stack3, Zenon
  <2>3. frames' = << h, l, e >>
    BY <2>1, <2>2
  <2> QED
    BY <2>3 DEF l, e, h
<1>8. Left(b[k + 1], 0) = b[k + 1]
  <2>1. b[k + 1] \in Seq(AnyField) /\ 0 \in 0 .. Len(b[k + 1])
    BY <1>2, MachineLengths
  <2> QED
    BY <2>1, LeftFacts
<1> QED
  BY <1>2, <1>3, <1>6, <1>7, <1>8

LEMMA FieldStep ==
    ASSUME NEW s \in Seq(AnyField \cup AnyCall), NEW j \in 0 .. Len(s), j # Len(s),
           NEW rest, frames = << Left(s, j) >> \o rest, frames # << >>,
           Head(frames) = Left(s, j), Tail(frames) = rest,
           ~ IsCall(s[j + 1]), Execute
    PROVE  /\ frames' = << Left(s, j + 1) >> \o rest
           /\ trace' = [trace EXCEPT ![stage] = Append(@, s[j + 1])]
<1>1. /\ Left(s, j) # << >> /\ Head(Left(s, j)) = s[j + 1]
      /\ Tail(Left(s, j)) = Left(s, j + 1)
  BY LeftFacts
<1> QED
  BY <1>1, ExecuteIs

(* A field is passed to the pipe.                                          *)
Passes(x) == trace' = [trace EXCEPT ![stage] = Append(@, x)]

LEMMA ExecuteStep ==
    ASSUME NEW b, NEW n, NEW f, NEW body, Machine(b, n, f, body),
           NEW k \in 0 .. n, NEW j \in 0 .. Len(b[k]), At(b, n, f, body, frames, k, j), Execute
    PROVE  \/ At(b, n, f, body, frames', k, j) /\ trace' = trace
           \/ /\ k # n /\ j = Len(b[k])
              /\ At(b, n, f, body, frames', k + 1, 0) /\ trace' = trace
           \/ /\ j # Len(b[k]) /\ At(b, n, f, body, frames', k, j + 1)
              /\ Passes(b[k][j + 1])
<1>1. /\ n \in Nat /\ k \in Nat /\ k <= n /\ b[k] \in Seq(AnyField) /\ Len(b[k]) \in Nat
      /\ b[0] \in Seq(AnyField) /\ Len(b[0]) \in Nat /\ Len(body) = Len(b[0]) + n
      /\ body \in Seq(AnyField \cup AnyCall)
      /\ Len(b[0]) + k \in 0 .. Len(body)
      /\ Len(b[0]) + k = Len(body) <=> k = n
  BY MachineLengths
<1>2. j \in Nat /\ j <= Len(b[k])
  BY <1>1
<1>3. frames # << >> /\ Head(frames) # << >>
  BY DEF Execute, Code
<1>4. CASE frames = << << f >> >> /\ k = 0 /\ j = 0
  <2>1. /\ frames = << << f >> >> \o << >> /\ Head(frames) = << f >> /\ Tail(frames) = << >>
        /\ Head(<< f >>) = f /\ Tail(<< f >>) = << >> /\ << f >> # << >>
    BY <1>4, Stacks
  <2>2. IsCall(f) /\ BodyOf(f) = body
    BY DEF Machine
  <2>3. frames' = << body >> \o (<< << >> >> \o << >>) /\ trace' = trace
    BY <1>3, <2>1, <2>2, ExecuteIs
  <2>4. frames' = << body, << >> >>
    <3> DEFINE e == << >>
    <3>1. << e >> \o << >> = << e >> /\ << body >> \o << e >> = << body, e >>
      <4> HIDE DEF e
      <4> QED
        BY Stacks
    <3> QED
      BY <2>3, <3>1
  <2>5. Left(body, 0) = body
    BY <1>1, LeftFacts
  <2> QED
    BY <1>4, <2>3, <2>4, <2>5 DEF At
<1>5. CASE frames = << Left(body, j), << >> >> /\ k = 0
  <2>1. CASE j = Len(b[0])
    <3>1. Left(body, j) # << >>
      BY <1>3, <1>5, Stacks
    <3>2. j \in 0 .. Len(body)
      BY <1>1, <2>1
    <3>3. k # n /\ j = Len(b[0]) + k
      BY <1>1, <1>5, <2>1, <3>1, <3>2, LeftFacts
    <3>4. /\ frames' = << Left(b[k + 1], 0), Left(body, Len(b[0]) + (k + 1)), << >> >>
          /\ trace' = trace
      BY <1>5, <3>3, CallStep
    <3>5. k + 1 # 0
      BY <1>1
    <3> QED
      BY <1>5, <2>1, <3>3, <3>4, <3>5 DEF At
  <2>2. CASE j # Len(b[0])
    <3>1. j \in 0 .. Len(body) /\ j # Len(body) /\ j + 1 \in 1 .. Len(b[0])
      BY <1>1, <1>2, <1>5, <2>2
    <3>2. body[j + 1] = b[0][j + 1] /\ ~ IsCall(body[j + 1])
      <4>1. body[j + 1] = b[0][j + 1]
        BY <3>1 DEF Machine
      <4>2. b[0][j + 1] \in AnyField
        BY <1>1, <3>1
      <4> QED
        BY <4>1, <4>2 DEF Machine
    <3>3. /\ frames = << Left(body, j) >> \o << << >> >> /\ Head(frames) = Left(body, j)
          /\ Tail(frames) = << << >> >>
      BY <1>5, Stacks
    <3>4. /\ frames' = << Left(body, j + 1) >> \o << << >> >>
          /\ trace' = [trace EXCEPT ![stage] = Append(@, body[j + 1])]
      BY <1>1, <1>3, <3>1, <3>2, <3>3, FieldStep
    <3>5. frames' = << Left(body, j + 1), << >> >>
      BY <3>4, Stacks
    <3> QED
      BY <1>5, <2>2, <3>2, <3>4, <3>5 DEF At, Passes
  <2> QED
    BY <2>1, <2>2
<1>6. CASE frames = << Left(b[k], j), Left(body, Len(b[0]) + k), << >> >> /\ k # 0
  <2> DEFINE l == Left(body, Len(b[0]) + k)
  <2>1. frames = << Left(b[k], j), l, << >> >>
    BY <1>6
  <2> HIDE DEF l
  <2>2. /\ frames = << Left(b[k], j) >> \o << l, << >> >> /\ Head(frames) = Left(b[k], j)
        /\ Tail(frames) = << l, << >> >>
    BY <2>1, Stacks
  <2>3. j # Len(b[k])
    BY <1>1, <1>3, <2>2, LeftFacts
  <2>4. b[k] \in Seq(AnyField \cup AnyCall)
    <3> DEFINE S == AnyField \cup AnyCall
    <3>1. AnyField \subseteq S
      OBVIOUS
    <3> HIDE DEF S
    <3>2. b[k] \in Seq(S)
      BY <1>1, <3>1, SeqMonotonic
    <3> QED
      BY <3>2 DEF S
  <2>5. ~ IsCall(b[k][j + 1])
    <3>1. b[k][j + 1] \in AnyField
      BY <1>1, <1>2, <2>3
    <3> QED
      BY <3>1 DEF Machine
  <2>6. /\ frames' = << Left(b[k], j + 1) >> \o << l, << >> >>
        /\ trace' = [trace EXCEPT ![stage] = Append(@, b[k][j + 1])]
    BY <1>3, <2>2, <2>3, <2>4, <2>5, FieldStep
  <2>7. frames' = << Left(b[k], j + 1), l, << >> >>
    <3> DEFINE e == << >>
               h == Left(b[k], j + 1)
    <3>1. << h >> \o << l, e >> = << h, l, e >>
      <4> HIDE DEF e, h
      <4> QED
        BY Stack3, Zenon
    <3> QED
      BY <2>6, <3>1
  <2> QED
    BY <1>6, <2>3, <2>6, <2>7 DEF At, Passes, l
<1>7. CASE frames = << Left(body, Len(b[0]) + k), << >> >> /\ k # 0 /\ j = Len(b[k])
  <2>1. Left(body, Len(b[0]) + k) # << >>
    BY <1>3, <1>7, Stacks
  <2>2. k # n
    BY <1>1, <2>1, LeftFacts
  <2>3. /\ frames' = << Left(b[k + 1], 0), Left(body, Len(b[0]) + (k + 1)), << >> >>
        /\ trace' = trace
    BY <1>7, <2>2, CallStep
  <2>4. k + 1 # 0
    BY <1>1
  <2> QED
    BY <1>7, <2>2, <2>3, <2>4 DEF At
<1>8. CASE frames \in {<< << >> >>, << >>}
  BY <1>3, <1>8, Stacks
<1> QED
  BY <1>4, <1>5, <1>6, <1>7, <1>8 DEF At

LEMMA ReturnStep ==
    ASSUME NEW b, NEW n, NEW f, NEW body, Machine(b, n, f, body),
           NEW k \in 0 .. n, NEW j \in 0 .. Len(b[k]), At(b, n, f, body, frames, k, j), Return
    PROVE  At(b, n, f, body, frames', k, j) /\ trace' = trace
<1>1. /\ n \in Nat /\ k \in Nat /\ k <= n /\ b[k] \in Seq(AnyField) /\ Len(b[k]) \in Nat
      /\ b[0] \in Seq(AnyField) /\ Len(b[0]) \in Nat /\ Len(body) = Len(b[0]) + n
      /\ body \in Seq(AnyField \cup AnyCall)
      /\ Len(b[0]) + k \in 0 .. Len(body)
      /\ Len(b[0]) + k = Len(body) <=> k = n
  BY MachineLengths
<1>2. j \in Nat /\ j <= Len(b[k])
  BY <1>1
<1>3. frames # << >> /\ Head(frames) = << >> /\ frames' = Tail(frames) /\ trace' = trace
  BY DEF Return, Code
<1>4. CASE frames = << << f >> >>
  BY <1>3, <1>4, Stacks
<1>5. CASE frames = << Left(body, j), << >> >> /\ k = 0
  <2>1. Left(body, j) = << >> /\ frames' = << << >> >>
    BY <1>3, <1>5, Stacks
  <2>2. j \in 0 .. Len(body)
    BY <1>1, <1>2, <1>5
  <2>3. j = Len(body)
    BY <1>1, <2>1, <2>2, LeftFacts
  <2>4. k = n /\ j = Len(b[k])
    BY <1>1, <1>2, <1>5, <2>3
  <2> QED
    BY <1>3, <2>1, <2>4 DEF At
<1>6. CASE frames = << Left(b[k], j), Left(body, Len(b[0]) + k), << >> >> /\ k # 0
  <2>1. Left(b[k], j) = << >> /\ frames' = << Left(body, Len(b[0]) + k), << >> >>
    BY <1>3, <1>6, Stacks
  <2>2. j = Len(b[k])
    BY <1>1, <2>1, LeftFacts
  <2> QED
    BY <1>3, <1>6, <2>1, <2>2 DEF At
<1>7. CASE frames = << Left(body, Len(b[0]) + k), << >> >> /\ k # 0 /\ j = Len(b[k])
  <2>1. Left(body, Len(b[0]) + k) = << >> /\ frames' = << << >> >>
    BY <1>3, <1>7, Stacks
  <2>2. k = n
    BY <1>1, <2>1, LeftFacts
  <2> QED
    BY <1>3, <1>7, <2>1, <2>2 DEF At
<1>8. CASE frames \in {<< << >> >>, << >>} /\ k = n /\ j = Len(b[k])
  <2>1. frames' = << >>
    BY <1>3, <1>8, Stacks
  <2> QED
    BY <1>3, <1>8, <2>1 DEF At
<1> QED
  BY <1>4, <1>5, <1>6, <1>7, <1>8 DEF At

-----------------------------------------------------------------------------
(***************************************************************************)
(* The program: op runs on the group g, its calls are fs, and the fields t *)
(* that it has passed to its pipe are laid out from the positions at.      *)
(* What is read is laid out from the same positions as what was written.   *)
(***************************************************************************)
RunOf(g, op, fs, t, at) ==
    \E f \in Defined :
        /\ f.op = op /\ IsFunctionOf(f, g)
        /\ \E k \in 0 .. Count(g) : \E j \in 0 .. Len(Blocks(g)[k]) :
              /\ At(Blocks(g), Count(g), f, BodyOf(f), fs, k, j)
              /\ Laid(Blocks(g), t, at, k, j)
WholeOf(g, t, at) == Whole(Blocks(g), Count(g), t, at)

ProgramStages == {"write", "read", "done"}
Running ==
    /\ trace \in [Op -> Seq(AnyField)]
    /\ stage \in ProgramStages =>
          /\ Compiled /\ top \in DOMAIN schema /\ Defined # {}
          /\ \E at \in [Nat -> Nat] :
                /\ at[0] = 0
                /\ stage = "write" => RunOf(top, "write", frames, trace["write"], at)
                /\ stage # "write" => WholeOf(top, trace["write"], at)
                /\ stage = "read" => RunOf(top, "read", frames, trace["read"], at)
                /\ stage = "done" => WholeOf(top, trace["read"], at)
    /\ stage \notin ProgramStages => top = << >> /\ trace["write"] = << >>
    /\ stage \notin {"read", "done"} => trace["read"] = << >>

LEMMA ProgramStagesFacts ==
    /\ ProgramStages \cap WalkStages = {}
    /\ Op = {"write", "read"} /\ Op \subseteq ProgramStages
  BY DEF ProgramStages, WalkStages, Op

(* The function that the program calls.                                    *)
LEMMA EntryFacts ==
    ASSUME Generated, NEW g \in DOMAIN schema, NEW op \in Op, NEW fs \in Entries(op, g)
    PROVE  \E f \in Defined : f.op = op /\ IsFunctionOf(f, g) /\ fs = << << f >> >>
<1>1. PICK f \in Defined : /\ f.op = op /\ Tail(f.struct) = << RootName >> \o g
                           /\ fs = << << f >> >>
  BY DEF Entries
<1>2. PICK h \in DOMAIN schema : IsFunctionOf(f, h)
  BY BodyFacts
<1>3. f.struct = Path(f.scope, h)
  BY <1>2 DEF IsFunctionOf, FunctionOf, Function
<1>4. f.scope \in Seq(Name) /\ Len(f.scope) = 1
  BY DefinedTyped DEF Plain
<1>5. g \in Seq(Name) /\ h \in Seq(Name)
  BY GroupFacts DEF Generated
<1>6. h = g
  BY <1>1, <1>3, <1>4, <1>5, PathTail
<1> QED
  BY <1>1, <1>2, <1>6

LEMMA RunStarts ==
    ASSUME Generated, NEW g \in DOMAIN schema, NEW op \in Op, NEW fs \in Entries(op, g),
           NEW at \in [Nat -> Nat], at[0] = 0
    PROVE  RunOf(g, op, fs, << >>, at)
<1>1. PICK f \in Defined : f.op = op /\ IsFunctionOf(f, g) /\ fs = << << f >> >>
  BY EntryFacts
<1>2. Count(g) \in Nat /\ \A k \in 0 .. Count(g) : Len(Blocks(g)[k]) \in Nat
  BY GroupAtFacts DEF Generated
<1>3. 0 \in 0 .. Count(g) /\ 0 \in 0 .. Len(Blocks(g)[0])
  BY <1>2
<1>4. At(Blocks(g), Count(g), f, BodyOf(f), fs, 0, 0)
  BY <1>1 DEF At
<1>5. Laid(Blocks(g), << >>, at, 0, 0)
  BY LaidStart
<1> QED
  BY <1>1, <1>3, <1>4, <1>5 DEF RunOf

(* When no call is left, all the fields have been passed.                  *)
LEMMA RunEnds ==
    ASSUME NEW g, NEW op, NEW t, NEW at, RunOf(g, op, << >>, t, at)
    PROVE  WholeOf(g, t, at)
<1>1. PICK f \in Defined : \E k \in 0 .. Count(g) : \E j \in 0 .. Len(Blocks(g)[k]) :
              /\ At(Blocks(g), Count(g), f, BodyOf(f), << >>, k, j)
              /\ Laid(Blocks(g), t, at, k, j)
  BY DEF RunOf
<1>2. PICK k \in 0 .. Count(g) : \E j \in 0 .. Len(Blocks(g)[k]) :
              /\ At(Blocks(g), Count(g), f, BodyOf(f), << >>, k, j)
              /\ Laid(Blocks(g), t, at, k, j)
  BY <1>1
<1>3. PICK j \in 0 .. Len(Blocks(g)[k]) :
              /\ At(Blocks(g), Count(g), f, BodyOf(f), << >>, k, j)
              /\ Laid(Blocks(g), t, at, k, j)
  BY <1>2
<1>4. k = Count(g) /\ j = Len(Blocks(g)[k])
  BY <1>3, Stacks DEF At
<1> QED
  BY <1>3, <1>4 DEF WholeOf, Whole

LEMMA NextField ==
    ASSUME NEW S, NEW s \in Seq(S), NEW j \in 0 .. Len(s), j # Len(s)
    PROVE  j \in Nat /\ j + 1 \in 0 .. Len(s) /\ s[j + 1] \in S
<1>1. j \in Nat /\ j + 1 \in 0 .. Len(s) /\ j + 1 \in 1 .. Len(s)
  OBVIOUS
<1> QED
  BY <1>1

(* A step of the program, from j fields of the block k.                    *)
Going(g, f, at, k, j) ==
    /\ k \in 0 .. Count(g) /\ j \in 0 .. Len(Blocks(g)[k])
    /\ At(Blocks(g), Count(g), f, BodyOf(f), frames, k, j)
    /\ Laid(Blocks(g), trace[stage], at, k, j)
    /\ k # Count(g) => at[k + 1] = at[k] + Len(Blocks(g)[k])

LEMMA RunStep ==
    ASSUME Generated, Compiled, stage \in Op, NEW g \in DOMAIN schema,
           trace \in [Op -> Seq(AnyField)], NEW f \in Defined, IsFunctionOf(f, g),
           NEW at \in [Nat -> Nat], NEW k, NEW j, Going(g, f, at, k, j),
           Execute \/ Return
    PROVE  /\ \E l \in 0 .. Count(g) : \E m \in 0 .. Len(Blocks(g)[l]) :
                 /\ At(Blocks(g), Count(g), f, BodyOf(f), frames', l, m)
                 /\ Laid(Blocks(g), trace'[stage], at, l, m)
           /\ trace' \in [Op -> Seq(AnyField)]
           /\ \A op \in Op : op # stage => trace'[op] = trace[op]
<1> DEFINE b == Blocks(g)
           n == Count(g)
           t == trace[stage]
           body == BodyOf(f)
<1>1. Machine(b, n, f, body)
  <2>1. stage \notin WalkStages
    BY ProgramStagesFacts
  <2> QED
    BY <2>1, MachineFacts
<1>2. n \in Nat /\ \A i \in 0 .. n : b[i] \in Seq(AnyField) /\ Len(b[i]) \in Nat
  BY GroupAtFacts DEF Generated
<1>3. t \in Seq(AnyField) /\ Len(t) \in Nat
  OBVIOUS
<1>4. /\ k \in 0 .. n /\ j \in 0 .. Len(b[k])
      /\ At(b, n, f, body, frames, k, j) /\ Laid(b, t, at, k, j)
      /\ k # n => at[k + 1] = at[k] + Len(b[k])
  BY DEF Going
<1> SUFFICES /\ \E l \in 0 .. n : \E m \in 0 .. Len(b[l]) :
                   At(b, n, f, body, frames', l, m) /\ Laid(b, trace'[stage], at, l, m)
             /\ trace' \in [Op -> Seq(AnyField)]
             /\ \A op \in Op : op # stage => trace'[op] = trace[op]
  OBVIOUS
<1> HIDE DEF b, n, t, body
<1>5. k \in Nat /\ b[k] \in Seq(AnyField) /\ Len(b[k]) \in Nat
  BY <1>2, <1>4
<1>6. CASE At(b, n, f, body, frames', k, j) /\ trace' = trace
  BY <1>4, <1>6 DEF t
<1>7. CASE k # n /\ j = Len(b[k]) /\ At(b, n, f, body, frames', k + 1, 0) /\ trace' = trace
  <2>1. k + 1 \in 0 .. n
    BY <1>2, <1>4, <1>7
  <2>2. Len(b[k + 1]) \in Nat
    BY <1>2, <2>1
  <2>3. 0 \in 0 .. Len(b[k + 1])
    BY <2>2
  <2>4. Sized(b, at, k + 1)
    <3>1. \A i \in 0 .. k + 1 : i \in 0 .. n /\ i \in Nat
      BY <1>2, <1>5, <2>1
    <3> QED
      BY <1>2, <3>1 DEF Sized
  <2>5. Laid(b, t, at, k + 1, 0)
    BY <1>3, <1>4, <1>5, <1>7, <2>4, LaidBlock
  <2> QED
    BY <1>7, <2>1, <2>3, <2>5 DEF t
<1>8. CASE /\ j # Len(b[k]) /\ At(b, n, f, body, frames', k, j + 1)
           /\ Passes(b[k][j + 1])
  <2> DEFINE x == b[k][j + 1]
             u == Append(t, x)
  <2>1. j \in Nat /\ j + 1 \in 0 .. Len(b[k]) /\ x \in AnyField
    BY <1>4, <1>5, <1>8, NextField
  <2>2. Sized(b, at, k)
    <3>1. \A i \in 0 .. k : i \in 0 .. n /\ i \in Nat
      BY <1>2, <1>4, <1>5
    <3> QED
      BY <1>2, <3>1 DEF Sized
  <2> HIDE DEF x
  <2>3. u \in Seq(AnyField) /\ OneMore(t, u, x)
    <3>1. u \in Seq(AnyField) /\ Len(u) = Len(t) + 1 /\ Len(t) \in Nat /\ u[Len(t) + 1] = x
      BY <1>3, <2>1, AppendIs
    <3>2. ASSUME NEW y \in 1 .. Len(t)
          PROVE  u[y] = t[y]
      BY <1>3, <2>1
    <3> QED
      BY <3>1, <3>2 DEF OneMore
  <2>4. trace' = [trace EXCEPT ![stage] = u]
    BY <1>8 DEF Passes, x, t
  <2> HIDE DEF u
  <2>5. Laid(b, u, at, k, j + 1)
    BY <1>4, <1>5, <2>1, <2>2, <2>3, LaidNext DEF x
  <2>6. trace'[stage] = u /\ trace' \in [Op -> Seq(AnyField)]
        /\ \A op \in Op : op # stage => trace'[op] = trace[op]
    BY <2>3, <2>4
  <2> QED
    BY <1>4, <1>8, <2>1, <2>5, <2>6
<1>9. CASE Execute
  <2>1. \/ At(b, n, f, body, frames', k, j) /\ trace' = trace
        \/ k # n /\ j = Len(b[k]) /\ At(b, n, f, body, frames', k + 1, 0) /\ trace' = trace
        \/ /\ j # Len(b[k]) /\ At(b, n, f, body, frames', k, j + 1)
           /\ Passes(b[k][j + 1])
    BY <1>1, <1>4, <1>9, ExecuteStep
  <2> QED
    BY <1>6, <1>7, <1>8, <2>1
<1>10. CASE Return
  <2>1. At(b, n, f, body, frames', k, j) /\ trace' = trace
    BY <1>1, <1>4, <1>10, ReturnStep
  <2> QED
    BY <1>6, <2>1
<1> QED
  BY <1>9, <1>10

(* What only depends on the schema and the files.                          *)
LEMMA SameProgram ==
    ASSUME schema' = schema, header' = header, source' = source, included' = included
    PROVE  /\ Compiled' <=> Compiled
           /\ Defined' = Defined /\ AnyField' = AnyField
<1>1. Defined' = Defined /\ \A f : BodyOf(f)' = BodyOf(f)
  BY DEF Defined, BodyOf
<1>2. \A f, x : Resolves(f, x)' <=> Resolves(f, x)
  BY DEF Resolves, Member
<1>3. Compiled' <=> Compiled
  BY <1>1, <1>2 DEF Compiled
<1>4. AnyField' = AnyField
  BY DEF AnyField, FieldsOf, Vars
<1> QED
  BY <1>1, <1>3, <1>4

LEMMA SameRun ==
    ASSUME schema' = schema, source' = source, NEW at
    PROVE  /\ WholeOf(top, trace["write"], at)' <=> WholeOf(top', trace'["write"], at)
           /\ WholeOf(top, trace["read"], at)' <=> WholeOf(top', trace'["read"], at)
           /\ RunOf(top, "write", frames, trace["write"], at)' <=>
                 RunOf(top', "write", frames', trace'["write"], at)
           /\ RunOf(top, "read", frames, trace["read"], at)' <=>
                 RunOf(top', "read", frames', trace'["read"], at)
<1>1. Defined' = Defined /\ \A f : BodyOf(f)' = BodyOf(f)
  BY DEF Defined, BodyOf
<1>2. /\ Blocks(top)' = Blocks(top') /\ Count(top)' = Count(top')
  BY DEF Blocks, Count, GroupAt, Sub, SubNames, FieldsOf, Vars
<1>3. /\ WholeOf(top, trace["write"], at)' <=> WholeOf(top', trace'["write"], at)
      /\ WholeOf(top, trace["read"], at)' <=> WholeOf(top', trace'["read"], at)
  BY <1>2 DEF WholeOf
<1>4. RunOf(top, "write", frames, trace["write"], at)' <=>
         RunOf(top', "write", frames', trace'["write"], at)
  BY <1>1, <1>2 DEF RunOf
<1>5. RunOf(top, "read", frames, trace["read"], at)' <=>
         RunOf(top', "read", frames', trace'["read"], at)
  BY <1>1, <1>2 DEF RunOf
<1> QED
  BY <1>3, <1>4, <1>5

(* Nothing runs while the files are generated, or when they do not compile.*)
LEMMA NotRunning ==
    ASSUME Running, schema' = schema, top' = top, trace' = trace,
           stage \notin ProgramStages, stage' \notin ProgramStages
    PROVE  Running'
<1>1. AnyField' = AnyField
  BY DEF AnyField, FieldsOf, Vars
<1>2. stage' \notin {"read", "done"} /\ stage \notin {"read", "done"}
  BY DEF ProgramStages
<1> QED
  BY <1>1, <1>2 DEF Running

LEMMA CompileStep ==
    ASSUME Generated, Running, Compile
    PROVE  Running'
<1>1. /\ stage = "build" /\ schema' = schema /\ header' = header /\ source' = source
      /\ included' = included /\ trace' = trace
  BY DEF Compile, files
<1>2. stage \notin ProgramStages /\ stage \notin {"read", "done"}
  BY <1>1 DEF ProgramStages
<1>3. trace' \in [Op -> Seq(AnyField)] /\ trace'["write"] = << >> /\ trace'["read"] = << >>
  BY <1>1, <1>2 DEF Running
<1>4. CASE Compiled /\ source # << >>
  <2>1. stage' = "write" /\ top' \in DOMAIN schema /\ frames' \in Entries("write", top')
    BY <1>4 DEF Compile
  <2> DEFINE at == [i \in Nat |-> 0]
  <2>2. at \in [Nat -> Nat] /\ at[0] = 0
    OBVIOUS
  <2> HIDE DEF at
  <2>3. RunOf(top', "write", frames', << >>, at)
    BY <2>1, <2>2, RunStarts, ProgramStagesFacts
  <2>4. RunOf(top, "write", frames, trace["write"], at)'
    BY <1>1, <1>3, <2>3, SameRun
  <2>5. Defined # {}
    <3>1. source \in Seq(AnyDefinition)
      BY DEF Generated, FilesTyped
    <3>2. 1 \in DOMAIN source
      BY <1>4, <3>1
    <3> QED
      BY <3>2 DEF Defined
  <2>6. Compiled' /\ Defined' # {} /\ AnyField' = AnyField
    BY <1>1, <1>4, <2>5, SameProgram
  <2>7. stage' \in ProgramStages /\ stage' \notin {"read", "done"}
    BY <2>1 DEF ProgramStages
  <2> QED
    BY <1>1, <1>3, <2>1, <2>2, <2>4, <2>6, <2>7 DEF Running
<1>5. CASE ~ (Compiled /\ source # << >>)
  <2>1. stage' \in {"unused", "rejected"} /\ top' = top
    BY <1>5 DEF Compile
  <2>2. stage' \notin ProgramStages
    BY <2>1 DEF ProgramStages
  <2> QED
    BY <1>1, <1>2, <2>1, <2>2, NotRunning
<1> QED
  BY <1>4, <1>5

LEMMA ProgramStep ==
    ASSUME Generated, Running, Execute \/ Return
    PROVE  Running'
<1>1. /\ stage \in Op /\ stage' = stage /\ schema' = schema /\ header' = header
      /\ source' = source /\ included' = included /\ top' = top
  BY DEF Execute, Return, files
<1>2. stage \in {"write", "read"} /\ stage \in ProgramStages /\ stage # "done"
  BY <1>1 DEF Op, ProgramStages
<1>3. Compiled /\ top \in DOMAIN schema /\ Defined # {} /\ trace \in [Op -> Seq(AnyField)]
  BY <1>2 DEF Running
<1>4. PICK at \in [Nat -> Nat] :
          /\ at[0] = 0
          /\ RunOf(top, stage, frames, trace[stage], at)
          /\ stage = "read" => WholeOf(top, trace["write"], at)
  BY <1>2 DEF Running
<1>5. PICK f \in Defined :
          /\ f.op = stage /\ IsFunctionOf(f, top)
          /\ \E k \in 0 .. Count(top) : \E j \in 0 .. Len(Blocks(top)[k]) :
                /\ At(Blocks(top), Count(top), f, BodyOf(f), frames, k, j)
                /\ Laid(Blocks(top), trace[stage], at, k, j)
  BY <1>4 DEF RunOf
<1>6. PICK k \in 0 .. Count(top) : \E j \in 0 .. Len(Blocks(top)[k]) :
          /\ At(Blocks(top), Count(top), f, BodyOf(f), frames, k, j)
          /\ Laid(Blocks(top), trace[stage], at, k, j)
  BY <1>5
<1>7. PICK j \in 0 .. Len(Blocks(top)[k]) :
          /\ At(Blocks(top), Count(top), f, BodyOf(f), frames, k, j)
          /\ Laid(Blocks(top), trace[stage], at, k, j)
  BY <1>6
<1>8. /\ Count(top) \in Nat
      /\ \A i \in 0 .. Count(top) : Len(Blocks(top)[i]) \in Nat
  BY <1>3, GroupAtFacts DEF Generated
<1>9. PICK to \in [Nat -> Nat] :
          /\ to[0] = 0 /\ Going(top, f, to, k, j)
          /\ stage = "read" => WholeOf(top, trace["write"], to)
  <2>1. CASE stage = "read"
    <3>1. k # Count(top) => at[k + 1] = at[k] + Len(Blocks(top)[k])
      <4>1. k # Count(top) => k \in 0 .. Count(top) - 1
        BY <1>8
      <4> QED
        BY <1>4, <2>1, <4>1 DEF WholeOf, Whole, Laid
    <3>2. Going(top, f, at, k, j)
      BY <1>7, <3>1 DEF Going
    <3> QED
      BY <1>4, <3>2
  <2>2. CASE stage # "read"
    <3> DEFINE new == [at EXCEPT ![k + 1] = at[k] + Len(Blocks(top)[k])]
    <3>1. k \in Nat /\ k + 1 \in Nat /\ Len(Blocks(top)[k]) \in Nat
      BY <1>8
    <3>2. at[k] + Len(Blocks(top)[k]) \in Nat
      <4> DEFINE a == at[k]
                 m == Len(Blocks(top)[k])
      <4>1. a \in Nat /\ m \in Nat
        BY <3>1
      <4> HIDE DEF a, m
      <4>2. a + m \in Nat
        BY <4>1
      <4> QED
        BY <4>2 DEF a, m
    <3>3. /\ new \in [Nat -> Nat] /\ new[k + 1] = at[k] + Len(Blocks(top)[k])
          /\ \A i \in Nat : i # k + 1 => new[i] = at[i]
      BY <3>1, <3>2
    <3> HIDE DEF new
    <3>4. \A i \in 0 .. k : i \in Nat /\ i # k + 1
      BY <3>1
    <3>5. \A i \in 0 .. k : new[i] = at[i]
      BY <3>3, <3>4
    <3>6. 0 \in 0 .. k /\ k \in 0 .. k
      BY <3>1
    <3>7. Laid(Blocks(top), trace[stage], new, k, j)
      BY <1>7, <3>1, <3>5, LaidChange
    <3>8. new[0] = 0 /\ new[k] = at[k]
      BY <1>4, <3>5, <3>6
    <3>9. Going(top, f, new, k, j)
      BY <1>7, <3>3, <3>7, <3>8 DEF Going
    <3> QED
      BY <2>2, <3>3, <3>8, <3>9
  <2> QED
    BY <2>1, <2>2
<1>10. /\ \E l \in 0 .. Count(top) : \E m \in 0 .. Len(Blocks(top)[l]) :
             /\ At(Blocks(top), Count(top), f, BodyOf(f), frames', l, m)
             /\ Laid(Blocks(top), trace'[stage], to, l, m)
       /\ trace' \in [Op -> Seq(AnyField)]
       /\ \A op \in Op : op # stage => trace'[op] = trace[op]
  BY <1>1, <1>3, <1>5, <1>9, RunStep
<1>11. RunOf(top, stage, frames', trace'[stage], to)
  BY <1>5, <1>10 DEF RunOf
<1>12. stage = "write" => RunOf(top, "write", frames, trace["write"], to)'
  BY <1>1, <1>11, SameRun
<1>13. stage = "read" => RunOf(top, "read", frames, trace["read"], to)'
  BY <1>1, <1>11, SameRun
<1>14. stage = "read" => WholeOf(top, trace["write"], to)'
  <2>1. stage = "read" => trace'["write"] = trace["write"]
    BY <1>10, ProgramStagesFacts
  <2> QED
    BY <1>1, <1>9, <2>1, SameRun
<1>15. stage = "write" => trace'["read"] = << >>
  <2>1. stage = "write" => trace'["read"] = trace["read"]
    BY <1>10, ProgramStagesFacts
  <2>2. stage = "write" => stage \notin {"read", "done"}
    OBVIOUS
  <2> QED
    BY <2>1, <2>2 DEF Running
<1>16. Compiled' /\ Defined' # {} /\ AnyField' = AnyField
  BY <1>1, <1>3, SameProgram
<1>17. stage' \in {"write", "read"} /\ stage' \in ProgramStages /\ stage' # "done"
  BY <1>1, <1>2
<1>18. \E x \in [Nat -> Nat] :
          /\ x[0] = 0
          /\ (stage = "write" => RunOf(top, "write", frames, trace["write"], x))'
          /\ (stage # "write" => WholeOf(top, trace["write"], x))'
          /\ (stage = "read" => RunOf(top, "read", frames, trace["read"], x))'
          /\ (stage = "done" => WholeOf(top, trace["read"], x))'
  BY <1>1, <1>2, <1>9, <1>12, <1>13, <1>14
<1> QED
  BY <1>1, <1>2, <1>3, <1>10, <1>15, <1>16, <1>17, <1>18 DEF Running

LEMMA TurnStep ==
    ASSUME Generated, Running, ReadBack \/ Finish
    PROVE  Running'
<1>1. /\ stage \in {"write", "read"} /\ frames = << >> /\ schema' = schema /\ header' = header
      /\ source' = source /\ included' = included /\ top' = top /\ trace' = trace
  BY DEF ReadBack, Finish, files, program
<1>2. stage \in ProgramStages /\ stage # "done"
  BY <1>1 DEF ProgramStages
<1>3. Compiled /\ top \in DOMAIN schema /\ Defined # {} /\ trace \in [Op -> Seq(AnyField)]
  BY <1>2 DEF Running
<1>4. PICK at \in [Nat -> Nat] :
          /\ at[0] = 0
          /\ stage = "write" => RunOf(top, "write", frames, trace["write"], at)
          /\ stage # "write" => WholeOf(top, trace["write"], at)
          /\ stage = "read" => RunOf(top, "read", frames, trace["read"], at)
  BY <1>2 DEF Running
<1>5. WholeOf(top, trace["write"], at) /\ WholeOf(top, trace["write"], at)'
  <2>1. WholeOf(top, trace["write"], at)
    BY <1>1, <1>4, RunEnds
  <2> QED
    BY <1>1, <2>1, SameRun
<1>6. Compiled' /\ Defined' # {} /\ AnyField' = AnyField
  BY <1>1, <1>3, SameProgram
<1>7. CASE ReadBack
  <2>1. stage = "write" /\ stage' = "read" /\ frames' \in Entries("read", top)
    BY <1>7 DEF ReadBack
  <2>2. trace["read"] = << >>
    BY <2>1 DEF Running
  <2>3. RunOf(top, "read", frames', << >>, at)
    BY <1>3, <1>4, <2>1, RunStarts, ProgramStagesFacts
  <2>4. RunOf(top, "read", frames, trace["read"], at)'
    BY <1>1, <2>2, <2>3, SameRun
  <2>5. stage' \in ProgramStages /\ stage' # "write" /\ stage' # "done"
    BY <2>1 DEF ProgramStages
  <2> QED
    BY <1>1, <1>3, <1>4, <1>5, <1>6, <2>1, <2>4, <2>5 DEF Running
<1>8. CASE Finish
  <2>1. stage = "read" /\ stage' = "done"
    BY <1>8 DEF Finish
  <2>2. WholeOf(top, trace["read"], at)
    BY <1>1, <1>4, <2>1, RunEnds
  <2>3. WholeOf(top, trace["read"], at)'
    BY <1>1, <2>2, SameRun
  <2>4. stage' \in ProgramStages /\ stage' # "write" /\ stage' # "read"
    BY <2>1 DEF ProgramStages
  <2> QED
    BY <1>1, <1>3, <1>4, <1>5, <1>6, <2>1, <2>3, <2>4 DEF Running
<1> QED
  BY <1>7, <1>8

(* A step of the generator, before the compiler or without it.             *)
LEMMA GeneratorStep ==
    ASSUME Running,
           \/ Refuse \/ GenerateNothing \/ (\E target \in Target : Generate(target))
           \/ DumpStruct \/ (\E op \in Op : Declare(op) \/ Define(op)) \/ NextWalk
    PROVE  Running'
<1>1. SUFFICES /\ schema' = schema /\ top' = top /\ trace' = trace
               /\ stage \notin ProgramStages /\ stage' \notin ProgramStages
  BY NotRunning
<1>2. \A s \in WalkStages \cup {"build", "failed"} : s \notin ProgramStages
  BY DEF WalkStages, ProgramStages
<1>3. CASE Refuse \/ GenerateNothing
  <2>1. stage = "build" /\ stage' \in {"build", "failed"}
    BY <1>3 DEF Refuse, GenerateNothing, AtCommand
  <2> QED
    BY <1>2, <1>3, <2>1 DEF Refuse, GenerateNothing, program
<1>4. ASSUME NEW target \in Target, Generate(target)
      PROVE  /\ schema' = schema /\ top' = top /\ trace' = trace
             /\ stage \notin ProgramStages /\ stage' \notin ProgramStages
  <2>1. stage = "build" /\ stage' = WalksOf(target)[1]
    BY <1>4 DEF Generate, AtCommand
  <2>2. WalksOf(target)[1] \in {"struct", "source write"}
    BY <1>4 DEF WalksOf, HeaderWalks, SourceWalks, Target
  <2> QED
    BY <1>2, <1>4, <2>1, <2>2 DEF Generate, program, ProgramStages
<1>5. CASE DumpStruct
  <2>1. stage = "struct" /\ stage' = stage
    BY <1>5 DEF DumpStruct
  <2> QED
    BY <1>5, <2>1 DEF DumpStruct, program, ProgramStages
<1>6. ASSUME NEW op \in Op, Declare(op) \/ Define(op)
      PROVE  /\ schema' = schema /\ top' = top /\ trace' = trace
             /\ stage \notin ProgramStages /\ stage' \notin ProgramStages
  <2>1. /\ stage \in {"header read", "header write", "source read", "source write"}
        /\ stage' = stage
    BY <1>6 DEF Declare, Define
  <2> QED
    BY <1>6, <2>1 DEF Declare, Define, program, ProgramStages
<1>7. CASE NextWalk
  <2>1. stage \in WalkStages /\ stage' \in WalkStages \cup {"build"}
    BY <1>7, WalkEnds
  <2> QED
    BY <1>2, <1>7, <2>1 DEF NextWalk, program
<1> QED
  BY <1>3, <1>4, <1>5, <1>6, <1>7

LEMMA AlwaysRunning ==
    ASSUME PlainSpaces(Builds)
    PROVE  Spec => [](Generated /\ Running)
<1>1. ASSUME Init
      PROVE  Running
  <2>1. stage = "build" /\ top = << >> /\ trace = [op \in Op |-> << >>]
    BY <1>1 DEF Init
  <2>2. stage \notin ProgramStages /\ stage \notin {"read", "done"}
    BY <2>1 DEF ProgramStages
  <2>3. << >> \in Seq(AnyField) /\ "read" \in Op /\ "write" \in Op
    BY EmptySeq DEF Op
  <2> QED
    BY <2>1, <2>2, <2>3 DEF Running
<1>2. ASSUME Generated, Running, [Next]_vars
      PROVE  Running'
  <2>1. CASE \/ Refuse \/ GenerateNothing \/ (\E target \in Target : Generate(target))
             \/ DumpStruct \/ (\E op \in Op : Declare(op) \/ Define(op)) \/ NextWalk
    BY <1>2, <2>1, GeneratorStep
  <2>2. CASE Compile
    BY <1>2, <2>2, CompileStep
  <2>3. CASE Execute \/ Return
    BY <1>2, <2>3, ProgramStep
  <2>4. CASE ReadBack \/ Finish
    BY <1>2, <2>4, TurnStep
  <2>5. CASE UNCHANGED vars
    <3>1. /\ schema' = schema /\ header' = header /\ source' = source /\ stage' = stage
          /\ included' = included /\ top' = top /\ frames' = frames /\ trace' = trace
      BY <2>5 DEF vars, files, program
    <3>2. /\ (Compiled' <=> Compiled) /\ Defined' = Defined /\ AnyField' = AnyField
      BY <3>1, SameProgram
    <3>3. ASSUME NEW at
          PROVE  /\ WholeOf(top, trace["write"], at)' <=> WholeOf(top, trace["write"], at)
                 /\ WholeOf(top, trace["read"], at)' <=> WholeOf(top, trace["read"], at)
                 /\ RunOf(top, "write", frames, trace["write"], at)' <=>
                       RunOf(top, "write", frames, trace["write"], at)
                 /\ RunOf(top, "read", frames, trace["read"], at)' <=>
                       RunOf(top, "read", frames, trace["read"], at)
      BY <3>1, SameRun
    <3> QED
      BY <1>2, <3>1, <3>2, <3>3 DEF Running
  <2> QED
    BY <1>2, <2>1, <2>2, <2>3, <2>4, <2>5 DEF Next
<1>3. Spec => []Generated
  BY AlwaysGenerated
<1> QED
  BY <1>1, <1>2, <1>3, PTL DEF Spec

-----------------------------------------------------------------------------
(* The order of the fields.                                                *)
LEMMA PrefixIs ==
    ASSUME NEW S, NEW s \in Seq(S), NEW t \in Seq(S)
    PROVE  IsPrefix(s, t) <=> Len(s) <= Len(t) /\ \A i \in 1 .. Len(s) : s[i] = t[i]
<1> DEFINE n == Len(s)
           f == SubSeq(s, 1, n)
           g == SubSeq(t, 1, n)
<1>1. n \in Nat /\ Len(t) \in Nat
  OBVIOUS
<1>2. CASE n <= Len(t)
  <2>1. f \in Seq(S) /\ Len(f) = n /\ \A i \in 1 .. n : f[i] = s[i]
    BY <1>1, BeginningIs
  <2>2. g \in Seq(S) /\ Len(g) = n /\ \A i \in 1 .. n : g[i] = t[i]
    BY <1>1, <1>2, BeginningIs
  <2> HIDE DEF f, g, n
  <2>3. f = g <=> \A i \in 1 .. n : f[i] = g[i]
    BY <2>1, <2>2, SeqEqual
  <2>4. f = g <=> \A i \in 1 .. n : s[i] = t[i]
    BY <2>1, <2>2, <2>3
  <2> QED
    BY <1>2, <2>4 DEF IsPrefix, f, g, n
<1> QED
  BY <1>2 DEF IsPrefix

LEMMA TopFacts ==
    ASSUME Generated, Running, stage \in ProgramStages, NEW at \in [Nat -> Nat]
    PROVE  /\ top \in DOMAIN schema /\ Count(top) \in Nat
           /\ \A op \in Op : trace[op] \in Seq(AnyField) /\ Len(trace[op]) \in Nat
           /\ Sized(Blocks(top), at, Count(top))
<1>1. top \in DOMAIN schema /\ trace \in [Op -> Seq(AnyField)]
  BY DEF Running
<1>2. Count(top) \in Nat /\ \A k \in 0 .. Count(top) : Len(Blocks(top)[k]) \in Nat
  BY <1>1, GroupAtFacts DEF Generated
<1>3. \A k \in 0 .. Count(top) : at[k] \in Nat
  BY <1>2
<1>4. \A op \in Op : trace[op] \in Seq(AnyField)
  BY <1>1
<1>5. \A op \in Op : Len(trace[op]) \in Nat
  BY <1>4
<1> QED
  BY <1>1, <1>2, <1>3, <1>4, <1>5 DEF Sized

(***************************************************************************)
(* Whatever the schema, the pipes and the group: the fields are read in    *)
(* the order in which they were written (dump_source_read_group,           *)
(* dump_source_write_group), for every build without a namespace in a      *)
(* namespace.                                                              *)
(***************************************************************************)
THEOREM FieldsAreReadInOrder ==
    ASSUME PlainSpaces(Builds)
    PROVE  Spec => []ReadsInWriteOrder
<1>1. ASSUME Generated, Running
      PROVE  ReadsInWriteOrder
  <2> SUFFICES ASSUME stage \in {"read", "done"}
               PROVE  IsPrefix(trace["read"], trace["write"])
    BY DEF ReadsInWriteOrder
  <2> DEFINE b == Blocks(top)
             n == Count(top)
             r == trace["read"]
             w == trace["write"]
  <2>1. stage \in ProgramStages /\ stage # "write" /\ "read" \in Op /\ "write" \in Op
    BY DEF ProgramStages, Op
  <2>2. PICK at :
            /\ at \in [Nat -> Nat] /\ WholeOf(top, w, at)
            /\ stage = "read" => RunOf(top, "read", frames, r, at)
            /\ stage = "done" => WholeOf(top, r, at)
    BY <1>1, <2>1 DEF Running
  <2>3. /\ n \in Nat /\ Sized(b, at, n) /\ Len(r) \in Nat /\ Len(w) \in Nat
        /\ r \in Seq(AnyField) /\ w \in Seq(AnyField)
    BY <1>1, <2>1, <2>2, TopFacts
  <2>4. Whole(b, n, w, at)
    BY <2>2 DEF WholeOf
  <2>5. \E k \in 0 .. n : \E j \in 0 .. Len(b[k]) : Laid(b, r, at, k, j)
    <3>1. CASE stage = "read"
      BY <2>2, <3>1 DEF RunOf
    <3>2. CASE stage = "done"
      <4>1. n \in 0 .. n
        BY <2>3
      <4>2. Len(b[n]) \in Nat
        BY <2>3, <4>1 DEF Sized
      <4>3. Len(b[n]) \in 0 .. Len(b[n])
        BY <4>2
      <4> QED
        BY <2>2, <3>2, <4>1, <4>3 DEF WholeOf, Whole
    <3> QED
      BY <3>1, <3>2
  <2>6. PICK k, j : k \in 0 .. n /\ j \in 0 .. Len(b[k]) /\ Laid(b, r, at, k, j)
    BY <2>5
  <2>7. k \in 0 .. n /\ Laid(b, r, at, k, j)
    BY <2>6
  <2>8. j \in Nat /\ j <= Len(b[k])
    BY <2>3, <2>6 DEF Sized
  <2> HIDE DEF b, n, r, w
  <2>9. Len(r) <= Len(w) /\ \A x \in 1 .. Len(r) : r[x] = w[x]
    <3>1. n \in Nat /\ Sized(b, at, n) /\ Len(r) \in Nat /\ Len(w) \in Nat
      BY <2>3
    <3> QED
      BY <2>4, <2>7, <2>8, <3>1, LaidSame
  <2>10. IsPrefix(r, w)
    BY <2>3, <2>9, PrefixIs
  <2> QED
    BY <2>10 DEF r, w
<1>2. Spec => [](Generated /\ Running)
  BY AlwaysRunning
<1> QED
  BY <1>1, <1>2, PTL

-----------------------------------------------------------------------------
(* The paths of the fields.                                                *)
LEMMA BlockPath ==
    ASSUME schema \in Schemas, NEW g \in DOMAIN schema, NEW k \in 0 .. Count(g)
    PROVE  /\ GroupAt(g, k) \in DOMAIN schema
           /\ 1 .. Len(Blocks(g)[k]) = DOMAIN Vars(GroupAt(g, k))
           /\ \A m \in 1 .. Len(Blocks(g)[k]) :
                 Blocks(g)[k][m] = Field(Append(GroupAt(g, k), Vars(GroupAt(g, k))[m].name),
                                         Vars(GroupAt(g, k))[m])
<1>1. GroupAt(g, k) \in DOMAIN schema /\ Blocks(g)[k] = FieldsOf(GroupAt(g, k))
  BY GroupAtFacts
<1> DEFINE h == GroupAt(g, k)
<1> HIDE DEF h
<1>2. h \in DOMAIN schema /\ Blocks(g)[k] = FieldsOf(h)
  BY <1>1 DEF h
<1>3. /\ DOMAIN FieldsOf(h) = 1 .. Len(FieldsOf(h)) /\ DOMAIN FieldsOf(h) = DOMAIN Vars(h)
      /\ \A m \in DOMAIN FieldsOf(h) : FieldsOf(h)[m] = Field(Append(h, Vars(h)[m].name), Vars(h)[m])
  BY <1>2, FieldsFacts
<1> QED
  BY <1>2, <1>3 DEF h

LEMMA FieldPath ==
    ASSUME NEW path, NEW variable
    PROVE  Field(path, variable).path = path
  BY DEF Field

LEMMA VariableName ==
    ASSUME schema \in Schemas, NEW h \in DOMAIN schema, NEW m \in DOMAIN Vars(h)
    PROVE  /\ h \in Seq(Name) /\ Vars(h)[m].name \in Name /\ Vars(h)[m] \in ToSet(Vars(h))
           /\ \A p \in DOMAIN Vars(h) : Vars(h)[m].name = Vars(h)[p].name => m = p
<1>1. /\ h \in Seq(Name) /\ Vars(h) \in Seq([name : STRING, type : STRING, rank : Nat])
      /\ \A p \in DOMAIN Vars(h) : Vars(h)[m].name = Vars(h)[p].name => m = p
  BY GroupFacts
<1>2. Vars(h)[m] \in [name : STRING, type : STRING, rank : Nat]
  <2> DEFINE v == Vars(h)
             R == [name : STRING, type : STRING, rank : Nat]
  <2>1. v \in Seq(R) /\ m \in DOMAIN v
    BY <1>1
  <2> HIDE DEF v, R
  <2>2. v[m] \in R
    BY <2>1
  <2> QED
    BY <2>2 DEF v, R
<1>3. Vars(h)[m].name \in STRING
  BY <1>2
<1> QED
  BY <1>1, <1>3 DEF Name, ToSet

LEMMA GroupAtInjective ==
    ASSUME schema \in Schemas, NEW g \in DOMAIN schema,
           NEW k \in 0 .. Count(g), NEW l \in 0 .. Count(g), GroupAt(g, k) = GroupAt(g, l)
    PROVE  k = l
<1>1. /\ g \in Seq(Name) /\ Len(g) \in Nat
      /\ \A i \in DOMAIN SubNames(g) : SubNames(g)[i] \in Name
      /\ \A i, j \in DOMAIN SubNames(g) : SubNames(g)[i] = SubNames(g)[j] => i = j
  BY GroupFacts
<1>2. Count(g) \in Nat /\ DOMAIN SubNames(g) = 1 .. Count(g)
  BY GroupAtFacts
<1>3. \A i \in DOMAIN SubNames(g) : Len(Sub(g, i)) = Len(g) + 1
  BY <1>1, AppendIs DEF Sub
<1>4. \A i \in DOMAIN SubNames(g) : Sub(g, i) # g
  BY <1>1, <1>3
<1>5. \A i, j \in DOMAIN SubNames(g) : Sub(g, i) = Sub(g, j) => i = j
  <2> TAKE i, j \in DOMAIN SubNames(g)
  <2>1. Last(Sub(g, i)) = SubNames(g)[i] /\ Last(Sub(g, j)) = SubNames(g)[j]
    BY <1>1, AppendFront DEF Sub
  <2> QED
    BY <1>1, <2>1
<1>6. (k = 0 \/ k \in DOMAIN SubNames(g)) /\ (l = 0 \/ l \in DOMAIN SubNames(g))
  BY <1>2
<1>7. 0 \notin DOMAIN SubNames(g)
  BY <1>2
<1> QED
  BY <1>4, <1>5, <1>6, <1>7 DEF GroupAt

(* Two fields of the same path are the same field.                         *)
LEMMA BlockPathInjective ==
    ASSUME schema \in Schemas, NEW g \in DOMAIN schema,
           NEW k \in 0 .. Count(g), NEW m \in 1 .. Len(Blocks(g)[k]),
           NEW l \in 0 .. Count(g), NEW p \in 1 .. Len(Blocks(g)[l]),
           Blocks(g)[k][m].path = Blocks(g)[l][p].path
    PROVE  k = l /\ m = p
<1> DEFINE h == GroupAt(g, k)
           i == GroupAt(g, l)
<1>1. /\ h \in DOMAIN schema /\ m \in DOMAIN Vars(h)
      /\ Blocks(g)[k][m].path = Append(h, Vars(h)[m].name)
  <2>1. /\ h \in DOMAIN schema /\ m \in DOMAIN Vars(h)
        /\ Blocks(g)[k][m] = Field(Append(h, Vars(h)[m].name), Vars(h)[m])
    BY BlockPath
  <2> QED
    BY <2>1, FieldPath
<1>2. /\ i \in DOMAIN schema /\ p \in DOMAIN Vars(i)
      /\ Blocks(g)[l][p].path = Append(i, Vars(i)[p].name)
  <2>1. /\ i \in DOMAIN schema /\ p \in DOMAIN Vars(i)
        /\ Blocks(g)[l][p] = Field(Append(i, Vars(i)[p].name), Vars(i)[p])
    BY BlockPath
  <2> QED
    BY <2>1, FieldPath
<1> HIDE DEF h, i
<1>3. h \in Seq(Name) /\ Vars(h)[m].name \in Name
  BY <1>1, VariableName
<1>4. i \in Seq(Name) /\ Vars(i)[p].name \in Name
  BY <1>2, VariableName
<1>5. /\ Front(Append(h, Vars(h)[m].name)) = h
      /\ Last(Append(h, Vars(h)[m].name)) = Vars(h)[m].name
  BY <1>3, AppendFront
<1>6. /\ Front(Append(i, Vars(i)[p].name)) = i
      /\ Last(Append(i, Vars(i)[p].name)) = Vars(i)[p].name
  BY <1>4, AppendFront
<1>7. h = i /\ Vars(h)[m].name = Vars(i)[p].name
  BY <1>1, <1>2, <1>5, <1>6
<1>8. m = p
  BY <1>1, <1>2, <1>7, VariableName
<1>9. k = l
  BY <1>7, GroupAtInjective DEF h, i
<1> QED
  BY <1>8, <1>9

LEMMA BelowIs ==
    ASSUME schema \in Schemas, NEW g \in DOMAIN schema, NEW h \in DOMAIN schema
    PROVE  IsPrefix(g, h) <=> Under(g, h)
<1>1. g \in Seq(Name) /\ h \in Seq(Name)
  BY GroupFacts
<1> QED
  BY <1>1, PrefixIs DEF Under

(* The groups from which the program takes its fields are g and those      *)
(* below it.                                                               *)
LEMMA GroupsBelow ==
    ASSUME Generated, Compiled, Defined # {}, stage \notin WalkStages,
           NEW g \in DOMAIN schema, NEW h \in DOMAIN schema
    PROVE  IsPrefix(g, h) <=> \E k \in 0 .. Count(g) : h = GroupAt(g, k)
<1>1. schema \in Schemas
  BY DEF Generated
<1>2. Count(g) \in Nat /\ DOMAIN SubNames(g) = 1 .. Count(g)
  BY <1>1, GroupAtFacts
<1>3. /\ g \in Seq(Name) /\ Len(g) \in Nat
      /\ \A i \in DOMAIN SubNames(g) : SubNames(g)[i] \in Name /\ Sub(g, i) \in DOMAIN schema
  BY <1>1, GroupFacts
<1>4. \A i \in DOMAIN SubNames(g) : Under(g, Sub(g, i)) /\ Sub(g, i) # << >>
  <2> TAKE i \in DOMAIN SubNames(g)
  <2>1. /\ Len(Sub(g, i)) = Len(g) + 1 /\ \A j \in 1 .. Len(g) : Sub(g, i)[j] = g[j]
        /\ Sub(g, i) # << >>
    BY <1>3, AppendIs DEF Sub
  <2> QED
    BY <1>3, <2>1 DEF Under
<1>5. ASSUME NEW k \in 0 .. Count(g), h = GroupAt(g, k)
      PROVE  Under(g, h)
  <2>1. k = 0 \/ k \in DOMAIN SubNames(g)
    BY <1>2
  <2>2. Under(g, g)
    BY <1>3 DEF Under
  <2> QED
    BY <1>4, <1>5, <2>1, <2>2 DEF GroupAt
<1>6. ASSUME Under(g, h)
      PROVE  \E k \in 0 .. Count(g) : h = GroupAt(g, k)
  <2>1. CASE h = g
    <3>1. 0 \in 0 .. Count(g)
      BY <1>2
    <3> QED
      BY <2>1, <3>1 DEF GroupAt
  <2>2. CASE h # g
    <3>1. PICK i \in DOMAIN SubNames(g) : Under(Sub(g, i), h)
      BY <1>1, <1>6, <2>2, UnderSub
    <3>2. Sub(g, i) \in DOMAIN schema /\ Sub(g, i) # << >>
      BY <1>3, <1>4
    <3>3. SubNames(Sub(g, i)) = << >>
      BY <3>2, OnlyFlat
    <3>4. DOMAIN SubNames(Sub(g, i)) = {}
      BY <3>3
    <3>5. h = Sub(g, i)
      BY <1>1, <3>1, <3>2, <3>4, UnderSub
    <3>6. i \in 0 .. Count(g) /\ i # 0
      BY <1>2
    <3> QED
      BY <3>5, <3>6 DEF GroupAt
  <2> QED
    BY <2>1, <2>2
<1> QED
  BY <1>1, <1>5, <1>6, BelowIs

LEMMA PathsAre ==
    ASSUME NEW g
    PROVE  /\ \A path \in PathsBelow(g) : \E h \in DOMAIN schema : \E v \in ToSet(Vars(h)) :
                 IsPrefix(g, h) /\ path = Append(h, v.name)
           /\ \A h \in DOMAIN schema : \A v \in ToSet(Vars(h)) :
                 IsPrefix(g, h) => /\ << Append(h, v.name), v >> \in FieldsBelow(g)
                                   /\ Append(h, v.name) \in PathsBelow(g)
<1> DEFINE B == {h \in DOMAIN schema : IsPrefix(g, h)}
           F(h) == {<< Append(h, v.name), v >> : v \in ToSet(Vars(h))}
<1>1. FieldsBelow(g) = UNION {F(h) : h \in B}
  BY DEF FieldsBelow, Vars
<1>2. ASSUME NEW path \in PathsBelow(g)
      PROVE  \E h \in DOMAIN schema : \E v \in ToSet(Vars(h)) :
                IsPrefix(g, h) /\ path = Append(h, v.name)
  <2>1. PICK f \in FieldsBelow(g) : path = f[1]
    BY <1>2 DEF PathsBelow
  <2>2. PICK h \in B : f \in F(h)
    BY <1>1, <2>1
  <2>3. PICK v \in ToSet(Vars(h)) : f = << Append(h, v.name), v >>
    BY <2>2
  <2>4. path = Append(h, v.name)
    BY <2>1, <2>3
  <2>5. h \in DOMAIN schema /\ IsPrefix(g, h)
    BY <2>2
  <2> QED
    BY <2>3, <2>4, <2>5
<1>3. ASSUME NEW h \in DOMAIN schema, NEW v \in ToSet(Vars(h)), IsPrefix(g, h)
      PROVE  /\ << Append(h, v.name), v >> \in FieldsBelow(g)
             /\ Append(h, v.name) \in PathsBelow(g)
  <2> DEFINE f == << Append(h, v.name), v >>
  <2>1. h \in B /\ f \in F(h)
    BY <1>3
  <2>2. f \in FieldsBelow(g)
    BY <1>1, <2>1
  <2>3. f[1] = Append(h, v.name)
    OBVIOUS
  <2> HIDE DEF f
  <2>4. Append(h, v.name) \in PathsBelow(g)
    BY <2>2, <2>3 DEF PathsBelow
  <2> QED
    BY <2>2, <2>4 DEF f
<1> QED
  BY <1>2, <1>3

(* A whole program passes every field once.                                *)
LEMMA WholeVisits ==
    ASSUME Generated, Compiled, Defined # {}, stage \notin WalkStages, NEW g \in DOMAIN schema,
           NEW at, Sized(Blocks(g), at, Count(g)), NEW op \in Op,
           trace[op] \in Seq(AnyField), WholeOf(g, trace[op], at)
    PROVE  Visits(op, PathsBelow(g))
<1> DEFINE t == trace[op]
           b == Blocks(g)
           n == Count(g)
<1>1. schema \in Schemas /\ n \in Nat
  BY GroupAtFacts DEF Generated
<1>2. DOMAIN t = 1 .. Len(t) /\ Len(t) \in Nat
  OBVIOUS
<1>3. Whole(b, n, t, at) /\ Sized(b, at, n)
  BY DEF WholeOf
<1> HIDE DEF t, b, n
<1>4. /\ \A i \in 0 .. n : at[i] \in Nat /\ Len(b[i]) \in Nat
      /\ \A i \in 0 .. n : \A m \in 1 .. Len(b[i]) :
            at[i] + m \in 1 .. Len(t) /\ t[at[i] + m] = b[i][m]
      /\ \A x \in 1 .. Len(t) : \E i \in 0 .. n : \E m \in 1 .. Len(b[i]) : x = at[i] + m
  BY <1>1, <1>2, <1>3, WholeIs
<1>5. \A x \in 1 .. Len(t) : \E i \in 0 .. n : \E m \in 1 .. Len(b[i]) :
          x = at[i] + m /\ t[x] = b[i][m]
  <2> SUFFICES ASSUME NEW x \in 1 .. Len(t)
               PROVE  \E i \in 0 .. n : \E m \in 1 .. Len(b[i]) : x = at[i] + m /\ t[x] = b[i][m]
    OBVIOUS
  <2>1. PICK i \in 0 .. n : \E m \in 1 .. Len(b[i]) : x = at[i] + m
    BY <1>4
  <2>2. PICK m \in 1 .. Len(b[i]) : x = at[i] + m
    BY <2>1
  <2>3. t[x] = b[i][m]
    BY <1>4, <2>2
  <2> QED
    BY <2>2, <2>3
<1>6. ASSUME NEW x \in 1 .. Len(t), NEW y \in 1 .. Len(t), t[x].path = t[y].path
      PROVE  x = y
  <2>1. PICK i \in 0 .. n : \E m \in 1 .. Len(b[i]) : x = at[i] + m /\ t[x] = b[i][m]
    BY <1>5
  <2>2. PICK m \in 1 .. Len(b[i]) : x = at[i] + m /\ t[x] = b[i][m]
    BY <2>1
  <2>3. PICK k \in 0 .. n : \E p \in 1 .. Len(b[k]) : y = at[k] + p /\ t[y] = b[k][p]
    BY <1>5
  <2>4. PICK p \in 1 .. Len(b[k]) : y = at[k] + p /\ t[y] = b[k][p]
    BY <2>3
  <2>5. b[i][m].path = b[k][p].path
    BY <1>6, <2>2, <2>4
  <2>6. i = k /\ m = p
    BY <1>1, <2>5, BlockPathInjective DEF b, n
  <2> QED
    BY <2>2, <2>4, <2>6
<1>7. ASSUME NEW x \in 1 .. Len(t)
      PROVE  t[x].path \in PathsBelow(g)
  <2>1. PICK i \in 0 .. n : \E m \in 1 .. Len(b[i]) : x = at[i] + m /\ t[x] = b[i][m]
    BY <1>5
  <2>2. PICK m \in 1 .. Len(b[i]) : x = at[i] + m /\ t[x] = b[i][m]
    BY <2>1
  <2> DEFINE h == GroupAt(g, i)
  <2>3. /\ h \in DOMAIN schema /\ m \in DOMAIN Vars(h)
        /\ b[i][m] = Field(Append(h, Vars(h)[m].name), Vars(h)[m])
    BY <1>1, BlockPath DEF b, n
  <2>4. IsPrefix(g, h)
    BY <2>3, GroupsBelow DEF n
  <2> HIDE DEF h
  <2>5. Vars(h)[m] \in ToSet(Vars(h)) /\ t[x].path = Append(h, Vars(h)[m].name)
    <3>1. t[x] = Field(Append(h, Vars(h)[m].name), Vars(h)[m])
      BY <2>2, <2>3
    <3>2. t[x].path = Append(h, Vars(h)[m].name)
      BY <3>1, FieldPath
    <3>3. Vars(h)[m] \in ToSet(Vars(h))
      BY <1>1, <2>3, VariableName
    <3> QED
      BY <3>2, <3>3
  <2> QED
    BY <2>3, <2>4, <2>5, PathsAre
<1>8. ASSUME NEW path \in PathsBelow(g)
      PROVE  \E x \in 1 .. Len(t) : t[x].path = path
  <2>1. PICK h \in DOMAIN schema : \E v \in ToSet(Vars(h)) :
            IsPrefix(g, h) /\ path = Append(h, v.name)
    BY PathsAre
  <2>2. PICK v \in ToSet(Vars(h)) : IsPrefix(g, h) /\ path = Append(h, v.name)
    BY <2>1
  <2>3. PICK m \in DOMAIN Vars(h) : v = Vars(h)[m]
    BY DEF ToSet
  <2>4. PICK i \in 0 .. n : h = GroupAt(g, i)
    BY <2>2, GroupsBelow DEF n
  <2>5. /\ m \in 1 .. Len(b[i])
        /\ b[i][m] = Field(Append(h, Vars(h)[m].name), Vars(h)[m])
    BY <1>1, <2>3, <2>4, BlockPath DEF b, n
  <2>6. b[i][m].path = path
    BY <2>2, <2>3, <2>5, FieldPath
  <2>7. at[i] + m \in 1 .. Len(t) /\ t[at[i] + m] = b[i][m]
    BY <1>4, <2>4, <2>5
  <2> QED
    BY <2>6, <2>7
<1>9. Once(t) /\ {t[x].path : x \in DOMAIN t} = PathsBelow(g)
  BY <1>2, <1>6, <1>7, <1>8 DEF Once
<1> QED
  BY <1>9 DEF Visits, t

(***************************************************************************)
(* Whatever the schema and the group: the program writes and reads every   *)
(* field of the group and of the groups below exactly once, and no other   *)
(* (dump_source_read_group, dump_source_write_group, README.md), for every *)
(* build without a namespace in a namespace.                               *)
(***************************************************************************)
THEOREM GroupIsReadAndWritten ==
    ASSUME PlainSpaces(Builds)
    PROVE  Spec => []WholeGroup
<1>1. ASSUME Generated, Running
      PROVE  WholeGroup
  <2>1. ASSUME stage \in {"read", "done"}
        PROVE  Visits("write", PathsBelow(top)) /\ (stage = "done" => Visits("read", PathsBelow(top)))
    <3>1. /\ stage \in ProgramStages /\ stage # "write" /\ stage \notin WalkStages
          /\ "read" \in Op /\ "write" \in Op
      BY <2>1 DEF ProgramStages, WalkStages, Op
    <3>2. PICK at : /\ at \in [Nat -> Nat] /\ WholeOf(top, trace["write"], at)
                    /\ stage = "done" => WholeOf(top, trace["read"], at)
      BY <1>1, <3>1 DEF Running
    <3>3. /\ top \in DOMAIN schema /\ Sized(Blocks(top), at, Count(top))
          /\ trace["write"] \in Seq(AnyField) /\ trace["read"] \in Seq(AnyField)
      BY <1>1, <3>1, <3>2, TopFacts
    <3>4. Compiled /\ Defined # {}
      BY <1>1, <3>1 DEF Running
    <3>5. Visits("write", PathsBelow(top))
      BY <1>1, <3>1, <3>2, <3>3, <3>4, WholeVisits
    <3>6. stage = "done" => Visits("read", PathsBelow(top))
      BY <1>1, <3>1, <3>2, <3>3, <3>4, WholeVisits
    <3> QED
      BY <3>5, <3>6
  <2> QED
    BY <2>1 DEF WholeGroup
<1>2. Spec => [](Generated /\ Running)
  BY AlwaysRunning
<1> QED
  BY <1>1, <1>2, PTL

-----------------------------------------------------------------------------
(* The elements of the fields, and the types of the variables.             *)
LEMMA AnyFieldIs ==
    ASSUME schema \in Schemas, NEW field \in AnyField
    PROVE  \E h \in DOMAIN schema : \E v \in ToSet(Vars(h)) : field = Field(Append(h, v.name), v)
<1>1. PICK h \in DOMAIN schema : field \in ToSet(FieldsOf(h))
  BY DEF AnyField
<1>2. PICK m \in DOMAIN FieldsOf(h) : field = FieldsOf(h)[m]
  BY <1>1 DEF ToSet
<1>3. m \in DOMAIN Vars(h) /\ field = Field(Append(h, Vars(h)[m].name), Vars(h)[m])
  BY <1>2, FieldsFacts
<1>4. Vars(h)[m] \in ToSet(Vars(h))
  BY <1>3, VariableName
<1> QED
  BY <1>3, <1>4

LEMMA PathVariable ==
    ASSUME schema \in Schemas, NEW h \in DOMAIN schema, NEW v \in ToSet(Vars(h)),
           NEW k \in DOMAIN schema, NEW w \in ToSet(Vars(k)), Append(h, v.name) = Append(k, w.name)
    PROVE  h = k /\ v = w
<1>1. PICK m \in DOMAIN Vars(h) : v = Vars(h)[m]
  BY DEF ToSet
<1>2. PICK p \in DOMAIN Vars(k) : w = Vars(k)[p]
  BY DEF ToSet
<1>3. h \in Seq(Name) /\ v.name \in Name
  BY <1>1, VariableName
<1>4. k \in Seq(Name) /\ w.name \in Name
  BY <1>2, VariableName
<1>5. Front(Append(h, v.name)) = h /\ Last(Append(h, v.name)) = v.name
  BY <1>3, AppendFront
<1>6. Front(Append(k, w.name)) = k /\ Last(Append(k, w.name)) = w.name
  BY <1>4, AppendFront
<1>7. h = k /\ v.name = w.name
  BY <1>5, <1>6
<1>8. m = p
  BY <1>1, <1>2, <1>7, VariableName
<1> QED
  BY <1>1, <1>2, <1>7, <1>8

LEMMA FieldsBelowAre ==
    ASSUME NEW g, NEW f \in FieldsBelow(g)
    PROVE  \E h \in DOMAIN schema : \E v \in ToSet(Vars(h)) :
              f[1] = Append(h, v.name) /\ f[2] = v
<1> DEFINE B == {h \in DOMAIN schema : IsPrefix(g, h)}
           F(h) == {<< Append(h, v.name), v >> : v \in ToSet(Vars(h))}
<1>1. FieldsBelow(g) = UNION {F(h) : h \in B}
  BY DEF FieldsBelow, Vars
<1>2. PICK h \in B : f \in F(h)
  BY <1>1
<1>3. PICK v \in ToSet(Vars(h)) : f = << Append(h, v.name), v >>
  BY <1>2
<1>4. f[1] = Append(h, v.name) /\ f[2] = v
  BY <1>3
<1> QED
  BY <1>2, <1>4

LEMMA TypeFits ==
    ASSUME NEW type \in Fitting
    PROVE  InMemory(CppName(type)) = InFile(type)
<1>1. /\ CppName("byte") = "int8_t" /\ CppName("ubyte") = "uint8_t"
      /\ CppName("short") = "int16_t" /\ CppName("ushort") = "uint16_t"
      /\ CppName("int") = "int" /\ CppName("int64") = "int64_t"
      /\ CppName("uint64") = "uint64_t"
      /\ CppName("float") = "float" /\ CppName("double") = "double"
  BY DEF CppName
<1>2. /\ InMemory("int8_t") = <<"signed", 1>> /\ InMemory("uint8_t") = <<"unsigned", 1>>
      /\ InMemory("int16_t") = <<"signed", 2>> /\ InMemory("uint16_t") = <<"unsigned", 2>>
      /\ InMemory("int") = <<"signed", 4>> /\ InMemory("int64_t") = <<"signed", 8>>
      /\ InMemory("uint64_t") = <<"unsigned", 8>>
      /\ InMemory("float") = <<"floating", 4>> /\ InMemory("double") = <<"floating", 8>>
  BY DEF InMemory
<1>3. /\ InFile("byte") = <<"signed", 1>> /\ InFile("ubyte") = <<"unsigned", 1>>
      /\ InFile("short") = <<"signed", 2>> /\ InFile("ushort") = <<"unsigned", 2>>
      /\ InFile("int") = <<"signed", 4>> /\ InFile("int64") = <<"signed", 8>>
      /\ InFile("uint64") = <<"unsigned", 8>>
      /\ InFile("float") = <<"floating", 4>> /\ InFile("double") = <<"floating", 8>>
  BY DEF InFile
<1> QED
  BY <1>1, <1>2, <1>3 DEF Fitting

(***************************************************************************)
(* For variables of the types whose names agree, whatever the schema: the  *)
(* elements that a pipe call passes are those of the file, nested once for *)
(* each dimension (cpp_name_for_nctype, container_for_dimensions).         *)
(***************************************************************************)
THEOREM ElementsAlwaysFit ==
    ASSUME PlainSpaces(Builds), FittingTypes(Schemas)
    PROVE  Spec => []ElementsFit
<1>1. ASSUME Generated, Running
      PROVE  ElementsFit
  <2>1. schema \in Schemas /\ trace \in [Op -> Seq(AnyField)]
    BY <1>1 DEF Generated, Running
  <2>2. ASSUME NEW op \in Op, NEW field \in ToSet(trace[op]), NEW f \in FieldsBelow(<< >>),
               f[1] = field.path
        PROVE  InMemory(field.element) = InFile(f[2].type) /\ field.container[2] = f[2].rank
    <3>1. field \in AnyField
      <4>1. trace[op] \in Seq(AnyField)
        BY <2>1
      <4>2. PICK i \in DOMAIN trace[op] : field = trace[op][i]
        BY DEF ToSet
      <4> QED
        BY <4>1, <4>2
    <3>2. PICK h \in DOMAIN schema : \E v \in ToSet(Vars(h)) : field = Field(Append(h, v.name), v)
      BY <2>1, <3>1, AnyFieldIs
    <3>3. PICK v \in ToSet(Vars(h)) : field = Field(Append(h, v.name), v)
      BY <3>2
    <3>4. PICK k \in DOMAIN schema : \E w \in ToSet(Vars(k)) :
              f[1] = Append(k, w.name) /\ f[2] = w
      BY FieldsBelowAre
    <3>5. PICK w \in ToSet(Vars(k)) : f[1] = Append(k, w.name) /\ f[2] = w
      BY <3>4
    <3>6. field.path = Append(h, v.name)
      BY <3>3, FieldPath
    <3>7. v = w
      <4>1. Append(h, v.name) = Append(k, w.name)
        BY <2>2, <3>5, <3>6
      <4> QED
        BY <2>1, <4>1, PathVariable
    <3>8. field.element = CppName(v.type) /\ field.container = << CppName(v.type), v.rank >>
      BY <3>3 DEF Field, Container
    <3>9. v.type \in Fitting
      <4>1. PICK m \in DOMAIN schema[h].vars : v = schema[h].vars[m]
        BY DEF ToSet, Vars
      <4> QED
        BY <2>1, <4>1 DEF FittingTypes
    <3>10. InMemory(CppName(v.type)) = InFile(v.type)
      BY <3>9, TypeFits
    <3>11. field.container[2] = v.rank
      BY <3>8
    <3> QED
      BY <3>5, <3>7, <3>8, <3>10, <3>11
  <2> QED
    BY <2>2 DEF ElementsFit
<1>2. Spec => [](Generated /\ Running)
  BY AlwaysRunning
<1> QED
  BY <1>1, <1>2, PTL

(***************************************************************************)
(* No program runs for a file with a group within a group within the root: *)
(* the compiler rejects what is generated for any such schema, because the *)
(* call of a group qualifies the function with the struct around it        *)
(* (dump_source_read_group), whatever the build.                           *)
(***************************************************************************)
OnlyFlatSchemasRun == stage \in ProgramStages => \A g \in DOMAIN schema : Len(g) <= 1

THEOREM NestedGroupsNeverRun ==
    ASSUME PlainSpaces(Builds)
    PROVE  Spec => []OnlyFlatSchemasRun
<1>1. ASSUME Generated, Running
      PROVE  OnlyFlatSchemasRun
  <2> SUFFICES ASSUME stage \in ProgramStages, NEW g \in DOMAIN schema, ~ (Len(g) <= 1)
               PROVE  FALSE
    BY DEF OnlyFlatSchemasRun
  <2> DEFINE n == Len(g) - 1
             h == SubSeq(g, 1, n)
  <2>1. /\ g \in Seq(Name) /\ Len(g) \in Nat
        /\ \A m \in 0 .. Len(g) - 1 : /\ SubSeq(g, 1, m) \in DOMAIN schema
                                      /\ g[m + 1] \in ToSet(SubNames(SubSeq(g, 1, m)))
    BY <1>1, GroupFacts DEF Generated
  <2>2. n \in 0 .. Len(g) - 1 /\ n \in Nat /\ n # 0 /\ n <= Len(g)
    BY <2>1
  <2>3. h \in DOMAIN schema /\ g[n + 1] \in ToSet(SubNames(h))
    BY <2>1, <2>2
  <2>4. Len(h) = n
    BY <2>1, <2>2, BeginningIs
  <2> HIDE DEF h, n
  <2>5. h # << >>
    BY <2>2, <2>4
  <2>6. stage \notin WalkStages /\ Compiled /\ Defined # {}
    BY <1>1, ProgramStagesFacts DEF Running
  <2>7. SubNames(h) = << >>
    BY <1>1, <2>3, <2>5, <2>6, OnlyFlat
  <2> QED
    BY <2>3, <2>7 DEF ToSet
<1>2. Spec => [](Generated /\ Running)
  BY AlwaysRunning
<1> QED
  BY <1>1, <1>2, PTL

-----------------------------------------------------------------------------
(* The types.                                                              *)
LEMMA ReverseIs ==
    ASSUME NEW S, NEW s \in Seq(S)
    PROVE  /\ Reverse(s) \in Seq(S) /\ Len(Reverse(s)) = Len(s) /\ Len(s) \in Nat
           /\ \A i \in 1 .. Len(s) : Reverse(s)[i] = s[(Len(s) - i) + 1]
<1> DEFINE n == Len(s)
           r == Reverse(s)
<1>1. n \in Nat
  OBVIOUS
<1>2. r = [i \in 1 .. n |-> s[(n - i) + 1]]
  BY DEF Reverse
<1>3. \A i \in 1 .. n : (n - i) + 1 \in 1 .. n
  BY <1>1
<1>4. \A i \in 1 .. n : s[(n - i) + 1] \in S
  BY <1>3
<1> HIDE DEF n, r
<1>5. r \in Seq(S) /\ Len(r) = n /\ \A i \in 1 .. n : r[i] = s[(n - i) + 1]
  BY <1>1, <1>2, <1>4
<1> QED
  BY <1>1, <1>5 DEF n, r

LEMMA SuffixIs ==
    ASSUME CommandsLeft, build \in Seq(AnyCommand)
    PROVE  IsSuffix(commands, build)
<1> DEFINE c == commands
           b == build
           r == Reverse(c)
           q == Reverse(b)
           m == Len(c)
           n == Len(b)
<1>1. c \in Seq(AnyCommand) /\ m <= n /\ \A i \in 1 .. m : c[i] = b[(n - m) + i]
  BY DEF CommandsLeft
<1>2. /\ r \in Seq(AnyCommand) /\ Len(r) = m /\ m \in Nat
      /\ \A i \in 1 .. m : r[i] = c[(m - i) + 1]
  BY <1>1, ReverseIs
<1>3. /\ q \in Seq(AnyCommand) /\ Len(q) = n /\ n \in Nat
      /\ \A i \in 1 .. n : q[i] = b[(n - i) + 1]
  BY ReverseIs
<1> HIDE DEF c, b, r, q, m, n
<1>4. ASSUME NEW i \in 1 .. m
      PROVE  r[i] = q[i]
  <2>1. (m - i) + 1 \in 1 .. m /\ i \in 1 .. n
    BY <1>1, <1>2, <1>3
  <2>2. c[(m - i) + 1] = b[(n - m) + ((m - i) + 1)]
    BY <1>1, <2>1
  <2>3. (n - m) + ((m - i) + 1) = (n - i) + 1
    BY <1>2, <1>3
  <2> QED
    BY <1>2, <1>3, <2>1, <2>2, <2>3
<1>5. IsPrefix(r, q)
  BY <1>1, <1>2, <1>3, <1>4, PrefixIs
<1> QED
  BY <1>5 DEF IsSuffix, r, q, c, b

(***************************************************************************)
(* The groups still to be visited are those of the schema, every function  *)
(* declared or defined is for a supported pipe, and every field that the   *)
(* program passes to a pipe is one of the file, for every build without a  *)
(* namespace in a namespace.                                               *)
(***************************************************************************)
THEOREM GeneratorTypeCorrect ==
    ASSUME PlainSpaces(Builds)
    PROVE  Spec => []TypeOK
<1>1. ASSUME Generated, Running
      PROVE  TypeOK
  <2>1. schema \in Schemas /\ build \in Builds /\ stage \in Stages
    BY <1>1 DEF Generated
  <2>2. IsSuffix(commands, build)
    <3>1. build \in Seq(AnyCommand)
      BY <2>1, BuildAssumption DEF AnyCommand
    <3> QED
      BY <1>1, <3>1, SuffixIs DEF Generated
  <2>3. \A i \in DOMAIN pending : pending[i].group \in DOMAIN schema
    <3>1. CASE stage \in WalkStages
      <4>1. pending \in Seq(Visits1(Current.space))
        BY <1>1, <3>1 DEF Generated, WalkUnderWay
      <4>2. \A v \in Visits1(Current.space) : v.group \in DOMAIN schema
        BY DEF Visits1, Visit
      <4>3. \A i \in DOMAIN pending : pending[i] \in Visits1(Current.space)
        BY <4>1
      <4> QED
        BY <4>2, <4>3
    <3>2. CASE stage \notin WalkStages
      <4>1. pending = << >>
        BY <1>1, <3>2 DEF Generated, WalkUnderWay
      <4> QED
        BY <4>1
    <3> QED
      BY <3>1, <3>2
  <2>4. \A f \in header.functions \cup Defined : f.op \in Op /\ f.pipe \in Supported
    <3>1. \A f \in AnyFunction : f.op \in Op /\ f.pipe \in Supported
      BY DEF AnyFunction, Function
    <3>2. header.functions \subseteq AnyFunction
      BY <1>1 DEF Generated, FilesTyped
    <3>3. Defined \subseteq AnyFunction
      BY <1>1, DefinedTyped
    <3> QED
      BY <3>1, <3>2, <3>3
  <2>5. top = << >> \/ top \in DOMAIN schema
    BY <1>1 DEF Running
  <2>6. ASSUME NEW op \in Op, NEW i \in DOMAIN trace[op]
        PROVE  trace[op][i].path \in PathsBelow(<< >>)
    <3>1. trace[op] \in Seq(AnyField)
      BY <1>1 DEF Running
    <3>2. trace[op][i] \in AnyField
      BY <3>1
    <3>3. PICK h \in DOMAIN schema : \E v \in ToSet(Vars(h)) :
              trace[op][i] = Field(Append(h, v.name), v)
      BY <2>1, <3>2, AnyFieldIs
    <3>4. PICK v \in ToSet(Vars(h)) : trace[op][i] = Field(Append(h, v.name), v)
      BY <3>3
    <3>5. trace[op][i].path = Append(h, v.name)
      BY <3>4, FieldPath
    <3>6. IsPrefix(<< >>, h)
      <4>1. h \in Seq(Name) /\ << >> \in Seq(Name)
        BY <2>1, GroupFacts, EmptySeq
      <4>2. Len(h) \in Nat /\ Len(<< >>) = 0
        BY <4>1
      <4>3. Len(<< >>) <= Len(h) /\ \A j \in 1 .. Len(<< >>) : << >>[j] = h[j]
        BY <4>2
      <4> QED
        BY <4>1, <4>3, PrefixIs
    <3> QED
      BY <3>5, <3>6, PathsAre
  <2> QED
    BY <2>1, <2>2, <2>3, <2>4, <2>5, <2>6 DEF TypeOK
<1>2. Spec => [](Generated /\ Running)
  BY AlwaysRunning
<1> QED
  BY <1>1, <1>2, PTL
=============================================================================
