---------------------------- MODULE ParserProofs ----------------------------
(***************************************************************************)
(* Whatever the text, the parser keeps what it has declared, and gives no  *)
(* variable a type that is out of scope: the proofs, for texts of any      *)
(* length and groups nested to any depth.                                  *)
(***************************************************************************)
EXTENDS Parser, WellFoundedInduction, TLAPS

-----------------------------------------------------------------------------
(* Sequences of anything.                                                  *)
IsSeq(s) == s \in Seq(ToSet(s))

LEMMA SeqIs ==
    ASSUME NEW s, IsSeq(s)
    PROVE  /\ Len(s) \in Nat /\ DOMAIN s = 1 .. Len(s)
           /\ \A x \in ToSet(s) : \E i \in 1 .. Len(s) : s[i] = x
           /\ \A i \in 1 .. Len(s) : s[i] \in ToSet(s)
  BY DEF IsSeq, ToSet

LEMMA SeqMember ==
    ASSUME NEW S, NEW s, s \in Seq(S)
    PROVE  IsSeq(s)
<1> DEFINE T == ToSet(s)
<1>1. Len(s) \in Nat /\ s = [i \in 1 .. Len(s) |-> s[i]]
  OBVIOUS
<1>2. \A i \in 1 .. Len(s) : s[i] \in T
  BY <1>1 DEF ToSet
<1> HIDE DEF T
<1>3. s \in Seq(T)
  BY <1>1, <1>2
<1> QED
  BY <1>3 DEF IsSeq, T

LEMMA SeqAppend ==
    ASSUME NEW s, IsSeq(s), NEW x
    PROVE  /\ IsSeq(Append(s, x)) /\ Len(Append(s, x)) = Len(s) + 1
           /\ Append(s, x)[Len(s) + 1] = x
           /\ \A i \in 1 .. Len(s) : Append(s, x)[i] = s[i]
           /\ ToSet(Append(s, x)) = ToSet(s) \cup {x}
           /\ Append(s, x) # << >>
<1> DEFINE S == ToSet(s) \cup {x}
           t == Append(s, x)
<1>1. s \in Seq(S) /\ x \in S /\ Len(s) \in Nat
  BY SeqIs DEF IsSeq
<1> HIDE DEF S
<1>2. t \in Seq(S) /\ Len(t) = Len(s) + 1
  BY <1>1
<1>3. t[Len(s) + 1] = x
  BY <1>1
<1>4. \A i \in 1 .. Len(s) : t[i] = s[i]
  BY <1>1
<1> HIDE DEF t
<1>5. IsSeq(t)
  BY <1>2, SeqMember
<1>6. \A i \in 1 .. Len(t) : i \in 1 .. Len(s) \/ i = Len(s) + 1
  BY <1>1, <1>2
<1>7. ToSet(t) = ToSet(s) \cup {x}
  <2>1. ASSUME NEW y \in ToSet(t)
        PROVE  y \in ToSet(s) \cup {x}
    BY <1>3, <1>4, <1>5, <1>6, SeqIs
  <2>2. ASSUME NEW y \in ToSet(s)
        PROVE  y \in ToSet(t)
    <3>1. PICK i \in 1 .. Len(s) : s[i] = y
      BY SeqIs
    <3>2. i \in 1 .. Len(t) /\ t[i] = y
      BY <1>1, <1>2, <1>4, <3>1
    <3> QED
      BY <1>5, <3>2, SeqIs
  <2>3. x \in ToSet(t)
    BY <1>1, <1>2, <1>3, <1>5, SeqIs
  <2> QED
    BY <2>1, <2>2, <2>3
<1>8. t # << >>
  BY <1>1, <1>2
<1> QED
  BY <1>2, <1>3, <1>4, <1>5, <1>7, <1>8 DEF t

LEMMA SeqSet ==
    ASSUME NEW s, IsSeq(s), s # << >>, NEW x
    PROVE  /\ IsSeq([s EXCEPT ![Len(s)] = x]) /\ Len([s EXCEPT ![Len(s)] = x]) = Len(s)
           /\ [s EXCEPT ![Len(s)] = x][Len(s)] = x
           /\ \A i \in 1 .. Len(s) - 1 : [s EXCEPT ![Len(s)] = x][i] = s[i]
<1> DEFINE S == ToSet(s) \cup {x}
           t == [s EXCEPT ![Len(s)] = x]
<1>1. s \in Seq(S) /\ x \in S /\ Len(s) \in Nat /\ DOMAIN s = 1 .. Len(s) /\ Len(s) # 0
  BY SeqIs DEF IsSeq
<1> HIDE DEF S
<1>2. t \in Seq(S) /\ Len(t) = Len(s)
  BY <1>1
<1>3. t[Len(s)] = x /\ \A i \in 1 .. Len(s) - 1 : t[i] = s[i]
  BY <1>1
<1> QED
  BY <1>2, <1>3, SeqMember

LEMMA Beginning ==
    ASSUME NEW S, NEW s \in Seq(S), NEW k \in Nat, k <= Len(s)
    PROVE  /\ SubSeq(s, 1, k) \in Seq(S) /\ Len(SubSeq(s, 1, k)) = k
           /\ \A i \in 1 .. k : SubSeq(s, 1, k)[i] = s[i]
  OBVIOUS

LEMMA SeqFront ==
    ASSUME NEW s, IsSeq(s), s # << >>
    PROVE  /\ IsSeq(Front(s)) /\ Len(Front(s)) = Len(s) - 1
           /\ \A i \in 1 .. Len(s) - 1 : Front(s)[i] = s[i]
<1> DEFINE S == ToSet(s)
           n == Len(s)
           t == SubSeq(s, 1, n - 1)
<1>1. s \in Seq(S) /\ n \in Nat /\ n # 0
  BY SeqIs DEF IsSeq
<1> HIDE DEF S
<1>2. n - 1 \in Nat /\ n - 1 <= Len(s)
  BY <1>1
<1>3. t \in Seq(S) /\ Len(t) = n - 1 /\ \A i \in 1 .. n - 1 : t[i] = s[i]
  BY <1>1, <1>2, Beginning
<1> QED
  BY <1>3, SeqMember DEF Front

LEMMA SeqEmpty == IsSeq(<< >>) /\ Len(<< >>) = 0 /\ ToSet(<< >>) = {}
<1>1. << >> \in Seq({}) /\ Len(<< >>) = 0
  OBVIOUS
<1>2. ToSet(<< >>) = {}
  BY DEF ToSet
<1> QED
  BY <1>1, <1>2, SeqMember

LEMMA SeqOne ==
    ASSUME NEW x
    PROVE  IsSeq(<< x >>) /\ Len(<< x >>) = 1 /\ << x >>[1] = x
<1>1. << x >> \in Seq({x}) /\ Len(<< x >>) = 1 /\ << x >>[1] = x
  OBVIOUS
<1> QED
  BY <1>1, SeqMember

LEMMA PrefixOf ==
    ASSUME NEW s, IsSeq(s), NEW t, IsSeq(t), Len(s) <= Len(t),
           \A i \in 1 .. Len(s) : s[i] = t[i]
    PROVE  IsPrefix(s, t) /\ ToSet(s) \subseteq ToSet(t)
<1> DEFINE S == ToSet(s) \cup ToSet(t)
           n == Len(s)
           f == SubSeq(s, 1, n)
           g == SubSeq(t, 1, n)
<1>1. s \in Seq(S) /\ t \in Seq(S) /\ n \in Nat /\ Len(t) \in Nat
  BY SeqIs DEF IsSeq
<1> HIDE DEF S
<1>2. f \in Seq(S) /\ Len(f) = n /\ \A i \in 1 .. n : f[i] = s[i]
  BY <1>1
<1>3. g \in Seq(S) /\ Len(g) = n /\ \A i \in 1 .. n : g[i] = t[i]
  BY <1>1
<1> HIDE DEF f, g
<1>4. f = g
  BY <1>1, <1>2, <1>3
<1>5. IsPrefix(s, t)
  BY <1>4 DEF IsPrefix, f, g
<1>6. ASSUME NEW x \in ToSet(s)
      PROVE  x \in ToSet(t)
  <2>1. PICK i \in 1 .. n : s[i] = x
    BY SeqIs
  <2>2. i \in 1 .. Len(t) /\ t[i] = x
    BY <1>1, <2>1
  <2> QED
    BY <2>2, SeqIs
<1> QED
  BY <1>5, <1>6

-----------------------------------------------------------------------------
(* A set of natural numbers that is not empty has a least one.             *)
LEMMA LeastNumber ==
    ASSUME NEW ids \in SUBSET Nat, ids # {}
    PROVE  \E x \in ids : \A y \in ids : ~ (y < x)
<1>1. PICK x \in ids : \A y \in ids : ~ (<<y, x>> \in OpToRel(<, Nat))
  BY NatLessThanWellFounded, WFMin, Zenon
<1>2. ASSUME NEW y \in ids, y < x
      PROVE  <<y, x>> \in OpToRel(<, Nat)
  BY <1>2, Zenon DEF OpToRel
<1> QED
  BY <1>1, <1>2, Zenon

LEMMA LeastFrom ==
    ASSUME NEW a \in Nat, NEW b \in Nat, a <= b, NEW S, b \in S
    PROVE  \E x \in a .. b : x \in S /\ \A k \in a .. x - 1 : k \notin S
<1> DEFINE ids == {m \in a .. b : m \in S}
<1>1. ids \in SUBSET Nat /\ b \in ids
  OBVIOUS
<1>2. PICK x \in ids : \A y \in ids : ~ (y < x)
  BY <1>1, LeastNumber
<1>3. x \in a .. b /\ x \in S
  BY <1>2
<1>4. ASSUME NEW k \in a .. x - 1, k \in S
      PROVE  FALSE
  <2>1. k \in ids /\ k < x
    BY <1>3, <1>4
  <2> QED
    BY <1>2, <2>1
<1> QED
  BY <1>3, <1>4

LEMMA MinIs ==
    ASSUME NEW ids \in SUBSET Nat, ids # {}
    PROVE  Min(ids) \in ids /\ \A y \in ids : Min(ids) <= y
<1>1. PICK x \in ids : \A y \in ids : ~ (y < x)
  BY LeastNumber
<1>2. \A y \in ids : x =< y
  BY <1>1
<1> QED
  BY <1>2 DEF Min

LEMMA MaxIs ==
    ASSUME NEW n \in Nat, NEW ids \in SUBSET (1 .. n), ids # {}
    PROVE  Max(ids) \in ids
<1> DEFINE from == {n - y : y \in ids}
<1>1. from \in SUBSET Nat /\ from # {}
  <2>1. \A y \in ids : n - y \in Nat /\ n - y \in from
    OBVIOUS
  <2> QED
    BY <2>1
<1>2. PICK f \in from : \A g \in from : ~ (g < f)
  BY <1>1, LeastNumber
<1>3. PICK x \in ids : f = n - x
  BY <1>2
<1>4. \A y \in ids : x >= y
  <2>1. \A y \in ids : n - y \in from /\ ~ (n - y < f)
    BY <1>2
  <2> QED
    BY <1>3, <2>1
<1> QED
  BY <1>4 DEF Max

LEMMA NamedIs ==
    ASSUME NEW name, NEW items, IsSeq(items)
    PROVE  \/ Named(name, items) = << >>
           \/ /\ Named(name, items) # << >>
              /\ Named(name, items)[1] \in ToSet(items)
<1> DEFINE same == {i \in DOMAIN items : items[i].name = name}
<1>1. CASE same = {}
  BY <1>1 DEF Named
<1>2. CASE same # {}
  <2>1. same \in SUBSET Nat
    BY SeqIs
  <2>2. Min(same) \in DOMAIN items
    BY <1>2, <2>1, MinIs
  <2>3. items[Min(same)] \in ToSet(items)
    BY <2>2 DEF ToSet
  <2>4. Named(name, items) = << items[Min(same)] >>
    BY <1>2 DEF Named
  <2> QED
    BY <2>3, <2>4
<1> QED
  BY <1>1, <1>2

-----------------------------------------------------------------------------
(* The groups below another, level by level.                               *)
IsBelow(f, root, n) ==
    /\ f = [m \in 0 .. n |-> f[m]]
    /\ f[0] = {root}
    /\ \A m \in 0 .. n : m # 0 =>
          f[m] = UNION {ToSet(group.groups) : group \in f[m - 1]}

LEMMA BelowExists ==
    ASSUME NEW root, NEW n \in Nat
    PROVE  \E f : IsBelow(f, root, n)
<1> DEFINE without == {k \in Nat : ~ \E f : IsBelow(f, root, k)}
<1>1. CASE without = {}
  BY <1>1
<1>2. CASE without # {}
  <2>1. PICK k \in without : \A y \in without : ~ (y < k)
    BY <1>2, LeastNumber
  <2>2. k # 0
    <3>1. IsBelow([m \in 0 .. 0 |-> {root}], root, 0)
      BY DEF IsBelow
    <3> QED
      BY <3>1
  <2>3. PICK f : IsBelow(f, root, k - 1)
    BY <2>1, <2>2
  <2> DEFINE x == UNION {ToSet(group.groups) : group \in f[k - 1]}
             g == [m \in 0 .. k |-> IF m = k THEN x ELSE f[m]]
  <2>4. g[k] = x /\ \A m \in 0 .. k - 1 : g[m] = f[m]
    BY <2>1, <2>2
  <2>5. g = [m \in 0 .. k |-> g[m]]
    OBVIOUS
  <2>6. ASSUME NEW m \in 0 .. k, m # 0
        PROVE  g[m] = UNION {ToSet(group.groups) : group \in g[m - 1]}
    <3>1. m - 1 \in 0 .. k - 1 /\ g[m - 1] = f[m - 1]
      BY <2>1, <2>2, <2>4, <2>6
    <3>2. CASE m = k
      BY <2>4, <3>1, <3>2
    <3>3. CASE m # k
      <4>1. m \in 0 .. k - 1 /\ g[m] = f[m]
        BY <2>1, <2>2, <2>4, <3>3
      <4>2. f[m] = UNION {ToSet(group.groups) : group \in f[m - 1]}
        BY <2>3, <2>6, <4>1 DEF IsBelow
      <4> QED
        BY <3>1, <4>1, <4>2
    <3> QED
      BY <3>2, <3>3
  <2>7. g[0] = {root}
    BY <2>1, <2>2, <2>3, <2>4 DEF IsBelow
  <2> HIDE DEF g
  <2>8. IsBelow(g, root, k)
    BY <2>5, <2>6, <2>7 DEF IsBelow
  <2> QED
    BY <2>1, <2>8
<1> QED
  BY <1>1, <1>2

LEMMA BelowUnique ==
    ASSUME NEW root, NEW n \in Nat, NEW k \in Nat, n <= k,
           NEW f, IsBelow(f, root, n), NEW g, IsBelow(g, root, k)
    PROVE  f[n] = g[n]
<1> DEFINE differ == {m \in 0 .. n : f[m] # g[m]}
<1>1. CASE differ = {}
  BY <1>1
<1>2. CASE differ # {}
  <2>0. differ \in SUBSET Nat
    OBVIOUS
  <2>1. PICK m \in differ : \A y \in differ : ~ (y < m)
    BY <1>2, <2>0, LeastNumber
  <2>2. m # 0
    BY <2>1 DEF IsBelow
  <2>3. m - 1 \in 0 .. n /\ f[m - 1] = g[m - 1] /\ m \in 0 .. k
    BY <2>1, <2>2
  <2>4. f[m] = UNION {ToSet(group.groups) : group \in f[m - 1]}
    BY <2>1, <2>2 DEF IsBelow
  <2>5. g[m] = UNION {ToSet(group.groups) : group \in g[m - 1]}
    BY <2>2, <2>3 DEF IsBelow
  <2> QED
    BY <2>1, <2>3, <2>4, <2>5
<1> QED
  BY <1>1, <1>2

LEMMA GroupsBelowIs ==
    ASSUME NEW root, NEW n \in Nat
    PROVE  \E f : IsBelow(f, root, n) /\ GroupsBelow(root, n) = f[n]
<1> DEFINE Is(f) == f = [m \in 0 .. n |->
                       IF m = 0 THEN {root}
                       ELSE UNION {ToSet(group.groups) : group \in f[m - 1]}]
           down == CHOOSE f : Is(f)
<1>1. PICK f : IsBelow(f, root, n)
  BY BelowExists
<1>2. Is(f)
  <2>1. \A m \in 0 .. n :
            f[m] = IF m = 0 THEN {root} ELSE UNION {ToSet(group.groups) : group \in f[m - 1]}
    BY <1>1 DEF IsBelow
  <2> QED
    BY <1>1, <2>1 DEF IsBelow
<1>3. Is(down)
  BY <1>2, Zenon
<1>4. GroupsBelow(root, n) = down[n]
  BY DEF GroupsBelow
<1> HIDE DEF down
<1>5. IsBelow(down, root, n)
  <2>1. \A m \in 0 .. n :
            down[m] = IF m = 0 THEN {root}
                      ELSE UNION {ToSet(group.groups) : group \in down[m - 1]}
    BY <1>3
  <2>2. down = [m \in 0 .. n |-> down[m]]
    BY <1>3
  <2>3. down[0] = {root}
    <3>1. 0 \in 0 .. n
      OBVIOUS
    <3> QED
      BY <2>1, <3>1, Zenon
  <2>4. \A m \in 0 .. n : m # 0 =>
            down[m] = UNION {ToSet(group.groups) : group \in down[m - 1]}
    BY <2>1
  <2> QED
    BY <2>2, <2>3, <2>4 DEF IsBelow
<1> QED
  BY <1>4, <1>5

LEMMA GroupsBelowNext ==
    ASSUME NEW root, NEW n \in Nat
    PROVE  /\ GroupsBelow(root, 0) = {root}
           /\ GroupsBelow(root, n + 1) =
                 UNION {ToSet(group.groups) : group \in GroupsBelow(root, n)}
<1>1. PICK f : IsBelow(f, root, n) /\ GroupsBelow(root, n) = f[n]
  BY GroupsBelowIs
<1>2. PICK g : IsBelow(g, root, n + 1) /\ GroupsBelow(root, n + 1) = g[n + 1]
  BY GroupsBelowIs
<1>3. PICK h : IsBelow(h, root, 0) /\ GroupsBelow(root, 0) = h[0]
  BY GroupsBelowIs
<1>4. f[n] = g[n]
  BY <1>1, <1>2, BelowUnique
<1>5. n + 1 \in 0 .. n + 1 /\ n + 1 # 0 /\ (n + 1) - 1 = n
  OBVIOUS
<1>6. g[n + 1] = UNION {ToSet(group.groups) : group \in g[n]}
  BY <1>2, <1>5 DEF IsBelow
<1> QED
  BY <1>1, <1>2, <1>3, <1>4, <1>6 DEF IsBelow

(* More groups in a group are more groups below it.                        *)
LEMMA MoreBelow ==
    ASSUME NEW root, NEW larger, ToSet(root.groups) \subseteq ToSet(larger.groups),
           NEW n \in Nat, n # 0
    PROVE  GroupsBelow(root, n) \subseteq GroupsBelow(larger, n)
<1> DEFINE fewer == {m \in Nat : m # 0 /\ ~ (GroupsBelow(root, m) \subseteq GroupsBelow(larger, m))}
<1>1. CASE fewer = {}
  BY <1>1
<1>2. CASE fewer # {}
  <2>1. PICK m \in fewer : \A y \in fewer : ~ (y < m)
    BY <1>2, LeastNumber
  <2>2. m - 1 \in Nat /\ (m - 1) + 1 = m /\ m \in Nat
    BY <2>1
  <2>3. /\ GroupsBelow(root, 0) = {root} /\ GroupsBelow(larger, 0) = {larger}
        /\ GroupsBelow(root, m) =
              UNION {ToSet(group.groups) : group \in GroupsBelow(root, m - 1)}
        /\ GroupsBelow(larger, m) =
              UNION {ToSet(group.groups) : group \in GroupsBelow(larger, m - 1)}
    BY <2>2, GroupsBelowNext
  <2>4. CASE m = 1
    <3>1. m - 1 = 0
      BY <2>4
    <3> QED
      BY <2>1, <2>3, <3>1
  <2>5. CASE m # 1
    <3>1. m - 1 \notin fewer /\ m - 1 # 0
      BY <2>1, <2>2, <2>5
    <3>2. GroupsBelow(root, m - 1) \subseteq GroupsBelow(larger, m - 1)
      BY <2>2, <3>1
    <3> QED
      BY <2>1, <2>3, <3>2
  <2> QED
    BY <2>4, <2>5
<1> QED
  BY <1>1, <1>2

-----------------------------------------------------------------------------
(***************************************************************************)
(* Groups, types and frames have their fields.  The groups in a group are  *)
(* groups and the types of fields are types: all of them are in sets (U    *)
(* and V) that have with each what is in it.                               *)
(***************************************************************************)
Basics == {Basic(name) : name \in Elementary}

Fields(parts, V) == IsSeq(parts) /\ \A part \in ToSet(parts) : part.type \in V
IsType(t, V) ==
    /\ t.kind \in {"opaque", "enum", "vlen", "compound"}
    /\ t.kind = "compound" => Fields(t.parts, V)
TypesIn(V) == \A t \in V : IsType(t, V)

GroupShape(g) ==
    /\ DOMAIN g = {"name", "types", "dimensions", "listed", "variables", "attributes", "groups"}
    /\ g = [x \in DOMAIN g |-> g[x]]
IsGroup(g, V) ==
    /\ GroupShape(g)
    /\ IsSeq(g.types) /\ IsSeq(g.variables) /\ IsSeq(g.attributes) /\ IsSeq(g.groups)
    /\ ToSet(g.types) \subseteq V
    /\ \A v \in ToSet(g.variables) : v.type \in V \cup Basics

Nested(U, V) == \A g \in U : IsGroup(g, V) /\ ToSet(g.groups) \subseteq U

Modes == Sections \cup {"group", "enum", "compound"}
FrameShape(f) ==
    /\ DOMAIN f = {"group", "mode", "previous", "partial"}
    /\ f = [x \in DOMAIN f |-> f[x]]
IsFrame(f, U, V) ==
    /\ FrameShape(f)
    /\ f.group \in U /\ f.mode \in Modes
    /\ f.previous \in V \cup Basics \cup {NoType}
    /\ f.mode \in {"enum", "compound"} =>
          /\ f.partial = [kind |-> f.partial.kind, name |-> f.partial.name,
                          base |-> f.partial.base, parts |-> f.partial.parts]
          /\ f.partial.kind = f.mode
    /\ f.mode = "compound" => Fields(f.partial.parts, V)

(* The groups that a path leads through, up to the k-th of its parts.      *)
FoundUpto(f, root, path, k) ==
    /\ f = [n \in 0 .. k |-> f[n]]
    /\ f[0] = << root >>
    /\ \A n \in 0 .. k : n # 0 =>
          f[n] = IF f[n - 1] = << >> THEN << >> ELSE Named(path[n], f[n - 1][1].groups)

LEMMA FoundExists ==
    ASSUME NEW root, NEW path, NEW n \in Nat
    PROVE  \E f : FoundUpto(f, root, path, n)
<1> DEFINE without == {k \in Nat : ~ \E f : FoundUpto(f, root, path, k)}
<1>1. CASE without = {}
  BY <1>1
<1>2. CASE without # {}
  <2>1. PICK k \in without : \A y \in without : ~ (y < k)
    BY <1>2, LeastNumber
  <2>2. k # 0
    <3>1. FoundUpto([m \in 0 .. 0 |-> << root >>], root, path, 0)
      BY DEF FoundUpto
    <3> QED
      BY <3>1
  <2>3. PICK f : FoundUpto(f, root, path, k - 1)
    BY <2>1, <2>2
  <2> DEFINE after(h, m) == IF h[m - 1] = << >> THEN << >>
                            ELSE Named(path[m], h[m - 1][1].groups)
             x == after(f, k)
             g == [m \in 0 .. k |-> IF m = k THEN x ELSE f[m]]
  <2> HIDE DEF x
  <2>4. g[k] = x /\ \A m \in 0 .. k - 1 : g[m] = f[m]
    BY <2>1, <2>2
  <2>5. g = [m \in 0 .. k |-> g[m]]
    OBVIOUS
  <2>6. ASSUME NEW m \in 0 .. k, m # 0
        PROVE  g[m] = after(g, m)
    <3>1. m - 1 \in 0 .. k - 1 /\ g[m - 1] = f[m - 1]
      BY <2>1, <2>2, <2>4, <2>6
    <3>2. CASE m = k
      BY <2>4, <3>1, <3>2 DEF x
    <3>3. CASE m # k
      <4>1. m \in 0 .. k - 1 /\ g[m] = f[m]
        BY <2>1, <2>2, <2>4, <3>3
      <4>2. f[m] = after(f, m)
        BY <2>3, <2>6, <4>1 DEF FoundUpto
      <4> QED
        BY <3>1, <4>1, <4>2
    <3> QED
      BY <3>2, <3>3
  <2>7. g[0] = << root >>
    <3>1. 0 \in 0 .. k - 1
      BY <2>1, <2>2
    <3>2. f[0] = << root >>
      BY <2>3 DEF FoundUpto
    <3> QED
      BY <2>4, <3>1, <3>2
  <2> HIDE DEF g
  <2>8. FoundUpto(g, root, path, k)
    BY <2>5, <2>6, <2>7 DEF FoundUpto
  <2> QED
    BY <2>1, <2>8
<1> QED
  BY <1>1, <1>2

LEMMA GroupAtIs ==
    ASSUME NEW path, Len(path) \in Nat
    PROVE  \E f : FoundUpto(f, stack[1].group, path, Len(path)) /\ GroupAt(path) = f[Len(path)]
<1> DEFINE n == Len(path)
           root == stack[1].group
           after(h, m) == IF h[m - 1] = << >> THEN << >>
                          ELSE Named(path[m], h[m - 1][1].groups)
           Is(f) == f = [m \in 0 .. n |-> IF m = 0 THEN << root >> ELSE after(f, m)]
           found == CHOOSE f : Is(f)
<1>1. PICK f : FoundUpto(f, root, path, n)
  BY FoundExists
<1>2. Is(f)
  <2>1. \A m \in 0 .. n : f[m] = IF m = 0 THEN << root >> ELSE after(f, m)
    BY <1>1 DEF FoundUpto
  <2> QED
    BY <1>1, <2>1 DEF FoundUpto
<1>3. Is(found)
  BY <1>2, Zenon
<1>4. GroupAt(path) = found[n]
  BY DEF GroupAt
<1> HIDE DEF found
<1>5. FoundUpto(found, root, path, n)
  <2>1. \A m \in 0 .. n : found[m] = IF m = 0 THEN << root >> ELSE after(found, m)
    BY <1>3
  <2>2. found = [m \in 0 .. n |-> found[m]]
    BY <1>3
  <2>3. found[0] = << root >>
    <3>1. 0 \in 0 .. n
      OBVIOUS
    <3> QED
      BY <2>1, <3>1, Zenon
  <2>4. \A m \in 0 .. n : m # 0 => found[m] = after(found, m)
    BY <2>1
  <2> QED
    BY <2>2, <2>3, <2>4 DEF FoundUpto
<1> QED
  BY <1>4, <1>5

LEMMA GroupAtBelow ==
    ASSUME NEW path, Len(path) \in Nat, NEW U, NEW V, Nested(U, V), stack[1].group \in U,
           GroupAt(path) # << >>
    PROVE  /\ GroupAt(path)[1] \in U
           /\ GroupAt(path)[1] \in GroupsBelow(stack[1].group, Len(path))
<1> DEFINE n == Len(path)
           root == stack[1].group
           Off(f, m) == /\ f[m] # << >>
                        /\ ~ (f[m][1] \in U /\ f[m][1] \in GroupsBelow(root, m))
<1>1. PICK f : FoundUpto(f, root, path, n) /\ GroupAt(path) = f[n]
  BY GroupAtIs
<1> DEFINE off == {m \in 0 .. n : Off(f, m)}
<1>2. CASE off = {}
  BY <1>1, <1>2
<1>3. CASE off # {}
  <2>0. off \in SUBSET Nat
    OBVIOUS
  <2>1. PICK m \in off : \A y \in off : ~ (y < m)
    BY <1>3, <2>0, LeastNumber
  <2>2. m \in 0 .. n /\ m \in Nat /\ Off(f, m)
    BY <2>1
  <2>3. CASE m = 0
    <3>1. f[0] = << root >>
      BY <1>1 DEF FoundUpto
    <3>2. root \in GroupsBelow(root, 0)
      BY GroupsBelowNext
    <3>3. f[0][1] = root
      BY <3>1
    <3> QED
      BY <2>2, <2>3, <3>2, <3>3
  <2>4. CASE m # 0
    <3> DEFINE g == f[m - 1][1]
    <3>1. m - 1 \in 0 .. n /\ m - 1 \in Nat /\ (m - 1) + 1 = m /\ m - 1 \notin off
      BY <2>1, <2>2, <2>4
    <3>2. f[m] = IF f[m - 1] = << >> THEN << >> ELSE Named(path[m], g.groups)
      BY <1>1, <2>2, <2>4 DEF FoundUpto
    <3>3. f[m - 1] # << >> /\ f[m] = Named(path[m], g.groups) /\ f[m] # << >>
      BY <2>2, <3>2
    <3>4. g \in U /\ g \in GroupsBelow(root, m - 1)
      BY <3>1, <3>3
    <3> HIDE DEF g
    <3>5. IsSeq(g.groups) /\ ToSet(g.groups) \subseteq U
      BY <3>4 DEF Nested, IsGroup
    <3>6. f[m][1] \in ToSet(g.groups)
      BY <3>3, <3>5, NamedIs
    <3>7. GroupsBelow(root, m) =
            UNION {ToSet(group.groups) : group \in GroupsBelow(root, m - 1)}
      BY <3>1, GroupsBelowNext
    <3>8. f[m][1] \in GroupsBelow(root, m)
      BY <3>4, <3>6, <3>7
    <3> QED
      BY <2>2, <3>5, <3>6, <3>8
  <2> QED
    BY <2>3, <2>4
<1> QED
  BY <1>2, <1>3

-----------------------------------------------------------------------------
(* The open groups, and the tokens.                                        *)
Frames(U, V) ==
    /\ TypesIn(V) /\ Nested(U, V)
    /\ IsSeq(stack)
    /\ \A i \in 1 .. Len(stack) : IsFrame(stack[i], U, V)
Text == tokens \in Seq([kind : STRING, text : STRING, parts : Seq(STRING), name : STRING])

LEMMA FrameIs ==
    ASSUME NEW U, NEW V, Frames(U, V), NEW k \in 1 .. Len(stack)
    PROVE  IsGroup(stack[k].group, V)
  BY DEF Frames, IsFrame, Nested

LEMMA StackIs ==
    ASSUME NEW U, NEW V, Frames(U, V), stack # << >>
    PROVE  /\ Len(stack) \in Nat /\ Len(stack) # 0 /\ DOMAIN stack = 1 .. Len(stack)
           /\ 1 \in 1 .. Len(stack) /\ Len(stack) \in 1 .. Len(stack)
  BY SeqIs DEF Frames, IsSeq

(* What a name stands for is in scope, or it is no type.                   *)
Known(type) == type = NoType \/ InScope(type, Len(stack))

LEMMA ResolveKnown ==
    ASSUME NEW U, NEW V, Frames(U, V), Text, stack # << >>, NEW j
    PROVE  Known(Resolve(Tok(j))) /\ Resolve(Tok(j)) \in V \cup Basics \cup {NoType}
<1> DEFINE token == Tok(j)
           found == TypeNamed(token)
<1>1. Len(stack) \in Nat /\ Len(stack) # 0 /\ DOMAIN stack = 1 .. Len(stack)
  BY StackIs
<1>2. CASE token.text \in Elementary
  <2>1. Resolve(token) = Basic(token.text)
    BY <1>2 DEF Resolve
  <2>2. Known(Basic(token.text))
    BY <1>2 DEF Known, InScope, Basic, Type
  <2> QED
    BY <1>2, <2>1, <2>2 DEF Basics
<1>3. CASE token.text \notin Elementary /\ found = << >>
  BY <1>3 DEF Resolve, Known
<1>4. CASE token.text \notin Elementary /\ found # << >>
  <2>1. Resolve(token) = found[1]
    BY <1>4 DEF Resolve
  <2>2. CASE token.kind # "path"
    <3> DEFINE name == token.text
               k == Max(Declaring(name))
    <3>1. found = InnermostType(name)
      BY <2>2 DEF TypeNamed
    <3>2. Declaring(name) # {} /\ found = Named(name, stack[k].group.types)
      BY <1>4, <3>1 DEF InnermostType
    <3>3. Declaring(name) \in SUBSET (1 .. Len(stack))
      BY <1>1 DEF Declaring
    <3>4. k \in 1 .. Len(stack)
      BY <1>1, <3>2, <3>3, MaxIs
    <3> HIDE DEF k
    <3>5. IsSeq(stack[k].group.types) /\ ToSet(stack[k].group.types) \subseteq V
      BY <3>4, FrameIs DEF IsGroup
    <3>6. found[1] \in ToSet(stack[k].group.types)
      BY <1>4, <3>2, <3>5, NamedIs
    <3> QED
      BY <2>1, <3>4, <3>5, <3>6 DEF Known, InScope
  <2>3. CASE token.kind = "path"
    <3> DEFINE path == token.parts
               at == GroupAt(path)
    <3>1. j \in DOMAIN tokens /\ token = tokens[j]
      BY <2>3 DEF Tok, Exists, NoToken, Token
    <3>2. token \in ToSet(tokens) /\ Len(path) \in Nat
      BY <3>1 DEF ToSet, Text
    <3>3. at # << >> /\ found = Named(token.name, at[1].types)
      BY <1>4, <2>3 DEF TypeNamed
    <3>4. Nested(U, V) /\ stack[1].group \in U
      BY StackIs DEF Frames, IsFrame
    <3>5. at[1] \in U /\ at[1] \in GroupsBelow(stack[1].group, Len(path))
      BY <3>2, <3>3, <3>4, GroupAtBelow
    <3> HIDE DEF at
    <3>6. IsSeq(at[1].types) /\ ToSet(at[1].types) \subseteq V
      BY <3>4, <3>5 DEF Nested, IsGroup
    <3>7. found[1] \in ToSet(at[1].types)
      BY <1>4, <3>3, <3>6, NamedIs
    <3> QED
      BY <2>1, <2>3, <3>2, <3>5, <3>6, <3>7 DEF Known, InScope
  <2> QED
    BY <2>2, <2>3
<1> QED
  BY <1>2, <1>3, <1>4

-----------------------------------------------------------------------------
(* Where the functions for one item leave off, and how they end.           *)
IsItem(item) ==
    /\ item.fate \in {"ok", "fails", "aborted", "undefined"}
    /\ item.fate \in {"ok", "fails"} => item.next \in 1 .. Len(tokens) + 1

LEMMA UptoIs ==
    ASSUME Text, NEW i \in Nat, i # 0
    PROVE  Upto(i) \in 1 .. Len(tokens) + 1
  BY DEF Text, Upto

LEMMA ItemIs ==
    ASSUME Text, NEW i \in Nat, i # 0, NEW v
    PROVE  /\ IsItem(Gives(i, v)) /\ IsItem(Fails(i))
           /\ IsItem(Breaks("aborted")) /\ IsItem(Breaks("undefined"))
  BY UptoIs DEF IsItem, Gives, Fails, Breaks

LEMMA SkipIs ==
    ASSUME Text, NEW i \in 1 .. Len(tokens) + 1
    PROVE  Skip(i) \in 1 .. Len(tokens) + 1
<1> DEFINE n == Len(tokens)
           others == {j \in Nat : ~ At(j, {";"})}
<1>1. n \in Nat /\ i \in Nat /\ i <= n + 1 /\ n + 1 \in Nat /\ DOMAIN tokens = 1 .. n
  BY DEF Text
<1> HIDE DEF n
<1>2. n + 1 \notin DOMAIN tokens
  BY <1>1
<1>3. ~ At(n + 1, {";"})
  BY <1>2 DEF At, Tok, Exists, NoToken, Token
<1>4. PICK x \in i .. n + 1 : x \in others /\ \A k \in i .. x - 1 : k \notin others
  <2>1. n + 1 \in others
    BY <1>1, <1>3
  <2> HIDE DEF others
  <2>2. i \in Nat /\ n + 1 \in Nat /\ i <= n + 1
    BY <1>1
  <2> DEFINE b == n + 1
  <2> HIDE DEF b
  <2>3. \E x \in i .. b : x \in others /\ \A k \in i .. x - 1 : k \notin others
    BY <2>1, <2>2, LeastFrom DEF b
  <2> QED
    BY <2>3 DEF b
<1>5. \A k \in i .. x - 1 : k \in Nat
  BY <1>1
<1>6. ~ At(x, {";"}) /\ \A k \in i .. x - 1 : At(k, {";"})
  BY <1>4, <1>5
<1>7. Skip(i) \in i .. n + 1
  BY <1>6 DEF Skip, n
<1>8. i .. n + 1 \subseteq 1 .. n + 1
  BY <1>1
<1> QED
  BY <1>7, <1>8 DEF n

LEMMA NumbersIs ==
    ASSUME Text, NEW i \in Nat, i # 0, NEW base
    PROVE  IsItem(NumbersAt(i, base))
<1> DEFINE len == Len(tokens)
           Stop(m) == ~ Reads(i + 2 * m, base) \/ ~ At(i + 2 * m + 1, {","})
           stops == {m \in Nat : Stop(m)}
           n == CHOOSE m \in 0 .. len : Stop(m) /\ \A k \in 0 .. m - 1 : ~ Stop(k)
<1>1. len \in Nat /\ 0 <= len /\ DOMAIN tokens = 1 .. len
  BY DEF Text
<1> HIDE DEF len
<1>2. i + 2 * len + 1 \notin DOMAIN tokens
  BY <1>1
<1>3. Stop(len)
  BY <1>2 DEF At, Tok, Exists, NoToken, Token
<1> HIDE DEF Stop
<1>4. len \in stops
  BY <1>1, <1>3
<1>5. PICK x \in 0 .. len : x \in stops /\ \A k \in 0 .. x - 1 : k \notin stops
  BY <1>1, <1>4, LeastFrom
<1>6. Stop(x) /\ \A k \in 0 .. x - 1 : ~ Stop(k)
  BY <1>1, <1>5
<1>7. n \in 0 .. len
  BY <1>6
<1>8. n = First(LAMBDA m : ~ Reads(i + 2 * m, base) \/ ~ At(i + 2 * m + 1, {","}))
  BY DEF First, Stop, len
<1> HIDE DEF n
<1>9. i + 2 * n + 1 \in Nat /\ i + 2 * n + 1 # 0
  BY <1>1, <1>7
<1> QED
  BY <1>8, <1>9, ItemIs DEF NumbersAt

LEMMA PlainIs ==
    ASSUME Text, NEW i \in Nat, i # 0, NEW type, type.kind \in {"opaque", "enum", "vlen"}
    PROVE  IsItem(PlainData(type, i))
<1>1. i + 1 \in Nat /\ i + 1 # 0
  OBVIOUS
<1>2. CASE type.kind = "opaque"
  BY <1>2, ItemIs DEF PlainData
<1>3. CASE type.kind = "enum"
  <2>1. /\ IsItem(Fails(i)) /\ IsItem(Fails(i + 1)) /\ IsItem(Breaks("undefined"))
        /\ IsItem(Gives(i + 1, EmptyArray))
    BY <1>1, ItemIs
  <2> QED
    BY <1>3, <2>1 DEF PlainData
<1>4. CASE type.kind = "vlen"
  <2> DEFINE numbers == NumbersAt(i + 1, type.base)
  <2>1. IsItem(numbers)
    BY <1>1, NumbersIs
  <2> HIDE DEF numbers
  <2>2. CASE numbers.fate # "ok"
    BY <1>1, <1>4, <2>1, <2>2, ItemIs DEF PlainData, numbers
  <2>3. CASE numbers.fate = "ok"
    <3>1. numbers.next \in Nat /\ numbers.next + 1 \in Nat /\ numbers.next + 1 # 0
      BY <2>1, <2>3 DEF IsItem, Text
    <3>2. /\ IsItem(Gives(numbers.next + 1, numbers.value))
          /\ IsItem(Fails(numbers.next + 1)) /\ IsItem(Fails(i + 1))
      BY <1>1, <3>1, ItemIs
    <3> QED
      BY <1>4, <2>3, <3>2 DEF PlainData, numbers
  <2> QED
    BY <2>2, <2>3
<1> QED
  BY <1>2, <1>3, <1>4

(* The fields that a reading has still to read: the outermost compound has *)
(* its one field before it, or behind it.                                  *)
IsReading(r, V) ==
    /\ r = [item |-> r.item, behind |-> r.behind, fields |-> r.fields]
    /\ IsItem(r.item)
    /\ r.behind \in BOOLEAN
    /\ r.item.fate = "ok" =>
          /\ IsSeq(r.fields) /\ r.fields # << >>
          /\ \A parts \in ToSet(r.fields) : Fields(parts, V)
          /\ Len(r.fields) = 1 /\ ~ r.behind => r.fields[1] # << >>

LEMMA SeqTail ==
    ASSUME NEW s, IsSeq(s), s # << >>
    PROVE  /\ IsSeq(Tail(s)) /\ Len(Tail(s)) = Len(s) - 1
           /\ ToSet(Tail(s)) \subseteq ToSet(s)
           /\ Head(s) = s[1] /\ Head(s) \in ToSet(s)
           /\ Tail(s) = << >> <=> Len(s) = 1
<1> DEFINE S == ToSet(s)
           t == Tail(s)
<1>1. s \in Seq(S) /\ Len(s) \in Nat /\ Len(s) # 0 /\ DOMAIN s = 1 .. Len(s)
  BY SeqIs DEF IsSeq
<1>2. Head(s) = s[1] /\ s[1] \in S
  BY <1>1, SeqIs
<1> HIDE DEF S
<1>3. t \in Seq(S) /\ Len(t) = Len(s) - 1
  BY <1>1
<1>4. IsSeq(t)
  BY <1>3, SeqMember
<1>5. ToSet(t) \subseteq S
  BY <1>3 DEF ToSet
<1>6. t = << >> <=> Len(s) = 1
  BY <1>1, <1>3
<1> QED
  BY <1>2, <1>3, <1>4, <1>5, <1>6 DEF S

LEMMA FieldsTail ==
    ASSUME NEW parts, NEW V, Fields(parts, V), parts # << >>
    PROVE  Fields(Tail(parts), V) /\ Head(parts).type \in V
  BY SeqTail DEF Fields

LEMMA SeqPush ==
    ASSUME NEW s, IsSeq(s), NEW x
    PROVE  /\ IsSeq(<< x >> \o s) /\ Len(<< x >> \o s) = Len(s) + 1
           /\ ToSet(<< x >> \o s) = {x} \cup ToSet(s)
           /\ (<< x >> \o s)[1] = x /\ << x >> \o s # << >>
<1> DEFINE S == {x} \cup ToSet(s)
           t == << x >> \o s
           n == Len(s)
<1>1. << x >> \in Seq(S) /\ s \in Seq(S) /\ n \in Nat /\ Len(<< x >>) = 1 /\ << x >>[1] = x
  BY SeqIs DEF IsSeq
<1> HIDE DEF S
<1>2. t \in Seq(S) /\ Len(t) = n + 1
  BY <1>1
<1>3. t[1] = x
  BY <1>1
<1>4. \A i \in 1 .. n : t[i + 1] = s[i]
  BY <1>1
<1> HIDE DEF t
<1>5. IsSeq(t)
  BY <1>2, SeqMember
<1>6. \A i \in 1 .. Len(t) : i = 1 \/ (i - 1 \in 1 .. n /\ i = (i - 1) + 1)
  BY <1>1, <1>2
<1>7. ASSUME NEW y \in ToSet(t)
      PROVE  y \in {x} \cup ToSet(s)
  <2>1. PICK i \in 1 .. Len(t) : t[i] = y
    BY <1>5, SeqIs
  <2>2. CASE i = 1
    BY <1>3, <2>1, <2>2
  <2>3. CASE i # 1
    <3>1. i - 1 \in 1 .. n /\ y = s[i - 1]
      BY <1>4, <1>6, <2>1, <2>3
    <3> QED
      BY <3>1, SeqIs DEF n
  <2> QED
    BY <2>2, <2>3
<1>8. ASSUME NEW y \in {x} \cup ToSet(s)
      PROVE  y \in ToSet(t)
  <2>1. CASE y = x
    <3>1. 1 \in 1 .. Len(t)
      BY <1>1, <1>2
    <3> QED
      BY <1>3, <1>5, <2>1, <3>1, SeqIs
  <2>2. CASE y \in ToSet(s)
    <3>1. PICK i \in 1 .. n : s[i] = y
      BY <2>2, SeqIs
    <3>2. i + 1 \in 1 .. Len(t) /\ t[i + 1] = y
      BY <1>1, <1>2, <1>4, <3>1
    <3> QED
      BY <1>5, <3>2, SeqIs
  <2> QED
    BY <2>1, <2>2
<1>9. t # << >>
  BY <1>1, <1>2
<1> QED
  BY <1>2, <1>3, <1>5, <1>7, <1>8, <1>9 DEF t

LEMMA ReadOnIs ==
    ASSUME Text, NEW V, TypesIn(V), NEW r, IsReading(r, V), ~ WholeRead(r)
    PROVE  IsReading(ReadOn(r), V)
<1> DEFINE i == r.item.next
           fields == Head(r.fields)
           type == Head(fields).type
           around == Tail(r.fields)
           Ended(next) == Reading(IF Exists(next) THEN Gives(next, EmptyArray)
                                  ELSE Breaks("undefined"), TRUE, around)
<1>1. /\ r.item.fate = "ok" /\ IsItem(r.item) /\ r.behind \in BOOLEAN
      /\ IsSeq(r.fields) /\ r.fields # << >>
      /\ \A parts \in ToSet(r.fields) : Fields(parts, V)
      /\ Len(r.fields) = 1 => ~ r.behind /\ r.fields[1] # << >>
  BY DEF IsReading, WholeRead
<1>2. i \in Nat /\ i # 0 /\ i + 1 \in Nat /\ i + 1 # 0
  BY <1>1 DEF IsItem, Text
<1>3. /\ fields = r.fields[1] /\ Fields(fields, V)
      /\ IsSeq(around) /\ Len(around) = Len(r.fields) - 1
      /\ \A parts \in ToSet(around) : Fields(parts, V)
      /\ around = << >> <=> Len(r.fields) = 1
      /\ Len(r.fields) \in Nat
  BY <1>1, SeqTail, SeqIs
<1>4. fields # << >> => type \in V /\ Fields(Tail(fields), V)
  BY <1>3, FieldsTail
<1> HIDE DEF fields, type, around, i
<1>5. ASSUME NEW next \in Nat, next # 0, around # << >>
      PROVE  IsReading(Ended(next), V)
  <2>1. IsItem(Gives(next, EmptyArray)) /\ IsItem(Breaks("undefined"))
    BY <1>5, ItemIs
  <2> QED
    BY <1>3, <1>5, <2>1 DEF IsReading, Reading
<1>6. CASE r.behind
  <2>1. around # << >>
    BY <1>1, <1>3, <1>6
  <2>2. CASE At(i, {"}"})
    <3>1. ~ At(i, {","}) /\ At(i, {"}", ","})
      BY <2>2 DEF At
    <3>2. ReadOn(r) = Ended(i + 1)
      BY <1>6, <2>2, <3>1 DEF ReadOn, i, around
    <3> QED
      BY <1>2, <1>5, <2>1, <3>2
  <2>3. CASE At(i, {","})
    <3>1. ~ At(i, {"}"}) /\ At(i, {"}", ","})
      BY <2>3 DEF At
    <3>2. ReadOn(r) = Reading(Gives(i + 1, EmptyArray), FALSE, r.fields)
      BY <1>6, <2>3, <3>1 DEF ReadOn, i
    <3>3. IsItem(Gives(i + 1, EmptyArray)) /\ Len(r.fields) # 1
      BY <1>1, <1>2, <1>6, ItemIs
    <3> QED
      BY <1>1, <3>2, <3>3 DEF IsReading, Reading
  <2>4. CASE ~ At(i, {"}", ","})
    <3>1. ~ At(i, {"}"}) /\ ~ At(i, {","})
      BY <2>4 DEF At
    <3>2. ReadOn(r) = Reading(Breaks("aborted"), TRUE, r.fields)
      BY <1>6, <2>4, <3>1 DEF ReadOn, i
    <3>3. IsItem(Breaks("aborted"))
      BY <1>2, ItemIs
    <3> QED
      BY <1>1, <3>2, <3>3 DEF IsReading, Reading
  <2> QED
    BY <2>2, <2>3, <2>4 DEF At
<1>7. CASE ~ r.behind /\ fields = << >>
  <2>1. around # << >>
    BY <1>1, <1>3, <1>7
  <2>2. ReadOn(r) = Ended(i)
    BY <1>7 DEF ReadOn, i, around, fields
  <2> QED
    BY <1>2, <1>5, <2>1, <2>2
<1>8. CASE ~ r.behind /\ fields # << >>
  <2> DEFINE rest == Tail(fields)
  <2>1. type \in V /\ Fields(rest, V) /\ IsType(type, V)
    BY <1>4, <1>8 DEF TypesIn
  <2> HIDE DEF rest
  <2>2. /\ IsSeq(<< rest >> \o around) /\ << rest >> \o around # << >>
        /\ \A parts \in ToSet(<< rest >> \o around) : Fields(parts, V)
    BY <1>3, <2>1, SeqPush
  <2>3. CASE type.kind # "compound"
    <3>1. IsItem(PlainData(type, i))
      BY <1>2, <2>1, <2>3, PlainIs DEF IsType
    <3>2. ReadOn(r) = Reading(PlainData(type, i), TRUE, << rest >> \o around)
      BY <1>8, <2>3 DEF ReadOn, i, around, fields, type, rest
    <3> QED
      BY <2>2, <3>1, <3>2 DEF IsReading, Reading
  <2>4. CASE type.kind = "compound" /\ At(i, {"{"})
    <3> DEFINE pushed == << type.parts, rest >> \o around
    <3>1. Fields(type.parts, V)
      BY <2>1, <2>4 DEF IsType
    <3>2. pushed = << type.parts >> \o (<< rest >> \o around)
      BY <1>3 DEF IsSeq
    <3>3. /\ IsSeq(pushed) /\ pushed # << >> /\ Len(pushed) # 1
          /\ \A parts \in ToSet(pushed) : Fields(parts, V)
      <4> DEFINE inner == << rest >> \o around
      <4>1. IsSeq(inner) /\ Len(inner) = Len(around) + 1 /\ Len(around) \in Nat
        BY <1>3, SeqPush, SeqIs
      <4> HIDE DEF inner
      <4>2. /\ IsSeq(<< type.parts >> \o inner) /\ << type.parts >> \o inner # << >>
            /\ Len(<< type.parts >> \o inner) = Len(inner) + 1
            /\ ToSet(<< type.parts >> \o inner) = {type.parts} \cup ToSet(inner)
        BY <4>1, SeqPush
      <4>0. pushed = << type.parts >> \o inner
        BY <3>2 DEF inner
      <4> HIDE DEF pushed
      <4>6. Len(pushed) = Len(inner) + 1 /\ Len(inner) # 0 /\ Len(inner) \in Nat
        BY <4>0, <4>1, <4>2
      <4>3. IsSeq(pushed) /\ pushed # << >> /\ Len(pushed) # 1
        BY <4>0, <4>2, <4>6
      <4>4. ToSet(pushed) = {type.parts} \cup ToSet(inner)
        BY <4>0, <4>2
      <4>5. \A parts \in ToSet(pushed) : Fields(parts, V)
        BY <2>2, <3>1, <4>4 DEF inner
      <4> QED
        BY <4>3, <4>5
    <3>4. ReadOn(r) = Reading(Gives(i + 1, EmptyArray), FALSE, pushed)
      BY <1>8, <2>4 DEF ReadOn, i, around, fields, type, rest
    <3>5. IsItem(Gives(i + 1, EmptyArray))
      BY <1>2, ItemIs
    <3> HIDE DEF pushed
    <3> QED
      BY <3>3, <3>4, <3>5 DEF IsReading, Reading
  <2>5. CASE type.kind = "compound" /\ ~ At(i, {"{"})
    <3>1. ReadOn(r) = Reading(Fails(i + 1), TRUE, r.fields)
      BY <1>8, <2>5 DEF ReadOn, i, around, fields, type
    <3>2. IsItem(Fails(i + 1)) /\ Fails(i + 1).fate = "fails"
      BY <1>2, ItemIs DEF Fails
    <3> QED
      BY <3>1, <3>2 DEF IsReading, Reading
  <2> QED
    BY <2>3, <2>4, <2>5
<1> QED
  BY <1>1, <1>6, <1>7, <1>8

(* The readings after each number of steps, up to the n-th.                *)
IsAfter(f, type, i, n) ==
    /\ f = [m \in 0 .. n |-> f[m]]
    /\ f[0] = {Reading(Gives(i, EmptyArray), FALSE, << << [type |-> type] >> >>)}
    /\ \A m \in 0 .. n : m # 0 =>
          f[m] = {IF WholeRead(r) THEN r ELSE ReadOn(r) : r \in f[m - 1]}

LEMMA AfterExists ==
    ASSUME NEW type, NEW i, NEW n \in Nat
    PROVE  \E f : IsAfter(f, type, i, n)
<1> DEFINE without == {k \in Nat : ~ \E f : IsAfter(f, type, i, k)}
           start == {Reading(Gives(i, EmptyArray), FALSE, << << [type |-> type] >> >>)}
           next(readings) == {IF WholeRead(r) THEN r ELSE ReadOn(r) : r \in readings}
<1>1. CASE without = {}
  BY <1>1
<1>2. CASE without # {}
  <2>1. PICK k \in without : \A y \in without : ~ (y < k)
    BY <1>2, LeastNumber
  <2>2. k # 0
    <3>1. IsAfter([m \in 0 .. 0 |-> start], type, i, 0)
      BY DEF IsAfter
    <3> QED
      BY <3>1
  <2>3. PICK f : IsAfter(f, type, i, k - 1)
    BY <2>1, <2>2
  <2> DEFINE x == next(f[k - 1])
             g == [m \in 0 .. k |-> IF m = k THEN x ELSE f[m]]
  <2> HIDE DEF x
  <2>4. g[k] = x /\ \A m \in 0 .. k - 1 : g[m] = f[m]
    BY <2>1, <2>2
  <2>5. g = [m \in 0 .. k |-> g[m]]
    OBVIOUS
  <2>6. ASSUME NEW m \in 0 .. k, m # 0
        PROVE  g[m] = next(g[m - 1])
    <3>1. m - 1 \in 0 .. k - 1 /\ g[m - 1] = f[m - 1]
      BY <2>1, <2>2, <2>4, <2>6
    <3>2. CASE m = k
      BY <2>4, <3>1, <3>2 DEF x
    <3>3. CASE m # k
      <4>1. m \in 0 .. k - 1 /\ g[m] = f[m]
        BY <2>1, <2>2, <2>4, <3>3
      <4>2. f[m] = next(f[m - 1])
        BY <2>3, <2>6, <4>1 DEF IsAfter
      <4> QED
        BY <3>1, <4>1, <4>2
    <3> QED
      BY <3>2, <3>3
  <2>7. g[0] = start
    <3>1. 0 \in 0 .. k - 1
      BY <2>1, <2>2
    <3>2. f[0] = start
      BY <2>3 DEF IsAfter
    <3> QED
      BY <2>4, <3>1, <3>2
  <2> HIDE DEF g
  <2>8. IsAfter(g, type, i, k)
    BY <2>5, <2>6, <2>7 DEF IsAfter
  <2> QED
    BY <2>1, <2>8
<1> QED
  BY <1>1, <1>2

LEMMA ComplexIs ==
    ASSUME Text, NEW V, TypesIn(V), NEW type \in V, NEW i \in Nat, i # 0
    PROVE  IsItem(ComplexData(type, i))
<1> DEFINE steps == 2 * Len(tokens) + 3
           start == Reading(Gives(i, EmptyArray), FALSE, << << [type |-> type] >> >>)
           next(readings) == {IF WholeRead(r) THEN r ELSE ReadOn(r) : r \in readings}
           Is(f) == f = [n \in 0 .. steps |-> IF n = 0 THEN {start} ELSE next(f[n - 1])]
           after == CHOOSE f : Is(f)
           end == CHOOSE r \in after[steps] : TRUE
<1>1. steps \in Nat
  BY DEF Text
<1> HIDE DEF steps
<1>2. PICK f : IsAfter(f, type, i, steps)
  BY <1>1, AfterExists
<1>3. Is(f)
  <2>1. \A n \in 0 .. steps : f[n] = IF n = 0 THEN {start} ELSE next(f[n - 1])
    BY <1>2 DEF IsAfter
  <2> QED
    BY <1>2, <2>1 DEF IsAfter
<1>4. Is(after)
  BY <1>3, Zenon
<1>5. ComplexData(type, i) = end.item
  BY DEF ComplexData, steps
<1> HIDE DEF after
<1>6. /\ \A n \in 0 .. steps : n # 0 => after[n] = next(after[n - 1])
      /\ after[0] = {start}
  <2>1. \A n \in 0 .. steps : after[n] = IF n = 0 THEN {start} ELSE next(after[n - 1])
    BY <1>4
  <2>2. 0 \in 0 .. steps
    BY <1>1
  <2>3. after[0] = {start}
    BY <2>1, <2>2, Zenon
  <2> QED
    BY <2>1, <2>3
<1>7. IsReading(start, V)
  <2> DEFINE field == [type |-> type]
             parts == << field >>
  <2>1. field.type \in V
    OBVIOUS
  <2> HIDE DEF field
  <2>2. IsSeq(parts) /\ parts # << >> /\ ToSet(parts) = {field}
    BY SeqOne DEF ToSet
  <2>3. Fields(parts, V)
    BY <2>1, <2>2 DEF Fields
  <2> HIDE DEF parts
  <2>4. /\ IsSeq(<< parts >>) /\ << parts >> # << >> /\ ToSet(<< parts >>) = {parts}
        /\ << parts >>[1] = parts
    BY SeqOne DEF ToSet
  <2>5. IsItem(Gives(i, EmptyArray))
    BY ItemIs
  <2>6. IsReading(Reading(Gives(i, EmptyArray), FALSE, << parts >>), V)
    BY <2>2, <2>3, <2>4, <2>5 DEF IsReading, Reading
  <2> QED
    BY <2>6 DEF parts, field
<1> HIDE DEF start
<1> DEFINE off == {n \in Nat : n <= steps
                       /\ ~ (after[n] # {} /\ \A r \in after[n] : IsReading(r, V))}
<1>8. CASE off = {}
  <2>1. after[steps] # {} /\ \A r \in after[steps] : IsReading(r, V)
    BY <1>1, <1>8
  <2>2. end \in after[steps]
    BY <2>1
  <2> HIDE DEF end
  <2> QED
    BY <1>5, <2>1, <2>2 DEF IsReading
<1>9. CASE off # {}
  <2>1. PICK n \in off : \A y \in off : ~ (y < n)
    BY <1>9, LeastNumber
  <2>2. n # 0
    BY <1>6, <1>7, <2>1
  <2>3. n - 1 \in Nat /\ n - 1 <= steps /\ n - 1 \notin off /\ n \in 0 .. steps
    BY <1>1, <2>1, <2>2
  <2>4. after[n - 1] # {} /\ \A r \in after[n - 1] : IsReading(r, V)
    BY <2>3
  <2>5. after[n] = next(after[n - 1])
    BY <1>6, <2>2, <2>3
  <2>6. \A r \in after[n - 1] : IsReading(IF WholeRead(r) THEN r ELSE ReadOn(r), V)
    BY <2>4, ReadOnIs
  <2>7. after[n] # {} /\ \A r \in after[n] : IsReading(r, V)
    BY <2>4, <2>5, <2>6
  <2> QED
    BY <2>1, <2>7
<1> QED
  BY <1>8, <1>9

LEMMA StringIs ==
    ASSUME Text, NEW i \in Nat, i # 0, NEW type
    PROVE  IsItem(StringAt(i, type))
<1>1. i + 1 \in Nat /\ i + 1 # 0
  OBVIOUS
<1>2. /\ IsItem(Gives(i + 1, Value("string", << Tok(i).text >>)))
      /\ IsItem(Fails(i + 1))
  BY <1>1, ItemIs
<1> QED
  BY <1>2 DEF StringAt

LEMMA ValueIs ==
    ASSUME Text, NEW V, TypesIn(V), NEW type, type.kind = "basic" \/ type \in V,
           NEW i \in Nat, i # 0
    PROVE  IsItem(ValueAt(type, i)) /\ IsItem(DataAt(type, i))
<1>1. i + 1 \in Nat /\ i + 1 # 0
  OBVIOUS
<1>2. /\ IsItem(Gives(i + 1, Value("number", << NumberAt(i, type.name) >>)))
      /\ IsItem(Fails(i + 1)) /\ IsItem(Breaks("aborted"))
  BY <1>1, ItemIs
<1>3. IsItem(StringAt(i, type.name)) /\ IsItem(NumbersAt(i, type.name))
  BY StringIs, NumbersIs
<1>4. CASE type.kind = "basic"
  BY <1>2, <1>3, <1>4 DEF ValueAt, DataAt
<1>5. CASE type.kind # "basic"
  <2>1. IsItem(ComplexData(type, i))
    BY <1>5, ComplexIs
  <2> QED
    BY <1>5, <2>1 DEF ValueAt, DataAt
<1> QED
  BY <1>4, <1>5

LEMMA TwoNumbersIs ==
    ASSUME Text, NEW i \in Nat, i # 0, NEW base
    PROVE  IsItem(TwoNumbers(i, base))
<1>1. i + 3 \in Nat /\ i + 3 # 0
  OBVIOUS
<1>2. /\ IsItem(Gives(i + 3, Value("range", << NumberAt(i, base), NumberAt(i + 2, base) >>)))
      /\ IsItem(Fails(i + 3)) /\ IsItem(Breaks("aborted"))
  BY <1>1, ItemIs
<1> QED
  BY <1>2 DEF TwoNumbers

LEMMA ToSemicolonIs ==
    ASSUME Text, NEW data, IsItem(data), NEW kept
    PROVE  IsItem(ToSemicolon(data, kept))
<1>1. CASE data.fate # "ok"
  BY <1>1 DEF ToSemicolon
<1>2. CASE data.fate = "ok"
  <2> DEFINE i == data.next
             found == Semicolons(i)
  <2>1. Len(tokens) \in Nat /\ Len(tokens) + 1 \in Nat /\ Len(tokens) + 1 # 0 /\ i \in Nat
    BY <1>2 DEF Text, IsItem
  <2>2. found \in SUBSET Nat
    <3>1. i .. Len(tokens) \subseteq Nat
      BY <2>1
    <3> QED
      BY <3>1 DEF Semicolons
  <2> HIDE DEF found
  <2>3. found # {} => Min(found) \in Nat /\ Min(found) + 1 \in Nat /\ Min(found) + 1 # 0
    <3>1. ASSUME found # {}
          PROVE  Min(found) \in Nat
      BY <2>2, <3>1, MinIs
    <3> QED
      BY <3>1
  <2>4. IsItem(Fails(Len(tokens) + 1))
    BY <2>1, ItemIs
  <2>5. found # {} => IsItem(Gives(Min(found) + 1, kept))
    BY <2>3, ItemIs
  <2> QED
    BY <1>2, <2>4, <2>5 DEF ToSemicolon, AfterSemicolon, found
<1> QED
  BY <1>1, <1>2

LEMMA VariableIs ==
    ASSUME Text, NEW i \in Nat, i # 0, NEW type
    PROVE  /\ IsItem(VariableAt(i, type)) /\ VariableAt(i, type).fate \in {"ok", "fails"}
           /\ VariableAt(i, type).fate = "ok" => VariableAt(i, type).value.type = type
<1> DEFINE len == Len(tokens)
           Name(m) == i + 2 * m
           Separated(m) == At(Name(m) + 1, {")", ","})
           Stop(m) == m > 0 /\ (~ Separated(m) \/ At(Name(m) + 2, {";", ","}))
           n == CHOOSE m \in 0 .. len : Stop(m) /\ \A k \in 0 .. m - 1 : ~ Stop(k)
           Extent(count) == [name |-> Tok(i).text, type |-> type,
                             dimensions |-> [m \in 1 .. count |-> Tok(Name(m)).text]]
           Good(item) == /\ IsItem(item) /\ item.fate \in {"ok", "fails"}
                         /\ item.fate = "ok" => item.value.type = type
<1>1. ASSUME NEW next \in Nat, next # 0, NEW count
      PROVE  Good(Gives(next, Extent(count))) /\ Good(Fails(next))
  <2>1. IsItem(Gives(next, Extent(count))) /\ IsItem(Fails(next))
    BY <1>1, ItemIs
  <2>2. Gives(next, Extent(count)).fate = "ok" /\ Gives(next, Extent(count)).value = Extent(count)
    BY DEF Gives
  <2>3. Fails(next).fate = "fails"
    BY DEF Fails
  <2>4. Extent(count).type = type
    OBVIOUS
  <2> HIDE DEF Extent
  <2> QED
    BY <2>1, <2>2, <2>3, <2>4
<1>2. i + 2 \in Nat /\ i + 2 # 0
  OBVIOUS
<1>3. CASE ~ At(i + 1, {"("})
  <2>1. Good(Gives(i + 2, Extent(0))) /\ Good(Fails(i + 2))
    BY <1>1, <1>2
  <2>2. VariableAt(i, type) \in {Gives(i + 2, Extent(0)), Fails(i + 2)}
    BY <1>3 DEF VariableAt
  <2> HIDE DEF Good, Extent
  <2>3. Good(VariableAt(i, type))
    BY <2>1, <2>2
  <2> QED
    BY <2>3 DEF Good
<1>4. CASE At(i + 1, {"("})
  <2>1. len \in Nat /\ 0 <= len /\ len # 0
    BY <1>4 DEF Text, At, Tok, Exists, NoToken, Token
  <2>2. Name(len) + 1 \notin DOMAIN tokens
    BY <2>1 DEF Text
  <2>3. ~ Separated(len)
    BY <2>2 DEF At, Tok, Exists, NoToken, Token
  <2> HIDE DEF len
  <2>4. Stop(len)
    <3>1. len > 0
      BY <2>1
    <3> QED
      BY <2>3, <3>1, Zenon
  <2> HIDE DEF Stop
  <2> DEFINE stops == {m \in Nat : Stop(m)}
  <2>5. len \in stops
    BY <2>1, <2>4
  <2>6. PICK x \in 0 .. len : x \in stops /\ \A k \in 0 .. x - 1 : k \notin stops
    BY <2>1, <2>5, LeastFrom
  <2>7. Stop(x) /\ \A k \in 0 .. x - 1 : ~ Stop(k)
    BY <2>1, <2>6
  <2>8. n \in 0 .. len
    BY <2>7
  <2>9. n = First(LAMBDA m : m > 0 /\ (~ Separated(m) \/ At(Name(m) + 2, {";", ","})))
    BY DEF First, Stop, len
  <2> HIDE DEF n
  <2>10. n \in Nat /\ Name(n) + 3 \in Nat /\ Name(n) + 3 # 0 /\ Name(n) + 2 \in Nat /\ Name(n) + 2 # 0
    BY <2>1, <2>8
  <2>11. /\ Good(Gives(i + 2, Extent(0))) /\ Good(Fails(i + 2))
         /\ Good(Gives(Name(n) + 3, Extent(n - 1))) /\ Good(Fails(Name(n) + 3))
         /\ Good(Gives(Name(n) + 3, Extent(n))) /\ Good(Gives(Name(n) + 2, Extent(n)))
    BY <1>1, <1>2, <2>10
  <2>12. VariableAt(i, type) \in
           {Gives(i + 2, Extent(0)), Fails(i + 2), Gives(Name(n) + 3, Extent(n - 1)),
            Fails(Name(n) + 3), Gives(Name(n) + 3, Extent(n)), Gives(Name(n) + 2, Extent(n))}
    BY <2>9 DEF VariableAt
  <2> HIDE DEF Good, Extent, Name
  <2>13. Good(VariableAt(i, type))
    BY <2>11, <2>12
  <2> QED
    BY <2>13 DEF Good
<1> QED
  BY <1>3, <1>4

LEMMA AttributeIs ==
    ASSUME Text, NEW U, NEW V, Frames(U, V), stack # << >>, NEW i \in Nat, i # 0,
           NEW type \in V \cup Basics \cup {NoType}
    PROVE  IsItem(AttributeAt(i, type))
<1> DEFINE token == Tok(i)
           owner == IF token.kind = "colon" THEN token.parts[1] ELSE ""
           variable == Named(owner, Top.group.variables)
           first == variable[1]
           global == owner = ""
           kept(t, data) == [variable |-> owner, name |-> token.name, type |-> t,
                             value |-> data.value]
           As(t, data) == ToSemicolon(data, kept(t, data))
           OneToken == IF Exists(i + 2) THEN Gives(i + 3, Value("raw", << Tok(i + 2) >>))
                       ELSE Fails(i + 2)
           declared == IF type = NoType THEN Basic("string") ELSE type
           values == ValueAt(BasicOf(first), i + 2)
           range == TwoNumbers(i + 2, BasicOf(first).name)
           global_values == ValueAt(declared, i + 2)
<1>1. i + 2 \in Nat /\ i + 2 # 0 /\ i + 3 \in Nat /\ i + 3 # 0
  OBVIOUS
<1>2. TypesIn(V) /\ IsGroup(Top.group, V)
  BY StackIs, FrameIs DEF Frames, Top
<1>3. IsItem(OneToken) /\ IsItem(Fails(i + 2))
  <2>1. IsItem(Gives(i + 3, Value("raw", << Tok(i + 2) >>))) /\ IsItem(Fails(i + 2))
    BY <1>1, ItemIs
  <2> QED
    BY <2>1
<1>4. BasicOf(first).kind = "basic"
  BY DEF BasicOf, Basic, Type
<1>5. declared.kind = "basic" \/ declared \in V
  BY DEF Basics, Basic, Type
<1> HIDE DEF declared, first
<1>6. IsItem(values) /\ IsItem(range) /\ IsItem(global_values)
  BY <1>1, <1>2, <1>4, <1>5, ValueIs, TwoNumbersIs
<1> HIDE DEF OneToken, values, range, global_values
<1>7. /\ IsItem(As(type, OneToken)) /\ IsItem(As(Basic("string"), OneToken))
      /\ IsItem(As(BasicOf(first), values)) /\ IsItem(As(BasicOf(first), range))
      /\ IsItem(As(declared, global_values))
  BY <1>3, <1>6, ToSemicolonIs
<1>8. AttributeAt(i, type) \in
        {Fails(i + 2), As(type, OneToken), As(Basic("string"), OneToken),
         As(BasicOf(first), values), As(BasicOf(first), range), As(declared, global_values)}
  BY DEF AttributeAt, OneToken, values, range, global_values, declared, first
<1> HIDE DEF As
<1> QED
  BY <1>3, <1>7, <1>8

-----------------------------------------------------------------------------
(***************************************************************************)
(* The invariant: where the parser is, the open groups with their types,   *)
(* and that all types in use are in scope, that of a declaration which     *)
(* goes on behind a comma too.                                             *)
(***************************************************************************)
Parsing(U, V) ==
    /\ Text /\ Frames(U, V)
    /\ cursor \in 1 .. Len(tokens) + 1
    /\ outcome \in Final \cup {"start", "parsing"}
    /\ outcome = "parsing" => stack # << >>
    /\ outcome \in {"start", "parsed", "failed"} => stack = << >>
    /\ \A i \in 1 .. Len(stack) :
          /\ i < Len(stack) => stack[i].mode = "group"
          /\ stack[i].previous = NoType \/ InScope(stack[i].previous, i)
    /\ Scoped

(***************************************************************************)
(* What one action may do with the innermost group: each of its lists is   *)
(* as it was, or has one item more, of a type that may be used.            *)
(***************************************************************************)
TypesFollow(types, V) ==
    \/ types = Top.group.types
    \/ \E t : IsType(t, V) /\ types = Append(Top.group.types, t)
VariablesFollow(variables, V) ==
    \/ variables = Top.group.variables
    \/ \E v : /\ v.type # NoType /\ Known(v.type) /\ v.type \in V \cup Basics
             /\ variables = Append(Top.group.variables, v)
AttributesFollow(attributes) ==
    \/ attributes = Top.group.attributes
    \/ \E a : attributes = Append(Top.group.attributes, a)
PreviousFollows(previous, V) == Known(previous) /\ previous \in V \cup Basics \cup {NoType}
PartialFollows(mode, partial, V) ==
    /\ mode \in Modes
    /\ mode \in {"enum", "compound"} =>
          /\ partial = [kind |-> partial.kind, name |-> partial.name,
                        base |-> partial.base, parts |-> partial.parts]
          /\ partial.kind = mode
    /\ mode = "compound" => Fields(partial.parts, V)

Follows(frame, V) ==
    /\ FrameShape(frame) /\ GroupShape(frame.group)
    /\ frame.group.groups = Top.group.groups
    /\ TypesFollow(frame.group.types, V) /\ VariablesFollow(frame.group.variables, V)
    /\ AttributesFollow(frame.group.attributes)
    /\ PreviousFollows(frame.previous, V)
    /\ PartialFollows(frame.mode, frame.partial, V)

Goes(V) ==
    /\ tokens' = tokens
    /\ \/ /\ \E frame : Follows(frame, V) /\ stack' = WithTop(frame)
          /\ outcome' = outcome /\ cursor' \in 1 .. Len(tokens) + 1
       \/ /\ stack' = stack /\ outcome' \in {"aborted", "undefined"}
          /\ cursor' = cursor

LEMMA TopFollows ==
    ASSUME NEW U, NEW V, Parsing(U, V), outcome = "parsing"
    PROVE  /\ stack # << >> /\ Frames(U, V) /\ Text
           /\ FrameShape(Top) /\ GroupShape(Top.group) /\ Follows(Top, V)
           /\ cursor \in Nat /\ cursor # 0
<1>1. stack # << >> /\ Frames(U, V) /\ Text
  BY DEF Parsing
<1>2. Len(stack) \in 1 .. Len(stack)
  BY <1>1, StackIs
<1>3. IsFrame(Top, U, V) /\ IsGroup(Top.group, V)
  BY <1>1, <1>2, FrameIs DEF Frames, Top
<1>4. Top.previous = NoType \/ InScope(Top.previous, Len(stack))
  BY <1>2 DEF Parsing, Top
<1>5. cursor \in Nat /\ cursor # 0
  BY DEF Parsing, Text
<1>6. FrameShape(Top) /\ GroupShape(Top.group)
  BY <1>3 DEF IsGroup, IsFrame
<1>7. PreviousFollows(Top.previous, V)
  BY <1>3, <1>4 DEF PreviousFollows, Known, IsFrame
<1>8. PartialFollows(Top.mode, Top.partial, V)
  BY <1>3 DEF PartialFollows, IsFrame
<1>9. Follows(Top, V)
  BY <1>6, <1>7, <1>8 DEF Follows, TypesFollow, VariablesFollow, AttributesFollow
<1> QED
  BY <1>1, <1>5, <1>6, <1>9

LEMMA NoTypeFollows ==
    ASSUME NEW V, NEW mode \in Sections \cup {"group"}, NEW partial
    PROVE  PreviousFollows(NoType, V) /\ PartialFollows(mode, partial, V)
  BY DEF PreviousFollows, PartialFollows, Known, Modes, Sections

(* Going on with token i, and another innermost group.                     *)
LEMMA ContinueGoes ==
    ASSUME NEW V, Text, NEW i \in Nat, i # 0, NEW frame, Follows(frame, V),
           Continue(i, frame)
    PROVE  Goes(V)
  BY UptoIs DEF Goes, Continue

LEMMA LeaveGoes ==
    ASSUME NEW U, NEW V, Parsing(U, V), outcome = "parsing",
           NEW i \in Nat, i # 0, Leave(i)
    PROVE  Goes(V)
<1> DEFINE frame == [Top EXCEPT !.mode = "group", !.previous = NoType, !.partial = NoType]
<1>1. Skip(Upto(i)) \in 1 .. Len(tokens) + 1
  BY TopFollows, UptoIs, SkipIs
<1>2. /\ tokens' = tokens /\ outcome' = outcome /\ cursor' = Skip(Upto(i))
      /\ stack' = WithTop(frame)
  BY DEF Leave
<1>3. FrameShape(Top) /\ Follows(Top, V)
  BY TopFollows
<1>4. /\ FrameShape(frame) /\ frame.group = Top.group
      /\ frame.mode = "group" /\ frame.previous = NoType
  BY <1>3 DEF FrameShape
<1>5. Follows(frame, V)
  <2> HIDE DEF frame
  <2> QED
    BY <1>3, <1>4, NoTypeFollows DEF Follows
<1> HIDE DEF frame
<1> QED
  BY <1>1, <1>2, <1>5 DEF Goes

LEMMA StopsGoes ==
    ASSUME NEW V, NEW how \in {"aborted", "undefined"}, Stops(how)
    PROVE  Goes(V)
  BY DEF Goes, Stops

LEMMA DeclareGoes ==
    ASSUME NEW U, NEW V, Parsing(U, V), outcome = "parsing",
           NEW i \in Nat, i # 0, NEW type, IsType(type, V), Declare(type, i)
    PROVE  Goes(V)
<1> DEFINE frame == [Top EXCEPT !.group.types = Append(@, type),
                                !.mode = "types:", !.partial = NoType]
           g == frame.group
<1>1. Skip(Upto(i)) \in 1 .. Len(tokens) + 1
  BY TopFollows, UptoIs, SkipIs
<1>2. /\ tokens' = tokens /\ outcome' = outcome /\ cursor' = Skip(Upto(i))
      /\ stack' = WithTop(frame)
  BY DEF Declare
<1>3. FrameShape(Top) /\ GroupShape(Top.group) /\ Follows(Top, V)
  BY TopFollows
<1>4. /\ FrameShape(frame) /\ frame.mode = "types:" /\ frame.previous = Top.previous
      /\ g = [Top.group EXCEPT !.types = Append(@, type)]
  BY <1>3 DEF FrameShape
<1>5. /\ GroupShape(g) /\ g.types = Append(Top.group.types, type)
      /\ g.variables = Top.group.variables /\ g.attributes = Top.group.attributes
      /\ g.groups = Top.group.groups
  <2> DEFINE h == g
             old == Top.group
  <2>1. h = [old EXCEPT !.types = Append(@, type)] /\ GroupShape(old)
    BY <1>3, <1>4
  <2> HIDE DEF h, old
  <2>2. /\ GroupShape(h) /\ h.types = Append(old.types, type)
        /\ h.variables = old.variables /\ h.attributes = old.attributes
        /\ h.groups = old.groups
    BY <2>1 DEF GroupShape
  <2> QED
    BY <2>2 DEF h, old
<1>6. Follows(frame, V)
  <2> HIDE DEF frame
  <2>1. TypesFollow(g.types, V)
    BY <1>5 DEF TypesFollow
  <2>2. PartialFollows(frame.mode, frame.partial, V)
    BY <1>4, NoTypeFollows DEF Sections
  <2> QED
    BY <1>3, <1>4, <1>5, <2>1, <2>2
    DEF Follows, VariablesFollow, AttributesFollow
<1> HIDE DEF frame
<1> QED
  BY <1>1, <1>2, <1>6 DEF Goes

LEMMA LongerType ==
    ASSUME NEW p, p = [kind |-> p.kind, name |-> p.name, base |-> p.base, parts |-> p.parts],
           NEW x
    PROVE  [p EXCEPT !.parts = Append(@, x)] = Type(p.kind, p.name, p.base, Append(p.parts, x))
<1> DEFINE q == [p EXCEPT !.parts = Append(@, x)]
<1>1. /\ DOMAIN q = {"kind", "name", "base", "parts"} /\ q = [y \in DOMAIN q |-> q[y]]
  OBVIOUS
<1>2. q.kind = p.kind /\ q.name = p.name /\ q.base = p.base /\ q.parts = Append(p.parts, x)
  OBVIOUS
<1> HIDE DEF q
<1>3. q = Type(p.kind, p.name, p.base, Append(p.parts, x))
  BY <1>1, <1>2 DEF Type
<1> QED
  BY <1>3 DEF q

-----------------------------------------------------------------------------
(***************************************************************************)
(* One action after the other: none does more to the innermost group, or   *)
(* the program stops.                                                      *)
(***************************************************************************)
LEMMA EnterSectionGoes ==
    ASSUME NEW U, NEW V, Parsing(U, V), EnterSection
    PROVE  Goes(V)
<1> DEFINE mode == Tok(cursor).text
           frame == [Top EXCEPT !.mode = mode,
                                !.group.dimensions =
                                    IF At(cursor, {"dimensions:"}) THEN << >> ELSE @,
                                !.group.listed = @ \/ At(cursor, {"variables:"})]
           old == Top.group
           g == frame.group
<1>1. /\ outcome = "parsing" /\ Continue(cursor + 1, frame) /\ mode \in Sections
  BY DEF EnterSection, In, At
<1>2. /\ FrameShape(Top) /\ GroupShape(old) /\ Follows(Top, V) /\ Text
      /\ cursor + 1 \in Nat /\ cursor + 1 # 0
  BY <1>1, TopFollows
<1> HIDE DEF mode
<1>3. /\ FrameShape(frame) /\ frame.mode = mode /\ frame.previous = Top.previous
      /\ g = [[old EXCEPT !.dimensions = IF At(cursor, {"dimensions:"}) THEN << >> ELSE @]
                EXCEPT !.listed = @ \/ At(cursor, {"variables:"})]
  BY <1>2 DEF FrameShape
<1> HIDE DEF frame
<1>4. /\ GroupShape(g) /\ g.types = old.types /\ g.variables = old.variables
      /\ g.attributes = old.attributes /\ g.groups = old.groups
  <2> HIDE DEF g, old
  <2> QED
    BY <1>2, <1>3 DEF GroupShape
<1>5. Follows(frame, V)
  BY <1>1, <1>2, <1>3, <1>4, NoTypeFollows
  DEF Follows, TypesFollow, VariablesFollow, AttributesFollow
<1> QED
  BY <1>1, <1>2, <1>5, ContinueGoes

LEMMA EnterOtherGoes ==
    ASSUME NEW U, NEW V, Parsing(U, V), EnterOther
    PROVE  Goes(V)
<1> DEFINE frame == [Top EXCEPT !.mode = "variables:", !.group.listed = TRUE]
           old == Top.group
           g == frame.group
<1>1. /\ outcome = "parsing" /\ Continue(cursor, frame)
  BY DEF EnterOther, In
<1>2. /\ FrameShape(Top) /\ GroupShape(old) /\ Follows(Top, V) /\ Text
      /\ cursor \in Nat /\ cursor # 0
  BY <1>1, TopFollows
<1>3. /\ FrameShape(frame) /\ frame.mode = "variables:" /\ frame.previous = Top.previous
      /\ g = [old EXCEPT !.listed = TRUE]
  BY <1>2 DEF FrameShape
<1> HIDE DEF frame
<1>4. /\ GroupShape(g) /\ g.types = old.types /\ g.variables = old.variables
      /\ g.attributes = old.attributes /\ g.groups = old.groups
  <2> HIDE DEF g, old
  <2> QED
    BY <1>2, <1>3 DEF GroupShape
<1>5. Follows(frame, V)
  BY <1>2, <1>3, <1>4, NoTypeFollows
  DEF Follows, TypesFollow, VariablesFollow, AttributesFollow, Sections
<1> QED
  BY <1>1, <1>2, <1>5, ContinueGoes

LEMMA DimensionGoes ==
    ASSUME NEW U, NEW V, Parsing(U, V), Dimension
    PROVE  Goes(V)
<1> DEFINE i == cursor
           unlimited == At(i + 2, {"unlimited", "UNLIMITED"})
           dimension == [name |-> Tok(i).text,
                         length |-> IF unlimited THEN "0" ELSE Size(Tok(i + 2))]
           frame == [Top EXCEPT !.group.dimensions = Append(@, dimension)]
           old == Top.group
           g == frame.group
<1>1. outcome = "parsing"
  BY DEF Dimension, In
<1>2. /\ FrameShape(Top) /\ GroupShape(old) /\ Follows(Top, V) /\ Text
      /\ i \in Nat /\ i # 0 /\ i + 4 \in Nat /\ i + 4 # 0
  BY <1>1, TopFollows
<1>3. CASE Leave(i) \/ Leave(i + 4)
  BY <1>1, <1>2, <1>3, LeaveGoes
<1>4. CASE Stops("aborted")
  BY <1>4, StopsGoes
<1>5. CASE Continue(i + 4, frame)
  <2> HIDE DEF dimension
  <2>1. /\ FrameShape(frame) /\ frame.mode = Top.mode /\ frame.previous = Top.previous
        /\ frame.partial = Top.partial
        /\ g = [old EXCEPT !.dimensions = Append(@, dimension)]
    BY <1>2 DEF FrameShape
  <2> HIDE DEF frame
  <2>2. /\ GroupShape(g) /\ g.types = old.types /\ g.variables = old.variables
        /\ g.attributes = old.attributes /\ g.groups = old.groups
    <3> HIDE DEF g, old
    <3> QED
      BY <1>2, <2>1 DEF GroupShape
  <2>3. Follows(frame, V)
    BY <1>2, <2>1, <2>2 DEF Follows, TypesFollow, VariablesFollow, AttributesFollow
  <2> QED
    BY <1>2, <1>5, <2>3, ContinueGoes
<1> QED
  BY <1>3, <1>4, <1>5 DEF Dimension

LEMMA NoMoreGoes ==
    ASSUME NEW U, NEW V, Parsing(U, V), NoMoreTypes \/ NoMoreVariables
    PROVE  Goes(V)
<1>1. outcome = "parsing" /\ Leave(cursor)
  BY DEF NoMoreTypes, NoMoreVariables, In
<1>2. cursor \in Nat /\ cursor # 0
  BY <1>1, TopFollows
<1> QED
  BY <1>1, <1>2, LeaveGoes

-----------------------------------------------------------------------------
(* The types.                                                              *)
LEMMA FreshFollows ==
    ASSUME NEW V, NEW kind \in {"enum", "compound"}, NEW name, NEW base
    PROVE  PartialFollows(kind, Type(kind, name, base, << >>), V)
<1> DEFINE partial == Type(kind, name, base, << >>)
<1>1. /\ partial.kind = kind /\ partial.name = name /\ partial.base = base
      /\ partial.parts = << >>
  BY DEF Type
<1>2. partial = [kind |-> partial.kind, name |-> partial.name,
                 base |-> partial.base, parts |-> partial.parts]
  BY <1>1 DEF Type
<1> HIDE DEF partial
<1>3. Fields(partial.parts, V)
  BY <1>1, SeqEmpty DEF Fields
<1> QED
  BY <1>1, <1>2, <1>3 DEF PartialFollows, Modes, partial

(* Another enum or compound begins, or goes on.                            *)
LEMMA PartialGoes ==
    ASSUME NEW U, NEW V, Parsing(U, V), outcome = "parsing", NEW i \in Nat, i # 0,
           NEW frame, FrameShape(frame), frame.group = Top.group,
           frame.previous = Top.previous,
           PartialFollows(frame.mode, frame.partial, V), Continue(i, frame)
    PROVE  Goes(V)
<1>1. Follows(Top, V) /\ Text
  BY TopFollows
<1>2. Follows(frame, V)
  BY <1>1 DEF Follows
<1> QED
  BY <1>1, <1>2, ContinueGoes

LEMMA OpaqueGoes ==
    ASSUME NEW U, NEW V, Parsing(U, V), Opaque
    PROVE  Goes(V)
<1> DEFINE type == Type("opaque", Tok(cursor + 4).text, Size(Tok(cursor + 2)), << >>)
<1>1. /\ outcome = "parsing"
      /\ Leave(cursor + 6) \/ Stops("aborted") \/ Declare(type, cursor + 6)
  BY DEF Opaque, InTypes, In
<1>2. cursor + 6 \in Nat /\ cursor + 6 # 0
  BY <1>1, TopFollows
<1>3. IsType(type, V)
  BY DEF IsType, Type
<1> HIDE DEF type
<1> QED
  BY <1>1, <1>2, <1>3, LeaveGoes, StopsGoes, DeclareGoes

LEMMA CompoundGoes ==
    ASSUME NEW U, NEW V, Parsing(U, V), Compound
    PROVE  Goes(V)
<1> DEFINE partial == Type("compound", Tok(cursor + 1).text, "", << >>)
           frame == [Top EXCEPT !.mode = "compound", !.partial = partial]
<1>1. /\ outcome = "parsing"
      /\ Leave(cursor + 2) \/ Stops("aborted") \/ Continue(cursor + 3, frame)
  BY DEF Compound, InTypes, In
<1>2. /\ FrameShape(Top)
      /\ cursor + 2 \in Nat /\ cursor + 2 # 0 /\ cursor + 3 \in Nat /\ cursor + 3 # 0
  BY <1>1, TopFollows
<1>3. PartialFollows("compound", partial, V)
  BY FreshFollows
<1> HIDE DEF partial
<1>4. /\ FrameShape(frame) /\ frame.group = Top.group /\ frame.mode = "compound"
      /\ frame.previous = Top.previous /\ frame.partial = partial
  BY <1>2 DEF FrameShape
<1> HIDE DEF frame
<1>5. CASE Continue(cursor + 3, frame)
  BY <1>1, <1>2, <1>3, <1>4, <1>5, PartialGoes
<1> QED
  BY <1>1, <1>2, <1>5, LeaveGoes, StopsGoes

LEMMA EnumGoes ==
    ASSUME NEW U, NEW V, Parsing(U, V), Enum
    PROVE  Goes(V)
<1> DEFINE partial == Type("enum", Tok(cursor + 2).text, BaseOf(Tok(cursor)), << >>)
           frame == [Top EXCEPT !.mode = "enum", !.partial = partial]
<1>1. outcome = "parsing" /\ (Leave(cursor + 4) \/ Continue(cursor + 4, frame))
  BY DEF Enum, InTypes, In
<1>2. FrameShape(Top) /\ cursor + 4 \in Nat /\ cursor + 4 # 0
  BY <1>1, TopFollows
<1>3. PartialFollows("enum", partial, V)
  BY FreshFollows
<1> HIDE DEF partial
<1>4. /\ FrameShape(frame) /\ frame.group = Top.group /\ frame.mode = "enum"
      /\ frame.previous = Top.previous /\ frame.partial = partial
  BY <1>2 DEF FrameShape
<1> HIDE DEF frame
<1>5. CASE Continue(cursor + 4, frame)
  BY <1>1, <1>2, <1>3, <1>4, <1>5, PartialGoes
<1> QED
  BY <1>1, <1>2, <1>5, LeaveGoes

LEMMA VLenGoes ==
    ASSUME NEW U, NEW V, Parsing(U, V), VLen
    PROVE  Goes(V)
<1> DEFINE type == Type("vlen", Tok(cursor + 4).text, BaseOf(Tok(cursor)), << >>)
<1>1. outcome = "parsing" /\ (Leave(cursor + 6) \/ Declare(type, cursor + 6))
  BY DEF VLen, InTypes, In
<1>2. cursor + 6 \in Nat /\ cursor + 6 # 0
  BY <1>1, TopFollows
<1>3. IsType(type, V)
  BY DEF IsType, Type
<1> HIDE DEF type
<1> QED
  BY <1>1, <1>2, <1>3, LeaveGoes, DeclareGoes

LEMMA EnumValueGoes ==
    ASSUME NEW U, NEW V, Parsing(U, V), EnumValue
    PROVE  Goes(V)
<1> DEFINE i == cursor
           value == [name |-> Tok(i).text, value |-> Converted(Tok(i + 2), "stoi")]
           old == Top.partial
           frame == [Top EXCEPT !.partial.parts = Append(@, value)]
<1>1. /\ outcome = "parsing" /\ Top.mode = "enum"
      /\ \/ Declare(old, i) \/ Declare(old, i + 1) \/ Declare(old, i + 4)
         \/ Stops("aborted") \/ Continue(i + 4, frame)
  BY DEF EnumValue, In
<1>2. /\ FrameShape(Top) /\ PartialFollows("enum", old, V)
      /\ i \in Nat /\ i # 0 /\ i + 1 \in Nat /\ i + 1 # 0 /\ i + 4 \in Nat /\ i + 4 # 0
  BY <1>1, TopFollows DEF Follows
<1>3. /\ old = [kind |-> old.kind, name |-> old.name, base |-> old.base, parts |-> old.parts]
      /\ old.kind = "enum"
  BY <1>2 DEF PartialFollows
<1>4. IsType(old, V)
  BY <1>3 DEF IsType
<1> HIDE DEF value
<1>5. /\ FrameShape(frame) /\ frame.group = Top.group /\ frame.mode = Top.mode
      /\ frame.previous = Top.previous /\ frame.partial = [old EXCEPT !.parts = Append(@, value)]
  BY <1>2 DEF FrameShape
<1> HIDE DEF frame
<1>6. frame.partial = Type(old.kind, old.name, old.base, Append(old.parts, value))
  <2> HIDE DEF old
  <2> QED
    BY <1>3, <1>5, LongerType
<1>7. PartialFollows("enum", frame.partial, V)
  BY <1>3, <1>6 DEF PartialFollows, Modes, Type
<1>8. CASE Continue(i + 4, frame)
  BY <1>1, <1>2, <1>5, <1>7, <1>8, PartialGoes
<1> QED
  BY <1>1, <1>2, <1>4, <1>8, StopsGoes, DeclareGoes

LEMMA CompoundFieldGoes ==
    ASSUME NEW U, NEW V, Parsing(U, V), CompoundField
    PROVE  Goes(V)
<1> DEFINE i == cursor
           type == Resolve(Tok(i))
           field == [name |-> Tok(i + 1).text, type |-> type]
           old == Top.partial
           larger == [old EXCEPT !.parts = Append(@, field)]
           frame == [Top EXCEPT !.partial = larger]
<1>1. /\ outcome = "parsing" /\ Top.mode = "compound"
      /\ \/ Leave(i + 1) \/ Leave(i + 2) \/ Leave(i + 3)
         \/ /\ type # NoType /\ type.kind # "basic"
            /\ Declare(larger, i + 4) \/ Continue(i + 3, frame)
  BY DEF CompoundField, In
<1>2. /\ FrameShape(Top) /\ PartialFollows("compound", old, V)
      /\ stack # << >> /\ Frames(U, V) /\ Text
      /\ i \in Nat /\ i + 1 \in Nat /\ i + 1 # 0 /\ i + 2 \in Nat /\ i + 2 # 0
      /\ i + 3 \in Nat /\ i + 3 # 0 /\ i + 4 \in Nat /\ i + 4 # 0
  BY <1>1, TopFollows DEF Follows
<1>3. CASE Leave(i + 1) \/ Leave(i + 2) \/ Leave(i + 3)
  BY <1>1, <1>2, <1>3, LeaveGoes
<1>4. CASE /\ type # NoType /\ type.kind # "basic"
           /\ Declare(larger, i + 4) \/ Continue(i + 3, frame)
  <2>1. type \in V
    <3>1. type \in V \cup Basics \cup {NoType}
      BY <1>2, ResolveKnown
    <3> HIDE DEF type
    <3>2. type \notin Basics
      BY <1>4 DEF Basics, Basic, Type
    <3> QED
      BY <1>4, <3>1, <3>2
  <2> HIDE DEF type
  <2>2. field.type \in V
    BY <2>1
  <2> HIDE DEF field
  <2>3. /\ old = [kind |-> old.kind, name |-> old.name, base |-> old.base, parts |-> old.parts]
        /\ old.kind = "compound" /\ Fields(old.parts, V)
    BY <1>2 DEF PartialFollows
  <2>4. larger = Type(old.kind, old.name, old.base, Append(old.parts, field))
    <3> HIDE DEF old
    <3> QED
      BY <2>3, LongerType
  <2>5. Fields(Append(old.parts, field), V)
    <3> HIDE DEF old
    <3>1. /\ IsSeq(Append(old.parts, field))
          /\ ToSet(Append(old.parts, field)) = ToSet(old.parts) \cup {field}
      BY <2>3, SeqAppend DEF Fields
    <3> QED
      BY <2>2, <2>3, <3>1 DEF Fields
  <2> HIDE DEF larger
  <2>6. /\ FrameShape(frame) /\ frame.group = Top.group /\ frame.mode = "compound"
        /\ frame.previous = Top.previous /\ frame.partial = larger
    BY <1>1, <1>2 DEF FrameShape
  <2> HIDE DEF frame
  <2>7. CASE Declare(larger, i + 4)
    <3>1. IsType(larger, V)
      BY <2>3, <2>4, <2>5 DEF IsType, Type
    <3> QED
      BY <1>1, <1>2, <2>7, <3>1, DeclareGoes
  <2>8. CASE Continue(i + 3, frame)
    <3>1. PartialFollows("compound", larger, V)
      BY <2>3, <2>4, <2>5 DEF PartialFollows, Modes, Type
    <3> QED
      BY <1>1, <1>2, <2>6, <2>8, <3>1, PartialGoes
  <2> QED
    BY <1>4, <2>7, <2>8
<1> QED
  BY <1>1, <1>3, <1>4

-----------------------------------------------------------------------------
(* The variables, the attributes and the data.                             *)
LEMMA KeepsGoes ==
    ASSUME NEW U, NEW V, Parsing(U, V), outcome = "parsing",
           NEW item, IsItem(item), NEW next, NEW frame, Keeps(item, next, frame),
           item.fate = "ok" => next \in Nat /\ next # 0 /\ Follows(frame, V)
    PROVE  Goes(V)
<1>1. Text
  BY TopFollows
<1>2. CASE item.fate = "ok"
  BY <1>1, <1>2, ContinueGoes DEF Keeps
<1>3. CASE item.fate = "fails"
  <2>1. item.next \in Nat /\ item.next # 0
    BY <1>1, <1>3 DEF IsItem, Text
  <2> QED
    BY <1>3, <2>1, LeaveGoes DEF Keeps
<1>4. CASE item.fate \in {"aborted", "undefined"}
  BY <1>4, StopsGoes DEF Keeps
<1> QED
  BY <1>2, <1>3, <1>4 DEF IsItem

LEMMA KeepAttributeGoes ==
    ASSUME NEW U, NEW V, Parsing(U, V), outcome = "parsing",
           NEW item, IsItem(item), KeepAttribute(item)
    PROVE  Goes(V)
<1> DEFINE frame == [Top EXCEPT !.group.attributes = Append(@, item.value)]
           old == Top.group
           g == frame.group
<1>1. Keeps(item, item.next, frame)
  BY DEF KeepAttribute
<1>2. FrameShape(Top) /\ GroupShape(old) /\ Follows(Top, V) /\ Text
  BY TopFollows
<1>3. /\ FrameShape(frame) /\ frame.mode = Top.mode /\ frame.previous = Top.previous
      /\ frame.partial = Top.partial
      /\ g = [old EXCEPT !.attributes = Append(@, item.value)]
  BY <1>2 DEF FrameShape
<1> HIDE DEF frame
<1>4. /\ GroupShape(g) /\ g.types = old.types /\ g.variables = old.variables
      /\ g.attributes = Append(old.attributes, item.value) /\ g.groups = old.groups
  <2> HIDE DEF g, old
  <2> QED
    BY <1>2, <1>3 DEF GroupShape
<1>5. Follows(frame, V)
  BY <1>2, <1>3, <1>4 DEF Follows, TypesFollow, VariablesFollow, AttributesFollow
<1>6. item.fate = "ok" => item.next \in Nat /\ item.next # 0
  BY <1>2 DEF IsItem, Text
<1> QED
  BY <1>1, <1>5, <1>6, KeepsGoes

LEMMA KeepVariableGoes ==
    ASSUME NEW U, NEW V, Parsing(U, V), outcome = "parsing", Top.mode = "variables:",
           NEW type \in V \cup Basics, type # NoType, Known(type), NEW i \in Nat, i # 0,
           KeepVariable(VariableAt(i, type))
    PROVE  Goes(V)
<1> DEFINE item == VariableAt(i, type)
           more == At(item.next, {","})
           next == IF more THEN item.next + 1 ELSE item.next
           previous == IF more THEN item.value.type ELSE NoType
           frame == [Top EXCEPT !.group.variables = Append(@, item.value),
                                !.previous = previous]
           old == Top.group
           g == frame.group
<1>1. Keeps(item, next, frame)
  BY DEF KeepVariable
<1>2. FrameShape(Top) /\ GroupShape(old) /\ Follows(Top, V) /\ Text
  BY TopFollows
<1>3. IsItem(item) /\ (item.fate = "ok" => item.value.type = type)
  BY <1>2, VariableIs
<1> HIDE DEF item
<1>4. ASSUME item.fate = "ok"
      PROVE  next \in Nat /\ next # 0 /\ Follows(frame, V)
  <2>1. item.next \in Nat /\ item.next # 0
    BY <1>2, <1>3, <1>4 DEF IsItem, Text
  <2>2. next \in Nat /\ next # 0
    <3>1. item.next + 1 \in Nat /\ item.next + 1 # 0
      BY <2>1
    <3> QED
      BY <2>1, <3>1
  <2>3. PreviousFollows(previous, V)
    BY <1>3, <1>4 DEF PreviousFollows, Known
  <2> HIDE DEF previous, next
  <2>4. /\ FrameShape(frame) /\ frame.mode = Top.mode /\ frame.previous = previous
        /\ frame.partial = Top.partial
        /\ g = [old EXCEPT !.variables = Append(@, item.value)]
    BY <1>2 DEF FrameShape
  <2> HIDE DEF frame
  <2>5. /\ GroupShape(g) /\ g.types = old.types
        /\ g.variables = Append(old.variables, item.value)
        /\ g.attributes = old.attributes /\ g.groups = old.groups
    <3> HIDE DEF g, old
    <3> QED
      BY <1>2, <2>4 DEF GroupShape
  <2>6. VariablesFollow(g.variables, V)
    BY <1>3, <1>4, <2>5 DEF VariablesFollow
  <2>7. Follows(frame, V)
    BY <1>2, <2>3, <2>4, <2>5, <2>6 DEF Follows, TypesFollow, AttributesFollow
  <2> QED
    BY <2>2, <2>7
<1> HIDE DEF next, frame
<1> QED
  BY <1>1, <1>3, <1>4, KeepsGoes

LEMMA VariablesGo ==
    ASSUME NEW U, NEW V, Parsing(U, V),
           NextVariable \/ Attribute \/ TypedAttribute \/ Variable
    PROVE  Goes(V)
<1> DEFINE i == cursor
           type == Resolve(Tok(i))
<1>1. outcome = "parsing" /\ Top.mode = "variables:"
  BY DEF NextVariable, Attribute, TypedAttribute, Variable, In
<1>2. /\ stack # << >> /\ Frames(U, V) /\ Text /\ Follows(Top, V)
      /\ i \in Nat /\ i # 0 /\ i + 1 \in Nat /\ i + 1 # 0
  BY <1>1, TopFollows
<1>3. Known(type) /\ type \in V \cup Basics \cup {NoType}
  BY <1>2, ResolveKnown
<1>4. CASE NextVariable
  <2>1. KeepVariable(VariableAt(i, Top.previous)) /\ Top.previous # NoType
    BY <1>4 DEF NextVariable
  <2>2. Known(Top.previous) /\ Top.previous \in V \cup Basics
    BY <1>2, <2>1 DEF Follows, PreviousFollows
  <2> QED
    BY <1>1, <1>2, <2>1, <2>2, KeepVariableGoes
<1>5. CASE Attribute
  <2>1. KeepAttribute(AttributeAt(i, NoType))
    BY <1>5 DEF Attribute
  <2>2. IsItem(AttributeAt(i, NoType))
    BY <1>2, AttributeIs
  <2> QED
    BY <1>1, <2>1, <2>2, KeepAttributeGoes
<1>6. CASE TypedAttribute
  <2>1. KeepAttribute(AttributeAt(i + 1, type))
    BY <1>6 DEF TypedAttribute
  <2> HIDE DEF type
  <2>2. IsItem(AttributeAt(i + 1, type))
    BY <1>2, <1>3, AttributeIs
  <2> QED
    BY <1>1, <2>1, <2>2, KeepAttributeGoes
<1>7. CASE Variable
  <2>1. KeepVariable(VariableAt(i + 1, type)) /\ type # NoType
    BY <1>7 DEF Variable
  <2> HIDE DEF type
  <2>2. type \in V \cup Basics
    BY <1>3, <2>1
  <2> QED
    BY <1>1, <1>2, <1>3, <2>1, <2>2, KeepVariableGoes
<1> QED
  BY <1>4, <1>5, <1>6, <1>7

LEMMA DataGoes ==
    ASSUME NEW U, NEW V, Parsing(U, V), Data
    PROVE  Goes(V)
<1> DEFINE i == Skip(cursor)
           variable == Named(Tok(i).text, Top.group.variables)
           type == variable[1].type
           data == DataAt(type, i + 2)
<1>1. outcome = "parsing" /\ Text /\ stack # << >> /\ Frames(U, V) /\ Follows(Top, V)
  BY TopFollows DEF Data, In
<1>2. /\ cursor \in Nat /\ cursor # 0 /\ i \in 1 .. Len(tokens) + 1
  BY <1>1, TopFollows, SkipIs DEF Parsing
<1>3. \/ Leave(cursor) \/ Stops("undefined") \/ Leave(i + 1) \/ Leave(i + 2)
      \/ /\ variable # << >>
         /\ CASE data.fate = "fails" -> Leave(data.next)
              [] data.fate \in Final -> Stops(data.fate)
              [] data.fate = "ok" /\ At(data.next, {";"}) -> Continue(data.next + 1, Top)
              [] OTHER -> Leave(data.next + 1)
  BY DEF Data
<1> HIDE DEF i
<1>4. i \in Nat /\ i + 1 \in Nat /\ i + 1 # 0 /\ i + 2 \in Nat /\ i + 2 # 0
  BY <1>1, <1>2 DEF Text
<1>5. CASE Leave(cursor) \/ Stops("undefined") \/ Leave(i + 1) \/ Leave(i + 2)
  BY <1>1, <1>2, <1>4, <1>5, LeaveGoes, StopsGoes
<1>6. CASE /\ variable # << >>
           /\ CASE data.fate = "fails" -> Leave(data.next)
                [] data.fate \in Final -> Stops(data.fate)
                [] data.fate = "ok" /\ At(data.next, {";"}) -> Continue(data.next + 1, Top)
                [] OTHER -> Leave(data.next + 1)
  <2>1. TypesIn(V) /\ IsGroup(Top.group, V)
    BY <1>1, StackIs, FrameIs DEF Frames, Top
  <2>2. variable[1] \in ToSet(Top.group.variables)
    BY <1>6, <2>1, NamedIs DEF IsGroup
  <2> HIDE DEF variable
  <2>3. type \in V \cup Basics
    BY <2>1, <2>2 DEF IsGroup
  <2>4. type.kind = "basic" \/ type \in V
    BY <2>3 DEF Basics, Basic, Type
  <2> HIDE DEF type
  <2>5. IsItem(data)
    BY <1>1, <1>4, <2>1, <2>4, ValueIs
  <2> HIDE DEF data
  <2>6. CASE data.fate \in {"aborted", "undefined"}
    <3>1. Stops(data.fate)
      BY <1>6, <2>6 DEF Final
    <3> QED
      BY <2>6, <3>1, StopsGoes
  <2>7. CASE data.fate \in {"ok", "fails"}
    <3>1. /\ data.next \in Nat /\ data.next # 0
          /\ data.next + 1 \in Nat /\ data.next + 1 # 0
      BY <1>1, <2>5, <2>7 DEF IsItem, Text
    <3>2. Leave(data.next) \/ Leave(data.next + 1) \/ Continue(data.next + 1, Top)
      BY <1>6, <2>7 DEF Final
    <3> QED
      BY <1>1, <3>1, <3>2, LeaveGoes, ContinueGoes
  <2> QED
    BY <2>5, <2>6, <2>7 DEF IsItem
<1> QED
  BY <1>3, <1>5, <1>6

-----------------------------------------------------------------------------
(***************************************************************************)
(* The same of a sequence s of open groups, now or after an action: what   *)
(* is in scope in the i-th of them, and that all types in use are.         *)
(***************************************************************************)
InScopeOf(s, type, i) ==
    \/ type.kind = "basic" /\ type.name \in Elementary
    \/ \E k \in 1 .. i : type \in ToSet(s[k].group.types)
    \/ \E token \in ToSet(tokens) :
          /\ token.kind = "path"
          /\ \E group \in GroupsBelow(s[1].group, Len(token.parts)) :
                type \in ToSet(group.types)

InUse(s, i) ==
    /\ i < Len(s) => s[i].mode = "group"
    /\ s[i].previous = NoType \/ InScopeOf(s, s[i].previous, i)
    /\ \A v \in ToSet(s[i].group.variables) : InScopeOf(s, v.type, i)

OpenGroups(s, U, V) ==
    /\ TypesIn(V) /\ Nested(U, V)
    /\ IsSeq(s)
    /\ \A i \in 1 .. Len(s) : IsFrame(s[i], U, V) /\ InUse(s, i)

LEMMA ParsingOpen ==
    ASSUME NEW U, NEW V, Parsing(U, V)
    PROVE  OpenGroups(stack, U, V)
<1>1. Frames(U, V) /\ IsSeq(stack) /\ DOMAIN stack = 1 .. Len(stack)
  BY SeqIs DEF Parsing, Frames
<1>2. ASSUME NEW i \in 1 .. Len(stack)
      PROVE  InUse(stack, i)
  <2>1. IsSeq(stack[i].group.variables)
    BY <1>1, FrameIs DEF IsGroup
  <2>2. ASSUME NEW v \in ToSet(stack[i].group.variables)
        PROVE  InScopeOf(stack, v.type, i)
    <3>1. PICK j \in DOMAIN stack[i].group.variables : v = stack[i].group.variables[j]
      BY <2>1, SeqIs
    <3>2. InScope(stack[i].group.variables[j].type, i)
      BY <1>1 DEF Parsing, Scoped
    <3> QED
      BY <3>1, <3>2 DEF InScope, InScopeOf
  <2>3. /\ i < Len(stack) => stack[i].mode = "group"
        /\ stack[i].previous = NoType \/ InScopeOf(stack, stack[i].previous, i)
    BY DEF Parsing, InScope, InScopeOf
  <2> QED
    BY <2>2, <2>3 DEF InUse
<1> QED
  BY <1>1, <1>2 DEF Frames, OpenGroups

LEMMA OpenParsing ==
    ASSUME NEW U, NEW V, Text, tokens' = tokens, OpenGroups(stack', U, V),
           cursor' \in 1 .. Len(tokens) + 1,
           outcome' \in Final \cup {"start", "parsing"},
           outcome' = "parsing" => stack' # << >>,
           outcome' \in {"start", "parsed", "failed"} => stack' = << >>
    PROVE  Parsing(U, V)'
<1>1. Frames(U, V)' /\ Text' /\ DOMAIN stack' = 1 .. Len(stack')
  BY SeqIs DEF OpenGroups, Frames, Text
<1>2. \A i \in 1 .. Len(stack') :
          /\ i < Len(stack') => stack'[i].mode = "group"
          /\ stack'[i].previous = NoType \/ InScope(stack[i].previous, i)'
  BY DEF OpenGroups, InUse, InScope, InScopeOf
<1>3. ASSUME NEW i \in DOMAIN stack', NEW j \in DOMAIN stack'[i].group.variables
      PROVE  InScope(stack[i].group.variables[j].type, i)'
  <2>1. stack'[i].group.variables[j] \in ToSet(stack'[i].group.variables)
    BY DEF ToSet
  <2>2. InScopeOf(stack', stack'[i].group.variables[j].type, i)
    BY <1>1, <2>1 DEF OpenGroups, InUse
  <2> QED
    BY <2>2 DEF InScope, InScopeOf
<1>4. Scoped'
  BY <1>3 DEF Scoped
<1> QED
  BY <1>1, <1>2, <1>4 DEF Parsing

(* A group with more in it, and what is in scope then.                     *)
Continues(g, h) ==
    /\ IsPrefix(g.types, h.types) /\ IsPrefix(g.variables, h.variables)
    /\ IsPrefix(g.attributes, h.attributes) /\ IsPrefix(g.groups, h.groups)
    /\ ToSet(g.types) \subseteq ToSet(h.types) /\ ToSet(g.groups) \subseteq ToSet(h.groups)

LEMMA SamePrefix ==
    ASSUME NEW s, IsSeq(s)
    PROVE  IsPrefix(s, s)
  BY SeqIs, PrefixOf

LEMMA AppendPrefix ==
    ASSUME NEW s, IsSeq(s), NEW x
    PROVE  /\ IsSeq(Append(s, x)) /\ IsPrefix(s, Append(s, x))
           /\ ToSet(Append(s, x)) = ToSet(s) \cup {x}
<1> DEFINE t == Append(s, x)
<1>1. /\ IsSeq(t) /\ Len(t) = Len(s) + 1 /\ Len(s) \in Nat
      /\ \A i \in 1 .. Len(s) : t[i] = s[i]
      /\ ToSet(t) = ToSet(s) \cup {x}
  BY SeqAppend, SeqIs
<1> HIDE DEF t
<1>2. Len(s) <= Len(t)
  BY <1>1
<1>3. IsPrefix(s, t)
  BY <1>1, <1>2, PrefixOf
<1> QED
  BY <1>1, <1>3 DEF t

LEMMA SameContinues ==
    ASSUME NEW V, NEW g, IsGroup(g, V)
    PROVE  Continues(g, g)
  BY SamePrefix DEF IsGroup, Continues

LEMMA MoreScope ==
    ASSUME Text, NEW s, NEW t, NEW n \in Nat, n # 0,
           \A k \in 1 .. n : Continues(s[k].group, t[k].group),
           NEW i \in 1 .. n, NEW type, InScopeOf(s, type, i)
    PROVE  InScopeOf(t, type, i)
<1>1. CASE type.kind = "basic" /\ type.name \in Elementary
  BY <1>1 DEF InScopeOf
<1>2. CASE \E k \in 1 .. i : type \in ToSet(s[k].group.types)
  <2>1. PICK k \in 1 .. i : type \in ToSet(s[k].group.types)
    BY <1>2
  <2>2. k \in 1 .. n
    OBVIOUS
  <2>3. type \in ToSet(t[k].group.types)
    BY <2>1, <2>2 DEF Continues
  <2> QED
    BY <2>3 DEF InScopeOf
<1>3. CASE \E token \in ToSet(tokens) :
              /\ token.kind = "path"
              /\ \E group \in GroupsBelow(s[1].group, Len(token.parts)) :
                    type \in ToSet(group.types)
  <2>0. PICK token \in ToSet(tokens) :
              /\ token.kind = "path"
              /\ \E group \in GroupsBelow(s[1].group, Len(token.parts)) :
                    type \in ToSet(group.types)
    BY <1>3
  <2>1. PICK group \in GroupsBelow(s[1].group, Len(token.parts)) :
              type \in ToSet(group.types)
    BY <2>0
  <2> DEFINE n0 == Len(token.parts)
             root == s[1].group
             larger == t[1].group
  <2>2. n0 \in Nat
    BY DEF Text, ToSet
  <2>3. Continues(root, larger)
    BY 1 \in 1 .. n
  <2> HIDE DEF n0, root, larger
  <2>4. \E more \in GroupsBelow(larger, n0) : type \in ToSet(more.types)
    <3>1. CASE n0 = 0
      <4>1. GroupsBelow(root, 0) = {root} /\ GroupsBelow(larger, 0) = {larger}
        BY GroupsBelowNext
      <4>2. group = root
        BY <2>1, <3>1, <4>1 DEF n0, root
      <4> QED
        BY <2>1, <2>3, <3>1, <4>1, <4>2 DEF Continues
    <3>2. CASE n0 # 0
      <4>1. GroupsBelow(root, n0) \subseteq GroupsBelow(larger, n0)
        BY <2>2, <2>3, <3>2, MoreBelow DEF Continues
      <4> QED
        BY <2>1, <4>1 DEF n0, root
    <3> QED
      BY <3>1, <3>2
  <2> QED
    BY <2>0, <2>4 DEF InScopeOf, n0, larger
<1> QED
  BY <1>1, <1>2, <1>3 DEF InScopeOf

LEMMA MoreTypes ==
    ASSUME NEW V, NEW W, V \subseteq W
    PROVE  /\ \A t : IsType(t, V) => IsType(t, W)
           /\ \A g : IsGroup(g, V) => IsGroup(g, W)
<1>1. \A parts : Fields(parts, V) => Fields(parts, W)
  BY DEF Fields
<1>2. \A t : IsType(t, V) => IsType(t, W)
  BY <1>1 DEF IsType
<1>3. \A g : IsGroup(g, V) => IsGroup(g, W)
  BY DEF IsGroup
<1> QED
  BY <1>2, <1>3

LEMMA MoreFrame ==
    ASSUME NEW U, NEW X, U \subseteq X, NEW V, NEW W, V \subseteq W,
           NEW f, IsFrame(f, U, V)
    PROVE  IsFrame(f, X, W)
<1>1. f.mode = "compound" => Fields(f.partial.parts, W)
  BY DEF IsFrame, Fields
<1> QED
  BY <1>1 DEF IsFrame

(* An innermost group that an action has replaced continues the old one.   *)
LEMMA FollowsContinues ==
    ASSUME NEW U, NEW V, Frames(U, V), stack # << >>, NEW frame, Follows(frame, V)
    PROVE  \E W : /\ V \subseteq W /\ TypesIn(W) /\ IsGroup(frame.group, W)
                  /\ Continues(Top.group, frame.group)
<1> DEFINE old == Top.group
           g == frame.group
           W == V \cup ToSet(g.types)
<1>1. IsGroup(old, V) /\ TypesIn(V)
  BY StackIs, FrameIs DEF Frames, Top
<1>2. /\ IsSeq(old.types) /\ IsSeq(old.variables) /\ IsSeq(old.attributes) /\ IsSeq(old.groups)
      /\ ToSet(old.types) \subseteq V
      /\ \A v \in ToSet(old.variables) : v.type \in V \cup Basics
  BY <1>1 DEF IsGroup
<1>3. /\ GroupShape(g) /\ g.groups = old.groups
      /\ TypesFollow(g.types, V) /\ VariablesFollow(g.variables, V)
      /\ AttributesFollow(g.attributes)
  BY DEF Follows
<1> HIDE DEF g
<1>4. /\ IsSeq(g.types) /\ IsPrefix(old.types, g.types)
      /\ ToSet(old.types) \subseteq ToSet(g.types)
      /\ \A t \in ToSet(g.types) : t \in V \/ IsType(t, V)
  <2>1. CASE g.types = old.types
    BY <1>2, <2>1, SamePrefix
  <2>2. CASE \E t : IsType(t, V) /\ g.types = Append(old.types, t)
    BY <1>2, <2>2, AppendPrefix
  <2> QED
    BY <1>3, <2>1, <2>2 DEF TypesFollow
<1>5. /\ IsSeq(g.variables) /\ IsPrefix(old.variables, g.variables)
      /\ \A v \in ToSet(g.variables) : v.type \in V \cup Basics
  <2>1. CASE g.variables = old.variables
    BY <1>2, <2>1, SamePrefix
  <2>2. CASE \E v : v.type \in V \cup Basics /\ g.variables = Append(old.variables, v)
    BY <1>2, <2>2, AppendPrefix
  <2> QED
    BY <1>3, <2>1, <2>2 DEF VariablesFollow
<1>6. IsSeq(g.attributes) /\ IsPrefix(old.attributes, g.attributes)
  <2>1. CASE g.attributes = old.attributes
    BY <1>2, <2>1, SamePrefix
  <2>2. CASE \E a : g.attributes = Append(old.attributes, a)
    BY <1>2, <2>2, AppendPrefix
  <2> QED
    BY <1>3, <2>1, <2>2 DEF AttributesFollow
<1>7. IsPrefix(old.groups, g.groups)
  BY <1>2, <1>3, SamePrefix
<1>8. Continues(old, g)
  BY <1>3, <1>4, <1>5, <1>6, <1>7 DEF Continues
<1> HIDE DEF old
<1>9. V \subseteq W /\ ToSet(g.types) \subseteq W
  OBVIOUS
<1>10. TypesIn(W)
  <2>1. ASSUME NEW t \in W
        PROVE  IsType(t, W)
    <3>1. IsType(t, V)
      BY <1>1, <1>4, <2>1 DEF TypesIn
    <3> HIDE DEF W
    <3> QED
      BY <1>9, <3>1, MoreTypes
  <2> QED
    BY <2>1 DEF TypesIn
<1>11. IsGroup(g, W)
  BY <1>2, <1>3, <1>4, <1>5, <1>6 DEF IsGroup
<1> HIDE DEF W
<1> QED
  BY <1>8, <1>9, <1>10, <1>11 DEF old, g

(* Nothing that is declared is lost: the step of DeclarationsKept.         *)
Kept ==
    \A i \in DOMAIN stack \cap DOMAIN stack' :
        LET before == stack[i].group
            after == stack'[i].group
        IN  /\ IsPrefix(before.types, after.types)
            /\ IsPrefix(before.variables, after.variables)
            /\ IsPrefix(before.attributes, after.attributes)
            /\ IsPrefix(before.groups, after.groups)
Arrives == Kept /\ \E U, V : Parsing(U, V)'

LEMMA ReplaceArrives ==
    ASSUME NEW U, NEW V, Parsing(U, V), outcome = "parsing", tokens' = tokens,
           NEW frame, Follows(frame, V), stack' = WithTop(frame),
           outcome' = outcome, cursor' \in 1 .. Len(tokens) + 1
    PROVE  Arrives
<1> DEFINE n == Len(stack)
           U2 == U \cup {frame.group}
           s == WithTop(frame)
<1>1. stack # << >> /\ Frames(U, V) /\ Text /\ OpenGroups(stack, U, V)
  BY TopFollows, ParsingOpen
<1>2. IsSeq(stack) /\ n \in Nat /\ n # 0 /\ DOMAIN stack = 1 .. n /\ n \in 1 .. n
  BY <1>1, StackIs DEF Frames
<1>3. PICK W : /\ V \subseteq W /\ TypesIn(W) /\ IsGroup(frame.group, W)
               /\ Continues(Top.group, frame.group)
  BY <1>1, FollowsContinues
<1>4. /\ IsSeq(s) /\ Len(s) = n /\ s[n] = frame /\ DOMAIN s = 1 .. n
      /\ \A i \in 1 .. n - 1 : s[i] = stack[i]
  BY <1>1, <1>2, SeqSet, SeqIs DEF WithTop
<1> HIDE DEF s
<1>5. \A i \in 1 .. n : i = n \/ i \in 1 .. n - 1
  <2> HIDE DEF n
  <2> QED
    BY <1>2
<1>6. \A i \in 1 .. n : Continues(stack[i].group, s[i].group)
  <2>1. ASSUME NEW i \in 1 .. n - 1
        PROVE  Continues(stack[i].group, s[i].group)
    <3>1. i \in 1 .. n
      BY <1>2
    <3>2. IsGroup(stack[i].group, V)
      BY <1>1, <3>1, FrameIs
    <3> QED
      BY <1>4, <3>2, SameContinues
  <2>2. Continues(stack[n].group, s[n].group)
    BY <1>3, <1>4 DEF Top
  <2> QED
    BY <1>5, <2>1, <2>2
<1>7. Nested(U2, W)
  <2>1. ASSUME NEW g \in U
        PROVE  IsGroup(g, W) /\ ToSet(g.groups) \subseteq U
    BY <1>1, <1>3, MoreTypes DEF Frames, Nested
  <2>2. Top.group \in U
    BY <1>1, <1>2 DEF Frames, IsFrame, Top
  <2>3. ToSet(frame.group.groups) \subseteq U
    BY <2>1, <2>2 DEF Follows
  <2> QED
    BY <1>3, <2>1, <2>3 DEF Nested
<1>8. ASSUME NEW i \in 1 .. n, NEW type, (Known(type) /\ i = n) \/ InScopeOf(stack, type, i)
      PROVE  type = NoType \/ InScopeOf(s, type, i)
  <2>1. type = NoType \/ InScopeOf(stack, type, i)
    BY <1>8 DEF Known, InScope, InScopeOf
  <2>2. InScopeOf(stack, type, i) => InScopeOf(s, type, i)
    BY <1>1, <1>2, <1>6, MoreScope
  <2> QED
    BY <2>1, <2>2
<1>9. ASSUME NEW i \in 1 .. n
      PROVE  IsFrame(s[i], U2, W) /\ InUse(s, i)
  <2>1. IsFrame(stack[i], U, V) /\ InUse(stack, i)
    BY <1>1 DEF OpenGroups
  <2>2. CASE i \in 1 .. n - 1
    <3>1. IsFrame(s[i], U2, W)
      <4>1. U \subseteq U2 /\ s[i] = stack[i]
        BY <1>4, <2>2
      <4> HIDE DEF U2
      <4> QED
        BY <1>3, <2>1, <4>1, MoreFrame
    <3>2. s[i] = stack[i]
      BY <1>4, <2>2
    <3>3. InUse(s, i)
      <4>1. s[i].previous = NoType \/ InScopeOf(s, s[i].previous, i)
        BY <1>8, <2>1, <3>2 DEF InUse
      <4>2. ASSUME NEW v \in ToSet(s[i].group.variables)
            PROVE  InScopeOf(s, v.type, i)
        BY <1>1, <1>2, <1>6, <2>1, <3>2, MoreScope DEF InUse
      <4> QED
        BY <1>4, <2>1, <3>2, <4>1, <4>2 DEF InUse
    <3> QED
      BY <3>1, <3>3
  <2>3. CASE i = n
    <3>1. /\ FrameShape(frame) /\ PreviousFollows(frame.previous, V)
          /\ PartialFollows(frame.mode, frame.partial, V)
          /\ VariablesFollow(frame.group.variables, V)
      BY DEF Follows
    <3>2. IsFrame(frame, U2, V)
      BY <3>1 DEF IsFrame, PreviousFollows, PartialFollows
    <3>3. IsFrame(frame, U2, W)
      <4>1. U2 \subseteq U2
        OBVIOUS
      <4> HIDE DEF U2
      <4> QED
        BY <1>3, <3>2, <4>1, MoreFrame
    <3>4. frame.previous = NoType \/ InScopeOf(s, frame.previous, n)
      BY <1>2, <1>8, <3>1 DEF PreviousFollows
    <3>5. ASSUME NEW v \in ToSet(frame.group.variables)
          PROVE  InScopeOf(s, v.type, n)
      <4>1. CASE v \in ToSet(Top.group.variables)
        <5>1. InScopeOf(stack, v.type, n)
          BY <2>1, <2>3, <4>1 DEF InUse, Top
        <5> QED
          BY <1>1, <1>2, <1>6, <5>1, MoreScope
      <4>2. CASE v \notin ToSet(Top.group.variables)
        <5>1. PICK w : /\ w.type # NoType /\ Known(w.type)
                       /\ frame.group.variables = Append(Top.group.variables, w)
          BY <3>1, <4>2 DEF VariablesFollow
        <5>2. IsSeq(Top.group.variables)
          BY <1>1, <1>2, FrameIs DEF IsGroup, Top
        <5>3. v = w
          BY <3>5, <4>2, <5>1, <5>2, AppendPrefix
        <5> QED
          BY <1>2, <1>8, <5>1, <5>3
      <4> QED
        BY <4>1, <4>2
    <3>6. InUse(s, n)
      BY <1>2, <1>4, <3>4, <3>5 DEF InUse
    <3> QED
      BY <1>4, <2>3, <3>3, <3>6
  <2> QED
    BY <1>5, <2>2, <2>3
<1>10. OpenGroups(s, U2, W)
  BY <1>3, <1>4, <1>7, <1>9 DEF OpenGroups
<1>11. Kept
  BY <1>2, <1>4, <1>6 DEF Kept, Continues, s
<1>12. s # << >>
  BY <1>2, <1>4, SeqEmpty
<1> HIDE DEF U2
<1>13. Parsing(U2, W)'
  BY <1>1, <1>10, <1>12, OpenParsing DEF s
<1> QED
  BY <1>11, <1>13 DEF Arrives

LEMMA GoesArrives ==
    ASSUME NEW U, NEW V, Parsing(U, V), outcome = "parsing", Goes(V)
    PROVE  Arrives
<1>1. /\ stack # << >> /\ Frames(U, V) /\ Text /\ OpenGroups(stack, U, V)
      /\ cursor \in 1 .. Len(tokens) + 1
  BY TopFollows, ParsingOpen DEF Parsing
<1>2. CASE /\ \E frame : Follows(frame, V) /\ stack' = WithTop(frame)
           /\ outcome' = outcome /\ cursor' \in 1 .. Len(tokens) + 1
  BY <1>2, ReplaceArrives DEF Goes
<1>3. CASE stack' = stack /\ outcome' \in {"aborted", "undefined"} /\ cursor' = cursor
  <2>1. ASSUME NEW i \in DOMAIN stack
        PROVE  Continues(stack[i].group, stack'[i].group)
    BY <1>1, <1>3, StackIs, FrameIs, SameContinues
  <2>2. Kept
    BY <2>1 DEF Kept, Continues
  <2>3. Parsing(U, V)'
    BY <1>1, <1>3, OpenParsing DEF Goes, Final
  <2> QED
    BY <2>2, <2>3 DEF Arrives
<1> QED
  BY <1>2, <1>3 DEF Goes

-----------------------------------------------------------------------------
(* The actions that open and close groups.                                 *)
LEMMA NewFrame ==
    ASSUME NEW U, NEW V, NEW name
    PROVE  /\ IsFrame(Frame(name), U \cup {Group(name)}, V)
           /\ IsGroup(Group(name), V) /\ ToSet(Group(name).groups) = {}
           /\ Frame(name).mode = "group" /\ Frame(name).previous = NoType
           /\ Frame(name).group = Group(name)
           /\ ToSet(Group(name).variables) = {}
<1>1. /\ GroupShape(Group(name)) /\ Group(name).types = << >> /\ Group(name).variables = << >>
      /\ Group(name).attributes = << >> /\ Group(name).groups = << >>
  BY DEF GroupShape, Group
<1>2. /\ FrameShape(Frame(name)) /\ Frame(name).group = Group(name)
      /\ Frame(name).mode = "group" /\ Frame(name).previous = NoType
  BY DEF FrameShape, Frame
<1>3. IsGroup(Group(name), V) /\ ToSet(Group(name).groups) = {}
      /\ ToSet(Group(name).variables) = {}
  BY <1>1, SeqEmpty DEF IsGroup
<1>4. IsFrame(Frame(name), U \cup {Group(name)}, V)
  BY <1>2 DEF IsFrame, Modes
<1> QED
  BY <1>2, <1>3, <1>4

LEMMA HeaderEndIs ==
    ASSUME Text, NEW i \in Nat, i # 0
    PROVE  HeaderEnd(i) \in 1 .. Len(tokens) + 1
<1>1. i + 1 \in Nat /\ i + 1 # 0 /\ i + 2 \in Nat /\ i + 2 # 0
  OBVIOUS
<1> QED
  BY <1>1, UptoIs DEF HeaderEnd

LEMMA StartArrives ==
    ASSUME NEW U, NEW V, Parsing(U, V), Start
    PROVE  Arrives
<1>1. Text /\ stack = << >> /\ tokens' = tokens /\ cursor \in 1 .. Len(tokens) + 1
      /\ OpenGroups(stack, U, V)
  BY ParsingOpen DEF Start, Parsing
<1>2. Kept
  <2>1. DOMAIN stack = {}
    BY <1>1
  <2> QED
    BY <2>1 DEF Kept
<1>3. CASE outcome' = "failed" /\ UNCHANGED <<cursor, stack>>
  <2>1. Parsing(U, V)'
    BY <1>1, <1>3, OpenParsing DEF Final
  <2> QED
    BY <1>2, <2>1 DEF Arrives
<1>4. CASE /\ stack' = << Frame(Tok(2).text) >> /\ cursor' = HeaderEnd(2)
           /\ outcome' = "parsing"
  <2>0. PICK name : name = Tok(2).text
    OBVIOUS
  <2> DEFINE s == << Frame(name) >>
             X == {} \cup {Group(name)}
  <2>1. /\ IsSeq(s) /\ Len(s) = 1 /\ s[1] = Frame(name) /\ s # << >>
    BY SeqOne
  <2>2. /\ IsFrame(Frame(name), X, {}) /\ IsGroup(Group(name), {})
        /\ ToSet(Group(name).groups) = {} /\ Frame(name).previous = NoType
        /\ Frame(name).group = Group(name) /\ ToSet(Group(name).variables) = {}
    BY NewFrame
  <2> HIDE DEF s
  <2>3. TypesIn({}) /\ Nested(X, {})
    BY <2>2 DEF TypesIn, Nested
  <2>4. InUse(s, 1)
    BY <2>1, <2>2 DEF InUse
  <2>5. OpenGroups(s, X, {})
    BY <2>1, <2>2, <2>3, <2>4 DEF OpenGroups
  <2> HIDE DEF X
  <2>6. cursor' \in 1 .. Len(tokens) + 1
    BY <1>1, <1>4, HeaderEndIs
  <2>7. OpenGroups(stack', X, {}) /\ stack' # << >>
    BY <1>4, <2>0, <2>1, <2>5 DEF s
  <2>8. outcome' \in Final \cup {"start", "parsing"} /\ outcome' \notin {"start", "parsed", "failed"}
    BY <1>4
  <2>9. Parsing(X, {})'
    BY <1>1, <2>6, <2>7, <2>8, OpenParsing
  <2> QED
    BY <1>2, <2>9 DEF Arrives
<1> QED
  BY <1>3, <1>4 DEF Start

LEMMA SameInUse ==
    ASSUME Text, NEW s, NEW t, NEW n \in Nat, n # 0,
           \A k \in 1 .. n : Continues(s[k].group, t[k].group),
           NEW i \in 1 .. n, InUse(s, i), t[i].previous = s[i].previous,
           t[i].group.variables = s[i].group.variables,
           i < Len(t) => t[i].mode = "group"
    PROVE  InUse(t, i)
<1>1. \A type : InScopeOf(s, type, i) => InScopeOf(t, type, i)
  BY MoreScope
<1> QED
  BY <1>1 DEF InUse

LEMMA OpenGroupArrives ==
    ASSUME NEW U, NEW V, Parsing(U, V), OpenGroup
    PROVE  Arrives
<1>0. PICK name : name = Tok(cursor + 1).text
  OBVIOUS
<1> DEFINE n == Len(stack)
           s == Append(stack, Frame(name))
           X == U \cup {Group(name)}
<1>1. outcome = "parsing" /\ Top.mode = "group"
  BY DEF OpenGroup, In
<1>2. /\ stack # << >> /\ Frames(U, V) /\ Text /\ OpenGroups(stack, U, V)
      /\ cursor + 1 \in Nat /\ cursor + 1 # 0
  BY <1>1, TopFollows, ParsingOpen
<1>3. HeaderEnd(cursor + 1) \in 1 .. Len(tokens) + 1
  BY <1>2, HeaderEndIs
<1>4. CASE Leave(HeaderEnd(cursor + 1))
  <2>1. HeaderEnd(cursor + 1) \in Nat /\ HeaderEnd(cursor + 1) # 0
    BY <1>2, <1>3 DEF Text
  <2>2. Goes(V)
    BY <1>1, <1>4, <2>1, LeaveGoes
  <2> QED
    BY <1>1, <2>2, GoesArrives
<1>5. CASE /\ stack' = s /\ cursor' = HeaderEnd(cursor + 1)
           /\ UNCHANGED <<tokens, outcome, tree>>
  <2>1. IsSeq(stack) /\ n \in Nat /\ n # 0 /\ DOMAIN stack = 1 .. n
    BY <1>2, StackIs DEF Frames
  <2>2. /\ IsSeq(s) /\ Len(s) = n + 1 /\ s[n + 1] = Frame(name) /\ s # << >>
        /\ \A i \in 1 .. n : s[i] = stack[i]
    BY <2>1, SeqAppend
  <2>3. /\ IsFrame(Frame(name), X, V) /\ IsGroup(Group(name), V)
        /\ ToSet(Group(name).groups) = {} /\ Frame(name).previous = NoType
        /\ Frame(name).group = Group(name) /\ ToSet(Group(name).variables) = {}
        /\ Frame(name).mode = "group"
    BY NewFrame
  <2> HIDE DEF s
  <2>4. \A i \in 1 .. n : Continues(stack[i].group, s[i].group)
    BY <1>2, <2>2, FrameIs, SameContinues
  <2>5. TypesIn(V) /\ Nested(X, V)
    BY <1>2, <2>3 DEF Frames, Nested
  <2>6. ASSUME NEW i \in 1 .. n
        PROVE  IsFrame(s[i], X, V) /\ InUse(s, i)
    <3>1. IsFrame(stack[i], U, V) /\ InUse(stack, i) /\ s[i] = stack[i]
      BY <1>2, <2>2 DEF OpenGroups
    <3>2. U \subseteq X /\ V \subseteq V
      OBVIOUS
    <3>3. s[i].mode = "group"
      <4>1. i = n \/ i < n
        <5> HIDE DEF n
        <5> QED
          BY <2>1
      <4> QED
        BY <1>1, <3>1, <4>1 DEF InUse, Top
    <3> HIDE DEF X
    <3>4. IsFrame(s[i], X, V)
      BY <3>1, <3>2, MoreFrame
    <3>5. InUse(s, i)
      BY <1>2, <2>1, <2>4, <3>1, <3>3, SameInUse
    <3> QED
      BY <3>4, <3>5
  <2>7. InUse(s, n + 1)
    BY <2>1, <2>2, <2>3 DEF InUse
  <2>8. \A i \in 1 .. n + 1 : i = n + 1 \/ i \in 1 .. n
    <3> HIDE DEF n
    <3> QED
      BY <2>1
  <2>9. OpenGroups(s, X, V)
    BY <2>2, <2>3, <2>5, <2>6, <2>7, <2>8 DEF OpenGroups
  <2> HIDE DEF X
  <2>10. Kept
    BY <1>5, <2>1, <2>4 DEF Kept, Continues
  <2>11. OpenGroups(stack', X, V) /\ stack' # << >>
    BY <1>5, <2>2, <2>9
  <2>12. outcome' \in Final \cup {"start", "parsing"} /\ outcome' \notin {"start", "parsed", "failed"}
    BY <1>1, <1>5
  <2>13. Parsing(X, V)'
    BY <1>2, <1>3, <1>5, <2>11, <2>12, OpenParsing
  <2> QED
    BY <2>10, <2>13 DEF Arrives
<1> QED
  BY <1>0, <1>4, <1>5 DEF OpenGroup

(* With the innermost group gone, and its parent maybe changed.            *)
Fewer(s, X, V) ==
    /\ IsSeq(s) /\ Len(s) = Len(stack) - 1
    /\ \A i \in 1 .. Len(s) :
          /\ IsFrame(s[i], X, V) /\ Continues(stack[i].group, s[i].group)
          /\ s[i].mode = stack[i].mode /\ s[i].previous = stack[i].previous
          /\ s[i].group.variables = stack[i].group.variables

LEMMA FewerArrive ==
    ASSUME NEW U, NEW V, Parsing(U, V), outcome = "parsing", tokens' = tokens,
           Len(stack) # 1, NEW X, U \subseteq X, Nested(X, V),
           NEW s, stack' = s, Fewer(s, X, V),
           outcome' = "parsing", cursor' \in 1 .. Len(tokens) + 1
    PROVE  Arrives
<1> DEFINE n == Len(stack)
           m == Len(s)
<1>1. stack # << >> /\ Frames(U, V) /\ Text /\ OpenGroups(stack, U, V)
  BY TopFollows, ParsingOpen
<1>2. IsSeq(stack) /\ n \in Nat /\ n # 0 /\ n # 1 /\ m = n - 1 /\ DOMAIN stack = 1 .. n
  BY <1>1, StackIs DEF Frames, Fewer
<1>3. IsSeq(s) /\ DOMAIN s = 1 .. m
  BY SeqIs DEF Fewer
<1>4. \A i \in 1 .. m : /\ IsFrame(s[i], X, V) /\ Continues(stack[i].group, s[i].group)
                        /\ s[i].mode = stack[i].mode /\ s[i].previous = stack[i].previous
                        /\ s[i].group.variables = stack[i].group.variables
  BY DEF Fewer
<1>5. s # << >>
  <2>1. m # 0
    BY <1>2
  <2> QED
    BY <2>1, SeqEmpty
<1> HIDE DEF n, m
<1>6. m \in Nat /\ m # 0 /\ \A i \in 1 .. m : i \in 1 .. n /\ i < n
  BY <1>2
<1>7. ASSUME NEW i \in 1 .. m
      PROVE  InUse(s, i)
  <2>1. InUse(stack, i) /\ stack[i].mode = "group"
    BY <1>1, <1>6 DEF OpenGroups, InUse, n
  <2>2. /\ s[i].mode = "group" /\ s[i].previous = stack[i].previous
        /\ s[i].group.variables = stack[i].group.variables
    BY <1>4, <2>1
  <2>3. \A k \in 1 .. m : Continues(stack[k].group, s[k].group)
    BY <1>4
  <2> QED
    BY <1>1, <1>6, <2>1, <2>2, <2>3, SameInUse
<1>8. OpenGroups(s, X, V)
  BY <1>1, <1>3, <1>4, <1>7 DEF OpenGroups, Frames, m
<1>9. Kept
  BY <1>3, <1>4 DEF Kept, Continues
<1>10. outcome' \in Final \cup {"start", "parsing"} /\ outcome' \notin {"start", "parsed", "failed"}
  OBVIOUS
<1>11. OpenGroups(stack', X, V) /\ stack' # << >>
  BY <1>5, <1>8
<1>12. Parsing(X, V)'
  BY <1>1, <1>10, <1>11, OpenParsing
<1> QED
  BY <1>9, <1>12 DEF Arrives

(* The root is closed or dropped.                                          *)
LEMMA NoneArrive ==
    ASSUME NEW U, NEW V, Parsing(U, V), tokens' = tokens, stack' = << >>,
           outcome' \in {"parsed", "failed"}, cursor' \in 1 .. Len(tokens) + 1
    PROVE  Arrives
<1>1. IsSeq(stack') /\ Len(stack') = 0 /\ DOMAIN stack' = {} /\ 1 .. 0 = {}
  BY SeqEmpty
<1>2. Kept
  BY <1>1 DEF Kept
<1>3. OpenGroups(stack', {}, {})
  BY <1>1 DEF OpenGroups, TypesIn, Nested
<1>4. Parsing({}, {})'
  BY <1>3, OpenParsing DEF Parsing, Final
<1> QED
  BY <1>2, <1>4 DEF Arrives

LEMMA TextEndsArrives ==
    ASSUME NEW U, NEW V, Parsing(U, V), TextEnds
    PROVE  Arrives
<1>1. /\ outcome = "parsing" /\ tokens' = tokens /\ cursor' = cursor
      /\ stack' = Front(stack)
      /\ outcome' = IF Len(stack) = 1 THEN "failed" ELSE outcome
  BY DEF TextEnds, In
<1>2. /\ stack # << >> /\ Frames(U, V) /\ IsSeq(stack)
      /\ cursor \in 1 .. Len(tokens) + 1
  BY <1>1, TopFollows DEF Parsing, Frames
<1>3. PICK s : s = Front(stack)
  OBVIOUS
<1>4. /\ IsSeq(s) /\ Len(s) = Len(stack) - 1 /\ Len(stack) \in Nat
      /\ \A i \in 1 .. Len(s) : s[i] = stack[i] /\ i \in 1 .. Len(stack)
  <2> DEFINE n == Len(stack)
  <2>1. /\ IsSeq(s) /\ Len(s) = n - 1 /\ n \in Nat
        /\ \A i \in 1 .. n - 1 : s[i] = stack[i]
    BY <1>2, <1>3, SeqFront, StackIs
  <2> HIDE DEF n
  <2>2. \A i \in 1 .. n - 1 : i \in 1 .. n
    BY <2>1
  <2> QED
    BY <2>1, <2>2 DEF n
<1>5. CASE Len(stack) = 1
  <2>1. s = << >>
    <3>1. Len(s) = 0
      BY <1>4, <1>5
    <3> QED
      BY <1>4, <3>1 DEF IsSeq
  <2> QED
    BY <1>1, <1>2, <1>3, <1>5, <2>1, NoneArrive
<1>6. CASE Len(stack) # 1
  <2>1. \A i \in 1 .. Len(s) :
            /\ IsFrame(s[i], U, V) /\ Continues(stack[i].group, s[i].group)
    BY <1>2, <1>4, FrameIs, SameContinues DEF Frames
  <2>2. U \subseteq U /\ Nested(U, V)
    BY <1>2 DEF Frames
  <2>3. Fewer(s, U, V)
    BY <1>4, <2>1 DEF Fewer
  <2> QED
    BY <1>1, <1>2, <1>3, <1>6, <2>2, <2>3, FewerArrive
<1> QED
  BY <1>5, <1>6

LEMMA CloseGroupArrives ==
    ASSUME NEW U, NEW V, Parsing(U, V), CloseGroup
    PROVE  Arrives
<1>1. outcome = "parsing" /\ tokens' = tokens /\ At(cursor, {"}"})
  BY DEF CloseGroup, In
<1>2. /\ stack # << >> /\ Frames(U, V) /\ Text /\ IsSeq(stack)
      /\ Len(stack) \in Nat /\ Len(stack) # 0
  BY <1>1, TopFollows, StackIs DEF Frames
<1>3. cursor + 1 \in 1 .. Len(tokens) + 1
  <2>1. cursor \in DOMAIN tokens
    BY <1>1 DEF At, Tok, Exists, NoToken, Token
  <2> QED
    BY <1>2, <2>1 DEF Text
<1>4. CASE Len(stack) = 1
  <2>1. stack' = << >> /\ outcome' = "parsed" /\ cursor' = cursor + 1
    BY <1>4 DEF CloseGroup
  <2> QED
    BY <1>1, <1>3, <2>1, NoneArrive
<1>5. CASE Len(stack) # 1
  <2>1. PICK n, front, frame, s :
            /\ n = Len(stack) - 1 /\ front = Front(stack)
            /\ frame = [front[n] EXCEPT !.group.groups = Append(@, Top.group)]
            /\ s = [front EXCEPT ![n] = frame]
    OBVIOUS
  <2>2. /\ n \in Nat /\ n # 0
        /\ n \in 1 .. Len(stack) /\ Len(stack) \in 1 .. Len(stack)
        /\ \A i \in 1 .. n : i \in 1 .. Len(stack) /\ (i = n \/ i \in 1 .. n - 1)
    <3> DEFINE len == Len(stack)
    <3>1. len \in Nat /\ len # 0 /\ len # 1 /\ n = len - 1
      BY <1>2, <1>5, <2>1
    <3> HIDE DEF len
    <3>2. /\ n \in Nat /\ n # 0 /\ n \in 1 .. len /\ len \in 1 .. len
          /\ \A i \in 1 .. n : i \in 1 .. len /\ (i = n \/ i \in 1 .. n - 1)
      BY <3>1
    <3> QED
      BY <3>2 DEF len
  <2>3. /\ IsSeq(front) /\ Len(front) = n /\ front # << >>
        /\ \A i \in 1 .. n : front[i] = stack[i]
    <3>1. /\ IsSeq(front) /\ Len(front) = n
          /\ \A i \in 1 .. n : front[i] = stack[i]
      BY <1>2, <2>1, SeqFront
    <3> QED
      BY <2>2, <3>1, SeqEmpty
  <2>4. PICK old : old = stack[n] /\ old = front[n]
    BY <2>2, <2>3
  <2>5. /\ IsSeq(s) /\ Len(s) = n /\ s[n] = frame
        /\ \A i \in 1 .. n - 1 : s[i] = stack[i]
    <3> DEFINE t == [front EXCEPT ![Len(front)] = frame]
    <3>1. /\ IsSeq(t) /\ Len(t) = Len(front) /\ t[Len(front)] = frame
          /\ \A i \in 1 .. Len(front) - 1 : t[i] = front[i]
      BY <2>3, SeqSet
    <3>2. s = t
      BY <2>1, <2>3
    <3> HIDE DEF t
    <3> QED
      BY <2>2, <2>3, <3>1, <3>2
  <2>6. IsFrame(old, U, V) /\ IsGroup(old.group, V) /\ old.group \in U /\ Top.group \in U
    BY <1>2, <2>2, <2>4, FrameIs DEF Frames, IsFrame, Top
  <2>7. /\ FrameShape(frame) /\ frame.mode = old.mode /\ frame.previous = old.previous
        /\ frame.partial = old.partial
        /\ frame.group = [old.group EXCEPT !.groups = Append(@, Top.group)]
    BY <2>1, <2>4, <2>6 DEF IsFrame, FrameShape
  <2>8. PICK g, h : g = old.group /\ h = frame.group
    OBVIOUS
  <2>9. /\ GroupShape(h) /\ h.types = g.types /\ h.variables = g.variables
        /\ h.attributes = g.attributes /\ h.groups = Append(g.groups, Top.group)
    BY <2>6, <2>7, <2>8 DEF IsGroup, GroupShape
  <2>10. /\ IsSeq(h.groups) /\ IsPrefix(g.groups, h.groups)
         /\ ToSet(h.groups) = ToSet(g.groups) \cup {Top.group}
    BY <2>6, <2>8, <2>9, AppendPrefix DEF IsGroup
  <2>11. IsGroup(h, V) /\ Continues(g, h)
    <3>1. IsGroup(g, V) /\ Continues(g, g)
      BY <2>6, <2>8, SameContinues
    <3> QED
      BY <2>9, <2>10, <3>1 DEF IsGroup, Continues
  <2>0. PICK X : X = U \cup {h}
    OBVIOUS
  <2>12. U \subseteq X /\ Nested(X, V)
    <3>1. ToSet(h.groups) \subseteq U
      BY <1>2, <2>6, <2>8, <2>10 DEF Frames, Nested
    <3> QED
      BY <1>2, <2>0, <2>11, <3>1 DEF Frames, Nested
  <2>13. IsFrame(frame, X, V)
    BY <2>0, <2>6, <2>7, <2>8 DEF IsFrame
  <2>14. \A i \in 1 .. Len(s) :
            /\ IsFrame(s[i], X, V) /\ Continues(stack[i].group, s[i].group)
            /\ s[i].mode = stack[i].mode /\ s[i].previous = stack[i].previous
            /\ s[i].group.variables = stack[i].group.variables
    <3>1. ASSUME NEW i \in 1 .. n - 1
          PROVE  /\ IsFrame(s[i], X, V) /\ Continues(stack[i].group, s[i].group)
                 /\ s[i] = stack[i]
      <4>1. s[i] = stack[i] /\ i \in 1 .. Len(stack)
        BY <2>2, <2>5
      <4>2. IsFrame(stack[i], U, V) /\ IsGroup(stack[i].group, V) /\ V \subseteq V
        BY <1>2, <4>1, FrameIs DEF Frames
      <4>3. IsFrame(stack[i], X, V)
        BY <2>12, <4>2, MoreFrame
      <4> QED
        BY <4>1, <4>2, <4>3, SameContinues
    <3>2. /\ IsFrame(s[n], X, V) /\ Continues(stack[n].group, s[n].group)
          /\ s[n].mode = stack[n].mode /\ s[n].previous = stack[n].previous
          /\ s[n].group.variables = stack[n].group.variables
      BY <2>4, <2>5, <2>7, <2>8, <2>9, <2>11, <2>13
    <3> QED
      BY <2>2, <2>5, <3>1, <3>2
  <2>15. stack' = s /\ outcome' = outcome /\ cursor' = Skip(cursor + 1)
    BY <1>5, <2>1 DEF CloseGroup
  <2>16. cursor' \in 1 .. Len(tokens) + 1
    BY <1>2, <1>3, <2>15, SkipIs
  <2>17. Fewer(s, X, V)
    BY <2>1, <2>5, <2>14 DEF Fewer
  <2> QED
    BY <1>1, <1>5, <2>12, <2>15, <2>16, <2>17, FewerArrive
<1> QED
  BY <1>4, <1>5

-----------------------------------------------------------------------------
(***************************************************************************)
(* The theorems.  The sets of groups and types are part of the invariant:  *)
(* there are some with which it holds.                                     *)
(***************************************************************************)
NextArrives(U, V) == Parsing(U, V) /\ Next => Arrives

LEMMA EveryActionArrives ==
    ASSUME NEW U, NEW V
    PROVE  NextArrives(U, V)
<1> SUFFICES ASSUME Parsing(U, V), Next
             PROVE  Arrives
  BY DEF NextArrives
<1>1. CASE Start
  BY <1>1, StartArrives
<1>2. CASE OpenGroup
  BY <1>2, OpenGroupArrives
<1>3. CASE CloseGroup
  BY <1>3, CloseGroupArrives
<1>4. CASE TextEnds
  BY <1>4, TextEndsArrives
<1>5. CASE EnterSection \/ EnterOther \/ Dimension
  <2>1. outcome = "parsing"
    BY <1>5 DEF EnterSection, EnterOther, Dimension, In
  <2>2. Goes(V)
    BY <1>5, EnterSectionGoes, EnterOtherGoes, DimensionGoes
  <2> QED
    BY <2>1, <2>2, GoesArrives
<1>6. CASE \/ NoMoreTypes \/ Opaque \/ Compound \/ CompoundField
           \/ Enum \/ EnumValue \/ VLen
  <2>1. outcome = "parsing"
    BY <1>6
    DEF NoMoreTypes, Opaque, Compound, CompoundField, Enum, EnumValue, VLen, InTypes, In
  <2>2. Goes(V)
    BY <1>6, NoMoreGoes, OpaqueGoes, CompoundGoes, CompoundFieldGoes, EnumGoes,
       EnumValueGoes, VLenGoes
  <2> QED
    BY <2>1, <2>2, GoesArrives
<1>7. CASE \/ NoMoreVariables \/ NextVariable \/ Attribute \/ TypedAttribute \/ Variable
           \/ Data
  <2>1. outcome = "parsing"
    BY <1>7 DEF NoMoreVariables, NextVariable, Attribute, TypedAttribute, Variable, Data, In
  <2>2. Goes(V)
    BY <1>7, NoMoreGoes, VariablesGo, DataGoes
  <2> QED
    BY <2>1, <2>2, GoesArrives
<1> QED
  BY <1>1, <1>2, <1>3, <1>4, <1>5, <1>6, <1>7 DEF Next

ParsingInv == \E U, V : Parsing(U, V)

LEMMA InitParsing == Init => ParsingInv
<1> SUFFICES ASSUME Init
             PROVE  ParsingInv
  OBVIOUS
<1>0. tokens \in Texts /\ cursor = 1 /\ stack = << >> /\ outcome = "start"
  BY DEF Init
<1>1. Text
  BY <1>0, TextsAssumption DEF TextsAssumption, Text
<1>2. IsSeq(stack) /\ Len(stack) = 0 /\ DOMAIN stack = {} /\ 1 .. 0 = {}
  BY <1>0, SeqEmpty
<1>3. cursor \in 1 .. Len(tokens) + 1
  <2>1. Len(tokens) \in Nat
    BY <1>1 DEF Text
  <2> QED
    BY <1>0, <2>1
<1>4. Frames({}, {}) /\ Scoped
  BY <1>2 DEF Frames, TypesIn, Nested, Scoped
<1>5. Parsing({}, {})
  BY <1>0, <1>1, <1>2, <1>3, <1>4 DEF Parsing
<1> QED
  BY <1>5 DEF ParsingInv

LEMMA StepParsing ==
    ASSUME ParsingInv, [Next]_vars
    PROVE  ParsingInv' /\ [Kept]_vars
<1>1. PICK U, V : Parsing(U, V)
  BY DEF ParsingInv
<1>2. CASE Next
  BY <1>1, <1>2, EveryActionArrives DEF NextArrives, Arrives, ParsingInv
<1>3. CASE UNCHANGED vars
  <2>1. Parsing(U, V)'
    BY <1>1, <1>3
    DEF vars, Parsing, Text, Frames, Scoped, InScope
  <2> QED
    BY <1>3, <2>1 DEF ParsingInv
<1> QED
  BY <1>2, <1>3

THEOREM ParserKeepsInvariant == Spec => []ParsingInv
<1>1. Init => ParsingInv
  BY InitParsing
<1>2. ParsingInv /\ [Next]_vars => ParsingInv'
  BY StepParsing
<1> QED
  BY <1>1, <1>2, PTL DEF Spec

(* The cursor stays in the text, all groups but the innermost wait between *)
(* two declarations, and none is open before parsing and after it.         *)
THEOREM ParserTypeCorrect == Spec => []TypeOK
<1>1. ParsingInv => TypeOK
  <2> SUFFICES ASSUME NEW U, NEW V, Parsing(U, V)
               PROVE  TypeOK
    BY DEF ParsingInv
  <2>1. DOMAIN stack = 1 .. Len(stack)
    BY SeqIs DEF Parsing, Frames
  <2>2. \A i \in 1 .. Len(stack) : stack[i].mode \in Modes
    BY DEF Parsing, Frames, IsFrame
  <2> QED
    BY <2>1, <2>2 DEF Parsing, TypeOK, Modes
<1> QED
  BY <1>1, ParserKeepsInvariant, PTL

(* No text gives a variable a type that is not elementary, declared in its *)
(* group or in one around it, or in a complete group that a path leads to. *)
THEOREM TypesAreInScope == Spec => []Scoped
<1>1. ParsingInv => Scoped
  BY DEF ParsingInv, Parsing
<1> QED
  BY <1>1, ParserKeepsInvariant, PTL

(* What was declared in a group that is still open is not lost or changed, *)
(* whatever comes later, and whatever error is recovered from.             *)
THEOREM DeclarationsAreKept == Spec => DeclarationsKept
<1>1. ParsingInv /\ [Next]_vars => [Kept]_vars
  BY StepParsing
<1>2. Spec => [][Kept]_vars
  BY <1>1, ParserKeepsInvariant, PTL DEF Spec
<1> QED
  BY <1>2 DEF DeclarationsKept, Kept
=============================================================================
