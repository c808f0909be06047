-------------------------- MODULE UtilitiesProofs --------------------------
(***************************************************************************)
(* What split_string and split_string_at give for texts of any length, and *)
(* the two forms of induction that the proofs about texts and arrays use.  *)
(***************************************************************************)
EXTENDS Utilities, SequencesExt, FiniteSetTheorems, TLAPS

(* A set of numbers has a least one: what stands in for induction.         *)
LEMMA LeastNumber ==
    ASSUME NEW ids \in SUBSET Nat, ids # {}
    PROVE  \E x \in ids : \A y \in ids : ~ (y < x)
<1>1. PICK x \in ids : \A y \in ids : ~ (<<y, x>> \in OpToRel(<, Nat))
  BY NatLessThanWellFounded, WFMin, Zenon
<1>2. ASSUME NEW y \in ids, y < x
      PROVE  <<y, x>> \in OpToRel(<, Nat)
  BY <1>2, Zenon DEF OpToRel
<1> QED
  BY <1>1, <1>2, Zenon

(* Induction over 0 .. n for a set of numbers.                             *)
LEMMA UpTo ==
    ASSUME NEW n \in Nat, NEW good, 0 \in good,
           \A i \in 0 .. n - 1 : i \in good => i + 1 \in good
    PROVE  \A i \in 0 .. n : i \in good
<1> DEFINE bad == {i \in 0 .. n : i \notin good}
<1>1. SUFFICES ASSUME bad # {}
               PROVE  FALSE
  OBVIOUS
<1>2. PICK x \in bad : \A y \in bad : ~ (y < x)
  <2>1. bad \in SUBSET Nat
    OBVIOUS
  <2> HIDE DEF bad
  <2> QED
    BY <1>1, <2>1, LeastNumber
<1>3. x # 0 /\ x - 1 \in 0 .. n - 1 /\ x - 1 \notin bad
  BY <1>2
<1> QED
  BY <1>2, <1>3

LEMMA Joined ==
    ASSUME NEW S, NEW p \in Seq(S), NEW q \in Seq(S)
    PROVE  /\ p \o q \in Seq(S)
           /\ Len(p \o q) = Len(p) + Len(q)
           /\ \A i \in 1 .. Len(p) : (p \o q)[i] = p[i]
           /\ \A i \in 1 .. Len(q) : (p \o q)[Len(p) + i] = q[i]
  OBVIOUS

LEMMA Single ==
    ASSUME NEW S, NEW x \in S
    PROVE  << x >> \in Seq(S) /\ Len(<< x >>) = 1 /\ << x >>[1] = x
  OBVIOUS

-----------------------------------------------------------------------------
(* find_first_of: nothing before the place found.                          *)
LEMMA NextFacts ==
    ASSUME NEW text, Len(text) \in Nat, NEW char, NEW i \in 1 .. Len(text) + 1
    PROVE  /\ NextOf(text, char, i) \in i .. Len(text) + 1
           /\ NextOf(text, char, i) = Len(text) + 1 \/ text[NextOf(text, char, i)] = char
           /\ \A k \in i .. NextOf(text, char, i) - 1 : text[k] # char
<1> DEFINE ends == {j \in i .. Len(text) + 1 : j = Len(text) + 1 \/ text[j] = char}
<1>1. ends \in SUBSET Nat /\ Len(text) + 1 \in ends
  OBVIOUS
<1>2. PICK j \in ends : \A k \in ends : ~ (k < j)
  <2> HIDE DEF ends
  <2>1. ends # {}
    BY <1>1
  <2> QED
    BY <1>1, <2>1, LeastNumber, Zenon
<1>3. \A k \in i .. j - 1 : text[k] # char
  BY <1>2
<1>4. \E m \in i .. Len(text) + 1 :
         (m = Len(text) + 1 \/ text[m] = char) /\ \A k \in i .. m - 1 : text[k] # char
  BY <1>2, <1>3
<1> QED
  BY <1>4, Zenon DEF NextOf

LEMMA NextIs ==
    ASSUME NEW text, Len(text) \in Nat, NEW char, NEW i \in 1 .. Len(text) + 1,
           NEW j \in i .. Len(text) + 1, j = Len(text) + 1 \/ text[j] = char,
           \A k \in i .. j - 1 : text[k] # char
    PROVE  NextOf(text, char, i) = j
<1> DEFINE next == NextOf(text, char, i)
<1>1. /\ next \in i .. Len(text) + 1
      /\ next = Len(text) + 1 \/ text[next] = char
      /\ \A k \in i .. next - 1 : text[k] # char
  BY NextFacts
<1> HIDE DEF next
<1>2. ~ (next < j) /\ ~ (j < next)
  BY <1>1
<1>3. next = j
  BY <1>1, <1>2
<1> QED
  BY <1>3 DEF next

(* split_string, from each place of the text on.                           *)
Piece(text, char, i) ==
    LET j == NextOf(text, char, i) IN IF j = i THEN << >> ELSE << SubSeq(text, i, j - 1) >>
Rest(f, text, char, i) ==
    LET j == NextOf(text, char, i) IN IF j > Len(text) THEN << >> ELSE f[j + 1]
IsSplit(f, text, char, m) ==
    f = [i \in m .. Len(text) + 1 |->
           IF i > Len(text) THEN << >> ELSE Piece(text, char, i) \o Rest(f, text, char, i)]

LEMMA SplitExists ==
    ASSUME NEW text, Len(text) \in Nat, NEW char
    PROVE  \E f : IsSplit(f, text, char, 1)
<1> DEFINE e == Len(text) + 1
           good == {k \in Nat : \E f : IsSplit(f, text, char, e - k)}
<1>1. 0 \in good
  <2>1. IsSplit([i \in e .. e |-> << >>], text, char, e)
    BY DEF IsSplit
  <2> QED
    BY <2>1
<1>2. ASSUME NEW k \in 0 .. Len(text) - 1, k \in good
      PROVE  k + 1 \in good
  <2>1. PICK m \in 1 .. Len(text) : m = e - (k + 1) /\ m + 1 = e - k
    <3>1. e - (k + 1) \in 1 .. Len(text) /\ (e - (k + 1)) + 1 = e - k
      OBVIOUS
    <3> QED
      BY <3>1
  <2>2. PICK f : IsSplit(f, text, char, m + 1)
    BY <1>2, <2>1
  <2> DEFINE g == [i \in m .. e |->
                     IF i = m THEN Piece(text, char, m) \o Rest(f, text, char, m) ELSE f[i]]
  <2>3. ASSUME NEW i \in m .. e
        PROVE  /\ NextOf(text, char, i) \in i .. e
               /\ NextOf(text, char, i) <= Len(text) => NextOf(text, char, i) + 1 \in m + 1 .. e
    <3>1. i \in 1 .. e
      BY <2>1
    <3>2. NextOf(text, char, i) \in i .. e
      BY <3>1, NextFacts
    <3> QED
      BY <2>1, <3>2
  <2>4. ASSUME NEW i \in m .. e
        PROVE  Rest(g, text, char, i) = Rest(f, text, char, i)
    <3> DEFINE j == NextOf(text, char, i)
    <3>1. CASE j > Len(text)
      BY <3>1, Zenon DEF Rest
    <3>2. CASE j <= Len(text)
      <4>1. j + 1 \in m + 1 .. e
        BY <2>3, <3>2
      <4> HIDE DEF j
      <4>2. j + 1 \in m .. e /\ j + 1 # m
        BY <2>1, <4>1
      <4>3. g[j + 1] = f[j + 1]
        BY <4>2, Zenon
      <4> QED
        BY <4>3, Zenon DEF Rest, j
    <3> QED
      BY <2>3, <3>1, <3>2
  <2>5. ASSUME NEW i \in m .. e
        PROVE  g[i] = IF i > Len(text) THEN << >>
                      ELSE Piece(text, char, i) \o Rest(g, text, char, i)
    <3>1. CASE i = m
      <4>1. ~ (i > Len(text))
        BY <2>1, <3>1
      <4>2. g[i] = Piece(text, char, m) \o Rest(f, text, char, m)
        BY <3>1, Zenon
      <4> QED
        BY <2>4, <3>1, <4>1, <4>2, Zenon
    <3>2. CASE i # m
      <4>1. i \in m + 1 .. e
        BY <2>1, <3>2
      <4>2. f[i] = IF i > Len(text) THEN << >>
                   ELSE Piece(text, char, i) \o Rest(f, text, char, i)
        BY <2>2, <4>1, Zenon DEF IsSplit
      <4>3. g[i] = f[i]
        BY <3>2, Zenon
      <4> QED
        BY <2>4, <4>2, <4>3, Zenon
    <3> QED
      BY <3>1, <3>2, Zenon
  <2>6. IsSplit(g, text, char, m)
    BY <2>5, Zenon DEF IsSplit
  <2> QED
    BY <2>1, <2>6
<1> HIDE DEF good
<1>3. \A k \in 0 .. Len(text) : k \in good
  BY <1>1, <1>2, UpTo
<1>4. 1 \in Nat /\ Len(text) \in 0 .. Len(text) /\ e - Len(text) = 1
  OBVIOUS
<1> QED
  BY <1>3, <1>4 DEF good

LEMMA SplitFacts ==
    ASSUME NEW text, Len(text) \in Nat, NEW char
    PROVE  \E f : SplitString(text, char) = f[1] /\ IsSplit(f, text, char, 1)
<1> DEFINE f == CHOOSE g : g = [i \in 1 .. Len(text) + 1 |->
                  IF i > Len(text) THEN << >>
                  ELSE LET j == NextOf(text, char, i)
                       IN  (IF j = i THEN << >> ELSE << SubSeq(text, i, j - 1) >>)
                             \o (IF j > Len(text) THEN << >> ELSE g[j + 1])]
<1>1. SplitString(text, char) = f[1]
  BY Zenon DEF SplitString
<1>2. IsSplit(f, text, char, 1)
  <2>1. \E g : g = [i \in 1 .. Len(text) + 1 |->
                  IF i > Len(text) THEN << >>
                  ELSE LET j == NextOf(text, char, i)
                       IN  (IF j = i THEN << >> ELSE << SubSeq(text, i, j - 1) >>)
                             \o (IF j > Len(text) THEN << >> ELSE g[j + 1])]
    BY SplitExists, Zenon DEF IsSplit, Piece, Rest
  <2> QED
    BY <2>1, Zenon DEF IsSplit, Piece, Rest
<1> QED
  BY <1>1, <1>2, Zenon

-----------------------------------------------------------------------------
(* The places of pieces are a finite set of pairs of numbers.              *)
LEMMA PlacesFinite ==
    ASSUME NEW text, Len(text) \in Nat, NEW char
    PROVE  IsFiniteSet(Pieces(text, char))
<1> DEFINE n == Len(text)
<1>1. IsFiniteSet((1 .. n) \X (1 .. n))
  <2>1. IsFiniteSet(1 .. n)
    BY FS_Interval
  <2> QED
    BY <2>1, FS_Product
<1>2. Pieces(text, char) \in SUBSET ((1 .. n) \X (1 .. n))
  BY DEF Pieces
<1> QED
  BY <1>1, <1>2, FS_Subset

(* A piece in front of a list of pieces.                                   *)
LEMMA ListsMore ==
    ASSUME NEW S, NEW text \in Seq(S), NEW places \in SUBSET (Nat \X Nat), IsFiniteSet(places),
           NEW list \in Seq(Seq(S)), Lists(list, text, places),
           NEW first \in Nat \X Nat, \A p \in places : first[1] < p[1],
           SubSeq(text, first[1], first[2]) \in Seq(S)
    PROVE  Lists(<< SubSeq(text, first[1], first[2]) >> \o list, text, places \cup {first})
<1> DEFINE more == places \cup {first}
           upTo(all, p) == {q \in all : q[1] <= p[1]}
           x == SubSeq(text, first[1], first[2])
<1>1. first \notin places
  <2>1. first[1] \in Nat /\ ~ (first[1] < first[1])
    OBVIOUS
  <2> QED
    BY <2>1, Zenon
<1>2. Cardinality(more) = Cardinality(places) + 1 /\ Cardinality(places) \in Nat
  BY <1>1, FS_AddElement, FS_CardinalityType
<1>3. Len(list) = Cardinality(places)
  BY DEF Lists
<1>4. /\ Len(<< x >> \o list) = Len(list) + 1
      /\ (<< x >> \o list)[1] = x
      /\ \A k \in 1 .. Len(list) : (<< x >> \o list)[k + 1] = list[k]
  <2> HIDE DEF x
  <2> QED
    OBVIOUS
<1>5. (<< x >> \o list)[Cardinality(upTo(more, first))] = x
  <2>1. upTo(more, first) = {first}
    OBVIOUS
  <2>2. Cardinality({first}) = 1
    BY FS_Singleton
  <2> QED
    BY <1>4, <2>1, <2>2, Zenon
<1>6. ASSUME NEW p \in places
      PROVE  (<< x >> \o list)[Cardinality(upTo(more, p))] = SubSeq(text, p[1], p[2])
  <2>1. upTo(more, p) = upTo(places, p) \cup {first}
    OBVIOUS
  <2>2. upTo(places, p) \in SUBSET places /\ p \in upTo(places, p) /\ first \notin upTo(places, p)
    BY <1>1
  <2>3. /\ IsFiniteSet(upTo(places, p)) /\ Cardinality(upTo(places, p)) \in Nat
        /\ Cardinality(upTo(places, p)) <= Cardinality(places)
    BY <2>2, FS_Subset, FS_CardinalityType
  <2>4. Cardinality(upTo(places, p)) # 0
    BY <2>2, <2>3, FS_EmptySet
  <2>5. Cardinality(upTo(more, p)) = Cardinality(upTo(places, p)) + 1
    <3>1. PICK set : set = upTo(places, p)
      OBVIOUS
    <3>2. Cardinality(set \cup {first}) = Cardinality(set) + 1
      <4>1. IsFiniteSet(set) /\ first \notin set
        BY <2>2, <2>3, <3>1, Zenon
      <4> QED
        BY <4>1, FS_AddElement
    <3> QED
      BY <2>1, <3>1, <3>2, Zenon
  <2>6. list[Cardinality(upTo(places, p))] = SubSeq(text, p[1], p[2])
    BY Zenon DEF Lists
  <2> DEFINE k == Cardinality(upTo(places, p))
  <2>7. k \in 1 .. Len(list)
    <3> HIDE DEF k
    <3> QED
      BY <1>2, <1>3, <2>3, <2>4 DEF k
  <2> QED
    BY <1>4, <2>5, <2>6, <2>7, Zenon
<1>7. Len(<< x >> \o list) = Cardinality(more)
  BY <1>2, <1>3, <1>4
<1>8. ASSUME NEW p \in more
      PROVE  (<< x >> \o list)[Cardinality(upTo(more, p))] = SubSeq(text, p[1], p[2])
  BY <1>5, <1>6, Zenon
<1> QED
  BY <1>7, <1>8, Zenon DEF Lists


(***************************************************************************)
(* split_string gives the pieces of any text, each once and in order: from *)
(* the beginning of the text, and from behind each occurrence of the       *)
(* character, it gives those that begin there or later.                    *)
(***************************************************************************)
From(text, char, i) == {p \in Pieces(text, char) : p[1] >= i}
Begins(text, char, i) == i = 1 \/ text[i - 1] = char

LEMMA FromFacts ==
    ASSUME NEW text, Len(text) \in Nat, NEW char, NEW i \in 1 .. Len(text), Begins(text, char, i),
           NEW j \in i .. Len(text) + 1, j = Len(text) + 1 \/ text[j] = char,
           \A k \in i .. j - 1 : text[k] # char
    PROVE  /\ j = i => From(text, char, i) = From(text, char, j + 1)
           /\ j # i => From(text, char, i) = From(text, char, j + 1) \cup {<<i, j - 1>>}
           /\ \A p \in From(text, char, j + 1) : i < p[1]
<1>1. ASSUME NEW p \in From(text, char, i), p[1] # i
      PROVE  p \in From(text, char, j + 1)
  <2>1. /\ p[1] \in i + 1 .. Len(text) /\ text[p[1] - 1] = char /\ text[p[1]] # char
        /\ p \in Pieces(text, char)
    BY <1>1 DEF From, Pieces
  <2>2. p[1] >= j + 1
    BY <2>1
  <2> QED
    BY <2>1, <2>2 DEF From
<1>2. ASSUME NEW p \in From(text, char, i), p[1] = i
      PROVE  j # i /\ p = <<i, j - 1>>
  <2>1. /\ p = <<p[1], p[2]>> /\ p[2] \in i .. Len(text)
        /\ \A k \in i .. p[2] : text[k] # char
        /\ p[2] = Len(text) \/ text[p[2] + 1] = char
    BY <1>2 DEF From, Pieces
  <2>2. p[2] < j
    BY <2>1
  <2>3. ~ (p[2] < j - 1)
    BY <2>1
  <2>4. p[2] = j - 1 /\ j # i
    BY <2>1, <2>2, <2>3
  <2> QED
    BY <1>2, <2>1, <2>4, Zenon
<1>3. ASSUME j # i
      PROVE  <<i, j - 1>> \in From(text, char, i)
  <2>1. j - 1 \in i .. Len(text) /\ (j - 1) + 1 = j /\ (j - 1 = Len(text) \/ text[j] = char)
    BY <1>3
  <2>2. <<i, j - 1>> \in Pieces(text, char)
    BY <2>1 DEF Pieces, Begins
  <2> QED
    BY <2>2 DEF From
<1>4. ASSUME NEW p \in From(text, char, j + 1)
      PROVE  p \in From(text, char, i) /\ i < p[1]
  BY DEF From, Pieces
<1>5. CASE j = i
  BY <1>1, <1>2, <1>4, <1>5, Zenon
<1>6. CASE j # i
  BY <1>1, <1>2, <1>3, <1>4, <1>6, Zenon
<1> QED
  BY <1>4, <1>5, <1>6, Zenon

LEMMA FromTypes ==
    ASSUME NEW text, Len(text) \in Nat, NEW char, NEW i
    PROVE  From(text, char, i) \in SUBSET (Nat \X Nat) /\ IsFiniteSet(From(text, char, i))
<1>1. From(text, char, i) \in SUBSET Pieces(text, char)
  BY DEF From
<1>2. Pieces(text, char) \in SUBSET (Nat \X Nat)
  BY DEF Pieces
<1> QED
  BY <1>1, <1>2, PlacesFinite, FS_Subset

LEMMA NoneListed ==
    ASSUME NEW text, Len(text) \in Nat, NEW char, NEW i \in Nat, i > Len(text)
    PROVE  Lists(<< >>, text, From(text, char, i))
<1>1. From(text, char, i) = {}
  BY DEF From, Pieces
<1>2. Len(<< >>) = Cardinality({})
  BY FS_EmptySet
<1> QED
  BY <1>1, <1>2, Zenon DEF Lists

LEMMA ListsPieces ==
    ASSUME NEW S, NEW text \in Seq(S), NEW char
    PROVE  Lists(SplitString(text, char), text, Pieces(text, char))
<1> DEFINE n == Len(text)
           e == n + 1
<1>0. n \in Nat
  OBVIOUS
<1>1. PICK f : SplitString(text, char) = f[1] /\ IsSplit(f, text, char, 1)
  BY <1>0, SplitFacts
<1> DEFINE Right(i) == f[i] \in Seq(Seq(S)) /\ Lists(f[i], text, From(text, char, i))
           good == {k \in Nat : \A i \in 1 .. e : i >= e - k /\ Begins(text, char, i) => Right(i)}
<1>2. Right(e)
  <2>1. f[e] = << >>
    BY <1>0, <1>1 DEF IsSplit
  <2>2. Lists(<< >>, text, From(text, char, e))
    BY <1>0, NoneListed
  <2> QED
    BY <2>1, <2>2
<1>3. 0 \in good
  <2>1. ASSUME NEW i \in 1 .. e, i >= e - 0
        PROVE  i = e
    BY <1>0, <2>1
  <2> QED
    BY <1>2, <2>1, Zenon
<1>4. ASSUME NEW i \in 1 .. n, Begins(text, char, i),
             \A m \in i + 1 .. e : Begins(text, char, m) => Right(m)
      PROVE  Right(i)
  <2> DEFINE j == NextOf(text, char, i)
             rest == Rest(f, text, char, i)
  <2>1. /\ j \in i .. e /\ (j = e \/ text[j] = char)
        /\ \A k \in i .. j - 1 : text[k] # char
    BY <1>0, NextFacts
  <2>2. f[i] = Piece(text, char, i) \o rest
    <3>1. i \in 1 .. n + 1 /\ ~ (i > n)
      BY <1>0
    <3> QED
      BY <1>1, <3>1, Zenon DEF IsSplit
  <2>3. rest \in Seq(Seq(S)) /\ Lists(rest, text, From(text, char, j + 1))
    <3>1. CASE j > n
      <4>1. rest = << >>
        BY <3>1, Zenon DEF Rest
      <4>2. j + 1 \in Nat /\ j + 1 > n
        BY <1>0, <2>1, <3>1
      <4>3. Lists(<< >>, text, From(text, char, j + 1))
        <5> HIDE DEF j
        <5> QED
          BY <1>0, <4>2, NoneListed
      <4>4. << >> \in Seq(Seq(S))
        OBVIOUS
      <4> QED
        BY <4>1, <4>3, <4>4, Zenon
    <3>2. CASE ~ (j > n)
      <4>1. rest = f[j + 1]
        BY <3>2, Zenon DEF Rest
      <4> HIDE DEF j
      <4>2. j + 1 \in i + 1 .. e /\ text[(j + 1) - 1] = char
        BY <1>0, <2>1, <3>2
      <4>3. Begins(text, char, j + 1)
        BY <4>2, Zenon DEF Begins
      <4> QED
        BY <1>4, <4>1, <4>2, <4>3, Zenon
    <3> QED
      BY <3>1, <3>2, Zenon
  <2> DEFINE places == From(text, char, j + 1)
  <2>4. /\ j = i => From(text, char, i) = places
        /\ j # i => From(text, char, i) = places \cup {<<i, j - 1>>}
        /\ \A p \in places : i < p[1]
    BY <1>0, <1>4, <2>1, FromFacts, Zenon
  <2>5. CASE j = i
    <3>1. Piece(text, char, i) = << >>
      BY <2>5, Zenon DEF Piece
    <3>2. f[i] = rest
      <4> HIDE DEF rest
      <4>1. << >> \o rest = rest
        BY <2>3
      <4> QED
        BY <2>2, <3>1, <4>1, Zenon
    <3> QED
      BY <2>3, <2>4, <2>5, <3>2, Zenon
  <2>6. CASE j # i
    <3> DEFINE x == SubSeq(text, i, j - 1)
    <3>1. Piece(text, char, i) = << x >>
      BY <2>6, Zenon DEF Piece
    <3> HIDE DEF j, rest
    <3>2. i \in Nat /\ j - 1 \in Nat /\ x \in Seq(S)
      BY <1>0, <2>1, <2>6
    <3>3. PICK first \in Nat \X Nat : first = <<i, j - 1>> /\ first[1] = i /\ first[2] = j - 1
      <4>1. <<i, j - 1>> \in Nat \X Nat
        BY <3>2, Zenon
      <4>2. <<i, j - 1>>[1] = i /\ <<i, j - 1>>[2] = j - 1
        OBVIOUS
      <4> QED
        BY <4>1, <4>2, Zenon
    <3>4. \A p \in places : first[1] < p[1]
      BY <2>4, <3>3, Zenon
    <3>5. places \in SUBSET (Nat \X Nat) /\ IsFiniteSet(places)
      BY <1>0, FromTypes
    <3>6. Lists(<< SubSeq(text, first[1], first[2]) >> \o rest, text, places \cup {first})
      <4>1. SubSeq(text, first[1], first[2]) \in Seq(S)
        BY <3>2, <3>3, Zenon
      <4>2. PICK later, list : later = places /\ list = rest
        OBVIOUS
      <4>3. /\ later \in SUBSET (Nat \X Nat) /\ IsFiniteSet(later)
            /\ list \in Seq(Seq(S)) /\ Lists(list, text, later)
            /\ \A p \in later : first[1] < p[1]
        BY <2>3, <3>4, <3>5, <4>2, Zenon
      <4>4. Lists(<< SubSeq(text, first[1], first[2]) >> \o list, text, later \cup {first})
        BY <4>1, <4>3, ListsMore
      <4> QED
        BY <4>2, <4>4, Zenon
    <3>7. << x >> \o rest \in Seq(Seq(S))
      <4> HIDE DEF x
      <4> QED
        BY <2>3, <3>2
    <3> QED
      BY <2>2, <2>4, <2>6, <3>1, <3>3, <3>6, <3>7, Zenon
  <2> QED
    BY <2>5, <2>6, Zenon
<1>5. ASSUME NEW k \in 0 .. n - 1, k \in good
      PROVE  k + 1 \in good
  <2>1. ASSUME NEW i \in 1 .. e, i >= e - (k + 1), Begins(text, char, i)
        PROVE  Right(i)
    <3>1. CASE i >= e - k
      BY <1>5, <2>1, <3>1
    <3>2. CASE ~ (i >= e - k)
      <4>1. i \in 1 .. n
        BY <1>0, <3>2
      <4>2. \A m \in i + 1 .. e : m \in 1 .. e /\ m >= e - k
        BY <1>0, <2>1
      <4>3. \A m \in i + 1 .. e : Begins(text, char, m) => Right(m)
        BY <1>5, <4>2, Zenon
      <4> QED
        BY <1>4, <2>1, <4>1, <4>3, Zenon
    <3> QED
      BY <3>1, <3>2
  <2>2. k + 1 \in Nat
    BY <1>0
  <2> HIDE DEF Right
  <2> QED
    BY <2>1, <2>2
<1>6. Right(1)
  <2> HIDE DEF good
  <2>1. \A k \in 0 .. n : k \in good
    <3> HIDE DEF n
    <3> QED
      BY <1>0, <1>3, <1>5, UpTo
  <2>2. n \in good /\ 1 \in 1 .. e /\ 1 >= e - n
    BY <1>0, <2>1
  <2>3. Begins(text, char, 1)
    BY DEF Begins
  <2> QED
    BY <2>2, <2>3, Zenon DEF good
<1>7. From(text, char, 1) = Pieces(text, char)
  BY DEF From, Pieces
<1> QED
  BY <1>1, <1>6, <1>7, Zenon

(***************************************************************************)
(* split_string_at gives what is before and behind the first occurrence,   *)
(* unless nothing is behind it.                                            *)
(***************************************************************************)
LEMMA SplitAtFacts ==
    ASSUME NEW S, NEW text \in Seq(S), NEW char
    PROVE  LET two == SplitStringAt(text, char)
           IN  IF two[2] = << >> THEN ~ \E i \in 1 .. Len(text) - 1 : text[i] = char
               ELSE two[1] \o << char >> \o two[2] = text /\ char \notin ToSet(two[1])
<1> DEFINE n == Len(text)
           two == SplitStringAt(text, char)
<1>0. n \in Nat
  OBVIOUS
<1>1. PICK j : j = NextOf(text, char, 1)
  OBVIOUS
<1>2. j \in 1 .. n + 1 /\ (j = n + 1 \/ text[j] = char) /\ \A k \in 1 .. j - 1 : text[k] # char
  <2>1. 1 \in 1 .. n + 1
    BY <1>0
  <2> QED
    BY <1>0, <1>1, <2>1, NextFacts, Zenon
<1>3. CASE j >= n
  <2>1. two[2] = << >>
    BY <1>1, <1>3 DEF SplitStringAt
  <2>2. ~ \E i \in 1 .. n - 1 : text[i] = char
    BY <1>0, <1>2, <1>3
  <2> QED
    BY <2>1, <2>2, Zenon
<1>4. CASE ~ (j >= n)
  <2>1. PICK before, behind : /\ before = SubSeq(text, 1, j - 1)
                              /\ behind = SubSeq(text, j + 1, n)
    OBVIOUS
  <2>2. two[1] = before /\ two[2] = behind
    BY <1>1, <1>4, <2>1 DEF SplitStringAt
  <2>3. /\ before \in Seq(S) /\ Len(before) = j - 1
        /\ \A k \in 1 .. j - 1 : before[k] = text[k]
    BY <1>0, <1>2, <1>4, <2>1
  <2>4. /\ behind \in Seq(S) /\ Len(behind) = n - j
        /\ \A k \in 1 .. n - j : behind[k] = text[j + k]
    BY <1>0, <1>2, <1>4, <2>1
  <2>5. behind # << >>
    BY <1>0, <1>2, <1>4, <2>4
  <2>6. char \notin ToSet(before)
    BY <1>2, <2>3 DEF ToSet
  <2>7. text[j] = char /\ j \in 1 .. n /\ char \in S
    BY <1>0, <1>2, <1>4
  <2>8. PICK mark \in Seq(S) : mark = << char >> /\ Len(mark) = 1 /\ mark[1] = char
    BY <2>7, Single, Zenon
  <2>9. before \o mark \o behind = text
    <3> DEFINE whole == before \o mark \o behind
    <3>1. whole \in Seq(S) /\ Len(whole) = n
      <4>1. /\ before \o mark \in Seq(S) /\ Len(before \o mark) = Len(before) + Len(mark)
            /\ whole \in Seq(S) /\ Len(whole) = Len(before \o mark) + Len(behind)
        <5>1. before \o mark \in Seq(S) /\ Len(before \o mark) = Len(before) + Len(mark)
          BY <2>3, Joined, Zenon
        <5>2. whole \in Seq(S) /\ Len(whole) = Len(before \o mark) + Len(behind)
          BY <2>4, <5>1, Joined, Zenon
        <5> QED
          BY <5>1, <5>2, Zenon
      <4>2. ((j - 1) + 1) + (n - j) = n
        BY <1>0, <1>2
      <4> QED
        BY <2>3, <2>4, <2>8, <4>1, <4>2, Zenon
    <3>2. ASSUME NEW k \in 1 .. n
          PROVE  whole[k] = text[k]
      <4>1. CASE k < j
        <5>1. k \in 1 .. j - 1
          BY <4>1, <1>2
        <5>2. whole[k] = before[k]
          BY <2>3, <2>4, <2>8, <5>1
        <5> QED
          BY <2>3, <5>1, <5>2, Zenon
      <4>2. CASE k = j
        BY <2>3, <2>4, <2>7, <2>8, <4>2
      <4>3. CASE k > j
        <5>1. k - j \in 1 .. n - j /\ j + (k - j) = k
          BY <1>0, <1>2, <4>3
        <5>2. whole[k] = behind[k - j]
          BY <2>3, <2>4, <2>8, <4>3, <1>2
        <5> QED
          BY <2>4, <5>1, <5>2, Zenon
      <4>4. k < j \/ k = j \/ k > j
        BY <1>0, <1>2
      <4> QED
        BY <4>1, <4>2, <4>3, <4>4, Zenon
    <3>3. whole = [k \in 1 .. n |-> whole[k]] /\ text = [k \in 1 .. n |-> text[k]]
      <4> HIDE DEF whole
      <4> QED
        BY <3>1
    <3> HIDE DEF whole, n
    <3>4. [k \in 1 .. n |-> whole[k]] = [k \in 1 .. n |-> text[k]]
      BY <3>2, Zenon
    <3> QED
      BY <3>3, <3>4, Zenon DEF whole
  <2> QED
    BY <2>2, <2>5, <2>6, <2>8, <2>9, Zenon
<1> QED
  BY <1>3, <1>4
=============================================================================
