------------------------ MODULE ArrayTransferProofs ------------------------
(***************************************************************************)
(* Proofs about ArrayTransfer, for arrays of any dimension and any sizes:  *)
(* what arrives is what was sent.                                          *)
(***************************************************************************)
EXTENDS ArrayTransfer, UtilitiesProofs

(* Sequences are the same when they are as long and agree everywhere.      *)
LEMMA SameSequence ==
    ASSUME NEW S, NEW p \in Seq(S), NEW T, NEW q \in Seq(T), Len(p) = Len(q),
           \A i \in 1 .. Len(p) : p[i] = q[i]
    PROVE  p = q
<1>1. p = [i \in 1 .. Len(p) |-> p[i]] /\ q = [i \in 1 .. Len(q) |-> q[i]]
  OBVIOUS
<1>2. [i \in 1 .. Len(p) |-> p[i]] = [i \in 1 .. Len(q) |-> q[i]]
  OBVIOUS
<1> QED
  BY <1>1, <1>2, Zenon

-----------------------------------------------------------------------------
(* number_of_elements: the product of the first n sizes.                   *)
IsProduct(f, sizes, n) ==
    f = [i \in 0 .. n |-> IF i = 0 THEN 1 ELSE f[i - 1] * sizes[i]]

LEMMA ProductExists ==
    ASSUME NEW sizes, NEW n \in Nat
    PROVE  \E f : IsProduct(f, sizes, n)
<1> DEFINE good == {k \in Nat : \E f : IsProduct(f, sizes, k)}
<1>1. 0 \in good
  <2>1. IsProduct([i \in 0 .. 0 |-> 1], sizes, 0)
    BY DEF IsProduct
  <2> QED
    BY <2>1
<1>2. ASSUME NEW k \in 0 .. n - 1, k \in good
      PROVE  k + 1 \in good
  <2>1. PICK f : IsProduct(f, sizes, k)
    BY <1>2
  <2> DEFINE g == [i \in 0 .. k + 1 |-> IF i = k + 1 THEN f[k] * sizes[i] ELSE f[i]]
  <2>2. ASSUME NEW i \in 0 .. k + 1
        PROVE  g[i] = IF i = 0 THEN 1 ELSE g[i - 1] * sizes[i]
    <3>1. CASE i = k + 1
      BY <3>1
    <3>2. CASE i \in 0 .. k
      BY <2>1, <3>2 DEF IsProduct
    <3> QED
      BY <3>1, <3>2
  <2>3. IsProduct(g, sizes, k + 1)
    BY <2>2, Zenon DEF IsProduct
  <2> QED
    BY <2>3
<1> HIDE DEF good
<1>3. n \in good
  BY <1>1, <1>2, UpTo
<1> QED
  BY <1>3 DEF good

(* The number of elements of the first n dimensions, from that of n - 1.   *)
LEMMA ProductFacts ==
    ASSUME NEW sizes \in Seq(Nat)
    PROVE  /\ \A n \in 0 .. Len(sizes) : Product(SubSeq(sizes, 1, n)) \in Nat
           /\ Product(SubSeq(sizes, 1, 0)) = 1
           /\ \A n \in 1 .. Len(sizes) :
                 Product(SubSeq(sizes, 1, n)) = Product(SubSeq(sizes, 1, n - 1)) * sizes[n]
           /\ Product(SubSeq(sizes, 1, Len(sizes))) = Product(sizes)
<1> DEFINE Of(n) == SubSeq(sizes, 1, n)
<1>0. Len(sizes) \in Nat
  OBVIOUS
<1>1. PICK f : IsProduct(f, sizes, Len(sizes))
  BY <1>0, ProductExists
<1>2. f[0] = 1 /\ \A n \in 1 .. Len(sizes) : f[n] = f[n - 1] * sizes[n]
  BY <1>1 DEF IsProduct
<1>3. \A n \in 0 .. Len(sizes) : f[n] \in Nat
  <2> DEFINE good == {n \in Nat : n <= Len(sizes) => f[n] \in Nat}
  <2>1. 0 \in good
    BY <1>2
  <2>2. ASSUME NEW n \in 0 .. Len(sizes) - 1, n \in good
        PROVE  n + 1 \in good
    <3>1. f[n + 1] = f[n] * sizes[n + 1] /\ sizes[n + 1] \in Nat /\ f[n] \in Nat
      BY <1>2, <2>2
    <3> QED
      BY <3>1
  <2>3. \A n \in 0 .. Len(sizes) : n \in good
    <3> HIDE DEF good
    <3> QED
      BY <1>0, <2>1, <2>2, UpTo
  <2> QED
    BY <2>3
<1>4. ASSUME NEW n \in 0 .. Len(sizes)
      PROVE  Product(Of(n)) = f[n]
  <2> DEFINE s == Of(n)
             h == CHOOSE g : g = [i \in 0 .. Len(s) |-> IF i = 0 THEN 1 ELSE g[i - 1] * s[i]]
  <2>1. Len(s) = n /\ \A i \in 1 .. n : s[i] = sizes[i]
    OBVIOUS
  <2> HIDE DEF s
  <2>2. IsProduct(h, s, Len(s))
    <3>1. Len(s) \in Nat
      BY <2>1
    <3>2. \E g : IsProduct(g, s, Len(s))
      BY <3>1, ProductExists
    <3> QED
      BY <3>2, Zenon DEF IsProduct
  <2>3. Product(s) = h[n]
    BY <2>1, Zenon DEF Product
  <2> HIDE DEF h
  <2> DEFINE good == {i \in Nat : i <= n => h[i] = f[i]}
  <2>4. 0 \in good
    BY <1>2, <2>1, <2>2 DEF IsProduct
  <2>5. ASSUME NEW i \in 0 .. n - 1, i \in good
        PROVE  i + 1 \in good
    <3>1. h[i + 1] = h[i] * s[i + 1] /\ f[i + 1] = f[i] * sizes[i + 1]
      BY <1>2, <2>1, <2>2 DEF IsProduct
    <3> QED
      BY <2>1, <2>5, <3>1
  <2>6. \A i \in 0 .. n : i \in good
    <3>1. n \in Nat
      BY <1>0
    <3> HIDE DEF good
    <3> QED
      BY <2>4, <2>5, <3>1, UpTo
  <2> QED
    BY <2>3, <2>6 DEF s
<1>5. Of(Len(sizes)) = sizes
  OBVIOUS
<1> HIDE DEF Of
<1>6. Product(Of(0)) = 1 /\ Product(Of(Len(sizes))) = Product(sizes)
  BY <1>0, <1>2, <1>4, <1>5
<1>7. ASSUME NEW n \in 1 .. Len(sizes)
      PROVE  Product(Of(n)) = Product(Of(n - 1)) * sizes[n]
  <2>1. Product(Of(n)) = f[n] /\ Product(Of(n - 1)) = f[n - 1]
    BY <1>0, <1>4
  <2> QED
    BY <1>2, <2>1
<1> QED
  BY <1>3, <1>4, <1>6, <1>7 DEF Of

-----------------------------------------------------------------------------
(* The pieces of s one after another, up to each.                          *)
IsFlat(f, s, n) == f = [i \in 1 .. n |-> IF i = 1 THEN s[i] ELSE f[i - 1] \o s[i]]

LEMMA FlatExists ==
    ASSUME NEW s, NEW n \in Nat \ {0}
    PROVE  \E f : IsFlat(f, s, n)
<1> DEFINE good == {k \in Nat : \E f : IsFlat(f, s, k + 1)}
<1>1. 0 \in good
  <2>1. IsFlat([i \in 1 .. 1 |-> s[1]], s, 0 + 1)
    BY DEF IsFlat
  <2> QED
    BY <2>1
<1>2. ASSUME NEW k \in 0 .. (n - 1) - 1, k \in good
      PROVE  k + 1 \in good
  <2>1. PICK f : IsFlat(f, s, k + 1)
    BY <1>2
  <2> DEFINE g == [i \in 1 .. k + 2 |-> IF i = k + 2 THEN f[k + 1] \o s[i] ELSE f[i]]
  <2>2. ASSUME NEW i \in 1 .. k + 2
        PROVE  g[i] = IF i = 1 THEN s[i] ELSE g[i - 1] \o s[i]
    <3>1. CASE i = k + 2
      <4>1. i # 1 /\ i - 1 = k + 1 /\ k + 1 \in 1 .. k + 2 /\ k + 1 # k + 2 /\ k + 2 \in 1 .. k + 2
        BY <3>1
      <4>2. g[i - 1] = f[k + 1] /\ g[i] = f[k + 1] \o s[i]
        BY <3>1, <4>1, Zenon
      <4> QED
        BY <4>1, <4>2, Zenon
    <3>2. CASE i \in 1 .. k + 1
      <4>1. i # k + 2 /\ i \in 1 .. k + 2
        BY <3>2
      <4>2. i = 1 \/ (i - 1 \in 1 .. k + 2 /\ i - 1 # k + 2)
        BY <3>2
      <4>3. f[i] = IF i = 1 THEN s[i] ELSE f[i - 1] \o s[i]
        BY <2>1, <3>2, Zenon DEF IsFlat
      <4>4. g[i] = f[i] /\ (i # 1 => g[i - 1] = f[i - 1])
        BY <4>1, <4>2, Zenon
      <4> QED
        BY <4>3, <4>4, Zenon
    <3> QED
      BY <3>1, <3>2
  <2>3. IsFlat(g, s, k + 2)
    BY <2>2, Zenon DEF IsFlat
  <2> QED
    BY <2>3
<1> HIDE DEF good
<1>3. n - 1 \in good
  BY <1>1, <1>2, UpTo
<1> QED
  BY <1>3 DEF good

LEMMA Flattened ==
    ASSUME NEW S, NEW s \in Seq(Seq(S)), s # << >>
    PROVE  \E f \in [1 .. Len(s) -> Seq(S)] :
              /\ f[1] = s[1]
              /\ \A i \in 2 .. Len(s) : f[i] = f[i - 1] \o s[i]
              /\ FlattenSeq(s) = f[Len(s)]
<1> DEFINE f == CHOOSE g : g = [i \in 1 .. Len(s) |-> IF i = 1 THEN s[i] ELSE g[i - 1] \o s[i]]
<1>1. Len(s) \in Nat \ {0} /\ \A i \in 1 .. Len(s) : s[i] \in Seq(S)
  OBVIOUS
<1>2. IsFlat(f, s, Len(s))
  BY <1>1, FlatExists, Zenon DEF IsFlat
<1>3. FlattenSeq(s) = f[Len(s)]
  BY <1>1, Zenon DEF FlattenSeq
<1> HIDE DEF f
<1>4. f[1] = s[1] /\ \A i \in 2 .. Len(s) : f[i] = f[i - 1] \o s[i]
  <2>1. \A i \in 1 .. Len(s) : f[i] = IF i = 1 THEN s[i] ELSE f[i - 1] \o s[i]
    BY <1>2, Zenon DEF IsFlat
  <2>2. 1 \in 1 .. Len(s) /\ \A i \in 2 .. Len(s) : i \in 1 .. Len(s) /\ i # 1
    BY <1>1
  <2> QED
    BY <2>1, <2>2, Zenon
<1>5. \A i \in 1 .. Len(s) : f[i] \in Seq(S)
  <2> DEFINE good == {i \in Nat : i < Len(s) => f[i + 1] \in Seq(S)}
  <2>1. 0 \in good
    BY <1>1, <1>4
  <2>2. ASSUME NEW i \in 0 .. (Len(s) - 1) - 1, i \in good
        PROVE  i + 1 \in good
    <3>1. i + 2 \in 2 .. Len(s) /\ (i + 2) - 1 = i + 1 /\ (i + 1) + 1 = i + 2 /\ i + 1 \in Nat
      BY <1>1
    <3>2. f[i + 2] = f[i + 1] \o s[i + 2]
      BY <1>4, <3>1, Zenon
    <3>3. f[i + 1] \in Seq(S) /\ s[i + 2] \in Seq(S)
      BY <1>1, <2>2
    <3>4. f[i + 2] \in Seq(S)
      BY <3>2, <3>3
    <3> QED
      BY <3>1, <3>4
  <2>3. \A i \in 0 .. Len(s) - 1 : i \in good
    <3>1. Len(s) - 1 \in Nat
      BY <1>1
    <3> HIDE DEF good
    <3> QED
      BY <2>1, <2>2, <3>1, UpTo
  <2>4. ASSUME NEW i \in 1 .. Len(s)
        PROVE  f[i] \in Seq(S)
    <3>1. i - 1 \in good
      BY <1>1, <2>3
    <3> QED
      BY <1>1, <3>1
  <2> QED
    BY <2>4
<1>6. f \in [1 .. Len(s) -> Seq(S)]
  BY <1>2, <1>5 DEF IsFlat
<1> QED
  BY <1>3, <1>4, <1>6

LEMMA FlattenType ==
    ASSUME NEW S, NEW s \in Seq(Seq(S))
    PROVE  FlattenSeq(s) \in Seq(S) /\ (s = << >> => FlattenSeq(s) = << >>)
<1>1. CASE s = << >>
  BY <1>1 DEF FlattenSeq
<1>2. CASE s # << >>
  <2>1. PICK f \in [1 .. Len(s) -> Seq(S)] : FlattenSeq(s) = f[Len(s)]
    BY <1>2, Flattened
  <2>2. Len(s) \in 1 .. Len(s)
    BY <1>2
  <2> QED
    BY <1>2, <2>1, <2>2
<1> QED
  BY <1>1, <1>2

(* Pieces of one length: where each of them is.                            *)
LEMMA FlattenEven ==
    ASSUME NEW S, NEW s \in Seq(Seq(S)), NEW w \in Nat, \A i \in 1 .. Len(s) : Len(s[i]) = w
    PROVE  /\ Len(FlattenSeq(s)) = Len(s) * w
           /\ \A i \in 1 .. Len(s), k \in 1 .. w : FlattenSeq(s)[(i - 1) * w + k] = s[i][k]
<1>1. CASE s = << >>
  <2>1. FlattenSeq(s) = << >>
    BY <1>1, FlattenType
  <2> QED
    BY <1>1, <2>1
<1>2. CASE s # << >>
  <2>1. PICK f \in [1 .. Len(s) -> Seq(S)] :
           /\ f[1] = s[1]
           /\ \A i \in 2 .. Len(s) : f[i] = f[i - 1] \o s[i]
           /\ FlattenSeq(s) = f[Len(s)]
    BY <1>2, Flattened
  <2> DEFINE Right(n) == /\ Len(f[n]) = n * w
                         /\ \A i \in 1 .. n, k \in 1 .. w : f[n][(i - 1) * w + k] = s[i][k]
             good == {n \in Nat : n < Len(s) => Right(n + 1)}
  <2>2. 0 \in good
    <3>1. Right(1)
      BY <1>2, <2>1
    <3> QED
      BY <3>1
  <2>3. ASSUME NEW n \in 0 .. (Len(s) - 1) - 1, n \in good
        PROVE  n + 1 \in good
    <3>1. /\ f[n + 2] = f[n + 1] \o s[n + 2] /\ f[n + 1] \in Seq(S) /\ s[n + 2] \in Seq(S)
          /\ Len(s[n + 2]) = w
      <4> HIDE DEF good, Right
      <4>1. /\ n + 2 \in 2 .. Len(s) /\ n + 1 \in 1 .. Len(s) /\ (n + 2) - 1 = n + 1
            /\ n + 2 \in 1 .. Len(s)
        BY <1>2
      <4>2. f[n + 2] = f[n + 1] \o s[n + 2]
        BY <2>1, <4>1, Zenon
      <4>3. f[n + 1] \in Seq(S)
        BY <2>1, <4>1
      <4>4. s[n + 2] \in Seq(S) /\ Len(s[n + 2]) = w
        BY <4>1
      <4> QED
        BY <4>2, <4>3, <4>4
    <3>0. /\ Len(f[n + 2]) = Len(f[n + 1]) + w
          /\ \A i \in 1 .. Len(f[n + 1]) : f[n + 2][i] = f[n + 1][i]
          /\ \A i \in 1 .. w : f[n + 2][Len(f[n + 1]) + i] = s[n + 2][i]
      <4>1. PICK p, q : p = f[n + 1] /\ q = s[n + 2]
        OBVIOUS
      <4>2. p \in Seq(S) /\ q \in Seq(S) /\ f[n + 2] = p \o q /\ Len(q) = w
        BY <3>1, <4>1, Zenon
      <4>3. p \in Seq(S) /\ q \in Seq(S)
        BY <4>2, Zenon
      <4>4. Len(p \o q) = Len(p) + Len(q) /\ \A i \in 1 .. Len(p) : (p \o q)[i] = p[i]
        BY <4>3, Joined, Zenon
      <4>5. ASSUME NEW i \in 1 .. Len(q)
            PROVE  (p \o q)[Len(p) + i] = q[i]
        BY <4>3
      <4> QED
        BY <4>1, <4>2, <4>4, <4>5, Zenon
    <3>2. Right(n + 1)
      BY <2>3
    <3>3. Len(f[n + 2]) = (n + 2) * w
      <4>1. Len(f[n + 2]) = Len(f[n + 1]) + w
        BY <3>0, Zenon
      <4>2. Len(f[n + 1]) = (n + 1) * w
        BY <3>2, Zenon
      <4> QED
        BY <4>1, <4>2
    <3>4. ASSUME NEW i \in 1 .. n + 2, NEW k \in 1 .. w
          PROVE  f[n + 2][(i - 1) * w + k] = s[i][k]
      <4>1. CASE i = n + 2
        <5>1. (i - 1) * w + k = Len(f[n + 1]) + k
          BY <3>2, <4>1
        <5>2. f[n + 2][Len(f[n + 1]) + k] = s[n + 2][k]
          BY <3>0, Zenon
        <5> QED
          BY <4>1, <5>1, <5>2
      <4>2. CASE i \in 1 .. n + 1
        <5>1. (i - 1) * w + k \in 1 .. Len(f[n + 1])
          <6>1. (i - 1) * w <= n * w /\ (i - 1) * w >= 0 /\ (i - 1) * w \in Int
            BY <4>2
          <6>2. Len(f[n + 1]) = n * w + w
            BY <3>2
          <6> DEFINE m == (i - 1) * w
                     l == n * w
          <6> HIDE DEF m, l
          <6>3. m <= l /\ m >= 0 /\ m \in Int /\ l \in Int /\ Len(f[n + 1]) = l + w
            BY <6>1, <6>2 DEF m, l
          <6>4. m + k \in 1 .. Len(f[n + 1])
            BY <6>3
          <6> QED
            BY <6>4 DEF m
        <5>2. f[n + 1][(i - 1) * w + k] = s[i][k]
          BY <3>2, <4>2
        <5> DEFINE place == (i - 1) * w + k
        <5> HIDE DEF place
        <5>3. f[n + 2][place] = f[n + 1][place]
          BY <3>0, <5>1 DEF place
        <5> QED
          BY <5>2, <5>3 DEF place
      <4> QED
        BY <4>1, <4>2
    <3> QED
      BY <3>3, <3>4
  <2>4. Right(Len(s))
    <3>1. Len(s) - 1 \in good
      <4>1. Len(s) - 1 \in Nat
        BY <1>2
      <4> HIDE DEF good
      <4>2. \A n \in 0 .. (Len(s) - 1) - 1 : n \in good => n + 1 \in good
        BY <2>3
      <4>3. \A n \in 0 .. Len(s) - 1 : n \in good
        BY <2>2, <4>1, <4>2, UpTo
      <4> QED
        BY <4>1, <4>3
    <3> QED
      BY <1>2, <3>1
  <2> QED
    BY <2>1, <2>4
<1> QED
  BY <1>1, <1>2

-----------------------------------------------------------------------------
(* The arrays in an array of dimension d have dimension d - 1, and so on.  *)
LEMMA ArraysBelow ==
    ASSUME NEW d \in Dimension
    PROVE  \A n \in 0 .. d : d - n \in Dimension /\ d - n \in Nat
<1> DEFINE good == {n \in Nat : n <= d => d - n \in Dimension}
<1>0. d \in Nat
  BY ArrayAssumption
<1>1. 0 \in good
  BY <1>0
<1>2. ASSUME NEW n \in 0 .. d - 1, n \in good
      PROVE  n + 1 \in good
  <2>1. d - n \in Dimension /\ d - n \in Nat /\ d - n > 0 /\ (d - n) - 1 = d - (n + 1)
    BY <1>0, <1>2
  <2>2. (d - n) - 1 \in Dimension
    BY <2>1, ArrayAssumption
  <2> QED
    BY <1>0, <2>1, <2>2
<1>3. \A n \in 0 .. d : n \in good
  <2> HIDE DEF good
  <2> QED
    BY <1>0, <1>1, <1>2, UpTo
<1> QED
  BY <1>0, <1>3

LEMMA ChildrenAre ==
    ASSUME NEW d \in Dimension, NEW n \in 0 .. d - 1
    PROVE  Arrays[d - n] \subseteq Seq(Arrays[d - (n + 1)])
<1>1. d - n \in Dimension /\ d - n > 0 /\ (d - n) - 1 = d - (n + 1)
  BY ArraysBelow, ArrayAssumption
<1> QED
  BY <1>1, ArrayAssumption

(* The vectors whose sizes container_dimension_sizes takes.                *)
AreVectors(f, a, n) == f = [i \in 1 .. n |-> IF i = 1 THEN a ELSE FirstChild(f[i - 1])]

LEMMA VectorsExist ==
    ASSUME NEW a, NEW n \in Nat \ {0}
    PROVE  \E f : AreVectors(f, a, n)
<1> DEFINE good == {k \in Nat : \E f : AreVectors(f, a, k + 1)}
<1>1. 0 \in good
  <2>1. AreVectors([i \in 1 .. 1 |-> a], a, 0 + 1)
    BY DEF AreVectors
  <2> QED
    BY <2>1
<1>2. ASSUME NEW k \in 0 .. (n - 1) - 1, k \in good
      PROVE  k + 1 \in good
  <2>1. PICK f : AreVectors(f, a, k + 1)
    BY <1>2
  <2> DEFINE g == [i \in 1 .. k + 2 |-> IF i = k + 2 THEN FirstChild(f[k + 1]) ELSE f[i]]
  <2>2. ASSUME NEW i \in 1 .. k + 2
        PROVE  g[i] = IF i = 1 THEN a ELSE FirstChild(g[i - 1])
    <3>1. CASE i = k + 2
      <4>1. i # 1 /\ i - 1 = k + 1 /\ k + 1 \in 1 .. k + 2 /\ k + 1 # k + 2 /\ k + 2 \in 1 .. k + 2
        BY <3>1
      <4>2. g[i - 1] = f[k + 1] /\ g[i] = FirstChild(f[k + 1])
        BY <3>1, <4>1, Zenon
      <4> QED
        BY <4>1, <4>2, Zenon
    <3>2. CASE i \in 1 .. k + 1
      <4>1. i # k + 2 /\ i \in 1 .. k + 2
        BY <3>2
      <4>2. i = 1 \/ (i - 1 \in 1 .. k + 2 /\ i - 1 # k + 2)
        BY <3>2
      <4>3. f[i] = IF i = 1 THEN a ELSE FirstChild(f[i - 1])
        BY <2>1, <3>2, Zenon DEF AreVectors
      <4>4. g[i] = f[i] /\ (i # 1 => g[i - 1] = f[i - 1])
        BY <4>1, <4>2, Zenon
      <4> QED
        BY <4>3, <4>4, Zenon
    <3> QED
      BY <3>1, <3>2
  <2>3. AreVectors(g, a, k + 2)
    BY <2>2, Zenon DEF AreVectors
  <2> QED
    BY <2>3
<1> HIDE DEF good
<1>3. n - 1 \in good
  BY <1>1, <1>2, UpTo
<1> QED
  BY <1>3 DEF good

LEMMA VectorFacts ==
    ASSUME NEW d \in Dimension, d > 0, NEW a \in Arrays[d]
    PROVE  /\ DOMAIN FirstVectors(d, a) = 1 .. d
           /\ FirstVectors(d, a)[1] = a
           /\ \A n \in 1 .. d : FirstVectors(d, a)[n] \in Seq(Arrays[d - n])
           /\ \A n \in 1 .. d - 1 : FirstVectors(d, a)[n + 1] = FirstChild(FirstVectors(d, a)[n])
<1> DEFINE f == FirstVectors(d, a)
<1>0. d \in Nat /\ d \in Nat \ {0}
  BY ArrayAssumption
<1>1. AreVectors(f, a, d)
  <2>1. \E g : AreVectors(g, a, d)
    BY <1>0, VectorsExist
  <2> QED
    BY <2>1, Zenon DEF AreVectors, FirstVectors
<1> HIDE DEF f
<1>2. DOMAIN f = 1 .. d
  BY <1>1, Zenon DEF AreVectors
<1>3. f[1] = a /\ \A n \in 1 .. d - 1 : f[n + 1] = FirstChild(f[n])
  <2>1. \A n \in 1 .. d : f[n] = IF n = 1 THEN a ELSE FirstChild(f[n - 1])
    BY <1>1, Zenon DEF AreVectors
  <2>2. 1 \in 1 .. d /\ \A n \in 1 .. d - 1 : n + 1 \in 1 .. d /\ n + 1 # 1 /\ (n + 1) - 1 = n
    BY <1>0
  <2> QED
    BY <2>1, <2>2, Zenon
<1> DEFINE good == {n \in Nat : n < d => f[n + 1] \in Seq(Arrays[d - (n + 1)])}
<1>4. 0 \in good
  <2>1. Arrays[d - 0] \subseteq Seq(Arrays[d - (0 + 1)]) /\ d - 0 = d
    BY <1>0, ChildrenAre
  <2> QED
    BY <1>3, <2>1
<1>5. ASSUME NEW n \in 0 .. (d - 1) - 1, n \in good
      PROVE  n + 1 \in good
  <2>1. /\ n + 1 \in 1 .. d - 1 /\ n + 1 \in 0 .. d - 1 /\ n \in Nat /\ n + 1 \in Nat
        /\ (n + 1) + 1 = n + 2 /\ n < d
    BY <1>0
  <2>2. f[n + 1] \in Seq(Arrays[d - (n + 1)]) /\ f[n + 2] = FirstChild(f[n + 1])
    BY <1>3, <1>5, <2>1
  <2>3. Arrays[d - (n + 1)] \subseteq Seq(Arrays[d - (n + 2)])
    BY <2>1, ChildrenAre
  <2>4. FirstChild(f[n + 1]) \in Seq(Arrays[d - (n + 2)])
    <3>1. CASE f[n + 1] = << >>
      BY <3>1 DEF FirstChild
    <3>2. CASE f[n + 1] # << >>
      BY <2>2, <2>3, <3>2 DEF FirstChild
    <3> QED
      BY <3>1, <3>2
  <2> QED
    BY <2>1, <2>2, <2>4
<1>6. \A n \in 0 .. d - 1 : n \in good
  <2>1. d - 1 \in Nat
    BY <1>0
  <2> HIDE DEF good
  <2> QED
    BY <1>4, <1>5, <2>1, UpTo
<1>7. ASSUME NEW n \in 1 .. d
      PROVE  f[n] \in Seq(Arrays[d - n])
  <2>1. n - 1 \in 0 .. d - 1 /\ (n - 1) + 1 = n /\ n - 1 < d
    BY <1>0
  <2> QED
    BY <1>6, <2>1
<1> QED
  BY <1>2, <1>3, <1>7 DEF f

(* What each dimension holds, one array after another.                     *)
AreRows(f, a, n) == f = [i \in 1 .. n |-> IF i = 1 THEN a ELSE FlattenSeq(f[i - 1])]

LEMMA RowsExist ==
    ASSUME NEW a, NEW n \in Nat \ {0}
    PROVE  \E f : AreRows(f, a, n)
<1> DEFINE good == {k \in Nat : \E f : AreRows(f, a, k + 1)}
<1>1. 0 \in good
  <2>1. AreRows([i \in 1 .. 1 |-> a], a, 0 + 1)
    BY DEF AreRows
  <2> QED
    BY <2>1
<1>2. ASSUME NEW k \in 0 .. (n - 1) - 1, k \in good
      PROVE  k + 1 \in good
  <2>1. PICK f : AreRows(f, a, k + 1)
    BY <1>2
  <2> DEFINE g == [i \in 1 .. k + 2 |-> IF i = k + 2 THEN FlattenSeq(f[k + 1]) ELSE f[i]]
  <2>2. ASSUME NEW i \in 1 .. k + 2
        PROVE  g[i] = IF i = 1 THEN a ELSE FlattenSeq(g[i - 1])
    <3>1. CASE i = k + 2
      <4>1. i # 1 /\ i - 1 = k + 1 /\ k + 1 \in 1 .. k + 2 /\ k + 1 # k + 2 /\ k + 2 \in 1 .. k + 2
        BY <3>1
      <4>2. g[i - 1] = f[k + 1] /\ g[i] = FlattenSeq(f[k + 1])
        BY <3>1, <4>1, Zenon
      <4> QED
        BY <4>1, <4>2, Zenon
    <3>2. CASE i \in 1 .. k + 1
      <4>1. i # k + 2 /\ i \in 1 .. k + 2
        BY <3>2
      <4>2. i = 1 \/ (i - 1 \in 1 .. k + 2 /\ i - 1 # k + 2)
        BY <3>2
      <4>3. f[i] = IF i = 1 THEN a ELSE FlattenSeq(f[i - 1])
        BY <2>1, <3>2, Zenon DEF AreRows
      <4>4. g[i] = f[i] /\ (i # 1 => g[i - 1] = f[i - 1])
        BY <4>1, <4>2, Zenon
      <4> QED
        BY <4>3, <4>4, Zenon
    <3> QED
      BY <3>1, <3>2
  <2>3. AreRows(g, a, k + 2)
    BY <2>2, Zenon DEF AreRows
  <2> QED
    BY <2>3
<1> HIDE DEF good
<1>3. n - 1 \in good
  BY <1>1, <1>2, UpTo
<1> QED
  BY <1>3 DEF good

LEMMA RowFacts ==
    ASSUME NEW d \in Dimension, d > 0, NEW a \in Arrays[d]
    PROVE  /\ Rows(d, a)[1] = a
           /\ \A n \in 1 .. d : Rows(d, a)[n] \in Seq(Arrays[d - n])
           /\ \A n \in 1 .. d - 1 : Rows(d, a)[n + 1] = FlattenSeq(Rows(d, a)[n])
<1> DEFINE f == Rows(d, a)
<1>0. d \in Nat /\ d \in Nat \ {0}
  BY ArrayAssumption
<1>1. AreRows(f, a, d)
  <2>1. \E g : AreRows(g, a, d)
    BY <1>0, RowsExist
  <2> QED
    BY <2>1, Zenon DEF AreRows, Rows
<1> HIDE DEF f
<1>3. f[1] = a /\ \A n \in 1 .. d - 1 : f[n + 1] = FlattenSeq(f[n])
  <2>1. \A n \in 1 .. d : f[n] = IF n = 1 THEN a ELSE FlattenSeq(f[n - 1])
    BY <1>1, Zenon DEF AreRows
  <2>2. 1 \in 1 .. d /\ \A n \in 1 .. d - 1 : n + 1 \in 1 .. d /\ n + 1 # 1 /\ (n + 1) - 1 = n
    BY <1>0
  <2> QED
    BY <2>1, <2>2, Zenon
<1> DEFINE good == {n \in Nat : n < d => f[n + 1] \in Seq(Arrays[d - (n + 1)])}
<1>4. 0 \in good
  <2>1. Arrays[d - 0] \subseteq Seq(Arrays[d - (0 + 1)]) /\ d - 0 = d
    BY <1>0, ChildrenAre
  <2> QED
    BY <1>3, <2>1
<1>5. ASSUME NEW n \in 0 .. (d - 1) - 1, n \in good
      PROVE  n + 1 \in good
  <2>1. /\ n + 1 \in 1 .. d - 1 /\ n + 1 \in 0 .. d - 1 /\ n \in Nat /\ n + 1 \in Nat
        /\ (n + 1) + 1 = n + 2 /\ n < d
    BY <1>0
  <2>2. f[n + 1] \in Seq(Arrays[d - (n + 1)]) /\ f[n + 2] = FlattenSeq(f[n + 1])
    BY <1>3, <1>5, <2>1
  <2>3. Arrays[d - (n + 1)] \subseteq Seq(Arrays[d - (n + 2)])
    BY <2>1, ChildrenAre
  <2>4. f[n + 1] \in Seq(Seq(Arrays[d - (n + 2)]))
    BY <2>2, <2>3
  <2>5. FlattenSeq(f[n + 1]) \in Seq(Arrays[d - (n + 2)])
    BY <2>4, FlattenType
  <2> QED
    BY <2>1, <2>2, <2>5
<1>6. \A n \in 0 .. d - 1 : n \in good
  <2>1. d - 1 \in Nat
    BY <1>0
  <2> HIDE DEF good
  <2> QED
    BY <1>4, <1>5, <2>1, UpTo
<1>7. ASSUME NEW n \in 1 .. d
      PROVE  f[n] \in Seq(Arrays[d - n])
  <2>1. n - 1 \in 0 .. d - 1 /\ (n - 1) + 1 = n /\ n - 1 < d
    BY <1>0
  <2> QED
    BY <1>6, <2>1
<1> QED
  BY <1>3, <1>7 DEF f

-----------------------------------------------------------------------------
(* The sizes that are sent: one for each dimension, 1 for a value.         *)
LEMMA SizeFacts ==
    ASSUME NEW d \in Dimension, NEW a \in Arrays[d]
    PROVE  /\ Sizes(d, a) \in Seq(Nat) /\ Sizes(d, a) # << >>
           /\ d = 0 => Sizes(d, a) = << 1 >>
           /\ d > 0 => Len(Sizes(d, a)) = d /\ Sizes(d, a)[1] = Len(a)
<1>0. d \in Nat
  BY ArrayAssumption
<1>1. CASE d = 0
  BY <1>1 DEF Sizes
<1>2. CASE d > 0
  <2> DEFINE f == FirstVectors(d, a)
  <2>1. DOMAIN f = 1 .. d /\ f[1] = a /\ \A n \in 1 .. d : f[n] \in Seq(Arrays[d - n])
    BY <1>2, VectorFacts
  <2>2. Sizes(d, a) = [n \in 1 .. d |-> Len(f[n])]
    <3>1. d # 0 /\ DOMAIN f = 1 .. d
      BY <1>2, <2>1
    <3>2. Sizes(d, a) = [n \in DOMAIN f |-> Len(f[n])]
      BY <3>1, Zenon DEF Sizes, Lengths
    <3> QED
      BY <3>1, <3>2, Zenon
  <2>3. \A n \in 1 .. d : Len(f[n]) \in Nat
    BY <2>1
  <2> HIDE DEF f
  <2>4. Sizes(d, a) \in [1 .. d -> Nat]
    BY <2>2, <2>3
  <2>5. Sizes(d, a)[1] = Len(a)
    BY <1>0, <1>2, <2>1, <2>2
  <2> QED
    BY <1>0, <1>2, <2>4, <2>5
<1> QED
  BY <1>0, <1>1, <1>2

(* The check of the siblings lets every array pass.                        *)
LEMMA AllConsistent ==
    ASSUME NEW d, NEW a
    PROVE  Consistent(d, a)
BY DEF Consistent, Sibling

(* In a rectangular array a dimension holds as many as the sizes say.      *)
LEMMA RectangularRows ==
    ASSUME NEW d \in Dimension, d > 0, NEW a \in Arrays[d], HasShape(Sizes(d, a), a)
    PROVE  /\ \A n \in 1 .. d : Len(Rows(d, a)[n]) = Product(SubSeq(Sizes(d, a), 1, n))
           /\ \A n \in 1 .. d - 1 : \A i \in 1 .. Len(Rows(d, a)[n]) :
                 Len(Rows(d, a)[n][i]) = Sizes(d, a)[n + 1]
<1> DEFINE sizes == Sizes(d, a)
           rows == Rows(d, a)
<1>0. d \in Nat
  BY ArrayAssumption
<1>1. sizes \in Seq(Nat) /\ Len(sizes) = d /\ sizes[1] = Len(a)
  BY SizeFacts
<1>2. /\ rows[1] = a
      /\ \A n \in 1 .. d : rows[n] \in Seq(Arrays[d - n])
      /\ \A n \in 1 .. d - 1 : rows[n + 1] = FlattenSeq(rows[n])
  BY RowFacts
<1> DEFINE P(n) == Product(SubSeq(sizes, 1, n))
<1>3. /\ P(0) = 1
      /\ \A n \in 1 .. d : P(n) = P(n - 1) * sizes[n]
  BY <1>1, ProductFacts
<1>4. ASSUME NEW n \in 1 .. d - 1
      PROVE  \A i \in 1 .. Len(rows[n]) : Len(rows[n][i]) = sizes[n + 1]
  <2>1. n + 1 \in DOMAIN sizes /\ n + 1 # 1 /\ (n + 1) - 1 = n /\ DOMAIN rows[n] = 1 .. Len(rows[n])
    BY <1>0, <1>1, <1>2
  <2> QED
    BY <1>1, <2>1, Zenon DEF HasShape
<1> HIDE DEF sizes, rows, P
<1> DEFINE good == {n \in Nat : n < d => Len(rows[n + 1]) = P(n + 1)}
<1>5. 0 \in good
  <2>1. P(1) = P(0) * sizes[1] /\ sizes[1] \in Nat
    BY <1>0, <1>1, <1>3
  <2> QED
    BY <1>1, <1>2, <1>3, <2>1
<1>6. ASSUME NEW n \in 0 .. (d - 1) - 1, n \in good
      PROVE  n + 1 \in good
  <2>1. /\ n + 1 \in 1 .. d - 1 /\ n + 2 \in 1 .. d /\ n < d /\ n \in Nat
        /\ (n + 2) - 1 = n + 1 /\ (n + 1) + 1 = n + 2 /\ n + 1 \in 0 .. d - 1 /\ n + 1 \in Nat
    BY <1>0
  <2>2. rows[n + 1] \in Seq(Seq(Arrays[d - (n + 2)]))
    <3>1. Arrays[d - (n + 1)] \subseteq Seq(Arrays[d - (n + 2)])
      BY <2>1, ChildrenAre
    <3>2. rows[n + 1] \in Seq(Arrays[d - (n + 1)])
      <4>1. n + 1 \in 1 .. d
        BY <1>0, <2>1
      <4> QED
        BY <1>2, <4>1, Zenon
    <3> QED
      BY <3>1, <3>2
  <2>3. sizes[n + 2] \in Nat /\ \A i \in 1 .. Len(rows[n + 1]) : Len(rows[n + 1][i]) = sizes[n + 2]
    <3>1. n + 2 \in 1 .. Len(sizes)
      BY <1>1, <2>1
    <3>2. \A i \in 1 .. Len(rows[n + 1]) : Len(rows[n + 1][i]) = sizes[(n + 1) + 1]
      BY <1>4, <2>1, Zenon
    <3>3. sizes[n + 2] \in Nat
      BY <1>1, <3>1
    <3> QED
      BY <2>1, <3>2, <3>3, Zenon
  <2>4. Len(FlattenSeq(rows[n + 1])) = Len(rows[n + 1]) * sizes[n + 2]
    BY <2>2, <2>3, FlattenEven
  <2>5. rows[n + 2] = FlattenSeq(rows[n + 1]) /\ Len(rows[n + 1]) = P(n + 1)
    BY <1>2, <1>6, <2>1
  <2>6. P(n + 2) = P(n + 1) * sizes[n + 2]
    BY <1>3, <2>1
  <2> QED
    BY <2>1, <2>4, <2>5, <2>6
<1>7. \A n \in 0 .. d - 1 : n \in good
  <2>1. d - 1 \in Nat
    BY <1>0
  <2> HIDE DEF good
  <2> QED
    BY <1>5, <1>6, <2>1, UpTo
<1>8. ASSUME NEW n \in 1 .. d
      PROVE  Len(rows[n]) = P(n)
  <2>1. n - 1 \in 0 .. d - 1 /\ (n - 1) + 1 = n /\ n - 1 < d
    BY <1>0
  <2> QED
    BY <1>7, <2>1
<1> QED
  BY <1>4, <1>8 DEF sizes, rows, P

(* flatten_data of a rectangular array: its elements and nothing else.     *)
LEMMA RectangularFlat ==
    ASSUME NEW d \in Dimension, NEW a \in Arrays[d],
           d > 0 => HasShape(Sizes(d, a), a)
    PROVE  /\ Room(d, a) = Product(Sizes(d, a)) /\ Product(Sizes(d, a)) \in Nat
           /\ Elements(d, a) \in Seq(Arrays[0]) /\ Len(Elements(d, a)) = Product(Sizes(d, a))
           /\ Fits(d, a) /\ Flat(d, a) = Elements(d, a)
<1> DEFINE sizes == Sizes(d, a)
<1>0. d \in Nat
  BY ArrayAssumption
<1>1. sizes \in Seq(Nat) /\ sizes # << >>
  BY SizeFacts
<1>2. /\ Product(sizes) = Product(SubSeq(sizes, 1, Len(sizes)))
      /\ Product(sizes) \in Nat
      /\ Len(sizes) = 1 => Product(sizes) = sizes[1]
  <2> HIDE DEF sizes
  <2>1. Len(sizes) \in Nat /\ Len(sizes) \in 0 .. Len(sizes)
    BY <1>1
  <2>2. Product(SubSeq(sizes, 1, 0)) = 1 /\ Product(SubSeq(sizes, 1, Len(sizes))) = Product(sizes)
    BY <1>1, ProductFacts
  <2>3. Product(SubSeq(sizes, 1, Len(sizes))) \in Nat
    BY <1>1, <2>1, ProductFacts
  <2>4. Len(sizes) = 1 => Product(SubSeq(sizes, 1, 1)) = Product(SubSeq(sizes, 1, 1 - 1)) * sizes[1]
    <3>1. Len(sizes) = 1 => 1 \in 1 .. Len(sizes)
      OBVIOUS
    <3> QED
      BY <1>1, <3>1, ProductFacts
  <2>5. Len(sizes) = 1 => sizes[1] \in Nat
    BY <1>1
  <2>6. Len(sizes) = 1 => Product(sizes) = Product(SubSeq(sizes, 1, 1))
    BY <2>2
  <2>7. Len(sizes) = 1 => Product(SubSeq(sizes, 1, 1)) = 1 * sizes[1]
    BY <2>2, <2>4
  <2> QED
    BY <2>2, <2>3, <2>5, <2>6, <2>7
<1>3. Room(d, a) = Product(sizes)
  BY <1>1 DEF Room, NumberOfElements
<1>4. Elements(d, a) \in Seq(Arrays[0]) /\ Len(Elements(d, a)) = Product(sizes)
  <2>1. CASE d = 0
    <3>1. sizes = << 1 >> /\ Elements(d, a) = << a >>
      BY <2>1, SizeFacts DEF Elements
    <3>2. Product(sizes) = 1
      BY <1>2, <3>1
    <3>3. a \in Arrays[0]
      BY <2>1, Zenon
    <3>4. << a >> \in Seq(Arrays[0]) /\ Len(<< a >>) = 1
      BY <3>3, Single
    <3> HIDE DEF sizes
    <3> QED
      BY <3>1, <3>2, <3>4
  <2>2. CASE d > 0
    <3>1. Elements(d, a) = Rows(d, a)[d] /\ Len(sizes) = d
      BY <2>2, SizeFacts DEF Elements
    <3>2. d \in 1 .. d /\ d - d = 0
      BY <1>0, <2>2
    <3>3. Rows(d, a)[d] \in Seq(Arrays[d - d])
      BY <2>2, <3>2, RowFacts
    <3>4. Len(Rows(d, a)[d]) = Product(SubSeq(sizes, 1, d))
      BY <2>2, <3>2, RectangularRows
    <3> QED
      BY <1>2, <3>1, <3>2, <3>3, <3>4
  <2> QED
    BY <1>0, <2>1, <2>2
<1>5. Flat(d, a) = Elements(d, a)
  <2> DEFINE e == Elements(d, a)
  <2>1. e \in Seq(Arrays[0]) /\ Len(e) = Product(sizes) /\ Room(d, a) = Product(sizes)
    BY <1>3, <1>4
  <2>2. Flat(d, a) = [i \in 1 .. Room(d, a) |-> IF i <= Len(e) THEN e[i] ELSE 0]
    BY Zenon DEF Flat
  <2> HIDE DEF e, sizes
  <2>3. Flat(d, a) = [i \in 1 .. Len(e) |-> e[i]]
    BY <1>2, <2>1, <2>2
  <2>4. [i \in 1 .. Len(e) |-> e[i]] = e
    BY <2>1
  <2> QED
    BY <2>3, <2>4 DEF e
<1>6. Fits(d, a)
  BY <1>2, <1>3, <1>4, AllConsistent DEF Fits
<1> QED
  BY <1>2, <1>3, <1>4, <1>5, <1>6

-----------------------------------------------------------------------------
(* resize and assign put the elements back: Cut undoes FlattenSeq.         *)
LEMMA CutFlatten ==
    ASSUME NEW S, NEW s \in Seq(Seq(S)), NEW w \in Nat, \A i \in 1 .. Len(s) : Len(s[i]) = w
    PROVE  Cut(FlattenSeq(s), Len(s), w) = s
<1> DEFINE flat == FlattenSeq(s)
<1>1. ASSUME NEW i \in 1 .. Len(s)
      PROVE  SubSeq(flat, (i - 1) * w + 1, i * w) = s[i]
  <2>1. flat \in Seq(S) /\ Len(flat) = Len(s) * w /\ \A k \in 1 .. w : flat[(i - 1) * w + k] = s[i][k]
    BY FlattenEven, FlattenType
  <2>2. s[i] \in Seq(S) /\ Len(s[i]) = w
    OBVIOUS
  <2> HIDE DEF flat
  <2> DEFINE m == (i - 1) * w
             l == Len(s) * w
  <2>3. m \in Nat /\ i * w = m + w /\ m + w <= l /\ l \in Nat
    <3>1. i \in Int /\ Len(s) \in Int /\ i >= 1 /\ i <= Len(s)
      OBVIOUS
    <3>2. i * w = (i - 1) * w + w
      BY <3>1
    <3>3. (i - 1) * w >= 0 /\ (i - 1) * w \in Int
      BY <3>1
    <3>4. i * w <= Len(s) * w /\ Len(s) * w \in Nat
      <4>1. Len(s) * w = i * w + (Len(s) - i) * w /\ (Len(s) - i) * w >= 0
        BY <3>1
      <4>2. i * w \in Int /\ Len(s) * w \in Int /\ i * w >= 0
        BY <3>1
      <4> QED
        BY <3>1, <4>1, <4>2
    <3> QED
      BY <3>2, <3>3, <3>4
  <2> HIDE DEF m, l
  <2>4. flat \in Seq(S) /\ Len(flat) = l /\ \A k \in 1 .. w : flat[m + k] = s[i][k]
    BY <2>1 DEF m, l
  <2>5. SubSeq(flat, m + 1, m + w) = s[i]
    <3>1. SubSeq(flat, m + 1, m + w) \in Seq(S) /\ Len(SubSeq(flat, m + 1, m + w)) = w
      BY <2>3, <2>4
    <3>2. ASSUME NEW k \in 1 .. w
          PROVE  SubSeq(flat, m + 1, m + w)[k] = s[i][k]
      <4>1. SubSeq(flat, m + 1, m + w)[k] = flat[m + k]
        BY <2>3, <2>4
      <4> QED
        BY <2>4, <4>1
    <3>3. \A k \in 1 .. Len(SubSeq(flat, m + 1, m + w)) : SubSeq(flat, m + 1, m + w)[k] = s[i][k]
      BY <3>1, <3>2, Zenon
    <3>4. Len(SubSeq(flat, m + 1, m + w)) = Len(s[i])
      BY <2>2, <3>1, Zenon
    <3> QED
      BY <2>2, <3>1, <3>3, <3>4, SameSequence
  <2> QED
    BY <2>3, <2>5 DEF m
<1>2. Cut(flat, Len(s), w) = [i \in 1 .. Len(s) |-> s[i]]
  BY <1>1, Zenon DEF Cut
<1> QED
  BY <1>2

(* What Nested builds, dimension by dimension.                             *)
AreBuilt(f, sizes, flat, d, n) ==
    f = [i \in 0 .. n |->
           IF i = 0 THEN SubSeq(flat, 1, Product(sizes))
           ELSE Cut(f[i - 1], Product(SubSeq(sizes, 1, d - i)), sizes[d - i + 1])]

LEMMA BuiltExist ==
    ASSUME NEW sizes, NEW flat, NEW d, NEW n \in Nat
    PROVE  \E f : AreBuilt(f, sizes, flat, d, n)
<1> DEFINE good == {k \in Nat : \E f : AreBuilt(f, sizes, flat, d, k)}
           inner == SubSeq(flat, 1, Product(sizes))
           Outer(rows, i) == Cut(rows, Product(SubSeq(sizes, 1, d - i)), sizes[d - i + 1])
<1>0. \A f, k : AreBuilt(f, sizes, flat, d, k) <=>
                   f = [i \in 0 .. k |-> IF i = 0 THEN inner ELSE Outer(f[i - 1], i)]
  BY Zenon DEF AreBuilt
<1> HIDE DEF inner, Outer
<1>1. 0 \in good
  <2> DEFINE g == [i \in 0 .. 0 |-> inner]
  <2>0. \A i \in 0 .. 0 : i = 0
    OBVIOUS
  <2>2. g = [i \in 0 .. 0 |-> IF i = 0 THEN inner ELSE Outer(g[i - 1], i)]
    BY <2>0, Zenon
  <2> HIDE DEF g
  <2>1. AreBuilt(g, sizes, flat, d, 0)
    BY <1>0, <2>2, Zenon
  <2> QED
    BY <2>1
<1>2. ASSUME NEW k \in 0 .. n - 1, k \in good
      PROVE  k + 1 \in good
  <2>1. PICK f : AreBuilt(f, sizes, flat, d, k)
    BY <1>2
  <2> DEFINE g == [i \in 0 .. k + 1 |-> IF i = k + 1 THEN Outer(f[k], i) ELSE f[i]]
  <2>2. ASSUME NEW i \in 0 .. k + 1
        PROVE  g[i] = IF i = 0 THEN inner ELSE Outer(g[i - 1], i)
    <3>1. CASE i = k + 1
      <4>1. i # 0 /\ i - 1 = k /\ k \in 0 .. k + 1 /\ k # k + 1 /\ k + 1 \in 0 .. k + 1
        BY <3>1
      <4>2. g[i - 1] = f[k] /\ g[i] = Outer(f[k], i)
        BY <3>1, <4>1, Zenon
      <4> QED
        BY <4>1, <4>2, Zenon
    <3>2. CASE i \in 0 .. k
      <4>1. i # k + 1 /\ i \in 0 .. k + 1
        BY <3>2
      <4>2. i = 0 \/ (i - 1 \in 0 .. k + 1 /\ i - 1 # k + 1)
        BY <3>2
      <4>3. f[i] = IF i = 0 THEN inner ELSE Outer(f[i - 1], i)
        BY <1>0, <2>1, <3>2, Zenon
      <4>4. g[i] = f[i] /\ (i # 0 => g[i - 1] = f[i - 1])
        BY <4>1, <4>2, Zenon
      <4> QED
        BY <4>3, <4>4, Zenon
    <3> QED
      BY <3>1, <3>2
  <2>3. AreBuilt(g, sizes, flat, d, k + 1)
    BY <1>0, <2>2, Zenon
  <2> QED
    BY <2>3
<1> HIDE DEF good
<1>3. n \in good
  BY <1>1, <1>2, UpTo
<1> QED
  BY <1>3 DEF good

(***************************************************************************)
(* A vector that starts with the elements of a rectangular array becomes   *)
(* that array.                                                             *)
(***************************************************************************)
LEMMA NestedElements ==
    ASSUME NEW d \in Dimension, d > 0, NEW a \in Arrays[d], HasShape(Sizes(d, a), a),
           NEW V, NEW flat \in Seq(V), Len(flat) >= Product(Sizes(d, a)),
           \A i \in 1 .. Product(Sizes(d, a)) : flat[i] = Elements(d, a)[i]
    PROVE  Nested(Sizes(d, a), flat) = a
<1> DEFINE sizes == Sizes(d, a)
           rows == Rows(d, a)
           P(n) == Product(SubSeq(sizes, 1, n))
<1>0. d \in Nat
  BY ArrayAssumption
<1>1. sizes \in Seq(Nat) /\ Len(sizes) = d
  BY SizeFacts
<1>2. /\ rows[1] = a
      /\ \A n \in 1 .. d : rows[n] \in Seq(Arrays[d - n])
      /\ \A n \in 1 .. d - 1 : rows[n + 1] = FlattenSeq(rows[n])
  BY RowFacts
<1>3. /\ \A n \in 1 .. d : Len(rows[n]) = P(n)
      /\ \A n \in 1 .. d - 1 : \A i \in 1 .. Len(rows[n]) : Len(rows[n][i]) = sizes[n + 1]
  BY RectangularRows
<1>4. Elements(d, a) = rows[d] /\ Product(sizes) \in Nat /\ Len(rows[d]) = Product(sizes)
  <2>1. d # 0
    BY <1>0
  <2>2. Elements(d, a) = rows[d]
    BY <2>1, Zenon DEF Elements
  <2>3. Product(sizes) \in Nat /\ Len(Elements(d, a)) = Product(sizes)
    BY RectangularFlat
  <2> QED
    BY <2>2, <2>3, Zenon
<1>5. PICK f : AreBuilt(f, sizes, flat, d, d - 1) /\ Nested(sizes, flat) = f[d - 1]
  <2> DEFINE f == CHOOSE g : g = [i \in 0 .. d - 1 |->
                        IF i = 0 THEN SubSeq(flat, 1, Product(sizes))
                        ELSE Cut(g[i - 1], Product(SubSeq(sizes, 1, d - i)), sizes[d - i + 1])]
  <2>1. d - 1 \in Nat
    BY <1>0
  <2> HIDE DEF sizes
  <2>2. \E g : AreBuilt(g, sizes, flat, d, d - 1)
    BY <2>1, BuiltExist
  <2>3. AreBuilt(f, sizes, flat, d, d - 1)
    BY <2>2, Zenon DEF AreBuilt
  <2>4. Nested(sizes, flat) = f[d - 1]
    BY <1>1, Zenon DEF Nested
  <2> QED
    BY <2>3, <2>4, Zenon
<1>6. f[0] = rows[d]
  <2>1. f[0] = SubSeq(flat, 1, Product(sizes))
    <3>1. 0 \in 0 .. d - 1
      BY <1>0
    <3> QED
      BY <1>5, <3>1, Zenon DEF AreBuilt
  <2>2. \A i \in 1 .. Product(sizes) : flat[i] = rows[d][i]
    BY <1>4
  <2>3. rows[d] \in Seq(Arrays[d - d])
    BY <1>0, <1>2
  <2> HIDE DEF sizes, rows
  <2>4. PICK m \in Nat : m = Product(sizes) /\ m <= Len(flat)
    BY <1>4 DEF sizes
  <2>5. PICK r : r = rows[d] /\ r \in Seq(Arrays[d - d]) /\ Len(r) = m
    BY <1>4, <2>3, <2>4
  <2>6. SubSeq(flat, 1, m) = [i \in 1 .. m |-> flat[i]]
    BY <2>4
  <2>7. [i \in 1 .. m |-> flat[i]] = [i \in 1 .. m |-> r[i]]
    BY <2>2, <2>4, <2>5
  <2>8. r = [i \in 1 .. m |-> r[i]]
    BY <2>5
  <2> QED
    BY <2>1, <2>4, <2>5, <2>6, <2>7, <2>8, Zenon
<1> HIDE DEF sizes, rows, P
<1> DEFINE good == {i \in Nat : i < d => f[i] = rows[d - i]}
<1>7. 0 \in good
  BY <1>0, <1>6
<1>8. ASSUME NEW i \in 0 .. (d - 1) - 1, i \in good
      PROVE  i + 1 \in good
  <2> DEFINE n == d - (i + 1)
  <2>1. /\ n \in 1 .. d - 1 /\ n \in 1 .. d /\ n \in 0 .. d - 1 /\ n + 1 = d - i /\ i < d /\ i \in Nat
        /\ i + 1 \in 0 .. d - 1 /\ i + 1 # 0 /\ (i + 1) - 1 = i /\ i + 1 \in Nat
        /\ n + 1 \in 1 .. d
    BY <1>0
  <2>2. f[i + 1] = Cut(f[i], P(n), sizes[n + 1])
    <3>1. f[i + 1] = Cut(f[(i + 1) - 1], Product(SubSeq(sizes, 1, d - (i + 1))), sizes[d - (i + 1) + 1])
      BY <1>5, <2>1, Zenon DEF AreBuilt
    <3> QED
      BY <2>1, <3>1, Zenon DEF P
  <2> HIDE DEF n
  <2>3. f[i] = FlattenSeq(rows[n])
    BY <1>2, <1>8, <2>1
  <2>4. rows[n] \in Seq(Seq(Arrays[d - (n + 1)]))
    <3>1. Arrays[d - n] \subseteq Seq(Arrays[d - (n + 1)])
      BY <2>1, ChildrenAre
    <3>2. rows[n] \in Seq(Arrays[d - n])
      BY <1>2, <2>1, Zenon
    <3> QED
      BY <3>1, <3>2
  <2>5. sizes[n + 1] \in Nat
    BY <1>1, <2>1
  <2>6. \A k \in 1 .. Len(rows[n]) : Len(rows[n][k]) = sizes[n + 1]
    BY <1>3, <2>1, Zenon
  <2>7. P(n) = Len(rows[n])
    BY <1>3, <2>1, Zenon
  <2>8. Cut(FlattenSeq(rows[n]), Len(rows[n]), sizes[n + 1]) = rows[n]
    BY <2>4, <2>5, <2>6, CutFlatten
  <2>9. f[i + 1] = rows[d - (i + 1)]
    BY <2>2, <2>3, <2>7, <2>8, Zenon DEF n
  <2> QED
    BY <2>1, <2>9
<1>9. d - 1 \in good
  <2>1. d - 1 \in Nat
    BY <1>0
  <2> HIDE DEF good
  <2>2. \A i \in 0 .. d - 1 : i \in good
    BY <1>7, <1>8, <2>1, UpTo
  <2> QED
    BY <2>1, <2>2
<1>10. f[d - 1] = rows[1]
  BY <1>0, <1>9
<1> QED
  BY <1>2, <1>5, <1>10, Zenon DEF sizes

-----------------------------------------------------------------------------
(* Elements as units of memory, and read from it again.                    *)
LEMMA BytesFacts ==
    ASSUME NEW t \in Type, NEW V, NEW values \in Seq(V)
    PROVE  /\ Width[t] \in Nat /\ Width[t] >= 1
           /\ Bytes(t, values) \in Seq({t} \X V \X Nat)
           /\ Len(Bytes(t, values)) = Len(values) * Width[t]
           /\ \A i \in 1 .. Len(values), k \in 1 .. Width[t] :
                 Bytes(t, values)[(i - 1) * Width[t] + k] = <<t, values[i], k>>
<1> DEFINE w == Width[t]
           unit == {t} \X V \X Nat
           pieces == [i \in DOMAIN values |-> [k \in 1 .. Width[t] |-> <<t, values[i], k>>]]
<1>1. w \in Nat /\ w >= 1
  BY SizeAssumption
<1>2. DOMAIN values = 1 .. Len(values) /\ Len(values) \in Nat /\ \A i \in 1 .. Len(values) : values[i] \in V
  OBVIOUS
<1>3. ASSUME NEW i \in 1 .. Len(values)
      PROVE  /\ pieces[i] = [k \in 1 .. w |-> <<t, values[i], k>>]
             /\ pieces[i] \in Seq(unit) /\ Len(pieces[i]) = w
  <2>1. pieces[i] = [k \in 1 .. w |-> <<t, values[i], k>>]
    BY <1>2
  <2>2. \A k \in 1 .. w : <<t, values[i], k>> \in unit
    BY <1>2
  <2> HIDE DEF unit, w, pieces
  <2>3. pieces[i] \in [1 .. w -> unit]
    BY <2>1, <2>2
  <2> QED
    BY <1>1, <2>1, <2>3
<1>4. pieces \in Seq(Seq(unit)) /\ Len(pieces) = Len(values)
  <2>1. DOMAIN pieces = 1 .. Len(values) /\ pieces = [i \in 1 .. Len(values) |-> pieces[i]]
    BY <1>2
  <2> HIDE DEF unit, w, pieces
  <2>2. pieces \in [1 .. Len(values) -> Seq(unit)]
    BY <1>3, <2>1
  <2> QED
    BY <1>2, <2>2
<1>5. Bytes(t, values) = FlattenSeq(pieces)
  BY DEF Bytes
<1> HIDE DEF unit, w, pieces
<1>6. /\ Len(FlattenSeq(pieces)) = Len(values) * w
      /\ \A i \in 1 .. Len(values), k \in 1 .. w : FlattenSeq(pieces)[(i - 1) * w + k] = pieces[i][k]
  <2>1. \A i \in 1 .. Len(pieces) : Len(pieces[i]) = w
    BY <1>3, <1>4, Zenon
  <2>2. /\ Len(FlattenSeq(pieces)) = Len(pieces) * w
        /\ \A i \in 1 .. Len(pieces), k \in 1 .. w : FlattenSeq(pieces)[(i - 1) * w + k] = pieces[i][k]
    BY <1>1, <1>4, <2>1, FlattenEven, Zenon
  <2> QED
    BY <1>4, <2>2, Zenon
<1>7. FlattenSeq(pieces) \in Seq(unit)
  BY <1>4, FlattenType
<1>8. \A i \in 1 .. Len(values), k \in 1 .. w : pieces[i][k] = <<t, values[i], k>>
  BY <1>3
<1> QED
  BY <1>1, <1>5, <1>6, <1>7, <1>8, Zenon DEF w, unit

LEMMA ValuesOfBytes ==
    ASSUME NEW t \in Type, NEW V, NEW values \in Seq(V), NEW n \in Nat
    PROVE  /\ Len(Values(t, n, Bytes(t, values))) = n
           /\ Values(t, n, Bytes(t, values)) = [i \in 1 .. n |-> Values(t, n, Bytes(t, values))[i]]
           /\ \A i \in 1 .. n : i <= Len(values) => Values(t, n, Bytes(t, values))[i] = values[i]
<1> DEFINE w == Width[t]
           units == Bytes(t, values)
           first == First(n * w, units)
           read == Values(t, n, units)
<1>1. /\ w \in Nat /\ w >= 1 /\ units \in Seq({t} \X V \X Nat) /\ Len(units) = Len(values) * w
      /\ \A i \in 1 .. Len(values), k \in 1 .. w : units[(i - 1) * w + k] = <<t, values[i], k>>
  BY BytesFacts
<1>2. read = [i \in 1 .. n |-> ValueAt(t, first, (i - 1) * w + 1)]
  BY DEF Values
<1> HIDE DEF units, w, read
<1>3. ASSUME NEW i \in 1 .. n, i <= Len(values)
      PROVE  ValueAt(t, first, (i - 1) * w + 1) = values[i]
  <2> DEFINE m == (i - 1) * w
  <2>1. m \in Nat /\ m + w <= n * w /\ m + w <= Len(values) * w /\ n * w \in Nat /\ Len(values) * w \in Nat
    <3>1. Len(values) \in Nat
      OBVIOUS
    <3>2. PICK l \in Nat : l = Len(values) /\ i <= l
      BY <1>3, <3>1
    <3>3. (i - 1) * w >= 0 /\ (i - 1) * w \in Int
      BY <1>1
    <3>4. n * w = (i - 1) * w + w + (n - i) * w /\ (n - i) * w >= 0
      BY <1>1
    <3>5. l * w = (i - 1) * w + w + (l - i) * w /\ (l - i) * w >= 0
      BY <1>1, <3>2
    <3>6. n * w \in Int /\ l * w \in Int /\ (n - i) * w \in Int /\ (l - i) * w \in Int
      BY <1>1, <3>2
    <3> QED
      BY <1>1, <3>2, <3>3, <3>4, <3>5, <3>6
  <2>2. i \in 1 .. Len(values)
    BY <1>3
  <2>3. \A k \in 1 .. w : units[m + k] = <<t, values[i], k>>
    BY <1>1, <2>2
  <2> HIDE DEF m
  <2>4. ASSUME NEW k \in 1 .. w
        PROVE  first[m + k] = <<t, values[i], k>>
    <3>1. m + k \in 1 .. n * w /\ m + k <= Len(units)
      BY <1>1, <2>1
    <3>2. first[m + k] = units[m + k]
      BY <3>1 DEF First
    <3> QED
      BY <2>3, <3>2
  <2> HIDE DEF first
  <2>5. first[m + 1][2] = values[i]
    <3>1. first[m + 1] = <<t, values[i], 1>>
      BY <1>1, <2>4
    <3> QED
      BY <3>1
  <2>6. \A k \in 1 .. w : (m + 1) + k - 1 = m + k
    BY <1>1, <2>1
  <2>7. \A k \in 1 .. Width[t] : first[(m + 1) + k - 1] = <<t, values[i], k>>
    BY <2>4, <2>6, Zenon DEF w
  <2>8. ValueAt(t, first, m + 1) = values[i]
    BY <2>5, <2>7, Zenon DEF ValueAt
  <2> QED
    BY <2>8 DEF m
<1> HIDE DEF first
<1>4. \A i \in 1 .. n : i <= Len(values) => read[i] = values[i]
  BY <1>2, <1>3, Zenon
<1>5. read = [i \in 1 .. n |-> read[i]] /\ Len(read) = n
  BY <1>2
<1> QED
  BY <1>4, <1>5, Zenon DEF read, units

-----------------------------------------------------------------------------
LEMMA Behind ==
    ASSUME NEW m \in Nat, NEW n \in Nat
    PROVE  m <= m + n /\ m + n \in Nat /\ \A k \in 1 .. n : m + k \in 1 .. m + n
  OBVIOUS

LEMMA Counted ==
    ASSUME NEW a \in Nat, NEW l \in Nat, NEW k \in a .. (a + l) - 1
    PROVE  k - a + 1 \in 1 .. l /\ k = a + (k - a + 1) - 1
  OBVIOUS

(* Where each piece is in the text that they make.                         *)
LEMMA FlattenPlaces ==
    ASSUME NEW S, NEW s \in Seq(Seq(S)), s # << >>
    PROVE  \E at \in [1 .. Len(s) + 1 -> Nat] :
              /\ at[1] = 0 /\ at[Len(s) + 1] = Len(FlattenSeq(s))
              /\ \A i \in 1 .. Len(s) :
                    /\ at[i + 1] = at[i] + Len(s[i]) /\ at[i + 1] <= Len(FlattenSeq(s))
                    /\ \A k \in 1 .. Len(s[i]) : FlattenSeq(s)[at[i] + k] = s[i][k]
<1> DEFINE n == Len(s)
           flat == FlattenSeq(s)
           Prefix(g) == Len(g) <= Len(flat) /\ \A k \in 1 .. Len(g) : flat[k] = g[k]
<1>0. n \in Nat /\ n >= 1 /\ \A i \in 1 .. n : s[i] \in Seq(S)
  OBVIOUS
<1>1. PICK f \in [1 .. n -> Seq(S)] :
         f[1] = s[1] /\ (\A i \in 2 .. n : f[i] = f[i - 1] \o s[i]) /\ flat = f[n]
  BY Flattened
<1>2. flat \in Seq(S)
  BY FlattenType
<1> HIDE DEF n, flat
<1>3. ASSUME NEW i \in 1 .. n - 1
      PROVE  /\ Len(f[i + 1]) = Len(f[i]) + Len(s[i + 1])
             /\ \A k \in 1 .. Len(f[i]) : f[i + 1][k] = f[i][k]
             /\ \A k \in 1 .. Len(s[i + 1]) : f[i + 1][Len(f[i]) + k] = s[i + 1][k]
  <2>1. i + 1 \in 2 .. n /\ i + 1 \in 1 .. n /\ i \in 1 .. n /\ (i + 1) - 1 = i
    BY <1>0
  <2>2. f[i] \in Seq(S) /\ s[i + 1] \in Seq(S)
    BY <1>0, <2>1
  <2>3. f[i + 1] = f[i] \o s[i + 1]
    BY <1>1, <2>1, Zenon
  <2>4. PICK p, q : p = f[i] /\ q = s[i + 1]
    OBVIOUS
  <2>5. p \in Seq(S) /\ q \in Seq(S)
    BY <2>2, <2>4, Zenon
  <2>6. Len(p \o q) = Len(p) + Len(q) /\ \A k \in 1 .. Len(p) : (p \o q)[k] = p[k]
    BY <2>5, Joined, Zenon
  <2>7. ASSUME NEW k \in 1 .. Len(q)
        PROVE  (p \o q)[Len(p) + k] = q[k]
    BY <2>5
  <2> QED
    BY <2>3, <2>4, <2>6, <2>7, Zenon
<1>4. \A i \in 1 .. n : Prefix(f[i])
  <2> DEFINE good == {k \in Nat : k < n => Prefix(f[n - k])}
  <2>1. 0 \in good
    BY <1>0, <1>1
  <2>2. ASSUME NEW k \in 0 .. (n - 1) - 1, k \in good
        PROVE  k + 1 \in good
    <3>1. PICK i \in 1 .. n - 1 : n - k = i + 1 /\ n - (k + 1) = i
      <4>1. n - (k + 1) \in 1 .. n - 1 /\ n - k = (n - (k + 1)) + 1
        BY <1>0
      <4> QED
        BY <4>1
    <3>2. Prefix(f[i + 1])
      BY <1>0, <2>2, <3>1
    <3>3. Len(f[i]) \in Nat /\ Len(s[i + 1]) \in Nat /\ Len(flat) \in Nat
      BY <1>0, <1>2
    <3>4. Len(f[i]) <= Len(f[i + 1]) /\ Len(f[i]) <= Len(flat)
      <4>1. PICK l, m, t \in Nat : l = Len(f[i]) /\ m = Len(s[i + 1]) /\ t = Len(flat)
        BY <3>3
      <4>2. Len(f[i + 1]) = l + m /\ l + m <= t
        BY <1>3, <3>2, <4>1, Zenon
      <4>3. l <= l + m /\ l <= t
        BY <4>2
      <4> QED
        BY <4>1, <4>2, <4>3, Zenon
    <3>5. ASSUME NEW m \in 1 .. Len(f[i])
          PROVE  flat[m] = f[i][m]
      <4>1. m \in 1 .. Len(f[i + 1])
        <5>1. Len(f[i + 1]) \in Nat
          BY <1>3, <3>3
        <5> QED
          BY <3>3, <3>4, <5>1
      <4>2. f[i + 1][m] = f[i][m]
        BY <1>3, Zenon
      <4> QED
        BY <3>2, <4>1, <4>2, Zenon
    <3>6. Prefix(f[i])
      BY <3>4, <3>5, Zenon
    <3> QED
      BY <3>1, <3>6
  <2>3. \A k \in 0 .. n - 1 : k \in good
    <3>1. n - 1 \in Nat
      BY <1>0
    <3> HIDE DEF good
    <3> QED
      BY <2>1, <2>2, <3>1, UpTo
  <2>4. ASSUME NEW i \in 1 .. n
        PROVE  Prefix(f[i])
    <3>1. n - i \in 0 .. n - 1 /\ n - (n - i) = i /\ n - i < n
      BY <1>0
    <3>2. n - i \in good
      BY <2>3, <3>1, Zenon
    <3>3. Prefix(f[n - (n - i)])
      BY <3>1, <3>2, Zenon
    <3> QED
      BY <3>1, <3>3, Zenon
  <2> QED
    BY <2>4
<1> DEFINE at == [i \in 1 .. n + 1 |-> IF i = 1 THEN 0 ELSE Len(f[i - 1])]
<1>5. \A i \in 1 .. n : Len(f[i]) \in Nat
  OBVIOUS
<1>6. at \in [1 .. n + 1 -> Nat]
  BY <1>0, <1>5
<1>7. at[1] = 0 /\ \A i \in 1 .. n : at[i + 1] = Len(f[i])
  BY <1>0
<1> HIDE DEF at
<1>8. ASSUME NEW i \in 1 .. n
      PROVE  /\ at[i + 1] = at[i] + Len(s[i]) /\ at[i + 1] <= Len(flat)
             /\ \A k \in 1 .. Len(s[i]) : flat[at[i] + k] = s[i][k]
  <2>1. CASE i = 1
    <3>1. at[1] = 0 /\ at[i + 1] = Len(f[1]) /\ f[1] = s[i] /\ s[i] \in Seq(S)
      BY <1>0, <1>1, <1>7, <2>1
    <3>2. Prefix(s[i])
      BY <1>4, <2>1, <3>1, Zenon
    <3> QED
      BY <2>1, <3>1, <3>2
  <2>2. CASE i # 1
    <3>1. PICK j \in 1 .. n - 1 : i = j + 1
      <4>1. i - 1 \in 1 .. n - 1 /\ i = (i - 1) + 1
        BY <1>0, <2>2
      <4> QED
        BY <4>1
    <3>2. at[i] = Len(f[j]) /\ at[i + 1] = Len(f[i])
      BY <1>0, <1>7, <3>1
    <3>3. /\ Len(f[i]) = Len(f[j]) + Len(s[i])
          /\ \A k \in 1 .. Len(s[i]) : f[i][Len(f[j]) + k] = s[i][k]
      BY <1>3, <3>1, Zenon
    <3>4. Prefix(f[i])
      BY <1>4
    <3>5. Len(f[j]) \in Nat /\ Len(s[i]) \in Nat
      BY <1>0, <1>5
    <3>6. ASSUME NEW k \in 1 .. Len(s[i])
          PROVE  flat[at[i] + k] = s[i][k]
      <4>1. Len(f[i]) = Len(f[j]) + Len(s[i])
        BY <3>3, Zenon
      <4>2. Len(f[j]) + k \in 1 .. Len(f[i])
        BY <3>5, <4>1, Behind, Zenon
      <4> QED
        BY <3>2, <3>3, <3>4, <4>2, Zenon
    <3> QED
      BY <3>2, <3>3, <3>4, <3>6, Zenon
  <2> QED
    BY <2>1, <2>2
<1>9. at[n + 1] = Len(flat)
  BY <1>0, <1>1, <1>7
<1> QED
  BY <1>6, <1>7, <1>8, <1>9, Zenon DEF n, flat

LEMMA Part ==
    ASSUME NEW S, NEW s \in Seq(S), NEW a \in Nat \ {0}, NEW n \in Nat, a + n - 1 <= Len(s)
    PROVE  /\ SubSeq(s, a, a + n - 1) \in Seq(S) /\ Len(SubSeq(s, a, a + n - 1)) = n
           /\ \A m \in 1 .. n : SubSeq(s, a, a + n - 1)[m] = s[a + m - 1]
  OBVIOUS

LEMMA Tails ==
    ASSUME NEW S, NEW s \in Seq(S), s # << >>
    PROVE  /\ SubSeq(s, 1, Len(s)) = s
           /\ << s[Len(s)] >> \o << >> = SubSeq(s, Len(s), Len(s))
           /\ \A i \in 1 .. Len(s) - 1 :
                 << s[i] >> \o SubSeq(s, i + 1, Len(s)) = SubSeq(s, i, Len(s))
  OBVIOUS

(***************************************************************************)
(* Pieces without the character, none of them empty, joined by it, are     *)
(* what split_string gives back.                                           *)
(***************************************************************************)
Join(parts, char) ==
    FlattenSeq([i \in 1 .. Len(parts) |-> (IF i > 1 THEN << char >> ELSE << >>) \o parts[i]])

LEMMA JoinSplit ==
    ASSUME NEW S, NEW char \in S, NEW parts \in Seq(Seq(S)), parts # << >>,
           \A i \in 1 .. Len(parts) : Len(parts[i]) > 0,
           \A i \in 1 .. Len(parts) : \A k \in 1 .. Len(parts[i]) : parts[i][k] # char
    PROVE  /\ SplitString(Join(parts, char), char) = parts
           /\ Join(parts, char) \in Seq(S) /\ Join(parts, char) # << >>
<1> DEFINE n == Len(parts)
           text == Join(parts, char)
           s == [i \in 1 .. n |-> (IF i > 1 THEN << char >> ELSE << >>) \o parts[i]]
           mark(i) == IF i > 1 THEN 1 ELSE 0
<1>0. /\ n \in Nat /\ n >= 1
      /\ \A i \in 1 .. n : parts[i] \in Seq(S) /\ Len(parts[i]) \in Nat /\ Len(parts[i]) > 0
      /\ \A i \in 1 .. n : \A k \in 1 .. Len(parts[i]) : parts[i][k] # char
  OBVIOUS
<1>t. /\ SubSeq(parts, 1, n) = parts
      /\ << parts[n] >> \o << >> = SubSeq(parts, n, n)
      /\ \A i \in 1 .. n - 1 : << parts[i] >> \o SubSeq(parts, i + 1, n) = SubSeq(parts, i, n)
  BY Tails
<1>1. ASSUME NEW i \in 1 .. n
      PROVE  /\ s[i] \in Seq(S) /\ Len(s[i]) = mark(i) + Len(parts[i])
             /\ \A k \in 1 .. Len(parts[i]) : s[i][mark(i) + k] = parts[i][k]
             /\ i > 1 => s[i][1] = char
  <2>1. PICK p \in Seq(S) : p = parts[i]
    BY <1>0
  <2>2. CASE i > 1
    <3>1. s[i] = << char >> \o p
      BY <2>1, <2>2
    <3>2. /\ << char >> \o p \in Seq(S) /\ Len(<< char >> \o p) = 1 + Len(p)
          /\ (<< char >> \o p)[1] = char
      OBVIOUS
    <3>3. \A k \in 1 .. Len(p) : (<< char >> \o p)[1 + k] = p[k]
      OBVIOUS
    <3>4. mark(i) = 1
      BY <2>2
    <3> QED
      BY <2>1, <2>2, <3>1, <3>2, <3>3, <3>4, Zenon
  <2>3. CASE ~ (i > 1)
    <3>1. s[i] = p
      BY <2>1, <2>3
    <3>2. mark(i) = 0
      BY <2>3
    <3>3. Len(p) = 0 + Len(p) /\ \A k \in 1 .. Len(p) : 0 + k = k
      OBVIOUS
    <3> QED
      BY <2>1, <2>3, <3>1, <3>2, <3>3, Zenon
  <2> QED
    BY <2>2, <2>3
<1>2. s \in Seq(Seq(S)) /\ Len(s) = n /\ s # << >>
  <2>1. s = [i \in 1 .. n |-> s[i]] /\ DOMAIN s = 1 .. n
    OBVIOUS
  <2> HIDE DEF s, n
  <2>2. s \in [1 .. n -> Seq(S)]
    BY <1>1, <2>1
  <2> QED
    BY <1>0, <2>2
<1>3. text = FlattenSeq(s)
  BY Zenon DEF Join
<1> HIDE DEF s, text, n
<1>4. PICK at \in [1 .. n + 1 -> Nat] :
        /\ at[1] = 0 /\ at[n + 1] = Len(text)
        /\ \A i \in 1 .. n :
              /\ at[i + 1] = at[i] + Len(s[i]) /\ at[i + 1] <= Len(text)
              /\ \A k \in 1 .. Len(s[i]) : text[at[i] + k] = s[i][k]
  <2>1. \E at \in [1 .. Len(s) + 1 -> Nat] :
           /\ at[1] = 0 /\ at[Len(s) + 1] = Len(FlattenSeq(s))
           /\ \A i \in 1 .. Len(s) :
                 /\ at[i + 1] = at[i] + Len(s[i]) /\ at[i + 1] <= Len(FlattenSeq(s))
                 /\ \A k \in 1 .. Len(s[i]) : FlattenSeq(s)[at[i] + k] = s[i][k]
    BY <1>2, FlattenPlaces, Zenon
  <2> QED
    BY <1>2, <1>3, <2>1, Zenon
<1>5. text \in Seq(S) /\ Len(text) \in Nat
  BY <1>2, <1>3, FlattenType
<1>6. PICK f : SplitString(text, char) = f[1] /\ IsSplit(f, text, char, 1)
  BY <1>5, SplitFacts
<1> DEFINE start(i) == at[i] + mark(i) + 1
<1>7. ASSUME NEW i \in 1 .. n
      PROVE  /\ start(i) \in 1 .. Len(text) /\ at[i + 1] = start(i) + Len(parts[i]) - 1
             /\ \A k \in 1 .. Len(parts[i]) : text[start(i) + k - 1] = parts[i][k]
             /\ i < n => start(i + 1) = at[i + 1] + 2 /\ text[at[i + 1] + 1] = char
             /\ i < n => at[i + 1] < Len(text)
             /\ i = n => at[i + 1] = Len(text)
  <2>1. /\ at[i] \in Nat /\ at[i + 1] \in Nat /\ mark(i) \in {0, 1} /\ Len(parts[i]) \in Nat
        /\ Len(parts[i]) > 0
    <3>1. i \in 1 .. n + 1 /\ i + 1 \in 1 .. n + 1
      BY <1>0
    <3>2. mark(i) \in {0, 1}
      OBVIOUS
    <3> QED
      BY <1>0, <3>1, <3>2
  <2>2. PICK l \in Nat : l = Len(parts[i]) /\ Len(s[i]) = mark(i) + l /\ l > 0
    BY <1>1, <2>1
  <2>3. at[i + 1] = at[i] + (mark(i) + l) /\ at[i + 1] <= Len(text)
    BY <1>4, <2>2, Zenon
  <2>4. start(i) \in 1 .. Len(text) /\ at[i + 1] = start(i) + l - 1
    <3>1. PICK a, b, m, e \in Nat : a = at[i] /\ b = at[i + 1] /\ m = mark(i) /\ e = Len(text)
      BY <1>5, <2>1
    <3>2. b = a + (m + l) /\ b <= e /\ l > 0
      BY <2>2, <2>3, <3>1, Zenon
    <3>3. a + m + 1 \in 1 .. e /\ b = a + m + 1 + l - 1
      BY <3>2
    <3> QED
      BY <3>1, <3>3, Zenon
  <2>5. ASSUME NEW k \in 1 .. l
        PROVE  text[start(i) + k - 1] = parts[i][k]
    <3>1. mark(i) + k \in 1 .. mark(i) + l /\ start(i) + k - 1 = at[i] + (mark(i) + k)
      BY <2>1
    <3>2. text[at[i] + (mark(i) + k)] = s[i][mark(i) + k]
      BY <1>4, <2>2, <3>1, Zenon
    <3>3. s[i][mark(i) + k] = parts[i][k]
      BY <1>1, <2>2, Zenon
    <3> QED
      BY <3>1, <3>2, <3>3, Zenon
  <2>6. ASSUME i < n
        PROVE  /\ start(i + 1) = at[i + 1] + 2 /\ text[at[i + 1] + 1] = char
               /\ at[i + 1] < Len(text)
    <3>1. i + 1 \in 1 .. n /\ i + 1 > 1 /\ mark(i + 1) = 1
      BY <1>0, <2>6
    <3>2. PICK m \in Nat : m = Len(parts[i + 1]) /\ m > 0 /\ Len(s[i + 1]) = 1 + m
      BY <1>0, <1>1, <3>1
    <3>3. /\ at[(i + 1) + 1] = at[i + 1] + (1 + m) /\ at[(i + 1) + 1] <= Len(text)
          /\ \A k \in 1 .. 1 + m : text[at[i + 1] + k] = s[i + 1][k]
      BY <1>4, <3>1, <3>2, Zenon
    <3>4. 1 \in 1 .. 1 + m /\ at[i + 1] < at[i + 1] + (1 + m)
      BY <2>1, <3>2
    <3>5. text[at[i + 1] + 1] = char
      BY <1>1, <3>1, <3>3, <3>4, Zenon
    <3>6. at[i + 1] < Len(text)
      BY <1>5, <2>1, <3>2, <3>3
    <3>7. start(i + 1) = at[i + 1] + 2
      BY <2>1, <3>1
    <3> QED
      BY <3>5, <3>6, <3>7
  <2> QED
    BY <1>4, <2>2, <2>4, <2>5, <2>6
<1> HIDE DEF start
<1>8. ASSUME NEW i \in 1 .. n
      PROVE  /\ Piece(text, char, start(i)) = << parts[i] >>
             /\ Rest(f, text, char, start(i)) = IF i < n THEN f[start(i + 1)] ELSE << >>
  <2> DEFINE j == at[i + 1] + 1
  <2>1. PICK a, l \in Nat : a = start(i) /\ l = Len(parts[i]) /\ l > 0
    <3>1. start(i) \in 1 .. Len(text)
      BY <1>7
    <3>2. start(i) \in Nat
      BY <1>5, <3>1
    <3> QED
      BY <1>0, <3>2, Zenon
  <2>2. /\ j = a + l /\ a \in 1 .. Len(text) + 1 /\ j \in a .. Len(text) + 1
        /\ j = Len(text) + 1 \/ text[j] = char
    <3>1. j = a + l /\ a \in 1 .. Len(text) /\ j <= Len(text) + 1
      <4>1. i + 1 \in 1 .. n + 1
        BY <1>0
      <4>2. at[i + 1] \in Nat /\ at[i + 1] <= Len(text)
        BY <1>4, <4>1
      <4>3. at[i + 1] = a + l - 1 /\ a \in 1 .. Len(text)
        BY <1>7, <2>1, Zenon
      <4>4. PICK b, e \in Nat : b = at[i + 1] /\ e = Len(text)
        BY <1>5, <4>2
      <4>5. b = a + l - 1 /\ b <= e
        BY <4>2, <4>3, <4>4, Zenon
      <4>6. b + 1 = a + l /\ b + 1 <= e + 1
        BY <4>5
      <4> QED
        BY <4>3, <4>4, <4>6, Zenon
    <3>2. j = Len(text) + 1 \/ text[j] = char
      <4>1. i < n \/ i = n
        BY <1>0
      <4> QED
        BY <1>7, <4>1
    <3> QED
      BY <1>5, <2>1, <3>1, <3>2
  <2>3. ASSUME NEW k \in a .. j - 1
        PROVE  text[k] # char
    <3>1. PICK m \in 1 .. l : k = a + m - 1
      <4>1. j = a + l
        BY <2>2
      <4> HIDE DEF j
      <4>2. k \in a .. (a + l) - 1
        BY <4>1, Zenon
      <4>3. k - a + 1 \in 1 .. l /\ k = a + (k - a + 1) - 1
        BY <4>2, Counted
      <4> QED
        BY <4>3
    <3>2. text[a + m - 1] = parts[i][m]
      BY <1>7, <2>1, Zenon
    <3>3. parts[i][m] # char
      BY <1>0, <2>1, Zenon
    <3> QED
      BY <3>1, <3>2, <3>3, Zenon
  <2> HIDE DEF j
  <2>4. NextOf(text, char, a) = j
    BY <1>5, <2>2, <2>3, NextIs
  <2>5. SubSeq(text, a, j - 1) = parts[i]
    <3>1. j - 1 = a + l - 1 /\ a # 0 /\ a + l - 1 <= Len(text)
      <4>1. PICK e \in Nat : e = Len(text)
        BY <1>5
      <4>2. j = a + l /\ a \in 1 .. e + 1 /\ j \in a .. e + 1
        BY <2>2, <4>1, Zenon
      <4>3. j - 1 = a + l - 1 /\ a # 0 /\ a + l - 1 <= e
        BY <2>1, <4>2
      <4> QED
        BY <4>1, <4>3, Zenon
    <3>2. /\ SubSeq(text, a, j - 1) \in Seq(S) /\ Len(SubSeq(text, a, j - 1)) = l
          /\ \A m \in 1 .. l : SubSeq(text, a, j - 1)[m] = text[a + m - 1]
      <4>1. a \in Nat \ {0}
        BY <3>1
      <4>2. /\ SubSeq(text, a, a + l - 1) \in Seq(S) /\ Len(SubSeq(text, a, a + l - 1)) = l
            /\ \A m \in 1 .. l : SubSeq(text, a, a + l - 1)[m] = text[a + m - 1]
        BY <1>5, <3>1, <4>1, Part
      <4> QED
        BY <3>1, <4>2, Zenon
    <3>3. \A m \in 1 .. l : text[a + m - 1] = parts[i][m]
      BY <1>7, <2>1, Zenon
    <3>4. parts[i] \in Seq(S)
      BY <1>0
    <3>5. \A m \in 1 .. l : SubSeq(text, a, j - 1)[m] = parts[i][m]
      BY <3>2, <3>3, Zenon
    <3>6. /\ Len(SubSeq(text, a, j - 1)) = Len(parts[i])
          /\ \A m \in 1 .. Len(SubSeq(text, a, j - 1)) : SubSeq(text, a, j - 1)[m] = parts[i][m]
      BY <2>1, <3>2, <3>5, Zenon
    <3> QED
      BY <3>2, <3>4, <3>6, SameSequence
  <2>6. j # a
    BY <2>1, <2>2
  <2>7. Piece(text, char, a) = << parts[i] >>
    BY <2>4, <2>5, <2>6, Zenon DEF Piece
  <2>8. Rest(f, text, char, a) = IF i < n THEN f[start(i + 1)] ELSE << >>
    <3>1. CASE i < n
      <4>1. ~ (j > Len(text)) /\ j + 1 = start(i + 1)
        <5>1. at[i + 1] \in Nat
          BY <1>0, <1>4
        <5>2. PICK b, e \in Nat : b = at[i + 1] /\ e = Len(text)
          BY <1>5, <5>1
        <5>3. start(i + 1) = b + 2 /\ b < e /\ j = b + 1
          BY <1>7, <3>1, <5>2, Zenon DEF j
        <5>4. ~ (b + 1 > e) /\ (b + 1) + 1 = b + 2
          BY <5>3
        <5> QED
          BY <5>2, <5>3, <5>4, Zenon
      <4> QED
        BY <2>4, <3>1, <4>1, Zenon DEF Rest
    <3>2. CASE i = n
      <4>1. j > Len(text)
        <5>1. j = Len(text) + 1
          BY <1>7, <3>2, Zenon DEF j
        <5> QED
          BY <1>5, <5>1
      <4>2. ~ (i < n)
        BY <1>0, <3>2
      <4> QED
        BY <2>4, <4>1, <4>2, Zenon DEF Rest
    <3> QED
      BY <1>0, <3>1, <3>2
  <2> QED
    BY <2>1, <2>7, <2>8, Zenon
<1>9. ASSUME NEW i \in 1 .. n
      PROVE  f[start(i)] = << parts[i] >> \o (IF i < n THEN f[start(i + 1)] ELSE << >>)
  <2>1. start(i) \in 1 .. Len(text) + 1 /\ ~ (start(i) > Len(text))
    BY <1>5, <1>7
  <2>2. f[start(i)] = Piece(text, char, start(i)) \o Rest(f, text, char, start(i))
    BY <1>6, <2>1, Zenon DEF IsSplit
  <2> QED
    BY <1>8, <2>2, Zenon
<1> DEFINE good == {k \in Nat : k < n => f[start(n - k)] = SubSeq(parts, n - k, n)}
<1>10. 0 \in good
  <2>1. f[start(n)] = << parts[n] >> \o << >>
    <3>1. n \in 1 .. n /\ ~ (n < n)
      BY <1>0
    <3> QED
      BY <1>9, <3>1, Zenon
  <2>2. n - 0 = n
    BY <1>0
  <2> QED
    BY <1>t, <2>1, <2>2
<1>11. ASSUME NEW k \in 0 .. (n - 1) - 1, k \in good
       PROVE  k + 1 \in good
  <2>1. PICK i \in 1 .. n - 1 : n - k = i + 1 /\ n - (k + 1) = i
    <3>1. n - (k + 1) \in 1 .. n - 1 /\ n - k = (n - (k + 1)) + 1
      BY <1>0
    <3> QED
      BY <3>1
  <2>2. f[start(i + 1)] = SubSeq(parts, i + 1, n)
    BY <1>0, <1>11, <2>1
  <2>3. i \in 1 .. n /\ i < n
    BY <1>0
  <2>4. f[start(i)] = << parts[i] >> \o SubSeq(parts, i + 1, n)
    BY <1>9, <2>2, <2>3, Zenon
  <2>5. f[start(n - (k + 1))] = SubSeq(parts, n - (k + 1), n) /\ k + 1 \in Nat
    <3>1. << parts[i] >> \o SubSeq(parts, i + 1, n) = SubSeq(parts, i, n)
      BY <1>t, Zenon
    <3>2. k + 1 \in Nat
      OBVIOUS
    <3> QED
      BY <2>1, <2>4, <3>1, <3>2, Zenon
  <2> QED
    BY <2>5, Zenon
<1>12. n - 1 \in good
  <2>1. n - 1 \in Nat
    BY <1>0
  <2> HIDE DEF good
  <2>2. \A k \in 0 .. n - 1 : k \in good
    BY <1>10, <1>11, <2>1, UpTo
  <2> QED
    BY <2>1, <2>2
<1>13. f[1] = parts
  <2>1. start(1) = 1
    BY <1>4 DEF start
  <2>2. n - (n - 1) = 1 /\ n - 1 < n
    BY <1>0
  <2>3. f[1] = SubSeq(parts, 1, n)
    BY <1>12, <2>1, <2>2
  <2> QED
    BY <1>t, <2>3, Zenon
<1>14. text # << >>
  <2>1. start(1) \in 1 .. Len(text)
    BY <1>0, <1>7
  <2> QED
    BY <2>1
<1> QED
  BY <1>5, <1>6, <1>13, <1>14, Zenon DEF text

-----------------------------------------------------------------------------
(* A number as a stream prints it, and as stoi reads it again.             *)
DigitChars == {"0", "1", "2", "3", "4", "5", "6", "7", "8", "9"}

LEMMA DigitFacts ==
    ASSUME NEW n \in 0 .. 9
    PROVE  Digits[n + 1] \in DigitChars /\ Digit(Digits[n + 1]) = n
<1>1. /\ Digits[0 + 1] = "0" /\ Digits[1 + 1] = "1" /\ Digits[2 + 1] = "2" /\ Digits[3 + 1] = "3"
      /\ Digits[4 + 1] = "4" /\ Digits[5 + 1] = "5" /\ Digits[6 + 1] = "6" /\ Digits[7 + 1] = "7"
      /\ Digits[8 + 1] = "8" /\ Digits[9 + 1] = "9"
  BY DEF Digits
<1>2. \A m \in 0 .. 9 : m \in {0, 1, 2, 3, 4, 5, 6, 7, 8, 9}
  OBVIOUS
<1>3. ASSUME NEW m \in 0 .. 9, Digits[m + 1] = Digits[n + 1]
      PROVE  m = n
  BY <1>1, <1>2, <1>3
<1>4. Digits[n + 1] \in DigitChars
  BY <1>1, <1>2 DEF DigitChars
<1>5. Digit(Digits[n + 1]) = n
  BY <1>3, Zenon DEF Digit
<1> QED
  BY <1>4, <1>5

IsValue(f, text, n) ==
    f = [i \in 0 .. n |-> IF i = 0 THEN 0 ELSE 10 * f[i - 1] + Digit(text[i])]

LEMMA ValueExists ==
    ASSUME NEW text, NEW n \in Nat
    PROVE  \E f : IsValue(f, text, n)
<1> DEFINE good == {k \in Nat : \E f : IsValue(f, text, k)}
<1>1. 0 \in good
  <2>1. IsValue([i \in 0 .. 0 |-> 0], text, 0)
    BY DEF IsValue
  <2> QED
    BY <2>1
<1>2. ASSUME NEW k \in 0 .. n - 1, k \in good
      PROVE  k + 1 \in good
  <2>1. PICK f : IsValue(f, text, k)
    BY <1>2
  <2> DEFINE g == [i \in 0 .. k + 1 |->
                     IF i = k + 1 THEN 10 * f[k] + Digit(text[i]) ELSE f[i]]
  <2>2. ASSUME NEW i \in 0 .. k + 1
        PROVE  g[i] = IF i = 0 THEN 0 ELSE 10 * g[i - 1] + Digit(text[i])
    <3>1. CASE i = k + 1
      <4>1. i # 0 /\ i - 1 = k /\ k \in 0 .. k + 1 /\ k # k + 1
        BY <3>1
      <4>2. g[i - 1] = f[k] /\ g[i] = 10 * f[k] + Digit(text[i])
        BY <3>1, <4>1, Zenon
      <4> QED
        BY <4>1, <4>2, Zenon
    <3>2. CASE i \in 0 .. k
      <4>1. i # k + 1
        BY <3>2
      <4>2. i = 0 \/ (i - 1 \in 0 .. k + 1 /\ i - 1 # k + 1)
        BY <3>2
      <4>3. f[i] = IF i = 0 THEN 0 ELSE 10 * f[i - 1] + Digit(text[i])
        BY <2>1, <3>2, Zenon DEF IsValue
      <4>4. g[i] = f[i] /\ (i # 0 => g[i - 1] = f[i - 1])
        BY <4>1, <4>2, Zenon
      <4> QED
        BY <4>3, <4>4, Zenon
    <3> QED
      BY <3>1, <3>2
  <2>3. IsValue(g, text, k + 1)
    BY <2>2, Zenon DEF IsValue
  <2> QED
    BY <2>3
<1> HIDE DEF good
<1>3. n \in good
  BY <1>1, <1>2, UpTo
<1> QED
  BY <1>3 DEF good

LEMMA ValueFacts ==
    ASSUME NEW text, Len(text) \in Nat
    PROVE  \E f : Number(text) = f[Len(text)] /\ IsValue(f, text, Len(text))
<1> DEFINE f == CHOOSE g : g = [i \in 0 .. Len(text) |->
                                  IF i = 0 THEN 0 ELSE 10 * g[i - 1] + Digit(text[i])]
<1>1. Number(text) = f[Len(text)]
  BY Zenon DEF Number
<1>2. IsValue(f, text, Len(text))
  <2>1. \E g : IsValue(g, text, Len(text))
    BY ValueExists
  <2> QED
    BY <2>1, Zenon DEF IsValue
<1> QED
  BY <1>1, <1>2, Zenon

(* One more digit.                                                         *)
LEMMA NumberFacts ==
    ASSUME NEW S, NEW char \in S
    PROVE  /\ Number(<< char >>) = 10 * 0 + Digit(char)
           /\ \A text \in Seq(S) : Number(Append(text, char)) = 10 * Number(text) + Digit(char)
<1>1. Number(<< char >>) = 10 * 0 + Digit(char)
  <2>1. PICK f : Number(<< char >>) = f[Len(<< char >>)] /\ IsValue(f, << char >>, Len(<< char >>))
    BY ValueFacts, Single
  <2>2. Len(<< char >>) = 1 /\ << char >>[1] = char
    OBVIOUS
  <2>3. f = [i \in 0 .. 1 |-> IF i = 0 THEN 0 ELSE 10 * f[i - 1] + Digit(<< char >>[i])]
    BY <2>1, <2>2, Zenon DEF IsValue
  <2>4. 0 \in 0 .. 1 /\ 1 \in 0 .. 1 /\ 1 # 0 /\ 1 - 1 = 0
    OBVIOUS
  <2>5. f[0] = 0 /\ f[1] = 10 * f[0] + Digit(char)
    BY <2>2, <2>3, <2>4, Zenon
  <2> QED
    BY <2>1, <2>2, <2>5, Zenon
<1>2. ASSUME NEW text \in Seq(S)
      PROVE  Number(Append(text, char)) = 10 * Number(text) + Digit(char)
  <2> DEFINE n == Len(text)
             longer == Append(text, char)
  <2>1. /\ n \in Nat /\ Len(longer) = n + 1 /\ longer[n + 1] = char
        /\ \A i \in 1 .. n : longer[i] = text[i]
    OBVIOUS
  <2>2. PICK f : Number(text) = f[n] /\ IsValue(f, text, n)
    BY <2>1, ValueFacts
  <2> HIDE DEF n, longer
  <2>3. PICK g : Number(longer) = g[n + 1] /\ IsValue(g, longer, n + 1)
    <3>1. Len(longer) \in Nat
      BY <2>1
    <3> QED
      BY <2>1, <3>1, ValueFacts
  <2> DEFINE good == {i \in Nat : i <= n => g[i] = f[i]}
  <2>4. 0 \in good
    BY <2>1, <2>2, <2>3 DEF IsValue
  <2>5. ASSUME NEW i \in 0 .. n - 1, i \in good
        PROVE  i + 1 \in good
    <3>1. i + 1 \in 0 .. n + 1 /\ i + 1 \in 0 .. n /\ i + 1 # 0 /\ (i + 1) - 1 = i /\ i <= n
      BY <2>1
    <3>2. g[i + 1] = 10 * g[i] + Digit(longer[i + 1]) /\ f[i + 1] = 10 * f[i] + Digit(text[i + 1])
      BY <2>2, <2>3, <3>1, Zenon DEF IsValue
    <3>3. g[i] = f[i]
      BY <2>5, <3>1, Zenon
    <3>4. longer[i + 1] = text[i + 1]
      BY <2>1, <3>1
    <3>5. g[i + 1] = f[i + 1] /\ i + 1 \in Nat
      BY <3>1, <3>2, <3>3, <3>4
    <3> QED
      BY <3>5, Zenon
  <2>6. g[n] = f[n]
    <3> HIDE DEF good
    <3>1. \A i \in 0 .. n : i \in good
      BY <2>1, <2>4, <2>5, UpTo
    <3>2. n \in good
      BY <2>1, <3>1
    <3> QED
      BY <2>1, <3>2 DEF good
  <2>7. n + 1 \in 0 .. n + 1 /\ n + 1 # 0 /\ (n + 1) - 1 = n
    BY <2>1
  <2>8. g[n + 1] = 10 * g[n] + Digit(longer[n + 1])
    BY <2>3, <2>7, Zenon DEF IsValue
  <2> QED
    BY <2>1, <2>2, <2>3, <2>6, <2>8, Zenon DEF longer
<1> QED
  BY <1>1, <1>2, Zenon

IsText(f, n) ==
    f = [i \in 0 .. n |-> IF i < 10 THEN << Digits[i + 1] >>
                          ELSE Append(f[i \div 10], Digits[(i % 10) + 1])]

LEMMA TextExists ==
    ASSUME NEW n \in Nat
    PROVE  \E f : IsText(f, n)
<1> DEFINE good == {k \in Nat : \E f : IsText(f, k)}
<1>1. 0 \in good
  <2>1. IsText([i \in 0 .. 0 |-> << Digits[0 + 1] >>], 0)
    BY DEF IsText
  <2> QED
    BY <2>1
<1>2. ASSUME NEW k \in 0 .. n - 1, k \in good
      PROVE  k + 1 \in good
  <2>1. PICK f : IsText(f, k)
    BY <1>2
  <2> DEFINE Of(h, i) == IF i < 10 THEN << Digits[i + 1] >>
                         ELSE Append(h[i \div 10], Digits[(i % 10) + 1])
             g == [i \in 0 .. k + 1 |-> IF i = k + 1 THEN Of(f, i) ELSE f[i]]
  <2>2. ASSUME NEW i \in 0 .. k + 1
        PROVE  Of(g, i) = Of(f, i)
    <3>1. i < 10 \/ (i \div 10 \in 0 .. k + 1 /\ i \div 10 # k + 1)
      OBVIOUS
    <3>2. i < 10 \/ g[i \div 10] = f[i \div 10]
      BY <3>1, Zenon
    <3> HIDE DEF g
    <3> QED
      BY <3>2, Zenon
  <2>3. ASSUME NEW i \in 0 .. k + 1
        PROVE  g[i] = Of(g, i)
    <3>1. CASE i = k + 1
      BY <2>2, <3>1, Zenon
    <3>2. CASE i # k + 1
      <4>1. i \in 0 .. k
        BY <3>2
      <4>2. f[i] = Of(f, i)
        BY <2>1, <4>1, Zenon DEF IsText
      <4>3. g[i] = f[i]
        BY <3>2, Zenon
      <4> HIDE DEF g
      <4> QED
        BY <2>2, <4>2, <4>3, Zenon
    <3> QED
      BY <3>1, <3>2
  <2>4. IsText(g, k + 1)
    BY <2>3, Zenon DEF IsText
  <2> QED
    BY <2>4
<1> HIDE DEF good
<1>3. n \in good
  BY <1>1, <1>2, UpTo
<1> QED
  BY <1>3 DEF good

LEMMA DecimalFacts ==
    ASSUME NEW n \in Nat
    PROVE  /\ Decimal(n) \in Seq(DigitChars) /\ Len(Decimal(n)) > 0
           /\ Number(Decimal(n)) = n
<1> DEFINE f == CHOOSE g : g = [i \in 0 .. n |->
                                  IF i < 10 THEN << Digits[i + 1] >>
                                  ELSE Append(g[i \div 10], Digits[(i % 10) + 1])]
           Right(i) == f[i] \in Seq(DigitChars) /\ Len(f[i]) > 0 /\ Number(f[i]) = i
           good == {k \in Nat : k <= n => \A i \in 0 .. k : Right(i)}
<1>1. Decimal(n) = f[n]
  BY Zenon DEF Decimal
<1>2. IsText(f, n)
  <2>1. \E g : IsText(g, n)
    BY TextExists
  <2> QED
    BY <2>1, Zenon DEF IsText
<1> HIDE DEF f
<1>3. ASSUME NEW i \in 0 .. n, i < 10
      PROVE  Right(i)
  <2>1. f[i] = << Digits[i + 1] >>
    BY <1>2, <1>3, Zenon DEF IsText
  <2>2. i \in 0 .. 9
    BY <1>3
  <2>3. Digits[i + 1] \in DigitChars /\ Digit(Digits[i + 1]) = i
    BY <2>2, DigitFacts
  <2>4. Number(f[i]) = 10 * 0 + i
    BY <2>1, <2>3, NumberFacts, Zenon
  <2>5. 10 * 0 + i = i
    OBVIOUS
  <2>6. f[i] \in Seq(DigitChars) /\ Len(f[i]) = 1
    BY <2>1, <2>3, Single, Zenon
  <2> QED
    BY <2>4, <2>5, <2>6
<1>4. ASSUME NEW i \in 0 .. n, ~ (i < 10), Right(i \div 10)
      PROVE  Right(i)
  <2>1. f[i] = Append(f[i \div 10], Digits[(i % 10) + 1])
    BY <1>2, <1>4, Zenon DEF IsText
  <2>2. i % 10 \in 0 .. 9
    OBVIOUS
  <2>3. Digits[(i % 10) + 1] \in DigitChars /\ Digit(Digits[(i % 10) + 1]) = i % 10
    BY <2>2, DigitFacts
  <2>4. PICK p, c : p = f[i \div 10] /\ c = Digits[(i % 10) + 1]
    OBVIOUS
  <2>5. /\ p \in Seq(DigitChars) /\ Len(p) > 0 /\ Number(p) = i \div 10
        /\ c \in DigitChars /\ Digit(c) = i % 10 /\ f[i] = Append(p, c)
    BY <1>4, <2>1, <2>3, <2>4, Zenon
  <2>6. Append(p, c) \in Seq(DigitChars) /\ Len(Append(p, c)) > 0
    <3>1. p \in Seq(DigitChars) /\ c \in DigitChars
      BY <2>5, Zenon
    <3> QED
      BY <3>1
  <2>7. Number(Append(p, c)) = 10 * (i \div 10) + (i % 10)
    <3>1. Number(Append(p, c)) = 10 * Number(p) + Digit(c)
      BY <2>5, NumberFacts, Zenon
    <3> QED
      BY <2>5, <3>1, Zenon
  <2>8. 10 * (i \div 10) + (i % 10) = i
    OBVIOUS
  <2> QED
    BY <2>5, <2>6, <2>7, <2>8, Zenon
<1>5. 0 \in good
  <2>1. Right(0)
    BY <1>3
  <2> HIDE DEF Right
  <2> QED
    BY <2>1
<1>6. ASSUME NEW k \in 0 .. n - 1, k \in good
      PROVE  k + 1 \in good
  <2>1. k <= n /\ k + 1 \in 0 .. n /\ k + 1 \in Nat
    OBVIOUS
  <2>2. \A i \in 0 .. k : Right(i)
    BY <1>6, <2>1, Zenon
  <2>3. Right(k + 1)
    <3>1. CASE k + 1 < 10
      BY <1>3, <2>1, <3>1, Zenon
    <3>2. CASE ~ (k + 1 < 10)
      <4>1. (k + 1) \div 10 \in 0 .. k
        BY <3>2
      <4>2. Right((k + 1) \div 10)
        BY <2>2, <4>1, Zenon
      <4> QED
        BY <1>4, <2>1, <3>2, <4>2, Zenon
    <3> QED
      BY <3>1, <3>2, Zenon
  <2> HIDE DEF Right
  <2> QED
    BY <2>1, <2>2, <2>3
<1>7. Right(n)
  <2> HIDE DEF good
  <2>1. \A k \in 0 .. n : k \in good
    BY <1>5, <1>6, UpTo
  <2>2. n \in good /\ n \in 0 .. n /\ n <= n
    BY <2>1
  <2> HIDE DEF Right
  <2> QED
    BY <2>2, Zenon DEF good
<1> QED
  BY <1>1, <1>7

LEMMA Row ==
    ASSUME NEW S, NEW n \in Nat \ {0}, NEW f \in [1 .. n -> S]
    PROVE  f \in Seq(S) /\ Len(f) = n /\ f # << >>
  OBVIOUS

LEMMA Entries ==
    ASSUME NEW S, NEW s \in Seq(S)
    PROVE  DOMAIN s = 1 .. Len(s) /\ \A i \in 1 .. Len(s) : s[i] \in S
  OBVIOUS

LEMMA Wider ==
    ASSUME NEW S, NEW T, S \subseteq T, NEW s \in Seq(S)
    PROVE  s \in Seq(T)
  OBVIOUS

(* Two texts and a mark between them.                                      *)
LEMMA JoinTwo ==
    ASSUME NEW S, NEW char \in S, NEW p \in Seq(S), NEW q \in Seq(S)
    PROVE  Join(<< p, q >>, char) = p \o << char >> \o q
<1> DEFINE pieces == [i \in 1 .. Len(<< p, q >>) |->
                        (IF i > 1 THEN << char >> ELSE << >>) \o << p, q >>[i]]
<1>1. Len(<< p, q >>) = 2 /\ 1 \in 1 .. 2 /\ 2 \in 1 .. 2 /\ 2 \in 2 .. 2 /\ 2 - 1 = 1
      /\ << p, q >>[1] = p /\ << p, q >>[2] = q
  OBVIOUS
<1>2. /\ pieces[1] = << >> \o p /\ pieces[2] = << char >> \o q
      /\ pieces = [i \in 1 .. 2 |-> pieces[i]]
  BY <1>1
<1>3. << >> \o p = p /\ << char >> \o q \in Seq(S)
  OBVIOUS
<1>4. Join(<< p, q >>, char) = FlattenSeq(pieces)
  BY Zenon DEF Join
<1> HIDE DEF pieces
<1>5. pieces \in Seq(Seq(S)) /\ Len(pieces) = 2 /\ pieces # << >>
  <2>1. \A i \in 1 .. 2 : pieces[i] \in Seq(S)
    <3>1. pieces[1] \in Seq(S) /\ pieces[2] \in Seq(S)
      BY <1>2, <1>3, Zenon
    <3> QED
      BY <3>1
  <2>2. pieces \in [1 .. 2 -> Seq(S)]
    BY <1>2, <2>1
  <2>3. 2 \in Nat \ {0}
    OBVIOUS
  <2> QED
    BY <2>2, <2>3, Row, Zenon
<1>6. PICK f : f[1] = pieces[1] /\ f[2] = f[2 - 1] \o pieces[2] /\ FlattenSeq(pieces) = f[2]
  <2>1. PICK f \in [1 .. Len(pieces) -> Seq(S)] :
           /\ f[1] = pieces[1]
           /\ \A i \in 2 .. Len(pieces) : f[i] = f[i - 1] \o pieces[i]
           /\ FlattenSeq(pieces) = f[Len(pieces)]
    BY <1>5, Flattened
  <2> QED
    BY <1>1, <1>5, <2>1, Zenon
<1>7. FlattenSeq(pieces) = p \o (<< char >> \o q)
  BY <1>1, <1>2, <1>3, <1>6, Zenon
<1>8. p \o (<< char >> \o q) = p \o << char >> \o q
  OBVIOUS
<1> QED
  BY <1>4, <1>7, <1>8, Zenon

(* The text of a path and of sizes, and what from_string_view makes of it. *)
LEMMA InfoFacts ==
    ASSUME NEW name \in Seq(STRING), name # << >>, ValidName(name),
           NEW sizes \in Seq(Nat), sizes # << >>
    PROVE  /\ Convertible(InfoText(Info(name, sizes))) <=> \A i \in DOMAIN sizes : sizes[i] <= MaxInt
           /\ FromStringView(InfoText(Info(name, sizes))) = Info(name, sizes)
<1> DEFINE text == InfoText(Info(name, sizes))
           decimals == [i \in 1 .. Len(sizes) |-> Decimal(sizes[i])]
           Chars == DigitChars \cup {","}
           numbers == Join(decimals, ",")
<1>1. DOMAIN sizes = 1 .. Len(sizes) /\ Len(sizes) \in Nat /\ \A i \in 1 .. Len(sizes) : sizes[i] \in Nat
  OBVIOUS
<1>2. "," \notin DigitChars /\ ";" \notin Chars /\ "," \in Chars
  BY DEF DigitChars
<1>3. ASSUME NEW i \in 1 .. Len(sizes)
      PROVE  /\ decimals[i] \in Seq(DigitChars) /\ Len(decimals[i]) > 0
             /\ Number(decimals[i]) = sizes[i]
  <2>1. decimals[i] = Decimal(sizes[i])
    OBVIOUS
  <2> HIDE DEF decimals
  <2> QED
    BY <1>1, <2>1, DecimalFacts
<1>4. /\ Len(decimals) = Len(sizes) /\ DOMAIN decimals = 1 .. Len(sizes)
      /\ decimals = [i \in 1 .. Len(sizes) |-> decimals[i]]
      /\ \A i \in 1 .. Len(sizes) : decimals[i] = Decimal(sizes[i])
  OBVIOUS
<1>5. text = name \o << ";" >> \o numbers
  <2>1. Info(name, sizes).name = name /\ Info(name, sizes).dimension_sizes = sizes
    BY DEF Info
  <2>2. text = name \o << ";" >> \o
                 FlattenSeq([i \in DOMAIN sizes |->
                               (IF i > 1 THEN << "," >> ELSE << >>) \o Decimal(sizes[i])])
    BY <2>1, Zenon DEF InfoText
  <2> HIDE DEF decimals
  <2>3. numbers = FlattenSeq([i \in 1 .. Len(sizes) |->
                               (IF i > 1 THEN << "," >> ELSE << >>) \o decimals[i]])
    BY <1>4, Zenon DEF Join
  <2>4. [i \in DOMAIN sizes |-> (IF i > 1 THEN << "," >> ELSE << >>) \o Decimal(sizes[i])]
          = [i \in 1 .. Len(sizes) |-> (IF i > 1 THEN << "," >> ELSE << >>) \o decimals[i]]
    BY <1>1, <1>4, Zenon
  <2> QED
    BY <2>2, <2>3, <2>4, Zenon
<1> HIDE DEF text, decimals
<1>6. decimals \in Seq(Seq(Chars)) /\ decimals # << >>
  <2>1. \A i \in 1 .. Len(sizes) : decimals[i] \in Seq(Chars)
    <3>1. DigitChars \subseteq Chars
      OBVIOUS
    <3> HIDE DEF Chars
    <3> QED
      BY <1>3, <3>1
  <2> HIDE DEF Chars
  <2>2. decimals \in [1 .. Len(sizes) -> Seq(Chars)]
    BY <1>4, <2>1, Zenon
  <2>3. Len(sizes) \in Nat \ {0}
    OBVIOUS
  <2> QED
    BY <2>2, <2>3, Row, Zenon
<1>7. \A i \in 1 .. Len(decimals) : Len(decimals[i]) > 0
  BY <1>3, <1>4, Zenon
<1>8. ASSUME NEW i \in 1 .. Len(decimals), NEW k \in 1 .. Len(decimals[i])
      PROVE  decimals[i][k] # ","
  <2>1. decimals[i] \in Seq(DigitChars)
    BY <1>3, <1>4, Zenon
  <2>2. decimals[i][k] \in DigitChars
    BY <2>1
  <2> QED
    BY <1>2, <2>2, Zenon
<1> HIDE DEF Chars
<1>9. SplitString(numbers, ",") = decimals /\ numbers \in Seq(Chars) /\ numbers # << >>
  BY <1>2, <1>6, <1>7, <1>8, JoinSplit, Zenon
<1> HIDE DEF numbers
<1>10. SplitString(text, ";") = << name, numbers >>
  <2> DEFINE parts == << name, numbers >>
             All == STRING \cup Chars \cup {";"}
  <2>1. /\ Len(parts) = 2 /\ parts[1] = name /\ parts[2] = numbers
        /\ \A i \in 1 .. 2 : i = 1 \/ i = 2
    OBVIOUS
  <2>2. name \in Seq(All) /\ numbers \in Seq(All) /\ Len(name) > 0 /\ Len(numbers) > 0 /\ ";" \in All
    <3>1. STRING \subseteq All /\ Chars \subseteq All /\ ";" \in All
      BY <1>2, Zenon
    <3> HIDE DEF All
    <3>2. name \in Seq(All) /\ numbers \in Seq(All)
      BY <1>9, <3>1, Wider, Zenon
    <3>3. numbers # << >>
      BY <1>9, Zenon
    <3>4. Len(name) > 0 /\ Len(numbers) > 0
      <4>1. \A s \in Seq(All) : s # << >> => Len(s) > 0
        OBVIOUS
      <4> QED
        BY <3>2, <3>3, <4>1, Zenon
    <3> QED
      BY <3>1, <3>2, <3>4, Zenon
  <2>3. parts \in Seq(Seq(All)) /\ parts # << >>
    <3> HIDE DEF All
    <3>1. name \in Seq(All) /\ numbers \in Seq(All)
      BY <2>2, Zenon
    <3> QED
      BY <3>1
  <2> HIDE DEF parts, All
  <2>4. \A i \in 1 .. Len(parts) : Len(parts[i]) > 0
    BY <2>1, <2>2, Zenon
  <2>5. \A k \in 1 .. Len(name) : name[k] # ";"
    <3>1. DOMAIN name = 1 .. Len(name)
      BY Entries
    <3> QED
      BY <3>1, Zenon DEF ValidName, ToSet
  <2>6. \A k \in 1 .. Len(numbers) : numbers[k] # ";"
    <3>1. \A k \in 1 .. Len(numbers) : numbers[k] \in Chars
      BY <1>9, Entries, Zenon
    <3> QED
      BY <1>2, <3>1, Zenon
  <2>7. \A i \in 1 .. Len(parts) : \A k \in 1 .. Len(parts[i]) : parts[i][k] # ";"
    BY <2>1, <2>5, <2>6, Zenon
  <2>8. SplitString(Join(parts, ";"), ";") = parts
    BY <2>2, <2>3, <2>4, <2>7, JoinSplit
  <2>9. Join(parts, ";") = text
    BY <1>5, <2>2, JoinTwo, Zenon DEF parts
  <2> QED
    BY <2>8, <2>9, Zenon DEF parts
<1>11. Split(text) = << name, numbers >> /\ Len(Split(text)) = 2 /\ Numbers(text) = decimals
  <2>1. Split(text) = << name, numbers >>
    BY <1>10, Zenon DEF Split
  <2>2. Len(<< name, numbers >>) = 2 /\ << name, numbers >>[2] = numbers /\ 2 # 1
    OBVIOUS
  <2> QED
    BY <1>9, <2>1, <2>2, Zenon DEF Numbers
<1>12. /\ \A i \in DOMAIN Numbers(text) : Number(Numbers(text)[i]) = sizes[i]
       /\ DOMAIN Numbers(text) = DOMAIN sizes
  BY <1>1, <1>3, <1>4, <1>11, Zenon
<1>13. Convertible(text) <=> \A i \in DOMAIN sizes : sizes[i] <= MaxInt
  <2>1. Len(Split(text)) \in {1, 2}
    BY <1>11
  <2> QED
    BY <1>12, <2>1, Zenon DEF Convertible
<1>14. FromStringView(text) = Info(name, sizes)
  <2>1. [i \in DOMAIN Numbers(text) |-> Number(Numbers(text)[i])] = [i \in DOMAIN sizes |-> sizes[i]]
    BY <1>12, Zenon
  <2>2. [i \in DOMAIN sizes |-> sizes[i]] = sizes /\ << name, numbers >>[1] = name
    OBVIOUS
  <2> QED
    BY <1>11, <2>1, <2>2, Zenon DEF FromStringView
<1> QED
  BY <1>13, <1>14, Zenon DEF text

-----------------------------------------------------------------------------
(***************************************************************************)
(* The invariant.  What was sent stays in the message until it is read,    *)
(* and each stage of a read keeps where its values are from; a transfer    *)
(* that has thrown is not one of those that RoundTrip speaks of.           *)
(***************************************************************************)
NoMessage == [info |-> << >>, units |-> << >>]

Sent ==
    /\ path.write \in Path /\ ValidName(path.write)
    /\ message = [info |-> InfoText(Info(path.write, Sizes(array.dimension, array.value))),
                  units |-> Bytes(array.type, Flat(array.dimension, array.value))]

CopiedFrom(units, n) == Values(target.type, n, units)

Received ==
    IF target.dimension = 0
    THEN /\ SizeMatches(target.type, 1)
         /\ result = CopiedFrom(message.units, 1)[1]
    ELSE /\ SizeMatches(target.type, NumberOfElements(MessageSizes))
         /\ Len(MessageSizes) = target.dimension
         /\ result = Nested(MessageSizes, CopiedFrom(message.units, Len(message.units)))

Stored ==
    /\ file.type \in Type /\ file.sizes \in FileSizes
    /\ file.units = First(Product(file.sizes) * Width[file.type], Memory)

Got ==
    IF target.dimension = 0 THEN result = CopiedFrom(file.units, 1)[1]
    ELSE /\ Len(file.sizes) = target.dimension
         /\ result = Nested(file.sizes, CopiedFrom(file.units, NumberOfElements(file.sizes)))

Chosen ==
    /\ array.dimension \in Dimension /\ array.type \in Type
    /\ array.value \in Arrays[array.dimension]
    /\ target.dimension \in Dimension /\ target.type \in Type
    /\ path = [write |-> path.write, read |-> path.read]

Stages ==
    /\ stage \in {"start", "sent", "copied", "received", "thrown", "crashed", "stored",
                  "filled", "got", "refused", "undefined"}
    /\ stage = "start" => path.read = Nothing
    /\ stage = "sent" => Sent /\ path.read = Nothing
    /\ stage \in {"copied", "received"} => Sent /\ IsFor(path.read)
    /\ stage = "copied" =>
          /\ target.dimension > 0 /\ SizeMatches(target.type, NumberOfElements(MessageSizes))
          /\ buffer = CopiedFrom(message.units, Len(message.units))
    /\ stage = "received" => Received
    /\ stage = "thrown" =>
          /\ message = NoMessage \/ Sent
          /\ ~ (Rectangular /\ Representable /\ SameAs /\ SamePath)
    /\ stage = "crashed" => Sent /\ ReadsBeyond
    /\ stage \in {"start", "stored", "filled", "got", "refused", "undefined"} => message = NoMessage
    /\ stage \in {"stored", "filled", "got"} => Stored
    /\ stage = "filled" =>
          /\ target.dimension > 0
          /\ buffer = CopiedFrom(file.units, NumberOfElements(file.sizes))
    /\ stage = "got" => Got

Inv == Chosen /\ Stages

-----------------------------------------------------------------------------
(* What Flat has, ragged arrays included.                                  *)
LEMMA FlatType ==
    ASSUME NEW d \in Dimension, NEW a \in Arrays[d]
    PROVE  /\ Flat(d, a) \in Seq(Arrays[0] \cup {0})
           /\ NumberOfElements(Sizes(d, a)) = Product(Sizes(d, a)) /\ Product(Sizes(d, a)) \in Nat
<1> DEFINE e == Elements(d, a)
<1>0. d \in Nat
  BY ArrayAssumption
<1>1. Sizes(d, a) \in Seq(Nat) /\ Sizes(d, a) # << >>
  BY SizeFacts
<1>2. NumberOfElements(Sizes(d, a)) = Product(Sizes(d, a)) /\ Product(Sizes(d, a)) \in Nat
  <2>1. Len(Sizes(d, a)) \in 0 .. Len(Sizes(d, a))
    BY <1>1
  <2>2. Product(Sizes(d, a)) \in Nat
    BY <1>1, <2>1, ProductFacts, Zenon
  <2> QED
    BY <1>1, <2>2, Zenon DEF NumberOfElements
<1>3. e \in Seq(Arrays[0])
  <2>1. CASE d = 0
    BY <2>1, Single DEF Elements
  <2>2. CASE d > 0
    <3>1. d \in 1 .. d /\ d - d = 0 /\ d # 0
      BY <1>0, <2>2
    <3>2. Rows(d, a)[d] \in Seq(Arrays[d - d])
      BY <2>2, <3>1, RowFacts, Zenon
    <3> QED
      BY <3>1, <3>2, Zenon DEF Elements
  <2> QED
    BY <1>0, <2>1, <2>2
<1>4. Flat(d, a) = [i \in 1 .. Room(d, a) |-> IF i <= Len(e) THEN e[i] ELSE 0]
  BY Zenon DEF Flat
<1>5. Room(d, a) \in Nat
  BY <1>2, Zenon DEF Room
<1> HIDE DEF e
<1>6. ASSUME NEW i \in 1 .. Room(d, a)
      PROVE  (IF i <= Len(e) THEN e[i] ELSE 0) \in Arrays[0] \cup {0}
  BY <1>3, <1>5
<1>7. Flat(d, a) \in [1 .. Room(d, a) -> Arrays[0] \cup {0}]
  BY <1>4, <1>6
<1> QED
  BY <1>2, <1>5, <1>7

(* What a message says of the array that was sent.                         *)
LEMMA SentFacts ==
    ASSUME Chosen, Sent
    PROVE  /\ FromStringView(message.info) = Info(path.write, Sizes(array.dimension, array.value))
           /\ MessageSizes = Sizes(array.dimension, array.value)
           /\ Convertible(message.info) <=>
                \A i \in DOMAIN MessageSizes : MessageSizes[i] <= MaxInt
           /\ message.units = Bytes(array.type, Flat(array.dimension, array.value))
           /\ path.write \in Seq(STRING) /\ path.write # << >>
<1> DEFINE sizes == Sizes(array.dimension, array.value)
<1>1. sizes \in Seq(Nat) /\ sizes # << >>
  BY SizeFacts, Zenon DEF Chosen
<1>2. path.write \in Seq(STRING) /\ path.write # << >> /\ ValidName(path.write)
  BY PathAssumption, Zenon DEF Sent
<1>3. message.info = InfoText(Info(path.write, sizes))
      /\ message.units = Bytes(array.type, Flat(array.dimension, array.value))
  BY DEF Sent
<1> HIDE DEF sizes
<1>4. /\ Convertible(message.info) <=> \A i \in DOMAIN sizes : sizes[i] <= MaxInt
      /\ FromStringView(message.info) = Info(path.write, sizes)
  BY <1>1, <1>2, <1>3, InfoFacts, Zenon
<1>5. MessageSizes = sizes
  BY <1>4 DEF MessageSizes, Info
<1> QED
  BY <1>2, <1>3, <1>4, <1>5, Zenon DEF sizes

(* A rectangular array in a message: its elements, and how many they are.  *)
LEMMA RectangularSent ==
    ASSUME Chosen, Sent, Rectangular
    PROVE  LET e == Elements(array.dimension, array.value)
               n == Product(MessageSizes)
           IN  /\ e \in Seq(Arrays[0]) /\ Len(e) = n /\ n \in Nat
               /\ NumberOfElements(MessageSizes) = n
               /\ message.units = Bytes(array.type, e)
               /\ Len(message.units) = n * Width[array.type]
               /\ Len(message.units) \in Nat /\ Len(message.units) >= n
               /\ Width[array.type] \in Nat /\ Width[array.type] >= 1
               /\ array.dimension > 0 =>
                     HasShape(Sizes(array.dimension, array.value), array.value)
<1> DEFINE d == array.dimension
           a == array.value
           t == array.type
           e == Elements(d, a)
           n == Product(MessageSizes)
           w == Width[t]
<1>1. d \in Dimension /\ a \in Arrays[d] /\ t \in Type /\ d \in Nat
  BY ArrayAssumption DEF Chosen
<1>2. d > 0 => HasShape(Sizes(d, a), a)
  <2>1. d > 0 => d # 0
    BY <1>1
  <2> QED
    BY <2>1, Zenon DEF Rectangular, Shape
<1>3. MessageSizes = Sizes(d, a) /\ message.units = Bytes(t, Flat(d, a))
  BY SentFacts
<1> HIDE DEF d, a, t
<1>4. /\ Product(Sizes(d, a)) \in Nat /\ e \in Seq(Arrays[0]) /\ Len(e) = Product(Sizes(d, a))
      /\ Flat(d, a) = e
  BY <1>1, <1>2, RectangularFlat
<1>5. NumberOfElements(Sizes(d, a)) = Product(Sizes(d, a))
  BY <1>1, FlatType
<1> HIDE DEF e
<1>6. e \in Seq(Arrays[0]) /\ Len(e) = n /\ n \in Nat /\ NumberOfElements(MessageSizes) = n
      /\ message.units = Bytes(t, e)
  BY <1>3, <1>4, <1>5, Zenon
<1> HIDE DEF n
<1>7. Len(message.units) = n * w /\ w \in Nat /\ w >= 1
  BY <1>1, <1>6, BytesFacts, Zenon
<1>8. n * w \in Nat /\ n * w >= n
  <2>1. w - 1 \in Nat /\ n * w = n * (w - 1) + n
    BY <1>6, <1>7
  <2>2. n * (w - 1) >= 0 /\ n * (w - 1) \in Int
    BY <1>6, <2>1
  <2> HIDE DEF w
  <2> QED
    BY <1>6, <2>1, <2>2
<1> HIDE DEF w
<1>9. Len(message.units) = n * w /\ Len(message.units) \in Nat /\ Len(message.units) >= n
  BY <1>7, <1>8, Zenon
<1> QED
  BY <1>2, <1>6, <1>7, <1>9, Zenon DEF d, a, t, e, n, w

(* Read as the type it was sent as, it is what it was.                     *)
LEMMA ArrayBack ==
    ASSUME Chosen, Sent, Rectangular, target.type = array.type, array.dimension > 0
    PROVE  Nested(MessageSizes, CopiedFrom(message.units, Len(message.units))) = array.value
<1> DEFINE d == array.dimension
           a == array.value
           t == array.type
           e == Elements(d, a)
           n == Len(message.units)
           values == CopiedFrom(message.units, n)
<1>1. /\ e \in Seq(Arrays[0]) /\ Len(e) = Product(MessageSizes) /\ Len(e) \in Nat
      /\ message.units = Bytes(t, e) /\ n \in Nat /\ n >= Len(e)
      /\ HasShape(Sizes(d, a), a)
  BY RectangularSent, Zenon
<1>2. d \in Dimension /\ a \in Arrays[d] /\ t \in Type /\ d > 0
  BY DEF Chosen
<1>3. MessageSizes = Sizes(d, a)
  BY SentFacts
<1>4. values = Values(t, n, Bytes(t, e))
  BY <1>1, Zenon DEF CopiedFrom
<1> HIDE DEF d, a, t, e, n, values
<1>5. /\ Len(values) = n /\ values = [i \in 1 .. n |-> values[i]]
      /\ \A i \in 1 .. n : i <= Len(e) => values[i] = e[i]
  <2> DEFINE read == Values(t, n, Bytes(t, e))
  <2>1. /\ Len(read) = n /\ read = [i \in 1 .. n |-> read[i]]
        /\ \A i \in 1 .. n : i <= Len(e) => read[i] = e[i]
    BY <1>1, <1>2, ValuesOfBytes
  <2> HIDE DEF read
  <2>2. values = read
    BY <1>4, Zenon DEF read
  <2> QED
    BY <2>1, <2>2, Zenon
<1> DEFINE V == {values[i] : i \in 1 .. n}
<1>6. values \in Seq(V)
  <2>1. \A i \in 1 .. n : values[i] \in V
    OBVIOUS
  <2> HIDE DEF V
  <2>2. values \in [1 .. n -> V]
    BY <1>5, <2>1
  <2> QED
    BY <1>1, <2>2
<1> HIDE DEF V
<1>7. \A i \in 1 .. Len(e) : values[i] = e[i]
  BY <1>1, <1>5
<1>8. /\ Len(values) >= Product(Sizes(d, a))
      /\ \A i \in 1 .. Product(Sizes(d, a)) : values[i] = Elements(d, a)[i]
  BY <1>1, <1>3, <1>5, <1>7, Zenon DEF e
<1>9. Nested(Sizes(d, a), values) = a
  BY <1>1, <1>2, <1>6, <1>8, NestedElements, Zenon
<1> QED
  BY <1>3, <1>9, Zenon DEF a, values, n

LEMMA ValueBack ==
    ASSUME Chosen, Sent, Rectangular, target.type = array.type, NEW n \in Nat, n >= 1,
           Product(MessageSizes) = 1
    PROVE  /\ CopiedFrom(message.units, n)[1] = Elements(array.dimension, array.value)[1]
           /\ CopiedFrom(message.units, n) = [i \in 1 .. n |-> CopiedFrom(message.units, n)[i]]
<1> DEFINE t == array.type
           e == Elements(array.dimension, array.value)
           values == CopiedFrom(message.units, n)
<1>1. e \in Seq(Arrays[0]) /\ Len(e) = 1 /\ message.units = Bytes(t, e)
  BY RectangularSent, Zenon
<1>2. t \in Type
  BY DEF Chosen
<1>3. values = Values(t, n, Bytes(t, e))
  BY <1>1, Zenon DEF CopiedFrom
<1> HIDE DEF t, e, values
<1>4. /\ values = [i \in 1 .. n |-> values[i]]
      /\ \A i \in 1 .. n : i <= Len(e) => values[i] = e[i]
  <2> DEFINE read == Values(t, n, Bytes(t, e))
  <2>1. /\ Len(read) = n /\ read = [i \in 1 .. n |-> read[i]]
        /\ \A i \in 1 .. n : i <= Len(e) => read[i] = e[i]
    BY <1>1, <1>2, ValuesOfBytes
  <2> HIDE DEF read
  <2>2. values = read
    BY <1>3, Zenon DEF read
  <2> QED
    BY <2>1, <2>2, Zenon
<1>5. 1 \in 1 .. n /\ 1 <= Len(e)
  BY <1>1
<1>6. values[1] = e[1]
  BY <1>4, <1>5, Zenon
<1> QED
  BY <1>4, <1>6, Zenon DEF values, e

(* What the reader checks holds for what it reads as it was sent.          *)
LEMMA NothingThrown ==
    ASSUME Chosen, Sent, Rectangular, Representable, SameAs
    PROVE  /\ IsFor(path.write)
           /\ target.dimension = 0 => SizeMatches(target.type, 1)
           /\ SizeMatches(target.type, NumberOfElements(MessageSizes))
           /\ target.dimension > 0 => Len(MessageSizes) = target.dimension
           /\ ~ (Product(MessageSizes) > Len(message.units))
<1> DEFINE d == array.dimension
           a == array.value
<1>1. d \in Dimension /\ d \in Nat /\ a \in Arrays[d]
  BY ArrayAssumption DEF Chosen
<1>2. target.dimension = d /\ target.type = array.type
  BY DEF SameAs
<1>3. MessageSizes = Sizes(d, a)
  BY SentFacts
<1>4. \A i \in DOMAIN MessageSizes : MessageSizes[i] <= MaxInt
  <2>1. CASE d = 0
    <3>1. MessageSizes = << 1 >>
      BY <1>1, <1>3, <2>1, SizeFacts
    <3>2. \A i \in DOMAIN << 1 >> : << 1 >>[i] = 1
      OBVIOUS
    <3>3. 1 <= MaxInt
      BY SizeAssumption
    <3> QED
      BY <3>1, <3>2, <3>3, Zenon
  <2>2. CASE d # 0
    <3>1. Shape = MessageSizes
      BY <1>3, <2>2, Zenon DEF Shape
    <3> QED
      BY <3>1, Zenon DEF Representable
  <2> QED
    BY <2>1, <2>2, Zenon
<1>5. IsFor(path.write)
  <2>1. FromStringView(message.info).name = path.write
    BY SentFacts DEF Info
  <2>2. Convertible(message.info)
    BY <1>4, SentFacts, Zenon
  <2>3. ValidName(path.write)
    BY DEF Sent
  <2> QED
    BY <2>1, <2>2, <2>3, Zenon DEF IsFor
<1> DEFINE n == Product(MessageSizes)
           w == Width[array.type]
<1>6. /\ n \in Nat /\ NumberOfElements(MessageSizes) = n /\ Len(message.units) = n * w
      /\ Len(message.units) \in Nat /\ Len(message.units) >= n
  BY RectangularSent, Zenon
<1>7. SizeMatches(target.type, NumberOfElements(MessageSizes))
  BY <1>2, <1>6, Zenon DEF SizeMatches
<1>8. ASSUME target.dimension = 0
      PROVE  SizeMatches(target.type, 1)
  <2>1. MessageSizes = << 1 >>
    BY <1>1, <1>2, <1>3, <1>8, SizeFacts
  <2>2. n = 1
    <3>1. Len(Elements(d, a)) = n
      BY RectangularSent, Zenon
    <3>2. Elements(d, a) = << a >>
      BY <1>2, <1>8, Zenon DEF Elements
    <3> QED
      BY <3>1, <3>2
  <2> HIDE DEF n
  <2> QED
    BY <1>2, <1>6, <2>2, Zenon DEF SizeMatches
<1>9. ASSUME target.dimension > 0
      PROVE  Len(MessageSizes) = target.dimension
  BY <1>1, <1>2, <1>3, <1>9, SizeFacts
<1>10. ~ (n > Len(message.units))
  <2> HIDE DEF n
  <2> QED
    BY <1>6
<1> QED
  BY <1>5, <1>7, <1>8, <1>9, <1>10

-----------------------------------------------------------------------------
LEMMA InvInit == Init => Inv
<1> SUFFICES ASSUME Init
             PROVE  Inv
  OBVIOUS
<1>1. PICK d \in Dimension, t \in Type :
         \E a \in Arrays[d] : array = [dimension |-> d, type |-> t, value |-> a]
  BY DEF Init
<1>2. PICK a \in Arrays[d] : array = [dimension |-> d, type |-> t, value |-> a]
  BY <1>1
<1>3. array.dimension = d /\ array.type = t /\ array.value = a
  BY <1>2
<1>4. target.dimension \in Dimension /\ target.type \in Type
  BY DEF Init
<1>5. path.read = Nothing /\ path = [write |-> path.write, read |-> path.read]
  BY DEF Init
<1>6. Chosen
  BY <1>3, <1>4, <1>5 DEF Chosen
<1>7. stage = "start" /\ message = NoMessage
  BY DEF Init, NoMessage
<1>8. Stages
  BY <1>5, <1>7 DEF Stages
<1> QED
  BY <1>6, <1>8 DEF Inv

(* write                                                                   *)
LEMMA InvSend ==
    ASSUME Inv, NEW name \in Path, Send(name)
    PROVE  Inv'
<1>1. /\ array' = array /\ target' = target /\ path' = [path EXCEPT !.write = name]
      /\ stage = "start"
  BY DEF Send
<1>2. path'.write = name /\ path'.read = path.read /\ path' = [write |-> path'.write, read |-> path'.read]
  BY <1>1 DEF Inv, Chosen
<1>3. Chosen'
  BY <1>1, <1>2 DEF Inv, Chosen
<1>4. CASE ~ ValidName(name) \/ ~ Fits(array.dimension, array.value)
  <2>1. stage' = "thrown" /\ message' = message
    BY <1>4 DEF Send, Throw
  <2>2. message' = NoMessage
    BY <1>1, <2>1 DEF Inv, Stages, NoMessage
  <2>3. ~ (Rectangular /\ SamePath)'
    <3>1. SUFFICES ASSUME Rectangular', SamePath'
                   PROVE  FALSE
      OBVIOUS
    <3>2. ValidName(name)
      BY <1>2, <3>1 DEF SamePath
    <3>3. Rectangular
      BY <1>1, <3>1 DEF Rectangular, Shape
    <3>4. array.dimension \in Dimension /\ array.value \in Arrays[array.dimension]
      BY DEF Inv, Chosen
    <3>5. array.dimension > 0 => HasShape(Sizes(array.dimension, array.value), array.value)
      <4>1. array.dimension > 0 => array.dimension # 0
        BY <3>4, ArrayAssumption
      <4> QED
        BY <3>3, <4>1, Zenon DEF Rectangular, Shape
    <3>6. Fits(array.dimension, array.value)
      BY <3>4, <3>5, RectangularFlat
    <3> QED
      BY <1>4, <3>2, <3>6
  <2>4. Stages'
    BY <2>1, <2>2, <2>3 DEF Stages, NoMessage
  <2> QED
    BY <1>3, <2>4 DEF Inv
<1>5. CASE ValidName(name) /\ Fits(array.dimension, array.value)
  <2>1. /\ stage' = "sent"
        /\ message' = [info |-> InfoText(Info(name, Sizes(array.dimension, array.value))),
                       units |-> Bytes(array.type, Flat(array.dimension, array.value))]
    BY <1>5 DEF Send
  <2>2. Sent'
    BY <1>1, <1>2, <1>5, <2>1, Zenon DEF Sent
  <2>3. path'.read = Nothing
    BY <1>1, <1>2 DEF Inv, Stages
  <2>4. Stages'
    BY <2>1, <2>2, <2>3 DEF Stages
  <2> QED
    BY <1>3, <2>4 DEF Inv
<1> QED
  BY <1>4, <1>5

(* read: the stages "copied" and "received" keep what was sent.            *)
LEMMA SentStays ==
    ASSUME Sent, array' = array, message' = message, path'.write = path.write
    PROVE  Sent'
  BY Zenon DEF Sent

LEMMA ReadPath ==
    ASSUME Inv, stage = "sent", NEW name \in Path,
           array' = array, target' = target, message' = message,
           path' = [path EXCEPT !.read = name]
    PROVE  /\ Chosen' /\ Sent' /\ path'.read = name
           /\ (IsFor(path.read))' <=> IsFor(name)
           /\ (Rectangular /\ Representable /\ SameAs /\ SamePath)'
                => Rectangular /\ Representable /\ SameAs /\ name = path.write
<1>1. path'.write = path.write /\ path'.read = name /\ path' = [write |-> path'.write, read |-> path'.read]
  BY DEF Inv, Chosen
<1>2. Chosen'
  BY <1>1 DEF Inv, Chosen
<1>3. Sent'
  BY <1>1, SentStays DEF Inv, Stages
<1>4. (IsFor(path.read))' <=> IsFor(name)
  BY <1>1, Zenon DEF IsFor
<1>5. ASSUME (Rectangular /\ Representable /\ SameAs /\ SamePath)'
      PROVE  Rectangular /\ Representable /\ SameAs /\ name = path.write
  <2>1. Rectangular /\ Representable /\ SameAs
    BY <1>5, Zenon DEF Rectangular, Representable, SameAs, Shape
  <2>2. name # Nothing
    BY PathAssumption DEF Nothing
  <2>3. name = path.write
    BY <1>1, <1>5, <2>2 DEF SamePath
  <2> QED
    BY <2>1, <2>3
<1> QED
  BY <1>1, <1>2, <1>3, <1>4, <1>5

LEMMA InvReceiveScalar ==
    ASSUME Inv, NEW name \in Path, ReceiveScalar(name)
    PROVE  Inv'
<1>1. /\ stage = "sent" /\ target.dimension = 0
      /\ array' = array /\ target' = target /\ path' = [path EXCEPT !.read = name]
      /\ message' = message
  BY DEF ReceiveScalar, Throw
<1>2. /\ Chosen' /\ Sent' /\ path'.read = name
      /\ (IsFor(path.read))' <=> IsFor(name)
      /\ (Rectangular /\ Representable /\ SameAs /\ SamePath)'
           => Rectangular /\ Representable /\ SameAs /\ name = path.write
  BY <1>1, ReadPath
<1>3. CASE ~ IsFor(name) \/ ~ SizeMatches(target.type, 1)
  <2>1. stage' = "thrown"
    BY <1>3 DEF ReceiveScalar, Throw
  <2>2. ~ (Rectangular /\ Representable /\ SameAs /\ SamePath)'
    <3>1. SUFFICES ASSUME Rectangular /\ Representable /\ SameAs /\ name = path.write
                   PROVE  FALSE
      BY <1>2, Zenon
    <3>2. Chosen /\ Sent
      BY <1>1 DEF Inv, Stages
    <3>3. IsFor(path.write) /\ SizeMatches(target.type, 1)
      BY <1>1, <3>1, <3>2, NothingThrown
    <3> QED
      BY <1>3, <3>1, <3>3, Zenon
  <2>3. Stages'
    BY <1>2, <2>1, <2>2 DEF Stages
  <2> QED
    BY <1>2, <2>3 DEF Inv
<1>4. CASE IsFor(name) /\ SizeMatches(target.type, 1)
  <2>1. stage' = "received" /\ result' = Values(target.type, 1, message.units)[1]
    BY <1>4 DEF ReceiveScalar
  <2>2. Received'
    BY <1>1, <1>4, <2>1, Zenon DEF Received, SizeMatches, CopiedFrom
  <2>3. Stages'
    BY <1>2, <1>4, <2>1, <2>2 DEF Stages
  <2> QED
    BY <1>2, <2>3 DEF Inv
<1> QED
  BY <1>3, <1>4

LEMMA InvReceiveArray ==
    ASSUME Inv, NEW name \in Path, ReceiveArray(name)
    PROVE  Inv'
<1> DEFINE matches == SizeMatches(target.type, NumberOfElements(MessageSizes))
<1>1. /\ stage = "sent" /\ target.dimension > 0
      /\ array' = array /\ target' = target /\ path' = [path EXCEPT !.read = name]
      /\ message' = message
  BY DEF ReceiveArray, Throw, Crash
<1>2. /\ Chosen' /\ Sent' /\ path'.read = name
      /\ (IsFor(path.read))' <=> IsFor(name)
      /\ (Rectangular /\ Representable /\ SameAs /\ SamePath)'
           => Rectangular /\ Representable /\ SameAs /\ name = path.write
  BY <1>1, ReadPath
<1>3. CASE ~ IsFor(name) \/ ~ matches
  <2>1. stage' = "thrown"
    BY <1>3 DEF ReceiveArray, Throw
  <2>2. ~ (Rectangular /\ Representable /\ SameAs /\ SamePath)'
    <3>1. SUFFICES ASSUME Rectangular /\ Representable /\ SameAs /\ name = path.write
                   PROVE  FALSE
      BY <1>2, Zenon
    <3>2. Chosen /\ Sent
      BY <1>1 DEF Inv, Stages
    <3>3. IsFor(path.write) /\ matches
      BY <3>1, <3>2, NothingThrown
    <3> QED
      BY <1>3, <3>1, <3>3, Zenon
  <2>3. Stages'
    BY <1>2, <2>1, <2>2 DEF Stages
  <2> QED
    BY <1>2, <2>3 DEF Inv
<1>4. CASE IsFor(name) /\ matches
  <2>1. CASE stage' = "copied"
               /\ buffer' = Values(target.type, Len(message.units), message.units)
    <3>1. matches' /\ buffer' = (CopiedFrom(message.units, Len(message.units)))'
          /\ target'.dimension > 0
      BY <1>1, <1>4, <2>1, Zenon DEF SizeMatches, MessageSizes, CopiedFrom
    <3>2. Stages'
      BY <1>2, <1>4, <2>1, <3>1 DEF Stages
    <3> QED
      BY <1>2, <3>2 DEF Inv
  <2>2. CASE ReadsBeyond /\ stage' = "crashed"
    <3>1. ReadsBeyond'
      BY <1>1, <2>2, Zenon DEF ReadsBeyond, CopyEnd
    <3>2. Stages'
      BY <1>2, <2>2, <3>1 DEF Stages
    <3> QED
      BY <1>2, <3>2 DEF Inv
  <2> QED
    BY <1>4, <2>1, <2>2 DEF ReceiveArray, Crash
<1> QED
  BY <1>3, <1>4

LEMMA InvFinaliseMessage == Inv /\ FinaliseMessage => Inv'
<1> SUFFICES ASSUME Inv, FinaliseMessage
             PROVE  Inv'
  OBVIOUS
<1>1. /\ stage = "copied" /\ array' = array /\ target' = target /\ path' = path
      /\ message' = message /\ Finalise(MessageSizes)
  BY DEF FinaliseMessage, Finalise, Throw
<1>2. Chosen /\ Sent /\ IsFor(path.read) /\ target.dimension > 0
      /\ SizeMatches(target.type, NumberOfElements(MessageSizes))
      /\ buffer = CopiedFrom(message.units, Len(message.units))
  BY <1>1 DEF Inv, Stages
<1>3. Chosen'
  BY <1>1, <1>2 DEF Chosen
<1>4. Sent' /\ (IsFor(path.read))'
  BY <1>1, <1>2, SentStays, Zenon DEF IsFor
<1>5. CASE Len(MessageSizes) # target.dimension \/ Product(MessageSizes) > Len(buffer)
  <2>1. stage' = "thrown"
    BY <1>1, <1>5, Zenon DEF Finalise, Throw
  <2>2. ~ (Rectangular /\ Representable /\ SameAs)
    <3>1. SUFFICES ASSUME Rectangular, Representable, SameAs
                   PROVE  FALSE
      BY Zenon
    <3>2. Len(MessageSizes) = target.dimension /\ ~ (Product(MessageSizes) > Len(message.units))
      BY <1>2, <3>1, NothingThrown
    <3>3. Len(buffer) = Len(message.units)
      <4>1. Len(message.units) \in Nat
        BY <1>2, <3>1, RectangularSent, Zenon
      <4>2. buffer = [i \in 1 .. Len(message.units) |->
                        ValueAt(target.type,
                                First(Len(message.units) * Width[target.type], message.units),
                                (i - 1) * Width[target.type] + 1)]
        BY <1>2, Zenon DEF CopiedFrom, Values
      <4> QED
        BY <4>1, <4>2
    <3> QED
      BY <1>5, <3>2, <3>3, Zenon
  <2>3. ~ (Rectangular /\ Representable /\ SameAs /\ SamePath)'
    BY <1>1, <2>2, Zenon DEF Rectangular, Representable, SameAs, Shape
  <2>4. Stages'
    BY <1>4, <2>1, <2>3 DEF Stages
  <2> QED
    BY <1>3, <2>4 DEF Inv
<1>6. CASE Len(MessageSizes) = target.dimension /\ ~ (Product(MessageSizes) > Len(buffer))
  <2>1. stage' = "received" /\ result' = Nested(MessageSizes, buffer)
    BY <1>1, <1>6, Zenon DEF Finalise
  <2>2. target.dimension # 0
    BY <1>2
  <2>3. Received'
    BY <1>1, <1>2, <1>6, <2>1, <2>2, Zenon DEF Received, SizeMatches, MessageSizes, CopiedFrom
  <2>4. Stages'
    BY <1>4, <2>1, <2>3 DEF Stages
  <2> QED
    BY <1>3, <2>4 DEF Inv
<1> QED
  BY <1>5, <1>6

(* write to the file                                                       *)
LEMMA InvPut ==
    ASSUME Inv, NEW variable \in FileVariable, Put(variable)
    PROVE  Inv'
<1> DEFINE n == Product(variable.sizes) * Width[variable.type]
<1>1. /\ stage = "start" /\ array' = array /\ target' = target /\ path' = path
      /\ message' = message
      /\ \/ stage' = "stored" /\ file' = [variable EXCEPT !.units = First(n, Memory)]
         \/ stage' = "undefined"
  BY DEF Put
<1>2. variable = [type |-> variable.type, sizes |-> variable.sizes, units |-> variable.units]
      /\ variable.type \in Type /\ variable.sizes \in FileSizes
  BY DEF FileVariable
<1> HIDE DEF n
<1>3. stage' = "stored" => /\ file'.type = variable.type /\ file'.sizes = variable.sizes
                            /\ file'.units = First(n, Memory)
  BY <1>1, <1>2
<1>4. Chosen'
  BY <1>1 DEF Inv, Chosen
<1>5. Memory' = Memory
  BY <1>1, Zenon DEF Memory
<1>6. stage' = "stored" => Stored'
  BY <1>2, <1>3, <1>5, Zenon DEF Stored, n
<1>7. message' = NoMessage
  BY <1>1 DEF Inv, Stages, NoMessage
<1>8. Stages'
  BY <1>1, <1>6, <1>7 DEF Stages, NoMessage
<1> QED
  BY <1>4, <1>8 DEF Inv

(* read from the file                                                      *)
LEMMA StoredStays ==
    ASSUME Stored, array' = array, file' = file
    PROVE  Stored'
  BY Zenon DEF Stored, Memory

LEMMA InvGetScalar == Inv /\ GetScalar => Inv'
<1> SUFFICES ASSUME Inv, GetScalar
             PROVE  Inv'
  OBVIOUS
<1>1. /\ stage = "stored" /\ target.dimension = 0 /\ array' = array /\ target' = target
      /\ path' = path /\ message' = message /\ file' = file
      /\ \/ stage' = "got" /\ result' = Values(target.type, 1, file.units)[1]
         \/ stage' = "undefined"
  BY DEF GetScalar
<1>2. Chosen'
  BY <1>1 DEF Inv, Chosen
<1>3. Stored'
  BY <1>1, StoredStays DEF Inv, Stages
<1>4. message' = NoMessage
  BY <1>1 DEF Inv, Stages, NoMessage
<1>5. stage' = "got" => Got'
  BY <1>1, Zenon DEF Got, CopiedFrom
<1>6. Stages'
  BY <1>1, <1>3, <1>4, <1>5 DEF Stages, NoMessage
<1> QED
  BY <1>2, <1>6 DEF Inv

LEMMA InvGetArray == Inv /\ GetArray => Inv'
<1> SUFFICES ASSUME Inv, GetArray
             PROVE  Inv'
  OBVIOUS
<1> DEFINE n == NumberOfElements(file.sizes)
<1>1. /\ stage = "stored" /\ target.dimension > 0 /\ array' = array /\ target' = target
      /\ path' = path /\ message' = message /\ file' = file
      /\ \/ stage' = "filled" /\ buffer' = Values(target.type, n, file.units)
         \/ stage' = "undefined"
  BY DEF GetArray
<1>2. Chosen'
  BY <1>1 DEF Inv, Chosen
<1>3. Stored'
  BY <1>1, StoredStays DEF Inv, Stages
<1>4. message' = NoMessage
  BY <1>1 DEF Inv, Stages, NoMessage
<1>5. stage' = "filled" => /\ target'.dimension > 0
                           /\ buffer' = (CopiedFrom(file.units, n))'
  BY <1>1, Zenon DEF CopiedFrom
<1>6. Stages'
  BY <1>1, <1>3, <1>4, <1>5 DEF Stages, NoMessage
<1> QED
  BY <1>2, <1>6 DEF Inv

LEMMA InvFinaliseFile == Inv /\ FinaliseFile => Inv'
<1> SUFFICES ASSUME Inv, FinaliseFile
             PROVE  Inv'
  OBVIOUS
<1>1. /\ stage = "filled" /\ array' = array /\ target' = target
      /\ path' = path /\ message' = message /\ file' = file
      /\ \/ stage' = "refused"
         \/ /\ stage' = "got" /\ Len(file.sizes) = target.dimension
            /\ result' = Nested(file.sizes, buffer)
  BY DEF FinaliseFile
<1>2. Chosen'
  BY <1>1 DEF Inv, Chosen
<1>3. Stored' /\ target.dimension # 0
      /\ buffer = CopiedFrom(file.units, NumberOfElements(file.sizes))
  <2>1. Stored /\ Chosen /\ target.dimension > 0
        /\ buffer = CopiedFrom(file.units, NumberOfElements(file.sizes))
    BY <1>1 DEF Inv, Stages
  <2>2. target.dimension # 0
    BY <2>1
  <2> QED
    BY <1>1, <2>1, <2>2, StoredStays, Zenon
<1>4. message' = NoMessage
  BY <1>1 DEF Inv, Stages, NoMessage
<1>5. stage' = "got" => Got'
  BY <1>1, <1>3, Zenon DEF Got, CopiedFrom
<1>6. Stages'
  BY <1>1, <1>3, <1>4, <1>5 DEF Stages, NoMessage
<1> QED
  BY <1>2, <1>6 DEF Inv

LEMMA InvStutter == Inv /\ UNCHANGED vars => Inv'
  BY Zenon DEF Inv, vars, Chosen, Stages, Sent, IsFor, SizeMatches, MessageSizes, CopiedFrom, Received,
           Rectangular, Representable, SameAs, SamePath, Shape, NoMessage, Stored, Memory, Got,
           ReadsBeyond, CopyEnd

LEMMA InvStep == Inv /\ [Next]_vars => Inv'
<1> SUFFICES ASSUME Inv, [Next]_vars
             PROVE  Inv'
  OBVIOUS
<1>1. ASSUME NEW name \in Path, Send(name) \/ ReceiveScalar(name) \/ ReceiveArray(name)
      PROVE  Inv'
  BY <1>1, InvSend, InvReceiveScalar, InvReceiveArray
<1>2. CASE \E variable \in FileVariable : Put(variable)
  BY <1>2, InvPut
<1>3. CASE FinaliseMessage \/ GetScalar \/ GetArray \/ FinaliseFile
  BY <1>3, InvFinaliseMessage, InvGetScalar, InvGetArray, InvFinaliseFile
<1>4. CASE UNCHANGED vars
  BY <1>4, InvStutter
<1> QED
  BY <1>1, <1>2, <1>3, <1>4 DEF Next

LEMMA InvAlways == Spec => []Inv
  BY InvInit, InvStep, PTL DEF Spec

-----------------------------------------------------------------------------
(***************************************************************************)
(* Every variable has its type: the units of a message have the type of    *)
(* the array, and there are as many sizes in it as the array has           *)
(* dimensions, one for a value (to_string, from_string_view,               *)
(* message_for_type).                                                      *)
(***************************************************************************)
THEOREM ArraysTypeCorrect == Spec => []TypeOK
<1>1. Inv => TypeOK
  <2> SUFFICES ASSUME Inv
               PROVE  TypeOK
    OBVIOUS
  <2> DEFINE d == array.dimension
             a == array.value
             t == array.type
  <2>1. /\ stage \in {"start", "sent", "copied", "received", "thrown", "crashed",
                      "stored", "filled", "got", "refused", "undefined"}
        /\ target.dimension \in Dimension /\ d \in Dimension /\ d \in Nat
        /\ a \in Arrays[d] /\ t \in Type /\ Chosen
    BY ArrayAssumption DEF Inv, Stages, Chosen
  <2>2. message = NoMessage \/ Sent
    BY DEF Inv, Stages
  <2>3. ASSUME Sent, NEW i \in DOMAIN message.units
        PROVE  message.units[i][1] = t
    <3>1. message.units = Bytes(t, Flat(d, a))
      BY <2>1, <2>3, SentFacts
    <3>2. Flat(d, a) \in Seq(Arrays[0] \cup {0})
      BY <2>1, FlatType
    <3> HIDE DEF t, d, a
    <3> DEFINE V == Arrays[0] \cup {0}
               flat == Flat(d, a)
               unit == {t} \X V \X Nat
    <3>3. message.units \in Seq(unit)
      <4>1. flat \in Seq(V) /\ t \in Type
        BY <2>1, <3>2, Zenon
      <4> HIDE DEF flat, V
      <4>2. Bytes(t, flat) \in Seq({t} \X V \X Nat)
        BY <4>1, BytesFacts
      <4> QED
        BY <3>1, <4>2, Zenon DEF flat
    <3>4. message.units[i] \in unit
      <4> HIDE DEF unit
      <4> QED
        BY <2>3, <3>3
    <3> QED
      BY <3>4
  <2>4. \A i \in DOMAIN message.units : message.units[i][1] = t
    <3>1. CASE message = NoMessage
      BY <3>1 DEF NoMessage
    <3>2. CASE Sent
      BY <2>3, <3>2
    <3> QED
      BY <2>2, <3>1, <3>2
  <2>5. ASSUME stage = "sent"
        PROVE  Len(MessageSizes) = Max({1, d})
    <3>1. MessageSizes = Sizes(d, a)
      BY <2>1, <2>5, SentFacts DEF Inv, Stages
    <3>2. CASE d = 0
      <4>1. Len(MessageSizes) = 1
        BY <2>1, <3>1, <3>2, SizeFacts
      <4>2. Max({1, d}) = 1
        BY <3>2 DEF Max
      <4> QED
        BY <4>1, <4>2
    <3>3. CASE d > 0
      <4>1. Len(MessageSizes) = d
        BY <2>1, <3>1, <3>3, SizeFacts
      <4>2. Max({1, d}) = d
        <5> HIDE DEF d
        <5>1. \A x \in {1, d} : (\A y \in {1, d} : x >= y) <=> x = d
          BY <2>1, <3>3
        <5> QED
          BY <5>1, Zenon DEF Max
      <4> QED
        BY <4>1, <4>2
    <3> QED
      BY <2>1, <3>2, <3>3
  <2> QED
    BY <2>1, <2>4, <2>5, Zenon DEF TypeOK
<1> QED
  BY <1>1, InvAlways, PTL

(***************************************************************************)
(* A rectangular array of any dimension and of any sizes, zero included,   *)
(* read from the message with its path, dimension and type, is what was    *)
(* written, and nothing on the way throws; only the copy of elements wider *)
(* than a byte out of a message that leaves the message object may crash   *)
(* (flatten_data, data_from_message and finalise).                         *)
(***************************************************************************)
THEOREM ArraysArriveAsSent == Spec => []RoundTrip
<1>1. Inv => RoundTrip
  <2> SUFFICES ASSUME Inv, Rectangular, Representable, SameAs, SamePath,
                      stage \in {"received", "thrown"}
               PROVE  stage = "received" /\ result = array.value
    <3>1. Inv /\ stage = "crashed" => ReadsBeyond
      BY DEF Inv, Stages
    <3> QED
      BY <3>1, Zenon DEF RoundTrip
  <2>1. stage = "received" /\ Chosen /\ Sent /\ Received
    BY DEF Inv, Stages
  <2>2. target.type = array.type /\ target.dimension = array.dimension
    BY DEF SameAs
  <2>3. array.dimension \in Nat /\ array.dimension \in Dimension
        /\ array.value \in Arrays[array.dimension]
    BY <2>1, ArrayAssumption DEF Chosen
  <2>4. CASE array.dimension = 0
    <3>1. result = CopiedFrom(message.units, 1)[1]
      BY <2>1, <2>2, <2>4, Zenon DEF Received
    <3>2. Elements(array.dimension, array.value) = << array.value >>
      BY <2>4, Zenon DEF Elements
    <3>3. Product(MessageSizes) = 1
      <4>1. Len(Elements(array.dimension, array.value)) = Product(MessageSizes)
        BY <2>1, RectangularSent, Zenon
      <4> QED
        BY <3>2, <4>1
    <3>4. CopiedFrom(message.units, 1)[1] = Elements(array.dimension, array.value)[1]
      <4>1. 1 \in Nat /\ 1 >= 1
        OBVIOUS
      <4> QED
        BY <2>1, <2>2, <3>3, <4>1, ValueBack, Zenon
    <3>5. << array.value >>[1] = array.value
      OBVIOUS
    <3> QED
      BY <2>1, <3>1, <3>2, <3>4, <3>5, Zenon
  <2>5. CASE array.dimension > 0
    <3>1. target.dimension # 0
      BY <2>2, <2>5
    <3>2. result = Nested(MessageSizes, CopiedFrom(message.units, Len(message.units)))
      BY <2>1, <3>1, Zenon DEF Received
    <3>3. result = array.value
      BY <2>1, <2>2, <2>5, <3>2, ArrayBack
    <3> QED
      BY <2>1, <3>3
  <2> QED
    BY <2>3, <2>4, <2>5
<1> QED
  BY <1>1, InvAlways, PTL

LEMMA OneTimes ==
    ASSUME NEW n \in Nat, NEW w \in Nat, w >= 1, n * w = 1 * w
    PROVE  n = 1
<1>1. CASE n = 0
  BY <1>1
<1>2. CASE n >= 2
  <2>1. n * w = w + w + (n - 2) * w
    OBVIOUS
  <2>2. (n - 2) * w >= 0 /\ (n - 2) * w \in Int
    BY <1>2
  <2> QED
    BY <2>1, <2>2
<1> QED
  BY <1>1, <1>2

(* One dimension of size 1 around the first element of flat.               *)
LEMMA NestedOne ==
    ASSUME NEW V, NEW flat \in Seq(V), Len(flat) >= 1
    PROVE  /\ Nested(<< 1 >>, flat) = << flat[1] >>
           /\ Elements(1, << flat[1] >>) = << flat[1] >>
<1>1. Len(<< 1 >>) = 1 /\ 1 - 1 = 0 /\ 0 \in 0 .. 0 /\ 1 \in 1 .. 1 /\ 0 \in Nat /\ 1 \in Nat \ {0}
      /\ 1 # 0
  OBVIOUS
<1>2. Product(<< 1 >>) = 1
  <2>1. << 1 >> \in Seq(Nat) /\ << 1 >>[1] = 1
    OBVIOUS
  <2>2. /\ Product(SubSeq(<< 1 >>, 1, 1)) = Product(SubSeq(<< 1 >>, 1, 1 - 1)) * << 1 >>[1]
        /\ Product(SubSeq(<< 1 >>, 1, 0)) = 1 /\ Product(SubSeq(<< 1 >>, 1, 1)) = Product(<< 1 >>)
    BY <1>1, <2>1, ProductFacts, Zenon
  <2>3. 1 * 1 = 1
    OBVIOUS
  <2> QED
    BY <1>1, <2>1, <2>2, <2>3, Zenon
<1>3. Nested(<< 1 >>, flat) = SubSeq(flat, 1, 1)
  <2> DEFINE s == << 1 >>
             f == CHOOSE g : g = [i \in 0 .. 0 |->
                        IF i = 0 THEN SubSeq(flat, 1, Product(s))
                        ELSE Cut(g[i - 1], Product(SubSeq(s, 1, 1 - i)), s[1 - i + 1])]
  <2>1. \E g : AreBuilt(g, s, flat, 1, 0)
    BY <1>1, BuiltExist
  <2> HIDE DEF s
  <2>2. AreBuilt(f, s, flat, 1, 0)
    BY <2>1, Zenon DEF AreBuilt
  <2>3. Nested(s, flat) = f[0]
    BY <1>1, Zenon DEF Nested, s
  <2> HIDE DEF f
  <2>4. f[0] = SubSeq(flat, 1, Product(s))
    BY <1>1, <2>2, Zenon DEF AreBuilt
  <2> QED
    BY <1>2, <2>3, <2>4, Zenon DEF s
<1>4. SubSeq(flat, 1, 1) = << flat[1] >>
  <2>1. SubSeq(flat, 1, 1) \in Seq(V) /\ Len(SubSeq(flat, 1, 1)) = 1
    OBVIOUS
  <2>2. SubSeq(flat, 1, 1)[1] = flat[1]
    OBVIOUS
  <2>3. /\ << flat[1] >> \in Seq(V) /\ Len(<< flat[1] >>) = 1 /\ << flat[1] >>[1] = flat[1]
        /\ \A i \in 1 .. 1 : i = 1
    OBVIOUS
  <2>4. /\ Len(SubSeq(flat, 1, 1)) = Len(<< flat[1] >>)
        /\ \A i \in 1 .. Len(SubSeq(flat, 1, 1)) : SubSeq(flat, 1, 1)[i] = << flat[1] >>[i]
    BY <2>1, <2>2, <2>3, Zenon
  <2> QED
    BY <2>1, <2>3, <2>4, SameSequence, Zenon
<1>5. ASSUME NEW x
      PROVE  Elements(1, x) = x
  <2>1. AreRows(Rows(1, x), x, 1)
    <3>1. \E g : AreRows(g, x, 1)
      BY <1>1, RowsExist
    <3> QED
      BY <3>1, Zenon DEF AreRows, Rows
  <2>2. Rows(1, x)[1] = x
    BY <1>1, <2>1, Zenon DEF AreRows
  <2> QED
    BY <1>1, <2>2, Zenon DEF Elements
<1> QED
  BY <1>3, <1>4, <1>5, Zenon

(***************************************************************************)
(* Whatever dimension a rectangular array is read as, what a read returns  *)
(* has its elements, in order: only a value and a vector of one element    *)
(* can be read as each other (data_from_message and finalise).             *)
(***************************************************************************)
THEOREM ElementsAreKept == Spec => []ElementsKept
<1>1. Inv => ElementsKept
  <2> SUFFICES ASSUME Inv, stage = "received", Rectangular, target.type = array.type
               PROVE  Elements(target.dimension, result) = Elements(array.dimension, array.value)
    BY Zenon DEF ElementsKept
  <2> DEFINE d == array.dimension
             a == array.value
             e == Elements(d, a)
             n == Product(MessageSizes)
  <2>1. Chosen /\ Sent /\ Received
    BY DEF Inv, Stages
  <2>2. /\ d \in Dimension /\ d \in Nat /\ a \in Arrays[d]
        /\ target.dimension \in Nat /\ array.type \in Type
    BY <2>1, ArrayAssumption DEF Chosen
  <2>3. /\ e \in Seq(Arrays[0]) /\ Len(e) = n /\ n \in Nat
        /\ Len(message.units) = n * Width[array.type]
        /\ Len(message.units) \in Nat /\ Len(message.units) >= n
        /\ Width[array.type] \in Nat /\ Width[array.type] >= 1
    BY <2>1, RectangularSent, Zenon
  <2>4. MessageSizes = Sizes(d, a)
    BY <2>1, SentFacts
  <2>5. n = 1 => e = << e[1] >>
    <3> HIDE DEF n, e
    <3>1. ASSUME n = 1
          PROVE  e = << e[1] >>
      BY <2>3, <3>1
    <3> QED
      BY <3>1
  <2>6. CASE target.dimension = 0
    <3>1. SizeMatches(array.type, 1) /\ result = CopiedFrom(message.units, 1)[1]
      BY <2>1, <2>6, Zenon DEF Received
    <3>2. n = 1
      <4>1. n * Width[array.type] = 1 * Width[array.type]
        BY <2>3, <3>1, Zenon DEF SizeMatches
      <4>2. PICK w \in Nat : w = Width[array.type] /\ w >= 1 /\ n * w = 1 * w
        BY <2>3, <4>1
      <4> HIDE DEF n
      <4> QED
        BY <2>3, <4>2, OneTimes
    <3>3. result = e[1]
      <4>1. 1 \in Nat /\ 1 >= 1
        OBVIOUS
      <4>2. CopiedFrom(message.units, 1)[1] = e[1]
        BY <2>1, <3>2, <4>1, ValueBack, Zenon
      <4> QED
        BY <3>1, <4>2, Zenon
    <3>4. Elements(target.dimension, result) = << result >>
      BY <2>6, Zenon DEF Elements
    <3> QED
      BY <2>5, <3>2, <3>3, <3>4, Zenon
  <2>7. CASE target.dimension > 0
    <3>1. target.dimension # 0
      BY <2>7
    <3>2. /\ Len(MessageSizes) = target.dimension
          /\ result = Nested(MessageSizes, CopiedFrom(message.units, Len(message.units)))
      BY <2>1, <3>1, Zenon DEF Received
    <3>3. CASE d > 0
      <4>1. target.dimension = d
        BY <2>2, <2>4, <3>2, <3>3, SizeFacts
      <4>2. result = a
        BY <2>1, <3>2, <3>3, ArrayBack
      <4> QED
        BY <4>1, <4>2, Zenon
    <3>4. CASE d = 0
      <4>1. MessageSizes = << 1 >> /\ target.dimension = 1
        <5>1. MessageSizes = << 1 >>
          BY <2>2, <2>4, <3>4, SizeFacts
        <5>2. Len(<< 1 >>) = 1
          OBVIOUS
        <5> QED
          BY <3>2, <5>1, <5>2, Zenon
      <4>2. n = 1
        <5>1. e = << a >>
          BY <3>4, Zenon DEF Elements
        <5>2. Len(<< a >>) = 1
          OBVIOUS
        <5> QED
          BY <2>3, <5>1, <5>2, Zenon
      <4> DEFINE m == Len(message.units)
                 values == CopiedFrom(message.units, m)
      <4>3. m \in Nat /\ m >= 1
        BY <2>3, <4>2
      <4>4. values[1] = e[1] /\ values = [i \in 1 .. m |-> values[i]]
        BY <2>1, <4>2, <4>3, ValueBack, Zenon
      <4> HIDE DEF m, values
      <4> DEFINE V == {values[i] : i \in 1 .. m}
      <4>5. values \in Seq(V) /\ Len(values) >= 1
        <5>1. \A i \in 1 .. m : values[i] \in V
          OBVIOUS
        <5> HIDE DEF V
        <5>2. values \in [1 .. m -> V]
          BY <4>4, <5>1
        <5> QED
          BY <4>3, <5>2
      <4> HIDE DEF V
      <4>6. /\ Nested(<< 1 >>, values) = << values[1] >>
            /\ Elements(1, << values[1] >>) = << values[1] >>
        BY <4>5, NestedOne
      <4>7. result = Nested(<< 1 >>, values)
        BY <3>2, <4>1, Zenon DEF values, m
      <4> QED
        BY <2>5, <4>1, <4>2, <4>4, <4>6, <4>7, Zenon
    <3> QED
      BY <2>2, <3>3, <3>4
  <2> QED
    BY <2>2, <2>6, <2>7
<1> QED
  BY <1>1, InvAlways, PTL

(***************************************************************************)
(* What a read copies or returns was written under the path it asked for:  *)
(* the path comes back whole from the text of to_string, because it has no *)
(* semicolon (validate_name) and the numbers of the sizes have none.       *)
(***************************************************************************)
THEOREM PathsAreKept == Spec => []PathKept
<1>1. Inv => PathKept
  <2> SUFFICES ASSUME Inv, stage \in {"copied", "received"}
               PROVE  path.read = path.write
    BY Zenon DEF PathKept
  <2>1. Chosen /\ Sent /\ IsFor(path.read)
    BY DEF Inv, Stages
  <2>2. FromStringView(message.info).name = path.write
    BY <2>1, SentFacts DEF Info
  <2> QED
    BY <2>1, <2>2, Zenon DEF IsFor
<1> QED
  BY <1>1, InvAlways, PTL

(* Memory of the right size holds what was put there.                      *)
LEMMA FirstWhole ==
    ASSUME NEW S, NEW units \in Seq(S)
    PROVE  First(Len(units), units) = units
<1>1. First(Len(units), units) = [i \in 1 .. Len(units) |-> units[i]]
  <2>1. \A i \in 1 .. Len(units) : i <= Len(units)
    OBVIOUS
  <2> QED
    BY <2>1, Zenon DEF First
<1> QED
  BY <1>1

(***************************************************************************)
(* A value or a vector written to a variable with its type and sizes, and  *)
(* read as what it is, comes back from the file (NetCDFPipe::write and     *)
(* read).                                                                  *)
(***************************************************************************)
THEOREM FilesGiveBack == Spec => []FileRoundTrip
<1>1. Inv => FileRoundTrip
  <2> SUFFICES ASSUME Inv, stage = "got", FileMatches, SameAs, array.dimension < 2
               PROVE  result = array.value
    BY Zenon DEF FileRoundTrip
  <2> DEFINE d == array.dimension
             a == array.value
             t == array.type
  <2>1. /\ d \in Dimension /\ a \in Arrays[d] /\ t \in Type /\ d \in {0, 1}
        /\ target.dimension = d /\ target.type = t /\ file.type = t /\ file.sizes = Shape
    <3>1. d \in Dimension /\ a \in Arrays[d] /\ t \in Type
      BY DEF Inv, Chosen
    <3>2. d \in Nat
      BY <3>1, ArrayAssumption, Zenon
    <3>3. d \in {0, 1}
      BY <3>2
    <3>4. target.dimension = d /\ target.type = t
      BY DEF SameAs
    <3> QED
      BY <3>1, <3>3, <3>4, Zenon DEF FileMatches
  <2>2. Stored /\ Got
    BY DEF Inv, Stages
  <2>3. file.units = First(Product(file.sizes) * Width[t], Memory)
    BY <2>1, <2>2, Zenon DEF Stored
  <2>4. CASE d = 0
    <3> DEFINE values == << a >>
    <3>1. values \in Seq(Arrays[0]) /\ Len(values) = 1 /\ values[1] = a
      <4>1. a \in Arrays[0]
        BY <2>1, <2>4, Zenon
      <4> QED
        BY <4>1, Single
    <3>2. file.sizes = << >> /\ Memory = Bytes(t, values)
      BY <2>1, <2>4, Zenon DEF Shape, Memory
    <3> HIDE DEF d, a, t, values
    <3>3. Product(<< >>) = 1
      <4>1. << >> \in Seq(Nat) /\ SubSeq(<< >>, 1, 0) = << >>
        OBVIOUS
      <4> QED
        BY <4>1, ProductFacts, Zenon
    <3>4. file.units = Bytes(t, values)
      <4>1. /\ Bytes(t, values) \in Seq({t} \X Arrays[0] \X Nat)
            /\ Len(Bytes(t, values)) = Len(values) * Width[t]
        BY <2>1, <3>1, BytesFacts
      <4>2. First(Len(Bytes(t, values)), Bytes(t, values)) = Bytes(t, values)
        BY <4>1, FirstWhole
      <4> QED
        BY <2>3, <3>1, <3>2, <3>3, <4>1, <4>2, Zenon
    <3>5. result = Values(t, 1, Bytes(t, values))[1]
      BY <2>1, <2>2, <2>4, <3>4, Zenon DEF Got, CopiedFrom, d, t
    <3>6. Values(t, 1, Bytes(t, values))[1] = values[1]
      <4>1. 1 \in Nat /\ 1 \in 1 .. 1 /\ 1 <= Len(values)
        BY <3>1
      <4>2. \A i \in 1 .. 1 : i <= Len(values) => Values(t, 1, Bytes(t, values))[i] = values[i]
        BY <2>1, <3>1, <4>1, ValuesOfBytes
      <4> QED
        BY <4>1, <4>2, Zenon
    <3> QED
      BY <3>1, <3>5, <3>6, Zenon DEF a
  <2>5. CASE d = 1
    <3>1. /\ file.sizes = Sizes(1, a) /\ Memory = Bytes(t, a) /\ a \in Arrays[1] /\ 1 \in Dimension
          /\ target.dimension = 1
      <4>1. d # 0
        BY <2>5
      <4> QED
        BY <2>1, <2>5, <4>1, Zenon DEF Shape, Memory
    <3> HIDE DEF d, a, t
    <3>2. 1 > 0 /\ 1 - 1 = 0 /\ 1 # 0
      OBVIOUS
    <3>3. a \in Seq(Arrays[0]) /\ Len(a) \in Nat
      <4>1. Arrays[1] \subseteq Seq(Arrays[1 - 1])
        BY <3>1, <3>2, ArrayAssumption, Zenon
      <4>2. a \in Seq(Arrays[0])
        BY <3>1, <3>2, <4>1, Zenon
      <4> QED
        BY <4>2
    <3>4. Len(Sizes(1, a)) = 1 /\ Sizes(1, a)[1] = Len(a)
      BY <3>1, <3>2, SizeFacts, Zenon
    <3>5. HasShape(Sizes(1, a), a)
      <4>1. DOMAIN Sizes(1, a) = {1}
        <5>1. Sizes(1, a) \in Seq(Nat)
          BY <3>1, SizeFacts
        <5> QED
          BY <3>4, <5>1
      <4> QED
        BY <3>4, <4>1, Zenon DEF HasShape
    <3>6. /\ NumberOfElements(Sizes(1, a)) = Product(Sizes(1, a)) /\ Product(Sizes(1, a)) \in Nat
          /\ Len(Elements(1, a)) = Product(Sizes(1, a))
      <4>1. Len(Elements(1, a)) = Product(Sizes(1, a))
        BY <3>1, <3>5, RectangularFlat
      <4> QED
        BY <3>1, <4>1, FlatType
    <3>7. Elements(1, a) = a
      BY <3>1, <3>2, RowFacts, Zenon DEF Elements
    <3> DEFINE n == Product(Sizes(1, a))
               values == Values(t, n, Bytes(t, a))
    <3>8. n = Len(a) /\ n \in Nat
      BY <3>6, <3>7, Zenon
    <3> HIDE DEF n
    <3>9. file.units = Bytes(t, a)
      <4>1. /\ Bytes(t, a) \in Seq({t} \X Arrays[0] \X Nat)
            /\ Len(Bytes(t, a)) = Len(a) * Width[t]
        BY <2>1, <3>3, BytesFacts
      <4>2. First(Len(Bytes(t, a)), Bytes(t, a)) = Bytes(t, a)
        BY <4>1, FirstWhole
      <4> QED
        BY <2>3, <3>1, <3>8, <4>1, <4>2, Zenon DEF n
    <3>10. result = Nested(Sizes(1, a), values)
      BY <2>1, <2>2, <3>1, <3>2, <3>6, <3>9, Zenon DEF Got, CopiedFrom, n
    <3>11. /\ Len(values) = n /\ values = [i \in 1 .. n |-> values[i]]
           /\ \A i \in 1 .. n : i <= Len(a) => values[i] = a[i]
      BY <2>1, <3>3, <3>8, ValuesOfBytes
    <3> HIDE DEF values
    <3> DEFINE V == {values[i] : i \in 1 .. n}
    <3>12. values \in Seq(V)
      <4>1. \A i \in 1 .. n : values[i] \in V
        OBVIOUS
      <4> HIDE DEF V
      <4>2. values \in [1 .. n -> V]
        BY <3>11, <4>1
      <4> QED
        BY <3>8, <4>2
    <3> HIDE DEF V
    <3>13. Len(values) >= n /\ \A i \in 1 .. n : values[i] = a[i]
      BY <3>8, <3>11
    <3>14. /\ Len(values) >= Product(Sizes(1, a))
           /\ \A i \in 1 .. Product(Sizes(1, a)) : values[i] = Elements(1, a)[i]
      BY <3>7, <3>13, Zenon DEF n
    <3>15. Nested(Sizes(1, a), values) = a
      BY <3>1, <3>2, <3>5, <3>12, <3>14, NestedElements, Zenon
    <3> QED
      BY <3>10, <3>15, Zenon DEF a
  <2> QED
    BY <2>1, <2>4, <2>5
<1> QED
  BY <1>1, InvAlways, PTL
=============================================================================
