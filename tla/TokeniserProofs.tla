-------------------------- MODULE TokeniserProofs --------------------------
(***************************************************************************)
(* The tokeniser finds the tokens of every text, each once and in order,   *)
(* with the right line numbers: the proof that Scanned is inductive, for   *)
(* texts of any length.                                                    *)
(***************************************************************************)
EXTENDS Tokeniser, UtilitiesProofs

-----------------------------------------------------------------------------
(* The context of a character, from that of the one before it.             *)
Following(context, i) ==
    CASE context = "code" -> IF input[i] = "quote" THEN "string"
                             ELSE IF Opens(i) THEN "comment" ELSE "code"
      [] context = "string" -> IF input[i] = "quote" THEN "code" ELSE "string"
      [] context = "comment" -> IF input[i] = "newline" THEN "code" ELSE "comment"

(* The function that Context is, up to the n-th character.                 *)
IsContext(f, n) ==
    /\ f \in [1 .. n -> {"code", "string", "comment"}]
    /\ f[1] = "code"
    /\ \A i \in 1 .. n - 1 : f[i + 1] = Following(f[i], i)

LEMMA ContextExists ==
    ASSUME NEW n \in Nat, n > 0
    PROVE  \E f : IsContext(f, n)
<1> DEFINE without == {k \in Nat : k > 0 /\ ~ \E f : IsContext(f, k)}
<1>1. CASE without = {}
  BY <1>1
<1>2. CASE without # {}
  <2>1. PICK k \in without : \A y \in without : ~ (y < k)
    BY <1>2, LeastNumber
  <2>2. k # 1
    <3>1. IsContext([i \in 1 .. 1 |-> "code"], 1)
      BY DEF IsContext
    <3> QED
      BY <3>1
  <2>3. PICK f : IsContext(f, k - 1)
    BY <2>1, <2>2
  <2> DEFINE x == Following(f[k - 1], k - 1)
             g == [i \in 1 .. k |-> IF i = k THEN x ELSE f[i]]
  <2>4. x \in {"code", "string", "comment"}
    BY <2>1, <2>2, <2>3 DEF IsContext, Following
  <2>5. IsContext(g, k)
    <3> HIDE DEF x
    <3>1. g \in [1 .. k -> {"code", "string", "comment"}] /\ g[1] = "code"
      BY <2>1, <2>2, <2>3, <2>4 DEF IsContext
    <3>2. ASSUME NEW i \in 1 .. k - 1
          PROVE  g[i + 1] = Following(g[i], i)
      <4>1. g[i] = f[i]
        BY <2>1, <2>2
      <4>2. CASE i = k - 1
        BY <2>1, <2>2, <4>1, <4>2 DEF x
      <4>3. CASE i # k - 1
        BY <2>1, <2>2, <2>3, <4>1, <4>3 DEF IsContext
      <4> QED
        BY <4>2, <4>3
    <3> QED
      BY <3>1, <3>2 DEF IsContext
  <2> QED
    BY <2>5
<1> QED
  BY <1>1, <1>2

LEMMA ContextFacts ==
    ASSUME input \in Seq(Character)
    PROVE  IsContext(Context, Len(input) + 1)
<1> DEFINE n == Len(input) + 1
<1>1. PICK f : IsContext(f, n)
  BY ContextExists
<1>2. f = [i \in 1 .. n |->
             IF i = 1 THEN "code"
             ELSE CASE f[i - 1] = "code" ->
                         IF input[i - 1] = "quote" THEN "string"
                         ELSE IF Opens(i - 1) THEN "comment" ELSE "code"
                    [] f[i - 1] = "string" ->
                         IF input[i - 1] = "quote" THEN "code" ELSE "string"
                    [] f[i - 1] = "comment" ->
                         IF input[i - 1] = "newline" THEN "code" ELSE "comment"]
  <2>1. ASSUME NEW i \in 1 .. n, i # 1
        PROVE  f[i] = Following(f[i - 1], i - 1)
    BY <1>1, <2>1 DEF IsContext
  <2> QED
    BY <1>1, <2>1 DEF IsContext, Following
<1>3. Context = [i \in 1 .. n |->
             IF i = 1 THEN "code"
             ELSE CASE Context[i - 1] = "code" ->
                         IF input[i - 1] = "quote" THEN "string"
                         ELSE IF Opens(i - 1) THEN "comment" ELSE "code"
                    [] Context[i - 1] = "string" ->
                         IF input[i - 1] = "quote" THEN "code" ELSE "string"
                    [] Context[i - 1] = "comment" ->
                         IF input[i - 1] = "newline" THEN "code" ELSE "comment"]
  BY <1>2, Zenon DEF Context
<1>4. \A i \in 1 .. n : Context[i] = f[i]
  <2> DEFINE differ == {k \in 1 .. n : Context[k] # f[k]}
  <2>1. CASE differ = {}
    BY <2>1
  <2>2. CASE differ # {}
    <3>1. differ \in SUBSET Nat
      OBVIOUS
    <3>2. PICK k \in differ : \A y \in differ : ~ (y < k)
      BY <2>2, <3>1, LeastNumber
    <3>3. k # 1
      BY <1>2, <1>3, <3>2
    <3>4. k - 1 \in 1 .. n /\ Context[k - 1] = f[k - 1]
      BY <3>2, <3>3
    <3>5. Context[k] = Following(Context[k - 1], k - 1)
      BY <1>3, <3>2, <3>3 DEF Following
    <3>6. f[k] = Following(f[k - 1], k - 1)
      BY <1>2, <3>2, <3>3 DEF Following
    <3> QED
      BY <3>2, <3>4, <3>5, <3>6
  <2> QED
    BY <2>1, <2>2
<1>5. DOMAIN Context = 1 .. n
  BY <1>3
<1>6. Context = [i \in 1 .. n |-> Context[i]]
  BY <1>3
<1> QED
  BY <1>1, <1>4, <1>6 DEF IsContext

-----------------------------------------------------------------------------
(* The text stays, and all that is defined by it.                          *)
LEMMA TextStays ==
    ASSUME input' = input
    PROVE  /\ Context' = Context /\ TokensIn' = TokensIn
           /\ \A i : InWord(i)' <=> InWord(i)
           /\ \A i : Newlines(i)' = Newlines(i)
<1>1. \A i : Opens(i)' <=> Opens(i)
  BY DEF Opens
<1>2. Context' = Context
  BY <1>1 DEF Context, Opens
<1>3. \A i : InWord(i)' <=> InWord(i)
  BY <1>1, <1>2 DEF InWord
<1>4. Words' = Words
  BY <1>3 DEF Words
<1>5. Marks' = Marks
  BY <1>2 DEF Marks
<1>6. Strings' = Strings
  BY <1>2 DEF Strings
<1> QED
  BY <1>2, <1>3, <1>4, <1>5, <1>6 DEF TokensIn, Newlines

-----------------------------------------------------------------------------
(* Where a token can stand, by its first and last character.               *)
WordAt(a, b) == /\ a <= b /\ b < Len(input)
                /\ \A i \in a .. b : InWord(i)
                /\ ~ InWord(a - 1) /\ ~ InWord(b + 1)
MarkAt(a, b) == a = b /\ Context[a] = "code" /\ input[a] \in Punctuation
StringAt(a, b) == /\ a < b /\ Context[a] = "code" /\ input[a] = "quote"
                  /\ \A i \in a + 1 .. b : Context[i] = "string"
                  /\ input[b] = "quote"

LEMMA TokenIsAt ==
    ASSUME NEW t \in TokensIn, input \in Seq(Character)
    PROVE  /\ t = << t[1], t[2] >>
           /\ t[1] \in 1 .. Len(input) /\ t[2] \in 1 .. Len(input)
           /\ WordAt(t[1], t[2]) \/ MarkAt(t[1], t[2]) \/ StringAt(t[1], t[2])
<1>1. CASE t \in Words
  BY <1>1 DEF Words, WordAt
<1>2. CASE t \in Marks
  BY <1>2 DEF Marks, MarkAt
<1>3. CASE t \in Strings
  BY <1>3 DEF Strings, StringAt
<1> QED
  BY <1>1, <1>2, <1>3 DEF TokensIn

LEMMA TokenAtIs ==
    ASSUME NEW a \in 1 .. Len(input), NEW b \in 1 .. Len(input),
           WordAt(a, b) \/ MarkAt(a, b) \/ StringAt(a, b)
    PROVE  << a, b >> \in TokensIn
<1>1. CASE WordAt(a, b)
  BY <1>1 DEF Words, WordAt, TokensIn
<1>2. CASE MarkAt(a, b)
  BY <1>2 DEF Marks, MarkAt, TokensIn
<1>3. CASE StringAt(a, b)
  BY <1>3 DEF Strings, StringAt, TokensIn
<1> QED
  BY <1>1, <1>2, <1>3

(* The character a token ends with.                                        *)
LEMMA TokenEnds ==
    ASSUME NEW t \in TokensIn, input \in Seq(Character)
    PROVE  \/ InWord(t[2]) /\ ~ InWord(t[2] + 1) /\ WordAt(t[1], t[2])
           \/ Context[t[2]] = "code" /\ input[t[2]] \in Punctuation /\ t[1] = t[2]
           \/ Context[t[2]] = "string" /\ input[t[2]] = "quote" /\ StringAt(t[1], t[2])
<1>1. /\ t[1] \in 1 .. Len(input) /\ t[2] \in 1 .. Len(input)
      /\ WordAt(t[1], t[2]) \/ MarkAt(t[1], t[2]) \/ StringAt(t[1], t[2])
  BY TokenIsAt
<1>2. CASE WordAt(t[1], t[2])
  BY <1>1, <1>2 DEF WordAt
<1>3. CASE MarkAt(t[1], t[2])
  BY <1>1, <1>3 DEF MarkAt
<1>4. CASE StringAt(t[1], t[2])
  BY <1>1, <1>4 DEF StringAt
<1> QED
  BY <1>1, <1>2, <1>3, <1>4

-----------------------------------------------------------------------------
(* Newlines, counted one character at a time.                              *)
LEMMA NewlinesCount ==
    ASSUME NEW i \in Nat
    PROVE  /\ Newlines(0) = {} /\ Cardinality(Newlines(0)) = 0
           /\ IsFiniteSet(Newlines(i)) /\ Cardinality(Newlines(i)) \in Nat
           /\ Cardinality(Newlines(i)) <= i
           /\ Cardinality(Newlines(i + 1)) =
                Cardinality(Newlines(i)) + (IF input[i + 1] = "newline" THEN 1 ELSE 0)
<1>1. Newlines(0) = {} /\ Cardinality(Newlines(0)) = 0
  BY FS_EmptySet DEF Newlines
<1>2. IsFiniteSet(1 .. i) /\ Cardinality(1 .. i) = i
  BY FS_Interval
<1>3. Newlines(i) \in SUBSET (1 .. i)
  BY DEF Newlines
<1>4. IsFiniteSet(Newlines(i)) /\ Cardinality(Newlines(i)) <= i
  BY <1>2, <1>3, FS_Subset
<1>5. Cardinality(Newlines(i)) \in Nat
  BY <1>4, FS_CardinalityType
<1>6. CASE input[i + 1] = "newline"
  <2>1. Newlines(i + 1) = Newlines(i) \cup {i + 1}
    BY <1>6 DEF Newlines
  <2>2. i + 1 \notin Newlines(i)
    BY DEF Newlines
  <2>3. Cardinality(Newlines(i) \cup {i + 1}) = Cardinality(Newlines(i)) + 1
    BY <1>4, <2>2, FS_AddElement
  <2> QED
    BY <1>1, <1>4, <1>5, <1>6, <2>1, <2>3
<1>7. CASE input[i + 1] # "newline"
  <2>1. Newlines(i + 1) = Newlines(i)
    BY <1>7 DEF Newlines
  <2> QED
    BY <1>1, <1>4, <1>5, <1>7, <2>1
<1> QED
  BY <1>6, <1>7

-----------------------------------------------------------------------------
(***************************************************************************)
(* What has been done when the tokens s are made and the text up to        *)
(* character w is dealt with: s is the tokens that end before w, in order, *)
(* each once, with their lines.                                            *)
(***************************************************************************)
TokenType == [first : Nat, last : Nat, line : Nat, column : Nat]

Covered(s, i) == \E j \in DOMAIN s : s[j].first <= i /\ i <= s[j].last

Made(s, w) ==
    /\ s \in Seq(TokenType)
    /\ \A i \in DOMAIN s : /\ 1 <= s[i].first /\ s[i].first <= s[i].last /\ s[i].last < w
                           /\ << s[i].first, s[i].last >> \in TokensIn
                           /\ s[i].line = Cardinality(Newlines(s[i].last))
    /\ \A i, j \in DOMAIN s : i < j => s[i].last < s[j].first
    /\ \A t \in TokensIn : t[2] < w => \E i \in DOMAIN s : t = << s[i].first, s[i].last >>
    /\ \A i \in 1 .. w - 1 : InWord(i) => Covered(s, i)

LEMMA AppendFacts ==
    ASSUME NEW S, NEW s \in Seq(S), NEW x \in S
    PROVE  /\ Append(s, x) \in Seq(S)
           /\ Len(s) \in Nat /\ DOMAIN s = 1 .. Len(s)
           /\ DOMAIN Append(s, x) = 1 .. Len(s) + 1
           /\ Append(s, x)[Len(s) + 1] = x
           /\ \A i \in 1 .. Len(s) : Append(s, x)[i] = s[i]
  OBVIOUS

(* The tokens made have numbers for their characters.                      *)
LEMMA MadeTypes ==
    ASSUME NEW s, NEW w, Made(s, w), NEW i \in DOMAIN s
    PROVE  /\ s[i].first \in Nat /\ s[i].last \in Nat
           /\ s[i].line \in Nat /\ s[i].column \in Nat
<1>1. s[i] \in TokenType
  BY DEF Made
<1> QED
  BY <1>1 DEF TokenType

(* A token more, the only one that ends in the text it moves over.         *)
LEMMA MadeAppend ==
    ASSUME input \in Seq(Character),
           NEW s, NEW w \in Nat, NEW v \in Nat, Made(s, w),
           NEW x \in TokenType, 1 <= x.first, w <= x.first, x.first <= x.last, x.last < v,
           << x.first, x.last >> \in TokensIn,
           x.line = Cardinality(Newlines(x.last)),
           \A t \in TokensIn : w <= t[2] /\ t[2] < v => t = << x.first, x.last >>,
           \A i \in w .. v - 1 : InWord(i) => x.first <= i /\ i <= x.last
    PROVE  Made(Append(s, x), v)
<1> DEFINE a == Append(s, x)
           n == Len(s)
<1>1. /\ a \in Seq(TokenType) /\ n \in Nat /\ DOMAIN s = 1 .. n /\ DOMAIN a = 1 .. n + 1
      /\ a[n + 1] = x /\ \A i \in 1 .. n : a[i] = s[i]
  BY AppendFacts DEF Made
<1>2. x.first \in Nat /\ x.last \in Nat
  BY DEF TokenType
<1>3. \A i \in 1 .. n : s[i].first \in Nat /\ s[i].last \in Nat /\ s[i].last < w
  BY <1>1, MadeTypes DEF Made
<1> HIDE DEF a, n
<1>4. ASSUME NEW i \in DOMAIN a
      PROVE  /\ 1 <= a[i].first /\ a[i].first <= a[i].last /\ a[i].last < v
             /\ << a[i].first, a[i].last >> \in TokensIn
             /\ a[i].line = Cardinality(Newlines(a[i].last))
  <2>1. CASE i = n + 1
    <3>1. a[i] = x
      BY <1>1, <2>1
    <3> QED
      BY <3>1
  <2>2. CASE i # n + 1
    <3>1. i \in DOMAIN s /\ i \in 1 .. n /\ a[i] = s[i]
      BY <1>1, <2>2
    <3>2. /\ 1 <= s[i].first /\ s[i].first <= s[i].last /\ s[i].last < w
          /\ << s[i].first, s[i].last >> \in TokensIn
          /\ s[i].line = Cardinality(Newlines(s[i].last))
      BY <3>1 DEF Made
    <3> QED
      BY <1>2, <1>3, <3>1, <3>2
  <2> QED
    BY <2>1, <2>2
<1>5. ASSUME NEW i \in DOMAIN a, NEW j \in DOMAIN a, i < j
      PROVE  a[i].last < a[j].first
  <2>1. i \in 1 .. n /\ a[i] = s[i]
    BY <1>1, <1>5
  <2>2. CASE j = n + 1
    BY <1>1, <1>2, <1>3, <2>1, <2>2
  <2>3. CASE j # n + 1
    <3>1. j \in DOMAIN s /\ a[j] = s[j]
      BY <1>1, <2>3
    <3> QED
      BY <1>1, <1>5, <2>1, <3>1 DEF Made
  <2> QED
    BY <2>2, <2>3
<1>6. ASSUME NEW t \in TokensIn, t[2] < v
      PROVE  \E i \in DOMAIN a : t = << a[i].first, a[i].last >>
  <2>1. t[2] \in Nat
    BY TokenIsAt
  <2>2. CASE t[2] < w
    <3>1. PICK i \in DOMAIN s : t = << s[i].first, s[i].last >>
      BY <2>2 DEF Made
    <3>2. i \in DOMAIN a /\ a[i] = s[i]
      BY <1>1
    <3> QED
      BY <3>1, <3>2
  <2>3. CASE w <= t[2]
    BY <1>1, <1>6, <2>3
  <2> QED
    BY <2>1, <2>2, <2>3
<1>7. ASSUME NEW i \in 1 .. v - 1, InWord(i)
      PROVE  Covered(a, i)
  <2>1. CASE i < w
    <3>1. PICK j \in DOMAIN s : s[j].first <= i /\ i <= s[j].last
      BY <1>7, <2>1 DEF Made, Covered
    <3> QED
      BY <1>1, <3>1 DEF Covered
  <2>2. CASE w <= i
    BY <1>1, <1>7, <2>2 DEF Covered
  <2> QED
    BY <2>1, <2>2
<1>8. Made(a, v)
  BY <1>1, <1>4, <1>5, <1>6, <1>7 DEF Made
<1> QED
  BY <1>8 DEF a

(* No token more: none ends in the text that is moved over.                *)
LEMMA MadeSkip ==
    ASSUME input \in Seq(Character),
           NEW s, NEW w \in Nat, NEW v \in Nat, Made(s, w), w <= v,
           \A t \in TokensIn : ~ (w <= t[2] /\ t[2] < v),
           \A i \in w .. v - 1 : ~ InWord(i)
    PROVE  Made(s, v)
<1>1. \A i \in DOMAIN s : s[i].last \in Nat
  BY MadeTypes
<1>2. \A t \in TokensIn : t[2] \in Nat
  BY TokenIsAt
<1>3. \A t \in TokensIn : t[2] < v => \E i \in DOMAIN s : t = << s[i].first, s[i].last >>
  BY <1>2 DEF Made
<1>4. \A i \in 1 .. v - 1 : InWord(i) => Covered(s, i)
  BY DEF Made
<1>5. ASSUME NEW i \in DOMAIN s
      PROVE  s[i].last < v
  <2>1. s[i].last < w
    BY DEF Made
  <2> QED
    BY <1>1, <2>1
<1> QED
  BY <1>3, <1>4, <1>5 DEF Made

-----------------------------------------------------------------------------
(***************************************************************************)
(* The inductive invariant: Scanned with the types, and with what the      *)
(* tokens made are put in one formula.                                     *)
(***************************************************************************)
Typed ==
    /\ given \in Seq(Character) /\ input \in Seq(Character)
    /\ input \in {given, ReadFile(given)}
    /\ Len(input) <= MaxLength + 1
    /\ cursor \in 1 .. Len(input) + 1
    /\ word_start \in 1 .. cursor
    /\ column \in Nat /\ column < cursor
    /\ mode \in {"tokenise", "pick_string", "pick_comment", "done"}
    /\ line = Cardinality(Newlines(cursor - 1))

Ended ==
    mode = "done" =>
        /\ AtEnd
        /\ \A t \in TokensIn : t[2] < word_start
        /\ Pending = {} \/ InWord(Len(input)) \/ \A i \in Pending : ~ InWord(i)

Walked ==
    /\ Typed
    /\ InContext /\ PendingWord /\ PendingString /\ PendingComment
    /\ Made(tokens, word_start)
    /\ Ended

LEMMA TypedFacts ==
    ASSUME Typed
    PROVE  /\ input \in Seq(Character) /\ Len(input) \in Nat
           /\ cursor \in Nat /\ word_start \in Nat /\ 1 <= word_start /\ word_start <= cursor
           /\ cursor <= Len(input) + 1
           /\ line \in Nat /\ line < cursor /\ column \in Nat /\ column < cursor
<1>1. /\ input \in Seq(Character) /\ Len(input) \in Nat
      /\ cursor \in Nat /\ word_start \in Nat /\ 1 <= word_start /\ word_start <= cursor
      /\ cursor <= Len(input) + 1 /\ column \in Nat /\ column < cursor
      /\ line = Cardinality(Newlines(cursor - 1))
  BY DEF Typed
<1>2. cursor - 1 \in Nat
  BY <1>1
<1>3. Cardinality(Newlines(cursor - 1)) \in Nat /\ Cardinality(Newlines(cursor - 1)) <= cursor - 1
  BY <1>2, NewlinesCount
<1> QED
  BY <1>1, <1>3

LEMMA WalkedIsEnough ==
    ASSUME Walked
    PROVE  TypeOK /\ Scanned
<1>1. /\ input \in Seq(Character) /\ Len(input) \in Nat
      /\ cursor \in Nat /\ word_start \in Nat /\ 1 <= word_start /\ word_start <= cursor
      /\ cursor <= Len(input) + 1
      /\ line \in Nat /\ line < cursor /\ column \in Nat /\ column < cursor
  BY TypedFacts DEF Walked
<1>2. /\ tokens \in Seq(TokenType)
      /\ \A i \in DOMAIN tokens :
            /\ 1 <= tokens[i].first /\ tokens[i].first <= tokens[i].last
            /\ tokens[i].last < word_start
            /\ << tokens[i].first, tokens[i].last >> \in TokensIn
            /\ tokens[i].line = Cardinality(Newlines(tokens[i].last))
      /\ \A i, j \in DOMAIN tokens : i < j => tokens[i].last < tokens[j].first
      /\ \A t \in TokensIn : t[2] < word_start =>
            \E i \in DOMAIN tokens : t = << tokens[i].first, tokens[i].last >>
      /\ \A i \in 1 .. word_start - 1 : InWord(i) => Covered(tokens, i)
  BY DEF Walked, Made
<1>3. TypeOK
  <2>1. ASSUME NEW i \in DOMAIN tokens
        PROVE  /\ 1 <= tokens[i].first /\ tokens[i].first <= tokens[i].last
               /\ tokens[i].last < cursor
    <3>1. tokens[i].last \in Nat
      BY MadeTypes DEF Walked
    <3>2. /\ 1 <= tokens[i].first /\ tokens[i].first <= tokens[i].last
          /\ tokens[i].last < word_start
      BY <1>2
    <3> QED
      BY <1>1, <3>1, <3>2
  <2>2. line \in 0 .. MaxLength + 1 /\ column \in 0 .. MaxLength + 1
    BY <1>1, LengthAssumption DEF Walked, Typed
  <2> QED
    BY <2>1, <2>2 DEF Walked, Typed, TypeOK
<1>4. Found = {t \in TokensIn : t[2] < word_start}
  BY <1>2 DEF Found
<1>5. ASSUME NEW i \in 1 .. word_start - 1, InWord(i)
      PROVE  \E t \in ToSet(tokens) : t.first <= i /\ i <= t.last
  <2>1. PICK j \in DOMAIN tokens : tokens[j].first <= i /\ i <= tokens[j].last
    BY <1>2, <1>5 DEF Covered
  <2> QED
    BY <2>1 DEF ToSet
<1>6. InOrder /\ LinesOfText
  BY <1>2 DEF InOrder, LinesOfText
<1> QED
  BY <1>3, <1>4, <1>5, <1>6 DEF Walked, Typed, Ended, Scanned

LEMMA CharacterFacts ==
    ASSUME input \in Seq(Character), NEW i \in 1 .. Len(input)
    PROVE  /\ input[i] \in Character
           /\ Context[i] \in {"code", "string", "comment"}
           /\ Context[1] = "code"
           /\ Context[i + 1] = Following(Context[i], i)
<1>1. IsContext(Context, Len(input) + 1)
  BY ContextFacts
<1>2. Len(input) \in Nat /\ i \in 1 .. Len(input) + 1 - 1 /\ i \in 1 .. Len(input) + 1
  OBVIOUS
<1>3. Context[i] \in {"code", "string", "comment"}
  BY <1>1, <1>2 DEF IsContext
<1>4. Context[1] = "code" /\ Context[i + 1] = Following(Context[i], i)
  BY <1>1, <1>2 DEF IsContext
<1> QED
  BY <1>3, <1>4

-----------------------------------------------------------------------------
(* The word before the cursor is the only token that ends in it, once it   *)
(* is over; while it goes on no token does.                                *)
LEMMA WordEnds ==
    ASSUME Walked, mode = "tokenise"
    PROVE  /\ \A t \in TokensIn : word_start <= t[2] /\ t[2] < cursor =>
                  t = << word_start, cursor - 1 >> /\ ~ InWord(cursor)
           /\ word_start < cursor /\ ~ AtEnd /\ ~ InWord(cursor) =>
                  << word_start, cursor - 1 >> \in TokensIn
<1>1. /\ input \in Seq(Character) /\ Len(input) \in Nat
      /\ cursor \in Nat /\ word_start \in Nat /\ 1 <= word_start /\ word_start <= cursor
      /\ cursor <= Len(input) + 1
  BY TypedFacts DEF Walked
<1>2. ~ InWord(word_start - 1) /\ \A i \in word_start .. cursor - 1 : InWord(i)
  BY DEF Walked, PendingWord, Pending
<1>3. ASSUME NEW t \in TokensIn, word_start <= t[2], t[2] < cursor
      PROVE  t = << word_start, cursor - 1 >> /\ ~ InWord(cursor)
  <2>1. t = << t[1], t[2] >> /\ t[1] \in 1 .. Len(input) /\ t[2] \in 1 .. Len(input)
    BY <1>1, TokenIsAt
  <2>2. InWord(t[2])
    BY <1>1, <1>2, <1>3, <2>1
  <2>3. ~ InWord(t[2] + 1) /\ WordAt(t[1], t[2])
    BY <1>1, <2>2, TokenEnds DEF InWord, Punctuation
  <2>4. t[2] = cursor - 1
    BY <1>1, <1>2, <1>3, <2>1, <2>3
  <2>5. t[1] = word_start
    <3>1. CASE t[1] < word_start
      <4>1. word_start - 1 \in t[1] .. t[2]
        BY <1>1, <1>3, <2>1, <3>1
      <4> QED
        BY <1>2, <2>3, <4>1 DEF WordAt
    <3>2. CASE t[1] > word_start
      <4>1. t[1] <= t[2]
        BY <2>3 DEF WordAt
      <4>2. t[1] - 1 \in word_start .. cursor - 1
        BY <1>1, <2>1, <2>4, <3>2, <4>1
      <4> QED
        BY <1>2, <2>3, <4>2 DEF WordAt
    <3> QED
      BY <1>1, <2>1, <3>1, <3>2
  <2> QED
    BY <1>1, <2>1, <2>3, <2>4, <2>5
<1>4. ASSUME word_start < cursor, ~ AtEnd, ~ InWord(cursor)
      PROVE  << word_start, cursor - 1 >> \in TokensIn
  <2>1. word_start \in 1 .. Len(input) /\ cursor - 1 \in 1 .. Len(input)
    BY <1>1, <1>4
  <2>2. WordAt(word_start, cursor - 1)
    BY <1>1, <1>2, <1>4 DEF WordAt, AtEnd
  <2> QED
    BY <2>1, <2>2, TokenAtIs
<1> QED
  BY <1>3, <1>4

(* stop_word: what is made when the word is over.                          *)
LEMMA WordStopped ==
    ASSUME Walked, mode = "tokenise", ~ AtEnd, ~ InWord(cursor)
    PROVE  Made(tokens \o Word, cursor)
<1>1. /\ input \in Seq(Character) /\ Len(input) \in Nat
      /\ cursor \in Nat /\ word_start \in Nat /\ 1 <= word_start /\ word_start <= cursor
      /\ line \in Nat /\ column \in Nat
  BY TypedFacts DEF Walked
<1>2. Made(tokens, word_start) /\ tokens \in Seq(TokenType)
  BY DEF Walked, Made
<1>3. CASE cursor = word_start
  <2>1. Word = << >>
    BY <1>1, <1>3 DEF Word
  <2>2. tokens \o Word = tokens
    BY <1>2, <2>1
  <2> QED
    BY <1>2, <1>3, <2>2
<1>4. CASE cursor > word_start
  <2> DEFINE x == [first |-> word_start, last |-> cursor - 1, line |-> line, column |-> column]
  <2>1. Word = << x >>
    BY <1>1, <1>4 DEF Word, Token
  <2>2. x \in TokenType
    BY <1>1, <1>4 DEF TokenType
  <2>3. x.first = word_start /\ x.last = cursor - 1 /\ x.line = Cardinality(Newlines(cursor - 1))
    BY DEF Walked, Typed
  <2> HIDE DEF x
  <2>4. tokens \o << x >> = Append(tokens, x)
    BY <1>2, <2>2
  <2>5. << x.first, x.last >> \in TokensIn
    BY <1>1, <1>4, <2>3, WordEnds
  <2>6. \A t \in TokensIn : word_start <= t[2] /\ t[2] < cursor => t = << x.first, x.last >>
    BY <2>3, WordEnds
  <2>7. 1 <= x.first /\ word_start <= x.first /\ x.first <= x.last /\ x.last < cursor
    BY <1>1, <1>4, <2>3
  <2>8. \A i \in word_start .. cursor - 1 : InWord(i) => x.first <= i /\ i <= x.last
    BY <1>1, <2>3
  <2>9. x.line = Cardinality(Newlines(x.last))
    BY <2>3
  <2>10. Made(Append(tokens, x), cursor)
    BY <1>1, <1>2, <2>2, <2>5, <2>6, <2>7, <2>8, <2>9, MadeAppend
  <2> QED
    BY <2>1, <2>4, <2>10
<1> QED
  BY <1>1, <1>3, <1>4

(* Past a character that no token ends with.                               *)
LEMMA CharacterSkipped ==
    ASSUME input \in Seq(Character), NEW s, NEW i \in 1 .. Len(input), Made(s, i),
           ~ InWord(i), Context[i] = "code", input[i] \notin Punctuation
    PROVE  Made(s, i + 1)
<1>1. ASSUME NEW t \in TokensIn, i <= t[2], t[2] < i + 1
      PROVE  FALSE
  <2>1. t[2] \in 1 .. Len(input)
    BY TokenIsAt
  <2>2. t[2] = i
    BY <1>1, <2>1
  <2> QED
    BY <2>2, TokenEnds
<1>2. \A j \in i .. i + 1 - 1 : ~ InWord(j)
  OBVIOUS
<1>3. i \in Nat /\ i + 1 \in Nat /\ i <= i + 1
  OBVIOUS
<1> QED
  BY <1>1, <1>2, <1>3, MadeSkip

-----------------------------------------------------------------------------
(* The steps.  What every turn of a loop keeps:                            *)
LEMMA PopTyped ==
    ASSUME Walked, ~ AtEnd, Pop, given' = given, input' = input,
           mode' \in {"tokenise", "pick_string", "pick_comment", "done"},
           word_start' \in 1 .. cursor + 1
    PROVE  /\ Typed'
           /\ cursor' = cursor + 1 /\ cursor \in 1 .. Len(input)
           /\ line' = Cardinality(Newlines(cursor))
<1>1. /\ input \in Seq(Character) /\ Len(input) \in Nat
      /\ cursor \in Nat /\ word_start \in Nat /\ 1 <= word_start /\ word_start <= cursor
      /\ cursor <= Len(input) + 1
      /\ line \in Nat /\ column \in Nat /\ column < cursor
  BY TypedFacts DEF Walked
<1>2. cursor \in 1 .. Len(input) /\ cursor' = cursor + 1
  BY <1>1 DEF AtEnd, Pop
<1>3. Cardinality(Newlines(cursor)) =
          Cardinality(Newlines(cursor - 1)) + (IF input[cursor] = "newline" THEN 1 ELSE 0)
  <2>1. cursor - 1 \in Nat /\ cursor - 1 + 1 = cursor
    BY <1>1
  <2> QED
    BY <2>1, NewlinesCount
<1>4. line' = Cardinality(Newlines(cursor))
  <2>1. line = Cardinality(Newlines(cursor - 1))
    BY DEF Walked, Typed
  <2>2. line' = line + (IF input[cursor] = "newline" THEN 1 ELSE 0)
    BY <1>1 DEF Pop, Current
  <2> QED
    BY <1>3, <2>1, <2>2
<1>5. line' = Cardinality(Newlines(cursor - 1))'
  <2>1. cursor' - 1 = cursor
    BY <1>1, <1>2
  <2> QED
    BY <1>4, <2>1 DEF Newlines
<1>6. column' \in Nat /\ column' < cursor'
  BY <1>1, <1>2 DEF Pop
<1>7. /\ cursor' \in 1 .. Len(input') + 1 /\ word_start' \in 1 .. cursor'
  BY <1>1, <1>2
<1>8. /\ given' \in Seq(Character) /\ input' \in Seq(Character)
      /\ input' \in {given', ReadFile(given')} /\ Len(input') <= MaxLength + 1
  BY DEF Walked, Typed
<1> QED
  BY <1>2, <1>4, <1>5, <1>6, <1>7, <1>8 DEF Typed

LEMMA MadeNext ==
    ASSUME input' = input, Made(tokens', word_start')
    PROVE  Made(tokens, word_start)'
<1>1. TokensIn' = TokensIn
  BY TextStays
<1>2. \A i : InWord(i)' <=> InWord(i)
  BY TextStays
<1>3. \A i : Newlines(i)' = Newlines(i)
  BY TextStays
<1> QED
  BY <1>1, <1>2, <1>3 DEF Made, Covered

(* The loop under way is tokenise again, and no word has begun.            *)
LEMMA WordNotBegun ==
    ASSUME input' = input, NEW c \in Nat, cursor' = c, mode' = "tokenise",
           word_start' = c, Context[c] = "code", ~ InWord(c - 1)
    PROVE  (InContext /\ PendingWord /\ PendingString /\ PendingComment /\ Ended)'
<1>1. Context' = Context /\ \A i : InWord(i)' <=> InWord(i)
  BY TextStays
<1>2. InContext'
  BY <1>1 DEF InContext
<1>3. PendingWord'
  <2>1. ~ InWord(word_start - 1)'
    BY <1>1, Zenon
  <2>2. ASSUME NEW i \in Pending'
        PROVE  FALSE
    BY <2>2 DEF Pending
  <2> QED
    BY <2>1, <2>2 DEF PendingWord
<1> QED
  BY <1>2, <1>3 DEF PendingString, PendingComment, Ended

LEMMA BlankWalks ==
    ASSUME Walked, Blank
    PROVE  Walked'
<1>1. /\ mode = "tokenise" /\ ~ AtEnd /\ input[cursor] \in Space /\ Pop
      /\ tokens' = tokens \o Word /\ word_start' = cursor + 1
      /\ given' = given /\ input' = input /\ mode' = mode
  BY DEF Blank, StopWord, Current
<1>2. input \in Seq(Character) /\ cursor \in Nat
  BY TypedFacts DEF Walked
<1>3. Typed' /\ cursor' = cursor + 1 /\ cursor \in 1 .. Len(input)
  BY <1>1, <1>2, PopTyped
<1>4. Context[cursor] = "code" /\ ~ InWord(cursor) /\ input[cursor] \notin Punctuation
  BY <1>1 DEF Walked, InContext, InWord, Space, Punctuation
<1>5. Made(tokens', word_start')
  <2>1. Made(tokens \o Word, cursor)
    BY <1>1, <1>4, WordStopped
  <2>2. Made(tokens \o Word, cursor + 1)
    BY <1>2, <1>3, <1>4, <2>1, CharacterSkipped
  <2> QED
    BY <1>1, <2>2
<1>6. Context[cursor + 1] = "code"
  BY <1>1, <1>2, <1>3, <1>4, CharacterFacts DEF Following, Opens, Space
<1>7. (InContext /\ PendingWord /\ PendingString /\ PendingComment /\ Ended)'
  BY <1>1, <1>2, <1>3, <1>4, <1>6, WordNotBegun
<1> QED
  BY <1>1, <1>3, <1>5, <1>7, MadeNext DEF Walked

LEMMA MarkWalks ==
    ASSUME Walked, Mark
    PROVE  Walked'
<1> DEFINE x == [first |-> cursor, last |-> cursor, line |-> line, column |-> column]
<1>1. /\ mode = "tokenise" /\ ~ AtEnd /\ input[cursor] \in Punctuation /\ Pop
      /\ tokens' = tokens \o Word \o Token(cursor, cursor) /\ word_start' = cursor + 1
      /\ given' = given /\ input' = input /\ mode' = mode
  BY DEF Mark, Current
<1>2. /\ input \in Seq(Character) /\ cursor \in Nat /\ 1 <= cursor
      /\ line \in Nat /\ column \in Nat
  BY TypedFacts DEF Walked
<1>3. Typed' /\ cursor' = cursor + 1 /\ cursor \in 1 .. Len(input)
  BY <1>1, <1>2, PopTyped
<1>4. Context[cursor] = "code" /\ ~ InWord(cursor)
  BY <1>1 DEF Walked, InContext, InWord, Punctuation
<1>5. Made(tokens', word_start')
  <2>1. Made(tokens \o Word, cursor)
    BY <1>1, <1>4, WordStopped
  <2>2. x \in TokenType /\ x.first = cursor /\ x.last = cursor /\ x.line = line
    BY <1>2 DEF TokenType
  <2>3. Token(cursor, cursor) = << x >>
    BY DEF Token
  <2> HIDE DEF x
  <2>4. << cursor, cursor >> \in TokensIn
    <3>1. MarkAt(cursor, cursor)
      BY <1>1, <1>4 DEF MarkAt
    <3> QED
      BY <1>3, <3>1, TokenAtIs
  <2>5. ASSUME NEW t \in TokensIn, cursor <= t[2], t[2] < cursor + 1
        PROVE  t = << cursor, cursor >>
    <3>1. t = << t[1], t[2] >> /\ t[2] \in 1 .. Len(input)
      BY <1>2, TokenIsAt
    <3>2. t[2] = cursor
      BY <1>2, <2>5, <3>1
    <3>3. t[1] = t[2]
      BY <1>1, <1>2, <1>4, <3>2, TokenEnds DEF Punctuation
    <3> QED
      BY <3>1, <3>2, <3>3
  <2>6. line = Cardinality(Newlines(cursor))
    <3>1. Cardinality(Newlines(cursor)) = line'
      BY <1>1, <1>2, PopTyped
    <3>2. line' = line
      BY <1>1 DEF Pop, Current, Punctuation
    <3> QED
      BY <3>1, <3>2
  <2>7. \A i \in cursor .. cursor + 1 - 1 : i = cursor
    BY <1>2
  <2>8. Made(Append(tokens \o Word, x), cursor + 1)
    <3>1. /\ 1 <= x.first /\ cursor <= x.first /\ x.first <= x.last /\ x.last < cursor + 1
          /\ cursor + 1 \in Nat
      BY <1>2, <2>2
    <3>2. << x.first, x.last >> \in TokensIn
      BY <2>2, <2>4
    <3>3. x.line = Cardinality(Newlines(x.last))
      BY <2>2, <2>6
    <3>4. \A t \in TokensIn : cursor <= t[2] /\ t[2] < cursor + 1 => t = << x.first, x.last >>
      BY <2>2, <2>5
    <3>5. \A i \in cursor .. cursor + 1 - 1 : InWord(i) => x.first <= i /\ i <= x.last
      BY <1>4, <2>7
    <3> QED
      BY <1>2, <2>1, <2>2, <3>1, <3>2, <3>3, <3>4, <3>5, MadeAppend
  <2>9. Append(tokens \o Word, x) = (tokens \o Word) \o << x >>
    <3>1. tokens \o Word \in Seq(TokenType)
      BY <2>1 DEF Made
    <3> QED
      BY <2>2, <3>1
  <2> QED
    BY <1>1, <2>3, <2>8, <2>9
<1>6. Context[cursor + 1] = "code"
  BY <1>1, <1>2, <1>3, <1>4, CharacterFacts DEF Following, Opens, Punctuation
<1>7. (InContext /\ PendingWord /\ PendingString /\ PendingComment /\ Ended)'
  BY <1>1, <1>2, <1>3, <1>4, <1>6, WordNotBegun
<1> QED
  BY <1>1, <1>3, <1>5, <1>7, MadeNext DEF Walked

LEMMA QuoteWalks ==
    ASSUME Walked, Quote
    PROVE  Walked'
<1>1. /\ mode = "tokenise" /\ ~ AtEnd /\ input[cursor] = "quote" /\ Pop
      /\ tokens' = tokens \o Word /\ word_start' = cursor
      /\ given' = given /\ input' = input /\ mode' = "pick_string"
  BY DEF Quote, Current
<1>2. input \in Seq(Character) /\ cursor \in Nat /\ 1 <= cursor
  BY TypedFacts DEF Walked
<1>3. Typed' /\ cursor' = cursor + 1 /\ cursor \in 1 .. Len(input)
  BY <1>1, <1>2, PopTyped
<1>4. Context[cursor] = "code" /\ ~ InWord(cursor)
  BY <1>1 DEF Walked, InContext, InWord
<1>5. Made(tokens', word_start')
  BY <1>1, <1>4, WordStopped
<1>6. Context[cursor + 1] = "string"
  BY <1>1, <1>2, <1>3, <1>4, CharacterFacts DEF Following
<1>7. Context' = Context
  BY <1>1, TextStays
<1>8. InContext'
  BY <1>1, <1>3, <1>6, <1>7 DEF InContext
<1>9. PendingString'
  <2>1. Pending' \ {word_start'} = {}
    BY <1>1, <1>2, <1>3 DEF Pending
  <2> QED
    BY <1>1, <1>2, <1>3, <1>4, <1>7, <2>1 DEF PendingString
<1>10. PendingWord' /\ PendingComment' /\ Ended'
  BY <1>1 DEF PendingWord, PendingComment, Ended
<1> QED
  BY <1>1, <1>3, <1>5, <1>8, <1>9, <1>10, MadeNext DEF Walked

LEMMA CommentWalks ==
    ASSUME Walked, Comment
    PROVE  Walked'
<1>1. /\ mode = "tokenise" /\ ~ AtEnd /\ StartsComment /\ Pop
      /\ tokens' = tokens \o Word /\ word_start' = cursor + 1
      /\ given' = given /\ input' = input /\ mode' = "pick_comment"
  BY DEF Comment, StopWord
<1>2. input \in Seq(Character) /\ cursor \in Nat /\ 1 <= cursor /\ Len(input) \in Nat
  BY TypedFacts DEF Walked
<1>3. Typed' /\ cursor' = cursor + 1 /\ cursor \in 1 .. Len(input)
  BY <1>1, <1>2, PopTyped
<1>4. Opens(cursor) /\ input[cursor] = "/"
  BY <1>1, <1>2 DEF StartsComment, Opens, Current
<1>5. Context[cursor] = "code" /\ ~ InWord(cursor) /\ input[cursor] \notin Punctuation
  BY <1>1, <1>4 DEF Walked, InContext, InWord, Punctuation
<1>6. Made(tokens', word_start')
  <2>1. Made(tokens \o Word, cursor)
    BY <1>1, <1>5, WordStopped
  <2>2. Made(tokens \o Word, cursor + 1)
    BY <1>2, <1>3, <1>5, <2>1, CharacterSkipped
  <2> QED
    BY <1>1, <2>2
<1>7. Context[cursor + 1] = "comment"
  BY <1>2, <1>3, <1>4, <1>5, CharacterFacts DEF Following
<1>8. Context' = Context
  BY <1>1, TextStays
<1>9. InContext'
  BY <1>1, <1>3, <1>7, <1>8 DEF InContext
<1>10. PendingComment'
  <2>1. Pending' = {}
    BY <1>1, <1>2, <1>3 DEF Pending
  <2> QED
    BY <2>1 DEF PendingComment
<1>11. PendingWord' /\ PendingString' /\ Ended'
  BY <1>1 DEF PendingWord, PendingString, Ended
<1> QED
  BY <1>1, <1>3, <1>6, <1>9, <1>10, <1>11, MadeNext DEF Walked

LEMMA OtherWalks ==
    ASSUME Walked, Other
    PROVE  Walked'
<1>1. /\ mode = "tokenise" /\ ~ AtEnd /\ ~ StartsComment /\ Pop
      /\ input[cursor] \notin Space \cup Punctuation \cup {"quote"}
      /\ tokens' = tokens /\ word_start' = word_start
      /\ given' = given /\ input' = input /\ mode' = mode
  BY DEF Other, Current
<1>2. /\ input \in Seq(Character) /\ cursor \in Nat /\ 1 <= cursor /\ Len(input) \in Nat
      /\ word_start \in 1 .. cursor
  BY TypedFacts DEF Walked
<1>3. Typed' /\ cursor' = cursor + 1 /\ cursor \in 1 .. Len(input)
  <2>1. word_start' \in 1 .. cursor + 1
    BY <1>1, <1>2
  <2> QED
    BY <1>1, <1>2, <2>1, PopTyped
<1>4. ~ Opens(cursor) /\ input[cursor] \in {"a", "/"}
  <2>1. input[cursor] \in Character
    BY <1>2, <1>3, CharacterFacts
  <2>2. input[cursor] \in {"a", "/"}
    BY <1>1, <2>1 DEF Character
  <2> QED
    BY <1>1, <1>2, <2>2 DEF StartsComment, Opens, Current
<1>5. Context[cursor] = "code" /\ InWord(cursor)
  BY <1>1, <1>3, <1>4 DEF Walked, InContext, InWord
<1>6. Context[cursor + 1] = "code"
  BY <1>2, <1>3, <1>4, <1>5, CharacterFacts DEF Following
<1>7. Context' = Context /\ \A i : InWord(i)' <=> InWord(i)
  BY <1>1, TextStays
<1>8. InContext'
  BY <1>1, <1>3, <1>6, <1>7 DEF InContext
<1>9. PendingWord'
  <2>1. ~ InWord(word_start - 1) /\ \A i \in word_start .. cursor - 1 : InWord(i)
    BY <1>1 DEF Walked, PendingWord, Pending
  <2>2. \A i \in word_start .. cursor : i = cursor \/ i \in word_start .. cursor - 1
    BY <1>2
  <2>3. cursor' - 1 = cursor
    BY <1>2, <1>3
  <2> QED
    BY <1>1, <1>5, <1>7, <2>1, <2>2, <2>3 DEF PendingWord, Pending
<1>10. PendingString' /\ PendingComment' /\ Ended'
  BY <1>1 DEF PendingString, PendingComment, Ended
<1>11. Made(tokens', word_start')
  BY <1>1 DEF Walked
<1> QED
  BY <1>1, <1>3, <1>8, <1>9, <1>10, <1>11, MadeNext DEF Walked

(* In a string under way no token ends.                                    *)
LEMMA StringGoesOn ==
    ASSUME Walked, mode = "pick_string"
    PROVE  /\ \A t \in TokensIn : ~ (word_start <= t[2] /\ t[2] < cursor)
           /\ \A i \in word_start .. cursor - 1 : ~ InWord(i)
<1>1. input \in Seq(Character) /\ cursor \in Nat /\ word_start \in Nat
  BY TypedFacts DEF Walked
<1>2. /\ Context[word_start] = "code" /\ input[word_start] = "quote"
      /\ \A i \in word_start .. cursor - 1 :
            i # word_start => Context[i] = "string" /\ input[i] # "quote"
  BY DEF Walked, PendingString, Pending
<1>3. \A i \in word_start .. cursor - 1 : ~ InWord(i)
  BY <1>2 DEF InWord
<1>4. ASSUME NEW t \in TokensIn, word_start <= t[2], t[2] < cursor
      PROVE  FALSE
  <2>1. t[2] \in word_start .. cursor - 1
    <3>1. t[2] \in Nat
      BY <1>1, TokenIsAt
    <3> QED
      BY <1>1, <1>4, <3>1
  <2>2. CASE t[2] = word_start
    BY <1>1, <1>2, <1>3, <2>1, <2>2, TokenEnds DEF Punctuation
  <2>3. CASE t[2] # word_start
    BY <1>1, <1>2, <1>3, <2>1, <2>3, TokenEnds
  <2> QED
    BY <2>2, <2>3
<1> QED
  BY <1>3, <1>4

(* The string that ends here is the one that began where the word did.     *)
LEMMA StringEnds ==
    ASSUME Walked, mode = "pick_string", ~ AtEnd, input[cursor] = "quote"
    PROVE  /\ << word_start, cursor >> \in TokensIn
           /\ \A t \in TokensIn :
                 word_start <= t[2] /\ t[2] < cursor + 1 => t = << word_start, cursor >>
<1>1. /\ input \in Seq(Character) /\ Len(input) \in Nat /\ cursor \in Nat
      /\ word_start \in Nat /\ 1 <= word_start /\ cursor <= Len(input) + 1
  BY TypedFacts DEF Walked
<1>2. word_start \in 1 .. Len(input) /\ cursor \in 1 .. Len(input) /\ word_start < cursor
  BY <1>1 DEF Walked, PendingString, AtEnd
<1>3. Context[word_start] = "code" /\ input[word_start] = "quote" /\ Context[cursor] = "string"
  BY DEF Walked, PendingString, InContext
<1>4. \A i \in word_start + 1 .. cursor : Context[i] = "string"
  <2>1. \A i \in word_start + 1 .. cursor :
           i = cursor \/ (i \in word_start .. cursor - 1 /\ i # word_start)
    BY <1>1
  <2>2. \A i \in word_start .. cursor - 1 : i # word_start => Context[i] = "string"
    BY DEF Walked, PendingString, Pending
  <2> QED
    BY <1>3, <2>1, <2>2
<1>5. << word_start, cursor >> \in TokensIn
  <2>1. StringAt(word_start, cursor)
    BY <1>2, <1>3, <1>4 DEF StringAt
  <2> QED
    BY <1>2, <2>1, TokenAtIs
<1>6. ASSUME NEW t \in TokensIn, word_start <= t[2], t[2] < cursor + 1
      PROVE  t = << word_start, cursor >>
  <2>1. t = << t[1], t[2] >> /\ t[1] \in Nat /\ t[2] \in Nat
    BY <1>1, TokenIsAt
  <2>2. t[2] = cursor
    BY <1>1, <1>6, <2>1, StringGoesOn
  <2>3. StringAt(t[1], cursor)
    BY <1>1, <1>3, <2>2, TokenEnds DEF InWord
  <2>4. t[1] = word_start
    <3>1. CASE t[1] < word_start
      <4>1. word_start \in t[1] + 1 .. cursor
        BY <1>1, <1>2, <2>1, <3>1
      <4> QED
        BY <1>3, <2>3, <4>1 DEF StringAt
    <3>2. CASE t[1] > word_start
      <4>1. t[1] < cursor
        BY <2>3 DEF StringAt
      <4>2. t[1] \in word_start + 1 .. cursor
        BY <1>1, <1>2, <2>1, <3>2, <4>1
      <4> QED
        BY <1>4, <2>3, <4>2 DEF StringAt
    <3> QED
      BY <1>1, <2>1, <3>1, <3>2
  <2> QED
    BY <2>1, <2>2, <2>4
<1> QED
  BY <1>5, <1>6

LEMMA InStringWalks ==
    ASSUME Walked, InString
    PROVE  Walked'
<1>1. /\ mode = "pick_string" /\ ~ AtEnd /\ Pop /\ given' = given /\ input' = input
  BY DEF InString
<1>2. /\ input \in Seq(Character) /\ Len(input) \in Nat /\ cursor \in Nat /\ 1 <= cursor
      /\ word_start \in 1 .. cursor /\ word_start \in Nat /\ 1 <= word_start
  BY TypedFacts DEF Walked
<1>3. Typed' /\ cursor' = cursor + 1 /\ cursor \in 1 .. Len(input)
      /\ line' = Cardinality(Newlines(cursor))
  <2>1. word_start' \in 1 .. cursor + 1
    BY <1>2 DEF InString
  <2>2. mode' \in {"tokenise", "pick_string", "pick_comment", "done"}
    BY <1>1 DEF InString
  <2> QED
    BY <1>1, <2>1, <2>2, PopTyped
<1>4. Context[cursor] = "string" /\ ~ InWord(cursor) /\ word_start < cursor
  BY <1>1 DEF Walked, InContext, InWord, PendingString
<1>5. Context' = Context /\ \A i : InWord(i)' <=> InWord(i)
  BY <1>1, TextStays
<1>6. CASE input[cursor] = "quote"
  <2> DEFINE x == [first |-> word_start, last |-> cursor, line |-> line', column |-> column']
  <2>1. /\ tokens' = Append(tokens, x)
        /\ word_start' = cursor + 1 /\ mode' = "tokenise"
    BY <1>6 DEF InString, Current
  <2>2. x \in TokenType /\ x.first = word_start /\ x.last = cursor /\ x.line = line'
    <3>1. line' \in Nat /\ column' \in Nat
      <4>1. column' \in Nat
        BY <1>3 DEF Typed
      <4>2. line' \in Nat
        BY <1>2, <1>3, NewlinesCount
      <4> QED
        BY <4>1, <4>2
    <3> QED
      BY <1>2, <3>1 DEF TokenType
  <2> HIDE DEF x
  <2>3. Made(Append(tokens, x), cursor + 1)
    <3>1. /\ 1 <= x.first /\ word_start <= x.first /\ x.first <= x.last /\ x.last < cursor + 1
          /\ cursor + 1 \in Nat
      BY <1>2, <1>4, <2>2
    <3>2. << x.first, x.last >> \in TokensIn
      BY <1>1, <1>6, <2>2, StringEnds
    <3>3. x.line = Cardinality(Newlines(x.last))
      BY <1>3, <2>2
    <3>4. \A t \in TokensIn : word_start <= t[2] /\ t[2] < cursor + 1 => t = << x.first, x.last >>
      BY <1>1, <1>6, <2>2, StringEnds
    <3>5. \A i \in word_start .. cursor + 1 - 1 : InWord(i) => x.first <= i /\ i <= x.last
      BY <1>2, <2>2
    <3>6. Made(tokens, word_start)
      BY DEF Walked
    <3> QED
      BY <1>2, <2>2, <3>1, <3>2, <3>3, <3>4, <3>5, <3>6, MadeAppend
  <2>4. Context[cursor + 1] = "code"
    BY <1>2, <1>3, <1>4, <1>6, CharacterFacts DEF Following
  <2>5. (InContext /\ PendingWord /\ PendingString /\ PendingComment /\ Ended)'
    BY <1>1, <1>2, <1>3, <1>4, <2>1, <2>4, WordNotBegun
  <2> QED
    BY <1>1, <1>3, <2>1, <2>3, <2>5, MadeNext DEF Walked
<1>7. CASE input[cursor] # "quote"
  <2>1. tokens' = tokens /\ word_start' = word_start /\ mode' = mode
    BY <1>7 DEF InString, Current
  <2>2. Context[cursor + 1] = "string"
    BY <1>2, <1>3, <1>4, <1>7, CharacterFacts DEF Following
  <2>3. InContext'
    BY <1>1, <1>3, <1>5, <2>1, <2>2 DEF InContext
  <2>4. PendingString'
    <3>1. /\ Context[word_start] = "code" /\ input[word_start] = "quote"
          /\ \A i \in word_start .. cursor - 1 :
                i # word_start => Context[i] = "string" /\ input[i] # "quote"
      BY <1>1 DEF Walked, PendingString, Pending
    <3>2. \A i \in word_start .. cursor : i = cursor \/ i \in word_start .. cursor - 1
      BY <1>2
    <3>3. cursor' - 1 = cursor /\ word_start' < cursor'
      BY <1>2, <1>3, <2>1
    <3> QED
      BY <1>1, <1>4, <1>5, <1>7, <2>1, <3>1, <3>2, <3>3 DEF PendingString, Pending
  <2>5. PendingWord' /\ PendingComment' /\ Ended'
    BY <1>1, <2>1 DEF PendingWord, PendingComment, Ended
  <2>6. Made(tokens', word_start')
    BY <2>1 DEF Walked
  <2> QED
    BY <1>1, <1>3, <2>3, <2>4, <2>5, <2>6, MadeNext DEF Walked
<1> QED
  BY <1>6, <1>7

(* In a comment no token ends.                                             *)
LEMMA CommentGoesOn ==
    ASSUME Walked, mode = "pick_comment"
    PROVE  /\ \A t \in TokensIn : ~ (word_start <= t[2] /\ t[2] < cursor)
           /\ \A i \in word_start .. cursor - 1 : ~ InWord(i)
<1>1. input \in Seq(Character) /\ cursor \in Nat /\ word_start \in Nat
  BY TypedFacts DEF Walked
<1>2. \A i \in word_start .. cursor - 1 : Context[i] = "comment" /\ ~ InWord(i)
  BY DEF Walked, PendingComment, Pending, InWord
<1>3. ASSUME NEW t \in TokensIn, word_start <= t[2], t[2] < cursor
      PROVE  FALSE
  <2>1. t[2] \in word_start .. cursor - 1
    <3>1. t[2] \in Nat
      BY <1>1, TokenIsAt
    <3> QED
      BY <1>1, <1>3, <3>1
  <2> QED
    BY <1>1, <1>2, <2>1, TokenEnds
<1> QED
  BY <1>2, <1>3

LEMMA InCommentWalks ==
    ASSUME Walked, InComment
    PROVE  Walked'
<1>1. /\ mode = "pick_comment" /\ ~ AtEnd /\ Pop /\ given' = given /\ input' = input
      /\ tokens' = tokens
  BY DEF InComment
<1>2. /\ input \in Seq(Character) /\ Len(input) \in Nat /\ cursor \in Nat /\ 1 <= cursor
      /\ word_start \in 1 .. cursor /\ word_start \in Nat /\ 1 <= word_start
  BY TypedFacts DEF Walked
<1>3. Typed' /\ cursor' = cursor + 1 /\ cursor \in 1 .. Len(input)
  <2>1. word_start' \in 1 .. cursor + 1
    BY <1>2 DEF InComment
  <2>2. mode' \in {"tokenise", "pick_string", "pick_comment", "done"}
    BY <1>1 DEF InComment
  <2> QED
    BY <1>1, <2>1, <2>2, PopTyped
<1>4. Context[cursor] = "comment" /\ ~ InWord(cursor)
  BY <1>1 DEF Walked, InContext, InWord
<1>5. Context' = Context /\ \A i : InWord(i)' <=> InWord(i)
  BY <1>1, TextStays
<1>6. \A i \in word_start .. cursor : i = cursor \/ i \in word_start .. cursor - 1
  BY <1>2
<1>7. CASE input[cursor] = "newline"
  <2>1. word_start' = cursor + 1 /\ mode' = "tokenise"
    BY <1>7 DEF InComment, Current
  <2>2. Made(tokens, cursor + 1)
    <3>1. \A i \in word_start .. cursor + 1 - 1 : ~ InWord(i)
      BY <1>1, <1>2, <1>4, <1>6, CommentGoesOn
    <3>2. ASSUME NEW t \in TokensIn, word_start <= t[2], t[2] < cursor + 1
          PROVE  FALSE
      <4>1. t[2] \in Nat
        BY <1>2, TokenIsAt
      <4>2. t[2] = cursor
        BY <1>1, <1>2, <3>2, <4>1, CommentGoesOn
      <4> QED
        BY <1>2, <1>4, <4>2, TokenEnds
    <3>3. cursor + 1 \in Nat /\ word_start <= cursor + 1
      BY <1>2
    <3>4. Made(tokens, word_start)
      BY DEF Walked
    <3> QED
      BY <1>2, <3>1, <3>2, <3>3, <3>4, MadeSkip
  <2>3. Context[cursor + 1] = "code"
    BY <1>2, <1>3, <1>4, <1>7, CharacterFacts DEF Following
  <2>4. (InContext /\ PendingWord /\ PendingString /\ PendingComment /\ Ended)'
    BY <1>1, <1>2, <1>3, <1>4, <2>1, <2>3, WordNotBegun
  <2> QED
    BY <1>1, <1>3, <2>1, <2>2, <2>4, MadeNext DEF Walked
<1>8. CASE input[cursor] # "newline"
  <2>1. word_start' = word_start /\ mode' = mode
    BY <1>8 DEF InComment, Current
  <2>2. Context[cursor + 1] = "comment"
    BY <1>2, <1>3, <1>4, <1>8, CharacterFacts DEF Following
  <2>3. InContext'
    BY <1>1, <1>3, <1>5, <2>1, <2>2 DEF InContext
  <2>4. PendingComment'
    <3>1. \A i \in word_start .. cursor - 1 : Context[i] = "comment"
      BY <1>1 DEF Walked, PendingComment, Pending
    <3>2. cursor' - 1 = cursor
      BY <1>2, <1>3
    <3> QED
      BY <1>4, <1>5, <1>6, <2>1, <3>1, <3>2 DEF PendingComment, Pending
  <2>5. PendingWord' /\ PendingString' /\ Ended'
    BY <1>1, <2>1 DEF PendingWord, PendingString, Ended
  <2>6. Made(tokens', word_start')
    BY <1>1, <2>1 DEF Walked
  <2> QED
    BY <1>1, <1>3, <2>3, <2>4, <2>5, <2>6, MadeNext DEF Walked
<1> QED
  BY <1>7, <1>8

LEMMA FinishWalks ==
    ASSUME Walked, Finish
    PROVE  Walked'
<1>1. /\ mode # "done" /\ AtEnd /\ mode' = "done" /\ given' = given /\ input' = input
      /\ cursor' = cursor /\ word_start' = word_start /\ line' = line /\ column' = column
      /\ tokens' = tokens
  BY DEF Finish
<1>2. /\ input \in Seq(Character) /\ Len(input) \in Nat /\ cursor \in Nat
      /\ word_start \in Nat /\ 1 <= word_start /\ word_start <= cursor
      /\ cursor = Len(input) + 1
  BY <1>1, TypedFacts DEF Walked, AtEnd
<1>3. Typed'
  BY <1>1 DEF Walked, Typed, Newlines
<1>4. \A t \in TokensIn : t[2] \in Nat /\ t[2] < cursor
  BY <1>2, TokenIsAt
<1>5. /\ \A t \in TokensIn : t[2] < word_start
      /\ Pending = {} \/ InWord(Len(input)) \/ \A i \in Pending : ~ InWord(i)
  <2>1. CASE mode = "tokenise"
    <3>1. ASSUME NEW t \in TokensIn
          PROVE  t[2] < word_start
      <4>1. CASE word_start <= t[2]
        <5>1. t = << word_start, cursor - 1 >>
          BY <1>4, <2>1, <4>1, WordEnds
        <5>2. t[2] = Len(input) /\ InWord(t[2])
          BY <1>2, <1>4, <2>1, <4>1, <5>1 DEF Walked, PendingWord, Pending
        <5>3. WordAt(t[1], t[2])
          BY <1>2, <5>2, TokenEnds DEF InWord, Punctuation
        <5> QED
          BY <1>2, <5>2, <5>3 DEF WordAt
      <4> QED
        BY <1>2, <1>4, <4>1
    <3>2. ASSUME Pending # {}
          PROVE  InWord(Len(input))
      <4>1. Len(input) \in Pending
        BY <1>2, <3>2 DEF Pending
      <4> QED
        BY <2>1, <4>1 DEF Walked, PendingWord
    <3> QED
      BY <3>1, <3>2
  <2>2. CASE mode = "pick_string"
    BY <1>2, <1>4, <2>2, StringGoesOn DEF Pending
  <2>3. CASE mode = "pick_comment"
    BY <1>2, <1>4, <2>3, CommentGoesOn DEF Pending
  <2> QED
    BY <1>1, <2>1, <2>2, <2>3 DEF Walked, Typed
<1>6. Ended'
  <2>1. TokensIn' = TokensIn
    BY <1>1, TextStays
  <2>2. Pending' = Pending
    BY <1>1 DEF Pending
  <2>3. \A i : InWord(i)' <=> InWord(i)
    BY <1>1, TextStays
  <2>4. AtEnd'
    BY <1>1 DEF AtEnd
  <2>5. InWord(Len(input)) => InWord(Len(input))'
    BY <1>1, TextStays DEF InWord, Opens
  <2>6. \A t \in TokensIn' : t[2] < word_start'
    BY <1>1, <1>5, <2>1
  <2>7. Pending' = {} \/ InWord(Len(input))' \/ \A i \in Pending' : ~ InWord(i)'
    BY <1>5, <2>2, <2>3, <2>5
  <2> QED
    BY <2>4, <2>6, <2>7 DEF Ended
<1>7. (InContext /\ PendingWord /\ PendingString /\ PendingComment)'
  BY <1>1 DEF InContext, PendingWord, PendingString, PendingComment
<1>8. Made(tokens', word_start')
  BY <1>1 DEF Walked
<1> QED
  BY <1>1, <1>3, <1>6, <1>7, <1>8, MadeNext DEF Walked

(* read_file adds at most one character, and the last one is a newline.    *)
LEMMA FileText ==
    ASSUME NEW text \in Seq(Character)
    PROVE  /\ ReadFile(text) \in Seq(Character)
           /\ Len(ReadFile(text)) >= Len(text) /\ Len(ReadFile(text)) <= Len(text) + 1
           /\ text # << >> => ReadFile(text)[Len(ReadFile(text))] = "newline"
<1>1. "newline" \in Character /\ Len(text) \in Nat
  <2>1. "newline" \in Character
    BY Zenon DEF Character, Space
  <2>2. Len(text) \in Nat
    OBVIOUS
  <2> QED
    BY <2>1, <2>2
<1>2. CASE text = << >> \/ text[Len(text)] = "newline"
  <2>1. ReadFile(text) = text
    BY <1>2 DEF ReadFile
  <2> QED
    BY <1>1, <1>2, <2>1
<1>3. CASE ~ (text = << >> \/ text[Len(text)] = "newline")
  <2>1. ReadFile(text) = Append(text, "newline")
    BY <1>3 DEF ReadFile
  <2>2. /\ Append(text, "newline") \in Seq(Character)
        /\ Len(Append(text, "newline")) = Len(text) + 1
        /\ Append(text, "newline")[Len(text) + 1] = "newline"
    <3> DEFINE x == "newline"
    <3>1. x \in Character
      BY <1>1
    <3> HIDE DEF x
    <3>2. /\ Append(text, x) \in Seq(Character) /\ Len(Append(text, x)) = Len(text) + 1
          /\ Append(text, x)[Len(text) + 1] = x
      BY <3>1
    <3> QED
      BY <3>2 DEF x
  <2> QED
    BY <1>1, <2>1, <2>2
<1> QED
  BY <1>2, <1>3

LEMMA InitWalked == Init => Walked
<1> SUFFICES ASSUME Init
             PROVE  Walked
  OBVIOUS
<1>1. PICK n \in 0 .. MaxLength : given \in [1 .. n -> Character]
  BY DEF Init
<1>2. n \in Nat /\ n <= MaxLength
  BY LengthAssumption
<1>3. given \in Seq(Character)
  <2>1. \A i \in 1 .. n : given[i] \in Character
    BY <1>1
  <2>2. given = [i \in 1 .. n |-> given[i]]
    BY <1>1
  <2> QED
    BY <1>2, <2>1, <2>2
<1>4. Len(given) = n
  <2>1. DOMAIN given = 1 .. n
    BY <1>1
  <2> QED
    BY <1>2, <1>3, <2>1
<1>5. ReadFile(given) \in Seq(Character) /\ Len(ReadFile(given)) <= n + 1
  BY <1>3, <1>4, FileText
<1>6. /\ input \in Seq(Character) /\ Len(input) <= MaxLength + 1 /\ Len(input) \in Nat
      /\ input \in {given, ReadFile(given)}
  <2>1. CASE input = given
    BY <1>2, <1>3, <1>4, <2>1, LengthAssumption
  <2>2. CASE input = ReadFile(given)
    BY <1>2, <1>5, <2>2, LengthAssumption
  <2> QED
    BY <2>1, <2>2 DEF Init
<1>7. /\ cursor = 1 /\ word_start = 1 /\ line = 0 /\ column = 0 /\ mode = "tokenise"
      /\ tokens = << >>
  BY DEF Init
<1>8. Typed
  <2>1. Cardinality(Newlines(0)) = 0
    BY NewlinesCount
  <2>2. line = Cardinality(Newlines(cursor - 1))
    BY <1>7, <2>1
  <2> QED
    BY <1>3, <1>6, <1>7, <2>2 DEF Typed
<1>9. InContext
  <2>1. Context[1] = "code"
    BY <1>6, ContextFacts DEF IsContext
  <2> QED
    BY <1>7, <2>1 DEF InContext
<1>10. PendingWord /\ PendingString /\ PendingComment /\ Ended
  BY <1>7 DEF PendingWord, PendingString, PendingComment, Ended, Pending, InWord
<1>11. Made(tokens, word_start)
  <2>1. \A t \in TokensIn : ~ (t[2] < 1)
    BY <1>6, TokenIsAt
  <2> QED
    BY <1>7, <2>1 DEF Made
<1> QED
  BY <1>8, <1>9, <1>10, <1>11 DEF Walked

LEMMA StepWalks ==
    ASSUME Walked, [Next]_vars
    PROVE  Walked'
<1>1. CASE Blank
  BY <1>1, BlankWalks
<1>2. CASE Mark
  BY <1>2, MarkWalks
<1>3. CASE Quote
  BY <1>3, QuoteWalks
<1>4. CASE Comment
  BY <1>4, CommentWalks
<1>5. CASE Other
  BY <1>5, OtherWalks
<1>6. CASE InString
  BY <1>6, InStringWalks
<1>7. CASE InComment
  BY <1>7, InCommentWalks
<1>8. CASE Finish
  BY <1>8, FinishWalks
<1>9. CASE UNCHANGED vars
  <2>1. /\ given' = given /\ input' = input /\ cursor' = cursor
        /\ word_start' = word_start /\ line' = line /\ column' = column
        /\ mode' = mode /\ tokens' = tokens
    BY <1>9 DEF vars
  <2>2. Context' = Context /\ TokensIn' = TokensIn
    BY <2>1, TextStays
  <2>3. \A i : InWord(i)' <=> InWord(i)
    BY <2>1, TextStays
  <2>4. Typed'
    BY <2>1 DEF Walked, Typed, Newlines
  <2>5. Pending' = Pending
    BY <2>1 DEF Pending
  <2>6. InContext' /\ PendingString' /\ PendingComment'
    BY <2>1, <2>2, <2>5 DEF Walked, InContext, PendingString, PendingComment
  <2>7. PendingWord'
    BY <2>1, <2>2, <2>5 DEF Walked, PendingWord, InWord, Opens
  <2>8. Ended'
    BY <2>1, <2>2, <2>5 DEF Walked, Ended, AtEnd, InWord, Opens
  <2>9. Made(tokens', word_start')
    BY <2>1 DEF Walked
  <2> QED
    BY <2>1, <2>4, <2>6, <2>7, <2>8, <2>9, MadeNext DEF Walked
<1> QED
  BY <1>1, <1>2, <1>3, <1>4, <1>5, <1>6, <1>7, <1>8, <1>9 DEF Next

LEMMA AlwaysWalked == Spec => []Walked
<1>1. Init => Walked
  BY InitWalked
<1>2. Walked /\ [Next]_vars => Walked'
  BY StepWalks
<1> QED
  BY <1>1, <1>2, PTL DEF Spec

-----------------------------------------------------------------------------
(***************************************************************************)
(* Every variable has its type: the cursor stays in the text or just       *)
(* behind it, and no token reaches beyond it.                              *)
(***************************************************************************)
THEOREM TokeniserTypeCorrect == Spec => []TypeOK
<1>1. Walked => TypeOK
  BY WalkedIsEnough
<1> QED
  BY <1>1, AlwaysWalked, PTL

(***************************************************************************)
(* The invariant: the loop under way is what the cursor stands in, and the *)
(* tokens made are those that end before the word under way.               *)
(***************************************************************************)
THEOREM TextIsScanned == Spec => []Scanned
<1>1. Walked => Scanned
  BY WalkedIsEnough
<1> QED
  BY <1>1, AlwaysWalked, PTL

(***************************************************************************)
(* What tokenise makes of a text of any length is the words, marks and     *)
(* strings of it, each once and in order.                                  *)
(***************************************************************************)
THEOREM TokensAreThoseOfTheText == Spec => []TokensOfText
<1>1. Walked => TokensOfText
  <2> SUFFICES ASSUME Walked, mode = "done"
               PROVE  Found = TokensIn /\ InOrder
    BY DEF TokensOfText
  <2>1. Found = {t \in TokensIn : t[2] < word_start} /\ InOrder
    BY WalkedIsEnough DEF Scanned
  <2>2. \A t \in TokensIn : t[2] < word_start
    BY DEF Walked, Ended
  <2> QED
    BY <2>1, <2>2
<1> QED
  BY <1>1, AlwaysWalked, PTL

(* The line of a token is the number of newlines up to its end.            *)
THEOREM LinesAreThoseOfTheText == Spec => []LinesOfText
<1>1. Walked => LinesOfText
  BY WalkedIsEnough DEF Scanned
<1> QED
  BY <1>1, AlwaysWalked, PTL

(***************************************************************************)
(* No character of a word of a file is lost: the newline that read_file    *)
(* puts behind the last line ends the last word.                           *)
(***************************************************************************)
THEOREM WordsOfFilesAreKept == Spec => []FileWordsKept
<1>1. Walked => FileWordsKept
  <2> SUFFICES ASSUME Walked, mode = "done", input = ReadFile(given),
                      NEW i \in 1 .. Len(given), InWord(i)
               PROVE  \E t \in ToSet(tokens) : t.first <= i /\ i <= t.last
    BY DEF FileWordsKept
  <2>1. /\ input \in Seq(Character) /\ Len(input) \in Nat
        /\ cursor \in Nat /\ word_start \in Nat /\ 1 <= word_start
    BY TypedFacts DEF Walked
  <2>2. given \in Seq(Character) /\ given # << >>
    BY DEF Walked, Typed
  <2>3. Len(input) >= Len(given) /\ input[Len(input)] = "newline"
    BY <2>2, FileText
  <2>4. ~ InWord(Len(input))
    BY <2>3 DEF InWord
  <2>5. CASE i < word_start
    <3>1. i \in 1 .. word_start - 1
      BY <2>1, <2>5
    <3> QED
      BY <3>1, WalkedIsEnough DEF Scanned
  <2>6. CASE word_start <= i
    <3>1. cursor > Len(input)
      BY DEF Walked, Ended, AtEnd
    <3>2. i \in Pending
      BY <2>1, <2>2, <2>3, <2>6, <3>1 DEF Pending
    <3> QED
      BY <2>4, <3>2 DEF Walked, Ended
  <2> QED
    BY <2>1, <2>5, <2>6
<1> QED
  BY <1>1, AlwaysWalked, PTL

(***************************************************************************)
(* What split_string and split_string_at give is right for texts of any    *)
(* length: the pieces, each once and in order; and what is before and      *)
(* behind the first occurrence.                                            *)
(***************************************************************************)
THEOREM SplitsAreRight == Spec => []Splits
<1>1. Walked => Splits
  <2> SUFFICES ASSUME Walked, NEW char
               PROVE  /\ Lists(SplitString(given, char), given, Pieces(given, char))
                      /\ LET two == SplitStringAt(given, char)
                         IN  IF two[2] = << >> THEN ~ \E i \in 1 .. Len(given) - 1 : given[i] = char
                             ELSE /\ two[1] \o << char >> \o two[2] = given
                                  /\ char \notin ToSet(two[1])
    BY Zenon DEF Splits
  <2>1. given \in Seq(Character)
    BY DEF Walked, Typed
  <2> QED
    BY <2>1, ListsPieces, SplitAtFacts, Zenon
<1> QED
  BY <1>1, AlwaysWalked, PTL
=============================================================================
