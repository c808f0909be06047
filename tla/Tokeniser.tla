----------------------------- MODULE Tokeniser -----------------------------
(***************************************************************************)
(* The tokeniser (src/src/tokeniser.{h,cpp}).  It walks over the text with *)
(* m_cursor, remembers in m_word_start where the current word began, and   *)
(* makes tokens that are views of the text, each with the line and column  *)
(* at which it was made.  One action is one turn of the loop of tokenise,  *)
(* pick_comment or pick_string.                                            *)
(***************************************************************************)
EXTENDS Utilities, FiniteSets, SequencesExt

CONSTANTS MaxLength  \* bound: characters of the text

ASSUME LengthAssumption == MaxLength \in Nat

(* One character for each case of tokenise, punctuation being all alike.   *)
Space == {" ", "newline"}
Punctuation == {";"}
Character == Space \cup Punctuation \cup {"quote", "/", "a"}

VARIABLES
    given,      \* what a file holds, or a text as it is (the tests do that)
    input,      \* the text
    cursor,     \* m_cursor, from 1
    word_start, \* m_word_start
    line, column,
    mode,       \* the loop under way
    tokens      \* m_tokens: first and last character, line and column

vars == <<given, input, cursor, word_start, line, column, mode, tokens>>

Init ==
    /\ given \in UNION {[1 .. n -> Character] : n \in 0 .. MaxLength}
    /\ input \in {given, ReadFile(given)}
    /\ cursor = 1 /\ word_start = 1
    /\ line = 0 /\ column = 0
    /\ mode = "tokenise"
    /\ tokens = << >>

AtEnd == cursor > Len(input)
Current == input[cursor]

(* pop: move over one character and keep track of where we are.            *)
PopIgnoresLines ==                                           \* seeded fault
    /\ cursor' = cursor + 1
    /\ column' = column + 1
    /\ UNCHANGED line
Pop ==
    /\ cursor' = cursor + 1
    /\ IF Current = "newline" THEN line' = line + 1 /\ column' = 0
       ELSE line' = line /\ column' = column + 1

Token(first, last) == << [first |-> first, last |-> last, line |-> line, column |-> column] >>

(* The word that ends before the cursor, if there is one.                  *)
Word == IF cursor > word_start THEN Token(word_start, cursor - 1) ELSE << >>

(* stop_word, for white space: the word ends and the space is skipped.     *)
StopWordInPlace ==                                           \* seeded fault
    /\ tokens' = tokens \o Word
    /\ word_start' = cursor
    /\ UNCHANGED <<cursor, line, column>>
StopWord ==
    /\ tokens' = tokens \o Word
    /\ Pop
    /\ word_start' = cursor + 1

Blank ==
    /\ mode = "tokenise" /\ ~ AtEnd
    /\ Current \in Space
    /\ StopWord
    /\ UNCHANGED <<given, input, mode>>

(* A punctuation mark ends the word and is a token of its own.             *)
Mark ==
    /\ mode = "tokenise" /\ ~ AtEnd
    /\ Current \in Punctuation
    /\ tokens' = tokens \o Word \o Token(cursor, cursor)
    /\ Pop
    /\ word_start' = cursor + 1
    /\ UNCHANGED <<given, input, mode>>

(* A string starts: pick_string is next.                                   *)
Quote ==
    /\ mode = "tokenise" /\ ~ AtEnd
    /\ Current = "quote"
    /\ tokens' = tokens \o Word
    /\ word_start' = cursor
    /\ Pop
    /\ mode' = "pick_string"
    /\ UNCHANGED <<given, input>>

(* double_peek: does a comment start here?                                 *)
StartsComment == Current = "/" /\ cursor + 1 <= Len(input) /\ input[cursor + 1] = "/"

Comment ==
    /\ mode = "tokenise" /\ ~ AtEnd
    /\ StartsComment
    /\ StopWord
    /\ mode' = "pick_comment"
    /\ UNCHANGED <<given, input>>

Other ==
    /\ mode = "tokenise" /\ ~ AtEnd
    /\ Current \notin Space \cup Punctuation \cup {"quote"}
    /\ ~ StartsComment
    /\ Pop
    /\ UNCHANGED <<given, input, word_start, mode, tokens>>

(* pick_string: the token is made once the quote that ends it is popped.   *)
StringDropsQuotes ==                                         \* seeded fault
    /\ mode = "pick_string" /\ ~ AtEnd
    /\ Pop
    /\ IF Current = "quote"
       THEN /\ tokens' = Append(tokens, [first |-> word_start + 1, last |-> cursor - 1,
                                         line |-> line', column |-> column'])
            /\ word_start' = cursor
            /\ mode' = "tokenise"
       ELSE UNCHANGED <<tokens, word_start, mode>>
    /\ UNCHANGED <<given, input>>
InString ==
    /\ mode = "pick_string" /\ ~ AtEnd
    /\ Pop
    /\ IF Current = "quote"
       THEN /\ tokens' = Append(tokens, [first |-> word_start, last |-> cursor,
                                         line |-> line', column |-> column'])
            /\ word_start' = cursor + 1
            /\ mode' = "tokenise"
       ELSE UNCHANGED <<tokens, word_start, mode>>
    /\ UNCHANGED <<given, input>>

(* pick_comment: discard_word at the end of the line.                      *)
InComment ==
    /\ mode = "pick_comment" /\ ~ AtEnd
    /\ Pop
    /\ IF Current = "newline"
       THEN word_start' = cursor + 1 /\ mode' = "tokenise"
       ELSE UNCHANGED <<word_start, mode>>
    /\ UNCHANGED <<given, input, tokens>>

(* The text is used up: a word or a string under way is not a token.       *)
Finish ==
    /\ mode # "done" /\ AtEnd
    /\ mode' = "done"
    /\ UNCHANGED <<given, input, cursor, word_start, line, column, tokens>>

Next == Blank \/ Mark \/ Quote \/ Comment \/ Other \/ InString \/ InComment \/ Finish

Spec == Init /\ [][Next]_vars /\ WF_vars(Next)

-----------------------------------------------------------------------------
(* Every variable has its type.                                            *)
TypeOK ==
    /\ input \in {given, ReadFile(given)}
    /\ cursor \in 1 .. Len(input) + 1
    /\ word_start \in 1 .. cursor
    /\ line \in 0 .. MaxLength + 1 /\ column \in 0 .. MaxLength + 1
    /\ mode \in {"tokenise", "pick_string", "pick_comment", "done"}
    /\ \A i \in DOMAIN tokens :
          /\ 1 <= tokens[i].first /\ tokens[i].first <= tokens[i].last
          /\ tokens[i].last < cursor

(***************************************************************************)
(* A definition of the tokens of a text that does not walk over it.        *)
(* Context[i] says what character i stands in.                             *)
(***************************************************************************)
Opens(i) == input[i] = "/" /\ i < Len(input) /\ input[i + 1] = "/"

Context ==
    LET context[i \in 1 .. Len(input) + 1] ==
          IF i = 1 THEN "code"
          ELSE CASE context[i - 1] = "code" ->
                      IF input[i - 1] = "quote" THEN "string"
                      ELSE IF Opens(i - 1) THEN "comment" ELSE "code"
                 [] context[i - 1] = "string" ->
                      IF input[i - 1] = "quote" THEN "code" ELSE "string"
                 [] context[i - 1] = "comment" ->
                      IF input[i - 1] = "newline" THEN "code" ELSE "comment"
    IN  context

InWord(i) == /\ i \in 1 .. Len(input)
             /\ Context[i] = "code"
             /\ input[i] \in {"a", "/"} /\ ~ Opens(i)

Words == {t \in (1 .. Len(input)) \X (1 .. Len(input)) :
            /\ t[1] <= t[2] /\ t[2] < Len(input)
            /\ \A i \in t[1] .. t[2] : InWord(i)
            /\ ~ InWord(t[1] - 1) /\ ~ InWord(t[2] + 1)}
Marks == {<<i, i>> : i \in {i \in 1 .. Len(input) : /\ Context[i] = "code"
                                                   /\ input[i] \in Punctuation}}
Strings == {t \in (1 .. Len(input)) \X (1 .. Len(input)) :
              /\ t[1] < t[2]
              /\ Context[t[1]] = "code" /\ input[t[1]] = "quote"
              /\ \A i \in t[1] + 1 .. t[2] : Context[i] = "string"
              /\ input[t[2]] = "quote"}

TokensIn == Words \cup Marks \cup Strings

Newlines(i) == {j \in 1 .. i : input[j] = "newline"}

Found == {<<tokens[i].first, tokens[i].last>> : i \in DOMAIN tokens}
InOrder == \A i, j \in DOMAIN tokens : i < j => tokens[i].last < tokens[j].first

(***************************************************************************)
(* tokenise finds the words, marks and strings of the text, in order and   *)
(* each once, and skips comments; a line number is that of the token's     *)
(* end.  A word needs a character behind it, which read_file adds.         *)
(***************************************************************************)
TokensOfText ==
    mode = "done" => Found = TokensIn /\ InOrder
LinesOfText ==
    \A i \in DOMAIN tokens : tokens[i].line = Cardinality(Newlines(tokens[i].last))

(***************************************************************************)
(* A word that ends with its file is not lost, although tokenise needs a   *)
(* character behind each: read_file puts one there.                        *)
(***************************************************************************)
FileWordsKept ==
    mode = "done" /\ input = ReadFile(given) =>
        \A i \in 1 .. Len(given) : InWord(i) =>
            \E t \in ToSet(tokens) : t.first <= i /\ i <= t.last

(***************************************************************************)
(* The invariant behind the three: which loop is under way is what the     *)
(* cursor stands in, what lies between the start of the word and the       *)
(* cursor is the beginning of one token, or of none, and the tokens made   *)
(* are those that end before it.                                           *)
(***************************************************************************)
Pending == word_start .. cursor - 1

InContext ==
    /\ mode = "tokenise" => Context[cursor] = "code"
    /\ mode = "pick_string" => Context[cursor] = "string"
    /\ mode = "pick_comment" => Context[cursor] = "comment"

PendingWord ==
    mode = "tokenise" => ~ InWord(word_start - 1) /\ \A i \in Pending : InWord(i)
PendingString ==
    mode = "pick_string" =>
        /\ word_start < cursor
        /\ Context[word_start] = "code" /\ input[word_start] = "quote"
        /\ \A i \in Pending \ {word_start} : Context[i] = "string" /\ input[i] # "quote"
PendingComment ==
    mode = "pick_comment" => \A i \in Pending : Context[i] = "comment"

Scanned ==
    /\ InContext
    /\ PendingWord /\ PendingString /\ PendingComment
    /\ line = Cardinality(Newlines(cursor - 1))
    /\ Found = {t \in TokensIn : t[2] < word_start}
    /\ InOrder
    /\ LinesOfText
    /\ \A i \in 1 .. word_start - 1 : InWord(i) =>
          \E t \in ToSet(tokens) : t.first <= i /\ i <= t.last
    /\ mode = "done" =>
          /\ \A t \in TokensIn : t[2] < word_start
          /\ Pending = {} \/ InWord(Len(input)) \/ \A i \in Pending : ~ InWord(i)

(***************************************************************************)
(* split_string gives the longest pieces of a text that do not have the    *)
(* character in them, in order (so resolve_group_from_path, parser.cpp,    *)
(* skips the slash a path begins and ends with); split_string_at the text  *)
(* before and after its first occurrence (Attribute::parse).               *)
(***************************************************************************)
Splits ==
    mode = "done" => \A char \in {"/", "a"} :
        /\ Lists(SplitString(given, char), given, Pieces(given, char))
        /\ LET two == SplitStringAt(given, char)
           IN  IF two[2] = << >> THEN ~ \E i \in 1 .. Len(given) - 1 : given[i] = char
               ELSE two[1] \o << char >> \o two[2] = given /\ char \notin ToSet(two[1])

(* The tokeniser reaches the end of every text.                            *)
Terminates == <>(mode = "done")

(***************************************************************************)
(* "column numbers are zero based and at the end of the token"             *)
(* (test_tokeniser.cpp): the column is the number of characters of the     *)
(* line up to the token's end.  The code breaks it for punctuation, which  *)
(* gets the column it starts at.                                           *)
(***************************************************************************)
ColumnAtEnd ==
    \A i \in DOMAIN tokens :
        LET last == tokens[i].last
        IN  (\A j \in 1 .. last : input[j] # "newline") => tokens[i].column = last
=============================================================================
