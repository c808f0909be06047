----------------------------- MODULE Utilities -----------------------------
(***************************************************************************)
(* The functions of src/src/utils.cpp, on texts that are sequences of      *)
(* characters.                                                             *)
(***************************************************************************)
EXTENDS Naturals, Sequences, FiniteSets

(* read_file: every line that getline gives, with a newline behind it.     *)
ReadFileAsIs(text) == text                                   \* seeded fault
ReadFile(text) ==
    IF text = << >> \/ text[Len(text)] = "newline" THEN text
    ELSE Append(text, "newline")

(* find_first_of from position i on, or the end of the text.               *)
NextOf(text, char, i) ==
    CHOOSE j \in i .. Len(text) + 1 :
        /\ j = Len(text) + 1 \/ text[j] = char
        /\ \A k \in i .. j - 1 : text[k] # char

(* split_string: empty pieces are left out.                                *)
SplitKeepsEmpty(text, char) ==                               \* seeded fault
    LET from[i \in 1 .. Len(text) + 1] ==
          IF i > Len(text) THEN << >>
          ELSE LET j == NextOf(text, char, i)
               IN  << SubSeq(text, i, j - 1) >>
                     \o (IF j > Len(text) THEN << >> ELSE from[j + 1])
    IN  from[1]
SplitString(text, char) ==
    LET from[i \in 1 .. Len(text) + 1] ==
          IF i > Len(text) THEN << >>
          ELSE LET j == NextOf(text, char, i)
               IN  (IF j = i THEN << >> ELSE << SubSeq(text, i, j - 1) >>)
                     \o (IF j > Len(text) THEN << >> ELSE from[j + 1])
    IN  from[1]

(* split_string_at: two empty strings unless something is behind `char`.   *)
SplitStringAt(text, char) ==
    LET j == NextOf(text, char, 1)
    IN  IF j >= Len(text) THEN << << >>, << >> >>
        ELSE << SubSeq(text, 1, j - 1), SubSeq(text, j + 1, Len(text)) >>

-----------------------------------------------------------------------------
(***************************************************************************)
(* What split_string should give, said without walking over the text: the  *)
(* places of the longest pieces that do not have the character in them,    *)
(* and a list of these pieces, each behind those that begin before it.     *)
(***************************************************************************)
Pieces(text, char) ==
    {p \in (1 .. Len(text)) \X (1 .. Len(text)) :
       /\ p[1] <= p[2]
       /\ \A i \in p[1] .. p[2] : text[i] # char
       /\ p[1] = 1 \/ text[p[1] - 1] = char
       /\ p[2] = Len(text) \/ text[p[2] + 1] = char}

Lists(list, text, places) ==
    /\ Len(list) = Cardinality(places)
    /\ \A p \in places :
          list[Cardinality({q \in places : q[1] <= p[1]})] = SubSeq(text, p[1], p[2])
=============================================================================
