-------------------------- MODULE MCArrayTransfer --------------------------
(***************************************************************************)
(* Arrays for TLC: values 1 and 2 (0 is what a vector is filled with), at  *)
(* most two entries, in one dimension three, twelve or thirteen: numbers   *)
(* of two digits, and one more than the largest int.  Ragged arrays are    *)
(* included; three of the types CDL has, with their sizes in bytes.        *)
(***************************************************************************)
EXTENDS ArrayTransfer, TLC

UpTo(n, S) == SeqOf(S, n)
Long == {[i \in 1 .. n |-> 1 + (i % 2)] : n \in {12, 13}}

(* In three dimensions one vector for each length, in every arrangement.   *)
Vectors == {<< >>, <<1>>, <<2, 1>>}
MCArrays == 0 :> {1, 2} @@ 1 :> UpTo(3, {1, 2}) \cup Long @@ 2 :> UpTo(2, UpTo(2, {1, 2}))
              @@ 3 :> UpTo(2, UpTo(2, Vectors))

MCType == {"byte", "ubyte", "short"}
MCWidth == "byte" :> 1 @@ "ubyte" :> 1 @@ "short" :> 2

(* One path, another, and one that ends in the mark behind a path.         *)
MCPath == {<<"/", "a">>, <<"/", "b">>, <<"/", "a", ";">>}

MCFileSizes == {<< >>, <<0>>, <<1>>, <<2>>, <<3>>, <<1, 2>>, <<2, 2>>}
=============================================================================
