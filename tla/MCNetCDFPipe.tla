---------------------------- MODULE MCNetCDFPipe ----------------------------
(* Instances of NetCDFPipe for TLC. *)
EXTENDS NetCDFPipe, TLC

CONSTANTS f1, f2, v1, v2

(* One variable is in both files, the other in one of them only.           *)
MCFile == {f1, f2}
MCVariable == {v1, v2}
MCHas == f1 :> {v1, v2} @@ f2 :> {v1}
OneFile == {f1}
OneHas == f1 :> {v1}
=============================================================================
