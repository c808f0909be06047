--------------------------- MODULE StructTransfer ---------------------------
(***************************************************************************)
(* What the exchange of structs promises its user, whatever is killed and  *)
(* restarted in between: each execution of the sender writes one struct,   *)
(* and what is stored is a whole struct of one execution, each at most     *)
(* once and in the order of the executions.  Structs may get lost.         *)
(***************************************************************************)
EXTENDS Integers, Sequences

CONSTANT Width  \* fields of a struct

VARIABLES begun,     \* executions of the sender so far
          delivered  \* the structs that were stored, oldest first

Init == begun = 0 /\ delivered = << >>

Begin == begun' = begun + 1 /\ UNCHANGED delivered

(* Every field of the struct is the one that execution k wrote.            *)
Newest == IF delivered = << >> THEN 0 ELSE delivered[Len(delivered)][1]

Deliver ==
    \E k \in 1 .. begun :
        /\ k > Newest
        /\ delivered' = Append(delivered, [i \in 1 .. Width |-> k])
        /\ UNCHANGED begun

Next == Begin \/ Deliver

Spec == Init /\ [][Next]_<<begun, delivered>>
=============================================================================
