----------------------------- MODULE FileAccess -----------------------------
(***************************************************************************)
(* What a user of NetCDFPipe is promised: a pipe works on the file it was  *)
(* built for, and on no other; only between open and close; what a call    *)
(* returns has been read, written or is on disk.  Any call may throw: it   *)
(* then changes nothing but the variable it was to write, and the pipe is  *)
(* as open as before.                                                      *)
(***************************************************************************)
EXTENDS Naturals

CONSTANTS Pipe, File, Variable,
          Has,      \* Has[f]: the variables of file f
          Value,    \* what a variable may hold
          NoFile    \* the file of a pipe that is not built

VARIABLES
    path,     \* path[p]: the file p was built for
    session,  \* session[p]: p was opened and not closed since
    data,     \* data[f][v]: what file f holds, written back or not
    disk,     \* disk[f][v]: what of it has certainly been written back
    answer    \* how the last call ended

Throws(p, op) == answer' = [pipe |-> p, op |-> op, ok |-> FALSE, value |-> 0]
Returns(p, op, value) == answer' = [pipe |-> p, op |-> op, ok |-> TRUE, value |-> value]

Init ==
    /\ path = [p \in Pipe |-> NoFile]
    /\ session = [p \in Pipe |-> FALSE]
    /\ data \in [File -> [Variable -> Value]]
    /\ disk = data
    /\ answer = [pipe |-> NoFile, op |-> "none", ok |-> TRUE, value |-> 0]

(* An object is built for a file, and destroyed, in a session or not.      *)
Build(p) ==
    /\ path[p] = NoFile
    /\ \E f \in File : path' = [path EXCEPT ![p] = f]
    /\ UNCHANGED <<session, data, disk, answer>>

Destroy(p) ==
    /\ path' = [path EXCEPT ![p] = NoFile]
    /\ session' = [session EXCEPT ![p] = FALSE]
    /\ UNCHANGED <<data, disk, answer>>

Open(p) ==
    /\ \/ session' = [session EXCEPT ![p] = TRUE] /\ Returns(p, "open", 0)
       \/ UNCHANGED session /\ Throws(p, "open")
    /\ UNCHANGED <<path, data, disk>>

Close(p) ==
    /\ session[p]
    /\ \/ /\ session' = [session EXCEPT ![p] = FALSE]
          /\ disk' = [disk EXCEPT ![path[p]] = data[path[p]]]
          /\ Returns(p, "close", 0)
       \/ UNCHANGED <<session, disk>> /\ Throws(p, "close")
    /\ UNCHANGED <<path, data>>

Serves(p, v) == session[p] /\ v \in Has[path[p]]

Write(p) ==
    \E v \in Variable, x \in Value :
        /\ \/ /\ Serves(p, v)
              /\ data' = [data EXCEPT ![path[p]][v] = x]
              /\ Returns(p, "write", 0) \/ Throws(p, "write")
           \/ UNCHANGED data /\ Throws(p, "write")
        /\ UNCHANGED <<path, session, disk>>

Read(p) ==
    \E v \in Variable :
        /\ \/ Serves(p, v) /\ Returns(p, "read", data[path[p]][v])
           \/ Throws(p, "read")
        /\ UNCHANGED <<path, session, data, disk>>

(* The process ends: what was not written back may be lost.                *)
Abort ==
    /\ path' = [p \in Pipe |-> NoFile]
    /\ session' = [p \in Pipe |-> FALSE]
    /\ \E lost \in SUBSET File :
          data' = [f \in File |-> IF f \in lost THEN disk[f] ELSE data[f]]
    /\ disk' = data'
    /\ UNCHANGED answer

Next == \/ \E p \in Pipe : Build(p) \/ Destroy(p) \/ Open(p) \/ Close(p)
                             \/ Write(p) \/ Read(p)
        \/ Abort

Spec == Init /\ [][Next]_<<path, session, data, disk, answer>>
=============================================================================
