----------------------------- MODULE WriteOnce -----------------------------
(***************************************************************************)
(* Why no field is ever duplicated: the inductive invariant behind         *)
(* AtMostOnce, for any number of senders and receivers and any sockets.    *)
(***************************************************************************)
EXTENDS SenderReceiver

(***************************************************************************)
(* The programs are generated from schemas of the same names: the sender's *)
(* names a field once, and the receivers' name the same fields in the same *)
(* order.  The types may differ.                                           *)
(***************************************************************************)
SameNames ==
    /\ \A i, j \in DOMAIN WriteFields :
          WriteFields[i].path = WriteFields[j].path => i = j
    /\ \A r, x \in Receiver :
          /\ Len(ReadFields[r]) = Len(ReadFields[x])
          /\ \A i \in DOMAIN ReadFields[r] :
                ReadFields[r][i].path = ReadFields[x][i].path

(* Executions are numbered apart, also those that have ended.              *)
RunsApart ==
    /\ \A s \in Sender : run[s] \in 0 .. runs
    /\ \A s, t \in Sender : run[s] = run[t] /\ run[s] # 0 => s = t

(* Sender s has written the field of this path in the execution it is.     *)
Written(s, path) == \E i \in 1 .. pos[s] : WriteFields[i].path = path

(* Nothing is anywhere that was not written.                               *)
OnlyWhatIsWritten ==
    \A k \in 0 .. runs, f \in DOMAIN WriteFields :
        Places(k, WriteFields[f].path) # {} =>
            k # 0 /\ \A s \in Sender : run[s] = k => Written(s, WriteFields[f].path)

(* The file being written holds the first of the fields that were read.    *)
FileSoFar ==
    \A r \in Receiver : storing[r] =>
        \A i \in DOMAIN files[r][count[r]] :
            i \in DOMAIN got[r] /\ files[r][count[r]][i] = got[r][i]

Accounted == AtMostOnce /\ RunsApart /\ OnlyWhatIsWritten /\ FileSoFar
=============================================================================
