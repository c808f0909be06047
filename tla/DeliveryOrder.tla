---------------------------- MODULE DeliveryOrder ----------------------------
(***************************************************************************)
(* Why a single receiver never mixes two structs: the inductive invariant  *)
(* behind StructIntegrity, for the set-up of examples/.  It says how the   *)
(* fields on their way to the receiver follow one another, how the first   *)
(* of them follows what the receiver has read, and how the field a sender  *)
(* writes next will follow the last of them.                               *)
(***************************************************************************)
EXTENDS SenderReceiver

(***************************************************************************)
(* The set-up of examples/sender.cpp and examples/receiver.cpp: one        *)
(* receiver, every sender binds the address it connects to, no pipe        *)
(* connects to itself or to another sender's pipe by accident, and both    *)
(* programs are generated from one schema, which names a field once.       *)
(***************************************************************************)
ExampleSetup(r) ==
    /\ Receiver = {r}
    /\ Outbound[r] # Incoming[r]
    /\ \A s \in Sender : Outbound[s] = Incoming[r]
    /\ \A s, t \in Sender : Incoming[s] # Outbound[t]
    /\ ReadFields[r] = WriteFields
    /\ \A i, j \in DOMAIN WriteFields :
          WriteFields[i].path = WriteFields[j].path => i = j

PathAt(i) == WriteFields[i].path

(* The fields on their way to r, the one that r reads next first.          *)
Stream(r) == inq[r] \o outq[r]

(* m may come after the i-th field of execution k: as the next field of    *)
(* that execution, or as the first field of a later one.                   *)
Succeeds(m, k, i) == \/ m.run = k /\ i < Len(WriteFields) /\ m.path = PathAt(i + 1)
                     \/ m.run > k /\ m.path = PathAt(1)

(* r has read nothing of a struct and nothing is on its way.               *)
Fresh(r) == Stream(r) = << >> /\ pos[r] = 0

LastRead(r) == got[r][pos[r]]

(* Whatever s writes next succeeds the last field read by r or under way.  *)
CaughtUp(s, r) ==
    LET stream == Stream(r)
        last == stream[Len(stream)]
    IN  IF stream # << >>
        THEN \/ last.run = run[s] /\ pos[s] > 0 /\ last.path = PathAt(pos[s])
             \/ last.run < run[s] /\ pos[s] = 0
        ELSE \/ LastRead(r) = run[s] /\ pos[s] = pos[r]
             \/ LastRead(r) < run[s] /\ pos[s] = 0

(* Execution s has had no part yet in anything r has read or will read.    *)
Ahead(s, r) ==
    /\ pos[s] = 0
    /\ \A j \in 1 .. Len(Stream(r)) : Stream(r)[j].run < run[s]
    /\ \A i \in 1 .. pos[r] : got[r][i] < run[s]

(* Senders reach nobody but r, and one sender at a time is at work.        *)
OnlyReceiver(r) ==
    /\ \A s, t \in Sender : up[s] = "open" /\ up[t] = "open" => s = t
    /\ \A s \in Sender : partial[s] \in {Nobody, "dropping", r}
    /\ \A s \in Sender : peer[s] \in {Nobody, r} /\ outq[s] = << >>
    /\ peer[r] # r
    /\ partial[r] = Nobody

StreamInOrder(r) ==
    LET stream == Stream(r) IN
    /\ \A j \in 1 .. Len(stream) :
          /\ stream[j].run \in 1 .. runs
          /\ \E i \in DOMAIN WriteFields : stream[j].path = PathAt(i)
    /\ \A j \in 1 .. Len(stream) - 1, i \in DOMAIN WriteFields :
          stream[j].path = PathAt(i) => Succeeds(stream[j + 1], stream[j].run, i)
    /\ stream # << >> /\ pos[r] > 0 => Succeeds(stream[1], LastRead(r), pos[r])

StructSoFar(r) ==
    /\ \A i \in 1 .. pos[r] : got[r][i] = LastRead(r) /\ got[r][i] \in 1 .. runs
    /\ \A n \in FileNumber : files[r][n] # NoFile => OneRun(files[r][n])
    /\ storing[r] => \A i \in DOMAIN files[r][count[r]] :
                        i <= pos[r] /\ files[r][count[r]][i] = got[r][i]

SendersInOrder(r) ==
    /\ \A s \in Sender : partial[s] = "dropping" => Fresh(r)
    /\ \A s \in Sender : up[s] = "open" /\ ~ Fresh(r) =>
          IF peer[r] = s THEN CaughtUp(s, r) ELSE Ahead(s, r)

(***************************************************************************)
(* What the exchange promises its user, each variable of StructTransfer    *)
(* read off the variables here.                                            *)
(***************************************************************************)
Transfers == INSTANCE StructTransfer
                 WITH Width <- Len(WriteFields), begun <- runs

(* Of execution run[s] nothing is read or under way that s has yet to write. *)
OnlyWritten(s, r) ==
    /\ \A i \in 1 .. pos[r] : got[r][i] = run[s] => i <= pos[s]
    /\ \A j \in 1 .. Len(Stream(r)), i \in DOMAIN WriteFields :
          Stream(r)[j].run = run[s] /\ Stream(r)[j].path = PathAt(i) => i <= pos[s]

(***************************************************************************)
(* Why an execution is stored once, and after the earlier ones: what r has *)
(* read or has under way is newer than all it stored, in the order of the  *)
(* executions, and the one sender at work is the latest execution, whose   *)
(* struct is not stored before its last field is written.                  *)
(***************************************************************************)
StoredInOrder(r) ==
    /\ \A i \in DOMAIN delivered : \E k \in 1 .. runs : delivered[i] = WholeStruct(k)
    /\ \A s \in Sender : up[s] = "open" =>
          /\ run[s] = runs
          /\ pos[s] < Len(WriteFields) => Transfers!Newest < runs
    /\ up[r] = "open" =>
          /\ \A i \in 1 .. pos[r] : Transfers!Newest < got[r][i]
          /\ \A j \in 1 .. Len(Stream(r)) : Transfers!Newest < Stream(r)[j].run
          /\ \A i, j \in 1 .. Len(Stream(r)) :
                i <= j => Stream(r)[i].run <= Stream(r)[j].run
          /\ \A s \in Sender : up[s] = "open" => OnlyWritten(s, r)

(***************************************************************************)
(* The invariant.  The parts about order matter only while the receiver's  *)
(* process exists: when it ends all that was on its way is lost with it.   *)
(***************************************************************************)
InOrder ==
    \A r \in Receiver :
        /\ ConnectionsConsistent
        /\ OnlyReceiver(r)
        /\ StructSoFar(r)
        /\ up[r] = "open" => StreamInOrder(r) /\ SendersInOrder(r)
        /\ StoredInOrder(r)

(* Every step of the exchange is one that StructTransfer allows, or none.  *)
ImplementsTransfer == Transfers!Spec
=============================================================================
