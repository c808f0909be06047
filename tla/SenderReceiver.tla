--------------------------- MODULE SenderReceiver ---------------------------
(***************************************************************************)
(* Programs that exchange whole structs through ZeroMQPipe, in the way of  *)
(* examples/sender.cpp and examples/receiver.cpp: a sender builds a pipe,  *)
(* calls the generated write once and returns from main; a receiver loops  *)
(* over the generated read and stores each struct in its next              *)
(* example_<count>.nc.  The generated write and read are one pipe call per *)
(* field, in the order of the schema they were generated from.             *)
(*                                                                         *)
(* A sender is executed again and again ("Execute sender N times"); every  *)
(* execution is numbered and writes values of its own, so the number       *)
(* stands for the values.  Any process may be killed at any step, and an   *)
(* exception nobody catches ends a program just as abruptly.               *)
(***************************************************************************)
EXTENDS ZeroMQPipe

CONSTANTS Sender, Receiver,
          WriteFields,  \* the fields the generated write visits, in order
          ReadFields,   \* ReadFields[r]: those the generated read of r visits
          Counts,       \* bound: the numbers of elements that arrays have
          MaxRuns,      \* bound: executions of a sender
          MaxKills,     \* bound: processes killed from outside
          MaxFiles,     \* bound: files one execution of a receiver writes
          NoFile        \* a file that does not exist

ASSUME ProgramAssumption == /\ Process = Sender \cup Receiver
                            /\ Sender \cap Receiver = {}
ASSUME FieldsAssumption == /\ WriteFields \in Seq(Field) /\ WriteFields # << >>
                           /\ ReadFields \in [Receiver -> Seq(Field) \ {<< >>}]
ASSUME CountsAssumption == Counts \subseteq Nat
ASSUME BoundsAssumption == /\ MaxRuns \in Nat
                            /\ MaxKills \in Nat
                            /\ MaxFiles \in Nat
                            /\ NoFile \notin Seq(Nat)

VARIABLES
    runs,    \* executions of a sender so far
    kills,   \* processes killed so far
    exited,  \* executions that returned from main and whose process ended
    run,     \* run[s]: the execution sender s is, or was last
    pos,     \* pos[p]: fields of the current struct written, or read
    got,     \* got[r]: for each field read, the execution that wrote it
    storing, \* storing[r]: r has a struct and is writing its file
    count,   \* count[r]: number of the next file
    files,   \* files[r][n]: the fields stored in r's example_<n>.nc
    delivered \* history: the structs whose file was closed, oldest first

appVars == <<runs, kills, exited, run, pos, got, storing, count, files, delivered>>
vars == <<pipeVars, appVars>>

FileNumber == 1 .. MaxFiles

Init ==
    /\ PipeInit
    /\ runs = 0 /\ kills = 0 /\ exited = {}
    /\ run = [s \in Sender |-> 0]
    /\ pos = [p \in Process |-> 0]
    /\ got = [r \in Receiver |-> << >>]
    /\ storing = [r \in Receiver |-> FALSE]
    /\ count = [r \in Receiver |-> 1]
    /\ files = [r \in Receiver |-> [n \in FileNumber |-> NoFile]]
    /\ delivered = << >>

-----------------------------------------------------------------------------
(* sender.cpp                                                              *)

(* A start that finds the address taken throws and changes nothing.        *)
SenderStart(s) ==
    /\ runs < MaxRuns
    /\ Construct(s)
    /\ runs' = runs + 1
    /\ run' = [run EXCEPT ![s] = runs + 1]
    /\ pos' = [pos EXCEPT ![s] = 0]
    /\ UNCHANGED <<kills, exited, got, storing, count, files, delivered>>

SenderWriteId(s) ==
    /\ pos[s] < Len(WriteFields)
    /\ SendId(s)
    /\ UNCHANGED appVars

(* The field due, of a value or of an array that has n elements.           *)
Due(s) == WriteFields[pos[s] + 1]
Elements(field) == IF field.rank = 0 THEN {1} ELSE Counts

(* The data part: the pipe's write returns and the next field is due.      *)
SenderWriteData(s) ==
    /\ pos[s] < Len(WriteFields)
    /\ \E n \in Elements(Due(s)) : SendData(s, MessageFor(Due(s), n, run[s]))
    /\ pos' = [pos EXCEPT ![s] = @ + 1]
    /\ UNCHANGED <<runs, kills, exited, run, got, storing, count, files, delivered>>

(* The generated write returned: main returns and the pipe is destroyed.   *)
SenderReturn(s) ==
    /\ pos[s] = Len(WriteFields)
    /\ Close(s)
    /\ UNCHANGED appVars

SenderExit(s) ==
    /\ LingerEnds(s)
    /\ exited' = exited \cup {run[s]}
    /\ UNCHANGED <<runs, kills, run, pos, got, storing, count, files, delivered>>

-----------------------------------------------------------------------------
(* receiver.cpp                                                            *)

(* Seeded fault: count starts at 0.                                        *)
ReceiverStartAtZero(r) ==
    /\ Construct(r)
    /\ pos' = [pos EXCEPT ![r] = 0]
    /\ got' = [got EXCEPT ![r] = << >>]
    /\ storing' = [storing EXCEPT ![r] = FALSE]
    /\ count' = [count EXCEPT ![r] = 0]
    /\ UNCHANGED <<runs, kills, exited, run, files, delivered>>

ReceiverStart(r) ==
    /\ Construct(r)
    /\ pos' = [pos EXCEPT ![r] = 0]
    /\ got' = [got EXCEPT ![r] = << >>]
    /\ storing' = [storing EXCEPT ![r] = FALSE]
    /\ count' = [count EXCEPT ![r] = 1]
    /\ UNCHANGED <<runs, kills, exited, run, files, delivered>>

Expected(r) == ReadFields[r][pos[r] + 1]
Reading(r) == ~ storing[r] /\ pos[r] < Len(ReadFields[r]) /\ Arrived(r)
Matches(r) == Accepts(r, Expected(r))

ReceiverRead(r) ==
    /\ Reading(r)
    /\ Matches(r)
    /\ Take(r)
    /\ pos' = [pos EXCEPT ![r] = @ + 1]
    /\ got' = [got EXCEPT ![r] = Append(@, Head(inq[r]).run)]
    /\ UNCHANGED <<runs, kills, exited, run, storing, count, files, delivered>>

(* Seeded fault: the field that failed is waited for again, untaken.       *)
ReceiverFailsAndRetries(r) == Reading(r) /\ ~ Matches(r) /\ UNCHANGED vars

(* read throws, which nothing in the program catches, or the copy behind   *)
(* the message faults.                                                     *)
ReceiverFails(r) ==
    /\ Reading(r)
    /\ ~ Matches(r) \/ ReadsBeyond(r, Expected(r))
    /\ Vanish(r)
    /\ UNCHANGED appVars

(* copy_file with overwrite_existing: the file is the empty template again. *)
ReceiverCopy(r) ==
    /\ up[r] = "open"
    /\ ~ storing[r]
    /\ pos[r] = Len(ReadFields[r])
    /\ count[r] \in FileNumber
    /\ storing' = [storing EXCEPT ![r] = TRUE]
    /\ files' = [files EXCEPT ![r][count[r]] = << >>]
    /\ UNCHANGED <<pipeVars, runs, kills, exited, run, pos, got, count, delivered>>

Stored(r) == Len(files[r][count[r]])

(* The generated write on the NetCDFPipe: one pipe write per field.        *)
ReceiverStoreField(r) ==
    /\ up[r] = "open"
    /\ storing[r]
    /\ Stored(r) < Len(ReadFields[r])
    /\ files' = [files EXCEPT ![r][count[r]] = Append(@, got[r][Stored(r) + 1])]
    /\ UNCHANGED <<pipeVars, runs, kills, exited, run, pos, got, storing, count, delivered>>

(* Seeded fault: the struct is declared outside the loop.                  *)
ReceiverStoredKeepsStruct(r) ==
    /\ up[r] = "open"
    /\ storing[r]
    /\ Stored(r) = Len(ReadFields[r])
    /\ storing' = [storing EXCEPT ![r] = FALSE]
    /\ count' = [count EXCEPT ![r] = @ + 1]
    /\ pos' = [pos EXCEPT ![r] = 0]
    /\ delivered' = Append(delivered, files[r][count[r]])
    /\ UNCHANGED <<pipeVars, runs, kills, exited, run, got, files>>

(* close, count++, and the loop starts over with an empty struct.          *)
ReceiverStored(r) ==
    /\ up[r] = "open"
    /\ storing[r]
    /\ Stored(r) = Len(ReadFields[r])
    /\ storing' = [storing EXCEPT ![r] = FALSE]
    /\ count' = [count EXCEPT ![r] = @ + 1]
    /\ pos' = [pos EXCEPT ![r] = 0]
    /\ got' = [got EXCEPT ![r] = << >>]
    /\ delivered' = Append(delivered, files[r][count[r]])
    /\ UNCHANGED <<pipeVars, runs, kills, exited, run, files>>

-----------------------------------------------------------------------------
(* The surroundings: the library's own steps, and processes that are killed. *)
Library(p) == (Connect(p) \/ Transfer(p)) /\ UNCHANGED appVars

Kill(p) ==
    /\ kills < MaxKills
    /\ Vanish(p)
    /\ kills' = kills + 1
    /\ UNCHANGED <<runs, exited, run, pos, got, storing, count, files, delivered>>

SenderSteps(s) == SenderWriteId(s) \/ SenderWriteData(s)
                    \/ SenderReturn(s) \/ SenderExit(s)
ReceiverSteps(r) == ReceiverRead(r) \/ ReceiverFails(r) \/ ReceiverCopy(r)
                      \/ ReceiverStoreField(r) \/ ReceiverStored(r)

Next == \/ \E s \in Sender : SenderStart(s) \/ SenderSteps(s)
        \/ \E r \in Receiver : ReceiverStart(r) \/ ReceiverSteps(r)
        \/ \E p \in Process : Library(p) \/ Kill(p)

Spec == Init /\ [][Next]_vars

(***************************************************************************)
(* Running programs and the library keep running; nobody promises to start *)
(* a program, and none is promised to be killed.                           *)
(***************************************************************************)
Progress == /\ \A s \in Sender : WF_vars(SenderSteps(s))
            /\ \A r \in Receiver : WF_vars(ReceiverSteps(r))
            /\ \A p \in Process : WF_vars(Library(p))

FairSpec == Spec /\ Progress

(* Someone keeps a receiver running: it is started whenever it is down.    *)
Supervised == \A r \in Receiver : WF_vars(ReceiverStart(r))
SupervisedSpec == FairSpec /\ Supervised
-----------------------------------------------------------------------------
(***************************************************************************)
(* Every variable has its type; a struct in the making never has more      *)
(* fields than the schema it is read by.                                   *)
(***************************************************************************)
TypeOK ==
    /\ PipeTypeOK
    /\ runs \in 0 .. MaxRuns
    /\ kills \in 0 .. MaxKills
    /\ exited \subseteq 1 .. MaxRuns
    /\ run \in [Sender -> 0 .. MaxRuns]
    /\ pos \in [Process -> Nat]
    /\ got \in [Receiver -> Seq(Nat)]
    /\ storing \in [Receiver -> BOOLEAN]
    /\ count \in [Receiver -> Nat \ {0}]
    /\ files \in [Receiver -> [FileNumber -> Seq(Nat) \cup {NoFile}]]
    /\ delivered \in Seq(Seq(Nat))

(***************************************************************************)
(* What keeps the types, and the bookkeeping of both programs, in step:    *)
(* a message under way belongs to a field still to be written; a receiver  *)
(* has one value for each field it counts, and stores only a struct it has *)
(* read to the end, in a file that exists.                                 *)
(***************************************************************************)
Bookkeeping ==
    /\ \A s \in Sender :
          /\ pos[s] <= Len(WriteFields)
          /\ partial[s] # Nobody => up[s] = "open" /\ pos[s] < Len(WriteFields)
          /\ up[s] # "off" => run[s] \in 1 .. runs
    /\ \A r \in Receiver :
          /\ pos[r] <= Len(ReadFields[r])
          /\ Len(got[r]) = pos[r]
          /\ storing[r] => /\ pos[r] = Len(ReadFields[r])
                           /\ count[r] \in FileNumber
                           /\ files[r][count[r]] # NoFile

OneRun(struct) == \A i, j \in DOMAIN struct : struct[i] = struct[j]

(***************************************************************************)
(* A struct is never put together from two executions of the writer: the   *)
(* ids name fields, not writes, so it is only the order of delivery that   *)
(* keeps the fields of a struct together (write and read, zeromq_pipe.h).  *)
(***************************************************************************)
StructIntegrity ==
    /\ \A r \in Receiver : OneRun(got[r])
    /\ \A r \in Receiver, n \in FileNumber :
          files[r][n] # NoFile => OneRun(files[r][n])

(***************************************************************************)
(* A field written once is in one place at most: a queue, the struct that  *)
(* a receiver is filling, or a stored struct.  Reads that fail, dying      *)
(* peers and reconnects may lose it, none of them duplicates it.           *)
(***************************************************************************)
QueuedAt(name, q, k, path) ==
    UNION {{<<name, p, i>> : i \in {j \in DOMAIN q[p] :
                                    q[p][j].run = k /\ q[p][j].path = path}}
             : p \in Process}

HeldAt(k, path) ==
    UNION {{<<"got", r, i>> : i \in {j \in DOMAIN got[r] :
                                     got[r][j] = k /\ ReadFields[r][j].path = path}}
             : r \in Receiver}

StoredAt(k, path) ==
    UNION {{<<"delivered", n, i>> :
              i \in {j \in DOMAIN delivered[n] :
                       /\ delivered[n][j] = k
                       /\ \E r \in Receiver : ReadFields[r][j].path = path}}
             : n \in DOMAIN delivered}

Places(k, path) == QueuedAt("inq", inq, k, path) \cup QueuedAt("outq", outq, k, path)
                     \cup HeldAt(k, path) \cup StoredAt(k, path)

AtMostOnce ==
    \A k \in 1 .. runs, f \in DOMAIN WriteFields :
        \A x, y \in Places(k, WriteFields[f].path) : x = y

WholeStruct(k) == [i \in DOMAIN WriteFields |-> k]
Delivered(k) == \E i \in DOMAIN delivered : delivered[i] = WholeStruct(k)

(***************************************************************************)
(* If nothing is ever killed, every execution of the sender has its        *)
(* struct stored, whole, by a receiver ("Execute sender N times / Writes   *)
(* example_[1,N].nc files", receiver.cpp).                                 *)
(***************************************************************************)
EventuallyStored ==
    [](kills = 0) => \A k \in 1 .. MaxRuns : (runs >= k) ~> Delivered(k)

(***************************************************************************)
(* No sender hangs for good while receivers are restarted: it gets rid of  *)
(* its fields, closes its pipe and ends, whoever else was killed.          *)
(***************************************************************************)
SendersFinish == \A s \in Sender : up[s] # "off" ~> up[s] = "off"

(***************************************************************************)
(* "send data over. Hangs until data is received." (sender.cpp): when a    *)
(* sender has ended, a receiver has read all its fields.  The code breaks  *)
(* it: write and the linger at close end when the messages have left.      *)
(***************************************************************************)
HangsUntilReceived ==
    \A k \in exited : \/ Delivered(k)
                      \/ \E r \in Receiver : got[r] = WholeStruct(k)

(***************************************************************************)
(* "Will write the Data in a new example_N.nc file each time we receive    *)
(* data over the socket." (receiver.cpp): a file, once written, is left    *)
(* alone.  The code breaks it: count starts at 1 in every execution.       *)
(***************************************************************************)
Complete(file, r) == file # NoFile /\ Len(file) = Len(ReadFields[r])

NewFileEachTime ==
    [][\A r \in Receiver, n \in FileNumber :
          Complete(files[r][n], r) => files'[r][n] = files[r][n]]_vars
=============================================================================
