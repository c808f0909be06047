------------------------ MODULE SenderReceiverProofs ------------------------
(***************************************************************************)
(* Theorems about SenderReceiver for every set of programs, every pair of  *)
(* schemas, every configuration of the sockets and every bound: types,     *)
(* connections, what is read, and that no field is ever duplicated.        *)
(***************************************************************************)
EXTENDS WriteOnce, TLAPS

USE ProgramAssumption, NobodyAssumption, BoundsAssumption

Typed == TypeOK /\ Bookkeeping

(* Facts about queues that the steps of the library need again and again.  *)
LEMMA QueueFacts ==
    ASSUME NEW S, NEW q \in Seq(S), NEW m \in S
    PROVE  /\ Append(q, m) \in Seq(S)
           /\ Len(Append(q, m)) = Len(q) + 1
           /\ q # << >> => Tail(q) \in Seq(S) /\ Head(q) \in S
  OBVIOUS

(* Disconnecting p keeps the type of the queues and of the partial sends.  *)
LEMMA DisconnectedType ==
    ASSUME PipeTypeOK, NEW p \in Process, Disconnected(p)
    PROVE  /\ inq' \in [Process -> Seq(Message)]
           /\ partial' \in [Process -> Process \cup {Nobody, "dropping"}]
           /\ \A q \in Process : partial'[q] # Nobody =>
                                   q # p /\ partial[q] # Nobody
  BY DEF PipeTypeOK, Disconnected

LEMMA TypedInit == Init => Typed
  BY FieldsAssumption
  DEF Init, PipeInit, Typed, TypeOK, PipeTypeOK, Bookkeeping, FileNumber

(* A process that vanishes leaves types and bookkeeping of the others.     *)
LEMMA TypedVanish ==
    ASSUME Typed, NEW p \in Process, Vanish(p),
           UNCHANGED <<runs, run, pos, got, storing, count, files>>
    PROVE  PipeTypeOK' /\ Bookkeeping'
<1> USE DEF Typed, TypeOK
<1>1. /\ inq' \in [Process -> Seq(Message)]
      /\ partial' \in [Process -> Process \cup {Nobody, "dropping"}]
      /\ \A q \in Process : partial'[q] # Nobody => q # p /\ partial[q] # Nobody
  BY DisconnectedType DEF Vanish
<1>2. /\ up' \in [Process -> {"off", "open", "linger"}]
      /\ peer' \in [Process -> Process \cup {Nobody}]
      /\ \A q \in Process : q # p => up'[q] = up[q]
      /\ up'[p] = "off"
  BY DEF Vanish, PipeTypeOK
<1>3. outq' \in [Process -> Seq(Message)]
  BY DEF Vanish, PipeTypeOK
<1>4. PipeTypeOK'
  BY <1>1, <1>2, <1>3 DEF PipeTypeOK
<1>5. \A s \in Sender :
        /\ pos'[s] <= Len(WriteFields)
        /\ partial'[s] # Nobody => up'[s] = "open" /\ pos'[s] < Len(WriteFields)
        /\ up'[s] # "off" => run'[s] \in 1 .. runs'
  BY <1>1, <1>2 DEF PipeTypeOK, Bookkeeping
<1> QED
  BY <1>4, <1>5 DEF Bookkeeping

(* The message that a sender completes is one: the field it is due exists. *)
LEMMA DueIsMessage ==
    ASSUME Typed, NEW s \in Sender, partial[s] # Nobody, NEW n \in Elements(Due(s))
    PROVE  /\ MessageFor(Due(s), n, run[s]) \in Message
           /\ MessageFor(Due(s), n, run[s]).run = run[s]
           /\ MessageFor(Due(s), n, run[s]).path = WriteFields[pos[s] + 1].path
<1>1. pos[s] < Len(WriteFields) /\ pos[s] \in Nat /\ run[s] \in Nat
  BY DEF Typed, Bookkeeping, TypeOK
<1>2. Due(s) \in Field
  BY <1>1, FieldsAssumption DEF Due
<1>3. n \in Nat /\ Due(s).width \in Nat
  BY <1>2, CountsAssumption DEF Field, Elements
<1>4. n * Due(s).width \in Nat
  BY <1>3
<1> QED
  BY <1>1, <1>2, <1>3, <1>4 DEF Field, Message, MessageFor, Due

(* So what it sends is the field due, of the execution it is.              *)
LEMMA DueIsSent ==
    ASSUME Typed, NEW s \in Sender, SenderWriteData(s)
    PROVE  \E m \in Message : /\ SendData(s, m)
                             /\ m.run = run[s]
                             /\ m.path = WriteFields[pos[s] + 1].path
<1>1. partial[s] # Nobody
  BY DEF SenderWriteData, SendData
<1> QED
  BY <1>1, DueIsMessage DEF SenderWriteData

(***************************************************************************)
(* Every step keeps the types and the bookkeeping.  Of the pipe's own      *)
(* actions only the data part of a write needs the bookkeeping: the field  *)
(* it sends exists because the write of that field is still under way.     *)
(***************************************************************************)
LEMMA TypedStep == Typed /\ [Next]_vars => Typed'
<1> SUFFICES ASSUME Typed, [Next]_vars
             PROVE  Typed'
  OBVIOUS
<1> USE DEF Typed, FileNumber
<1>1. ASSUME NEW s \in Sender, SenderStart(s)
      PROVE  Typed'
  <2>1. PipeTypeOK' /\ partial' = partial /\ up' = [up EXCEPT ![s] = "open"]
    BY <1>1 DEF SenderStart, Construct, TypeOK, PipeTypeOK
  <2>2. partial[s] = Nobody
    BY <1>1 DEF SenderStart, Construct, Bookkeeping, TypeOK, PipeTypeOK
  <2>3. /\ pos'[s] = 0 /\ run'[s] = runs + 1 /\ runs' = runs + 1 /\ runs \in Nat
        /\ \A t \in Process : t # s => pos'[t] = pos[t] /\ up'[t] = up[t]
        /\ \A t \in Sender : t # s => run'[t] = run[t]
        /\ Len(WriteFields) \in Nat
        /\ UNCHANGED <<got, storing, count, files>>
    BY <1>1, <2>1, FieldsAssumption DEF SenderStart, TypeOK, PipeTypeOK
  <2>4. \A t \in Sender :
          /\ pos'[t] <= Len(WriteFields)
          /\ partial'[t] # Nobody => up'[t] = "open" /\ pos'[t] < Len(WriteFields)
          /\ up'[t] # "off" => run'[t] \in 1 .. runs'
    BY <2>1, <2>2, <2>3 DEF Bookkeeping, TypeOK
  <2>5. Bookkeeping'
    BY <2>3, <2>4 DEF Bookkeeping
  <2> QED
    BY <1>1, <2>1, <2>5 DEF SenderStart, TypeOK
<1>2. ASSUME NEW s \in Sender, SenderWriteId(s)
      PROVE  Typed'
  <2>1. PipeTypeOK'
    BY <1>2 DEF SenderWriteId, SendId, TypeOK, PipeTypeOK
  <2>2. Bookkeeping'
    BY <1>2
    DEF SenderWriteId, SendId, appVars, Bookkeeping, TypeOK, PipeTypeOK
  <2> QED
    BY <1>2, <2>1, <2>2 DEF SenderWriteId, appVars, TypeOK
<1>3. ASSUME NEW s \in Sender, SenderWriteData(s)
      PROVE  Typed'
  <2>1. PICK m \in Message : SendData(s, m)
    BY <1>3, DueIsSent
  <2>3. outq' \in [Process -> Seq(Message)]
    BY <2>1, QueueFacts DEF SendData, TypeOK, PipeTypeOK
  <2>4. partial' = [partial EXCEPT ![s] = Nobody] /\ UNCHANGED <<up, peer, inq>>
    BY <2>1 DEF SendData
  <2>5. PipeTypeOK'
    BY <2>3, <2>4 DEF TypeOK, PipeTypeOK
  <2>6. Bookkeeping'
    BY <1>3, <2>4 DEF SenderWriteData, Bookkeeping, TypeOK, PipeTypeOK
  <2> QED
    BY <1>3, <2>5, <2>6 DEF SenderWriteData, TypeOK
<1>4. ASSUME NEW s \in Sender, SenderReturn(s)
      PROVE  Typed'
  <2>1. /\ inq' \in [Process -> Seq(Message)]
        /\ partial' \in [Process -> Process \cup {Nobody, "dropping"}]
        /\ \A q \in Process : partial'[q] # Nobody => q # s /\ partial[q] # Nobody
    BY <1>4, DisconnectedType DEF SenderReturn, Close, TypeOK
  <2>2. PipeTypeOK'
    BY <1>4, <2>1 DEF SenderReturn, Close, TypeOK, PipeTypeOK
  <2>3. Bookkeeping'
    BY <1>4, <2>1
    DEF SenderReturn, Close, appVars, Bookkeeping, TypeOK, PipeTypeOK
  <2> QED
    BY <1>4, <2>2, <2>3 DEF SenderReturn, appVars, TypeOK
<1>5. ASSUME NEW s \in Sender, SenderExit(s)
      PROVE  Typed'
  <2>1. PipeTypeOK'
    BY <1>5 DEF SenderExit, LingerEnds, TypeOK, PipeTypeOK
  <2>2. partial[s] = Nobody
    BY <1>5 DEF SenderExit, LingerEnds, Bookkeeping, TypeOK, PipeTypeOK
  <2>3. Bookkeeping'
    BY <1>5, <2>2 DEF SenderExit, LingerEnds, Bookkeeping, TypeOK, PipeTypeOK
  <2>4. exited' \subseteq 1 .. MaxRuns
    <3>1. run[s] \in 1 .. MaxRuns
      BY <1>5 DEF SenderExit, LingerEnds, Bookkeeping, TypeOK
    <3> QED
      BY <1>5, <3>1 DEF SenderExit, TypeOK
  <2> QED
    BY <1>5, <2>1, <2>3, <2>4 DEF SenderExit, TypeOK
<1>6. ASSUME NEW r \in Receiver, ReceiverStart(r)
      PROVE  Typed'
  <2>1. PipeTypeOK' /\ partial' = partial /\ up' = [up EXCEPT ![r] = "open"]
    BY <1>6 DEF ReceiverStart, Construct, TypeOK, PipeTypeOK
  <2>2. Bookkeeping'
    <3>1. /\ pos'[r] = 0 /\ Len(got'[r]) = 0 /\ ~ storing'[r]
          /\ \A x \in Receiver : x # r =>
                /\ pos'[x] = pos[x] /\ got'[x] = got[x]
                /\ storing'[x] = storing[x] /\ count'[x] = count[x]
          /\ \A s \in Sender : pos'[s] = pos[s] /\ up'[s] = up[s]
          /\ UNCHANGED <<partial, run, runs, files>>
      BY <1>6, <2>1, ProgramAssumption DEF ReceiverStart, TypeOK, PipeTypeOK
    <3>2. Len(ReadFields[r]) \in Nat
      BY FieldsAssumption
    <3> QED
      BY <3>1, <3>2 DEF Bookkeeping
  <2> QED
    BY <1>6, <2>1, <2>2 DEF ReceiverStart, TypeOK
<1>7. ASSUME NEW r \in Receiver, ReceiverRead(r)
      PROVE  Typed'
  <2>1. inq[r] \in Seq(Message) /\ inq[r] # << >> /\ r \in Process
    BY <1>7 DEF ReceiverRead, Reading, Arrived, TypeOK, PipeTypeOK
  <2>2. Tail(inq[r]) \in Seq(Message) /\ Head(inq[r]).run \in Nat
    <3>1. Tail(inq[r]) \in Seq(Message) /\ Head(inq[r]) \in Message
      BY <2>1
    <3> QED
      BY <3>1 DEF Message
  <2>3. PipeTypeOK'
    BY <1>7, <2>1, <2>2 DEF ReceiverRead, Take, TypeOK, PipeTypeOK
  <2>4. got' \in [Receiver -> Seq(Nat)] /\ Len(got'[r]) = pos'[r]
    BY <1>7, <2>1, <2>2 DEF ReceiverRead, TypeOK, Bookkeeping
  <2>5. Bookkeeping'
    <3>1. /\ pos'[r] <= Len(ReadFields[r]) /\ ~ storing'[r]
          /\ \A x \in Receiver : x # r => pos'[x] = pos[x] /\ got'[x] = got[x]
          /\ \A s \in Sender : pos'[s] = pos[s]
          /\ UNCHANGED <<up, partial, run, runs, storing, count, files>>
      BY <1>7, <2>1, FieldsAssumption
      DEF ReceiverRead, Reading, Take, TypeOK
    <3> QED
      BY <2>4, <3>1 DEF Bookkeeping
  <2>6. pos' \in [Process -> Nat]
    BY <1>7, <2>1 DEF ReceiverRead, TypeOK
  <2> QED
    BY <1>7, <2>3, <2>4, <2>5, <2>6 DEF ReceiverRead, TypeOK
<1>8. ASSUME NEW r \in Receiver, ReceiverFails(r)
      PROVE  Typed'
  BY <1>8, TypedVanish DEF ReceiverFails, appVars, TypeOK
<1>9. ASSUME NEW r \in Receiver, ReceiverCopy(r)
      PROVE  Typed'
  <2>1. PipeTypeOK'
    BY <1>9 DEF ReceiverCopy, pipeVars, TypeOK, PipeTypeOK
  <2>2. files' \in [Receiver -> [FileNumber -> Seq(Nat) \cup {NoFile}]]
    BY <1>9 DEF ReceiverCopy, TypeOK
  <2>3. << >> \in Seq(Nat)
    OBVIOUS
  <2>4. files'[r][count[r]] # NoFile
    BY <1>9, <2>3 DEF ReceiverCopy, TypeOK
  <2>5. Bookkeeping'
    BY <1>9, <2>4 DEF ReceiverCopy, pipeVars, TypeOK, PipeTypeOK, Bookkeeping
  <2> QED
    BY <1>9, <2>1, <2>2, <2>5 DEF ReceiverCopy, TypeOK
<1>10. ASSUME NEW r \in Receiver, ReceiverStoreField(r)
       PROVE  Typed'
  <2> DEFINE file == files[r][count[r]]
             value == got[r][Stored(r) + 1]
  <2>1. file \in Seq(Nat) /\ count[r] \in FileNumber /\ Len(file) < Len(got[r])
    BY <1>10 DEF ReceiverStoreField, Stored, TypeOK, Bookkeeping
  <2>2. value \in Nat
    BY <2>1 DEF Stored, TypeOK
  <2>3. Append(file, value) \in Seq(Nat)
    BY <2>1, <2>2
  <2>4. files' = [files EXCEPT ![r] = [files[r] EXCEPT ![count[r]] = Append(file, value)]]
    BY <1>10 DEF ReceiverStoreField, TypeOK
  <2>5. files' \in [Receiver -> [FileNumber -> Seq(Nat) \cup {NoFile}]]
    BY <2>1, <2>3, <2>4 DEF TypeOK
  <2>6. \A x \in Receiver : x # r => files'[x] = files[x]
    BY <2>4 DEF TypeOK
  <2>7. files'[r][count[r]] # NoFile
    BY <2>1, <2>3, <2>4 DEF TypeOK
  <2>8. Bookkeeping'
    BY <1>10, <2>6, <2>7
    DEF ReceiverStoreField, pipeVars, TypeOK, PipeTypeOK, Bookkeeping
  <2> QED
    BY <1>10, <2>5, <2>8
    DEF ReceiverStoreField, pipeVars, TypeOK, PipeTypeOK
<1>11. ASSUME NEW r \in Receiver, ReceiverStored(r)
       PROVE  Typed'
  <2>1. files[r][count[r]] \in Seq(Nat) /\ r \in Process
    BY <1>11 DEF ReceiverStored, TypeOK, Bookkeeping
  <2>2. delivered' \in Seq(Seq(Nat))
    BY <1>11, <2>1 DEF ReceiverStored, TypeOK
  <2>3. PipeTypeOK' /\ UNCHANGED <<up, partial, run, runs, kills, exited, files>>
    BY <1>11 DEF ReceiverStored, pipeVars, TypeOK, PipeTypeOK
  <2>4. /\ pos'[r] = 0 /\ Len(got'[r]) = 0 /\ ~ storing'[r]
        /\ \A x \in Receiver : x # r =>
              /\ pos'[x] = pos[x] /\ got'[x] = got[x]
              /\ storing'[x] = storing[x] /\ count'[x] = count[x]
        /\ \A s \in Sender : pos'[s] = pos[s]
    BY <1>11, <2>1 DEF ReceiverStored, TypeOK
  <2>5. Len(ReadFields[r]) \in Nat
    BY FieldsAssumption
  <2>6. Bookkeeping'
    BY <2>3, <2>4, <2>5 DEF Bookkeeping
  <2>7. /\ pos' \in [Process -> Nat]
        /\ got' \in [Receiver -> Seq(Nat)]
        /\ storing' \in [Receiver -> BOOLEAN]
        /\ count' \in [Receiver -> Nat \ {0}]
    <3>1. << >> \in Seq(Nat)
      OBVIOUS
    <3>2. \A n \in Nat \ {0} : n + 1 \in Nat \ {0}
      OBVIOUS
    <3> QED
      BY <1>11, <2>1, <3>1, <3>2 DEF ReceiverStored, TypeOK
  <2> QED
    BY <2>2, <2>3, <2>6, <2>7 DEF TypeOK
<1>12. ASSUME NEW p \in Process, Library(p)
       PROVE  Typed'
  <2>1. CASE Connect(p)
    <3>1. PipeTypeOK'
      BY <2>1 DEF Connect, TypeOK, PipeTypeOK
    <3>2. Bookkeeping'
      BY <1>12, <2>1 DEF Library, Connect, appVars, Bookkeeping
    <3> QED
      BY <1>12, <3>1, <3>2 DEF Library, appVars, TypeOK
  <2>2. CASE Transfer(p)
    <3>1. outq[p] \in Seq(Message) /\ inq[p] \in Seq(Message) /\ outq[p] # << >>
      BY <2>2 DEF Transfer, TypeOK, PipeTypeOK
    <3>2. /\ Tail(outq[p]) \in Seq(Message)
          /\ Append(inq[p], Head(outq[p])) \in Seq(Message)
      BY <3>1
    <3>3. PipeTypeOK'
      BY <2>2, <3>2 DEF Transfer, TypeOK, PipeTypeOK
    <3>4. Bookkeeping'
      BY <1>12, <2>2 DEF Library, Transfer, appVars, Bookkeeping
    <3> QED
      BY <1>12, <3>3, <3>4 DEF Library, appVars, TypeOK
  <2> QED
    BY <1>12, <2>1, <2>2 DEF Library
<1>13. ASSUME NEW p \in Process, Kill(p)
       PROVE  Typed'
  BY <1>13, TypedVanish DEF Kill, TypeOK
<1>14. CASE UNCHANGED vars
  BY <1>14
  DEF vars, pipeVars, appVars, TypeOK, PipeTypeOK, Bookkeeping, Stored
<1> QED
  BY <1>1, <1>2, <1>3, <1>4, <1>5, <1>6, <1>7, <1>8, <1>9, <1>10, <1>11,
     <1>12, <1>13, <1>14
  DEF Next, SenderSteps, ReceiverSteps

(***************************************************************************)
(* Type correctness: whatever the programs, the schemas and the sockets,   *)
(* every variable keeps its type and the bookkeeping of both programs      *)
(* stays in step with the messages under way.                              *)
(***************************************************************************)
THEOREM TypeCorrect == Spec => [](TypeOK /\ Bookkeeping)
<1>1. Init => Typed
  BY TypedInit
<1>2. Typed /\ [Next]_vars => Typed'
  BY TypedStep
<1> QED
  BY <1>1, <1>2, PTL DEF Spec, Typed

(***************************************************************************)
(* The bookkeeping by itself: the counters of the sender and the receiver  *)
(* agree with their pipes at every step, kills included.                   *)
(***************************************************************************)
THEOREM BookkeepingHolds == Spec => []Bookkeeping
  BY TypeCorrect, PTL

-----------------------------------------------------------------------------
(***************************************************************************)
(* The pipes' own steps keep connections, queues and half-sent messages    *)
(* consistent; the programs change nothing of the pipes but through them.  *)
(***************************************************************************)
PipeStep(p) == \/ Construct(p) \/ Connect(p) \/ SendId(p)
               \/ (\E m \in Message : SendData(p, m))
               \/ Transfer(p) \/ (Arrived(p) /\ Take(p))
               \/ Close(p) \/ LingerEnds(p) \/ Vanish(p)

LEMMA QueuesStep ==
    ASSUME PipeTypeOK, QueuesOfPeers, NEW p \in Process, PipeStep(p)
    PROVE  QueuesOfPeers'
<1> USE DEF PipeTypeOK, QueuesOfPeers
<1>1. CASE Construct(p)
  BY <1>1 DEF Construct
<1>2. CASE Connect(p)
  BY <1>2 DEF Connect
<1>3. CASE SendId(p)
  BY <1>3 DEF SendId
<1>4. ASSUME NEW m \in Message, SendData(p, m)
      PROVE  QueuesOfPeers'
  BY <1>4 DEF SendData
<1>5. CASE Transfer(p)
  BY <1>5 DEF Transfer
<1>6. CASE Arrived(p) /\ Take(p)
  BY <1>6 DEF Arrived, Take
<1>7. CASE Close(p)
  BY <1>7 DEF Close, Disconnected
<1>8. CASE LingerEnds(p)
  BY <1>8 DEF LingerEnds
<1>9. CASE Vanish(p)
  BY <1>9 DEF Vanish, Disconnected
<1> QED
  BY <1>1, <1>2, <1>3, <1>4, <1>5, <1>6, <1>7, <1>8, <1>9 DEF PipeStep

(* A pipe is open for the first time only where nothing listens yet.       *)
LEMMA BinderStep ==
    ASSUME PipeTypeOK, OneBinder, NEW p \in Process, PipeStep(p)
    PROVE  OneBinder'
<1> USE DEF PipeTypeOK, OneBinder
<1>1. CASE Construct(p)
  <2>1. \A q \in Process : up[q] = "open" => Outbound[q] # Outbound[p]
    BY <1>1 DEF Construct, Bound
  <2>2. up' = [up EXCEPT ![p] = "open"]
    BY <1>1 DEF Construct
  <2>3. \A q \in Process : q # p => up'[q] = up[q]
    BY <2>2
  <2> QED
    BY <2>1, <2>3
<1>2. CASE UNCHANGED up
  BY <1>2
<1>3. CASE up' = [up EXCEPT ![p] = "linger"] \/ up' = [up EXCEPT ![p] = "off"]
  <2>1. \A q \in Process : up'[q] = "open" => up[q] = "open"
    BY <1>3
  <2> QED
    BY <2>1
<1> QED
  BY <1>1, <1>2, <1>3
  DEF PipeStep, Connect, SendId, SendData, Transfer, Take, Close, LingerEnds, Vanish

LEMMA ConnectionsStep ==
    ASSUME PipeTypeOK, ConnectionsConsistent, NEW p \in Process, PipeStep(p)
    PROVE  ConnectionsConsistent'
  BY QueuesStep, BinderStep DEF ConnectionsConsistent

LEMMA StepsAreOfPipes ==
    ASSUME Typed, [Next]_vars
    PROVE  (\E p \in Process : PipeStep(p)) \/ UNCHANGED pipeVars
<1> USE DEF PipeStep
<1>1. ASSUME NEW s \in Sender, SenderStart(s) \/ SenderSteps(s)
      PROVE  \E p \in Process : PipeStep(p)
  <2>1. CASE SenderStart(s)
    BY <2>1 DEF SenderStart
  <2>2. CASE SenderWriteId(s)
    BY <2>2 DEF SenderWriteId
  <2>3. CASE SenderWriteData(s)
    BY <2>3, DueIsSent
  <2>4. CASE SenderReturn(s)
    BY <2>4 DEF SenderReturn
  <2>5. CASE SenderExit(s)
    BY <2>5 DEF SenderExit
  <2> QED
    BY <1>1, <2>1, <2>2, <2>3, <2>4, <2>5 DEF SenderSteps
<1>2. ASSUME NEW r \in Receiver, ReceiverStart(r) \/ ReceiverSteps(r)
      PROVE  (\E p \in Process : PipeStep(p)) \/ UNCHANGED pipeVars
  BY <1>2
  DEF ReceiverStart, ReceiverSteps, ReceiverRead, Reading, ReceiverFails,
      ReceiverCopy, ReceiverStoreField, ReceiverStored
<1>3. ASSUME NEW p \in Process, Library(p) \/ Kill(p)
      PROVE  \E q \in Process : PipeStep(q)
  BY <1>3 DEF Library, Kill
<1> QED
  BY <1>1, <1>2, <1>3 DEF Next, vars

(***************************************************************************)
(* Connections, queues and half-sent messages stay consistent, and no      *)
(* address is bound by two processes, for any configuration of the         *)
(* sockets, also one where pipes reach themselves.                         *)
(***************************************************************************)
THEOREM ConnectionsStayConsistent == Spec => []ConnectionsConsistent
<1> DEFINE Inv == Typed /\ ConnectionsConsistent
<1>1. Init => Inv
  BY TypedInit DEF Init, PipeInit, ConnectionsConsistent, QueuesOfPeers, OneBinder
<1>2. Inv /\ [Next]_vars => Inv'
  <2> SUFFICES ASSUME Inv, [Next]_vars
               PROVE  ConnectionsConsistent'
    BY TypedStep
  <2>1. CASE \E p \in Process : PipeStep(p)
    BY <2>1, ConnectionsStep DEF Typed, TypeOK
  <2>2. CASE UNCHANGED pipeVars
    BY <2>2 DEF pipeVars, ConnectionsConsistent, QueuesOfPeers, OneBinder
  <2> QED
    BY <2>1, <2>2, StepsAreOfPipes
<1> QED
  BY <1>1, <1>2, PTL DEF Spec
-----------------------------------------------------------------------------
(***************************************************************************)
(* No field is ever duplicated: the proof that Accounted is inductive, for *)
(* any number of senders and receivers, any configuration of the sockets,  *)
(* any bounds, and whatever is killed and restarted.  Each step is shown   *)
(* to move fields from place to place, never two to one nor one to two.    *)
(***************************************************************************)

(* A field of execution k with this path is at one place: the i-th in      *)
(* queue q of p, the i-th that r holds, the i-th of the n-th stored struct. *)
On(q, p, i, k, path) == /\ p \in Process /\ i \in DOMAIN q[p]
                        /\ q[p][i].run = k /\ q[p][i].path = path
Held(r, i, k, path) == /\ r \in Receiver /\ i \in DOMAIN got[r]
                       /\ got[r][i] = k /\ ReadFields[r][i].path = path
Kept(n, i, k, path) == /\ n \in DOMAIN delivered /\ i \in DOMAIN delivered[n]
                       /\ delivered[n][i] = k
                       /\ \E r \in Receiver : ReadFields[r][i].path = path

At(place, of, i, k, path) ==
    \/ place = "inq" /\ On(inq, of, i, k, path)
    \/ place = "outq" /\ On(outq, of, i, k, path)
    \/ place = "got" /\ Held(of, i, k, path)
    \/ place = "delivered" /\ Kept(of, i, k, path)

(* The parts of Accounted about places, one place at a time.               *)
OnePlace ==
    \A k, path, c, a, i, d, b, j :
        At(c, a, i, k, path) /\ At(d, b, j, k, path) => c = d /\ a = b /\ i = j

WrittenBefore ==
    \A k, path, c, a, i : At(c, a, i, k, path) =>
        k \in 1 .. runs /\ \A s \in Sender : run[s] = k => Written(s, path)

Tracked == Typed /\ RunsApart /\ FileSoFar /\ OnePlace /\ WrittenBefore

LEMMA PlacesAreAt ==
    ASSUME NEW k, NEW path, NEW x \in Places(k, path)
    PROVE  \E c, a, i : x = <<c, a, i>> /\ At(c, a, i, k, path)
<1>1. CASE x \in QueuedAt("inq", inq, k, path)
  BY <1>1 DEF QueuedAt, At, On
<1>2. CASE x \in QueuedAt("outq", outq, k, path)
  BY <1>2 DEF QueuedAt, At, On
<1>3. CASE x \in HeldAt(k, path)
  BY <1>3 DEF HeldAt, At, Held
<1>4. CASE x \in StoredAt(k, path)
  BY <1>4 DEF StoredAt, At, Kept
<1> QED
  BY <1>1, <1>2, <1>3, <1>4 DEF Places

LEMMA TrackedIsEnough ==
    ASSUME Tracked
    PROVE  Accounted
<1>1. AtMostOnce
  <2> SUFFICES ASSUME NEW k \in 1 .. runs, NEW f \in DOMAIN WriteFields,
                      NEW x \in Places(k, WriteFields[f].path),
                      NEW y \in Places(k, WriteFields[f].path)
               PROVE  x = y
    BY DEF AtMostOnce
  <2>1. PICK c, a, i : x = <<c, a, i>> /\ At(c, a, i, k, WriteFields[f].path)
    BY PlacesAreAt
  <2>2. PICK d, b, j : y = <<d, b, j>> /\ At(d, b, j, k, WriteFields[f].path)
    BY PlacesAreAt
  <2> QED
    BY <2>1, <2>2 DEF Tracked, OnePlace
<1>2. OnlyWhatIsWritten
  <2> SUFFICES ASSUME NEW k \in 0 .. runs, NEW f \in DOMAIN WriteFields,
                      NEW x \in Places(k, WriteFields[f].path)
               PROVE  /\ k # 0
                      /\ \A s \in Sender : run[s] = k => Written(s, WriteFields[f].path)
    BY DEF OnlyWhatIsWritten
  <2>1. PICK c, a, i : At(c, a, i, k, WriteFields[f].path)
    BY PlacesAreAt
  <2> QED
    BY <2>1 DEF Tracked, WrittenBefore
<1> QED
  BY <1>1, <1>2 DEF Tracked, Accounted

-----------------------------------------------------------------------------
(* What the two ends of a sequence do when it moves on.                    *)
LEMMA TailFacts ==
    ASSUME NEW S, NEW q \in Seq(S), q # << >>
    PROVE  /\ 1 \in DOMAIN q /\ Head(q) = q[1]
           /\ \A j \in DOMAIN Tail(q) : j + 1 \in DOMAIN q /\ Tail(q)[j] = q[j + 1]
                                          /\ j \in Nat \ {0}
  OBVIOUS

LEMMA AppendFacts ==
    ASSUME NEW S, NEW q \in Seq(S), NEW m \in S
    PROVE  /\ Len(q) + 1 \notin DOMAIN q
           /\ \A j \in DOMAIN Append(q, m) :
                 IF j = Len(q) + 1 THEN Append(q, m)[j] = m
                 ELSE j \in DOMAIN q /\ Append(q, m)[j] = q[j]
  OBVIOUS

(* Senders that go on, and new ones, have written what they had written.   *)
SendersGoOn ==
    /\ runs' \in Nat /\ runs' >= runs
    /\ \A s \in Sender : \/ run'[s] = run[s] /\ pos'[s] \in Nat /\ pos'[s] >= pos[s]
                         \/ run'[s] > runs

LEMMA WrittenStays ==
    ASSUME Tracked, SendersGoOn, NEW k \in 1 .. runs, NEW path,
           \A s \in Sender : run[s] = k => Written(s, path)
    PROVE  k \in 1 .. runs' /\ \A s \in Sender : run'[s] = k => Written(s, path)'
<1>1. runs \in Nat /\ \A s \in Sender : pos[s] \in Nat
  BY DEF Tracked, Typed, TypeOK
<1>2. k \in 1 .. runs'
  BY <1>1 DEF SendersGoOn
<1>3. ASSUME NEW s \in Sender, run'[s] = k
      PROVE  Written(s, path)'
  <2>1. run[s] = k /\ pos'[s] \in Nat /\ pos'[s] >= pos[s]
    BY <1>1, <1>3 DEF SendersGoOn
  <2>2. PICK i \in 1 .. pos[s] : WriteFields[i].path = path
    BY <2>1 DEF Written
  <2>3. i \in 1 .. pos'[s]
    BY <1>1, <2>1
  <2> QED
    BY <2>2, <2>3 DEF Written
<1> QED
  BY <1>2, <1>3

(* A step after which every field is where it was, or is lost.             *)
LEMMA FieldsStay ==
    ASSUME Tracked, SendersGoOn,
           \A c, a, i, k, path : At(c, a, i, k, path)' => At(c, a, i, k, path)
    PROVE  OnePlace' /\ WrittenBefore'
<1>1. OnePlace'
  BY DEF Tracked, OnePlace
<1>2. WrittenBefore'
  <2> SUFFICES ASSUME NEW k, NEW path, NEW c, NEW a, NEW i, At(c, a, i, k, path)'
               PROVE  /\ k \in 1 .. runs'
                      /\ \A s \in Sender : run'[s] = k => Written(s, path)'
    BY DEF WrittenBefore
  <2>1. k \in 1 .. runs /\ \A s \in Sender : run[s] = k => Written(s, path)
    BY DEF Tracked, WrittenBefore
  <2> QED
    BY <2>1, WrittenStays
<1> QED
  BY <1>1, <1>2

-----------------------------------------------------------------------------
(* The sender completes a field: no field of this execution and this path  *)
(* can be anywhere yet.                                                    *)
LEMMA FieldPut ==
    ASSUME SameNames, Tracked,
           NEW s \in Sender, SenderWriteData(s), partial[s] # "dropping"
    PROVE  OnePlace' /\ WrittenBefore'
<1> DEFINE p == partial[s]
           n == Len(outq[p]) + 1
<1>0. PICK m \in Message : /\ SendData(s, m)
                           /\ m.run = run[s]
                           /\ m.path = WriteFields[pos[s] + 1].path
  BY DueIsSent DEF Tracked
<1>1. /\ p \in Process /\ outq[p] \in Seq(Message) /\ m \in Message
      /\ outq' = [outq EXCEPT ![p] = Append(outq[p], m)]
      /\ outq \in [Process -> Seq(Message)]
      /\ UNCHANGED <<inq, got, delivered, runs, run>>
      /\ pos' = [pos EXCEPT ![s] = pos[s] + 1] /\ pos \in [Process -> Nat]
      /\ m.run = run[s] /\ m.path = WriteFields[pos[s] + 1].path
      /\ run[s] \in 1 .. runs /\ runs \in Nat
      /\ pos[s] \in Nat /\ pos[s] + 1 \in DOMAIN WriteFields
  <2>1. partial[s] # Nobody /\ up[s] = "open"
    BY <1>0 DEF SendData
  <2>2. pos[s] + 1 \in DOMAIN WriteFields
    BY <2>1, FieldsAssumption DEF Tracked, Typed, TypeOK, Bookkeeping
  <2>3. /\ outq \in [Process -> Seq(Message)] /\ pos \in [Process -> Nat]
        /\ run[s] \in 1 .. runs /\ runs \in Nat /\ p \in Process
    BY <2>1 DEF Tracked, Typed, TypeOK, PipeTypeOK, Bookkeeping
  <2>4. m \in Message /\ m.run = run[s] /\ m.path = WriteFields[pos[s] + 1].path
    BY <1>0
  <2>5. /\ outq' = [outq EXCEPT ![p] = Append(outq[p], m)]
        /\ UNCHANGED <<inq, got, delivered, runs, run>>
        /\ pos' = [pos EXCEPT ![s] = pos[s] + 1]
    BY <1>0 DEF SenderWriteData, SendData
  <2> HIDE DEF p
  <2> QED
    BY <2>2, <2>3, <2>4, <2>5
<1> HIDE DEF n, p
<1>2. \A c, a, i : ~ At(c, a, i, m.run, m.path)
  <2> SUFFICES ASSUME NEW c, NEW a, NEW i, At(c, a, i, m.run, m.path)
               PROVE  FALSE
    OBVIOUS
  <2>1. Written(s, m.path)
    BY <1>1 DEF Tracked, WrittenBefore
  <2>2. PICK j \in 1 .. pos[s] : WriteFields[j].path = m.path
    BY <2>1 DEF Written
  <2>3. j \in DOMAIN WriteFields /\ j # pos[s] + 1
    BY <1>1, FieldsAssumption
  <2> QED
    BY <1>1, <2>2, <2>3 DEF SameNames
<1>3. \A c, a, i, k, path : At(c, a, i, k, path)' =>
        IF c = "outq" /\ a = p /\ i = n
        THEN k = m.run /\ path = m.path
        ELSE At(c, a, i, k, path)
  <2>1. \A a, i, k, path : On(outq, a, i, k, path)' =>
          IF a = p /\ i = n THEN k = m.run /\ path = m.path
          ELSE On(outq, a, i, k, path)
    <3>1. \A a \in Process : a # p => outq'[a] = outq[a]
      BY <1>1
    <3>2. outq'[p] = Append(outq[p], m)
      BY <1>1
    <3>3. \A j \in DOMAIN outq'[p] : IF j = n THEN outq'[p][j] = m
                                     ELSE j \in DOMAIN outq[p] /\ outq'[p][j] = outq[p][j]
      BY <1>1, <3>2, AppendFacts DEF n
    <3> QED
      BY <3>1, <3>3 DEF On
  <2>2. \A a, i, k, path : /\ On(inq, a, i, k, path)' = On(inq, a, i, k, path)
                           /\ Held(a, i, k, path)' = Held(a, i, k, path)
                           /\ Kept(a, i, k, path)' = Kept(a, i, k, path)
    BY <1>1 DEF On, Held, Kept
  <2> QED
    BY <2>1, <2>2 DEF At
<1>4. OnePlace'
  BY <1>2, <1>3 DEF Tracked, OnePlace
<1>5. SendersGoOn
  BY <1>1 DEF SendersGoOn
<1>6. ASSUME NEW k, NEW path, NEW c, NEW a, NEW i, At(c, a, i, k, path)'
      PROVE  k \in 1 .. runs' /\ \A t \in Sender : run'[t] = k => Written(t, path)'
  <2>1. CASE At(c, a, i, k, path)
    <3>1. k \in 1 .. runs /\ \A t \in Sender : run[t] = k => Written(t, path)
      BY <2>1 DEF Tracked, WrittenBefore
    <3> QED
      BY <1>5, <3>1, WrittenStays
  <2>2. CASE k = m.run /\ path = m.path
    <3>1. \A t \in Sender : run[t] = k => t = s
      BY <1>1, <2>2 DEF Tracked, RunsApart
    <3>2. pos[s] + 1 \in 1 .. pos'[s] /\ WriteFields[pos[s] + 1].path = path
      BY <1>1, <2>2
    <3> QED
      BY <1>1, <2>2, <3>1, <3>2 DEF Written
  <2> QED
    BY <1>3, <1>6, <2>1, <2>2
<1> QED
  BY <1>4, <1>6 DEF WrittenBefore

(* The library carries a field from the end of one queue to the other's.   *)
LEMMA FieldMoves ==
    ASSUME Tracked, SendersGoOn, NEW p \in Process, Transfer(p),
           UNCHANGED <<got, delivered>>
    PROVE  OnePlace' /\ WrittenBefore'
<1> DEFINE n == Len(inq[p]) + 1
<1>1. /\ outq[p] \in Seq(Message) /\ outq[p] # << >> /\ inq[p] \in Seq(Message)
      /\ outq'[p] = Tail(outq[p]) /\ inq'[p] = Append(inq[p], Head(outq[p]))
      /\ \A a \in Process : a # p => outq'[a] = outq[a] /\ inq'[a] = inq[a]
  BY DEF Transfer, Tracked, Typed, TypeOK, PipeTypeOK
<1>2. /\ 1 \in DOMAIN outq[p] /\ Head(outq[p]) = outq[p][1]
      /\ \A j \in DOMAIN outq'[p] : /\ j \in Nat \ {0} /\ j + 1 \in DOMAIN outq[p]
                                    /\ outq'[p][j] = outq[p][j + 1]
  BY <1>1, TailFacts
<1>3. \A j \in DOMAIN inq'[p] :
        IF j = n THEN inq'[p][j] = outq[p][1]
        ELSE j \in DOMAIN inq[p] /\ inq'[p][j] = inq[p][j]
  <2>1. Head(outq[p]) \in Message
    BY <1>1
  <2> QED
    BY <1>1, <1>2, <2>1, AppendFacts
<1> HIDE DEF n
<1>4. \A c, a, i, k, path : At(c, a, i, k, path)' =>
        \/ c = "inq" /\ a = p /\ i = n /\ At("outq", p, 1, k, path)
        \/ c = "outq" /\ a = p /\ i \in Nat \ {0} /\ At("outq", p, i + 1, k, path)
        \/ ~ (c = "outq" /\ a = p) /\ ~ (c = "inq" /\ a = p /\ i = n)
             /\ At(c, a, i, k, path)
  <2>1. \A a, i, k, path : On(inq, a, i, k, path)' =>
           IF a = p /\ i = n THEN On(outq, p, 1, k, path) ELSE On(inq, a, i, k, path)
    BY <1>1, <1>2, <1>3 DEF On
  <2>2. \A a, i, k, path : On(outq, a, i, k, path)' =>
           IF a = p THEN i \in Nat \ {0} /\ On(outq, p, i + 1, k, path)
           ELSE On(outq, a, i, k, path)
    BY <1>1, <1>2 DEF On
  <2>3. \A a, i, k, path : /\ Held(a, i, k, path)' = Held(a, i, k, path)
                           /\ Kept(a, i, k, path)' = Kept(a, i, k, path)
    BY DEF Held, Kept
  <2> QED
    BY <2>1, <2>2, <2>3 DEF At
<1>5. OnePlace'
  <2> SUFFICES ASSUME NEW k, NEW path, NEW c, NEW a, NEW i, NEW d, NEW b, NEW j,
                      At(c, a, i, k, path)', At(d, b, j, k, path)'
               PROVE  c = d /\ a = b /\ i = j
    BY DEF OnePlace
  <2> QED
    BY <1>4 DEF Tracked, OnePlace
<1>6. WrittenBefore'
  <2> SUFFICES ASSUME NEW k, NEW path, NEW c, NEW a, NEW i, At(c, a, i, k, path)'
               PROVE  k \in 1 .. runs' /\ \A s \in Sender : run'[s] = k => Written(s, path)'
    BY DEF WrittenBefore
  <2>1. k \in 1 .. runs /\ \A s \in Sender : run[s] = k => Written(s, path)
    BY <1>4 DEF Tracked, WrittenBefore
  <2> QED
    BY <2>1, WrittenStays
<1> QED
  BY <1>5, <1>6

(***************************************************************************)
(* The receiver reads the first message: it was of the path asked for, so  *)
(* its field is the next one of the struct.                                *)
(***************************************************************************)
LEMMA FieldRead ==
    ASSUME Tracked, SendersGoOn, NEW r \in Receiver, ReceiverRead(r)
    PROVE  OnePlace' /\ WrittenBefore'
<1> DEFINE n == Len(got[r]) + 1
<1>1. /\ inq[r] \in Seq(Message) /\ inq[r] # << >> /\ got[r] \in Seq(Nat)
      /\ inq'[r] = Tail(inq[r]) /\ got'[r] = Append(got[r], Head(inq[r]).run)
      /\ Head(inq[r]).path = ReadFields[r][n].path
      /\ \A a \in Process : a # r => inq'[a] = inq[a]
      /\ \A a \in Receiver : a # r => got'[a] = got[a]
      /\ UNCHANGED <<outq, delivered>>
  <2>1. /\ inq \in [Process -> Seq(Message)] /\ got \in [Receiver -> Seq(Nat)]
        /\ Len(got[r]) = pos[r]
    BY DEF Tracked, Typed, TypeOK, PipeTypeOK, Bookkeeping
  <2> QED
    BY <2>1 DEF ReceiverRead, Reading, Arrived, Matches, Accepts, Expected, Take
<1>2. /\ 1 \in DOMAIN inq[r] /\ Head(inq[r]) = inq[r][1]
      /\ \A j \in DOMAIN inq'[r] : /\ j \in Nat \ {0} /\ j + 1 \in DOMAIN inq[r]
                                   /\ inq'[r][j] = inq[r][j + 1]
  BY <1>1, TailFacts
<1>3. \A j \in DOMAIN got'[r] :
        IF j = n THEN got'[r][j] = inq[r][1].run
        ELSE j \in DOMAIN got[r] /\ got'[r][j] = got[r][j]
  <2>1. Head(inq[r]).run \in Nat
    <3>1. Head(inq[r]) \in Message
      BY <1>1
    <3> QED
      BY <3>1 DEF Message
  <2> QED
    BY <1>1, <1>2, <2>1, AppendFacts
<1> HIDE DEF n
<1>4. \A c, a, i, k, path : At(c, a, i, k, path)' =>
        \/ c = "got" /\ a = r /\ i = n /\ At("inq", r, 1, k, path)
        \/ c = "inq" /\ a = r /\ i \in Nat \ {0} /\ At("inq", r, i + 1, k, path)
        \/ ~ (c = "inq" /\ a = r) /\ ~ (c = "got" /\ a = r /\ i = n)
             /\ At(c, a, i, k, path)
  <2>1. \A a, i, k, path : Held(a, i, k, path)' =>
           IF a = r /\ i = n THEN On(inq, r, 1, k, path) ELSE Held(a, i, k, path)
    BY <1>1, <1>2, <1>3 DEF On, Held
  <2>2. \A a, i, k, path : On(inq, a, i, k, path)' =>
           IF a = r THEN i \in Nat \ {0} /\ On(inq, r, i + 1, k, path)
           ELSE On(inq, a, i, k, path)
    BY <1>1, <1>2 DEF On
  <2>3. \A a, i, k, path : /\ On(outq, a, i, k, path)' = On(outq, a, i, k, path)
                           /\ Kept(a, i, k, path)' = Kept(a, i, k, path)
    BY <1>1 DEF On, Kept
  <2> QED
    BY <2>1, <2>2, <2>3 DEF At
<1>5. OnePlace'
  <2> SUFFICES ASSUME NEW k, NEW path, NEW c, NEW a, NEW i, NEW d, NEW b, NEW j,
                      At(c, a, i, k, path)', At(d, b, j, k, path)'
               PROVE  c = d /\ a = b /\ i = j
    BY DEF OnePlace
  <2> QED
    BY <1>4 DEF Tracked, OnePlace
<1>6. WrittenBefore'
  <2> SUFFICES ASSUME NEW k, NEW path, NEW c, NEW a, NEW i, At(c, a, i, k, path)'
               PROVE  k \in 1 .. runs' /\ \A s \in Sender : run'[s] = k => Written(s, path)'
    BY DEF WrittenBefore
  <2>1. k \in 1 .. runs /\ \A s \in Sender : run[s] = k => Written(s, path)
    BY <1>4 DEF Tracked, WrittenBefore
  <2> QED
    BY <2>1, WrittenStays
<1> QED
  BY <1>5, <1>6

(***************************************************************************)
(* The receiver closes a file: the fields in it are those it held, and it  *)
(* holds them no longer.                                                   *)
(***************************************************************************)
LEMMA StructStored ==
    ASSUME SameNames, Tracked, SendersGoOn, NEW r \in Receiver, ReceiverStored(r)
    PROVE  OnePlace' /\ WrittenBefore'
<1> DEFINE n == Len(delivered) + 1
           file == files[r][count[r]]
<1>1. /\ delivered' = Append(delivered, file) /\ delivered \in Seq(Seq(Nat))
      /\ file \in Seq(Nat) /\ Len(file) = Len(ReadFields[r])
      /\ \A i \in DOMAIN file : i \in DOMAIN got[r] /\ file[i] = got[r][i]
      /\ got'[r] = << >>
      /\ \A a \in Receiver : a # r => got'[a] = got[a]
      /\ UNCHANGED <<inq, outq>>
  <2>1. /\ delivered \in Seq(Seq(Nat)) /\ got \in [Receiver -> Seq(Nat)]
        /\ storing[r] /\ file \in Seq(Nat) /\ Len(file) = Len(ReadFields[r])
    BY DEF ReceiverStored, Stored, Tracked, Typed, TypeOK, Bookkeeping
  <2>2. \A i \in DOMAIN file : i \in DOMAIN got[r] /\ file[i] = got[r][i]
    BY <2>1 DEF Tracked, FileSoFar
  <2>3. /\ delivered' = Append(delivered, file)
        /\ got' = [got EXCEPT ![r] = << >>] /\ UNCHANGED pipeVars
    BY DEF ReceiverStored
  <2>4. UNCHANGED <<inq, outq>>
    BY <2>3 DEF pipeVars
  <2> HIDE DEF file
  <2> QED
    BY <2>1, <2>2, <2>3, <2>4
<1>2. \A x \in Receiver, i \in DOMAIN file : ReadFields[x][i].path = ReadFields[r][i].path
  BY <1>1, FieldsAssumption DEF SameNames
<1> HIDE DEF file
<1>3. \A j \in DOMAIN delivered' :
        IF j = n THEN delivered'[j] = file
        ELSE j \in DOMAIN delivered /\ delivered'[j] = delivered[j]
  BY <1>1, AppendFacts
<1> HIDE DEF n
<1>4. \A c, a, i, k, path : At(c, a, i, k, path)' =>
        IF c = "delivered" /\ a = n THEN At("got", r, i, k, path)
        ELSE ~ (c = "got" /\ a = r) /\ At(c, a, i, k, path)
  <2>1. \A a, i, k, path : Kept(a, i, k, path)' =>
          IF a = n THEN Held(r, i, k, path) ELSE Kept(a, i, k, path)
    BY <1>1, <1>2, <1>3 DEF Kept, Held
  <2>2. \A a, i, k, path : Held(a, i, k, path)' => a # r /\ Held(a, i, k, path)
    BY <1>1 DEF Held
  <2>3. \A a, i, k, path : /\ On(inq, a, i, k, path)' = On(inq, a, i, k, path)
                           /\ On(outq, a, i, k, path)' = On(outq, a, i, k, path)
    BY <1>1 DEF On
  <2> QED
    BY <2>1, <2>2, <2>3 DEF At
<1>5. OnePlace'
  <2> SUFFICES ASSUME NEW k, NEW path, NEW c, NEW a, NEW i, NEW d, NEW b, NEW j,
                      At(c, a, i, k, path)', At(d, b, j, k, path)'
               PROVE  c = d /\ a = b /\ i = j
    BY DEF OnePlace
  <2> QED
    BY <1>4 DEF Tracked, OnePlace
<1>6. WrittenBefore'
  <2> SUFFICES ASSUME NEW k, NEW path, NEW c, NEW a, NEW i, At(c, a, i, k, path)'
               PROVE  k \in 1 .. runs' /\ \A s \in Sender : run'[s] = k => Written(s, path)'
    BY DEF WrittenBefore
  <2>1. k \in 1 .. runs /\ \A s \in Sender : run[s] = k => Written(s, path)
    BY <1>4 DEF Tracked, WrittenBefore
  <2> QED
    BY <2>1, WrittenStays
<1> QED
  BY <1>5, <1>6

-----------------------------------------------------------------------------
(* Every step of the programs, the library and the surroundings.           *)
LEMMA PlacesStep ==
    ASSUME SameNames, Tracked, [Next]_vars
    PROVE  OnePlace' /\ WrittenBefore'
<1>1. /\ PipeTypeOK /\ runs \in Nat /\ run \in [Sender -> Nat] /\ pos \in [Process -> Nat]
      /\ got \in [Receiver -> Seq(Nat)]
  BY DEF Tracked, Typed, TypeOK
<1>2. ASSUME UNCHANGED <<runs, run, delivered>>,
             \A s \in Sender : pos'[s] \in Nat /\ pos'[s] >= pos[s],
             \A p \in Process : inq'[p] \in {inq[p], << >>} /\ outq'[p] \in {outq[p], << >>},
             \A r \in Receiver : got'[r] \in {got[r], << >>}
      PROVE  OnePlace' /\ WrittenBefore'
  <2>1. SendersGoOn
    BY <1>1, <1>2 DEF SendersGoOn
  <2>2. \A a, i, k, path : /\ On(inq, a, i, k, path)' => On(inq, a, i, k, path)
                           /\ On(outq, a, i, k, path)' => On(outq, a, i, k, path)
                           /\ Held(a, i, k, path)' => Held(a, i, k, path)
                           /\ Kept(a, i, k, path)' => Kept(a, i, k, path)
    BY <1>2 DEF On, Held, Kept
  <2>3. \A c, a, i, k, path : At(c, a, i, k, path)' => At(c, a, i, k, path)
    BY <2>2 DEF At
  <2> QED
    BY <2>1, <2>3, FieldsStay
<1>3. ASSUME UNCHANGED <<runs, run, pos>>
      PROVE  SendersGoOn
  BY <1>1, <1>3 DEF SendersGoOn
<1>4. ASSUME NEW s \in Sender, SenderStart(s)
      PROVE  OnePlace' /\ WrittenBefore'
  <2>1. SendersGoOn
    BY <1>1, <1>4 DEF SenderStart, SendersGoOn
  <2>2. UNCHANGED <<inq, outq, got, delivered>>
    BY <1>4 DEF SenderStart, Construct
  <2>3. \A c, a, i, k, path : At(c, a, i, k, path)' => At(c, a, i, k, path)
    BY <2>2 DEF At, On, Held, Kept
  <2> QED
    BY <2>1, <2>3, FieldsStay
<1>5. ASSUME NEW s \in Sender, SenderWriteData(s)
      PROVE  OnePlace' /\ WrittenBefore'
  <2>1. CASE partial[s] # "dropping"
    BY <1>5, <2>1, FieldPut DEF Tracked
  <2>2. CASE partial[s] = "dropping"
    BY <1>1, <1>2, <1>5, <2>2 DEF SenderWriteData, SendData
  <2> QED
    BY <2>1, <2>2
<1>6. ASSUME NEW s \in Sender, SenderWriteId(s) \/ SenderExit(s)
      PROVE  OnePlace' /\ WrittenBefore'
  BY <1>1, <1>2, <1>6 DEF SenderWriteId, SendId, SenderExit, LingerEnds, appVars
<1>7. ASSUME NEW s \in Sender, SenderReturn(s)
      PROVE  OnePlace' /\ WrittenBefore'
  <2>1. \A p \in Process : inq'[p] \in {inq[p], << >>} /\ outq'[p] \in {outq[p], << >>}
    BY <1>1, <1>7 DEF SenderReturn, Close, Disconnected, PipeTypeOK
  <2>2. UNCHANGED <<runs, run, pos, got, delivered>>
    BY <1>7 DEF SenderReturn, appVars
  <2> QED
    BY <1>1, <1>2, <2>1, <2>2
<1>8. ASSUME NEW r \in Receiver, ReceiverStart(r)
      PROVE  OnePlace' /\ WrittenBefore'
  <2>1. r \notin Sender
    OBVIOUS
  <2> QED
    BY <1>1, <1>2, <1>8, <2>1 DEF ReceiverStart, Construct
<1>9. ASSUME NEW r \in Receiver, ReceiverRead(r)
      PROVE  OnePlace' /\ WrittenBefore'
  <2>1. SendersGoOn
    BY <1>1, <1>9 DEF ReceiverRead, SendersGoOn
  <2> QED
    BY <1>9, <2>1, FieldRead
<1>10. ASSUME NEW r \in Receiver, ReceiverCopy(r) \/ ReceiverStoreField(r)
       PROVE  OnePlace' /\ WrittenBefore'
  BY <1>1, <1>2, <1>10 DEF ReceiverCopy, ReceiverStoreField, pipeVars
<1>11. ASSUME NEW r \in Receiver, ReceiverStored(r)
       PROVE  OnePlace' /\ WrittenBefore'
  <2>1. SendersGoOn
    <3>1. r \notin Sender
      OBVIOUS
    <3> QED
      BY <1>1, <1>11, <3>1 DEF ReceiverStored, SendersGoOn
  <2> QED
    BY <1>11, <2>1, StructStored
<1>12. ASSUME NEW p \in Process, Library(p)
       PROVE  OnePlace' /\ WrittenBefore'
  <2>1. CASE Connect(p)
    BY <1>1, <1>2, <1>12, <2>1 DEF Library, Connect, appVars
  <2>2. CASE Transfer(p)
    BY <1>3, <1>12, <2>2, FieldMoves DEF Library, appVars
  <2> QED
    BY <1>12, <2>1, <2>2 DEF Library
<1>13. ASSUME NEW p \in Process, Vanish(p),
              UNCHANGED <<runs, run, pos, got, delivered>>
       PROVE  OnePlace' /\ WrittenBefore'
  <2>1. \A q \in Process : inq'[q] \in {inq[q], << >>} /\ outq'[q] \in {outq[q], << >>}
    BY <1>1, <1>13 DEF Vanish, Disconnected, PipeTypeOK
  <2> QED
    BY <1>1, <1>2, <1>13, <2>1
<1>14. CASE UNCHANGED vars
  BY <1>1, <1>2, <1>14 DEF vars, pipeVars, appVars
<1> QED
  BY <1>4, <1>5, <1>6, <1>7, <1>8, <1>9, <1>10, <1>11, <1>12, <1>13, <1>14
  DEF Next, SenderSteps, ReceiverSteps, ReceiverFails, Kill, appVars

LEMMA RunsApartStep ==
    ASSUME Typed, RunsApart, [Next]_vars
    PROVE  RunsApart'
<1>1. runs \in Nat /\ run \in [Sender -> Nat]
  BY DEF Typed, TypeOK
<1>2. ASSUME NEW s \in Sender, SenderStart(s)
      PROVE  RunsApart'
  BY <1>1, <1>2 DEF SenderStart, RunsApart
<1>3. CASE UNCHANGED <<runs, run>>
  BY <1>3 DEF RunsApart
<1> QED
  BY <1>2, <1>3
  DEF Next, vars, appVars, SenderSteps, SenderWriteId, SenderWriteData,
      SenderReturn, SenderExit, ReceiverStart, ReceiverSteps, ReceiverRead,
      ReceiverFails, ReceiverCopy, ReceiverStoreField, ReceiverStored, Library, Kill

LEMMA FileSoFarStep ==
    ASSUME Typed, FileSoFar, [Next]_vars
    PROVE  FileSoFar'
<1>1. /\ got \in [Receiver -> Seq(Nat)] /\ storing \in [Receiver -> BOOLEAN]
      /\ count \in [Receiver -> Nat \ {0}]
      /\ files \in [Receiver -> [FileNumber -> Seq(Nat) \cup {NoFile}]]
  BY DEF Typed, TypeOK
<1>2. ASSUME NEW r \in Receiver, ReceiverRead(r)
      PROVE  FileSoFar'
  <2>1. /\ ~ storing'[r] /\ \A x \in Receiver : x # r => got'[x] = got[x]
        /\ UNCHANGED <<storing, count, files>>
    BY <1>1, <1>2 DEF ReceiverRead, Reading
  <2> QED
    BY <2>1 DEF FileSoFar
<1>3. ASSUME NEW r \in Receiver, ReceiverStart(r) \/ ReceiverStored(r)
      PROVE  FileSoFar'
  <2>1. /\ ~ storing'[r] /\ files' = files
        /\ \A x \in Receiver : x # r => /\ got'[x] = got[x] /\ count'[x] = count[x]
                                        /\ storing'[x] = storing[x]
    BY <1>1, <1>3 DEF ReceiverStart, ReceiverStored
  <2> QED
    BY <2>1 DEF FileSoFar
<1>4. ASSUME NEW r \in Receiver, ReceiverCopy(r)
      PROVE  FileSoFar'
  <2>1. /\ files'[r][count[r]] = << >> /\ UNCHANGED <<got, count>>
        /\ \A x \in Receiver : x # r => files'[x] = files[x] /\ storing'[x] = storing[x]
    BY <1>1, <1>4 DEF ReceiverCopy
  <2>2. DOMAIN files'[r][count'[r]] = {}
    BY <2>1
  <2> QED
    BY <2>1, <2>2 DEF FileSoFar
<1>5. ASSUME NEW r \in Receiver, ReceiverStoreField(r)
      PROVE  FileSoFar'
  <2> DEFINE f == files[r][count[r]]
             n == Len(f) + 1
             x == got[r][n]
  <2>1. /\ storing[r] /\ count[r] \in FileNumber /\ f \in Seq(Nat)
        /\ Len(f) < Len(got[r]) /\ got[r] \in Seq(Nat)
    BY <1>1, <1>5 DEF ReceiverStoreField, Stored, Typed, TypeOK, Bookkeeping
  <2>2. /\ files'[r][count[r]] = Append(f, x) /\ UNCHANGED <<got, count, storing>>
        /\ \A y \in Receiver : y # r => files'[y] = files[y]
    BY <1>1, <1>5, <2>1 DEF ReceiverStoreField, Stored
  <2>3. n \in DOMAIN got[r] /\ x \in Nat
    BY <2>1
  <2>4. \A i \in DOMAIN f : i \in DOMAIN got[r] /\ f[i] = got[r][i]
    BY <2>1 DEF FileSoFar
  <2> HIDE DEF f, x
  <2>5. \A i \in DOMAIN Append(f, x) :
          IF i = n THEN Append(f, x)[i] = x ELSE i \in DOMAIN f /\ Append(f, x)[i] = f[i]
    BY <2>1, <2>3, AppendFacts
  <2>6. \A i \in DOMAIN Append(f, x) : i \in DOMAIN got[r] /\ Append(f, x)[i] = got[r][i]
    BY <2>3, <2>4, <2>5 DEF x
  <2> QED
    BY <2>2, <2>6 DEF FileSoFar
<1>6. CASE UNCHANGED <<got, storing, count, files>>
  BY <1>6 DEF FileSoFar
<1> QED
  BY <1>2, <1>3, <1>4, <1>5, <1>6
  DEF Next, vars, appVars, SenderStart, SenderSteps, SenderWriteId, SenderWriteData,
      SenderReturn, SenderExit, ReceiverSteps, ReceiverFails, Library, Kill

(***************************************************************************)
(* Whatever is lost on the way, nothing is there twice: a field written    *)
(* once is in one queue, or held by one receiver, or in one stored struct, *)
(* for any number of programs, any configuration of the sockets (also one  *)
(* where pipes reach themselves), and any kills and restarts.              *)
(***************************************************************************)
THEOREM FieldsAreAccounted ==
    ASSUME SameNames
    PROVE  Spec => []Accounted
<1>1. Init => Tracked
  <2> SUFFICES ASSUME Init
               PROVE  Tracked
    OBVIOUS
  <2>1. /\ \A p \in Process : inq[p] = << >> /\ outq[p] = << >>
        /\ \A r \in Receiver : got[r] = << >> /\ ~ storing[r]
        /\ delivered = << >> /\ runs = 0 /\ \A s \in Sender : run[s] = 0
    BY DEF Init, PipeInit
  <2>2. \A c, a, i, k, path : ~ At(c, a, i, k, path)
    BY <2>1 DEF At, On, Held, Kept
  <2> QED
    BY <2>1, <2>2, TypedInit
    DEF Tracked, RunsApart, FileSoFar, OnePlace, WrittenBefore
<1>2. Tracked /\ [Next]_vars => Tracked'
  BY TypedStep, RunsApartStep, FileSoFarStep, PlacesStep DEF Tracked
<1>3. Tracked => Accounted
  BY TrackedIsEnough
<1> QED
  BY <1>1, <1>2, <1>3, PTL DEF Spec

(* The first part of it: the safety property of the runs.                  *)
THEOREM NothingIsDuplicated ==
    ASSUME SameNames
    PROVE  Spec => []AtMostOnce
<1>1. Accounted => AtMostOnce
  BY DEF Accounted
<1> QED
  BY <1>1, FieldsAreAccounted, PTL
=============================================================================
