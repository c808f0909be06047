------------------------- MODULE DeliveryOrderProofs -------------------------
(***************************************************************************)
(* A single receiver never mixes the structs of two executions, and stores *)
(* each at most once and in order, as StructTransfer promises: the proof   *)
(* that InOrder is inductive, for any number of senders, any schema, any   *)
(* queue bound, and any number of kills and restarts.                      *)
(***************************************************************************)
EXTENDS DeliveryOrder, SenderReceiverProofs, SequenceTheorems, TLAPS

USE ProgramAssumption, NobodyAssumption, BoundsAssumption

-----------------------------------------------------------------------------
(* What the steps do to the two queues of a connection, end to end.        *)

LEMMA ConcatType ==
    ASSUME NEW S, NEW a \in Seq(S), NEW b \in Seq(S)
    PROVE  a \o b \in Seq(S)
  OBVIOUS

LEMMA ConcatMove ==
    ASSUME NEW S, NEW a \in Seq(S), NEW b \in Seq(S), b # << >>
    PROVE  Append(a, Head(b)) \o Tail(b) = a \o b
  OBVIOUS

-----------------------------------------------------------------------------
(* What the types say of the receiver's stream and of its struct.          *)
LEMMA StreamFacts ==
    ASSUME Typed, NEW r \in Receiver
    PROVE  /\ inq[r] \in Seq(Message) /\ outq[r] \in Seq(Message)
           /\ Stream(r) \in Seq(Message)
           /\ Len(Stream(r)) \in Nat
           /\ Stream(r) = << >> <=> Len(Stream(r)) = 0
           /\ \A j \in 1 .. Len(Stream(r)) : Stream(r)[j].run \in Nat
<1>1. inq[r] \in Seq(Message) /\ outq[r] \in Seq(Message)
  BY DEF Typed, TypeOK, PipeTypeOK
<1>2. Stream(r) \in Seq(Message)
  BY <1>1, ConcatType, Zenon DEF Stream
<1>3. \A j \in 1 .. Len(Stream(r)) : Stream(r)[j] \in Message
  BY <1>2
<1> QED
  BY <1>1, <1>2, <1>3 DEF Message

LEMMA StructFacts ==
    ASSUME Typed, NEW r \in Receiver, ExampleSetup(r)
    PROVE  /\ runs \in Nat
           /\ pos[r] \in Nat /\ pos[r] <= Len(WriteFields)
           /\ got[r] \in Seq(Nat) /\ Len(got[r]) = pos[r]
           /\ \A i \in 1 .. pos[r] : got[r][i] \in Nat
           /\ Len(WriteFields) \in Nat /\ Len(WriteFields) # 0
           /\ DOMAIN WriteFields = 1 .. Len(WriteFields)
<1>1. /\ runs \in Nat
      /\ pos[r] \in Nat /\ pos[r] <= Len(WriteFields)
      /\ got[r] \in Seq(Nat) /\ Len(got[r]) = pos[r]
  BY DEF Typed, TypeOK, Bookkeeping, ExampleSetup
<1> QED
  BY <1>1, FieldsAssumption

-----------------------------------------------------------------------------
(* The connections of the set-up: senders reach only the receiver, and one *)
(* sender at a time holds the address.                                     *)
LEMMA OnlyReceiverStays ==
    ASSUME NEW r \in Receiver, ExampleSetup(r), Typed, ConnectionsConsistent,
           OnlyReceiver(r), [Next]_vars
    PROVE  OnlyReceiver(r)'
<1>1. /\ Receiver = {r} /\ r \in Process /\ r \notin Sender
      /\ \A s \in Sender : s \in Process /\ s # r
      /\ \A p \in Process : p \in Sender \/ p = r
      /\ r # Nobody /\ r # "dropping" /\ Nobody # "dropping"
  BY DEF ExampleSetup
<1>2. PipeTypeOK
  BY DEF Typed, TypeOK
<1>3. ASSUME NEW p \in Process, Construct(p)
      PROVE  OnlyReceiver(r)'
  <2>1. \A s, t \in Sender : up'[s] = "open" /\ up'[t] = "open" => s = t
    BY <1>1, <1>2, <1>3 DEF Construct, Bound, OnlyReceiver, ExampleSetup, PipeTypeOK
  <2> QED
    BY <1>3, <2>1 DEF Construct, OnlyReceiver
<1>4. ASSUME NEW p \in Process, Connect(p)
      PROVE  OnlyReceiver(r)'
  <2>1. PICK q \in Process : /\ Outbound[q] = Incoming[p]
                             /\ peer' = [peer EXCEPT ![p] = q]
    BY <1>4 DEF Connect
  <2>2. p = r => q # r
    BY <2>1 DEF ExampleSetup
  <2>3. p \in Sender => q = r
    BY <1>1, <2>1 DEF ExampleSetup
  <2>4. (\A s \in Sender : peer'[s] \in {Nobody, r}) /\ peer'[r] # r
    BY <1>1, <1>2, <2>1, <2>2, <2>3 DEF OnlyReceiver, PipeTypeOK
  <2> QED
    BY <1>4, <2>4 DEF Connect, OnlyReceiver
<1>5. ASSUME NEW s \in Sender, SendId(s)
      PROVE  OnlyReceiver(r)'
  <2>1. PICK q \in Process : peer[q] = s /\ partial' = [partial EXCEPT ![s] = q]
    BY <1>5 DEF SendId
  <2>2. q = r
    BY <1>1, <2>1, NobodyAssumption DEF OnlyReceiver
  <2> QED
    BY <1>1, <1>2, <1>5, <2>1, <2>2 DEF SendId, OnlyReceiver, PipeTypeOK
<1>6. ASSUME NEW s \in Sender, NEW m, SendData(s, m)
      PROVE  OnlyReceiver(r)'
  <2>1. \A t \in Sender : outq'[t] = << >>
    BY <1>1, <1>2, <1>6 DEF SendData, OnlyReceiver, PipeTypeOK
  <2>2. /\ \A t \in Sender : partial'[t] \in {Nobody, "dropping", r}
        /\ partial'[r] = Nobody
    BY <1>1, <1>2, <1>6 DEF SendData, OnlyReceiver, PipeTypeOK
  <2> QED
    BY <1>6, <2>1, <2>2 DEF SendData, OnlyReceiver
<1>7. ASSUME NEW p \in Process, Transfer(p)
      PROVE  OnlyReceiver(r)'
  <2>1. p = r
    BY <1>1, <1>7 DEF Transfer, OnlyReceiver
  <2> QED
    BY <1>1, <1>2, <1>7, <2>1 DEF Transfer, OnlyReceiver, PipeTypeOK
<1>8. ASSUME NEW p \in Process, Take(p)
      PROVE  OnlyReceiver(r)'
  BY <1>8 DEF Take, OnlyReceiver
<1>9. ASSUME NEW p \in Process, Disconnected(p)
      PROVE  /\ \A s \in Sender : partial'[s] \in {Nobody, "dropping", r}
             /\ partial'[r] = Nobody
  BY <1>1, <1>2, <1>9 DEF Disconnected, OnlyReceiver, PipeTypeOK
<1>10. ASSUME NEW s \in Sender, Close(s)
       PROVE  OnlyReceiver(r)'
  BY <1>1, <1>2, <1>9, <1>10 DEF Close, OnlyReceiver, PipeTypeOK
<1>11. ASSUME NEW s \in Sender, LingerEnds(s)
       PROVE  OnlyReceiver(r)'
  BY <1>1, <1>2, <1>11 DEF LingerEnds, OnlyReceiver, PipeTypeOK
<1>12. ASSUME NEW p \in Process, Vanish(p)
       PROVE  OnlyReceiver(r)'
  <2>1. \A s \in Process : up'[s] = "open" => up[s] = "open"
    BY <1>2, <1>12 DEF Vanish, PipeTypeOK
  <2>2. \A s \in Process : /\ peer'[s] \in {Nobody, peer[s]}
                            /\ outq'[s] \in {<< >>, outq[s]}
    BY <1>12 DEF Vanish
  <2> QED
    BY <1>1, <1>9, <1>12, <2>1, <2>2 DEF Vanish, OnlyReceiver
<1>13. CASE UNCHANGED pipeVars
  BY <1>13 DEF pipeVars, OnlyReceiver
<1>14. ASSUME NEW s \in Sender, SenderStart(s) \/ SenderSteps(s)
       PROVE  OnlyReceiver(r)'
  BY <1>1, <1>3, <1>5, <1>6, <1>10, <1>11, <1>14
  DEF SenderStart, SenderSteps, SenderWriteId, SenderWriteData, SenderReturn,
      SenderExit
<1>15. ASSUME NEW x \in Receiver, ReceiverStart(x) \/ ReceiverSteps(x)
       PROVE  OnlyReceiver(r)'
  BY <1>1, <1>3, <1>8, <1>12, <1>13, <1>15
  DEF ReceiverStart, ReceiverSteps, ReceiverRead, ReceiverFails, ReceiverCopy,
      ReceiverStoreField, ReceiverStored
<1>16. ASSUME NEW p \in Process, Library(p) \/ Kill(p)
       PROVE  OnlyReceiver(r)'
  BY <1>4, <1>7, <1>12, <1>16 DEF Library, Kill
<1> QED
  BY <1>13, <1>14, <1>15, <1>16 DEF Next, vars

-----------------------------------------------------------------------------
(* What a step leaves alone keeps the parts of the invariant about it.     *)

LEMMA StructFrame ==
    ASSUME NEW r \in Receiver, ExampleSetup(r), Typed, StructSoFar(r),
           runs' \in Nat, runs' >= runs,
           pos'[r] = pos[r], got'[r] = got[r], files'[r] = files[r],
           storing'[r] = storing[r], count'[r] = count[r]
    PROVE  StructSoFar(r)'
  BY StructFacts DEF StructSoFar, LastRead, OneRun

LEMMA StreamFrame ==
    ASSUME NEW r \in Receiver, ExampleSetup(r), Typed, StreamInOrder(r),
           runs' \in Nat, runs' >= runs,
           Stream(r)' = Stream(r), pos'[r] = pos[r], got'[r] = got[r]
    PROVE  StreamInOrder(r)'
<1> DEFINE st == Stream(r)
<1>1. /\ Stream(r)' = st /\ LastRead(r)' = LastRead(r) /\ pos'[r] = pos[r]
      /\ 1 .. runs \subseteq 1 .. runs'
  BY StructFacts DEF LastRead
<1>2. /\ \A j \in 1 .. Len(st) :
            /\ st[j].run \in 1 .. runs
            /\ \E i \in DOMAIN WriteFields : st[j].path = PathAt(i)
      /\ \A j \in 1 .. Len(st) - 1, i \in DOMAIN WriteFields :
            st[j].path = PathAt(i) => Succeeds(st[j + 1], st[j].run, i)
      /\ st # << >> /\ pos[r] > 0 => Succeeds(st[1], LastRead(r), pos[r])
  BY DEF StreamInOrder
<1> HIDE DEF st
<1> QED
  BY <1>1, <1>2 DEF StreamInOrder, Succeeds, PathAt

LEMMA SendersFrame ==
    ASSUME NEW r \in Receiver, SendersInOrder(r),
           Stream(r)' = Stream(r), pos'[r] = pos[r], got'[r] = got[r],
           \A s \in Sender : partial'[s] = "dropping" => partial[s] = "dropping",
           \A s \in Sender : up'[s] = "open" =>
              /\ up[s] = "open" /\ run'[s] = run[s] /\ pos'[s] = pos[s]
              /\ (peer'[r] = s <=> peer[r] = s)
    PROVE  SendersInOrder(r)'
<1>1. Fresh(r)' = Fresh(r)
  BY DEF Fresh
<1>2. ASSUME NEW s \in Sender, up'[s] = "open"
      PROVE  CaughtUp(s, r)' = CaughtUp(s, r) /\ Ahead(s, r)' = Ahead(s, r)
  BY <1>2 DEF CaughtUp, Ahead, LastRead, PathAt
<1> QED
  BY <1>1, <1>2 DEF SendersInOrder

(* A sender ahead of all the receiver knows of is caught up with it, too.  *)
LEMMA AheadIsCaughtUp ==
    ASSUME NEW r \in Receiver, NEW s \in Sender, ExampleSetup(r), Typed,
           ~ Fresh(r), Ahead(s, r)
    PROVE  CaughtUp(s, r)
<1>1. CASE Stream(r) # << >>
  BY <1>1, StreamFacts DEF Ahead, CaughtUp
<1>2. CASE Stream(r) = << >>
  BY <1>2, StructFacts DEF Ahead, CaughtUp, Fresh, LastRead
<1> QED
  BY <1>1, <1>2

-----------------------------------------------------------------------------
(* The steps that change the stream.                                       *)

LEMMA StreamPut ==
    ASSUME NEW r \in Receiver, Typed, NEW m \in Message,
           inq'[r] = inq[r], outq'[r] = Append(outq[r], m)
    PROVE  /\ Len(Stream(r)') = Len(Stream(r)) + 1
           /\ \A j \in 1 .. Len(Stream(r)) : Stream(r)'[j] = Stream(r)[j]
           /\ Stream(r)'[Len(Stream(r)) + 1] = m
<1> DEFINE a == inq[r]
           b == outq[r]
<1>1. a \in Seq(Message) /\ b \in Seq(Message)
  BY StreamFacts
<1>2. Stream(r) = a \o b /\ Stream(r)' = a \o Append(b, m)
  BY Zenon DEF Stream
<1> HIDE DEF a, b
<1> QED
  BY <1>1, <1>2

LEMMA StreamTake ==
    ASSUME NEW r \in Receiver, Typed, inq[r] # << >>,
           inq'[r] = Tail(inq[r]), outq'[r] = outq[r]
    PROVE  /\ Stream(r) # << >>
           /\ Len(Stream(r)') = Len(Stream(r)) - 1
           /\ Stream(r)' = << >> <=> Len(Stream(r)') = 0
           /\ \A j \in 1 .. Len(Stream(r)) - 1 : Stream(r)'[j] = Stream(r)[j + 1]
           /\ Stream(r)[1] = Head(inq[r])
<1> DEFINE a == inq[r]
           b == outq[r]
<1>1. a \in Seq(Message) /\ b \in Seq(Message)
  BY StreamFacts
<1>2. Stream(r) = a \o b /\ Stream(r)' = Tail(a) \o b
  BY Zenon DEF Stream
<1>3. a # << >> /\ Head(inq[r]) = Head(a)
  OBVIOUS
<1> HIDE DEF a, b
<1>4. Stream(r)' \in Seq(Message)
  BY <1>1, <1>2, <1>3
<1>5. Stream(r)' = << >> <=> Len(Stream(r)') = 0
  BY <1>4
<1> QED
  BY <1>1, <1>2, <1>3, <1>5

LEMMA StreamMove ==
    ASSUME NEW r \in Receiver, Typed, outq[r] # << >>,
           inq'[r] = Append(inq[r], Head(outq[r])), outq'[r] = Tail(outq[r])
    PROVE  Stream(r)' = Stream(r)
<1>1. inq[r] \in Seq(Message) /\ outq[r] \in Seq(Message)
  BY StreamFacts
<1>2. Stream(r) = inq[r] \o outq[r] /\ Stream(r)' = inq'[r] \o outq'[r]
  BY Zenon DEF Stream
<1> QED
  BY <1>1, <1>2, ConcatMove, Zenon

LEMMA StreamCut ==
    ASSUME NEW r \in Receiver, Typed, inq'[r] = inq[r], outq'[r] = << >>
    PROVE  /\ Len(Stream(r)') \in Nat
           /\ Len(Stream(r)') <= Len(Stream(r))
           /\ Stream(r)' = << >> <=> Len(Stream(r)') = 0
           /\ \A j \in 1 .. Len(Stream(r)') : Stream(r)'[j] = Stream(r)[j]
<1> DEFINE a == inq[r]
           b == outq[r]
<1>1. a \in Seq(Message) /\ b \in Seq(Message)
  BY StreamFacts
<1>2. Stream(r) = a \o b /\ Stream(r)' = a \o << >>
  BY Zenon DEF Stream
<1> HIDE DEF a, b
<1> QED
  BY <1>1, <1>2

(***************************************************************************)
(* A sender completes a field: the stream grows by the field that succeeds *)
(* its last one, because the sender had caught up with it.                 *)
(***************************************************************************)
LEMMA OrderPut ==
    ASSUME NEW r \in Receiver, ExampleSetup(r), Typed, OnlyReceiver(r),
           ConnectionsConsistent, StreamInOrder(r), SendersInOrder(r),
           NEW s \in Sender, SenderWriteData(s), partial[s] = r
    PROVE  StreamInOrder(r)' /\ SendersInOrder(r)'
<1> DEFINE st == Stream(r)
           nx == Stream(r)'
           n == Len(st)
<1>0. PICK m \in Message : /\ SendData(s, m)
                           /\ m.run = run[s] /\ m.path = PathAt(pos[s] + 1)
  BY DueIsSent DEF PathAt
<1>1. /\ m \in Message
      /\ m.run = run[s] /\ m.path = PathAt(pos[s] + 1)
      /\ up[s] = "open" /\ peer[r] = s
      /\ pos[s] \in Nat /\ pos[s] < Len(WriteFields)
      /\ run[s] \in 1 .. runs
  <2>1. m \in Message /\ m.run = run[s] /\ m.path = PathAt(pos[s] + 1)
    BY <1>0
  <2>2. up[s] = "open" /\ peer[r] = s
    BY DEF ConnectionsConsistent, QueuesOfPeers
  <2>3. pos[s] \in Nat /\ pos[s] < Len(WriteFields)
    BY DEF Typed, TypeOK, Bookkeeping, ExampleSetup
  <2>4. run[s] \in 1 .. runs
    BY <2>2 DEF Typed, TypeOK, Bookkeeping
  <2> QED
    BY <2>1, <2>2, <2>3, <2>4
<1>2. /\ Len(nx) = n + 1
      /\ \A j \in 1 .. n : nx[j] = st[j]
      /\ nx[n + 1] = m
      /\ nx # << >>
  <2>1. inq'[r] = inq[r] /\ outq'[r] = Append(outq[r], m)
    BY <1>0 DEF SendData, Typed, TypeOK, PipeTypeOK
  <2>2. /\ Len(nx) = n + 1
        /\ \A j \in 1 .. n : nx[j] = st[j]
        /\ nx[n + 1] = m
    BY <1>1, <2>1, StreamPut
  <2> QED
    BY <2>2, StreamFacts
<1>3. /\ pos'[r] = pos[r] /\ got'[r] = got[r] /\ runs' = runs /\ run' = run
      /\ pos'[s] = pos[s] + 1 /\ up' = up /\ peer' = peer
      /\ partial' = [partial EXCEPT ![s] = Nobody]
  BY DEF SenderWriteData, SendData, Typed, TypeOK, PipeTypeOK
<1>4. ~ Fresh(r) => CaughtUp(s, r)
  BY <1>1 DEF SendersInOrder
<1> HIDE DEF st, nx, n
<1>5. StreamInOrder(r)'
  <2>1. \A j \in 1 .. n + 1 : /\ nx[j].run \in 1 .. runs
                             /\ \E i \in DOMAIN WriteFields : nx[j].path = PathAt(i)
    <3>1. \A j \in 1 .. n : /\ nx[j].run \in 1 .. runs
                           /\ \E i \in DOMAIN WriteFields : nx[j].path = PathAt(i)
      BY <1>2 DEF StreamInOrder, st, n
    <3>2. pos[s] + 1 \in DOMAIN WriteFields
      BY <1>1, StructFacts
    <3>3. \A j \in 1 .. n + 1 : j \in 1 .. n \/ j = n + 1
      BY StreamFacts DEF st, n
    <3> QED
      BY <1>1, <1>2, <3>1, <3>2, <3>3
  <2>2. ASSUME NEW j \in 1 .. n, NEW i \in DOMAIN WriteFields, nx[j].path = PathAt(i)
        PROVE  Succeeds(nx[j + 1], nx[j].run, i)
    <3>1. CASE j < n
      <4>1. nx[j] = st[j] /\ nx[j + 1] = st[j + 1]
        BY <1>2, <3>1, StreamFacts DEF st, n
      <4>2. j \in 1 .. n - 1
        BY <3>1, StreamFacts DEF st, n
      <4>3. st[j].path = PathAt(i) => Succeeds(st[j + 1], st[j].run, i)
        BY <4>2, Zenon DEF StreamInOrder, st, n
      <4> QED
        BY <2>2, <4>1, <4>3
    <3>2. CASE j = n
      <4>1. ~ Fresh(r) /\ st # << >> /\ st[n].path = PathAt(i) /\ nx[j + 1] = m
        BY <1>2, <2>2, <3>2, StreamFacts DEF Fresh, st, n
      <4>2. \/ st[n].run = run[s] /\ pos[s] > 0 /\ st[n].path = PathAt(pos[s])
            \/ st[n].run < run[s] /\ pos[s] = 0
        BY <1>4, <4>1 DEF CaughtUp, st, n
      <4>3. pos[s] > 0 /\ PathAt(pos[s]) = PathAt(i) => pos[s] = i
        BY <1>1, StructFacts DEF ExampleSetup, PathAt
      <4> QED
        BY <1>1, <1>2, <3>2, <4>1, <4>2, <4>3 DEF Succeeds
    <3> QED
      BY <3>1, <3>2, StreamFacts DEF n, st
  <2>3. pos[r] > 0 => Succeeds(nx[1], LastRead(r), pos[r])
    <3>1. CASE st # << >>
      BY <1>2, <3>1, StreamFacts DEF StreamInOrder, st, n
    <3>2. CASE st = << >> /\ pos[r] > 0
      <4>1. n = 0 /\ ~ Fresh(r)
        BY <3>2, StreamFacts DEF Fresh, st, n
      <4>2. \/ LastRead(r) = run[s] /\ pos[s] = pos[r]
            \/ LastRead(r) < run[s] /\ pos[s] = 0
        BY <1>4, <3>2, <4>1 DEF CaughtUp, st
      <4> QED
        BY <1>1, <1>2, <4>1, <4>2 DEF Succeeds
    <3> QED
      BY <3>1, <3>2, StructFacts
  <2> QED
    BY <1>2, <1>3, <2>1, <2>2, <2>3, StreamFacts
    DEF StreamInOrder, nx, n, st, LastRead, Succeeds, PathAt
<1>6. SendersInOrder(r)'
  <2>1. ASSUME NEW t \in Sender, partial'[t] = "dropping"
        PROVE  FALSE
    BY <1>1, <1>3, <2>1 DEF ConnectionsConsistent, QueuesOfPeers, OnlyReceiver, Typed, TypeOK, PipeTypeOK
  <2>2. CaughtUp(s, r)'
    BY <1>1, <1>2, <1>3, StreamFacts DEF CaughtUp, nx, n, st, PathAt
  <2>3. ASSUME NEW t \in Sender, up'[t] = "open"
        PROVE  t = s
    BY <1>1, <1>3, <2>3 DEF OnlyReceiver
  <2> QED
    BY <1>1, <1>3, <2>1, <2>2, <2>3 DEF SendersInOrder
<1> QED
  BY <1>5, <1>6

(***************************************************************************)
(* The receiver takes a field it asked for.  It is of the execution that   *)
(* wrote the fields before it: the only other field that may follow them   *)
(* is the first of a later execution, and that has another path.           *)
(***************************************************************************)
LEMMA OrderTake ==
    ASSUME NEW r \in Receiver, ExampleSetup(r), Typed, OnlyReceiver(r),
           StructSoFar(r), StreamInOrder(r), SendersInOrder(r), ReceiverRead(r)
    PROVE  StructSoFar(r)' /\ StreamInOrder(r)' /\ SendersInOrder(r)'
<1> DEFINE st == Stream(r)
           nx == Stream(r)'
           n == Len(st)
           m == Head(inq[r])
<1>1. /\ pos[r] \in Nat /\ pos[r] < Len(WriteFields) /\ ~ storing[r]
      /\ inq[r] # << >> /\ m.path = PathAt(pos[r] + 1)
      /\ inq'[r] = Tail(inq[r]) /\ UNCHANGED <<up, peer, partial, outq>>
      /\ pos'[r] = pos[r] + 1 /\ got'[r] = Append(got[r], m.run)
      /\ \A s \in Sender : pos'[s] = pos[s]
      /\ UNCHANGED <<runs, run, storing, count, files>>
  BY DEF ReceiverRead, Reading, Matches, Arrived, Accepts, Expected, Take,
         PathAt, Typed, TypeOK, PipeTypeOK, ExampleSetup
<1>2. /\ st # << >> /\ n \in Nat /\ n > 0
      /\ Len(nx) = n - 1
      /\ \A j \in 1 .. n - 1 : nx[j] = st[j + 1]
      /\ st[1] = m
      /\ nx = << >> <=> n = 1
  <2>1. /\ st # << >> /\ Len(nx) = n - 1
        /\ \A j \in 1 .. n - 1 : nx[j] = st[j + 1]
        /\ st[1] = m
        /\ nx = << >> <=> Len(nx) = 0
    BY <1>1, StreamTake
  <2>2. n \in Nat /\ n # 0
    BY <2>1, StreamFacts
  <2> HIDE DEF st, nx, n, m
  <2> QED
    BY <2>1, <2>2
<1> HIDE DEF st, nx, n, m
<1>3. m.run \in 1 .. runs /\ \A i \in DOMAIN WriteFields :
        m.path = PathAt(i) => i = pos[r] + 1
  BY <1>1, <1>2, StructFacts DEF StreamInOrder, ExampleSetup, PathAt, st, n
<1>4. pos[r] > 0 => LastRead(r) = m.run
  <2>1. pos[r] > 0 => Succeeds(m, LastRead(r), pos[r])
    BY <1>2 DEF StreamInOrder, st
  <2>2. m.path = PathAt(1) => pos[r] = 0
    BY <1>1, <1>3, StructFacts
  <2> QED
    BY <1>1, <2>1, <2>2 DEF Succeeds
<1>5. /\ got'[r][pos[r] + 1] = m.run
      /\ \A i \in 1 .. pos[r] : got'[r][i] = got[r][i]
      /\ LastRead(r)' = m.run
  <2>1. got[r] \in Seq(Nat) /\ Len(got[r]) = pos[r] /\ m.run \in Nat
    BY <1>3, StructFacts
  <2>2. /\ got'[r][pos[r] + 1] = m.run
        /\ \A i \in 1 .. pos[r] : got'[r][i] = got[r][i]
    <3> DEFINE g == got[r]
    <3> HIDE DEF g
    <3>1. g \in Seq(Nat) /\ Len(g) = pos[r] /\ got'[r] = Append(g, m.run)
      BY <1>1, <2>1 DEF g, m
    <3>2. got'[r][pos[r] + 1] = m.run /\ \A i \in 1 .. pos[r] : got'[r][i] = g[i]
      BY <2>1, <3>1
    <3> QED
      BY <3>2 DEF g
  <2> QED
    BY <1>1, <2>2 DEF LastRead
<1>6. StructSoFar(r)'
  <2>1. \A i \in 1 .. pos[r] + 1 : i \in 1 .. pos[r] \/ i = pos[r] + 1
    BY <1>1
  <2>2. \A i \in 1 .. pos[r] : got[r][i] = LastRead(r) /\ pos[r] > 0
    BY <1>1 DEF StructSoFar
  <2> QED
    BY <1>1, <1>3, <1>4, <1>5, <2>1, <2>2 DEF StructSoFar
<1>7. StreamInOrder(r)'
  <2>1. \A j \in 1 .. n - 1 : j + 1 \in 1 .. n /\ nx[j] = st[j + 1]
    BY <1>2
  <2>2. \A j \in 1 .. n - 1 : /\ nx[j].run \in 1 .. runs
                             /\ \E i \in DOMAIN WriteFields : nx[j].path = PathAt(i)
    BY <2>1 DEF StreamInOrder, st, n
  <2>3. \A j \in 1 .. n - 2, i \in DOMAIN WriteFields :
          nx[j].path = PathAt(i) => Succeeds(nx[j + 1], nx[j].run, i)
    <3>1. \A j \in 1 .. n - 2 : /\ nx[j] = st[j + 1] /\ nx[j + 1] = st[j + 1 + 1]
                               /\ j + 1 \in 1 .. n - 1
      BY <1>2
    <3>2. \A j \in 1 .. n - 1, i \in DOMAIN WriteFields :
            st[j].path = PathAt(i) => Succeeds(st[j + 1], st[j].run, i)
      BY DEF StreamInOrder, st, n
    <3> QED
      BY <3>1, <3>2
  <2>4. nx # << >> => Succeeds(nx[1], m.run, pos[r] + 1)
    <3>1. pos[r] + 1 \in DOMAIN WriteFields
      BY <1>1, StructFacts
    <3>2. n # 1 => 1 \in 1 .. n - 1
      BY <1>2
    <3>3. st[1].path = PathAt(pos[r] + 1)
      BY <1>1, <1>2
    <3>4. \A j \in 1 .. n - 1, i \in DOMAIN WriteFields :
            st[j].path = PathAt(i) => Succeeds(st[j + 1], st[j].run, i)
      BY DEF StreamInOrder, st, n
    <3>5. n # 1 => Succeeds(st[1 + 1], st[1].run, pos[r] + 1)
      BY <3>1, <3>2, <3>3, <3>4
    <3> QED
      BY <1>2, <2>1, <3>2, <3>5
  <2> QED
    BY <1>1, <1>2, <1>5, <2>2, <2>3, <2>4
    DEF StreamInOrder, nx, Succeeds, PathAt
<1>8. SendersInOrder(r)'
  <2>1. ~ Fresh(r)
    BY <1>2 DEF Fresh, st
  <2>2. ASSUME NEW s \in Sender, partial'[s] = "dropping"
        PROVE  FALSE
    BY <1>1, <2>1, <2>2 DEF SendersInOrder
  <2>3. ASSUME NEW s \in Sender, up'[s] = "open", peer'[r] = s
        PROVE  CaughtUp(s, r)'
    <3>1. CaughtUp(s, r)
      BY <1>1, <2>1, <2>3 DEF SendersInOrder
    <3>2. \/ st[n].run = run[s] /\ pos[s] > 0 /\ st[n].path = PathAt(pos[s])
          \/ st[n].run < run[s] /\ pos[s] = 0
      BY <1>2, <3>1 DEF CaughtUp, st, n
    <3>3. CASE n = 1
      <4>1. pos[s] > 0 /\ st[n].path = PathAt(pos[s]) => pos[s] = pos[r] + 1
        <5>1. pos[s] \in Nat /\ pos[s] <= Len(WriteFields)
          BY DEF Typed, TypeOK, Bookkeeping, ExampleSetup
        <5> QED
          BY <1>2, <1>3, <3>3, <5>1, StructFacts
      <4> QED
        BY <1>1, <1>2, <1>5, <3>2, <3>3, <4>1 DEF CaughtUp, nx, LastRead
    <3>4. CASE n # 1
      <4>1. nx # << >> /\ nx[Len(nx)] = st[n]
        BY <1>2, <3>4
      <4> QED
        BY <1>1, <3>2, <4>1 DEF CaughtUp, nx, PathAt
    <3> QED
      BY <3>3, <3>4
  <2>4. ASSUME NEW s \in Sender, up'[s] = "open", peer'[r] # s
        PROVE  Ahead(s, r)'
    <3>1. Ahead(s, r)
      BY <1>1, <2>1, <2>4 DEF SendersInOrder
    <3>2. \A j \in 1 .. n - 1 : nx[j].run < run[s]
      BY <1>2, <3>1 DEF Ahead, st, n
    <3>3. m.run < run[s]
      BY <1>2, <3>1 DEF Ahead, st, n
    <3>4. \A i \in 1 .. pos[r] + 1 : got'[r][i] < run[s]
      <4>1. \A i \in 1 .. pos[r] + 1 : i \in 1 .. pos[r] \/ i = pos[r] + 1
        BY <1>1
      <4> QED
        BY <1>5, <3>1, <3>3, <4>1 DEF Ahead
    <3> QED
      BY <1>1, <1>2, <3>1, <3>2, <3>4 DEF Ahead, nx
  <2> QED
    BY <2>2, <2>3, <2>4 DEF SendersInOrder
<1> QED
  BY <1>6, <1>7, <1>8

(***************************************************************************)
(* The sender the receiver hears from is killed: the stream loses its end, *)
(* and no other sender is at work that could have caught up with it.       *)
(***************************************************************************)
LEMMA OrderCut ==
    ASSUME NEW r \in Receiver, ExampleSetup(r), Typed, OnlyReceiver(r),
           ConnectionsConsistent, StreamInOrder(r), SendersInOrder(r),
           NEW s \in Sender, Kill(s), peer[r] = s
    PROVE  StreamInOrder(r)' /\ SendersInOrder(r)'
<1> DEFINE st == Stream(r)
           nx == Stream(r)'
<1>1. /\ inq'[r] = inq[r] /\ outq'[r] = << >>
      /\ UNCHANGED <<pos, got, runs, run>>
      /\ peer'[r] = Nobody
      /\ \A t \in Sender : up'[t] = "open" => up[t] = "open" /\ t # s
      /\ \A t \in Sender : partial'[t] = "dropping" => partial[t] = "dropping"
  BY DEF Kill, Vanish, Disconnected, Typed, TypeOK, PipeTypeOK, OnlyReceiver,
         ExampleSetup
<1>2. /\ Len(nx) \in Nat /\ Len(nx) <= Len(st)
      /\ \A j \in 1 .. Len(nx) : nx[j] = st[j]
      /\ nx = << >> <=> Len(nx) = 0
  BY <1>1, StreamCut
<1>3. Len(st) \in Nat /\ (st = << >> <=> Len(st) = 0)
  BY StreamFacts
<1> HIDE DEF st, nx
<1>4. StreamInOrder(r)'
  <2>1. \A j \in 1 .. Len(nx) : j \in 1 .. Len(st)
    BY <1>2, <1>3
  <2>2. \A j \in 1 .. Len(nx) - 1 : /\ j \in 1 .. Len(st) - 1
                                   /\ nx[j] = st[j] /\ nx[j + 1] = st[j + 1]
    BY <1>2, <1>3
  <2>3. nx # << >> => st # << >> /\ nx[1] = st[1]
    BY <1>2, <1>3
  <2>4. \A j \in 1 .. Len(nx) : /\ nx[j].run \in 1 .. runs
                               /\ \E i \in DOMAIN WriteFields : nx[j].path = PathAt(i)
    BY <1>2, <2>1 DEF StreamInOrder, st
  <2>5. \A j \in 1 .. Len(nx) - 1, i \in DOMAIN WriteFields :
          nx[j].path = PathAt(i) => Succeeds(nx[j + 1], nx[j].run, i)
    <3>1. \A j \in 1 .. Len(st) - 1, i \in DOMAIN WriteFields :
            st[j].path = PathAt(i) => Succeeds(st[j + 1], st[j].run, i)
      BY DEF StreamInOrder, st
    <3> QED
      BY <2>2, <3>1
  <2>6. nx # << >> /\ pos[r] > 0 => Succeeds(nx[1], LastRead(r), pos[r])
    BY <2>3 DEF StreamInOrder, st
  <2>7. LastRead(r)' = LastRead(r)
    BY <1>1 DEF LastRead
  <2> QED
    BY <1>1, <2>4, <2>5, <2>6, <2>7 DEF StreamInOrder, nx, Succeeds, PathAt
<1>5. Fresh(r) => Fresh(r)'
  BY <1>1, <1>2, <1>3 DEF Fresh, st, nx
<1>6. ASSUME NEW t \in Sender, up'[t] = "open", ~ Fresh(r)'
      PROVE  peer'[r] # t /\ Ahead(t, r)'
  <2>1. Ahead(t, r)
    BY <1>1, <1>5, <1>6 DEF SendersInOrder
  <2>2. \A j \in 1 .. Len(nx) : nx[j] = st[j] /\ j \in 1 .. Len(st)
    BY <1>2, <1>3
  <2> QED
    BY <1>1, <2>1, <2>2 DEF Ahead, nx, st
<1>7. SendersInOrder(r)'
  BY <1>1, <1>5, <1>6 DEF SendersInOrder
<1> QED
  BY <1>4, <1>7

(* A new execution is ahead of every field written before it.              *)
LEMMA OrderStart ==
    ASSUME NEW r \in Receiver, ExampleSetup(r), Typed, OnlyReceiver(r),
           ConnectionsConsistent, StructSoFar(r), StreamInOrder(r),
           SendersInOrder(r), NEW s \in Sender, SenderStart(s)
    PROVE  SendersInOrder(r)'
<1>1. /\ up[s] = "off" /\ UNCHANGED <<partial, peer, inq, outq>>
      /\ pos'[s] = 0 /\ run'[s] = runs + 1 /\ runs \in Nat
      /\ \A p \in Process : p # s => pos'[p] = pos[p] /\ up'[p] = up[p]
      /\ \A t \in Sender : t # s => run'[t] = run[t]
      /\ UNCHANGED got
      /\ s # r /\ s \in Process /\ r \in Process
  BY DEF SenderStart, Construct, Typed, TypeOK, PipeTypeOK
<1>2. Stream(r)' = Stream(r) /\ Fresh(r)' = Fresh(r)
  BY <1>1 DEF Stream, Fresh
<1>3. peer[r] # s
  BY <1>1 DEF ConnectionsConsistent, QueuesOfPeers
<1>4. Ahead(s, r)'
  <2>1. \A j \in 1 .. Len(Stream(r)) : Stream(r)[j].run < runs + 1
    BY <1>1 DEF StreamInOrder
  <2>2. \A i \in 1 .. pos[r] : got[r][i] < runs + 1
    BY <1>1 DEF StructSoFar
  <2> QED
    BY <1>1, <1>2, <2>1, <2>2 DEF Ahead
<1>5. ASSUME NEW t \in Sender, t # s
      PROVE  CaughtUp(t, r)' = CaughtUp(t, r) /\ Ahead(t, r)' = Ahead(t, r)
  BY <1>1, <1>2, <1>5 DEF CaughtUp, Ahead, LastRead, PathAt
<1> QED
  BY <1>1, <1>2, <1>3, <1>4, <1>5 DEF SendersInOrder

(* A receiver that starts has nothing queued, whatever the senders did.    *)
LEMMA OrderFresh ==
    ASSUME NEW r \in Receiver, Typed, ConnectionsConsistent, ReceiverStart(r)
    PROVE  Fresh(r)' /\ StreamInOrder(r)' /\ SendersInOrder(r)'
<1>1. /\ inq'[r] = << >> /\ outq'[r] = << >> /\ pos'[r] = 0
  BY DEF ReceiverStart, Construct, ConnectionsConsistent, QueuesOfPeers, Typed, TypeOK,
      PipeTypeOK
<1>2. Stream(r)' = << >>
  BY <1>1 DEF Stream
<1>3. Fresh(r)'
  BY <1>1, <1>2 DEF Fresh
<1>4. StreamInOrder(r)'
  BY <1>1, <1>2 DEF StreamInOrder
<1> QED
  BY <1>3, <1>4 DEF SendersInOrder

-----------------------------------------------------------------------------
(* One receiver's part of the invariant, and what it is inductive under.   *)
Ordered(r) == /\ StructSoFar(r)
              /\ up[r] = "open" => StreamInOrder(r) /\ SendersInOrder(r)

Context(r) == /\ ExampleSetup(r)
              /\ Typed
              /\ ConnectionsConsistent
              /\ OnlyReceiver(r)
              /\ Ordered(r)

LEMMA SenderKeepsOrder ==
    ASSUME NEW r \in Receiver, Context(r),
           NEW s \in Sender, SenderStart(s) \/ SenderSteps(s)
    PROVE  Ordered(r)'
<1> USE DEF Context
<1>1. /\ s # r /\ s \in Process /\ r \in Process /\ r \notin Sender
      /\ runs \in Nat /\ r # Nobody /\ "dropping" \notin Process \cup {Nobody}
  BY DEF Typed, TypeOK
<1>2. CASE SenderStart(s)
  <2>1. /\ runs' \in Nat /\ runs' >= runs
        /\ UNCHANGED <<got, storing, count, files, inq, outq, peer, partial>>
        /\ pos'[r] = pos[r] /\ up'[r] = up[r]
    BY <1>1, <1>2 DEF SenderStart, Construct, Typed, TypeOK, PipeTypeOK
  <2>2. StructSoFar(r)'
    BY <2>1, StructFrame DEF Ordered
  <2>3. up[r] = "open" => StreamInOrder(r)'
    BY <2>1, StreamFrame DEF Ordered, Stream
  <2>4. up[r] = "open" => SendersInOrder(r)'
    BY <1>2, OrderStart DEF Ordered
  <2> QED
    BY <2>1, <2>2, <2>3, <2>4 DEF Ordered
<1>3. CASE SenderWriteId(s)
  <2>1. /\ UNCHANGED <<runs, run, pos, got, storing, count, files, inq, outq, peer, up>>
        /\ \A t \in Sender : partial'[t] = "dropping" => partial[t] = "dropping"
    BY <1>1, <1>3 DEF SenderWriteId, SendId, appVars, Typed, TypeOK, PipeTypeOK
  <2>2. StructSoFar(r)'
    BY <1>1, <2>1, StructFrame DEF Ordered
  <2>3. up[r] = "open" => StreamInOrder(r)' /\ SendersInOrder(r)'
    BY <1>1, <2>1, StreamFrame, SendersFrame DEF Ordered, Stream
  <2> QED
    BY <2>1, <2>2, <2>3 DEF Ordered
<1>4. CASE SenderWriteData(s)
  <2>1. /\ UNCHANGED <<runs, run, got, storing, count, files, inq, peer, up>>
        /\ pos'[r] = pos[r]
        /\ partial[s] # Nobody
        /\ \A t \in Sender : partial'[t] = "dropping" => partial[t] = "dropping"
    BY <1>1, <1>4 DEF SenderWriteData, SendData, Typed, TypeOK, PipeTypeOK
  <2>2. StructSoFar(r)'
    BY <1>1, <2>1, StructFrame DEF Ordered
  <2>3. CASE partial[s] = r
    BY <1>4, <2>1, <2>2, <2>3, OrderPut DEF Ordered
  <2>4. CASE partial[s] = "dropping"
    <3>1. outq' = outq
      BY <1>4, <2>4 DEF SenderWriteData, SendData
    <3>2. Stream(r)' = Stream(r)
      BY <2>1, <3>1 DEF Stream
    <3>3. up[r] = "open" => StreamInOrder(r)'
      BY <1>1, <2>1, <3>2, StreamFrame DEF Ordered
    <3>4. up[r] = "open" => Fresh(r)'
      BY <2>1, <2>4, <3>2 DEF Ordered, SendersInOrder, Fresh
    <3> QED
      BY <2>1, <2>2, <3>3, <3>4 DEF Ordered, SendersInOrder
  <2> QED
    BY <2>1, <2>3, <2>4 DEF OnlyReceiver
<1>5. CASE SenderReturn(s) \/ SenderExit(s)
  <2>1. /\ UNCHANGED <<runs, run, pos, got, storing, count, files>>
        /\ inq'[r] = inq[r] /\ outq'[r] = outq[r] /\ up'[r] = up[r]
        /\ \A t \in Sender : partial'[t] = "dropping" => partial[t] = "dropping"
        /\ \A t \in Sender : up'[t] = "open" =>
              up[t] = "open" /\ (peer'[r] = t <=> peer[r] = t)
    <3>1. CASE SenderReturn(s)
      BY <1>1, <3>1
      DEF SenderReturn, Close, Disconnected, appVars, Typed, TypeOK, PipeTypeOK,
          OnlyReceiver
    <3>2. CASE SenderExit(s)
      BY <1>1, <3>2
      DEF SenderExit, LingerEnds, appVars, Typed, TypeOK, PipeTypeOK
    <3> QED
      BY <1>5, <3>1, <3>2
  <2>2. StructSoFar(r)'
    BY <1>1, <2>1, StructFrame DEF Ordered
  <2>3. /\ Stream(r)' = Stream(r) /\ pos'[r] = pos[r] /\ got'[r] = got[r]
        /\ \A t \in Sender : run'[t] = run[t] /\ pos'[t] = pos[t]
    BY <2>1 DEF Stream
  <2>4. up[r] = "open" => StreamInOrder(r)'
    BY <1>1, <2>1, <2>3, StreamFrame DEF Ordered
  <2>5. up[r] = "open" => SendersInOrder(r)'
    BY <2>1, <2>3, SendersFrame DEF Ordered
  <2> QED
    BY <2>1, <2>2, <2>4, <2>5 DEF Ordered
<1> QED
  BY <1>2, <1>3, <1>4, <1>5 DEF SenderSteps

LEMMA ReceiverKeepsOrder ==
    ASSUME NEW r \in Receiver, Context(r), ReceiverStart(r) \/ ReceiverSteps(r)
    PROVE  Ordered(r)'
<1> USE DEF Context
<1>1. /\ r \in Process /\ r \notin Sender /\ runs \in Nat
      /\ pos[r] \in Nat /\ got[r] \in Seq(Nat) /\ Len(got[r]) = pos[r]
      /\ up \in [Process -> {"off", "open", "linger"}]
      /\ pos \in [Process -> Nat] /\ got \in [Receiver -> Seq(Nat)]
      /\ storing \in [Receiver -> BOOLEAN]
      /\ files \in [Receiver -> [FileNumber -> Seq(Nat) \cup {NoFile}]]
  BY DEF Typed, TypeOK, PipeTypeOK, Bookkeeping
<1>2. CASE ReceiverStart(r)
  <2>1. pos'[r] = 0 /\ storing'[r] = FALSE /\ files' = files /\ runs' = runs
    BY <1>1, <1>2 DEF ReceiverStart
  <2>2. StructSoFar(r)'
    BY <2>1 DEF Ordered, StructSoFar
  <2> QED
    BY <1>2, <2>2, OrderFresh DEF Ordered
<1>3. CASE ReceiverRead(r)
  BY <1>3, OrderTake DEF Ordered, ReceiverRead, Reading, Arrived
<1>4. CASE ReceiverFails(r)
  <2>1. UNCHANGED <<runs, pos, got, files, storing, count>> /\ up'[r] = "off"
    BY <1>1, <1>4 DEF ReceiverFails, Vanish, appVars
  <2>2. StructSoFar(r)'
    BY <1>1, <2>1, StructFrame DEF Ordered
  <2> QED
    BY <2>1, <2>2 DEF Ordered
<1>5. CASE ReceiverCopy(r) \/ ReceiverStoreField(r)
  <2>1. UNCHANGED <<pipeVars, runs, run, pos, got, count>>
    BY <1>5 DEF ReceiverCopy, ReceiverStoreField
  <2>2. Stream(r)' = Stream(r) /\ UNCHANGED <<up, peer, partial, inq, outq>>
    BY <2>1 DEF pipeVars, Stream
  <2>3. up[r] = "open" => StreamInOrder(r)' /\ SendersInOrder(r)'
    <3>1. up[r] = "open" => StreamInOrder(r)'
      BY <1>1, <2>1, <2>2, StreamFrame DEF Ordered
    <3>2. up[r] = "open" => SendersInOrder(r)'
      BY <2>1, <2>2, SendersFrame DEF Ordered
    <3> QED
      BY <3>1, <3>2
  <2>4. StructSoFar(r)'
    <3>1. CASE ReceiverCopy(r)
      <4>1. /\ count[r] \in FileNumber
            /\ files'[r][count[r]] = << >>
            /\ \A n \in FileNumber : n # count[r] => files'[r][n] = files[r][n]
        BY <1>1, <3>1 DEF ReceiverCopy
      <4> QED
        BY <2>1, <4>1 DEF Ordered, StructSoFar, LastRead, OneRun
    <3>2. CASE ReceiverStoreField(r)
      <4> DEFINE f == files[r][count[r]]
      <4>1. /\ storing[r] /\ storing'[r] = storing[r]
            /\ count[r] \in FileNumber /\ f \in Seq(Nat)
            /\ Len(f) < pos[r]
        BY <1>1, <3>2
        DEF ReceiverStoreField, Stored, Typed, TypeOK, Bookkeeping
      <4>2. /\ files'[r][count[r]] = Append(f, got[r][Len(f) + 1])
            /\ \A n \in FileNumber : n # count[r] => files'[r][n] = files[r][n]
        BY <1>1, <3>2, <4>1 DEF ReceiverStoreField, Stored
      <4>3. \A i \in DOMAIN f : i <= pos[r] /\ f[i] = got[r][i]
        BY <4>1 DEF Ordered, StructSoFar
      <4> HIDE DEF f
      <4>4. \A i \in DOMAIN files'[r][count[r]] :
              i \in 1 .. pos[r] /\ files'[r][count[r]][i] = got[r][i]
        <5>1. Len(f) + 1 \in 1 .. pos[r] /\ got[r][Len(f) + 1] \in Nat
          BY <1>1, <4>1
        <5> DEFINE x == got[r][Len(f) + 1]
                   g == files'[r][count[r]]
        <5> HIDE DEF x
        <5>2. /\ DOMAIN g = 1 .. Len(f) + 1
              /\ \A i \in 1 .. Len(f) : g[i] = f[i]
              /\ g[Len(f) + 1] = x
          BY <4>1, <4>2, <5>1 DEF x
        <5>3. \A i \in 1 .. Len(f) : i \in DOMAIN f /\ i \in 1 .. pos[r]
          BY <1>1, <4>1
        <5>4. \A i \in 1 .. Len(f) + 1 : i \in 1 .. Len(f) \/ i = Len(f) + 1
          BY <4>1
        <5> QED
          BY <4>3, <5>1, <5>2, <5>3, <5>4 DEF x
      <4>5. OneRun(files'[r][count[r]])
        BY <4>4 DEF Ordered, StructSoFar, OneRun
      <4>6. \A n \in FileNumber : files'[r][n] # NoFile => OneRun(files'[r][n])
        BY <4>2, <4>5 DEF Ordered, StructSoFar
      <4>7. \A i \in DOMAIN files'[r][count[r]] :
              i <= pos[r] /\ files'[r][count[r]][i] = got[r][i]
        BY <1>1, <4>4
      <4>8. \A i \in 1 .. pos[r] : got[r][i] = LastRead(r) /\ got[r][i] \in 1 .. runs
        BY DEF Ordered, StructSoFar
      <4> QED
        BY <2>1, <4>6, <4>7, <4>8 DEF StructSoFar, LastRead
    <3> QED
      BY <1>5, <3>1, <3>2
  <2> QED
    BY <2>2, <2>3, <2>4 DEF Ordered
<1>6. CASE ReceiverStored(r)
  <2>1. /\ UNCHANGED <<runs, run, files>> /\ UNCHANGED pipeVars
        /\ pos'[r] = 0 /\ storing'[r] = FALSE /\ up[r] = "open"
        /\ \A s \in Sender : pos'[s] = pos[s]
    BY <1>1, <1>6 DEF ReceiverStored
  <2>2. Stream(r)' = Stream(r) /\ UNCHANGED <<up, peer, partial, inq, outq>>
    BY <2>1 DEF pipeVars, Stream
  <2>3. StructSoFar(r)'
    BY <2>1 DEF Ordered, StructSoFar
  <2>4. StreamInOrder(r)'
    <3> DEFINE st == Stream(r)
    <3>1. Stream(r)' = st /\ pos'[r] = 0 /\ runs' = runs
      BY <2>1, <2>2
    <3>2. /\ \A j \in 1 .. Len(st) :
                /\ st[j].run \in 1 .. runs
                /\ \E i \in DOMAIN WriteFields : st[j].path = PathAt(i)
          /\ \A j \in 1 .. Len(st) - 1, i \in DOMAIN WriteFields :
                st[j].path = PathAt(i) => Succeeds(st[j + 1], st[j].run, i)
      BY <2>1 DEF Ordered, StreamInOrder
    <3> HIDE DEF st
    <3>3. ~ (pos'[r] > 0)
      BY <3>1
    <3>4. /\ \A j \in 1 .. Len(Stream(r)') :
                /\ Stream(r)'[j].run \in 1 .. runs'
                /\ \E i \in DOMAIN WriteFields : Stream(r)'[j].path = PathAt(i)
          /\ \A j \in 1 .. Len(Stream(r)') - 1, i \in DOMAIN WriteFields :
                Stream(r)'[j].path = PathAt(i) =>
                  Succeeds(Stream(r)'[j + 1], Stream(r)'[j].run, i)
      BY <3>1, <3>2, Zenon
    <3> QED
      BY <3>3, <3>4 DEF StreamInOrder, Succeeds, PathAt
  <2>5. Fresh(r) => Fresh(r)'
    BY <2>1, <2>2 DEF Fresh
  <2>6. Stream(r) = << >> => Fresh(r)'
    BY <2>1, <2>2 DEF Fresh
  <2>7. ASSUME NEW s \in Sender, Stream(r) # << >>
        PROVE  CaughtUp(s, r)' = CaughtUp(s, r) /\ (Ahead(s, r) => Ahead(s, r)')
    BY <2>1, <2>2, <2>7 DEF CaughtUp, Ahead, PathAt
  <2>8. SendersInOrder(r)'
    BY <2>1, <2>2, <2>5, <2>6, <2>7 DEF Ordered, SendersInOrder
  <2> QED
    BY <2>3, <2>4, <2>8 DEF Ordered
<1> QED
  BY <1>2, <1>3, <1>4, <1>5, <1>6 DEF ReceiverSteps

LEMMA LibraryKeepsOrder ==
    ASSUME NEW r \in Receiver, Context(r), NEW p \in Process, Library(p)
    PROVE  Ordered(r)'
<1> USE DEF Context
<1>1. /\ r \in Process /\ r \notin Sender /\ runs \in Nat
      /\ UNCHANGED <<runs, run, pos, got, storing, count, files>>
  BY DEF Typed, TypeOK, Library, appVars
<1>2. StructSoFar(r)'
  BY <1>1, StructFrame DEF Ordered
<1>3. CASE Transfer(p)
  <2>1. p = r
    BY <1>1, <1>3 DEF Transfer, OnlyReceiver, ExampleSetup
  <2>2. UNCHANGED <<up, peer, partial>>
    BY <1>3 DEF Transfer
  <2>3. Stream(r)' = Stream(r)
    BY <1>3, <2>1, StreamMove DEF Transfer, Typed, TypeOK, PipeTypeOK
  <2>4. up[r] = "open" => StreamInOrder(r)'
    BY <1>1, <2>3, StreamFrame DEF Ordered
  <2>5. up[r] = "open" => SendersInOrder(r)'
    BY <1>1, <2>2, <2>3, SendersFrame DEF Ordered
  <2> QED
    BY <1>2, <2>2, <2>4, <2>5 DEF Ordered
<1>4. CASE Connect(p)
  <2>1. /\ UNCHANGED <<up, partial, outq, inq>> /\ peer[p] = Nobody
        /\ peer \in [Process -> Process \cup {Nobody}]
        /\ p # r => peer'[r] = peer[r]
    BY <1>1, <1>4 DEF Connect, Typed, TypeOK, PipeTypeOK
  <2>2. Stream(r)' = Stream(r)
    BY <2>1 DEF Stream
  <2>3. up[r] = "open" => StreamInOrder(r)'
    BY <1>1, <2>2, StreamFrame DEF Ordered
  <2>4. CASE p = r
    <3>1. ASSUME NEW s \in Sender, up[r] = "open", up[s] = "open", ~ Fresh(r)
          PROVE  CaughtUp(s, r) /\ Ahead(s, r)
      <4>1. peer[r] # s
        BY <2>1, <2>4
      <4> QED
        BY <3>1, <4>1, AheadIsCaughtUp DEF Ordered, SendersInOrder
    <3>2. \A s \in Sender : /\ CaughtUp(s, r)' = CaughtUp(s, r)
                            /\ Ahead(s, r)' = Ahead(s, r)
      BY <1>1, <2>2 DEF CaughtUp, Ahead, LastRead, PathAt
    <3>3. Fresh(r)' = Fresh(r)
      BY <1>1, <2>2 DEF Fresh
    <3>4. up[r] = "open" => SendersInOrder(r)'
      BY <2>1, <3>1, <3>2, <3>3 DEF Ordered, SendersInOrder
    <3> QED
      BY <1>2, <2>1, <2>3, <3>4 DEF Ordered
  <2>5. CASE p # r
    <3>1. up[r] = "open" => SendersInOrder(r)'
      BY <1>1, <2>1, <2>2, <2>5, SendersFrame DEF Ordered
    <3> QED
      BY <1>2, <2>1, <2>3, <3>1 DEF Ordered
  <2> QED
    BY <2>4, <2>5
<1> QED
  BY <1>3, <1>4 DEF Library

LEMMA KillKeepsOrder ==
    ASSUME NEW r \in Receiver, Context(r), NEW p \in Process, Kill(p)
    PROVE  Ordered(r)'
<1> USE DEF Context
<1>1. /\ r \in Process /\ r \notin Sender /\ runs \in Nat
      /\ UNCHANGED <<runs, run, pos, got, storing, count, files>>
      /\ up \in [Process -> {"off", "open", "linger"}]
      /\ p \in Sender \/ p = r
  BY DEF Typed, TypeOK, PipeTypeOK, Kill, ExampleSetup
<1>2. StructSoFar(r)'
  BY <1>1, StructFrame DEF Ordered
<1>3. CASE p = r
  BY <1>1, <1>2, <1>3 DEF Kill, Vanish, Ordered
<1>4. CASE p \in Sender /\ peer[r] = p
  BY <1>1, <1>2, <1>4, OrderCut DEF Ordered, Kill, Vanish
<1>5. CASE p \in Sender /\ peer[r] # p
  <2>1. /\ inq'[r] = inq[r] /\ outq'[r] = outq[r] /\ up'[r] = up[r]
        /\ peer'[r] = peer[r]
        /\ \A s \in Sender : up'[s] = "open" => up[s] = "open"
        /\ \A s \in Sender : partial'[s] = "dropping" => partial[s] = "dropping"
    BY <1>1, <1>5
    DEF Kill, Vanish, Disconnected, Typed, TypeOK, PipeTypeOK, OnlyReceiver,
        ExampleSetup
  <2>2. Stream(r)' = Stream(r)
    BY <2>1 DEF Stream
  <2>3. up[r] = "open" => StreamInOrder(r)'
    BY <1>1, <2>2, StreamFrame DEF Ordered
  <2>4. up[r] = "open" => SendersInOrder(r)'
    BY <1>1, <2>1, <2>2, SendersFrame DEF Ordered
  <2> QED
    BY <1>2, <2>1, <2>3, <2>4 DEF Ordered
<1> QED
  BY <1>1, <1>3, <1>4, <1>5

-----------------------------------------------------------------------------
(* The invariant holds at first, and every step keeps it.                  *)
LEMMA ContextInit ==
    ASSUME NEW r \in Receiver, ExampleSetup(r), Init
    PROVE  Context(r)
<1>1. /\ r \in Process /\ r \notin Sender /\ Typed
      /\ \A p \in Process : up[p] = "off" /\ peer[p] = Nobody /\ outq[p] = << >>
                              /\ inq[p] = << >> /\ partial[p] = Nobody
      /\ pos[r] = 0 /\ storing[r] = FALSE
      /\ \A n \in FileNumber : files[r][n] = NoFile
  BY TypedInit DEF Init, PipeInit
<1>2. ConnectionsConsistent
  BY <1>1 DEF ConnectionsConsistent, QueuesOfPeers, OneBinder
<1>3. OnlyReceiver(r)
  BY <1>1 DEF OnlyReceiver
<1>4. StructSoFar(r)
  BY <1>1 DEF StructSoFar
<1> QED
  BY <1>1, <1>2, <1>3, <1>4 DEF Context, Ordered

LEMMA ContextStep ==
    ASSUME NEW r \in Receiver, Context(r), [Next]_vars
    PROVE  Context(r)'
<1>1. ExampleSetup(r)'
  BY DEF Context, ExampleSetup
<1>2. Typed'
  BY TypedStep DEF Context
<1>3. ConnectionsConsistent'
  <2>1. CASE \E p \in Process : PipeStep(p)
    BY <2>1, ConnectionsStep DEF Context, Typed, TypeOK
  <2>2. CASE UNCHANGED pipeVars
    BY <2>2 DEF pipeVars, Context, ConnectionsConsistent, QueuesOfPeers, OneBinder
  <2> QED
    BY <2>1, <2>2, StepsAreOfPipes DEF Context
<1>4. OnlyReceiver(r)'
  BY OnlyReceiverStays DEF Context
<1>5. Ordered(r)'
  <2>1. ASSUME NEW x \in Receiver
        PROVE  x = r
    BY DEF Context, ExampleSetup
  <2>2. CASE UNCHANGED vars
    <3>1. UNCHANGED <<up, peer, partial, outq, inq, runs, run, pos, got, storing,
                      count, files>>
      BY <2>2 DEF vars, pipeVars, appVars
    <3>2. Stream(r)' = Stream(r) /\ runs \in Nat
      BY <3>1 DEF Stream, Context, Typed, TypeOK
    <3>3. StructSoFar(r)'
      BY <3>1, <3>2, StructFrame DEF Context, Ordered
    <3>4. up[r] = "open" => StreamInOrder(r)'
      BY <3>1, <3>2, StreamFrame DEF Context, Ordered
    <3>5. up[r] = "open" => SendersInOrder(r)'
      BY <3>1, <3>2, SendersFrame DEF Context, Ordered
    <3> QED
      BY <3>1, <3>3, <3>4, <3>5 DEF Ordered
  <2> QED
    BY <2>1, <2>2, SenderKeepsOrder, ReceiverKeepsOrder, LibraryKeepsOrder,
       KillKeepsOrder DEF Next
<1> QED
  BY <1>1, <1>2, <1>3, <1>4, <1>5 DEF Context

(* What the invariant says of the structs that are read and stored.        *)
LEMMA ContextIsEnough ==
    ASSUME NEW r \in Receiver, Context(r)
    PROVE  StructIntegrity
<1>1. Receiver = {r} /\ StructSoFar(r)
  BY DEF Context, ExampleSetup, Ordered
<1>2. OneRun(got[r])
  <2>1. DOMAIN got[r] = 1 .. pos[r]
    BY StructFacts DEF Context
  <2> QED
    BY <1>1, <2>1 DEF StructSoFar, OneRun
<1> QED
  BY <1>1, <1>2 DEF StructSoFar, StructIntegrity

(***************************************************************************)
(* In the set-up of the examples a struct is never put together from two   *)
(* executions of the writer, although an id names only the field: for any  *)
(* number of senders, any schema and queue bound, any interleaving, and    *)
(* whatever is killed and restarted.                                       *)
(***************************************************************************)
THEOREM StructsStayWhole ==
    ASSUME NEW r \in Receiver, ExampleSetup(r)
    PROVE  Spec => []StructIntegrity
<1>1. Init => Context(r)
  BY ContextInit
<1>2. Context(r) /\ [Next]_vars => Context(r)'
  BY ContextStep
<1>3. Context(r) => StructIntegrity
  BY ContextIsEnough
<1> QED
  BY <1>1, <1>2, <1>3, PTL DEF Spec

-----------------------------------------------------------------------------
(***************************************************************************)
(* The exchange of the examples implements StructTransfer: the proof that  *)
(* StoredInOrder is kept along with the order of delivery, and that every  *)
(* step is then one of the abstract specification, or none.                *)
(***************************************************************************)
(* The invariant: the order of delivery, and what it says of the stored.   *)
Promise(r) == Context(r) /\ StoredInOrder(r)

-----------------------------------------------------------------------------
(* The execution stored last is one of those there have been, or none.     *)
LEMMA NewestIsRun ==
    ASSUME NEW r \in Receiver, Promise(r)
    PROVE  /\ runs \in Nat
           /\ Transfers!Newest \in Nat /\ Transfers!Newest <= runs
<1>1. runs \in Nat /\ delivered \in Seq(Seq(Nat)) /\ 1 \in DOMAIN WriteFields
  BY StructFacts DEF Promise, Context, Typed, TypeOK
<1>2. CASE delivered = << >>
  BY <1>1, <1>2 DEF Transfers!Newest
<1>3. CASE delivered # << >>
  <2>1. Len(delivered) \in DOMAIN delivered
    BY <1>1, <1>3
  <2>2. PICK k \in 1 .. runs : delivered[Len(delivered)] = WholeStruct(k)
    BY <2>1 DEF Promise, StoredInOrder
  <2>3. Transfers!Newest = k
    BY <1>1, <1>3, <2>2 DEF Transfers!Newest, WholeStruct
  <2> QED
    BY <1>1, <2>3
<1> QED
  BY <1>2, <1>3

(***************************************************************************)
(* Steps that store nothing, read nothing and send the receiver nothing:   *)
(* at most the end of the stream is lost, and senders go on or end.        *)
(***************************************************************************)
LEMMA StoredFrame ==
    ASSUME NEW r \in Receiver, Promise(r),
           UNCHANGED <<runs, delivered, run>>,
           up'[r] = "open" => up[r] = "open",
           pos'[r] = pos[r], got'[r] = got[r],
           Len(Stream(r)') \in Nat, Len(Stream(r)') <= Len(Stream(r)),
           \A j \in 1 .. Len(Stream(r)') : Stream(r)'[j] = Stream(r)[j],
           \A s \in Sender : up'[s] = "open" =>
              up[s] = "open" /\ pos'[s] \in Nat /\ pos'[s] >= pos[s]
    PROVE  StoredInOrder(r)'
<1> DEFINE st == Stream(r)
           nx == Stream(r)'
<1>1. /\ Len(st) \in Nat /\ Len(nx) \in Nat /\ Len(nx) <= Len(st)
      /\ \A j \in 1 .. Len(nx) : nx[j] = st[j] /\ j \in 1 .. Len(st)
  BY StreamFacts DEF Promise, Context
<1>2. Transfers!Newest' = Transfers!Newest
  BY DEF Transfers!Newest
<1>3. \A s \in Sender : /\ run'[s] = run[s] /\ pos[s] \in Nat
                        /\ up'[s] = "open" => pos'[s] \in Nat /\ pos'[s] >= pos[s]
  BY DEF Promise, Context, Typed, TypeOK
<1>4. Len(WriteFields) \in Nat /\ DOMAIN WriteFields = 1 .. Len(WriteFields)
  BY FieldsAssumption
<1>5. \A i \in DOMAIN delivered' : \E k \in 1 .. runs' : delivered'[i] = WholeStruct(k)
  BY DEF Promise, StoredInOrder
<1>6. \A s \in Sender : up'[s] = "open" =>
         /\ run'[s] = runs'
         /\ pos'[s] < Len(WriteFields) => Transfers!Newest' < runs'
  BY <1>2, <1>3, <1>4 DEF Promise, StoredInOrder
<1>7. ASSUME up'[r] = "open"
      PROVE  /\ \A i \in 1 .. pos'[r] : Transfers!Newest' < got'[r][i]
             /\ \A j \in 1 .. Len(nx) : Transfers!Newest' < nx[j].run
             /\ \A i, j \in 1 .. Len(nx) : i <= j => nx[i].run <= nx[j].run
  <2> HIDE DEF nx
  <2>1. /\ \A i \in 1 .. pos[r] : Transfers!Newest < got[r][i]
        /\ \A j \in 1 .. Len(st) : Transfers!Newest < st[j].run
        /\ \A i, j \in 1 .. Len(st) : i <= j => st[i].run <= st[j].run
    BY <1>7 DEF Promise, StoredInOrder
  <2> HIDE DEF st
  <2> QED
    BY <1>1, <1>2, <2>1
<1>8. ASSUME up'[r] = "open", NEW s \in Sender, up'[s] = "open"
      PROVE  OnlyWritten(s, r)'
  <2>1. OnlyWritten(s, r)
    BY <1>8 DEF Promise, StoredInOrder
  <2>2. \A i \in 1 .. pos[r] : got[r][i] = run[s] => i <= pos[s]
    BY <2>1 DEF OnlyWritten
  <2>3. \A j \in 1 .. Len(st), i \in DOMAIN WriteFields :
          st[j].run = run[s] /\ st[j].path = PathAt(i) => i <= pos[s]
    BY <2>1 DEF OnlyWritten
  <2> HIDE DEF st, nx
  <2>4. \A i \in 1 .. pos'[r] : got'[r][i] = run'[s] => i <= pos'[s]
    <3>1. pos[r] \in Nat
      BY DEF Promise, Context, Typed, TypeOK
    <3> QED
      BY <1>3, <1>8, <2>2, <3>1
  <2>5. \A j \in 1 .. Len(nx), i \in DOMAIN WriteFields :
          nx[j].run = run'[s] /\ nx[j].path = PathAt(i) => i <= pos'[s]
    BY <1>1, <1>3, <1>4, <1>8, <2>3
  <2> QED
    BY <2>4, <2>5 DEF OnlyWritten, nx, PathAt
<1> QED
  BY <1>5, <1>6, <1>7, <1>8 DEF StoredInOrder

(* A sender completes a field: it is of the latest execution.              *)
LEMMA StoredPut ==
    ASSUME NEW r \in Receiver, Promise(r),
           NEW s \in Sender, SenderWriteData(s), partial[s] = r
    PROVE  StoredInOrder(r)'
<1> DEFINE st == Stream(r)
           nx == Stream(r)'
           n == Len(st)
<1> USE DEF Promise
<1>0. PICK m \in Message : /\ SendData(s, m)
                           /\ m.run = run[s] /\ m.path = PathAt(pos[s] + 1)
  BY DueIsSent DEF PathAt, Context
<1>1. /\ m \in Message /\ m.run = run[s] /\ m.path = PathAt(pos[s] + 1)
      /\ up[s] = "open"
      /\ pos[s] \in Nat /\ pos[s] < Len(WriteFields)
      /\ DOMAIN WriteFields = 1 .. Len(WriteFields) /\ Len(WriteFields) \in Nat
      /\ runs \in Nat /\ pos[r] \in Nat /\ r # s
  <2>1. m \in Message /\ m.run = run[s] /\ m.path = PathAt(pos[s] + 1)
    BY <1>0
  <2>2. up[s] = "open" /\ pos[s] \in Nat /\ pos[s] < Len(WriteFields)
    BY DEF Context, Typed, TypeOK, Bookkeeping
  <2> QED
    BY <2>1, <2>2, StructFacts DEF Context
<1>2. /\ n \in Nat /\ Len(nx) = n + 1
      /\ \A j \in 1 .. n : nx[j] = st[j]
      /\ nx[n + 1] = m
  <2>1. inq'[r] = inq[r] /\ outq'[r] = Append(outq[r], m)
    BY <1>0 DEF SendData, Context, Typed, TypeOK, PipeTypeOK
  <2> QED
    BY <1>1, <2>1, StreamPut, StreamFacts DEF Context
<1>3. /\ pos'[r] = pos[r] /\ got' = got /\ runs' = runs /\ run' = run
      /\ pos'[s] = pos[s] + 1 /\ up' = up /\ delivered' = delivered
  BY <1>1 DEF SenderWriteData, SendData, Context, Typed, TypeOK
<1>4. \A t \in Sender : up'[t] = "open" => t = s
  BY <1>1, <1>3 DEF Context, OnlyReceiver
<1>5. Transfers!Newest' = Transfers!Newest /\ Transfers!Newest \in Nat
  BY <1>3, NewestIsRun DEF Transfers!Newest
<1>6. run[s] = runs /\ Transfers!Newest < runs
  BY <1>1 DEF StoredInOrder
<1>7. up[r] = "open" =>
        /\ \A i \in 1 .. pos[r] : Transfers!Newest < got[r][i]
        /\ \A j \in 1 .. n : Transfers!Newest < st[j].run
        /\ \A i, j \in 1 .. n : i <= j => st[i].run <= st[j].run
        /\ \A j \in 1 .. n : st[j].run \in 1 .. runs
        /\ OnlyWritten(s, r)
  BY <1>1 DEF StoredInOrder, Context, Ordered, StreamInOrder
<1> HIDE DEF st, nx, n
<1>8. \A j \in 1 .. n + 1 : j \in 1 .. n \/ j = n + 1
  BY <1>2
<1>9. ASSUME up'[r] = "open"
      PROVE  /\ \A i \in 1 .. pos'[r] : Transfers!Newest' < got'[r][i]
             /\ \A j \in 1 .. Len(nx) : Transfers!Newest' < nx[j].run
             /\ \A i, j \in 1 .. Len(nx) : i <= j => nx[i].run <= nx[j].run
  <2>1. \A j \in 1 .. n : st[j].run \in 1 .. runs /\ Transfers!Newest < st[j].run
    BY <1>3, <1>7, <1>9
  <2>2. \A i, j \in 1 .. n : i <= j => st[i].run <= st[j].run
    BY <1>3, <1>7, <1>9
  <2>3. ASSUME NEW i \in 1 .. n + 1, NEW j \in 1 .. n + 1, i <= j
        PROVE  nx[i].run <= nx[j].run
    <3>1. CASE j \in 1 .. n
      BY <1>2, <2>2, <2>3, <3>1
    <3>2. CASE j = n + 1
      BY <1>1, <1>2, <1>6, <1>8, <2>1, <3>2
    <3> QED
      BY <1>8, <3>1, <3>2
  <2>4. \A j \in 1 .. n + 1 : Transfers!Newest < nx[j].run
    BY <1>1, <1>2, <1>6, <1>8, <2>1
  <2>5. \A i \in 1 .. pos[r] : Transfers!Newest < got[r][i]
    BY <1>3, <1>7, <1>9
  <2> QED
    BY <1>2, <1>3, <1>5, <2>3, <2>4, <2>5
<1>10. ASSUME up'[r] = "open"
       PROVE  OnlyWritten(s, r)'
  <2>1. OnlyWritten(s, r)
    BY <1>3, <1>7, <1>10
  <2>2. \A i \in 1 .. pos'[r] : got'[r][i] = run'[s] => i <= pos'[s]
    <3>1. \A i \in 1 .. pos[r] : got[r][i] = run[s] => i <= pos[s]
      BY <2>1 DEF OnlyWritten
    <3> QED
      BY <1>1, <1>3, <3>1
  <2>3. ASSUME NEW j \in 1 .. n + 1, NEW i \in DOMAIN WriteFields,
               nx[j].run = run[s], nx[j].path = PathAt(i)
        PROVE  i <= pos[s] + 1
    <3>1. CASE j \in 1 .. n
      <4>1. i <= pos[s]
        BY <1>2, <2>1, <2>3, <3>1 DEF OnlyWritten, st, n
      <4> QED
        BY <1>1, <4>1
    <3>2. CASE j = n + 1
      <4>1. pos[s] + 1 \in DOMAIN WriteFields
        BY <1>1
      <4> QED
        BY <1>1, <1>2, <2>3, <3>2, <4>1 DEF PathAt, Context, ExampleSetup
    <3> QED
      BY <1>8, <3>1, <3>2
  <2> QED
    BY <1>2, <1>3, <2>2, <2>3 DEF OnlyWritten, nx, PathAt
<1>11. \A i \in DOMAIN delivered' : \E k \in 1 .. runs' : delivered'[i] = WholeStruct(k)
  BY <1>3 DEF StoredInOrder
<1>12. \A t \in Sender : up'[t] = "open" =>
          /\ run'[t] = runs'
          /\ pos'[t] < Len(WriteFields) => Transfers!Newest' < runs'
  BY <1>3, <1>4, <1>5, <1>6
<1> QED
  BY <1>4, <1>9, <1>10, <1>11, <1>12 DEF StoredInOrder, nx

(* The receiver reads a field: the first of its stream.                    *)
LEMMA StoredTake ==
    ASSUME NEW r \in Receiver, Promise(r), ReceiverRead(r)
    PROVE  StoredInOrder(r)'
<1> DEFINE st == Stream(r)
           nx == Stream(r)'
           n == Len(st)
           m == Head(inq[r])
<1> USE DEF Promise
<1>1. /\ pos[r] \in Nat /\ pos[r] < Len(WriteFields) /\ up[r] = "open"
      /\ inq[r] # << >> /\ m.path = PathAt(pos[r] + 1)
      /\ inq'[r] = Tail(inq[r]) /\ UNCHANGED <<up, outq, runs, run, delivered>>
      /\ pos'[r] = pos[r] + 1 /\ got'[r] = Append(got[r], m.run)
      /\ \A s \in Sender : pos'[s] = pos[s]
      /\ DOMAIN WriteFields = 1 .. Len(WriteFields) /\ Len(WriteFields) \in Nat
  BY StructFacts
  DEF ReceiverRead, Reading, Matches, Arrived, Accepts, Expected, Take,
      PathAt, Context, Typed, TypeOK, PipeTypeOK, ExampleSetup
<1>2. /\ n \in Nat /\ n > 0 /\ Len(nx) = n - 1
      /\ \A j \in 1 .. n - 1 : nx[j] = st[j + 1] /\ j + 1 \in 1 .. n
      /\ st[1] = m /\ 1 \in 1 .. n
  <2>1. /\ st # << >> /\ Len(nx) = n - 1
        /\ \A j \in 1 .. n - 1 : nx[j] = st[j + 1]
        /\ st[1] = m
    BY <1>1, StreamTake DEF Context
  <2>2. n \in Nat /\ n # 0
    BY <2>1, StreamFacts DEF Context
  <2> HIDE DEF st, nx, n, m
  <2> QED
    BY <2>1, <2>2
<1>3. /\ \A i \in 1 .. pos[r] : Transfers!Newest < got[r][i]
      /\ \A j \in 1 .. n : Transfers!Newest < st[j].run
      /\ \A i, j \in 1 .. n : i <= j => st[i].run <= st[j].run
      /\ \A s \in Sender : up[s] = "open" => OnlyWritten(s, r)
  BY <1>1 DEF StoredInOrder
<1>4. m.run \in Nat
  BY <1>2, StreamFacts DEF Context
<1> HIDE DEF st, nx, n, m
<1>5. Transfers!Newest' = Transfers!Newest
  BY <1>1 DEF Transfers!Newest
<1>6. /\ \A i \in 1 .. pos[r] : got'[r][i] = got[r][i]
      /\ got'[r][pos[r] + 1] = m.run
      /\ \A i \in 1 .. pos'[r] : i \in 1 .. pos[r] \/ i = pos[r] + 1
  <2> DEFINE g == got[r]
  <2>1. g \in Seq(Nat) /\ Len(g) = pos[r] /\ got'[r] = Append(g, m.run)
    BY <1>1, StructFacts DEF Context
  <2> HIDE DEF g
  <2>2. (\A i \in 1 .. pos[r] : got'[r][i] = g[i]) /\ got'[r][pos[r] + 1] = m.run
    BY <1>4, <2>1
  <2>3. \A i \in 1 .. pos'[r] : i \in 1 .. pos[r] \/ i = pos[r] + 1
    BY <1>1
  <2> QED
    BY <2>2, <2>3 DEF g
<1>7. /\ \A i \in 1 .. pos'[r] : Transfers!Newest' < got'[r][i]
      /\ \A j \in 1 .. Len(nx) : Transfers!Newest' < nx[j].run
      /\ \A i, j \in 1 .. Len(nx) : i <= j => nx[i].run <= nx[j].run
  <2>1. \A i \in 1 .. pos'[r] : Transfers!Newest' < got'[r][i]
    BY <1>2, <1>3, <1>5, <1>6
  <2>2. \A j \in 1 .. Len(nx) : Transfers!Newest' < nx[j].run
    BY <1>2, <1>3, <1>5
  <2>3. \A i, j \in 1 .. Len(nx) : i <= j => nx[i].run <= nx[j].run
    <3>1. \A i, j \in 1 .. n - 1 : i <= j => i + 1 <= j + 1
      BY <1>2
    <3> QED
      BY <1>2, <1>3, <3>1
  <2> QED
    BY <2>1, <2>2, <2>3
<1>8. ASSUME NEW s \in Sender, up'[s] = "open"
      PROVE  OnlyWritten(s, r)'
  <2>1. OnlyWritten(s, r)
    BY <1>1, <1>3, <1>8
  <2>2. \A j \in 1 .. n, i \in DOMAIN WriteFields :
          st[j].run = run[s] /\ st[j].path = PathAt(i) => i <= pos[s]
    BY <2>1 DEF OnlyWritten, st, n
  <2>3. \A i \in 1 .. pos[r] : got[r][i] = run[s] => i <= pos[s]
    BY <2>1 DEF OnlyWritten
  <2>4. pos[r] + 1 \in DOMAIN WriteFields
    BY <1>1
  <2>5. \A i \in 1 .. pos'[r] : got'[r][i] = run'[s] => i <= pos'[s]
    BY <1>1, <1>2, <1>6, <2>2, <2>3, <2>4
  <2>6. \A j \in 1 .. Len(nx), i \in DOMAIN WriteFields :
          nx[j].run = run'[s] /\ nx[j].path = PathAt(i) => i <= pos'[s]
    BY <1>1, <1>2, <2>2
  <2> QED
    BY <2>5, <2>6 DEF OnlyWritten, nx, PathAt
<1>9. /\ \A i \in DOMAIN delivered' : \E k \in 1 .. runs' : delivered'[i] = WholeStruct(k)
      /\ \A t \in Sender : up'[t] = "open" =>
            /\ run'[t] = runs'
            /\ pos'[t] < Len(WriteFields) => Transfers!Newest' < runs'
  BY <1>1, <1>5 DEF StoredInOrder
<1> QED
  BY <1>7, <1>8, <1>9 DEF StoredInOrder, nx

(* A receiver that starts has nothing read and nothing under way.          *)
LEMMA StoredFresh ==
    ASSUME NEW r \in Receiver, Promise(r), ReceiverStart(r)
    PROVE  StoredInOrder(r)'
<1> USE DEF Promise
<1>1. pos'[r] = 0 /\ Stream(r)' = << >>
  BY OrderFresh DEF Context, Fresh
<1>2. /\ UNCHANGED <<runs, run, delivered>>
      /\ \A s \in Sender : up'[s] = up[s] /\ pos'[s] = pos[s]
  BY DEF ReceiverStart, Construct, Context, Typed, TypeOK, PipeTypeOK
<1>3. Transfers!Newest' = Transfers!Newest
  BY <1>2 DEF Transfers!Newest
<1>4. /\ \A i \in DOMAIN delivered' : \E k \in 1 .. runs' : delivered'[i] = WholeStruct(k)
      /\ \A s \in Sender : up'[s] = "open" =>
            /\ run'[s] = runs'
            /\ pos'[s] < Len(WriteFields) => Transfers!Newest' < runs'
  BY <1>2, <1>3 DEF StoredInOrder
<1>5. 1 .. pos'[r] = {} /\ 1 .. Len(Stream(r)') = {}
  BY <1>1
<1> QED
  BY <1>4, <1>5 DEF StoredInOrder, OnlyWritten

(* A sender that starts is the latest execution, of which nothing is known. *)
LEMMA StoredStart ==
    ASSUME NEW r \in Receiver, Promise(r), NEW s \in Sender, SenderStart(s)
    PROVE  StoredInOrder(r)'
<1> DEFINE st == Stream(r)
<1> USE DEF Promise
<1>1. /\ UNCHANGED <<peer, partial, inq, outq, got, delivered>>
      /\ runs \in Nat /\ runs' = runs + 1 /\ run'[s] = runs + 1 /\ pos'[s] = 0
      /\ pos'[r] = pos[r] /\ up'[r] = up[r] /\ up'[s] = "open"
  BY DEF SenderStart, Construct, Context, Typed, TypeOK, PipeTypeOK
<1>2. Stream(r)' = st
  BY <1>1 DEF Stream
<1>3. OnlyReceiver(r)'
  BY OnlyReceiverStays DEF Context, Next
<1>4. \A t \in Sender : up'[t] = "open" => t = s
  BY <1>1, <1>3 DEF OnlyReceiver
<1>5. Transfers!Newest' = Transfers!Newest /\ Transfers!Newest < runs + 1
  BY <1>1, NewestIsRun DEF Transfers!Newest
<1>6. \A i \in DOMAIN delivered' : \E k \in 1 .. runs' : delivered'[i] = WholeStruct(k)
  BY <1>1 DEF StoredInOrder
<1>7. \A t \in Sender : up'[t] = "open" =>
         /\ run'[t] = runs'
         /\ pos'[t] < Len(WriteFields) => Transfers!Newest' < runs'
  BY <1>1, <1>4, <1>5
<1>8. up'[r] = "open" =>
        /\ \A i \in 1 .. pos[r] : Transfers!Newest < got[r][i]
        /\ \A j \in 1 .. Len(st) : Transfers!Newest < st[j].run
        /\ \A i, j \in 1 .. Len(st) : i <= j => st[i].run <= st[j].run
  BY <1>1 DEF StoredInOrder
<1>9. up'[r] = "open" => OnlyWritten(s, r)'
  <2>1. \A i \in 1 .. pos[r] : got[r][i] \in 1 .. runs
    BY DEF Context, Ordered, StructSoFar
  <2>2. up[r] = "open" => \A j \in 1 .. Len(st) : st[j].run \in 1 .. runs
    BY DEF Context, Ordered, StreamInOrder
  <2> HIDE DEF st
  <2>3. \A k \in 1 .. runs : k # runs + 1
    BY <1>1
  <2> QED
    BY <1>1, <1>2, <2>1, <2>2, <2>3 DEF OnlyWritten
<1> HIDE DEF st
<1> QED
  BY <1>1, <1>2, <1>4, <1>5, <1>6, <1>7, <1>8, <1>9 DEF StoredInOrder

(***************************************************************************)
(* The receiver closes a file: it holds the whole struct of one execution, *)
(* newer than all stored before, older than all that is on its way.        *)
(***************************************************************************)
LEMMA StoredDeliver ==
    ASSUME NEW r \in Receiver, Promise(r), ReceiverStored(r)
    PROVE  /\ StoredInOrder(r)'
           /\ Transfers!Deliver
<1> DEFINE st == Stream(r)
           n == Len(st)
           k == LastRead(r)
           file == files[r][count[r]]
<1> USE DEF Promise
<1>1. /\ up[r] = "open" /\ storing[r]
      /\ UNCHANGED <<pipeVars, runs, run>>
      /\ pos[r] = Len(WriteFields) /\ pos[r] \in Nat \ {0} /\ pos'[r] = 0
      /\ DOMAIN WriteFields = 1 .. Len(WriteFields)
      /\ \A s \in Sender : pos'[s] = pos[s] /\ pos[s] \in Nat
      /\ delivered' = Append(delivered, file) /\ delivered \in Seq(Seq(Nat))
      /\ file \in Seq(Nat) /\ Len(file) = Len(WriteFields)
      /\ runs \in Nat
  BY StructFacts
  DEF ReceiverStored, Stored, Context, Typed, TypeOK, Bookkeeping, ExampleSetup
<1>2. \A i \in 1 .. pos[r] : got[r][i] = k /\ k \in 1 .. runs
  BY DEF Context, Ordered, StructSoFar
<1>3. file = WholeStruct(k) /\ file = [i \in 1 .. Len(WriteFields) |-> k]
  <2>1. \A i \in DOMAIN file : file[i] = got[r][i] /\ DOMAIN file = 1 .. pos[r]
    BY <1>1 DEF Context, Ordered, StructSoFar
  <2> HIDE DEF file, k
  <2>2. file = [i \in 1 .. Len(WriteFields) |-> k]
    BY <1>1, <1>2, <2>1
  <2> QED
    BY <1>1, <2>2 DEF WholeStruct
<1>4. k \in 1 .. runs /\ Transfers!Newest < k
  <2>1. up[r] = "open" => \A i \in 1 .. pos[r] : Transfers!Newest < got[r][i]
    BY DEF StoredInOrder
  <2>2. pos[r] \in 1 .. pos[r]
    BY <1>1
  <2> HIDE DEF k
  <2> QED
    BY <1>1, <1>2, <2>1, <2>2
<1>5. Transfers!Deliver
  BY <1>1, <1>3, <1>4 DEF Transfers!Deliver
<1>6. /\ Len(delivered') = Len(delivered) + 1
      /\ \A i \in 1 .. Len(delivered) : delivered'[i] = delivered[i]
      /\ delivered'[Len(delivered) + 1] = file
      /\ Len(delivered) \in Nat
      /\ DOMAIN delivered' = 1 .. Len(delivered) + 1
      /\ delivered' # << >>
  <2> HIDE DEF file
  <2>1. delivered \in Seq(Seq(Nat)) /\ file \in Seq(Nat)
    BY <1>1
  <2>2. delivered' = Append(delivered, file)
    BY <1>1
  <2>3. /\ Append(delivered, file) \in Seq(Seq(Nat))
        /\ Append(delivered, file) # << >>
        /\ Len(Append(delivered, file)) = Len(delivered) + 1
        /\ \A i \in 1 .. Len(delivered) : Append(delivered, file)[i] = delivered[i]
        /\ Append(delivered, file)[Len(delivered) + 1] = file
    BY <2>1, AppendProperties
  <2>4. /\ Len(delivered) \in Nat
        /\ DOMAIN Append(delivered, file) = 1 .. Len(Append(delivered, file))
    BY <2>1, <2>3, LenProperties
  <2> QED
    BY <2>2, <2>3, <2>4
<1>7. Transfers!Newest' = k
  <2>1. Transfers!Newest' = delivered'[Len(delivered) + 1][1]
    BY <1>6 DEF Transfers!Newest
  <2> HIDE DEF file, k
  <2>2. file[1] = k
    BY <1>1, <1>3
  <2> QED
    BY <1>6, <2>1, <2>2
<1>8. \A i \in DOMAIN delivered' : \E x \in 1 .. runs' : delivered'[i] = WholeStruct(x)
  <2>1. \A i \in DOMAIN delivered : \E x \in 1 .. runs : delivered[i] = WholeStruct(x)
    BY DEF StoredInOrder
  <2> HIDE DEF file, k
  <2>2. \A i \in 1 .. Len(delivered) + 1 :
            i \in 1 .. Len(delivered) \/ i = Len(delivered) + 1
    BY <1>6
  <2>3. DOMAIN delivered = 1 .. Len(delivered) /\ runs' = runs
    BY <1>1
  <2> QED
    BY <1>3, <1>4, <1>6, <2>1, <2>2, <2>3
<1>9. UNCHANGED <<up, peer, partial, inq, outq>> /\ Stream(r)' = st
  BY <1>1 DEF pipeVars, Stream
<1>10. \A s \in Sender : up'[s] = "open" =>
          /\ run'[s] = runs'
          /\ pos'[s] < Len(WriteFields) => Transfers!Newest' < runs'
  <2>1. ASSUME NEW s \in Sender, up[s] = "open", k = run[s]
        PROVE  ~ (pos[s] < Len(WriteFields))
    <3>1. OnlyWritten(s, r)
      BY <1>1, <2>1 DEF StoredInOrder
    <3>2. pos[r] \in 1 .. pos[r] /\ got[r][pos[r]] = run[s]
      BY <1>1, <1>2, <2>1
    <3>3. pos[r] <= pos[s]
      BY <3>1, <3>2 DEF OnlyWritten
    <3> QED
      BY <1>1, <3>3
  <2>2. \A s \in Sender : up[s] = "open" => run[s] = runs
    BY DEF StoredInOrder
  <2>3. UNCHANGED <<runs, run, up>> /\ \A s \in Sender : pos'[s] = pos[s]
    BY <1>1, <1>9
  <2> HIDE DEF k
  <2>4. Transfers!Newest' = k /\ k \in 1 .. runs /\ runs \in Nat
    BY <1>1, <1>4, <1>7
  <2>5. ASSUME NEW s \in Sender, up'[s] = "open", pos'[s] < Len(WriteFields)
        PROVE  Transfers!Newest' < runs'
    <3>1. up[s] = "open" /\ pos[s] < Len(WriteFields)
      BY <2>3, <2>5
    <3>2. k # runs
      BY <2>1, <2>2, <3>1
    <3> QED
      BY <2>3, <2>4, <3>2
  <2> QED
    BY <2>2, <2>3, <2>5
<1>11. \A j \in 1 .. n : k < st[j].run
  <2>1. n \in Nat /\ (st = << >> <=> n = 0) /\ \A j \in 1 .. n : st[j].run \in Nat
    BY StreamFacts DEF Context
  <2>2. n # 0 => Succeeds(st[1], k, pos[r])
    BY <1>1, <2>1 DEF Context, Ordered, StreamInOrder
  <2>3. n # 0 => k < st[1].run
    BY <1>1, <2>2 DEF Succeeds
  <2>4. up[r] = "open" => \A i, j \in 1 .. n : i <= j => st[i].run <= st[j].run
    BY DEF StoredInOrder
  <2> HIDE DEF st, n, k
  <2>5. \A j \in 1 .. n : 1 \in 1 .. n /\ 1 <= j
    BY <2>1
  <2>6. \A j \in 1 .. n : st[1].run <= st[j].run
    BY <1>1, <2>4, <2>5
  <2> QED
    BY <1>4, <2>1, <2>3, <2>5, <2>6
<1>12. /\ \A i, j \in 1 .. n : i <= j => st[i].run <= st[j].run
       /\ \A s \in Sender : up[s] = "open" => OnlyWritten(s, r)
  BY <1>1 DEF StoredInOrder
<1>13. \A s \in Sender : up'[s] = "open" => OnlyWritten(s, r)'
  <2>1. ASSUME NEW s \in Sender, up[s] = "open"
        PROVE  \A j \in 1 .. n, i \in DOMAIN WriteFields :
                  st[j].run = run[s] /\ st[j].path = PathAt(i) => i <= pos[s]
    BY <1>12, <2>1 DEF OnlyWritten
  <2>2. 1 .. pos'[r] = {}
    BY <1>1
  <2> HIDE DEF st, n
  <2>3. n = Len(st)
    BY DEF n, st
  <2> QED
    BY <1>1, <1>9, <2>1, <2>2, <2>3 DEF OnlyWritten, PathAt
<1>14. 1 .. pos'[r] = {}
  BY <1>1
<1>15. StoredInOrder(r)'
  <2> HIDE DEF st, k
  <2> QED
    BY <1>7, <1>8, <1>9, <1>10, <1>11, <1>12, <1>13, <1>14 DEF StoredInOrder
<1> QED
  BY <1>5, <1>15

-----------------------------------------------------------------------------
(* Every step keeps the invariant, and is one that StructTransfer allows.  *)
LEMMA PromiseStep ==
    ASSUME NEW r \in Receiver, Promise(r), [Next]_vars
    PROVE  StoredInOrder(r)' /\ [Transfers!Next]_<<runs, delivered>>
<1> USE DEF Promise
<1>1. /\ Receiver = {r} /\ r \in Process /\ r \notin Sender
      /\ \A s \in Sender : s \in Process /\ s # r
      /\ "dropping" # r /\ Nobody # r
      /\ Typed /\ PipeTypeOK /\ OnlyReceiver(r)
      /\ \A s \in Sender : pos[s] \in Nat
      /\ pos \in [Process -> Nat] /\ got \in [Receiver -> Seq(Nat)]
  BY DEF Context, ExampleSetup, Typed, TypeOK
<1>2. Len(Stream(r)) \in Nat
  BY <1>1, StreamFacts
<1>3. ASSUME UNCHANGED <<runs, delivered, run, pos>>, got'[r] = got[r],
             \A p \in Process : up'[p] = "open" => up[p] = "open",
             inq'[r] = inq[r], outq'[r] \in {outq[r], << >>}
      PROVE  StoredInOrder(r)' /\ UNCHANGED <<runs, delivered>>
  <2>1. /\ Len(Stream(r)') \in Nat /\ Len(Stream(r)') <= Len(Stream(r))
        /\ \A j \in 1 .. Len(Stream(r)') : Stream(r)'[j] = Stream(r)[j]
    <3>1. CASE outq'[r] = outq[r]
      <4>1. Stream(r)' = Stream(r)
        BY <1>3, <3>1 DEF Stream
      <4> QED
        BY <1>2, <4>1
    <3>2. CASE outq'[r] = << >>
      BY <1>1, <1>3, <3>2, StreamCut
    <3> QED
      BY <1>3, <3>1, <3>2
  <2> QED
    BY <1>1, <1>3, <2>1, StoredFrame
<1>4. ASSUME NEW s \in Sender, SenderStart(s)
      PROVE  StoredInOrder(r)' /\ Transfers!Begin
  BY <1>4, StoredStart DEF SenderStart, Transfers!Begin
<1>5. ASSUME NEW s \in Sender, SenderWriteData(s)
      PROVE  StoredInOrder(r)' /\ UNCHANGED <<runs, delivered>>
  <2>1. partial[s] = r \/ partial[s] = "dropping"
    BY <1>1, <1>5 DEF OnlyReceiver, SenderWriteData, SendData
  <2>2. CASE partial[s] = r
    BY <1>5, <2>2, StoredPut DEF SenderWriteData
  <2>3. CASE partial[s] = "dropping"
    <3>1. /\ UNCHANGED <<runs, delivered, run, got, up, inq, outq>>
          /\ pos'[r] = pos[r]
          /\ \A t \in Sender : pos'[t] \in Nat /\ pos'[t] >= pos[t]
      BY <1>1, <1>5, <2>3 DEF SenderWriteData, SendData
    <3>2. Stream(r)' = Stream(r)
      BY <3>1 DEF Stream
    <3> QED
      BY <1>2, <3>1, <3>2, StoredFrame
  <2> QED
    BY <2>1, <2>2, <2>3
<1>6. ASSUME NEW s \in Sender, SenderWriteId(s) \/ SenderReturn(s) \/ SenderExit(s)
      PROVE  StoredInOrder(r)' /\ UNCHANGED <<runs, delivered>>
  BY <1>1, <1>3, <1>6
  DEF SenderWriteId, SendId, SenderReturn, Close, Disconnected, SenderExit,
      LingerEnds, appVars, PipeTypeOK
<1>7. ASSUME ReceiverStart(r)
      PROVE  StoredInOrder(r)' /\ UNCHANGED <<runs, delivered>>
  BY <1>7, StoredFresh DEF ReceiverStart
<1>8. ASSUME ReceiverRead(r)
      PROVE  StoredInOrder(r)' /\ UNCHANGED <<runs, delivered>>
  BY <1>8, StoredTake DEF ReceiverRead
<1>9. ASSUME ReceiverCopy(r) \/ ReceiverStoreField(r)
      PROVE  StoredInOrder(r)' /\ UNCHANGED <<runs, delivered>>
  BY <1>3, <1>9 DEF ReceiverCopy, ReceiverStoreField, pipeVars
<1>10. ASSUME ReceiverStored(r)
       PROVE  StoredInOrder(r)' /\ Transfers!Deliver
  BY <1>10, StoredDeliver
<1>11. ASSUME NEW p \in Process, Transfer(p), UNCHANGED appVars
       PROVE  StoredInOrder(r)' /\ UNCHANGED <<runs, delivered>>
  <2>1. p = r
    BY <1>1, <1>11 DEF Transfer, OnlyReceiver
  <2>2. Stream(r)' = Stream(r)
    BY <1>1, <1>11, <2>1, StreamMove DEF Transfer, PipeTypeOK
  <2>3. UNCHANGED <<runs, delivered, run, pos, got, up>>
    BY <1>11 DEF Transfer, appVars
  <2> QED
    BY <1>1, <1>2, <2>2, <2>3, StoredFrame
<1>12. ASSUME NEW p \in Process, Connect(p), UNCHANGED appVars
       PROVE  StoredInOrder(r)' /\ UNCHANGED <<runs, delivered>>
  BY <1>3, <1>12 DEF Connect, appVars
<1>13. ASSUME NEW p \in Process, Vanish(p),
              UNCHANGED <<runs, run, pos, got, delivered>>
       PROVE  StoredInOrder(r)' /\ UNCHANGED <<runs, delivered>>
  <2>1. CASE p = r
    <3>1. up'[r] = "off" /\ \A s \in Sender : up'[s] = up[s]
      BY <1>1, <1>13, <2>1 DEF Vanish, PipeTypeOK
    <3>2. Transfers!Newest' = Transfers!Newest
      BY <1>13 DEF Transfers!Newest
    <3> QED
      BY <1>13, <3>1, <3>2 DEF StoredInOrder
  <2>2. CASE p # r
    BY <1>1, <1>3, <1>13, <2>2 DEF Vanish, Disconnected, PipeTypeOK
  <2> QED
    BY <2>1, <2>2
<1>14. CASE UNCHANGED vars
  BY <1>3, <1>14 DEF vars, pipeVars, appVars
<1>15. ASSUME NEW s \in Sender, SenderStart(s) \/ SenderSteps(s)
       PROVE  StoredInOrder(r)' /\ [Transfers!Next]_<<runs, delivered>>
  BY <1>4, <1>5, <1>6, <1>15 DEF SenderSteps, Transfers!Next
<1>16. ASSUME NEW x \in Receiver, ReceiverStart(x) \/ ReceiverSteps(x)
       PROVE  StoredInOrder(r)' /\ [Transfers!Next]_<<runs, delivered>>
  <2>1. x = r
    BY <1>1
  <2> QED
    BY <1>1, <1>7, <1>8, <1>9, <1>10, <1>13, <1>16, <2>1
    DEF ReceiverSteps, ReceiverFails, appVars, Transfers!Next
<1>17. ASSUME NEW p \in Process, Library(p) \/ Kill(p)
       PROVE  StoredInOrder(r)' /\ [Transfers!Next]_<<runs, delivered>>
  BY <1>11, <1>12, <1>13, <1>17 DEF Library, Kill
<1> QED
  BY <1>14, <1>15, <1>16, <1>17 DEF Next

LEMMA PromiseInit ==
    ASSUME NEW r \in Receiver, ExampleSetup(r), Init
    PROVE  Promise(r) /\ Transfers!Init
<1>1. Context(r)
  BY ContextInit
<1>2. /\ runs = 0 /\ delivered = << >>
      /\ \A p \in Process : up[p] = "off"
      /\ r \in Process /\ Sender \subseteq Process
  BY DEF Init, PipeInit
<1>3. StoredInOrder(r)
  BY <1>2 DEF StoredInOrder
<1> QED
  BY <1>1, <1>2, <1>3 DEF Promise, Transfers!Init

(***************************************************************************)
(* In the set-up of the examples, what the receiver stores is what         *)
(* StructTransfer promises: whole structs, each execution of the sender at *)
(* most once and in the order of the executions, for any number of         *)
(* senders, any schema and queue bound, whatever is killed and restarted.  *)
(***************************************************************************)
THEOREM ExchangeKeepsItsPromise ==
    ASSUME NEW r \in Receiver, ExampleSetup(r)
    PROVE  Spec => ImplementsTransfer
<1>1. Init => Promise(r) /\ Transfers!Init
  BY PromiseInit
<1>2. Promise(r) /\ [Next]_vars => Promise(r)' /\ [Transfers!Next]_<<runs, delivered>>
  BY PromiseStep, ContextStep DEF Promise
<1> QED
  BY <1>1, <1>2, PTL DEF Spec, ImplementsTransfer, Transfers!Spec

(***************************************************************************)
(* The order of delivery behind it, the invariant InOrder of the runs.     *)
(***************************************************************************)
THEOREM DeliveryStaysInOrder ==
    ASSUME NEW r \in Receiver, ExampleSetup(r)
    PROVE  Spec => []InOrder
<1>1. Init => Promise(r)
  BY PromiseInit
<1>2. Promise(r) /\ [Next]_vars => Promise(r)'
  BY PromiseStep, ContextStep DEF Promise
<1>3. Promise(r) => InOrder
  BY DEF Promise, Context, InOrder, Ordered, ExampleSetup
<1> QED
  BY <1>1, <1>2, <1>3, PTL DEF Spec
=============================================================================
