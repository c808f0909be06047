----------------------------- MODULE ZeroMQPipe -----------------------------
(***************************************************************************)
(* The ZeroMQPipe class (src/src/pipes/zeromq_pipe.{h,cpp}): every process *)
(* that owns a pipe binds one PUSH socket and connects one PULL socket,    *)
(* and a field travels as one two-part message, the id and then the data.  *)
(*                                                                         *)
(* The module holds the state of all pipes and of the library under them   *)
(* and gives one operator per call of the class; the programs that make    *)
(* the calls are in SenderReceiver.  What libzmq does (how a PUSH socket   *)
(* picks a peer, that a multipart message is delivered whole or not at     *)
(* all, lingering at close) is external code, modelled as the class relies *)
(* on it.                                                                  *)
(***************************************************************************)
EXTENDS Integers, Sequences, FiniteSets

CONSTANTS Process,      \* the processes that may own a pipe
          Socket,       \* socket addresses
          Outbound,     \* Outbound[p]: m_config.outbound_socket of p's pipe
          Incoming,     \* Incoming[p]: m_config.incoming_socket of p's pipe
          HighWater,    \* messages a socket queues for one peer
          Path,         \* full variable paths
          InPlace,      \* bytes that a message object has room for itself
          Nobody        \* no peer

ASSUME ConfigAssumption == /\ Outbound \in [Process -> Socket]
                           /\ Incoming \in [Process -> Socket]
ASSUME HighWaterAssumption == HighWater \in Nat \ {0}
ASSUME InPlaceAssumption == InPlace \in Nat
ASSUME NobodyAssumption == /\ Nobody \notin Process
                           /\ "dropping" \notin Process \cup {Nobody}

VARIABLES
    up,       \* up[p]: p has no pipe, an open pipe, or a pipe being destroyed
    peer,     \* peer[p]: the process whose PUSH socket p's PULL socket reaches
    partial,  \* partial[p]: the peer that took the id part p sent last
    outq,     \* outq[p]: messages that peer[p] queued for p
    inq       \* inq[p]: whole messages that reached p and no read took yet

pipeVars == <<up, peer, partial, outq, inq>>

(***************************************************************************)
(* A field of a generated struct: its path, the size of an element, and    *)
(* how often vectors are nested (0 for a value).                           *)
(*                                                                         *)
(* On the wire the id part has the path and the dimension sizes, the data  *)
(* part the bytes and no element type.  Of the sizes only their number and *)
(* their product matter, of the bytes how many they are and the execution  *)
(* that wrote them.  A value is sent with one dimension, of size 1.        *)
(***************************************************************************)
Field == [path : Path, width : Nat \ {0}, rank : Nat]
Message == [path : Path, dimensions : Nat, elements : Nat, bytes : Nat, run : Nat]

MessageFor(field, n, k) ==
    [path |-> field.path, dimensions |-> IF field.rank = 0 THEN 1 ELSE field.rank,
     elements |-> n, bytes |-> n * field.width, run |-> k]

PipeTypeOK ==
    /\ up \in [Process -> {"off", "open", "linger"}]
    /\ peer \in [Process -> Process \cup {Nobody}]
    /\ partial \in [Process -> Process \cup {Nobody, "dropping"}]
    /\ outq \in [Process -> Seq(Message)]
    /\ inq \in [Process -> Seq(Message)]

PipeInit ==
    /\ up = [p \in Process |-> "off"]
    /\ peer = [p \in Process |-> Nobody]
    /\ partial = [p \in Process |-> Nobody]
    /\ outq = [p \in Process |-> << >>]
    /\ inq = [p \in Process |-> << >>]

-----------------------------------------------------------------------------
(* An address has at most one listener; lingering sockets do not listen.   *)
Bound(addr) == \E p \in Process : up[p] = "open" /\ Outbound[p] = addr

(***************************************************************************)
(* The constructor: get_outbound_socket binds, get_incoming_socket starts  *)
(* connecting in the background.  bind throws when the address is taken;   *)
(* the object is then never built and nothing has changed.                 *)
(***************************************************************************)
Construct(p) ==
    /\ up[p] = "off"
    /\ ~ Bound(Outbound[p])
    /\ up' = [up EXCEPT ![p] = "open"]
    /\ UNCHANGED <<peer, partial, outq, inq>>

(* The library connects, and reconnects, a PULL socket to the listener.    *)
Connect(p) ==
    /\ up[p] = "open"
    /\ peer[p] = Nobody
    /\ \E q \in Process :
        /\ up[q] = "open"
        /\ Outbound[q] = Incoming[p]
        /\ peer' = [peer EXCEPT ![p] = q]
    /\ UNCHANGED <<up, partial, outq, inq>>

(***************************************************************************)
(* write, first send: the id part with sndmore.  It blocks until some      *)
(* connected peer has room; the data part will follow to the same peer,    *)
(* and the peer sees nothing before the message is complete.               *)
(***************************************************************************)
SendId(p) ==
    /\ up[p] = "open"
    /\ partial[p] = Nobody
    /\ \E q \in Process :
        /\ peer[q] = p
        /\ Len(outq[q]) < HighWater
        /\ partial' = [partial EXCEPT ![p] = q]
    /\ UNCHANGED <<up, peer, outq, inq>>

(***************************************************************************)
(* write, second send: the data part, which completes the message.  If the *)
(* peer that took the id part is gone the library drops the rest and the   *)
(* send still succeeds.                                                    *)
(***************************************************************************)
SendData(p, m) ==
    /\ up[p] = "open"
    /\ partial[p] # Nobody
    /\ outq' = IF partial[p] = "dropping" THEN outq
               ELSE [outq EXCEPT ![partial[p]] = Append(@, m)]
    /\ partial' = [partial EXCEPT ![p] = Nobody]
    /\ UNCHANGED <<up, peer, inq>>

(* The library carries the oldest message to the peer's PULL socket.       *)
Transfer(p) ==
    /\ outq[p] # << >>
    /\ Len(inq[p]) < HighWater
    /\ outq' = [outq EXCEPT ![p] = Tail(@)]
    /\ inq' = [inq EXCEPT ![p] = Append(@, Head(outq[p]))]
    /\ UNCHANGED <<up, peer, partial>>

(***************************************************************************)
(* read: both receive calls block until a whole message is there, and take *)
(* it off the queue before anything is compared.  The read returns only if *)
(* the id names the path asked for, the data has the size of a value, or   *)
(* of as many elements as the sizes in the id say, and a vector has the    *)
(* dimensions in the id; otherwise it throws, and the message is gone.     *)
(* Element types of one size are not told apart, nor are a value and a     *)
(* vector of one element.                                                  *)
(***************************************************************************)
Arrived(p) == up[p] = "open" /\ inq[p] # << >>
SizeMatches(m, field) ==
    m.bytes = field.width * (IF field.rank = 0 THEN 1 ELSE m.elements)
RankMatches(m, field) == field.rank > 0 => m.dimensions = field.rank

AcceptsAnyPath(p, field) ==                                       \* seeded fault
    SizeMatches(Head(inq[p]), field) /\ RankMatches(Head(inq[p]), field)
Accepts(p, field) == /\ Head(inq[p]).path = field.path
                     /\ SizeMatches(Head(inq[p]), field)
                     /\ RankMatches(Head(inq[p]), field)

(***************************************************************************)
(* data_from_message copies as many elements as the message has bytes into *)
(* the vector it reads, so it reads on behind wider elements.  The bytes   *)
(* of a short message are in the message object, and so is what follows    *)
(* them up to InPlace; beyond that anything may be there, or nothing.      *)
(***************************************************************************)
ReadsBeyond(p, field) ==
    LET m == Head(inq[p])
    IN  /\ field.rank > 0 /\ SizeMatches(m, field)
        /\ field.width > 1 /\ m.bytes > 0
        /\ m.bytes * field.width > InPlace
TakeCopy(p) ==                                                    \* seeded fault
    UNCHANGED pipeVars
Take(p) ==
    /\ inq' = [inq EXCEPT ![p] = Tail(@)]
    /\ UNCHANGED <<up, peer, partial, outq>>

(* Seeded fault: the half of a message that the dead peer took is forgotten. *)
DisconnectedMidMessage(p) ==
    /\ inq' = [inq EXCEPT ![p] = << >>]
    /\ partial' = [partial EXCEPT ![p] = Nobody]

(* p's PULL socket goes away, with all that was queued for it.             *)
Disconnected(p) ==
    /\ inq' = [inq EXCEPT ![p] = << >>]
    /\ partial' = [q \in Process |->
                    IF q = p THEN Nobody
                    ELSE IF partial[q] = p THEN "dropping" ELSE partial[q]]

(* Seeded fault: a linger of zero, what is queued for the peers is lost.   *)
CloseWithoutLinger(p) ==
    /\ up[p] = "open"
    /\ up' = [up EXCEPT ![p] = "linger"]
    /\ peer' = [peer EXCEPT ![p] = Nobody]
    /\ outq' = [q \in Process |-> IF peer[q] = p THEN << >> ELSE outq[q]]
    /\ Disconnected(p)

(***************************************************************************)
(* The destructor: both sockets are closed, then the context waits until   *)
(* what the PUSH socket queued for its peers is on its way (the default    *)
(* linger is unlimited).                                                   *)
(***************************************************************************)
Close(p) ==
    /\ up[p] = "open"
    /\ up' = [up EXCEPT ![p] = "linger"]
    /\ peer' = [peer EXCEPT ![p] = Nobody]
    /\ outq' = [outq EXCEPT ![p] = << >>]
    /\ Disconnected(p)

LingerEnds(p) ==
    /\ up[p] = "linger"
    /\ \A q \in Process : peer[q] = p => outq[q] = << >>
    /\ up' = [up EXCEPT ![p] = "off"]
    /\ peer' = [q \in Process |-> IF peer[q] = p THEN Nobody ELSE peer[q]]
    /\ UNCHANGED <<partial, outq, inq>>

(* Seeded fault: the peers of a dead process keep what it had queued.      *)
VanishKeepsQueues(p) ==
    /\ up[p] # "off"
    /\ up' = [up EXCEPT ![p] = "off"]
    /\ peer' = [q \in Process |->
                  IF q = p \/ peer[q] = p THEN Nobody ELSE peer[q]]
    /\ outq' = [outq EXCEPT ![p] = << >>]
    /\ Disconnected(p)

(***************************************************************************)
(* The process ends without running the destructor: killed, or terminated  *)
(* by an exception nobody catches.  What it queued, out and in, is lost;   *)
(* its peers keep what already reached them.                               *)
(***************************************************************************)
Vanish(p) ==
    /\ up[p] # "off"
    /\ up' = [up EXCEPT ![p] = "off"]
    /\ peer' = [q \in Process |->
                  IF q = p \/ peer[q] = p THEN Nobody ELSE peer[q]]
    /\ outq' = [q \in Process |->
                  IF q = p \/ peer[q] = p THEN << >> ELSE outq[q]]
    /\ Disconnected(p)

-----------------------------------------------------------------------------
(***************************************************************************)
(* The two halves of a message go the same way: while the id part is out,  *)
(* its peer is still connected, or the rest of the message is dropped.     *)
(* A queue belongs to a connection, a connection to a live pipe at each    *)
(* end, and a pipe that is gone has none of them.  No two open pipes have  *)
(* bound one address.                                                      *)
(***************************************************************************)
OneBinder ==
    \A p, q \in Process :
        up[p] = "open" /\ up[q] = "open" /\ Outbound[p] = Outbound[q] => p = q

QueuesOfPeers ==
    \A p \in Process :
        /\ partial[p] # Nobody => up[p] = "open"
        /\ partial[p] \in Process => peer[partial[p]] = p
        /\ outq[p] # << >> => peer[p] # Nobody
        /\ inq[p] # << >> => up[p] = "open"
        /\ peer[p] # Nobody => /\ up[p] = "open"
                               /\ up[peer[p]] # "off"
                               /\ Outbound[peer[p]] = Incoming[p]

ConnectionsConsistent == QueuesOfPeers /\ OneBinder
=============================================================================
