-------------------------- MODULE MCSenderReceiver --------------------------
(***************************************************************************)
(* Instances of SenderReceiver for TLC.  Two senders share one address, as *)
(* two executions of examples/sender.cpp do; receivers read from it.       *)
(***************************************************************************)
EXTENDS DeliveryOrder, WriteOnce, TLC

CONSTANTS s1, s2, r1, r2

MCSenders == {s1, s2}
OneReceiver == {r1}
TwoReceivers == {r1, r2}
MCProcess == Sender \cup Receiver

MCSocket == {"42042", "42043", "42044"}

(***************************************************************************)
(* examples/: the sender binds 42043 and the receiver connects to it; the  *)
(* addresses they leave alone are the default, which the receiver binds    *)
(* and the sender connects to without using it.                            *)
(***************************************************************************)
ExampleOutbound == [p \in Process |-> IF p \in Sender THEN "42043"
                                      ELSE IF p = r1 THEN "42042" ELSE "42044"]
ExampleIncoming == [p \in Process |-> IF p \in Sender THEN "42042" ELSE "42043"]

(* ZeroMQConfiguration{}: both addresses are the same for every pipe.      *)
DefaultSocket == [p \in Process |-> "42042"]

ASSUME ExampleIsExample ==
    Outbound = ExampleOutbound /\ Receiver = {r1} /\ ReadFields[r1] = WriteFields
        => ExampleSetup(r1)

(* Also where the receivers are generated from different schemas.          *)
ASSUME NamesAreSame == SameNames

MCPath == {"a", "b", "c"}
(* Fields are float or double values, or vectors of them.                  *)
Float == 4
Double == 8
(* examples/example_data.cdl: vectors of one float.                        *)
TwoFields == << [path |-> "a", width |-> Float, rank |-> 1],
                [path |-> "b", width |-> Float, rank |-> 1] >>
SameFields == [r \in Receiver |-> TwoFields]
OneElement == {1}

(***************************************************************************)
(* Schemas that differ in types: r2 takes the value of r1 for a vector of  *)
(* one element, and the vector of doubles for one of floats, which it can  *)
(* only read while it is empty.  r1 reads on behind a double it was sent.  *)
(***************************************************************************)
ValueAndVector == << [path |-> "a", width |-> Float, rank |-> 0],
                     [path |-> "b", width |-> Double, rank |-> 1] >>
MixedFields == [r \in Receiver |-> IF r = r2 THEN TwoFields ELSE ValueAndVector]
UpToOne == {0, 1}
=============================================================================
