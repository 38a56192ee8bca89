-------------------------- MODULE MCBrokerDelivery --------------------------
(* Broker with messages, clients that push, pull, acknowledge and exit; the  *)
(* persistence ring always has room.                                         *)
EXTENDS Broker, TLC

CONSTANTS m1, m2

MessageSeq    == m1 :> 0 @@ m2 :> 1
MessageLevel  == m1 :> 1 @@ m2 :> 2
MessageStored == m1 :> FALSE @@ m2 :> TRUE
MessageUrgent == m1 :> 0 @@ m2 :> 1
Levels == {0, 1}
TopicExchange == {[type |-> 3, durable |-> FALSE, autoDel |-> FALSE]}
PriorityQueue == {[priority |-> 1, durable |-> TRUE, autoDel |-> FALSE]}
KeyParts == [k \in Keys |-> <<"a", "#">>]
\* The ports are written and never read.
State == <<tables, acks, dedup, loop, clients, copies>>
=============================================================================
