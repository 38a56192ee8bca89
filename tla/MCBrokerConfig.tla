--------------------------- MODULE MCBrokerConfig ---------------------------
(* Broker without messages: exchanges, queues, bindings, subscriptions and  *)
(* clients that exit, with a persistence ring that may be full.             *)
EXTENDS Broker

NoMsgs == {}
Levels == {1}
DurableExchange == {[type |-> 2, durable |-> TRUE, autoDel |-> TRUE]}
TwoQueueKinds == {[priority |-> 0, durable |-> TRUE, autoDel |-> TRUE],
                  [priority |-> 0, durable |-> FALSE, autoDel |-> FALSE]}
KeyParts == [k \in Keys |-> <<"a">>]
Empty == EmptyMap

\* The ports are written, never read: without messages the rest is the state.
State == <<tables, loop, online, reconnects>>
=============================================================================
