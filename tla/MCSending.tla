------------------------------ MODULE MCSending ------------------------------
(* Lengths around the three boundaries of the encoding with Radix = 4: 4, 16, 64. *)
EXTENDS Sending

String(n) == [i \in 1..n |-> i % 8]

Publishes ==
  {[type |-> "PUBLISH", qos |-> qos, dup |-> 0, retain |-> qos, topic |-> String(t),
    id |-> 9 * qos, payload |-> String(n)] :
      qos \in {0, 1}, t \in {1, 9}, n \in 0..3 \union 8..14 \union 50..62}

Subscribes ==
  {[type |-> type, id |-> 17, topics |-> topics, qos |-> 1] :
      type \in {"SUBSCRIBE", "UNSUBSCRIBE"},
      topics \in {<<String(n)>> : n \in {1, 9, 10, 11, 12, 58, 59}} \union {<<String(3), String(4)>>}}

Connects ==
  {[type |-> "CONNECT", keepAlive |-> 30, clientID |-> String(c), will |-> will,
    username |-> username, password |-> password] :
      c \in {0, 1, 3, 4}, will \in {<<>>, <<String(2), String(5)>>},
      username \in {<<>>, <<String(3)>>}, password \in {<<>>, <<String(2)>>}}

Acks  == {[type |-> "PUBACK", dup |-> 0, id |-> id] : id \in {1, 8, 63}}
Zeros == {[type |-> type] : type \in {"PINGREQ", "DISCONNECT"}}

MCRequests == Publishes \union Subscribes \union Connects \union Acks \union Zeros
MCTxBufLens == {18, 19, 67, 68, 80}
MCGarbage  == {-1, 0, 4}
=============================================================================
