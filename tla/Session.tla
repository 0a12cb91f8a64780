------------------------------- MODULE Session -------------------------------
(***************************************************************************)
(* Requests, acknowledgements and the table of message handlers, against   *)
(* the session that the broker keeps.  One thread; which request may start *)
(* inside which is the matter of MqttClient, here a callback may make the  *)
(* calls of CallbackCalls.  The read loops read the packets of the broker  *)
(* in order; a packet that nobody on top of the stack waits for is dropped.*)
(* The broker is modelled from how the client uses it: it processes the    *)
(* packets of a connection in order, answers each, and sends a message for *)
(* any topic of its session.                                               *)
(***************************************************************************)
EXTENDS Naturals, Sequences, SequencesExt

CONSTANTS
  Topics,         \* topic names, no wildcards
  NoTopic,        \* topicName == NULL
  NumHandlers,    \* AWS_IOT_MQTT_NUM_SUBSCRIBE_HANDLERS
  MaxPacketId,    \* MAX_PACKET_ID
  CleanSession,   \* isCleanSession
  LateAnswers,    \* may a command timer expire before an answer that is still on its way?
  MaxDepth,       \* bound: activations on the call stack
  MaxChannel,     \* bound: packets in flight in one direction
  AppCalls,       \* requests the application makes
  CallbackCalls   \* requests the message callbacks make

Requests == {"publish", "subscribe", "unsubscribe", "resubscribe"}

ASSUME SessionAssumption ==
  /\ NoTopic \notin Topics
  /\ NumHandlers \in Nat
  /\ MaxPacketId \in Nat \ {0}
  /\ CleanSession \in BOOLEAN
  /\ LateAnswers \in BOOLEAN
  /\ MaxDepth \in Nat
  /\ MaxChannel \in Nat
  /\ AppCalls \subseteq Requests
  /\ CallbackCalls \subseteq Requests \ {"resubscribe"}

VARIABLES
  connected,        \* is the client in one of the connected states?
  link,             \* does the connection carry packets?  The client need not know.
  nextPacketId,
  messageHandlers,  \* the topicName of every slot
  stack,            \* the activations, innermost last
  toBroker,         \* packets on their way to the broker ...
  toClient,         \* ... and to the client
  session,          \* the broker's subscriptions for this client
  processed         \* history: the packet identifiers whose latest request the broker processed

network == <<link, toBroker, toClient>>
vars    == <<connected, network, nextPacketId, messageHandlers, stack, session, processed>>

Slots == 1..NumHandlers
Ids   == 1..MaxPacketId

Packets == [type : {"SUBSCRIBE", "UNSUBSCRIBE", "PUBLISH", "SUBACK", "UNSUBACK", "PUBACK"},
            id : Ids \union {0}, topic : Topics \union {NoTopic}]

\* fn: the request, or the delivery of a message; index, count: the slot a subscribe will fill,
\* or the slot resubscribe is at and the slots it will visit; id: the packet sent last, 0 for none.
Frames == [fn : Requests \union {"deliver_message"},
           pc : {"send", "wait", "callback", "return"}, ok : BOOLEAN,
           topic : Topics \union {NoTopic}, index : 0..(NumHandlers + 1),
           count : 0..NumHandlers, id : Ids \union {0}]

NewFrame(fn, topic) ==
  [fn |-> fn, pc |-> "wait", ok |-> FALSE, topic |-> topic, index |-> 0, count |-> 0, id |-> 0]

Top       == Last(stack)
SetTop(f) == stack' = [stack EXCEPT ![Len(stack)] = f]

At(fns, pc) == stack # <<>> /\ Top.fn \in fns /\ Top.pc = pc

Subscribed == Range(messageHandlers) \ {NoTopic}

-----------------------------------------------------------------------------
(* Sending a request.                                                      *)

\* Mutant: the identifier is never wrapped.
NextPacketIdNoWrap == nextPacketId + 1

NextPacketId == IF nextPacketId = MaxPacketId THEN 1 ELSE nextPacketId + 1

\* NumHandlers + 1 when the table is full (slots are counted from 1 here).
FreeIndex ==
  IF NoTopic \in Range(messageHandlers)
  THEN CHOOSE i \in Slots : /\ messageHandlers[i] = NoTopic
                            /\ \A j \in 1..(i - 1) : messageHandlers[j] # NoTopic
  ELSE NumHandlers + 1

InFlight == {toBroker[i].id : i \in DOMAIN toBroker} \union {toClient[i].id : i \in DOMAIN toClient}

\* A new packet identifier is taken for the packet.  MAX_PACKET_ID identifiers outlast any
\* stack and anything in flight, and so the few of the model have to.
TakeId ==
  /\ NextPacketId \notin InFlight \union {stack[d].id : d \in DOMAIN stack}
  /\ nextPacketId' = NextPacketId
  /\ processed' = processed \ {NextPacketId}

\* aws_iot_mqtt_internal_send_packet succeeded: the packet travels if the connection still does.
Sent(type, topic) ==
  /\ Len(toBroker) < MaxChannel
  /\ toBroker' = IF link THEN Append(toBroker, [type |-> type, id |-> NextPacketId, topic |-> topic])
                 ELSE toBroker
  /\ UNCHANGED <<link, toClient>>

\* A request may start from the application's own code or inside a callback.
Admitted(fn) ==
  /\ connected
  /\ \/ stack = <<>> /\ fn \in AppCalls
     \/ At({"deliver_message"}, "callback") /\ fn \in CallbackCalls
  /\ Len(stack) < MaxDepth

\* The topic of a message does not matter here.  QoS 0 waits for nothing and is left out.
Publish ==
  /\ Admitted("publish")
  /\ TakeId
  /\ \/ /\ Sent("PUBLISH", NoTopic)
        /\ stack' = Append(stack, [NewFrame("publish", NoTopic) EXCEPT !.id = NextPacketId])
     \/ UNCHANGED <<network, stack>>                    \* the packet cannot be sent
  /\ UNCHANGED <<connected, messageHandlers, session>>

Subscribe(topic) ==
  /\ Admitted("subscribe")
  /\ TakeId
  /\ \/ /\ FreeIndex <= NumHandlers
        /\ Sent("SUBSCRIBE", topic)
        /\ stack' = Append(stack, [NewFrame("subscribe", topic) EXCEPT
                                     !.index = FreeIndex, !.id = NextPacketId])
     \/ UNCHANGED <<network, stack>>                    \* the table is full, or no packet is sent
  /\ UNCHANGED <<connected, messageHandlers, session>>

Unsubscribe(topic) ==
  /\ Admitted("unsubscribe")
  /\ topic \in Subscribed
  /\ TakeId
  /\ \/ /\ Sent("UNSUBSCRIBE", topic)
        /\ stack' = Append(stack, [NewFrame("unsubscribe", topic) EXCEPT !.id = NextPacketId])
     \/ UNCHANGED <<network, stack>>
  /\ UNCHANGED <<connected, messageHandlers, session>>

\* resubscribe is going to visit the slots before the first free one.
ResubscribeFrame ==
  [NewFrame("resubscribe", NoTopic) EXCEPT !.pc = "send", !.index = 1, !.count = FreeIndex - 1]

Resubscribe ==
  /\ Admitted("resubscribe")
  /\ stack' = <<ResubscribeFrame>>
  /\ UNCHANGED <<connected, network, nextPacketId, messageHandlers, session, processed>>

\* Mutant: the loop ends one slot early.
ResubscribeSendShort ==
  /\ At({"resubscribe"}, "send")
  /\ IF Top.index >= Top.count
     THEN /\ SetTop([Top EXCEPT !.pc = "return", !.ok = TRUE])
          /\ UNCHANGED <<network, nextPacketId, processed>>
     ELSE /\ TakeId
          /\ Sent("SUBSCRIBE", messageHandlers[Top.index])
          /\ SetTop([Top EXCEPT !.pc = "wait", !.id = NextPacketId])
  /\ UNCHANGED <<connected, messageHandlers, session>>

ResubscribeSend ==
  /\ At({"resubscribe"}, "send")
  /\ IF Top.index > Top.count
     THEN /\ SetTop([Top EXCEPT !.pc = "return", !.ok = TRUE])
          /\ UNCHANGED <<network, nextPacketId, processed>>
     ELSE /\ TakeId
          /\ \/ /\ Sent("SUBSCRIBE", messageHandlers[Top.index])
                /\ SetTop([Top EXCEPT !.pc = "wait", !.id = NextPacketId])
             \/ /\ SetTop([Top EXCEPT !.pc = "return"])
                /\ UNCHANGED network
  /\ UNCHANGED <<connected, messageHandlers, session>>

-----------------------------------------------------------------------------
(* aws_iot_mqtt_internal_wait_for_read: read packets until the awaited     *)
(* type comes.  The packet identifier of the answer is not compared.       *)

Awaited(fn) ==
  CASE fn \in {"subscribe", "resubscribe"} -> "SUBACK"
    [] fn = "unsubscribe"                  -> "UNSUBACK"
    [] OTHER                               -> "PUBACK"

\* The read loop takes a packet off the connection.
Read ==
  /\ toClient # <<>>
  /\ toClient' = Tail(toClient)
  /\ UNCHANGED <<connected, link, toBroker, nextPacketId, session, processed>>

ReceiveAck ==
  LET f == Top IN
  /\ At(Requests, "wait")
  /\ Read
  /\ Head(toClient).type = Awaited(f.fn)
  /\ SetTop(IF f.fn = "resubscribe" THEN [f EXCEPT !.pc = "send", !.index = @ + 1, !.id = 0]
            ELSE [f EXCEPT !.pc = "return", !.ok = TRUE])
  /\ messageHandlers' =
       CASE f.fn = "subscribe"   -> [messageHandlers EXCEPT ![f.index] = f.topic]
         [] f.fn = "unsubscribe" -> [i \in Slots |-> IF messageHandlers[i] = f.topic THEN NoTopic
                                                     ELSE messageHandlers[i]]
         [] OTHER                -> messageHandlers

\* Somebody else's acknowledgement, or a message without a handler, is read and forgotten.
\* An application that is not in a request reads in yield.  At the bound of the stack the
\* callback of a message makes no calls.
ReceiveOther ==
  /\ Read
  /\ \/ stack = <<>>
     \/ At(Requests, "wait") /\ Head(toClient).type # Awaited(Top.fn)
  /\ Head(toClient).type = "PUBLISH" => Len(stack) = MaxDepth \/ Head(toClient).topic \notin Subscribed
  /\ UNCHANGED <<messageHandlers, stack>>

\* A message with a handler: its callback runs on top of the request (or of yield).
DeliverMessage ==
  /\ stack = <<>> \/ At(Requests, "wait")
  /\ Len(stack) < MaxDepth
  /\ Read
  /\ Head(toClient).type = "PUBLISH"
  /\ Head(toClient).topic \in Subscribed
  /\ stack' = Append(stack, [NewFrame("deliver_message", Head(toClient).topic) EXCEPT !.pc = "callback"])
  /\ UNCHANGED messageHandlers

\* The answer to the packet with this identifier may still come.
Answerable(id) == link /\ id \in InFlight

\* Mutant: a request that timed out returns success.
WaitTimeoutIgnored ==
  /\ At(Requests, "wait")
  /\ LateAnswers \/ ~Answerable(Top.id)
  /\ SetTop([Top EXCEPT !.pc = "return", !.ok = TRUE])
  /\ UNCHANGED <<connected, network, nextPacketId, messageHandlers, session, processed>>

\* Mutant: after a timeout resubscribe goes on with the next slot.
WaitTimeoutGoesOn ==
  /\ At(Requests, "wait")
  /\ LateAnswers \/ ~Answerable(Top.id)
  /\ SetTop(IF Top.fn = "resubscribe" THEN [Top EXCEPT !.pc = "send", !.index = @ + 1, !.id = 0]
            ELSE [Top EXCEPT !.pc = "return"])
  /\ UNCHANGED <<connected, network, nextPacketId, messageHandlers, session, processed>>

WaitTimeout ==
  /\ At(Requests, "wait")
  /\ LateAnswers \/ ~Answerable(Top.id)
  /\ SetTop([Top EXCEPT !.pc = "return"])
  /\ UNCHANGED <<connected, network, nextPacketId, messageHandlers, session, processed>>

\* A callback is done, or a request returns to its caller.
Return ==
  /\ At({"deliver_message"}, "callback") \/ At(Requests, "return")
  /\ stack' = Front(stack)
  /\ UNCHANGED <<connected, network, nextPacketId, messageHandlers, session, processed>>

-----------------------------------------------------------------------------
(* The connection.                                                         *)

\* The connection dies; the client finds out by its keep-alive, later.
LinkDown ==
  /\ link
  /\ link' = FALSE
  /\ toBroker' = <<>>
  /\ toClient' = <<>>
  /\ UNCHANGED <<connected, nextPacketId, messageHandlers, stack, session, processed>>

\* yield finds the connection lost, or the application disconnects.
Disconnect ==
  /\ connected
  /\ stack = <<>>
  /\ connected' = FALSE
  /\ link' = FALSE
  /\ toBroker' = <<>>
  /\ toClient' = <<>>
  /\ UNCHANGED <<nextPacketId, messageHandlers, stack, session, processed>>

\* connect builds a new connection, on which the broker has a new or the old session.  The
\* table of handlers is left alone.
Connect ==
  /\ ~connected
  /\ connected' = TRUE
  /\ link' = TRUE
  /\ session' = IF CleanSession THEN {} ELSE session
  /\ UNCHANGED <<toBroker, toClient, nextPacketId, messageHandlers, processed>>

\* aws_iot_mqtt_connect, or aws_iot_mqtt_attempt_reconnect, which goes on with resubscribe.
ConnectOnly == Connect /\ stack' = stack
Reconnect   == Connect /\ stack' = <<ResubscribeFrame>>

-----------------------------------------------------------------------------
(* The broker.                                                             *)

BrokerAnswer ==
  LET p == Head(toBroker) IN
  /\ toBroker # <<>>
  /\ Len(toClient) < MaxChannel
  /\ toBroker' = Tail(toBroker)
  /\ toClient' = Append(toClient,
       [type |-> CASE p.type = "SUBSCRIBE"   -> "SUBACK"
                   [] p.type = "UNSUBSCRIBE" -> "UNSUBACK"
                   [] OTHER                  -> "PUBACK",
        id |-> p.id, topic |-> NoTopic])
  /\ session' = CASE p.type = "SUBSCRIBE"   -> session \union {p.topic}
                  [] p.type = "UNSUBSCRIBE" -> session \ {p.topic}
                  [] OTHER                  -> session
  /\ processed' = processed \union {p.id}
  /\ UNCHANGED <<connected, link, nextPacketId, messageHandlers, stack>>

BrokerPublish(topic) ==
  /\ link
  /\ topic \in session
  /\ Len(toClient) < MaxChannel
  /\ toClient' = Append(toClient, [type |-> "PUBLISH", id |-> 0, topic |-> topic])
  /\ UNCHANGED <<connected, link, toBroker, nextPacketId, messageHandlers, stack, session, processed>>

-----------------------------------------------------------------------------

Init ==
  /\ connected = FALSE
  /\ link = FALSE
  /\ nextPacketId = 1
  /\ messageHandlers = [i \in Slots |-> NoTopic]
  /\ stack = <<>>
  /\ toBroker = <<>>
  /\ toClient = <<>>
  /\ session = {}
  /\ processed = {}

Next ==
  \/ Publish \/ Resubscribe \/ ResubscribeSend
  \/ \E topic \in Topics : Subscribe(topic) \/ Unsubscribe(topic) \/ BrokerPublish(topic)
  \/ ReceiveAck \/ ReceiveOther \/ DeliverMessage \/ WaitTimeout \/ Return
  \/ LinkDown \/ Disconnect \/ ConnectOnly \/ Reconnect
  \/ BrokerAnswer

Spec == Init /\ [][Next]_vars

-----------------------------------------------------------------------------
(* Properties.                                                             *)

\* Every variable has its type.
TypeOK ==
  /\ connected \in BOOLEAN
  /\ link \in BOOLEAN
  /\ nextPacketId \in Ids
  /\ messageHandlers \in [Slots -> Topics \union {NoTopic}]
  /\ stack \in Seq(Frames)
  /\ toBroker \in Seq(Packets)
  /\ toClient \in Seq(Packets)
  /\ session \subseteq Topics
  /\ processed \subseteq Ids

\* A request that returns success has been processed by the broker: "the function returns
\* after the receipt of the PUBACK control packet" (aws_iot_mqtt_publish; the same is said of
\* SUBACK and UNSUBACK).
AcksAnswer ==
  At(Requests \ {"resubscribe"}, "return") /\ Top.ok => Top.id \in processed

\* The broker has the topic in its session, or will as soon as it has read what is in flight.
Covered(topic) ==
  LET touching == {i \in DOMAIN toBroker : toBroker[i].topic = topic} IN
  IF touching = {} THEN topic \in session
  ELSE \E i \in touching : /\ toBroker[i].type = "SUBSCRIBE"
                           /\ \A j \in touching : j <= i

\* resubscribe that succeeds on a live connection has restored "the topics that the client has
\* active subscriptions on" (aws_iot_mqtt_resubscribe).
ResubscribeRestores ==
  At({"resubscribe"}, "return") /\ Top.ok /\ link => \A topic \in Subscribed : Covered(topic)

\* The same, when no slot before an occupied one is free.
ResubscribeRestoresPacked ==
  (\A i, j \in Slots : i < j /\ messageHandlers[i] = NoTopic => messageHandlers[j] = NoTopic) =>
    ResubscribeRestores

\* A subscription that succeeded keeps its handler until it is unsubscribed from: "allow for
\* subscribing to MQTT topics which will call a configurable callback function when these topics
\* are received" (README).
HandlersKept ==
  [][\A i \in Slots : messageHandlers[i] # NoTopic =>
                         messageHandlers'[i] \in {messageHandlers[i], NoTopic}]_vars

\* resubscribe never sends the topic name of an empty slot, a null pointer: although a callback
\* may unsubscribe from a topic that the loop has yet to come to, the unsubscribe has then read,
\* and dropped, the SUBACK that the loop waits for, and the loop gives up.
ResubscribeNotNull ==
  At({"resubscribe"}, "send") => \A i \in Top.index..Top.count : messageHandlers[i] # NoTopic
=============================================================================
