---------------------------- MODULE SessionProofs ----------------------------
(***************************************************************************)
(* What requests and the table of handlers guarantee, for every set of     *)
(* topics, size of the table, number of packet identifiers, length of the  *)
(* channels and depth of the stack.                                        *)
(***************************************************************************)
EXTENDS Session, SequenceTheorems, WellFoundedInduction, TLAPS

\* What a client sends: a request, with the identifier that it took.
RequestPackets ==
  {p \in Packets : /\ p.type \in {"SUBSCRIBE", "UNSUBSCRIBE", "PUBLISH"}
                   /\ p.type = "PUBLISH" => p.topic = NoTopic
                   /\ p.id \in Ids}

\* The types without the session, which depends on what the callbacks do.
TypeInv ==
  /\ connected \in BOOLEAN
  /\ link \in BOOLEAN
  /\ nextPacketId \in Ids
  /\ messageHandlers \in [Slots -> Topics \union {NoTopic}]
  /\ stack \in Seq(Frames)
  /\ toBroker \in Seq(RequestPackets)
  /\ toClient \in Seq(Packets)
  /\ processed \subseteq Ids

\* A request knows its topic and its slots.
FrameOK(f) ==
  /\ f.fn = "deliver_message" <=> f.pc = "callback"
  /\ f.pc = "send" => f.fn = "resubscribe"
  /\ f.ok => f.pc = "return"
  /\ f.fn \in {"subscribe", "unsubscribe"} => f.topic \in Topics
  /\ f.fn = "subscribe" => f.index \in Slots
  /\ f.fn = "resubscribe" => /\ f.index \in 1..(f.count + 1)
                             /\ f.pc = "wait" => f.index <= f.count

\* Only the outermost activation may be a call of the application, and only the innermost one
\* may have to send or to return.
FrameInv ==
  \A d \in 1..Len(stack) :
    /\ d = 1 \/ stack[d].fn \in CallbackCalls \union {"deliver_message"}
    /\ d = Len(stack) \/ stack[d].pc \in {"wait", "callback"}
    /\ FrameOK(stack[d])

-----------------------------------------------------------------------------
(* The stack, the channels and the table.                                  *)

\* A call pushes one activation.
LEMMA Pushed ==
  ASSUME stack \in Seq(Frames), NEW f \in Frames, stack' = Append(stack, f)
  PROVE  /\ stack' \in Seq(Frames) /\ Len(stack) \in Nat /\ Len(stack') = Len(stack) + 1
         /\ \A d \in 1..Len(stack) : stack'[d] = stack[d]
         /\ stack'[Len(stack) + 1] = f
OBVIOUS

\* Only the innermost activation changes.
LEMMA TopSet ==
  ASSUME stack \in Seq(Frames), stack # <<>>, NEW f \in Frames, SetTop(f)
  PROVE  /\ stack' \in Seq(Frames) /\ Len(stack) \in Nat \ {0} /\ Len(stack') = Len(stack)
         /\ \A d \in 1..Len(stack) : d # Len(stack) => stack'[d] = stack[d]
         /\ stack'[Len(stack)] = f
BY DEF SetTop

\* A return pops one activation.
LEMMA Popped ==
  ASSUME stack \in Seq(Frames), stack # <<>>, stack' = Front(stack)
  PROVE  /\ stack' \in Seq(Frames) /\ Len(stack) \in Nat \ {0} /\ Len(stack') = Len(stack) - 1
         /\ \A d \in 1..(Len(stack) - 1) : stack'[d] = stack[d]
<1>1. stack' = SubSeq(stack, 1, Len(stack) - 1) /\ Len(stack) \in Nat \ {0}
  BY DEF Front
<1>2. \A d \in 1..(Len(stack) - 1) : stack[d] \in Frames
  BY <1>1
<1>3. /\ stack' \in Seq(Frames)
      /\ Len(stack') = IF 1 <= Len(stack) - 1 THEN Len(stack) - 1 ELSE 0
      /\ \A d \in 1..(Len(stack) - 1) : stack'[d] = stack[1 + d - 1]
  <2> DEFINE n == Len(stack) - 1
  <2>1. n \in Int /\ 1 \in Int /\ (n - 1) + 1 = n
    BY <1>1
  <2>2. \A d \in 1..n : stack[d] \in Frames
    BY <1>2
  <2>3. stack' = SubSeq(stack, 1, n)
    BY <1>1
  <2> HIDE DEF n
  <2>4. /\ SubSeq(stack, 1, n) \in Seq(Frames)
        /\ Len(SubSeq(stack, 1, n)) = IF 1 <= n THEN n - 1 + 1 ELSE 0
        /\ \A i \in 1..(n - 1 + 1) : SubSeq(stack, 1, n)[i] = stack[1 + i - 1]
    BY <2>1, <2>2, SubSeqProperties
  <2>5. /\ stack' \in Seq(Frames)
        /\ Len(stack') = IF 1 <= n THEN n ELSE 0
        /\ \A i \in 1..n : stack'[i] = stack[1 + i - 1]
    BY <2>1, <2>3, <2>4
  <2> QED BY <2>5 DEF n
<1>4. \A d \in 1..(Len(stack) - 1) : 1 + d - 1 = d
  BY <1>1
<1>5. \A d \in 1..(Len(stack) - 1) : stack'[d] = stack[d]
  BY <1>3, <1>4
<1>6. Len(stack') = Len(stack) - 1
  <2>1. PICK n \in Nat \ {0} : n = Len(stack)
    BY <1>1
  <2>2. (IF 1 <= n - 1 THEN n - 1 ELSE 0) = n - 1
    OBVIOUS
  <2> QED BY <1>3, <2>1, <2>2
<1> QED BY <1>1, <1>3, <1>5, <1>6

\* The innermost activation.
LEMMA TopType ==
  ASSUME stack \in Seq(Frames), stack # <<>>
  PROVE  Len(stack) \in Nat \ {0} /\ Top = stack[Len(stack)] /\ Top \in Frames
BY DEF Top, Last

\* A stack of one activation.
LEMMA Single ==
  ASSUME NEW f \in Frames, stack' = <<f>>
  PROVE  stack' \in Seq(Frames) /\ Len(stack') = 1 /\ stack'[1] = f
OBVIOUS

\* A packet is sent: at the end of a channel that is alive.
LEMMA Appended ==
  ASSUME NEW P, NEW channel \in Seq(P), NEW p \in P
  PROVE  /\ Append(channel, p) \in Seq(P)
         /\ Len(channel) \in Nat /\ Len(Append(channel, p)) = Len(channel) + 1
         /\ \A i \in 1..Len(channel) : Append(channel, p)[i] = channel[i]
         /\ Append(channel, p)[Len(channel) + 1] = p
OBVIOUS

\* A packet is taken off a channel.
LEMMA Taken ==
  ASSUME NEW P, NEW channel \in Seq(P), channel # <<>>
  PROVE  /\ Tail(channel) \in Seq(P) /\ Head(channel) = channel[1] /\ Head(channel) \in P
         /\ Len(channel) \in Nat \ {0} /\ Len(Tail(channel)) = Len(channel) - 1
         /\ \A i \in 1..(Len(channel) - 1) : Tail(channel)[i] = channel[i + 1]
OBVIOUS

\* Every set of numbers that is not empty has a least element.
LEMMA LeastElement ==
  ASSUME NEW T, T \subseteq Nat, T # {}
  PROVE  \E x \in T : \A y \in T : x <= y
<1> DEFINE R == OpToRel(<, Nat)
<1>1. \A x, y \in Nat : y < x => <<y, x>> \in R
  BY DEF OpToRel
<1>2. IsWellFoundedOn(R, Nat)
  BY NatLessThanWellFounded
<1> HIDE DEF R
<1>3. \E x \in T : \A y \in T : <<y, x>> \notin R
  BY <1>2, WFMin
<1>4. \E x \in T : \A y \in T : ~(y < x)
  BY <1>1, <1>3
<1> QED BY <1>4

\* The first free slot is free, and all before it are taken.
LEMMA FreeIndexFree ==
  ASSUME messageHandlers \in [Slots -> Topics \union {NoTopic}]
  PROVE  /\ FreeIndex \in 1..(NumHandlers + 1)
         /\ FreeIndex <= NumHandlers => FreeIndex \in Slots /\ messageHandlers[FreeIndex] = NoTopic
         /\ \A j \in 1..(FreeIndex - 1) : j \in Slots /\ messageHandlers[j] # NoTopic
<1>0. NumHandlers \in Nat
  BY SessionAssumption
<1> DEFINE First(i) == /\ messageHandlers[i] = NoTopic
                       /\ \A j \in 1..(i - 1) : messageHandlers[j] # NoTopic
<1>1. CASE NoTopic \in Range(messageHandlers)
  <2>1. \E i \in Slots : First(i)
    <3> DEFINE T == {i \in Slots : messageHandlers[i] = NoTopic}
    <3>1. T \subseteq Nat /\ T # {}
      BY <1>0, <1>1 DEF Range, Slots
    <3>2. PICK i \in T : \A j \in T : i <= j
      <4> HIDE DEF T
      <4> QED BY <3>1, LeastElement
    <3>3. ASSUME NEW j \in 1..(i - 1) PROVE messageHandlers[j] # NoTopic
      BY <1>0, <3>2 DEF Slots
    <3> QED BY <3>2, <3>3
  <2>2. FreeIndex = CHOOSE i \in Slots : First(i)
    BY <1>1 DEF FreeIndex
  <2>3. FreeIndex \in Slots /\ First(FreeIndex)
    <3> HIDE DEF First
    <3> QED BY <2>1, <2>2
  <2> QED BY <1>0, <2>3 DEF Slots
<1>2. CASE NoTopic \notin Range(messageHandlers)
  <2>1. FreeIndex = NumHandlers + 1
    BY <1>2 DEF FreeIndex
  <2>2. \A j \in Slots : messageHandlers[j] # NoTopic
    BY <1>2 DEF Range
  <2> QED BY <1>0, <2>1, <2>2 DEF Slots
<1> QED BY <1>1, <1>2

\* New activations have their type.
LEMMA FrameTypes ==
  ASSUME NEW fn \in Requests \union {"deliver_message"}, NEW topic \in Topics \union {NoTopic}
  PROVE  NewFrame(fn, topic) \in Frames
BY SessionAssumption DEF NewFrame, Frames

\* The identifier of the next packet.
LEMMA NextPacketIdType ==
  ASSUME nextPacketId \in Ids
  PROVE  NextPacketId \in Ids /\ NextPacketId # 0
BY SessionAssumption DEF NextPacketId, Ids

-----------------------------------------------------------------------------
(* Types and activations.                                                  *)

\* A call that may be made here keeps the stack in order.
LEMMA PushKeeps ==
  ASSUME TypeInv, FrameInv, NEW f \in Frames, FrameOK(f), stack' = Append(stack, f),
         \/ stack = <<>>
         \/ Top.pc \in {"wait", "callback"} /\ f.fn \in CallbackCalls \union {"deliver_message"}
  PROVE  stack' \in Seq(Frames) /\ FrameInv'
<1>0. stack \in Seq(Frames)
  BY DEF TypeInv
<1>1. /\ stack' \in Seq(Frames) /\ Len(stack) \in Nat /\ Len(stack') = Len(stack) + 1
      /\ \A d \in 1..Len(stack) : stack'[d] = stack[d]
      /\ stack'[Len(stack) + 1] = f
  BY <1>0, Pushed
<1>2. ASSUME NEW d \in 1..Len(stack')
      PROVE  /\ d = 1 \/ stack'[d].fn \in CallbackCalls \union {"deliver_message"}
             /\ d = Len(stack') \/ stack'[d].pc \in {"wait", "callback"}
             /\ FrameOK(stack'[d])
  <2>1. CASE d = Len(stack) + 1
    <3>1. stack = <<>> => d = 1
      BY <2>1
    <3> QED BY <1>1, <2>1, <3>1
  <2>2. CASE d = Len(stack) /\ d # Len(stack) + 1
    <3>1. d \in 1..Len(stack) /\ stack # <<>>
      BY <1>0, <1>1, <2>2
    <3>2. stack'[d] = Top
      BY <1>0, <1>1, <2>2, <3>1, TopType
    <3> QED BY <1>1, <2>2, <3>1, <3>2 DEF FrameInv
  <2>3. CASE d \in 1..Len(stack) /\ d # Len(stack)
    BY <1>1, <2>3 DEF FrameInv
  <2> QED BY <1>1, <2>1, <2>2, <2>3
<1>3. FrameInv'
  BY <1>2 DEF FrameInv, FrameOK
<1> QED BY <1>1, <1>3

\* The innermost activation moves on.
LEMMA TopKeeps ==
  ASSUME TypeInv, FrameInv, stack # <<>>, NEW f \in Frames, FrameOK(f), f.fn = Top.fn, SetTop(f)
  PROVE  stack' \in Seq(Frames) /\ FrameInv'
<1>0. stack \in Seq(Frames)
  BY DEF TypeInv
<1>1. /\ stack' \in Seq(Frames) /\ Len(stack) \in Nat \ {0} /\ Len(stack') = Len(stack)
      /\ \A d \in 1..Len(stack) : d # Len(stack) => stack'[d] = stack[d]
      /\ stack'[Len(stack)] = f
  BY <1>0, TopSet
<1>2. ASSUME NEW d \in 1..Len(stack')
      PROVE  /\ d = 1 \/ stack'[d].fn \in CallbackCalls \union {"deliver_message"}
             /\ d = Len(stack') \/ stack'[d].pc \in {"wait", "callback"}
             /\ FrameOK(stack'[d])
  <2>1. CASE d = Len(stack)
    <3>1. stack'[d].fn = stack[d].fn
      BY <1>0, <1>1, <2>1, TopType
    <3>2. d = 1 \/ stack[d].fn \in CallbackCalls \union {"deliver_message"}
      BY <1>1, <2>1 DEF FrameInv
    <3> QED BY <1>1, <2>1, <3>1, <3>2
  <2>2. CASE d # Len(stack)
    BY <1>1, <2>2 DEF FrameInv
  <2> QED BY <2>1, <2>2
<1>3. FrameInv'
  BY <1>2 DEF FrameInv, FrameOK
<1> QED BY <1>1, <1>3

\* The innermost activation returns.
LEMMA PopKeeps ==
  ASSUME TypeInv, FrameInv, stack # <<>>, stack' = Front(stack)
  PROVE  stack' \in Seq(Frames) /\ FrameInv'
<1>0. stack \in Seq(Frames)
  BY DEF TypeInv
<1>1. /\ stack' \in Seq(Frames) /\ Len(stack) \in Nat \ {0} /\ Len(stack') = Len(stack) - 1
      /\ \A d \in 1..(Len(stack) - 1) : stack'[d] = stack[d]
  BY <1>0, Popped
<1>2. ASSUME NEW d \in 1..Len(stack')
      PROVE  /\ d = 1 \/ stack'[d].fn \in CallbackCalls \union {"deliver_message"}
             /\ d = Len(stack') \/ stack'[d].pc \in {"wait", "callback"}
             /\ FrameOK(stack'[d])
  <2>1. d \in 1..Len(stack) /\ d # Len(stack) /\ stack'[d] = stack[d]
    BY <1>1
  <2> QED BY <2>1 DEF FrameInv
<1>3. FrameInv'
  BY <1>2 DEF FrameInv, FrameOK
<1> QED BY <1>1, <1>3

\* What a request has done when it waits for its answer.
LEMMA SentKeeps ==
  ASSUME TypeInv, NEW type \in {"SUBSCRIBE", "UNSUBSCRIBE", "PUBLISH"},
         NEW topic \in Topics \union {NoTopic}, type = "PUBLISH" => topic = NoTopic, Sent(type, topic)
  PROVE  /\ toBroker' \in Seq(RequestPackets) /\ link' = link /\ toClient' = toClient
         /\ [type |-> type, id |-> NextPacketId, topic |-> topic] \in RequestPackets
<1>1. [type |-> type, id |-> NextPacketId, topic |-> topic] \in RequestPackets
  BY NextPacketIdType DEF RequestPackets, Packets, TypeInv
<1>2. toBroker \in Seq(RequestPackets)
  BY DEF TypeInv
<1>3. toBroker' \in Seq(RequestPackets)
  <2> DEFINE p == [type |-> type, id |-> NextPacketId, topic |-> topic]
  <2> HIDE DEF p
  <2>1. p \in RequestPackets
    BY <1>1 DEF p
  <2>2. Append(toBroker, p) \in Seq(RequestPackets)
    BY <1>2, <2>1
  <2>3. toBroker' = Append(toBroker, p) \/ toBroker' = toBroker
    BY DEF Sent, p
  <2> QED BY <1>2, <2>2, <2>3
<1> QED BY <1>1, <1>3 DEF Sent

\* A new packet identifier is one.
LEMMA TakeIdKeeps ==
  ASSUME TypeInv, TakeId
  PROVE  nextPacketId' \in Ids /\ processed' \subseteq Ids /\ NextPacketId \in Ids
BY NextPacketIdType DEF TakeId, TypeInv

\* The frames of the calls.
LEMMA CallFrames ==
  ASSUME TypeInv
  PROVE  /\ [NewFrame("publish", NoTopic) EXCEPT !.id = NextPacketId] \in Frames
         /\ FrameOK([NewFrame("publish", NoTopic) EXCEPT !.id = NextPacketId])
         /\ \A topic \in Topics :
              /\ [NewFrame("unsubscribe", topic) EXCEPT !.id = NextPacketId] \in Frames
              /\ FrameOK([NewFrame("unsubscribe", topic) EXCEPT !.id = NextPacketId])
              /\ FreeIndex <= NumHandlers =>
                   /\ [NewFrame("subscribe", topic) EXCEPT !.index = FreeIndex, !.id = NextPacketId]
                        \in Frames
                   /\ FrameOK([NewFrame("subscribe", topic) EXCEPT !.index = FreeIndex, !.id = NextPacketId])
              /\ [NewFrame("deliver_message", topic) EXCEPT !.pc = "callback"] \in Frames
              /\ FrameOK([NewFrame("deliver_message", topic) EXCEPT !.pc = "callback"])
         /\ ResubscribeFrame \in Frames /\ FrameOK(ResubscribeFrame)
<1>1. /\ NextPacketId \in Ids /\ NumHandlers \in Nat
      /\ FreeIndex \in 1..(NumHandlers + 1)
      /\ FreeIndex <= NumHandlers => FreeIndex \in Slots
  BY NextPacketIdType, FreeIndexFree, SessionAssumption DEF TypeInv
<1>2. 0 \in 0..(NumHandlers + 1) /\ 0 \in 0..NumHandlers /\ 0 \in Ids \union {0} /\ NextPacketId \in Ids \union {0}
  BY <1>1
<1>3. ASSUME NEW fn \in Requests \union {"deliver_message"}, NEW topic \in Topics \union {NoTopic}
      PROVE  NewFrame(fn, topic) \in Frames
  BY FrameTypes
<1>4. /\ [NewFrame("publish", NoTopic) EXCEPT !.id = NextPacketId] \in Frames
      /\ FrameOK([NewFrame("publish", NoTopic) EXCEPT !.id = NextPacketId])
  <2>1. [NewFrame("publish", NoTopic) EXCEPT !.id = NextPacketId] \in Frames
    BY <1>2, <1>3 DEF Frames, Requests
  <2>2. FrameOK([NewFrame("publish", NoTopic) EXCEPT !.id = NextPacketId])
    BY DEF FrameOK, NewFrame
  <2> QED BY <2>1, <2>2
<1>5. ASSUME NEW topic \in Topics
      PROVE  /\ [NewFrame("unsubscribe", topic) EXCEPT !.id = NextPacketId] \in Frames
             /\ FrameOK([NewFrame("unsubscribe", topic) EXCEPT !.id = NextPacketId])
  <2>1. [NewFrame("unsubscribe", topic) EXCEPT !.id = NextPacketId] \in Frames
    BY <1>2, <1>3 DEF Frames, Requests
  <2>2. FrameOK([NewFrame("unsubscribe", topic) EXCEPT !.id = NextPacketId])
    BY DEF FrameOK, NewFrame
  <2> QED BY <2>1, <2>2
<1>6. ASSUME NEW topic \in Topics, FreeIndex <= NumHandlers
      PROVE  /\ [NewFrame("subscribe", topic) EXCEPT !.index = FreeIndex, !.id = NextPacketId] \in Frames
             /\ FrameOK([NewFrame("subscribe", topic) EXCEPT !.index = FreeIndex, !.id = NextPacketId])
  <2>1. FreeIndex \in 0..(NumHandlers + 1) /\ FreeIndex \in Slots
    BY <1>1, <1>6
  <2>2. [NewFrame("subscribe", topic) EXCEPT !.index = FreeIndex, !.id = NextPacketId] \in Frames
    BY <1>2, <2>1 DEF NewFrame, Frames, Requests
  <2>3. FrameOK([NewFrame("subscribe", topic) EXCEPT !.index = FreeIndex, !.id = NextPacketId])
    <3> DEFINE f == [NewFrame("subscribe", topic) EXCEPT !.index = FreeIndex, !.id = NextPacketId]
    <3>1. f.fn = "subscribe" /\ f.pc = "wait" /\ f.topic = topic /\ f.index = FreeIndex /\ ~f.ok
      BY DEF NewFrame
    <3> HIDE DEF f
    <3>2. FrameOK(f)
      BY <2>1, <3>1 DEF FrameOK
    <3> QED BY <3>2 DEF f
  <2> QED BY <2>2, <2>3
<1>7. ASSUME NEW topic \in Topics
      PROVE  /\ [NewFrame("deliver_message", topic) EXCEPT !.pc = "callback"] \in Frames
             /\ FrameOK([NewFrame("deliver_message", topic) EXCEPT !.pc = "callback"])
  <2>1. [NewFrame("deliver_message", topic) EXCEPT !.pc = "callback"] \in Frames
    BY <1>3 DEF Frames
  <2>2. FrameOK([NewFrame("deliver_message", topic) EXCEPT !.pc = "callback"])
    BY DEF FrameOK, NewFrame
  <2> QED BY <2>1, <2>2
<1>8. ResubscribeFrame \in Frames /\ FrameOK(ResubscribeFrame)
  <2>1. 1 \in 0..(NumHandlers + 1) /\ FreeIndex - 1 \in 0..NumHandlers /\ 1 \in 1..((FreeIndex - 1) + 1)
    BY <1>1
  <2>2. ResubscribeFrame \in Frames
    BY <1>2, <2>1 DEF NewFrame, Frames, Requests, ResubscribeFrame
  <2>3. FrameOK(ResubscribeFrame)
    <3>1. /\ ResubscribeFrame.fn = "resubscribe" /\ ResubscribeFrame.pc = "send"
          /\ ResubscribeFrame.index = 1 /\ ResubscribeFrame.count = FreeIndex - 1 /\ ~ResubscribeFrame.ok
      BY DEF ResubscribeFrame, NewFrame
    <3> QED BY <2>1, <3>1 DEF FrameOK
  <2> QED BY <2>2, <2>3
<1> QED BY <1>4, <1>5, <1>6, <1>7, <1>8

\* Who may make a call.
LEMMA AdmittedCases ==
  ASSUME NEW fn, Admitted(fn)
  PROVE  /\ connected
         /\ \/ stack = <<>> /\ fn \in AppCalls
            \/ stack # <<>> /\ Top.fn = "deliver_message" /\ Top.pc = "callback" /\ fn \in CallbackCalls
BY DEF Admitted, At

\* What becomes of a request that has its answer.
AckFrame(f) ==
  IF f.fn = "resubscribe" THEN [f EXCEPT !.pc = "send", !.index = @ + 1, !.id = 0]
  ELSE [f EXCEPT !.pc = "return", !.ok = TRUE]

\* It keeps its type and its slots.
LEMMA AckFrameKeeps ==
  ASSUME NEW f \in Frames, FrameOK(f), f.pc = "wait"
  PROVE  AckFrame(f) \in Frames /\ FrameOK(AckFrame(f)) /\ AckFrame(f).fn = f.fn
<1>0. NumHandlers \in Nat /\ f.index \in Nat /\ f.count \in 0..NumHandlers
  BY SessionAssumption DEF Frames
<1>1. CASE f.fn = "resubscribe"
  <2> DEFINE g == [f EXCEPT !.pc = "send", !.index = f.index + 1, !.id = 0]
  <2>1. AckFrame(f) = g
    BY <1>1 DEF AckFrame
  <2>2. f.index \in 1..f.count /\ f.index + 1 \in 0..(NumHandlers + 1) /\ f.index + 1 \in 1..(f.count + 1)
    BY <1>0, <1>1 DEF FrameOK
  <2>3. g \in Frames
    BY <2>2 DEF Frames
  <2>4. g.fn = f.fn /\ g.pc = "send" /\ g.index = f.index + 1 /\ g.count = f.count /\ g.ok = f.ok
    BY DEF Frames
  <2> HIDE DEF g
  <2>5. FrameOK(g)
    BY <1>1, <2>2, <2>4 DEF FrameOK
  <2> QED BY <2>1, <2>3, <2>4, <2>5
<1>2. CASE f.fn # "resubscribe"
  <2> DEFINE g == [f EXCEPT !.pc = "return", !.ok = TRUE]
  <2>1. AckFrame(f) = g
    BY <1>2 DEF AckFrame
  <2>2. g \in Frames
    BY DEF Frames
  <2>3. g.fn = f.fn /\ g.pc = "return" /\ g.index = f.index /\ g.topic = f.topic
    BY DEF Frames
  <2> HIDE DEF g
  <2>4. FrameOK(g)
    BY <1>2, <2>3 DEF FrameOK
  <2> QED BY <2>1, <2>2, <2>3, <2>4
<1> QED BY <1>1, <1>2

\* The frames of a resubscribe that sends, or gives up, and of a request that times out.
LEMMA MovedFrames ==
  ASSUME NEW f \in Frames, FrameOK(f), f.fn # "deliver_message", NEW id \in Ids
  PROVE  /\ [f EXCEPT !.pc = "return"] \in Frames /\ FrameOK([f EXCEPT !.pc = "return"])
         /\ [f EXCEPT !.pc = "return"].fn = f.fn
         /\ [f EXCEPT !.pc = "return", !.ok = TRUE] \in Frames
         /\ FrameOK([f EXCEPT !.pc = "return", !.ok = TRUE])
         /\ [f EXCEPT !.pc = "return", !.ok = TRUE].fn = f.fn
         /\ f.fn = "resubscribe" /\ f.pc = "send" /\ f.index <= f.count =>
              /\ [f EXCEPT !.pc = "wait", !.id = id] \in Frames
              /\ FrameOK([f EXCEPT !.pc = "wait", !.id = id])
              /\ [f EXCEPT !.pc = "wait", !.id = id].fn = f.fn
<1>1. [f EXCEPT !.pc = "return"] \in Frames /\ FrameOK([f EXCEPT !.pc = "return"])
  <2> DEFINE g == [f EXCEPT !.pc = "return"]
  <2>1. g \in Frames /\ g.fn = f.fn /\ g.pc = "return" /\ g.index = f.index /\ g.topic = f.topic /\ g.count = f.count
    BY DEF Frames
  <2> HIDE DEF g
  <2>2. FrameOK(g)
    BY <2>1 DEF FrameOK
  <2> QED BY <2>1, <2>2 DEF g
<1>2. /\ [f EXCEPT !.pc = "return", !.ok = TRUE] \in Frames
      /\ FrameOK([f EXCEPT !.pc = "return", !.ok = TRUE])
  <2> DEFINE g == [f EXCEPT !.pc = "return", !.ok = TRUE]
  <2>1. g \in Frames /\ g.fn = f.fn /\ g.pc = "return" /\ g.index = f.index /\ g.topic = f.topic /\ g.count = f.count
    BY DEF Frames
  <2> HIDE DEF g
  <2>2. FrameOK(g)
    BY <2>1 DEF FrameOK
  <2> QED BY <2>1, <2>2 DEF g
<1>3. ASSUME f.fn = "resubscribe", f.pc = "send", f.index <= f.count
      PROVE  [f EXCEPT !.pc = "wait", !.id = id] \in Frames /\ FrameOK([f EXCEPT !.pc = "wait", !.id = id])
  <2> DEFINE g == [f EXCEPT !.pc = "wait", !.id = id]
  <2>1. g \in Frames /\ g.fn = f.fn /\ g.pc = "wait" /\ g.index = f.index /\ g.count = f.count /\ g.ok = f.ok
    BY DEF Frames
  <2> HIDE DEF g
  <2>2. FrameOK(g)
    BY <1>3, <2>1 DEF FrameOK
  <2> QED BY <2>1, <2>2 DEF g
<1>4. /\ [f EXCEPT !.pc = "return"].fn = f.fn
      /\ [f EXCEPT !.pc = "return", !.ok = TRUE].fn = f.fn
      /\ [f EXCEPT !.pc = "wait", !.id = id].fn = f.fn
  BY DEF Frames
<1> QED BY <1>1, <1>2, <1>3, <1>4

\* The activation on top is in order.
LEMMA TopOK ==
  ASSUME TypeInv, FrameInv, stack # <<>>
  PROVE  /\ Top \in Frames /\ FrameOK(Top) /\ Top = stack[Len(stack)]
         /\ Len(stack) \in Nat \ {0} /\ Len(stack) \in 1..Len(stack)
         /\ Len(stack) = 1 \/ Top.fn \in CallbackCalls \union {"deliver_message"}
<1>1. Len(stack) \in Nat \ {0} /\ Top = stack[Len(stack)] /\ Top \in Frames
  BY TopType DEF TypeInv
<1>2. Len(stack) \in 1..Len(stack)
  BY <1>1
<1> QED BY <1>1, <1>2 DEF FrameInv

\* The variables keep their types and the stack its order.
LEMMA FrameInductive == Spec => [](TypeInv /\ FrameInv)
<1>1. Init => TypeInv /\ FrameInv
  <2> SUFFICES ASSUME Init PROVE TypeInv /\ FrameInv
    OBVIOUS
  <2>1. stack \in Seq(Frames) /\ Len(stack) = 0 /\ toBroker \in Seq(RequestPackets) /\ toClient \in Seq(Packets)
    BY DEF Init
  <2>2. nextPacketId \in Ids
    BY SessionAssumption DEF Init, Ids
  <2>3. TypeInv
    BY <2>1, <2>2 DEF Init, TypeInv
  <2>4. FrameInv
    BY <2>1 DEF FrameInv
  <2> QED BY <2>3, <2>4
<1>2. TypeInv /\ FrameInv /\ [Next]_vars => (TypeInv /\ FrameInv)'
  <2> SUFFICES ASSUME TypeInv, FrameInv, [Next]_vars PROVE TypeInv' /\ FrameInv'
    OBVIOUS
  <2>0. /\ connected \in BOOLEAN /\ link \in BOOLEAN /\ nextPacketId \in Ids
        /\ messageHandlers \in [Slots -> Topics \union {NoTopic}]
        /\ stack \in Seq(Frames) /\ toBroker \in Seq(RequestPackets) /\ toClient \in Seq(Packets)
        /\ processed \subseteq Ids
    BY DEF TypeInv
  <2>00. ASSUME stack' = stack PROVE stack' \in Seq(Frames) /\ FrameInv'
    BY <2>0, <2>00 DEF FrameInv, FrameOK
  <2>000. ASSUME toClient # <<>> PROVE Tail(toClient) \in Seq(Packets) /\ Head(toClient) \in Packets
    BY <2>0, <2>000, Taken
  <2>1. ASSUME NEW fn, Admitted(fn), TakeId,
               NEW type \in {"SUBSCRIBE", "UNSUBSCRIBE", "PUBLISH"}, NEW topic \in Topics \union {NoTopic},
               type = "PUBLISH" => topic = NoTopic, NEW f \in Frames, FrameOK(f), f.fn = fn,
               \/ Sent(type, topic) /\ stack' = Append(stack, f)
               \/ UNCHANGED <<network, stack>>,
               UNCHANGED <<connected, messageHandlers>>
        PROVE  TypeInv' /\ FrameInv'
    <3>1. nextPacketId' \in Ids /\ processed' \subseteq Ids
      BY <2>1, TakeIdKeeps
    <3>2. toBroker' \in Seq(RequestPackets) /\ link' = link /\ toClient' = toClient
      BY <2>0, <2>1, SentKeeps DEF network
    <3>3. stack' \in Seq(Frames) /\ FrameInv'
      <4>1. CASE stack' = stack
        BY <2>00, <4>1
      <4>2. CASE stack' = Append(stack, f)
        BY <2>1, <4>2, AdmittedCases, PushKeeps
      <4> QED BY <2>1, <4>1, <4>2
    <3> QED BY <2>0, <2>1, <3>1, <3>2, <3>3 DEF TypeInv
  <2>2. CASE Publish
    <3>1. [NewFrame("publish", NoTopic) EXCEPT !.id = NextPacketId].fn = "publish"
      BY DEF NewFrame
    <3> QED BY <2>1, <2>2, <3>1, CallFrames DEF Publish
  <2>3. ASSUME NEW topic \in Topics, Subscribe(topic) PROVE TypeInv' /\ FrameInv'
    <3>1. [NewFrame("subscribe", topic) EXCEPT !.index = FreeIndex, !.id = NextPacketId].fn = "subscribe"
      BY DEF NewFrame
    <3>2. CASE FreeIndex <= NumHandlers
      BY <2>1, <2>3, <3>1, <3>2, CallFrames DEF Subscribe
    <3>3. CASE ~(FreeIndex <= NumHandlers)
      <4>1. UNCHANGED <<network, stack, connected, messageHandlers>> /\ TakeId
        BY <2>3, <3>3 DEF Subscribe
      <4>2. nextPacketId' \in Ids /\ processed' \subseteq Ids
        BY <4>1, TakeIdKeeps
      <4> QED BY <2>0, <2>00, <4>1, <4>2 DEF TypeInv, network
    <3> QED BY <3>2, <3>3
  <2>4. ASSUME NEW topic \in Topics, Unsubscribe(topic) PROVE TypeInv' /\ FrameInv'
    <3>1. [NewFrame("unsubscribe", topic) EXCEPT !.id = NextPacketId].fn = "unsubscribe"
      BY DEF NewFrame
    <3> QED BY <2>1, <2>4, <3>1, CallFrames DEF Unsubscribe
  <2>5. ASSUME stack' = <<ResubscribeFrame>> PROVE stack' \in Seq(Frames) /\ FrameInv'
    <3>1. ResubscribeFrame \in Frames /\ FrameOK(ResubscribeFrame)
      BY CallFrames
    <3>2. stack' \in Seq(Frames) /\ Len(stack') = 1 /\ stack'[1] = ResubscribeFrame
      BY <2>5, <3>1, Single
    <3>3. \A d \in 1..Len(stack') : d = 1
      BY <3>2
    <3>4. FrameInv'
      BY <3>1, <3>2, <3>3 DEF FrameInv, FrameOK
    <3> QED BY <3>2, <3>4
  <2>6. CASE Resubscribe
    BY <2>0, <2>5, <2>6 DEF Resubscribe, TypeInv, network
  <2>7. CASE ResubscribeSend
    <3>0. stack # <<>> /\ Top \in Frames /\ FrameOK(Top) /\ Top.fn = "resubscribe" /\ Top.pc = "send"
      BY <2>7, TopOK DEF ResubscribeSend, At
    <3>1. CASE Top.index > Top.count
      <4>1. SetTop([Top EXCEPT !.pc = "return", !.ok = TRUE]) /\ UNCHANGED <<network, nextPacketId, processed>>
        BY <2>7, <3>1 DEF ResubscribeSend
      <4>2. stack' \in Seq(Frames) /\ FrameInv'
        <5>1. 1 \in Ids
          BY SessionAssumption DEF Ids
        <5> QED BY <3>0, <4>1, <5>1, MovedFrames, TopKeeps
      <4> QED BY <2>0, <2>7, <4>1, <4>2 DEF ResubscribeSend, TypeInv, network
    <3>2. CASE ~(Top.index > Top.count)
      <4>0. Top.index <= Top.count /\ Top.index \in Slots
        BY <3>0, <3>2, SessionAssumption DEF FrameOK, Frames, Slots
      <4>1. TakeId /\ UNCHANGED <<connected, messageHandlers>>
        BY <2>7, <3>2 DEF ResubscribeSend
      <4>2. nextPacketId' \in Ids /\ processed' \subseteq Ids /\ NextPacketId \in Ids
        BY <4>1, TakeIdKeeps
      <4>3. CASE /\ Sent("SUBSCRIBE", messageHandlers[Top.index])
                 /\ SetTop([Top EXCEPT !.pc = "wait", !.id = NextPacketId])
        <5>1. stack' \in Seq(Frames) /\ FrameInv'
          BY <3>0, <4>0, <4>2, <4>3, MovedFrames, TopKeeps
        <5>2. messageHandlers[Top.index] \in Topics \union {NoTopic}
          BY <2>0, <4>0
        <5>3. toBroker' \in Seq(RequestPackets) /\ link' = link /\ toClient' = toClient
          BY <4>3, <5>2, SentKeeps
        <5> QED BY SMTT(30), <2>0, <4>1, <4>2, <5>1, <5>3 DEF TypeInv
      <4>4. CASE SetTop([Top EXCEPT !.pc = "return"]) /\ UNCHANGED network
        <5>1. stack' \in Seq(Frames) /\ FrameInv'
          BY <3>0, <4>2, <4>4, MovedFrames, TopKeeps
        <5> QED BY <2>0, <4>1, <4>2, <4>4, <5>1 DEF TypeInv, network
      <4> QED BY <2>7, <3>2, <4>3, <4>4 DEF ResubscribeSend
    <3> QED BY <3>1, <3>2
  <2>8. CASE ReceiveAck
    <3>0. stack # <<>> /\ Top \in Frames /\ FrameOK(Top) /\ Top.pc = "wait"
      BY <2>8, TopOK DEF ReceiveAck, At
    <3>1. SetTop(AckFrame(Top))
      BY <2>8 DEF ReceiveAck, AckFrame
    <3>2. stack' \in Seq(Frames) /\ FrameInv'
      BY <3>0, <3>1, AckFrameKeeps, TopKeeps
    <3>3. messageHandlers' \in [Slots -> Topics \union {NoTopic}]
      <4>1. Top.topic \in Topics \union {NoTopic}
        BY <3>0 DEF Frames
      <4>2. CASE Top.fn = "subscribe"
        BY <2>0, <2>8, <4>1, <4>2 DEF ReceiveAck
      <4>3. CASE Top.fn = "unsubscribe"
        BY <2>0, <2>8, <4>1, <4>3 DEF ReceiveAck
      <4>4. CASE Top.fn \notin {"subscribe", "unsubscribe"}
        BY <2>0, <2>8, <4>4 DEF ReceiveAck
      <4> QED BY <4>2, <4>3, <4>4
    <3>4. toClient' \in Seq(Packets)
      BY <2>000, <2>8 DEF ReceiveAck, Read
    <3> QED BY <2>0, <2>8, <3>2, <3>3, <3>4 DEF ReceiveAck, Read, TypeInv
  <2>9. CASE ReceiveOther
    <3>1. toClient' \in Seq(Packets)
      BY <2>000, <2>9 DEF ReceiveOther, Read
    <3> QED BY <2>0, <2>00, <2>9, <3>1 DEF ReceiveOther, Read, TypeInv
  <2>10. CASE DeliverMessage
    <3>1. toClient' \in Seq(Packets)
      BY <2>000, <2>10 DEF DeliverMessage, Read
    <3>2. Head(toClient).topic \in Topics
      BY <2>0, <2>10 DEF DeliverMessage, Subscribed, Range
    <3> DEFINE f == [NewFrame("deliver_message", Head(toClient).topic) EXCEPT !.pc = "callback"]
    <3>3. f \in Frames /\ FrameOK(f) /\ f.fn = "deliver_message"
      BY <3>2, CallFrames DEF NewFrame
    <3>4. stack' = Append(stack, f)
      BY <2>10 DEF DeliverMessage
    <3>5. stack = <<>> \/ Top.pc \in {"wait", "callback"}
      BY <2>10 DEF DeliverMessage, At
    <3> HIDE DEF f
    <3>6. stack' \in Seq(Frames) /\ FrameInv'
      BY <3>3, <3>4, <3>5, PushKeeps
    <3> QED BY <2>0, <2>10, <3>1, <3>6 DEF DeliverMessage, Read, TypeInv
  <2>11. CASE WaitTimeout
    <3>0. /\ stack # <<>> /\ Top \in Frames /\ FrameOK(Top) /\ Top.fn # "deliver_message"
          /\ SetTop([Top EXCEPT !.pc = "return"])
      BY <2>11, TopOK DEF WaitTimeout, At, FrameOK
    <3>1. 1 \in Ids
      BY SessionAssumption DEF Ids
    <3>2. stack' \in Seq(Frames) /\ FrameInv'
      BY <3>0, <3>1, MovedFrames, TopKeeps
    <3> QED BY <2>0, <2>11, <3>2 DEF WaitTimeout, TypeInv, network
  <2>12. CASE Return
    <3>1. stack' \in Seq(Frames) /\ FrameInv'
      BY <2>12, PopKeeps DEF Return, At
    <3> QED BY <2>0, <2>12, <3>1 DEF Return, TypeInv, network
  <2>13. CASE LinkDown
    <3>1. toBroker' \in Seq(RequestPackets) /\ toClient' \in Seq(Packets) /\ link' = FALSE
      BY <2>13 DEF LinkDown
    <3> QED BY <2>0, <2>00, <2>13, <3>1 DEF LinkDown, TypeInv
  <2>14. CASE Disconnect
    <3>1. toBroker' \in Seq(RequestPackets) /\ toClient' \in Seq(Packets) /\ link' = FALSE /\ connected' = FALSE
      BY <2>14 DEF Disconnect
    <3> QED BY <2>0, <2>00, <2>14, <3>1 DEF Disconnect, TypeInv
  <2>15. CASE Connect /\ (stack' = stack \/ stack' = <<ResubscribeFrame>>)
    <3>1. stack' \in Seq(Frames) /\ FrameInv'
      BY <2>00, <2>5, <2>15
    <3>2. link' \in BOOLEAN /\ connected' \in BOOLEAN
      BY <2>15 DEF Connect
    <3> QED BY <2>0, <2>15, <3>1, <3>2 DEF Connect, TypeInv
  <2>16. CASE BrokerAnswer
    <3> DEFINE p == Head(toBroker)
    <3>1. toBroker' \in Seq(RequestPackets) /\ p \in RequestPackets
      BY <2>0, <2>16, Taken DEF BrokerAnswer
    <3> DEFINE q == [type |-> CASE p.type = "SUBSCRIBE"   -> "SUBACK"
                                [] p.type = "UNSUBSCRIBE" -> "UNSUBACK"
                                [] OTHER                  -> "PUBACK",
                     id |-> p.id, topic |-> NoTopic]
    <3>2. q \in Packets
      BY <3>1 DEF RequestPackets, Packets
    <3>3. toClient' = Append(toClient, q)
      BY <2>16 DEF BrokerAnswer
    <3> HIDE DEF q
    <3>4. toClient' \in Seq(Packets)
      BY <2>0, <3>2, <3>3
    <3>5. processed' \subseteq Ids
      BY <2>0, <2>16, <3>1 DEF BrokerAnswer, RequestPackets
    <3> QED BY <2>0, <2>00, <2>16, <3>1, <3>4, <3>5 DEF BrokerAnswer, TypeInv
  <2>17. ASSUME NEW topic \in Topics, BrokerPublish(topic) PROVE TypeInv' /\ FrameInv'
    <3>1. [type |-> "PUBLISH", id |-> 0, topic |-> topic] \in Packets
      BY DEF Packets
    <3>2. toClient' \in Seq(Packets)
      BY <2>0, <2>17, <3>1 DEF BrokerPublish
    <3> QED BY <2>0, <2>00, <2>17, <3>2 DEF BrokerPublish, TypeInv
  <2>18. CASE UNCHANGED vars
    BY <2>0, <2>00, <2>18 DEF vars, network, TypeInv
  <2> QED BY <2>2, <2>3, <2>4, <2>6, <2>7, <2>8, <2>9, <2>10, <2>11, <2>12, <2>13, <2>14, <2>15,
             <2>16, <2>17, <2>18 DEF Next, ConnectOnly, Reconnect
<1> QED BY <1>1, <1>2, PTL DEF Spec

-----------------------------------------------------------------------------
(* One step of the stack and of the table.                                 *)

\* An activation that has just been pushed.
NewCall(f) ==
  /\ f.pc # "return"
  /\ \/ f.fn \in {"publish", "unsubscribe", "deliver_message"}
     \/ f.fn = "subscribe" /\ FreeIndex <= NumHandlers /\ f.index = FreeIndex
     \/ f.fn = "resubscribe" /\ f.pc = "send" /\ f.index = 1 /\ f.count = FreeIndex - 1

\* A request that waited, or had to send, moves on.
Moved(f, g) ==
  /\ f.pc \in {"send", "wait"}
  /\ g.fn = f.fn
  /\ \/ g.pc = "return"
     \/ f.fn = "resubscribe" /\ g.count = f.count /\ g.index \in {f.index, f.index + 1}

\* The fields of the activations that are pushed and of the ones that move on.
LEMMA NewCalls ==
  /\ NewCall([NewFrame("publish", NoTopic) EXCEPT !.id = NextPacketId])
  /\ \A topic \in Topics :
       /\ NewCall([NewFrame("unsubscribe", topic) EXCEPT !.id = NextPacketId])
       /\ FreeIndex <= NumHandlers =>
            NewCall([NewFrame("subscribe", topic) EXCEPT !.index = FreeIndex, !.id = NextPacketId])
       /\ NewCall([NewFrame("deliver_message", topic) EXCEPT !.pc = "callback"])
  /\ NewCall(ResubscribeFrame)
<1>1. NewCall([NewFrame("publish", NoTopic) EXCEPT !.id = NextPacketId])
  BY DEF NewCall, NewFrame
<1>2. ASSUME NEW topic \in Topics
      PROVE  /\ NewCall([NewFrame("unsubscribe", topic) EXCEPT !.id = NextPacketId])
             /\ NewCall([NewFrame("deliver_message", topic) EXCEPT !.pc = "callback"])
  BY DEF NewCall, NewFrame
<1>3. ASSUME NEW topic \in Topics, FreeIndex <= NumHandlers
      PROVE  NewCall([NewFrame("subscribe", topic) EXCEPT !.index = FreeIndex, !.id = NextPacketId])
  BY <1>3 DEF NewCall, NewFrame
<1>4. NewCall(ResubscribeFrame)
  BY DEF NewCall, NewFrame, ResubscribeFrame
<1> QED BY <1>1, <1>2, <1>3, <1>4

\* A request moves on in one of four ways.
LEMMA Moves ==
  ASSUME NEW f \in Frames, FrameOK(f), f.pc \in {"send", "wait"}
  PROVE  /\ f.pc = "wait" => Moved(f, AckFrame(f))
         /\ Moved(f, [f EXCEPT !.pc = "return"])
         /\ Moved(f, [f EXCEPT !.pc = "return", !.ok = TRUE])
         /\ \A id \in Ids : f.pc = "send" => Moved(f, [f EXCEPT !.pc = "wait", !.id = id])
<1>1. ASSUME f.pc = "wait" PROVE Moved(f, AckFrame(f))
  <2>1. CASE f.fn = "resubscribe"
    <3>1. AckFrame(f) = [f EXCEPT !.pc = "send", !.index = f.index + 1, !.id = 0]
      BY <2>1 DEF AckFrame
    <3>2. AckFrame(f).fn = f.fn /\ AckFrame(f).count = f.count /\ AckFrame(f).index = f.index + 1
      BY <3>1 DEF Frames
    <3> QED BY <2>1, <3>2 DEF Moved
  <2>2. CASE f.fn # "resubscribe"
    <3>1. AckFrame(f).fn = f.fn /\ AckFrame(f).pc = "return"
      BY <2>2 DEF AckFrame, Frames
    <3> QED BY <3>1 DEF Moved
  <2> QED BY <2>1, <2>2
<1>2. Moved(f, [f EXCEPT !.pc = "return"]) /\ Moved(f, [f EXCEPT !.pc = "return", !.ok = TRUE])
  BY DEF Moved, Frames
<1>3. ASSUME NEW id \in Ids, f.pc = "send" PROVE Moved(f, [f EXCEPT !.pc = "wait", !.id = id])
  <2> DEFINE g == [f EXCEPT !.pc = "wait", !.id = id]
  <2>1. g.fn = f.fn /\ g.count = f.count /\ g.index = f.index
    BY DEF Frames
  <2> HIDE DEF g
  <2>2. Moved(f, g)
    BY <1>3, <2>1 DEF Moved, FrameOK
  <2> QED BY <2>2 DEF g
<1> QED BY <1>1, <1>2, <1>3

\* A step leaves an activation as it is, moves the innermost one or pushes one.
LEMMA StackStep ==
  ASSUME TypeInv, FrameInv, [Next]_vars
  PROVE  \A d \in 1..Len(stack') :
           \/ d \in 1..Len(stack) /\ stack'[d] = stack[d]
           \/ /\ d = Len(stack) /\ stack # <<>> /\ Moved(Top, stack'[d])
              /\ ReceiveAck \/ WaitTimeout \/ ResubscribeSend
           \/ d = Len(stack') /\ NewCall(stack'[d]) /\ UNCHANGED messageHandlers
<1> DEFINE Goal(d) == \/ d \in 1..Len(stack) /\ stack'[d] = stack[d]
                      \/ /\ d = Len(stack) /\ stack # <<>> /\ Moved(Top, stack'[d])
                         /\ ReceiveAck \/ WaitTimeout \/ ResubscribeSend
                      \/ d = Len(stack') /\ NewCall(stack'[d]) /\ UNCHANGED messageHandlers
<1>0. stack \in Seq(Frames)
  BY DEF TypeInv
<1>1. ASSUME stack' = stack, NEW d \in 1..Len(stack') PROVE Goal(d)
  BY <1>0, <1>1
<1>2. ASSUME NEW f \in Frames, NewCall(f), stack' = Append(stack, f), UNCHANGED messageHandlers,
             NEW d \in 1..Len(stack')
      PROVE  Goal(d)
  <2>1. /\ Len(stack) \in Nat /\ Len(stack') = Len(stack) + 1
        /\ \A e \in 1..Len(stack) : stack'[e] = stack[e]
        /\ stack'[Len(stack) + 1] = f
    BY <1>0, <1>2, Pushed
  <2>2. d \in 1..Len(stack) \/ d = Len(stack) + 1
    BY <2>1
  <2> QED BY <1>2, <2>1, <2>2
<1>3. ASSUME NEW f \in Frames, stack # <<>>, SetTop(f), Moved(Top, f), NEW d \in 1..Len(stack'),
             ReceiveAck \/ WaitTimeout \/ ResubscribeSend
      PROVE  Goal(d)
  <2>1. /\ Len(stack) \in Nat \ {0} /\ Len(stack') = Len(stack)
        /\ \A e \in 1..Len(stack) : e # Len(stack) => stack'[e] = stack[e]
        /\ stack'[Len(stack)] = f
    BY <1>0, <1>3, TopSet
  <2> QED BY <1>3, <2>1
<1>4. ASSUME stack' = <<ResubscribeFrame>>, UNCHANGED messageHandlers, NEW d \in 1..Len(stack')
      PROVE  Goal(d)
  <2>1. ResubscribeFrame \in Frames
    BY CallFrames
  <2>2. Len(stack') = 1 /\ stack'[1] = ResubscribeFrame
    BY <1>4, <2>1, Single
  <2>3. d = 1
    BY <2>2
  <2>4. NewCall(ResubscribeFrame)
    BY NewCalls
  <2> QED BY <1>4, <2>2, <2>3, <2>4
<1> SUFFICES ASSUME NEW d \in 1..Len(stack') PROVE Goal(d)
  OBVIOUS
<1> HIDE DEF Goal
<1>5. CASE Publish
  BY <1>1, <1>2, <1>5, CallFrames, NewCalls DEF Publish
<1>6. ASSUME NEW topic \in Topics, Subscribe(topic) PROVE Goal(d)
  BY <1>1, <1>2, <1>6, CallFrames, NewCalls DEF Subscribe
<1>7. ASSUME NEW topic \in Topics, Unsubscribe(topic) PROVE Goal(d)
  BY <1>1, <1>2, <1>7, CallFrames, NewCalls DEF Unsubscribe
<1>8. CASE Resubscribe
  BY <1>4, <1>8 DEF Resubscribe
<1>9. CASE ResubscribeSend
  <2>1. stack # <<>> /\ Top \in Frames /\ FrameOK(Top) /\ Top.fn = "resubscribe" /\ Top.pc = "send"
    BY <1>9, TopOK DEF ResubscribeSend, At
  <2>2. 1 \in Ids /\ NextPacketId \in Ids
    BY SMTT(30), SessionAssumption, NextPacketIdType DEF Ids, TypeInv
  <2>3. CASE Top.index > Top.count
    BY ZenonT(60), <1>3, <1>9, <2>1, <2>2, <2>3, MovedFrames, Moves DEF ResubscribeSend
  <2>4. CASE ~(Top.index > Top.count)
    <3>1. Top.index <= Top.count
      BY <2>1, <2>4, SessionAssumption DEF Frames
    <3> QED BY <1>3, <1>9, <2>1, <2>2, <2>4, <3>1, MovedFrames, Moves DEF ResubscribeSend
  <2> QED BY <2>3, <2>4
<1>10. CASE ReceiveAck
  <2>1. stack # <<>> /\ Top \in Frames /\ FrameOK(Top) /\ Top.pc = "wait"
    BY <1>10, TopOK DEF ReceiveAck, At
  <2>2. SetTop(AckFrame(Top))
    BY <1>10 DEF ReceiveAck, AckFrame
  <2> QED BY <1>3, <1>10, <2>1, <2>2, AckFrameKeeps, Moves
<1>11. CASE DeliverMessage
  <2>1. Head(toClient).topic \in Topics
    BY SMTT(30), <1>11 DEF DeliverMessage, Subscribed, Range, TypeInv
  <2> QED BY <1>2, <1>11, <2>1, CallFrames, NewCalls DEF DeliverMessage
<1>12. CASE WaitTimeout
  <2>1. /\ stack # <<>> /\ Top \in Frames /\ FrameOK(Top) /\ Top.fn # "deliver_message" /\ Top.pc = "wait"
        /\ SetTop([Top EXCEPT !.pc = "return"])
    BY <1>12, TopOK DEF WaitTimeout, At, FrameOK
  <2>2. 1 \in Ids
    BY SessionAssumption DEF Ids
  <2> QED BY <1>3, <1>12, <2>1, <2>2, MovedFrames, Moves
<1>13. CASE Return
  <2>1. /\ Len(stack) \in Nat \ {0} /\ Len(stack') = Len(stack) - 1
        /\ \A e \in 1..(Len(stack) - 1) : stack'[e] = stack[e]
    BY <1>0, <1>13, Popped DEF Return, At
  <2> QED BY <2>1 DEF Goal
<1>14. CASE stack' = stack
  BY <1>1, <1>14
<1>15. CASE Reconnect
  BY <1>4, <1>15 DEF Reconnect, Connect
<1> QED BY <1>5, <1>6, <1>7, <1>8, <1>9, <1>10, <1>11, <1>12, <1>13, <1>14, <1>15
        DEF Next, vars, ConnectOnly, ReceiveOther, LinkDown, Disconnect, BrokerAnswer, BrokerPublish

\* The table changes when a subscribe or an unsubscribe has its answer, and that request returns.
LEMMA TableStep ==
  ASSUME TypeInv, FrameInv, [Next]_vars
  PROVE  \/ UNCHANGED messageHandlers
         \/ /\ ReceiveAck
            /\ stack # <<>> /\ Top.fn \in {"subscribe", "unsubscribe"} /\ stack'[Len(stack)].pc = "return"
            /\ messageHandlers' =
                 IF Top.fn = "subscribe" THEN [messageHandlers EXCEPT ![Top.index] = Top.topic]
                 ELSE [i \in Slots |-> IF messageHandlers[i] = Top.topic THEN NoTopic
                                       ELSE messageHandlers[i]]
<1>1. CASE ReceiveAck
  <2>1. stack \in Seq(Frames) /\ stack # <<>> /\ Top \in Frames /\ FrameOK(Top) /\ Top.pc = "wait"
    BY <1>1, TopOK DEF ReceiveAck, At, TypeInv
  <2>2. SetTop(AckFrame(Top))
    BY <1>1 DEF ReceiveAck, AckFrame
  <2>3. stack'[Len(stack)] = AckFrame(Top)
    BY <2>1, <2>2, AckFrameKeeps, TopSet
  <2>4. Top.fn # "resubscribe" => AckFrame(Top).pc = "return"
    BY <2>1 DEF AckFrame, Frames
  <2>5. CASE Top.fn = "subscribe"
    BY <1>1, <2>1, <2>3, <2>4, <2>5 DEF ReceiveAck
  <2>6. CASE Top.fn = "unsubscribe"
    BY <1>1, <2>1, <2>3, <2>4, <2>6 DEF ReceiveAck
  <2>7. CASE Top.fn \notin {"subscribe", "unsubscribe"}
    BY <1>1, <2>7 DEF ReceiveAck
  <2> QED BY <2>5, <2>6, <2>7
<1>2. CASE ~ReceiveAck
  BY <1>2 DEF Next, vars, Publish, Resubscribe, ResubscribeSend, Subscribe, Unsubscribe, BrokerPublish,
             ReceiveOther, DeliverMessage, WaitTimeout, Return, LinkDown, Disconnect, ConnectOnly,
             Reconnect, Connect, BrokerAnswer
<1> QED BY <1>1, <1>2

-----------------------------------------------------------------------------
(* The table of handlers.                                                  *)

\* The slots that resubscribe has still to visit, while it sends or waits, are occupied.
SlotsFull ==
  \A d \in DOMAIN stack :
    stack[d].fn = "resubscribe" /\ stack[d].pc \in {"send", "wait"} =>
      \A i \in stack[d].index..stack[d].count : messageHandlers[i] # NoTopic

\* A program whose callbacks do not unsubscribe empties no slot under a resubscribe.
LEMMA NobodyUnsubscribes == "unsubscribe" \notin CallbackCalls => (Spec => []ResubscribeNotNull)
<1> SUFFICES ASSUME "unsubscribe" \notin CallbackCalls PROVE Spec => []ResubscribeNotNull
  OBVIOUS
<1>0. "resubscribe" \notin CallbackCalls /\ NumHandlers \in Nat /\ NoTopic \notin Topics
  BY SessionAssumption
<1>1. Init => SlotsFull
  BY DEF Init, SlotsFull
<1>2. TypeInv /\ FrameInv /\ SlotsFull /\ [Next]_vars /\ TypeInv' /\ FrameInv' => SlotsFull'
  <2> SUFFICES ASSUME TypeInv, FrameInv, SlotsFull, [Next]_vars, TypeInv', FrameInv',
                      NEW d \in DOMAIN stack', stack'[d].fn = "resubscribe", stack'[d].pc \in {"send", "wait"},
                      NEW i \in (stack'[d].index)..(stack'[d].count)
               PROVE  messageHandlers'[i] # NoTopic
    BY DEF SlotsFull
  <2>0. /\ stack \in Seq(Frames) /\ stack' \in Seq(Frames) /\ d \in 1..Len(stack') /\ stack'[d] \in Frames
        /\ messageHandlers \in [Slots -> Topics \union {NoTopic}]
    BY DEF TypeInv
  <2>1. d = 1
    <3>1. stack'[d].fn \notin CallbackCalls \union {"deliver_message"}
      BY <1>0
    <3> QED BY <2>0, <3>1 DEF FrameInv
  <2>2. i \in Slots
    <3>1. stack'[d].index \in Nat /\ stack'[d].count \in 0..NumHandlers
      BY <1>0, <2>0 DEF Frames
    <3>2. stack'[d].index \in 1..(stack'[d].count + 1)
      BY <2>0 DEF FrameInv, FrameOK
    <3> QED BY <1>0, <3>1, <3>2 DEF Slots
  <2>3. CASE d = Len(stack') /\ NewCall(stack'[d]) /\ UNCHANGED messageHandlers
    <3>1. i \in 1..(FreeIndex - 1)
      BY <2>3 DEF NewCall
    <3> QED BY <2>0, <2>3, <3>1, FreeIndexFree
  <2>4. ASSUME d \in 1..Len(stack), stack[d].fn = "resubscribe", stack[d].pc \in {"send", "wait"},
               i \in (stack[d].index)..(stack[d].count)
        PROVE  messageHandlers'[i] # NoTopic
    <3>1. messageHandlers[i] # NoTopic
      BY <2>0, <2>4 DEF SlotsFull
    <3>2. CASE UNCHANGED messageHandlers
      BY <3>1, <3>2
    <3>3. CASE /\ stack # <<>> /\ Top.fn \in {"subscribe", "unsubscribe"} /\ stack'[Len(stack)].pc = "return"
               /\ messageHandlers' =
                    IF Top.fn = "subscribe" THEN [messageHandlers EXCEPT ![Top.index] = Top.topic]
                    ELSE [j \in Slots |-> IF messageHandlers[j] = Top.topic THEN NoTopic
                                          ELSE messageHandlers[j]]
      <4>1. /\ Len(stack) = 1 \/ Top.fn \in CallbackCalls \union {"deliver_message"}
            /\ FrameOK(Top) /\ Top = stack[Len(stack)]
        BY <3>3, TopOK
      <4>2. Len(stack) # d
        BY <2>4, <3>3, <4>1
      <4>3. Top.fn = "subscribe" /\ Top.topic \in Topics
        BY <2>1, <3>3, <4>1, <4>2 DEF FrameOK
      <4> QED BY <1>0, <2>0, <2>2, <3>1, <3>3, <4>3
    <3> QED BY <3>2, <3>3, TableStep
  <2>5. CASE d \in 1..Len(stack) /\ stack'[d] = stack[d]
    BY <2>4, <2>5
  <2>6. CASE d = Len(stack) /\ stack # <<>> /\ Moved(Top, stack'[d])
    <3>1. d \in 1..Len(stack) /\ Top = stack[d] /\ Top \in Frames
      BY <2>6, TopOK
    <3>2. stack[d].pc \in {"send", "wait"} /\ stack[d].fn = "resubscribe"
      BY <2>6, <3>1 DEF Moved
    <3>3. i \in (stack[d].index)..(stack[d].count)
      <4>1. stack'[d].count = stack[d].count /\ stack'[d].index \in {stack[d].index, stack[d].index + 1}
        BY <2>6, <3>1 DEF Moved
      <4>2. PICK m \in Nat, n \in Nat : m = stack[d].index /\ n = stack[d].count
        BY <1>0, <3>1 DEF Frames
      <4>3. PICK k \in Nat : k = stack'[d].index
        BY <1>0, <2>0 DEF Frames
      <4>4. i \in k..n /\ k \in {m, m + 1}
        BY <4>1, <4>2, <4>3
      <4>5. i \in m..n
        BY <4>4
      <4> QED BY <4>2, <4>5
    <3> QED BY <2>4, <3>1, <3>2, <3>3
  <2> QED BY <2>0, <2>3, <2>5, <2>6, StackStep
<1>3. TypeInv /\ SlotsFull => ResubscribeNotNull
  <2> SUFFICES ASSUME TypeInv, SlotsFull, At({"resubscribe"}, "send"), NEW i \in Top.index..Top.count
               PROVE  messageHandlers[i] # NoTopic
    BY DEF ResubscribeNotNull
  <2>1. Top = stack[Len(stack)] /\ Len(stack) \in DOMAIN stack
    BY TopType DEF TypeInv, At
  <2> QED BY <2>1 DEF SlotsFull, At
<1> QED BY <1>1, <1>2, <1>3, FrameInductive, PTL DEF Spec

-----------------------------------------------------------------------------
(* The session of the broker.                                              *)

\* A request about a subscription names its topic.
NamedPackets == {p \in RequestPackets : p.type # "PUBLISH" => p.topic \in Topics}

SessionInv == session \subseteq Topics /\ toBroker \in Seq(NamedPackets)

\* A packet that names its topic, if it has to, joins packets that do.
LEMMA SentNames ==
  ASSUME TypeInv, SessionInv, NEW type \in {"SUBSCRIBE", "UNSUBSCRIBE", "PUBLISH"}, NEW topic,
         type = "PUBLISH" => topic = NoTopic, type # "PUBLISH" => topic \in Topics, Sent(type, topic)
  PROVE  toBroker' \in Seq(NamedPackets)
<1> DEFINE p == [type |-> type, id |-> NextPacketId, topic |-> topic]
<1>1. p \in RequestPackets
  BY SentKeeps
<1>2. p.type = type /\ p.topic = topic
  OBVIOUS
<1>3. toBroker' = Append(toBroker, p) \/ toBroker' = toBroker
  BY DEF Sent
<1> HIDE DEF p
<1>4. p \in NamedPackets
  BY <1>1, <1>2 DEF NamedPackets
<1> QED BY <1>3, <1>4 DEF SessionInv

\* The variables have their types as long as resubscribe asks the broker for topics only.
LEMMA TypesOfNames == Spec /\ []ResubscribeNotNull => []TypeOK
<1>1. Init => SessionInv
  BY DEF Init, SessionInv
<1>2. TypeInv /\ FrameInv /\ ResubscribeNotNull /\ SessionInv /\ [Next]_vars => SessionInv'
  <2> SUFFICES ASSUME TypeInv, FrameInv, ResubscribeNotNull, SessionInv, [Next]_vars PROVE SessionInv'
    OBVIOUS
  <2>0. session \subseteq Topics /\ toBroker \in Seq(NamedPackets)
    BY DEF SessionInv
  <2>1. CASE UNCHANGED <<toBroker, session>>
    BY <2>0, <2>1 DEF SessionInv
  <2>2. CASE toBroker' = <<>> /\ session' = session
    BY <2>0, <2>2 DEF SessionInv
  <2>3. CASE Publish
    BY <2>0, <2>3, SentNames DEF Publish, SessionInv, network
  <2>4. ASSUME NEW topic \in Topics, Subscribe(topic) PROVE SessionInv'
    BY <2>0, <2>4, SentNames DEF Subscribe, SessionInv, network
  <2>5. ASSUME NEW topic \in Topics, Unsubscribe(topic) PROVE SessionInv'
    BY <2>0, <2>5, SentNames DEF Unsubscribe, SessionInv, network
  <2>6. CASE ResubscribeSend
    <3>0. /\ stack # <<>> /\ Top.fn = "resubscribe" /\ Top.pc = "send" /\ Top \in Frames /\ FrameOK(Top)
          /\ Top = stack[Len(stack)] /\ Len(stack) \in DOMAIN stack /\ session' = session
      BY <2>6, TopOK DEF ResubscribeSend, At, TypeInv
    <3>1. CASE toBroker' = toBroker
      BY <2>1, <3>0, <3>1
    <3>2. CASE toBroker' # toBroker
      <4>1. Top.index <= Top.count /\ Sent("SUBSCRIBE", messageHandlers[Top.index])
        <5>1. ~(Top.index > Top.count) /\ Sent("SUBSCRIBE", messageHandlers[Top.index])
          BY <2>6, <3>2 DEF ResubscribeSend, network
        <5> QED BY <3>0, <5>1, SessionAssumption DEF Frames
      <4>2. Top.index \in (Top.index)..(Top.count) /\ Top.index \in Slots
        BY <3>0, <4>1, SessionAssumption DEF Frames, FrameOK, Slots
      <4>3. messageHandlers[Top.index] # NoTopic
        BY <3>0, <4>2 DEF ResubscribeNotNull, At
      <4>4. messageHandlers[Top.index] \in Topics
        BY <4>2, <4>3 DEF TypeInv
      <4>5. toBroker' \in Seq(NamedPackets)
        BY <4>1, <4>4, SentNames
      <4> QED BY <2>0, <3>0, <4>5 DEF SessionInv
    <3> QED BY <3>1, <3>2
  <2>7. CASE BrokerAnswer
    <3>1. toBroker' \in Seq(NamedPackets) /\ Head(toBroker) \in NamedPackets
      BY <2>0, <2>7, Taken DEF BrokerAnswer
    <3>2. session' \subseteq Topics
      BY <2>0, <2>7, <3>1 DEF BrokerAnswer, NamedPackets
    <3> QED BY <3>1, <3>2 DEF SessionInv
  <2>8. CASE Connect
    <3>1. session' \subseteq Topics /\ toBroker' = toBroker
      BY <2>0, <2>8 DEF Connect
    <3> QED BY <2>0, <3>1 DEF SessionInv
  <2> QED BY <2>1, <2>2, <2>3, <2>4, <2>5, <2>6, <2>7, <2>8
          DEF Next, vars, network, Resubscribe, BrokerPublish, ReceiveAck, ReceiveOther, DeliverMessage, Read,
              WaitTimeout, Return, LinkDown, Disconnect, ConnectOnly, Reconnect
<1>3. TypeInv /\ SessionInv => TypeOK
  <2> SUFFICES ASSUME TypeInv, SessionInv PROVE TypeOK
    OBVIOUS
  <2>1. RequestPackets \subseteq Packets
    BY DEF RequestPackets
  <2>2. toBroker \in Seq(Packets)
    BY <2>1 DEF TypeInv
  <2> QED BY <2>2 DEF TypeInv, SessionInv, TypeOK
<1> QED BY <1>1, <1>2, <1>3, FrameInductive, PTL DEF Spec

-----------------------------------------------------------------------------
(* The connection and the packets on it.                                   *)

\* A client that is not connected has no connection and no request under way, and a dead
\* connection carries nothing.
LinkInv ==
  /\ ~connected => ~link /\ stack = <<>>
  /\ ~link => toBroker = <<>> /\ toClient = <<>>

\* No two packets in flight have the same identifier, the messages of the broker aside.
UniqueInv ==
  /\ \A i, j \in 1..Len(toBroker) : toBroker[i].id = toBroker[j].id => i = j
  /\ \A i \in 1..Len(toBroker), j \in 1..Len(toClient) : toBroker[i].id # toClient[j].id
  /\ \A i, j \in 1..Len(toClient) : toClient[i].id # 0 /\ toClient[i].id = toClient[j].id => i = j
  /\ \A i \in 1..Len(toClient) : toClient[i].type # "PUBLISH" => toClient[i].id # 0

\* The acknowledgement of a request.
AckOf(type) ==
  CASE type = "SUBSCRIBE"   -> "SUBACK"
    [] type = "UNSUBSCRIBE" -> "UNSUBACK"
    [] OTHER                -> "PUBACK"

AckPacket(p) == [type |-> AckOf(p.type), id |-> p.id, topic |-> NoTopic]

\* The answer of the broker.
LEMMA AnswerStep ==
  ASSUME TypeInv, BrokerAnswer
  PROVE  /\ toBroker # <<>> /\ Head(toBroker) \in RequestPackets /\ Head(toBroker) = toBroker[1]
         /\ toBroker' = Tail(toBroker)
         /\ AckPacket(Head(toBroker)) \in Packets
         /\ AckPacket(Head(toBroker)).id = Head(toBroker).id
         /\ AckPacket(Head(toBroker)).type = AckOf(Head(toBroker).type)
         /\ toClient' = Append(toClient, AckPacket(Head(toBroker)))
<1>1. /\ toBroker # <<>> /\ Head(toBroker) \in RequestPackets /\ Head(toBroker) = toBroker[1]
      /\ toBroker' = Tail(toBroker)
  BY Taken DEF BrokerAnswer, TypeInv
<1>2. AckPacket(Head(toBroker)) \in Packets
  BY <1>1 DEF AckPacket, AckOf, RequestPackets, Packets
<1>3. /\ AckPacket(Head(toBroker)).id = Head(toBroker).id
      /\ AckPacket(Head(toBroker)).type = AckOf(Head(toBroker).type)
  BY DEF AckPacket
<1>4. toClient' = Append(toClient, AckPacket(Head(toBroker)))
  BY DEF BrokerAnswer, AckPacket, AckOf
<1> QED BY <1>1, <1>2, <1>3, <1>4

\* What a step does to the packets in flight.
LEMMA ChannelStep ==
  ASSUME TypeInv, FrameInv, LinkInv, [Next]_vars
  PROVE  \/ UNCHANGED <<toBroker, toClient>>
         \/ toBroker' = <<>> /\ toClient' = <<>>
         \/ \E p \in RequestPackets :
              /\ p.id = NextPacketId /\ NextPacketId \notin InFlight
              /\ NextPacketId \notin {stack[d].id : d \in DOMAIN stack}
              /\ toBroker' = Append(toBroker, p) /\ toClient' = toClient /\ link /\ link' = link
         \/ toClient # <<>> /\ toClient' = Tail(toClient) /\ toBroker' = toBroker /\ link' = link
         \/ BrokerAnswer
         \/ \E topic \in Topics : BrokerPublish(topic)
<1> DEFINE Send == \E p \in RequestPackets :
                     /\ p.id = NextPacketId /\ NextPacketId \notin InFlight
                     /\ NextPacketId \notin {stack[d].id : d \in DOMAIN stack}
                     /\ toBroker' = Append(toBroker, p) /\ toClient' = toClient /\ link /\ link' = link
<1>1. ASSUME TakeId, NEW type \in {"SUBSCRIBE", "UNSUBSCRIBE", "PUBLISH"}, NEW topic \in Topics \union {NoTopic},
             type = "PUBLISH" => topic = NoTopic, Sent(type, topic)
      PROVE  Send \/ UNCHANGED <<toBroker, toClient>>
  <2> DEFINE p == [type |-> type, id |-> NextPacketId, topic |-> topic]
  <2>1. p \in RequestPackets
    BY <1>1, SentKeeps
  <2>2. p.id = NextPacketId
    OBVIOUS
  <2>3. NextPacketId \notin InFlight /\ NextPacketId \notin {stack[d].id : d \in DOMAIN stack}
    BY <1>1 DEF TakeId
  <2>4. CASE link
    <3>1. toBroker' = Append(toBroker, p) /\ toClient' = toClient /\ link' = link
      BY <1>1, <2>4 DEF Sent
    <3> HIDE DEF p
    <3> QED BY <2>1, <2>2, <2>3, <2>4, <3>1
  <2>5. CASE ~link
    BY <1>1, <2>5 DEF Sent
  <2> QED BY <2>4, <2>5
<1> HIDE DEF Send
<1>2. ASSUME Publish PROVE Send \/ UNCHANGED <<toBroker, toClient>>
  BY <1>1, <1>2 DEF Publish, network
<1>3. ASSUME NEW topic \in Topics, Subscribe(topic) PROVE Send \/ UNCHANGED <<toBroker, toClient>>
  BY <1>1, <1>3 DEF Subscribe, network
<1>4. ASSUME NEW topic \in Topics, Unsubscribe(topic) PROVE Send \/ UNCHANGED <<toBroker, toClient>>
  BY <1>1, <1>4 DEF Unsubscribe, network
<1>5. ASSUME ResubscribeSend PROVE Send \/ UNCHANGED <<toBroker, toClient>>
  <2>1. stack # <<>> /\ Top \in Frames /\ FrameOK(Top) /\ Top.fn = "resubscribe"
    BY <1>5, TopOK DEF ResubscribeSend, At
  <2>2. CASE Top.index > Top.count
    BY <1>5, <2>2 DEF ResubscribeSend, network
  <2>3. CASE ~(Top.index > Top.count)
    <3>1. Top.index \in Slots
      BY <2>1, <2>3, SessionAssumption DEF FrameOK, Frames, Slots
    <3>2. messageHandlers[Top.index] \in Topics \union {NoTopic}
      BY <3>1 DEF TypeInv
    <3> QED BY <1>1, <1>5, <2>3, <3>2 DEF ResubscribeSend, network
  <2> QED BY <2>2, <2>3
<1>6. CASE LinkDown \/ Disconnect
  BY <1>6 DEF LinkDown, Disconnect
<1>7. CASE ReceiveAck \/ ReceiveOther \/ DeliverMessage
  BY <1>7 DEF ReceiveAck, ReceiveOther, DeliverMessage, Read
<1>8. CASE Resubscribe \/ WaitTimeout \/ Return \/ UNCHANGED vars
  BY <1>8 DEF Resubscribe, WaitTimeout, Return, vars, network
<1>9. CASE Connect
  BY <1>9 DEF Connect
<1> QED BY <1>2, <1>3, <1>4, <1>5, <1>6, <1>7, <1>8, <1>9 DEF Next, Send, ConnectOnly, Reconnect

\* The identifiers of the packets in flight.
LEMMA InFlightIds ==
  ASSUME TypeInv, NEW id, id \notin InFlight
  PROVE  /\ \A i \in 1..Len(toBroker) : toBroker[i].id # id
         /\ \A i \in 1..Len(toClient) : toClient[i].id # id
BY DEF InFlight, TypeInv

\* A packet joins packets with other identifiers.
LEMMA UniqueAppend ==
  ASSUME NEW P, NEW s \in Seq(P), NEW p \in P,
         \A i, j \in 1..Len(s) : s[i].id # 0 /\ s[i].id = s[j].id => i = j,
         p.id # 0 => \A i \in 1..Len(s) : s[i].id # p.id
  PROVE  \A i, j \in 1..Len(Append(s, p)) :
           Append(s, p)[i].id # 0 /\ Append(s, p)[i].id = Append(s, p)[j].id => i = j
<1> DEFINE t == Append(s, p)
<1>1. /\ Len(s) \in Nat /\ Len(t) = Len(s) + 1
      /\ \A i \in 1..Len(s) : t[i] = s[i]
      /\ t[Len(s) + 1] = p
  BY Appended
<1> HIDE DEF t
<1>2. SUFFICES ASSUME NEW i \in 1..Len(t), NEW j \in 1..Len(t), t[i].id # 0, t[i].id = t[j].id
               PROVE  i = j
  BY DEF t
<1>3. (i \in 1..Len(s) \/ i = Len(s) + 1) /\ (j \in 1..Len(s) \/ j = Len(s) + 1)
  BY <1>1
<1>4. CASE i \in 1..Len(s) /\ j \in 1..Len(s)
  BY <1>1, <1>2, <1>4
<1>5. CASE i = Len(s) + 1 /\ j \in 1..Len(s)
  BY <1>1, <1>2, <1>5
<1>6. CASE i \in 1..Len(s) /\ j = Len(s) + 1
  BY <1>1, <1>2, <1>6
<1> QED BY <1>3, <1>4, <1>5, <1>6

\* The connection and the identifiers in flight.
LEMMA LinkInductive == Spec => [](LinkInv /\ UniqueInv)
<1>1. Init => LinkInv /\ UniqueInv
  BY DEF Init, LinkInv, UniqueInv
<1>2. TypeInv /\ FrameInv /\ LinkInv /\ [Next]_vars => LinkInv'
  <2> SUFFICES ASSUME TypeInv, FrameInv, LinkInv, [Next]_vars PROVE LinkInv'
    OBVIOUS
  <2>1. (~connected => ~link /\ stack = <<>>) /\ (~link => toBroker = <<>> /\ toClient = <<>>)
    BY DEF LinkInv
  <2>2. CASE Publish
    BY <2>1, <2>2 DEF Publish, Admitted, Sent, network, LinkInv
  <2>3. ASSUME NEW topic \in Topics, Subscribe(topic) PROVE LinkInv'
    BY <2>1, <2>3 DEF Subscribe, Admitted, Sent, network, LinkInv
  <2>4. ASSUME NEW topic \in Topics, Unsubscribe(topic) PROVE LinkInv'
    BY <2>1, <2>4 DEF Unsubscribe, Admitted, Sent, network, LinkInv
  <2>5. CASE ResubscribeSend
    <3>1. connected
      BY <2>1, <2>5 DEF ResubscribeSend, At
    <3> QED BY <2>1, <2>5, <3>1 DEF ResubscribeSend, Sent, network, LinkInv
  <2>6. CASE ReceiveAck \/ ReceiveOther \/ DeliverMessage
    BY <2>1, <2>6 DEF ReceiveAck, ReceiveOther, DeliverMessage, Read, LinkInv
  <2>7. CASE WaitTimeout \/ Return \/ Resubscribe
    BY <2>1, <2>7 DEF WaitTimeout, Return, Resubscribe, Admitted, At, network, LinkInv
  <2>8. CASE LinkDown \/ Disconnect
    BY <2>1, <2>8 DEF LinkDown, Disconnect, LinkInv
  <2>9. CASE Connect
    BY <2>9 DEF Connect, LinkInv
  <2>10. CASE BrokerAnswer
    BY <2>1, <2>10 DEF BrokerAnswer, LinkInv
  <2>11. ASSUME NEW topic \in Topics, BrokerPublish(topic) PROVE LinkInv'
    BY <2>1, <2>11 DEF BrokerPublish, LinkInv
  <2>12. CASE UNCHANGED vars
    BY <2>1, <2>12 DEF vars, network, LinkInv
  <2> QED BY <2>2, <2>3, <2>4, <2>5, <2>6, <2>7, <2>8, <2>9, <2>10, <2>11, <2>12
          DEF Next, ConnectOnly, Reconnect
<1>3. TypeInv /\ FrameInv /\ LinkInv /\ UniqueInv /\ [Next]_vars => UniqueInv'
  <2> SUFFICES ASSUME TypeInv, FrameInv, LinkInv, UniqueInv, [Next]_vars PROVE UniqueInv'
    OBVIOUS
  <2>0. toBroker \in Seq(RequestPackets) /\ toClient \in Seq(Packets)
    BY DEF TypeInv
  <2>00. \A p \in RequestPackets : p.id # 0
    BY SessionAssumption DEF RequestPackets, Ids
  <2>1. CASE UNCHANGED <<toBroker, toClient>>
    BY <2>1 DEF UniqueInv
  <2>2. CASE toBroker' = <<>> /\ toClient' = <<>>
    BY <2>2 DEF UniqueInv
  <2>3. ASSUME NEW p \in RequestPackets, p.id = NextPacketId, NextPacketId \notin InFlight,
               toBroker' = Append(toBroker, p), toClient' = toClient
        PROVE  UniqueInv'
    <3>1. /\ \A i \in 1..Len(toBroker) : toBroker[i].id # p.id
          /\ \A i \in 1..Len(toClient) : toClient[i].id # p.id
      BY <2>3, InFlightIds
    <3>2. \A i, j \in 1..Len(toBroker') : toBroker'[i].id # 0 /\ toBroker'[i].id = toBroker'[j].id => i = j
      BY <2>0, <2>3, <3>1, UniqueAppend DEF UniqueInv
    <3>3. /\ Len(toBroker) \in Nat /\ Len(toBroker') = Len(toBroker) + 1
          /\ \A i \in 1..Len(toBroker) : toBroker'[i] = toBroker[i]
          /\ toBroker'[Len(toBroker) + 1] = p
      BY <2>0, <2>3, Appended
    <3>4. \A i \in 1..Len(toBroker') : i \in 1..Len(toBroker) \/ i = Len(toBroker) + 1
      BY <3>3
    <3>5. \A i \in 1..Len(toBroker') : toBroker'[i].id # 0
      BY <2>0, <2>00, <3>3, <3>4
    <3>6. \A i \in 1..Len(toBroker'), j \in 1..Len(toClient) : toBroker'[i].id # toClient[j].id
      BY <3>1, <3>3, <3>4 DEF UniqueInv
    <3> QED BY <2>3, <3>2, <3>5, <3>6 DEF UniqueInv
  <2>4. CASE toClient # <<>> /\ toClient' = Tail(toClient) /\ toBroker' = toBroker
    <3>1. /\ Len(toClient) \in Nat \ {0} /\ Len(toClient') = Len(toClient) - 1
          /\ \A i \in 1..(Len(toClient) - 1) : toClient'[i] = toClient[i + 1]
      BY <2>0, <2>4, Taken
    <3>2. \A i \in 1..Len(toClient') : i + 1 \in 1..Len(toClient) /\ toClient'[i] = toClient[i + 1]
      BY <3>1
    <3>3. ASSUME NEW i \in 1..Len(toClient'), NEW j \in 1..Len(toClient'), i + 1 = j + 1 PROVE i = j
      BY <3>3
    <3> QED BY <2>4, <3>2, <3>3 DEF UniqueInv
  <2>5. CASE BrokerAnswer
    <3> DEFINE p == Head(toBroker)
               q == AckPacket(Head(toBroker))
    <3>1. /\ toBroker # <<>> /\ p \in RequestPackets /\ p = toBroker[1] /\ toBroker' = Tail(toBroker)
          /\ q \in Packets /\ q.id = p.id /\ toClient' = Append(toClient, q)
      BY <2>5, AnswerStep
    <3> HIDE DEF p, q
    <3>2. /\ Len(toBroker) \in Nat \ {0} /\ Len(toBroker') = Len(toBroker) - 1
          /\ \A i \in 1..(Len(toBroker) - 1) : toBroker'[i] = toBroker[i + 1]
      BY <2>0, <3>1, Taken
    <3>3. \A i \in 1..Len(toBroker') : i + 1 \in 1..Len(toBroker) /\ toBroker'[i] = toBroker[i + 1] /\ i + 1 # 1
      BY <3>2
    <3>4. 1 \in 1..Len(toBroker)
      BY <3>2
    <3>5. \A i, j \in 1..Len(toBroker') : toBroker'[i].id = toBroker'[j].id => i = j
      <4>1. ASSUME NEW i \in 1..Len(toBroker'), NEW j \in 1..Len(toBroker'), i + 1 = j + 1 PROVE i = j
        BY <4>1
      <4> QED BY <3>3, <4>1 DEF UniqueInv
    <3>6. q.id # 0 /\ \A i \in 1..Len(toClient) : toClient[i].id # q.id
      BY <2>00, <3>1, <3>4 DEF UniqueInv
    <3>7. \A i, j \in 1..Len(toClient') : toClient'[i].id # 0 /\ toClient'[i].id = toClient'[j].id => i = j
      BY <2>0, <3>1, <3>6, UniqueAppend DEF UniqueInv
    <3>8. /\ Len(toClient) \in Nat /\ Len(toClient') = Len(toClient) + 1
          /\ \A i \in 1..Len(toClient) : toClient'[i] = toClient[i]
          /\ toClient'[Len(toClient) + 1] = q
      BY <2>0, <3>1, Appended
    <3>9. \A i \in 1..Len(toClient') : i \in 1..Len(toClient) \/ i = Len(toClient) + 1
      BY <3>8
    <3>10. \A i \in 1..Len(toClient') : toClient'[i].type # "PUBLISH" => toClient'[i].id # 0
      BY <3>6, <3>8, <3>9 DEF UniqueInv
    <3>11. \A i \in 1..Len(toBroker'), j \in 1..Len(toClient') : toBroker'[i].id # toClient'[j].id
      <4> SUFFICES ASSUME NEW i \in 1..Len(toBroker'), NEW j \in 1..Len(toClient')
                   PROVE  toBroker'[i].id # toClient'[j].id
        OBVIOUS
      <4>1. CASE j \in 1..Len(toClient)
        BY <3>3, <3>8, <4>1 DEF UniqueInv
      <4>2. CASE j = Len(toClient) + 1
        <5>1. toBroker'[i].id # toBroker[1].id
          BY <3>3, <3>4 DEF UniqueInv
        <5> QED BY <3>1, <3>8, <4>2, <5>1
      <4> QED BY <3>9, <4>1, <4>2
    <3> QED BY <3>5, <3>7, <3>10, <3>11 DEF UniqueInv
  <2>6. ASSUME NEW topic \in Topics, BrokerPublish(topic) PROVE UniqueInv'
    <3> DEFINE q == [type |-> "PUBLISH", id |-> 0, topic |-> topic]
    <3>1. q \in Packets /\ q.id = 0 /\ q.type = "PUBLISH"
      BY DEF Packets
    <3>2. toClient' = Append(toClient, q) /\ toBroker' = toBroker
      BY <2>6 DEF BrokerPublish
    <3> HIDE DEF q
    <3>3. \A i, j \in 1..Len(toClient') : toClient'[i].id # 0 /\ toClient'[i].id = toClient'[j].id => i = j
      BY <2>0, <3>1, <3>2, UniqueAppend DEF UniqueInv
    <3>4. /\ Len(toClient) \in Nat /\ Len(toClient') = Len(toClient) + 1
          /\ \A i \in 1..Len(toClient) : toClient'[i] = toClient[i]
          /\ toClient'[Len(toClient) + 1] = q
      BY <2>0, <3>1, <3>2, Appended
    <3>5. \A i \in 1..Len(toClient') : i \in 1..Len(toClient) \/ i = Len(toClient) + 1
      BY <3>4
    <3>6. \A i \in 1..Len(toBroker) : toBroker[i].id # 0
      BY <2>0, <2>00
    <3>7. \A i \in 1..Len(toBroker), j \in 1..Len(toClient') : toBroker[i].id # toClient'[j].id
      BY <3>1, <3>4, <3>5, <3>6 DEF UniqueInv
    <3>8. \A i \in 1..Len(toClient') : toClient'[i].type # "PUBLISH" => toClient'[i].id # 0
      BY <3>1, <3>4, <3>5 DEF UniqueInv
    <3> QED BY <3>2, <3>3, <3>7, <3>8 DEF UniqueInv
  <2> QED BY <2>1, <2>2, <2>3, <2>4, <2>5, <2>6, ChannelStep
<1> QED BY <1>1, <1>2, <1>3, FrameInductive, PTL DEF Spec

-----------------------------------------------------------------------------
(* Whose answer is it?                                                     *)

Acks == {"SUBACK", "UNSUBACK", "PUBACK"}

\* The identifiers of the packets to which a request waits for this type of answer.
Waiting(ack) ==
  {stack[d].id : d \in {e \in 1..Len(stack) : stack[e].pc = "wait" /\ Awaited(stack[e].fn) = ack}}

\* Every request in flight, and every answer, is that of a request that still waits for it.
OwnInv(ack) ==
  /\ \A i \in 1..Len(toBroker) : AckOf(toBroker[i].type) = ack => toBroker[i].id \in Waiting(ack)
  /\ \A i \in 1..Len(toClient) : toClient[i].type = ack => /\ toClient[i].id \in processed
                                                           /\ toClient[i].id \in Waiting(ack)

\* Of the requests under way, one at most waits for this type of acknowledgement.
Alone(ack) ==
  \A d, e \in 1..Len(stack) :
    /\ stack[d].pc = "wait" /\ Awaited(stack[d].fn) = ack
    /\ stack[e].pc = "wait" /\ Awaited(stack[e].fn) = ack
    => d = e

\* A request goes on waiting while others come and go.
LEMMA WaitingKept ==
  ASSUME TypeInv, NEW id, NEW ack, id \in Waiting(ack),
         \/ stack' = stack
         \/ \E f \in Frames : stack' = Append(stack, f)
         \/ /\ stack # <<>> /\ (Top.pc # "wait" \/ Top.id # id \/ Awaited(Top.fn) # ack)
            /\ (\E f \in Frames : SetTop(f)) \/ stack' = Front(stack)
  PROVE  id \in Waiting(ack)'
<1>0. stack \in Seq(Frames)
  BY DEF TypeInv
<1>1. PICK d \in 1..Len(stack) : stack[d].pc = "wait" /\ stack[d].id = id /\ Awaited(stack[d].fn) = ack
  BY DEF Waiting
<1>2. SUFFICES d \in 1..Len(stack') /\ stack'[d] = stack[d]
  BY <1>1 DEF Waiting
<1>3. CASE stack' = stack
  BY <1>3
<1>4. ASSUME NEW f \in Frames, stack' = Append(stack, f) PROVE d \in 1..Len(stack') /\ stack'[d] = stack[d]
  <2>1. /\ Len(stack) \in Nat /\ Len(stack') = Len(stack) + 1
        /\ \A e \in 1..Len(stack) : stack'[e] = stack[e]
    BY <1>0, <1>4, Pushed
  <2> QED BY <2>1
<1>5. CASE stack # <<>> /\ (Top.pc # "wait" \/ Top.id # id \/ Awaited(Top.fn) # ack)
  <2>1. d # Len(stack)
    BY <1>0, <1>1, <1>5, TopType
  <2>2. ASSUME NEW f \in Frames, SetTop(f) PROVE d \in 1..Len(stack') /\ stack'[d] = stack[d]
    <3>1. /\ Len(stack') = Len(stack)
          /\ \A e \in 1..Len(stack) : e # Len(stack) => stack'[e] = stack[e]
      BY <1>0, <1>5, <2>2, TopSet
    <3> QED BY <2>1, <3>1
  <2>3. ASSUME stack' = Front(stack) PROVE d \in 1..Len(stack') /\ stack'[d] = stack[d]
    <3>1. /\ Len(stack) \in Nat \ {0} /\ Len(stack') = Len(stack) - 1
          /\ \A e \in 1..(Len(stack) - 1) : stack'[e] = stack[e]
      BY <1>0, <1>5, <2>3, Popped
    <3>2. d \in 1..(Len(stack) - 1)
      BY <2>1, <3>1
    <3> QED BY <3>1, <3>2
  <2>4. CASE stack' = stack
    BY <2>4
  <2>5. CASE \E f \in Frames : stack' = Append(stack, f)
    BY <1>4, <2>5
  <2> QED BY <2>2, <2>3, <2>4, <2>5
<1> QED BY <1>3, <1>4, <1>5

\* The packets in flight have their identifiers in InFlight.
LEMMA InFlightHas ==
  ASSUME TypeInv
  PROVE  /\ \A i \in 1..Len(toBroker) : toBroker[i].id \in InFlight
         /\ \A i \in 1..Len(toClient) : toClient[i].id \in InFlight
BY DEF InFlight, TypeInv

\* A request is sent, or cannot be sent.
LEMMA OwnRequest ==
  ASSUME TypeInv, NEW ack, OwnInv(ack), TakeId, toClient' = toClient,
         \A id : id \in Waiting(ack) => id \in Waiting(ack)',
         \/ toBroker' = toBroker
         \/ \E p \in RequestPackets : /\ toBroker' = Append(toBroker, p)
                                      /\ AckOf(p.type) = ack => p.id \in Waiting(ack)'
  PROVE  OwnInv(ack)'
<1>0. toBroker \in Seq(RequestPackets)
  BY DEF TypeInv
<1>1. NextPacketId \notin InFlight /\ processed' = processed \ {NextPacketId}
  BY DEF TakeId
<1>2. \A i \in 1..Len(toClient') : toClient'[i].type = ack => /\ toClient'[i].id \in processed'
                                                              /\ toClient'[i].id \in Waiting(ack)'
  BY <1>1, InFlightHas DEF OwnInv
<1>3. \A i \in 1..Len(toBroker) : AckOf(toBroker[i].type) = ack => toBroker[i].id \in Waiting(ack)'
  BY DEF OwnInv
<1>4. CASE toBroker' = toBroker
  BY <1>2, <1>3, <1>4 DEF OwnInv
<1>5. ASSUME NEW p \in RequestPackets, toBroker' = Append(toBroker, p), AckOf(p.type) = ack => p.id \in Waiting(ack)'
      PROVE  OwnInv(ack)'
  <2>1. /\ Len(toBroker) \in Nat /\ Len(toBroker') = Len(toBroker) + 1
        /\ \A i \in 1..Len(toBroker) : toBroker'[i] = toBroker[i]
        /\ toBroker'[Len(toBroker) + 1] = p
    BY <1>0, <1>5, Appended
  <2>2. \A i \in 1..Len(toBroker') : i \in 1..Len(toBroker) \/ i = Len(toBroker) + 1
    BY <2>1
  <2>3. \A i \in 1..Len(toBroker') : AckOf(toBroker'[i].type) = ack => toBroker'[i].id \in Waiting(ack)'
    BY <1>3, <1>5, <2>1, <2>2
  <2> QED BY <1>2, <2>3 DEF OwnInv
<1> QED BY <1>4, <1>5

\* A packet of the broker is read.
LEMMA OwnRead ==
  ASSUME TypeInv, UniqueInv, NEW ack \in Acks, OwnInv(ack), Read,
         \A id : id \in Waiting(ack) /\ (Head(toClient).type = ack => id # Head(toClient).id) => id \in Waiting(ack)'
  PROVE  OwnInv(ack)'
<1>0. toClient \in Seq(Packets) /\ toClient # <<>> /\ toClient' = Tail(toClient) /\ UNCHANGED <<toBroker, processed>>
  BY DEF TypeInv, Read
<1>1. /\ Len(toClient) \in Nat \ {0} /\ Len(toClient') = Len(toClient) - 1 /\ Head(toClient) = toClient[1]
      /\ \A i \in 1..(Len(toClient) - 1) : toClient'[i] = toClient[i + 1]
  BY <1>0, Taken
<1>2. \A i \in 1..Len(toClient') : i + 1 \in 1..Len(toClient) /\ toClient'[i] = toClient[i + 1] /\ i + 1 # 1
  BY <1>1
<1>3. 1 \in 1..Len(toClient)
  BY <1>1
<1>4. ASSUME NEW i \in 1..Len(toClient'), toClient'[i].type = ack
      PROVE  toClient'[i].id \in processed' /\ toClient'[i].id \in Waiting(ack)'
  <2>1. toClient[i + 1].type # "PUBLISH"
    BY <1>2, <1>4 DEF Acks
  <2>2. toClient[i + 1].id # toClient[1].id
    BY <1>2, <1>3, <2>1 DEF UniqueInv
  <2> QED BY <1>0, <1>1, <1>2, <1>4, <2>2 DEF OwnInv
<1>5. ASSUME NEW i \in 1..Len(toBroker'), AckOf(toBroker'[i].type) = ack PROVE toBroker'[i].id \in Waiting(ack)'
  <2>1. toBroker[i].id # toClient[1].id
    BY <1>0, <1>3 DEF UniqueInv
  <2> QED BY <1>0, <1>1, <1>5, <2>1 DEF OwnInv
<1> QED BY <1>4, <1>5 DEF OwnInv

\* What the calls await.
LEMMA AwaitedTypes ==
  /\ Awaited("publish") = AckOf("PUBLISH") /\ Awaited("subscribe") = AckOf("SUBSCRIBE")
  /\ Awaited("unsubscribe") = AckOf("UNSUBSCRIBE") /\ Awaited("resubscribe") = AckOf("SUBSCRIBE")
  /\ AckOf("PUBLISH") = "PUBACK" /\ AckOf("SUBSCRIBE") = "SUBACK" /\ AckOf("UNSUBSCRIBE") = "UNSUBACK"
BY DEF Awaited, AckOf

\* A request is sent and waits.
LEMMA OwnSent ==
  ASSUME TypeInv, FrameInv, NEW ack, OwnInv(ack), TakeId,
         NEW type \in {"SUBSCRIBE", "UNSUBSCRIBE", "PUBLISH"}, NEW topic \in Topics \union {NoTopic},
         type = "PUBLISH" => topic = NoTopic, Sent(type, topic),
         NEW f \in Frames, f.pc = "wait", f.id = NextPacketId, Awaited(f.fn) = AckOf(type),
         stack' = Append(stack, f) \/ (stack # <<>> /\ Top.pc = "send" /\ SetTop(f))
  PROVE  OwnInv(ack)'
<1>0. stack \in Seq(Frames)
  BY DEF TypeInv
<1>1. stack' \in Seq(Frames) /\ stack' # <<>> /\ stack'[Len(stack')] = f
  <2>1. CASE stack' = Append(stack, f)
    <3>1. /\ stack' \in Seq(Frames) /\ Len(stack) \in Nat /\ Len(stack') = Len(stack) + 1
          /\ stack'[Len(stack) + 1] = f
      BY <1>0, <2>1, Pushed
    <3> QED BY <3>1
  <2>2. CASE stack # <<>> /\ SetTop(f)
    <3>1. /\ stack' \in Seq(Frames) /\ Len(stack) \in Nat \ {0} /\ Len(stack') = Len(stack)
          /\ stack'[Len(stack)] = f
      BY <1>0, <2>2, TopSet
    <3> QED BY <3>1
  <2> QED BY <2>1, <2>2
<1>2. NextPacketId \in Waiting(AckOf(type))'
  <2>1. PICK a : a = Awaited(f.fn)
    OBVIOUS
  <2>2. f.id \in Waiting(a)'
    BY <1>1, <2>1 DEF Waiting
  <2>3. PICK b : b = AckOf(type)
    OBVIOUS
  <2>4. a = b
    BY <2>1, <2>3
  <2> QED BY <2>2, <2>3, <2>4 DEF Waiting
<1>3. \A id : id \in Waiting(ack) => id \in Waiting(ack)'
  BY WaitingKept
<1>4. toClient' = toClient
  BY DEF Sent
<1>5. \/ toBroker' = toBroker
      \/ \E p \in RequestPackets : /\ toBroker' = Append(toBroker, p)
                                   /\ AckOf(p.type) = ack => p.id \in Waiting(ack)'
  <2> DEFINE p == [type |-> type, id |-> NextPacketId, topic |-> topic]
  <2>1. p \in RequestPackets
    BY SentKeeps
  <2>2. p.id = NextPacketId /\ p.type = type
    OBVIOUS
  <2>3. toBroker' = Append(toBroker, p) \/ toBroker' = toBroker
    BY DEF Sent
  <2> HIDE DEF p
  <2> QED BY <1>2, <2>1, <2>2, <2>3
<1> QED BY <1>3, <1>4, <1>5, OwnRequest

\* The fields of the activations that send.
LEMMA SendingFrames ==
  /\ [NewFrame("publish", NoTopic) EXCEPT !.id = NextPacketId].fn = "publish"
  /\ [NewFrame("publish", NoTopic) EXCEPT !.id = NextPacketId].pc = "wait"
  /\ [NewFrame("publish", NoTopic) EXCEPT !.id = NextPacketId].id = NextPacketId
  /\ \A topic \in Topics :
       /\ [NewFrame("unsubscribe", topic) EXCEPT !.id = NextPacketId].fn = "unsubscribe"
       /\ [NewFrame("unsubscribe", topic) EXCEPT !.id = NextPacketId].pc = "wait"
       /\ [NewFrame("unsubscribe", topic) EXCEPT !.id = NextPacketId].id = NextPacketId
       /\ [NewFrame("subscribe", topic) EXCEPT !.index = FreeIndex, !.id = NextPacketId].fn = "subscribe"
       /\ [NewFrame("subscribe", topic) EXCEPT !.index = FreeIndex, !.id = NextPacketId].pc = "wait"
       /\ [NewFrame("subscribe", topic) EXCEPT !.index = FreeIndex, !.id = NextPacketId].id = NextPacketId
  /\ \A f \in Frames : /\ [f EXCEPT !.pc = "wait", !.id = NextPacketId].fn = f.fn
                       /\ [f EXCEPT !.pc = "wait", !.id = NextPacketId].pc = "wait"
                       /\ [f EXCEPT !.pc = "wait", !.id = NextPacketId].id = NextPacketId
BY DEF NewFrame, Frames

\* A step keeps every answer with the request that waits for it, if no other request waits for
\* the same type and no timer expires while an answer may still come.
LEMMA OwnStep ==
  ASSUME ~LateAnswers, TypeInv, FrameInv, LinkInv, UniqueInv, NEW ack \in Acks, Alone(ack), OwnInv(ack),
         [Next]_vars
  PROVE  OwnInv(ack)'
<1>0. stack \in Seq(Frames) /\ toBroker \in Seq(RequestPackets) /\ toClient \in Seq(Packets)
  BY DEF TypeInv
<1>1. ASSUME TakeId, UNCHANGED <<toBroker, toClient>>, \A id : id \in Waiting(ack) => id \in Waiting(ack)'
      PROVE  OwnInv(ack)'
  BY <1>1, OwnRequest
<1>2. ASSUME UNCHANGED <<toBroker, toClient, processed>>,
             \A id \in InFlight : id \in Waiting(ack) => id \in Waiting(ack)'
      PROVE  OwnInv(ack)'
  BY <1>2, InFlightHas DEF OwnInv
<1>3. ASSUME toBroker' = <<>>, toClient' = <<>> PROVE OwnInv(ack)'
  BY <1>3 DEF OwnInv
<1>4. ASSUME stack' = stack PROVE \A id : id \in Waiting(ack) => id \in Waiting(ack)'
  BY <1>4, WaitingKept
<1>5. CASE Publish
  <2>1. CASE UNCHANGED <<network, stack>>
    BY <1>1, <1>4, <1>5, <2>1 DEF Publish, network
  <2>2. CASE /\ Sent("PUBLISH", NoTopic)
             /\ stack' = Append(stack, [NewFrame("publish", NoTopic) EXCEPT !.id = NextPacketId])
    <3> DEFINE f == [NewFrame("publish", NoTopic) EXCEPT !.id = NextPacketId]
    <3>1. f \in Frames /\ f.fn = "publish" /\ f.pc = "wait" /\ f.id = NextPacketId /\ stack' = Append(stack, f)
      BY <2>2, CallFrames, SendingFrames
    <3>2. TakeId
      BY <1>5 DEF Publish
    <3> HIDE DEF f
    <3> QED BY <2>2, <3>1, <3>2, AwaitedTypes, OwnSent
  <2> QED BY <1>5, <2>1, <2>2 DEF Publish
<1>6. ASSUME NEW topic \in Topics, Subscribe(topic) PROVE OwnInv(ack)'
  <2>1. CASE UNCHANGED <<network, stack>>
    BY <1>1, <1>4, <1>6, <2>1 DEF Subscribe, network
  <2>2. CASE /\ FreeIndex <= NumHandlers
             /\ Sent("SUBSCRIBE", topic)
             /\ stack' = Append(stack, [NewFrame("subscribe", topic) EXCEPT
                                          !.index = FreeIndex, !.id = NextPacketId])
    <3> DEFINE f == [NewFrame("subscribe", topic) EXCEPT !.index = FreeIndex, !.id = NextPacketId]
    <3>1. f \in Frames /\ f.fn = "subscribe" /\ f.pc = "wait" /\ f.id = NextPacketId /\ stack' = Append(stack, f)
      BY <2>2, CallFrames, SendingFrames
    <3>2. TakeId
      BY <1>6 DEF Subscribe
    <3> HIDE DEF f
    <3> QED BY <2>2, <3>1, <3>2, AwaitedTypes, OwnSent
  <2> QED BY <1>6, <2>1, <2>2 DEF Subscribe
<1>7. ASSUME NEW topic \in Topics, Unsubscribe(topic) PROVE OwnInv(ack)'
  <2>1. CASE UNCHANGED <<network, stack>>
    BY <1>1, <1>4, <1>7, <2>1 DEF Unsubscribe, network
  <2>2. CASE /\ Sent("UNSUBSCRIBE", topic)
             /\ stack' = Append(stack, [NewFrame("unsubscribe", topic) EXCEPT !.id = NextPacketId])
    <3> DEFINE f == [NewFrame("unsubscribe", topic) EXCEPT !.id = NextPacketId]
    <3>1. f \in Frames /\ f.fn = "unsubscribe" /\ f.pc = "wait" /\ f.id = NextPacketId /\ stack' = Append(stack, f)
      BY <2>2, CallFrames, SendingFrames
    <3>2. TakeId
      BY <1>7 DEF Unsubscribe
    <3> HIDE DEF f
    <3> QED BY <2>2, <3>1, <3>2, AwaitedTypes, OwnSent
  <2> QED BY <1>7, <2>1, <2>2 DEF Unsubscribe
<1>8. CASE ResubscribeSend
  <2>1. stack # <<>> /\ Top \in Frames /\ FrameOK(Top) /\ Top.fn = "resubscribe" /\ Top.pc = "send"
    BY <1>8, TopOK DEF ResubscribeSend, At
  <2>2. 1 \in Ids /\ NextPacketId \in Ids
    BY SessionAssumption, NextPacketIdType DEF Ids, TypeInv
  <2>3. ASSUME NEW g \in Frames, SetTop(g) PROVE \A id : id \in Waiting(ack) => id \in Waiting(ack)'
    BY <2>1, <2>3, WaitingKept
  <2>4. CASE Top.index > Top.count
    <3>1. SetTop([Top EXCEPT !.pc = "return", !.ok = TRUE]) /\ UNCHANGED <<network, processed>>
      BY <1>8, <2>4 DEF ResubscribeSend
    <3>2. [Top EXCEPT !.pc = "return", !.ok = TRUE] \in Frames
      BY <2>1, <2>2, MovedFrames
    <3> QED BY <1>2, <2>3, <3>1, <3>2 DEF network
  <2>5. CASE ~(Top.index > Top.count)
    <3>1. TakeId
      BY <1>8, <2>5 DEF ResubscribeSend
    <3>2. CASE SetTop([Top EXCEPT !.pc = "return"]) /\ UNCHANGED network
      <4>1. [Top EXCEPT !.pc = "return"] \in Frames
        BY <2>1, <2>2, MovedFrames
      <4> QED BY <1>1, <2>3, <3>1, <3>2, <4>1 DEF network
    <3>3. CASE /\ Sent("SUBSCRIBE", messageHandlers[Top.index])
               /\ SetTop([Top EXCEPT !.pc = "wait", !.id = NextPacketId])
      <4>1. Top.index <= Top.count /\ Top.index \in Slots
        BY <2>1, <2>5, SessionAssumption DEF FrameOK, Frames, Slots
      <4>2. messageHandlers[Top.index] \in Topics \union {NoTopic}
        BY <4>1 DEF TypeInv
      <4> DEFINE f == [Top EXCEPT !.pc = "wait", !.id = NextPacketId]
      <4>3. f \in Frames /\ f.fn = "resubscribe" /\ f.pc = "wait" /\ f.id = NextPacketId /\ SetTop(f)
        BY <2>1, <2>2, <3>3, <4>1, MovedFrames, SendingFrames
      <4> HIDE DEF f
      <4> QED BY <2>1, <3>1, <3>3, <4>2, <4>3, AwaitedTypes, OwnSent
    <3> QED BY <1>8, <2>5, <3>2, <3>3 DEF ResubscribeSend
  <2> QED BY <2>4, <2>5
<1>9. CASE ReceiveAck
  <2>1. /\ stack # <<>> /\ Top \in Frames /\ FrameOK(Top) /\ Top.pc = "wait" /\ Top = stack[Len(stack)]
        /\ Len(stack) \in 1..Len(stack) /\ Read /\ Head(toClient).type = Awaited(Top.fn)
    BY SMTT(30), <1>9, TopOK DEF ReceiveAck, At
  <2>2. SetTop(AckFrame(Top)) /\ AckFrame(Top) \in Frames
    BY <1>9, <2>1, AckFrameKeeps DEF ReceiveAck, AckFrame
  <2>3. Awaited(Top.fn) = ack => Top.id = Head(toClient).id
    <3> SUFFICES ASSUME Awaited(Top.fn) = ack PROVE Top.id = Head(toClient).id
      OBVIOUS
    <3>1. Head(toClient) = toClient[1] /\ 1 \in 1..Len(toClient)
      BY <1>0, <2>1, Taken DEF Read
    <3>2. Head(toClient).id \in Waiting(ack)
      BY <2>1, <3>1 DEF OwnInv
    <3>3. PICK d \in 1..Len(stack) : /\ stack[d].pc = "wait" /\ Awaited(stack[d].fn) = ack
                                     /\ stack[d].id = Head(toClient).id
      BY <3>2 DEF Waiting
    <3>4. d = Len(stack)
      BY <2>1, <3>3 DEF Alone
    <3> QED BY <2>1, <3>3, <3>4
  <2>4. ASSUME NEW id, id \in Waiting(ack), Head(toClient).type = ack => id # Head(toClient).id
        PROVE  id \in Waiting(ack)'
    BY <2>1, <2>2, <2>3, <2>4, WaitingKept
  <2> QED BY <2>1, <2>4, OwnRead
<1>10. CASE ReceiveOther
  BY <1>4, <1>10, OwnRead DEF ReceiveOther
<1>11. CASE DeliverMessage
  <2>1. Head(toClient).topic \in Topics
    BY <1>11 DEF DeliverMessage, Subscribed, Range, TypeInv
  <2>2. \A id : id \in Waiting(ack) => id \in Waiting(ack)'
    BY <1>11, <2>1, CallFrames, WaitingKept DEF DeliverMessage
  <2> QED BY <1>11, <2>2, OwnRead DEF DeliverMessage
<1>12. CASE WaitTimeout
  <2>1. /\ stack # <<>> /\ Top \in Frames /\ FrameOK(Top) /\ Top.fn # "deliver_message"
        /\ SetTop([Top EXCEPT !.pc = "return"]) /\ UNCHANGED <<network, processed>>
        /\ ~link \/ Top.id \notin InFlight
    BY <1>12, TopOK DEF WaitTimeout, At, FrameOK, Answerable
  <2>2. CASE ~link
    BY <1>3, <2>1, <2>2 DEF LinkInv, network
  <2>3. CASE Top.id \notin InFlight
    <3>1. 1 \in Ids
      BY SessionAssumption DEF Ids
    <3>2. [Top EXCEPT !.pc = "return"] \in Frames
      BY <2>1, <3>1, MovedFrames
    <3>3. \A id \in InFlight : id \in Waiting(ack) => id \in Waiting(ack)'
      BY <2>1, <2>3, <3>2, WaitingKept
    <3> QED BY <1>2, <2>1, <3>3 DEF network
  <2> QED BY <2>1, <2>2, <2>3
<1>13. CASE Return
  <2>1. stack # <<>> /\ Top.pc # "wait" /\ stack' = Front(stack) /\ UNCHANGED <<network, processed>>
    BY <1>13 DEF Return, At
  <2>2. \A id : id \in Waiting(ack) => id \in Waiting(ack)'
    BY <2>1, WaitingKept
  <2> QED BY <1>2, <2>1, <2>2 DEF network
<1>14. CASE Resubscribe
  <2>1. stack = <<>> /\ UNCHANGED <<network, processed>>
    BY <1>14, SessionAssumption DEF Resubscribe, Admitted
  <2>2. Waiting(ack) = {}
    BY <2>1 DEF Waiting
  <2> QED BY <1>2, <2>1, <2>2 DEF network
<1>15. CASE LinkDown \/ Disconnect
  BY <1>3, <1>15 DEF LinkDown, Disconnect
<1>16. CASE Connect
  BY <1>3, <1>16 DEF Connect, LinkInv
<1>17. CASE BrokerAnswer
  <2> DEFINE p == Head(toBroker)
             q == AckPacket(Head(toBroker))
  <2>1. /\ toBroker # <<>> /\ p \in RequestPackets /\ p = toBroker[1] /\ toBroker' = Tail(toBroker)
        /\ q \in Packets /\ q.id = p.id /\ q.type = AckOf(p.type) /\ toClient' = Append(toClient, q)
        /\ processed' = processed \union {p.id} /\ stack' = stack
    BY <1>17, AnswerStep DEF BrokerAnswer
  <2> HIDE DEF p, q
  <2>2. \A id : id \in Waiting(ack) => id \in Waiting(ack)'
    BY <1>4, <2>1
  <2>3. /\ Len(toBroker) \in Nat \ {0} /\ Len(toBroker') = Len(toBroker) - 1
        /\ \A i \in 1..(Len(toBroker) - 1) : toBroker'[i] = toBroker[i + 1]
    BY <1>0, <2>1, Taken
  <2>4. \A i \in 1..Len(toBroker') : i + 1 \in 1..Len(toBroker) /\ toBroker'[i] = toBroker[i + 1]
    BY <2>3
  <2>5. 1 \in 1..Len(toBroker)
    BY <2>3
  <2>6. /\ Len(toClient) \in Nat /\ Len(toClient') = Len(toClient) + 1
        /\ \A i \in 1..Len(toClient) : toClient'[i] = toClient[i]
        /\ toClient'[Len(toClient) + 1] = q
    BY <1>0, <2>1, Appended
  <2>7. \A i \in 1..Len(toClient') : i \in 1..Len(toClient) \/ i = Len(toClient) + 1
    BY <2>6
  <2>8. \A i \in 1..Len(toBroker') : AckOf(toBroker'[i].type) = ack => toBroker'[i].id \in Waiting(ack)'
    BY <2>2, <2>4 DEF OwnInv
  <2>9. q.type = ack => q.id \in processed' /\ q.id \in Waiting(ack)'
    BY <2>1, <2>2, <2>5 DEF OwnInv
  <2>10. \A i \in 1..Len(toClient) : toClient[i].type = ack => /\ toClient[i].id \in processed'
                                                               /\ toClient[i].id \in Waiting(ack)'
    BY <2>1, <2>2 DEF OwnInv
  <2>11. \A i \in 1..Len(toClient') : toClient'[i].type = ack => /\ toClient'[i].id \in processed'
                                                                 /\ toClient'[i].id \in Waiting(ack)'
    BY <2>6, <2>7, <2>9, <2>10
  <2> QED BY <2>8, <2>11 DEF OwnInv
<1>18. ASSUME NEW topic \in Topics, BrokerPublish(topic) PROVE OwnInv(ack)'
  <2> DEFINE q == [type |-> "PUBLISH", id |-> 0, topic |-> topic]
  <2>1. q \in Packets /\ q.type = "PUBLISH"
    BY DEF Packets
  <2>2. toClient' = Append(toClient, q) /\ UNCHANGED <<toBroker, processed, stack>>
    BY <1>18 DEF BrokerPublish
  <2> HIDE DEF q
  <2>3. \A id : id \in Waiting(ack) => id \in Waiting(ack)'
    BY <1>4, <2>2
  <2>4. /\ Len(toClient) \in Nat /\ Len(toClient') = Len(toClient) + 1
        /\ \A i \in 1..Len(toClient) : toClient'[i] = toClient[i]
        /\ toClient'[Len(toClient) + 1] = q
    BY <1>0, <2>1, <2>2, Appended
  <2>5. \A i \in 1..Len(toClient') : i \in 1..Len(toClient) \/ i = Len(toClient) + 1
    BY <2>4
  <2>6. \A i \in 1..Len(toClient') : toClient'[i].type = ack => i \in 1..Len(toClient)
    BY <2>1, <2>4, <2>5 DEF Acks
  <2> QED BY <2>2, <2>3, <2>4, <2>6 DEF OwnInv
<1>19. CASE UNCHANGED vars
  BY <1>2, <1>4, <1>19 DEF vars, network
<1> QED BY <1>5, <1>6, <1>7, <1>8, <1>9, <1>10, <1>11, <1>12, <1>13, <1>14, <1>15, <1>16, <1>17, <1>18, <1>19
        DEF Next, ConnectOnly, Reconnect

OwnAll   == \A ack \in Acks : OwnInv(ack)
AloneAll == \A ack \in Acks : Alone(ack)

\* AcksAnswer, for all activations.
AnswerInv ==
  \A d \in 1..Len(stack) :
    /\ stack[d].fn \in Requests \ {"resubscribe"} /\ stack[d].pc = "return" /\ stack[d].ok
    => stack[d].id \in processed

\* The request on top that reads its type of acknowledgement reads its own.
LEMMA AckIsOwn ==
  ASSUME TypeInv, FrameInv, ReceiveAck, Alone(Awaited(Top.fn)), OwnInv(Awaited(Top.fn))
  PROVE  Top.id = Head(toClient).id /\ Top.id \in processed
<1>1. /\ stack # <<>> /\ Top \in Frames /\ Top.pc = "wait" /\ Top = stack[Len(stack)]
      /\ Len(stack) \in 1..Len(stack) /\ Read /\ Head(toClient).type = Awaited(Top.fn)
  BY TopOK DEF ReceiveAck, At
<1>2. Head(toClient) = toClient[1] /\ 1 \in 1..Len(toClient)
  BY <1>1, Taken DEF Read, TypeInv
<1>3. Head(toClient).id \in processed /\ Head(toClient).id \in Waiting(Awaited(Top.fn))
  BY <1>1, <1>2 DEF OwnInv
<1>4. PICK d \in 1..Len(stack) : /\ stack[d].pc = "wait" /\ Awaited(stack[d].fn) = Awaited(Top.fn)
                                 /\ stack[d].id = Head(toClient).id
  BY <1>3 DEF Waiting
<1>5. d = Len(stack)
  BY <1>1, <1>4 DEF Alone
<1> QED BY <1>1, <1>3, <1>4, <1>5

\* What the broker processed stays processed for the requests under way.
LEMMA ProcessedKept ==
  ASSUME TypeInv, [Next]_vars, NEW d \in 1..Len(stack), stack[d].id \in processed
  PROVE  stack[d].id \in processed'
<1>1. ASSUME TakeId PROVE stack[d].id \in processed'
  <2>1. d \in DOMAIN stack
    BY DEF TypeInv
  <2> QED BY <1>1, <2>1 DEF TakeId
<1>2. CASE processed' = processed
  BY <1>2
<1>3. CASE BrokerAnswer
  BY <1>3 DEF BrokerAnswer
<1> QED BY <1>1, <1>2, <1>3
        DEF Next, vars, network, Publish, Resubscribe, ResubscribeSend, Subscribe, Unsubscribe, BrokerPublish,
            ReceiveAck, ReceiveOther, DeliverMessage, Read, WaitTimeout, Return, LinkDown, Disconnect,
            ConnectOnly, Reconnect, Connect

\* A request that returns success was processed by the broker, though no read loop compares the
\* packet identifier of an acknowledgement: it is enough that no timer expires while an answer
\* may still come, and that no two requests under way wait for the same type of answer.
THEOREM AnswersAreOwn == ~LateAnswers => (Spec /\ []AloneAll => []AcksAnswer)
<1> SUFFICES ASSUME ~LateAnswers PROVE Spec /\ []AloneAll => []AcksAnswer
  OBVIOUS
<1>1. Init => OwnAll /\ AnswerInv
  BY DEF Init, OwnAll, OwnInv, AnswerInv
<1>2. TypeInv /\ FrameInv /\ LinkInv /\ UniqueInv /\ AloneAll /\ OwnAll /\ [Next]_vars => OwnAll'
  <2> SUFFICES ASSUME TypeInv, FrameInv, LinkInv, UniqueInv, AloneAll, OwnAll, [Next]_vars,
                      NEW ack \in Acks
               PROVE  OwnInv(ack)'
    BY DEF OwnAll
  <2> QED BY OwnStep DEF OwnAll, AloneAll
<1>3. TypeInv /\ FrameInv /\ AloneAll /\ OwnAll /\ AnswerInv /\ [Next]_vars => AnswerInv'
  <2> SUFFICES ASSUME TypeInv, FrameInv, AloneAll, OwnAll, AnswerInv, [Next]_vars, NEW d \in 1..Len(stack'),
                      stack'[d].fn \in Requests \ {"resubscribe"}, stack'[d].pc = "return", stack'[d].ok
               PROVE  stack'[d].id \in processed'
    BY DEF AnswerInv
  <2>1. CASE d \in 1..Len(stack) /\ stack'[d] = stack[d]
    BY <2>1, ProcessedKept DEF AnswerInv
  <2>2. CASE d = Len(stack') /\ NewCall(stack'[d])
    BY <2>2 DEF NewCall
  <2>3. CASE d = Len(stack) /\ stack # <<>> /\ Moved(Top, stack'[d]) /\ ReceiveAck
    <3>1. /\ Top \in Frames /\ FrameOK(Top) /\ Top.pc = "wait" /\ Top.fn # "resubscribe" /\ Top.fn \in Requests
          /\ Top = stack[Len(stack)] /\ Len(stack) \in 1..Len(stack) /\ stack \in Seq(Frames)
      BY SMTT(30), <2>3, TopOK DEF ReceiveAck, At, Moved, TypeInv
    <3>2. SetTop(AckFrame(Top)) /\ AckFrame(Top) \in Frames
      BY <2>3, <3>1, AckFrameKeeps DEF ReceiveAck, AckFrame
    <3>3. stack'[d] = AckFrame(Top)
      BY <2>3, <3>1, <3>2, TopSet
    <3>4. AckFrame(Top).id = Top.id
      BY <3>1 DEF AckFrame, Frames
    <3>5. Awaited(Top.fn) \in Acks
      BY DEF Awaited, Acks
    <3>6. Top.id \in processed
      BY <2>3, <3>5, AckIsOwn DEF OwnAll, AloneAll
    <3> QED BY <3>1, <3>3, <3>4, <3>6, ProcessedKept
  <2>4. CASE d = Len(stack) /\ stack # <<>> /\ WaitTimeout
    <3>1. /\ Top \in Frames /\ FrameOK(Top) /\ Top.pc = "wait" /\ Top.fn # "deliver_message"
          /\ SetTop([Top EXCEPT !.pc = "return"]) /\ stack \in Seq(Frames)
      BY <2>4, TopOK DEF WaitTimeout, At, FrameOK, TypeInv
    <3>2. 1 \in Ids
      BY SessionAssumption DEF Ids
    <3>3. [Top EXCEPT !.pc = "return"] \in Frames /\ [Top EXCEPT !.pc = "return"].ok = Top.ok
      BY <3>1, <3>2, MovedFrames DEF Frames
    <3>4. stack'[d] = [Top EXCEPT !.pc = "return"]
      BY <2>4, <3>1, <3>3, TopSet
    <3>5. ~Top.ok
      BY <3>1 DEF FrameOK
    <3> QED BY <3>3, <3>4, <3>5
  <2>5. CASE Moved(Top, stack'[d]) /\ ResubscribeSend
    BY <2>5 DEF Moved, ResubscribeSend, At
  <2> QED BY <2>1, <2>2, <2>3, <2>4, <2>5, StackStep
<1>4. TypeInv /\ AnswerInv => AcksAnswer
  <2> SUFFICES ASSUME TypeInv, AnswerInv, At(Requests \ {"resubscribe"}, "return"), Top.ok
               PROVE  Top.id \in processed
    BY DEF AcksAnswer
  <2>1. Len(stack) \in 1..Len(stack) /\ Top = stack[Len(stack)]
    BY TopType DEF At, TypeInv
  <2> QED BY <2>1 DEF AnswerInv, At
<1> QED BY <1>1, <1>2, <1>3, <1>4, FrameInductive, LinkInductive, PTL DEF Spec

-----------------------------------------------------------------------------
(* Which programs make no two requests that wait for the same answer.      *)

\* No callback makes a request; or callbacks do not nest, and their requests wait for other
\* answers than those of the application, and of the client itself when it reconnects.
CallsDiffer ==
  \/ CallbackCalls = {}
  \/ /\ MaxDepth <= 3
     /\ \A c \in CallbackCalls, r \in AppCalls \union {"resubscribe"} : Awaited(c) # Awaited(r)

\* A request of a callback stands right above the delivery that runs the callback.
NestInv ==
  /\ Len(stack) <= MaxDepth \/ Len(stack) = 1
  /\ \A d \in 1..Len(stack) :
       IF d = 1 THEN stack[d].fn \in AppCalls \union {"resubscribe", "deliver_message"}
       ELSE stack[d].fn = "deliver_message" \/ stack[d - 1].fn = "deliver_message"

\* A call or a delivery keeps the order.
LEMMA NestPush ==
  ASSUME stack \in Seq(Frames), NestInv, NEW f \in Frames, stack' = Append(stack, f), Len(stack) < MaxDepth,
         IF stack = <<>> THEN f.fn \in AppCalls \union {"deliver_message"}
         ELSE f.fn = "deliver_message" \/ Top.fn = "deliver_message"
  PROVE  NestInv'
<1>0. MaxDepth \in Nat
  BY SessionAssumption
<1>1. /\ Len(stack) \in Nat /\ Len(stack') = Len(stack) + 1
      /\ \A d \in 1..Len(stack) : stack'[d] = stack[d]
      /\ stack'[Len(stack) + 1] = f
  BY Pushed
<1>2. Len(stack') <= MaxDepth
  BY <1>0, <1>1
<1>3. ASSUME NEW d \in 1..Len(stack')
      PROVE  IF d = 1 THEN stack'[d].fn \in AppCalls \union {"resubscribe", "deliver_message"}
             ELSE stack'[d].fn = "deliver_message" \/ stack'[d - 1].fn = "deliver_message"
  <2>1. CASE d \in 1..Len(stack)
    <3>1. d # 1 => d - 1 \in 1..Len(stack)
      BY <1>1, <2>1
    <3> QED BY <1>1, <2>1, <3>1 DEF NestInv
  <2>2. CASE d = Len(stack) + 1 /\ stack = <<>>
    BY <1>1, <2>2
  <2>3. CASE d = Len(stack) + 1 /\ stack # <<>>
    <3>1. d # 1 /\ d - 1 = Len(stack) /\ d - 1 \in 1..Len(stack) /\ Top = stack[Len(stack)]
      BY <1>1, <2>3, TopType
    <3> QED BY <1>1, <2>3, <3>1
  <2> QED BY <1>1, <2>1, <2>2, <2>3
<1> QED BY <1>2, <1>3 DEF NestInv

\* The calls nest in order.
LEMMA NestInductive == Spec => []NestInv
<1>1. Init => NestInv
  BY SessionAssumption DEF Init, NestInv
<1>2. TypeInv /\ FrameInv /\ NestInv /\ [Next]_vars => NestInv'
  <2> SUFFICES ASSUME TypeInv, FrameInv, NestInv, [Next]_vars PROVE NestInv'
    OBVIOUS
  <2>0. stack \in Seq(Frames)
    BY DEF TypeInv
  <2>1. CASE stack' = stack
    BY <2>1 DEF NestInv
  <2>2. ASSUME NEW f \in Frames, Admitted(f.fn), stack' = Append(stack, f) PROVE NestInv'
    BY <2>0, <2>2, NestPush DEF Admitted, At
  <2>3. ASSUME NEW f \in Frames, stack # <<>>, SetTop(f), f.fn = Top.fn PROVE NestInv'
    <3>1. /\ Len(stack) \in Nat \ {0} /\ Len(stack') = Len(stack)
          /\ \A d \in 1..Len(stack) : d # Len(stack) => stack'[d] = stack[d]
          /\ stack'[Len(stack)] = f /\ Top = stack[Len(stack)]
      BY <2>0, <2>3, TopSet, TopType
    <3>2. \A d \in 1..Len(stack) : stack'[d].fn = stack[d].fn
      BY <2>3, <3>1
    <3>3. \A d \in 1..Len(stack) : d # 1 => d - 1 \in 1..Len(stack)
      BY <3>1
    <3> QED BY <3>1, <3>2, <3>3 DEF NestInv
  <2>4. ASSUME stack' = <<ResubscribeFrame>> PROVE NestInv'
    <3>1. ResubscribeFrame \in Frames /\ ResubscribeFrame.fn = "resubscribe"
      BY CallFrames DEF ResubscribeFrame, NewFrame
    <3>2. Len(stack') = 1 /\ stack'[1] = ResubscribeFrame
      BY <2>4, <3>1, Single
    <3>3. \A d \in 1..Len(stack') : d = 1
      BY <3>2
    <3> QED BY <3>1, <3>2, <3>3 DEF NestInv
  <2>5. CASE Publish
    BY <2>1, <2>2, <2>5, CallFrames, SendingFrames DEF Publish
  <2>6. ASSUME NEW topic \in Topics, Subscribe(topic) PROVE NestInv'
    BY ZenonT(60), <2>1, <2>2, <2>6, CallFrames, SendingFrames DEF Subscribe
  <2>7. ASSUME NEW topic \in Topics, Unsubscribe(topic) PROVE NestInv'
    BY ZenonT(60), <2>1, <2>2, <2>7, CallFrames, SendingFrames DEF Unsubscribe
  <2>8. CASE ResubscribeSend
    <3>1. stack # <<>> /\ Top \in Frames /\ FrameOK(Top) /\ Top.fn = "resubscribe" /\ Top.pc = "send"
      BY <2>8, TopOK DEF ResubscribeSend, At
    <3>2. 1 \in Ids /\ NextPacketId \in Ids
      BY SessionAssumption, NextPacketIdType DEF Ids, TypeInv
    <3>3. CASE Top.index > Top.count
      BY <2>3, <2>8, <3>1, <3>2, <3>3, MovedFrames DEF ResubscribeSend
    <3>4. CASE ~(Top.index > Top.count)
      <4>1. Top.index <= Top.count
        BY <3>1, <3>4, SessionAssumption DEF Frames
      <4> QED BY <2>3, <2>8, <3>1, <3>2, <3>4, <4>1, MovedFrames DEF ResubscribeSend
    <3> QED BY <3>3, <3>4
  <2>9. CASE ReceiveAck
    <3>1. stack # <<>> /\ Top \in Frames /\ FrameOK(Top) /\ Top.pc = "wait"
      BY <2>9, TopOK DEF ReceiveAck, At
    <3>2. SetTop(AckFrame(Top))
      BY <2>9 DEF ReceiveAck, AckFrame
    <3> QED BY <2>3, <3>1, <3>2, AckFrameKeeps
  <2>10. CASE DeliverMessage
    <3>1. Head(toClient).topic \in Topics
      BY <2>10 DEF DeliverMessage, Subscribed, Range, TypeInv
    <3> DEFINE f == [NewFrame("deliver_message", Head(toClient).topic) EXCEPT !.pc = "callback"]
    <3>2. f \in Frames /\ f.fn = "deliver_message"
      BY <3>1, CallFrames DEF NewFrame
    <3>3. stack' = Append(stack, f) /\ Len(stack) < MaxDepth
      BY <2>10 DEF DeliverMessage
    <3> HIDE DEF f
    <3> QED BY <2>0, <3>2, <3>3, NestPush
  <2>11. CASE WaitTimeout
    <3>1. /\ stack # <<>> /\ Top \in Frames /\ FrameOK(Top) /\ Top.fn # "deliver_message"
          /\ SetTop([Top EXCEPT !.pc = "return"])
      BY <2>11, TopOK DEF WaitTimeout, At, FrameOK
    <3>2. 1 \in Ids
      BY SessionAssumption DEF Ids
    <3> QED BY <2>3, <3>1, <3>2, MovedFrames
  <2>12. CASE Return
    <3>1. /\ Len(stack) \in Nat \ {0} /\ Len(stack') = Len(stack) - 1
          /\ \A d \in 1..(Len(stack) - 1) : stack'[d] = stack[d]
      BY <2>0, <2>12, Popped DEF Return, At
    <3>2. \A d \in 1..Len(stack') : /\ d \in 1..Len(stack) /\ stack'[d] = stack[d]
                                    /\ d # 1 => stack'[d - 1] = stack[d - 1]
      BY <3>1
    <3>3. Len(stack') <= MaxDepth \/ Len(stack') = 1
      <4>1. PICK n \in Nat \ {0} : n = Len(stack)
        BY <3>1
      <4>2. Len(stack') = n - 1 /\ (n <= MaxDepth \/ n = 1)
        BY <3>1, <4>1 DEF NestInv
      <4>3. n - 1 <= MaxDepth
        BY <4>2, SessionAssumption
      <4> QED BY <4>2, <4>3
    <3> QED BY <3>2, <3>3 DEF NestInv
  <2>13. CASE Resubscribe
    BY <2>4, <2>13 DEF Resubscribe
  <2>14. CASE Reconnect
    BY <2>4, <2>14 DEF Reconnect
  <2> QED BY <2>1, <2>5, <2>6, <2>7, <2>8, <2>9, <2>10, <2>11, <2>12, <2>13, <2>14
          DEF Next, vars, ConnectOnly, ReceiveOther, LinkDown, Disconnect, BrokerAnswer, BrokerPublish
<1> QED BY <1>1, <1>2, FrameInductive, PTL DEF Spec

\* In such programs every request that waits is alone with its type of answer.
LEMMA NestedAlone == ASSUME CallsDiffer, TypeInv, FrameInv, NestInv PROVE AloneAll
<1> SUFFICES ASSUME NEW ack \in Acks, NEW d \in 1..Len(stack), NEW e \in 1..Len(stack),
                    stack[d].pc = "wait", Awaited(stack[d].fn) = ack,
                    stack[e].pc = "wait", Awaited(stack[e].fn) = ack
             PROVE  d = e
  BY DEF AloneAll, Alone
<1>0. Len(stack) \in Nat
  BY DEF TypeInv
<1>1. stack[d].fn # "deliver_message" /\ stack[e].fn # "deliver_message"
  BY DEF FrameInv, FrameOK
<1>2. ASSUME NEW x \in 1..Len(stack), NEW y \in 1..Len(stack), x < y,
             stack[x].fn # "deliver_message", stack[y].fn # "deliver_message",
             Awaited(stack[x].fn) = Awaited(stack[y].fn)
      PROVE  FALSE
  <2>1. y # 1 /\ x # y - 1 => x < y - 1
    BY <1>2
  <2>2. y # 1 /\ stack[y].fn \in CallbackCalls
    BY <1>2 DEF FrameInv
  <2>3. stack[y - 1].fn = "deliver_message"
    BY <1>2, <2>2 DEF NestInv
  <2>4. x # y - 1
    BY <1>2, <2>3
  <2>5. MaxDepth <= 3 /\ \A c \in CallbackCalls, r \in AppCalls \union {"resubscribe"} : Awaited(c) # Awaited(r)
    BY <2>2 DEF CallsDiffer
  <2>6. Len(stack) <= 3
    <3>1. PICK n \in Nat : n = Len(stack)
      BY <1>0
    <3>2. n <= MaxDepth \/ n = 1
      BY <3>1 DEF NestInv
    <3>3. n <= 3
      BY <2>5, <3>2, SessionAssumption
    <3> QED BY <3>1, <3>3
  <2>7. x = 1
    BY <1>0, <1>2, <2>1, <2>2, <2>4, <2>6
  <2>8. stack[x].fn \in AppCalls \union {"resubscribe"}
    BY <1>2, <2>7 DEF NestInv
  <2> QED BY <1>2, <2>2, <2>5, <2>8
<1> QED BY <1>0, <1>1, <1>2

\* A request that returns success was processed by the broker, for every program whose callbacks
\* make no request that waits for an answer for which the application may be waiting.
THEOREM AnswersReachTheirRequest == ~LateAnswers /\ CallsDiffer => (Spec => []AcksAnswer)
<1> SUFFICES ASSUME ~LateAnswers, CallsDiffer PROVE Spec => []AcksAnswer
  OBVIOUS
<1>1. TypeInv /\ FrameInv /\ NestInv => AloneAll
  BY NestedAlone
<1> QED BY <1>1, AnswersAreOwn, FrameInductive, NestInductive, PTL

-----------------------------------------------------------------------------
(* resubscribe and callbacks that unsubscribe.                             *)

\* The slots that a resubscribe has still to visit are occupied.
SlotsAhead(f) == \A i \in f.index..f.count : messageHandlers[i] # NoTopic

\* The client is going to read the answer to the packet with this identifier before it reads an
\* UNSUBACK.
BeforeUnsubacks(id) ==
  /\ \A i \in 1..Len(toClient) :
       toClient[i].type = "UNSUBACK" => \E j \in 1..Len(toClient) : j < i /\ toClient[j].id = id
  /\ \A i \in 1..Len(toBroker) :
       toBroker[i].type = "UNSUBSCRIBE" => \/ \E j \in 1..Len(toClient) : toClient[j].id = id
                                           \/ \E j \in 1..Len(toBroker) : j < i /\ toBroker[j].id = id

\* As long as its SUBACK may come, resubscribe has slots to visit that nobody has emptied, for
\* whoever empties one reads an UNSUBACK, and all before it.
NullInv ==
  1 \in 1..Len(stack) /\ stack[1].fn = "resubscribe" =>
    /\ stack[1].pc = "send" => SlotsAhead(stack[1])
    /\ stack[1].pc = "wait" => stack[1].id # 0
    /\ stack[1].pc = "wait" /\ stack[1].id \in InFlight =>
         SlotsAhead(stack[1]) /\ BeforeUnsubacks(stack[1].id)

\* A packet in flight is on its way to the broker, or its answer to the client.
LEMMA InFlightWhere ==
  ASSUME TypeInv, NEW id
  PROVE  id \in InFlight <=> \/ \E i \in 1..Len(toBroker) : toBroker[i].id = id
                             \/ \E i \in 1..Len(toClient) : toClient[i].id = id
BY DEF InFlight, TypeInv

\* The answer that a step leaves in flight was there before, and comes before the UNSUBACKs as it
\* did: what is sent joins the end, and what is read is the first.
LEMMA BeforeStep ==
  ASSUME TypeInv, FrameInv, LinkInv, UniqueInv, [Next]_vars, TypeInv', NEW d \in 1..Len(stack),
         NEW id, id = stack[d].id, id # 0, id \in InFlight'
  PROVE  id \in InFlight /\ (BeforeUnsubacks(id) => BeforeUnsubacks(id)')
<1> DEFINE Goal == id \in InFlight /\ (BeforeUnsubacks(id) => BeforeUnsubacks(id)')
<1>0. /\ toBroker \in Seq(RequestPackets) /\ toClient \in Seq(Packets) /\ d \in DOMAIN stack
      /\ Len(toBroker) \in Nat /\ Len(toClient) \in Nat
  BY DEF TypeInv
<1>1. \/ \E i \in 1..Len(toBroker') : toBroker'[i].id = id
      \/ \E i \in 1..Len(toClient') : toClient'[i].id = id
  <2>1. DOMAIN toBroker' = 1..Len(toBroker') /\ DOMAIN toClient' = 1..Len(toClient')
    BY DEF TypeInv
  <2>2. \/ \E i \in DOMAIN toBroker' : toBroker'[i].id = id
        \/ \E i \in DOMAIN toClient' : toClient'[i].id = id
    BY DEF InFlight
  <2> QED BY <2>1, <2>2
<1>2. CASE UNCHANGED <<toBroker, toClient>>
  BY <1>2 DEF InFlight, BeforeUnsubacks
<1>3. ASSUME toBroker' = <<>>, toClient' = <<>> PROVE Goal
  <2>1. (\A i \in 1..Len(toBroker') : FALSE) /\ (\A i \in 1..Len(toClient') : FALSE)
    BY <1>3
  <2> QED BY <1>1, <2>1
<1>4. ASSUME NEW p \in RequestPackets, p.id = NextPacketId, NextPacketId \notin {stack[e].id : e \in DOMAIN stack},
             toBroker' = Append(toBroker, p), toClient' = toClient
      PROVE  Goal
  <2>1. /\ Len(toBroker') = Len(toBroker) + 1
        /\ \A k \in 1..Len(toBroker) : toBroker'[k] = toBroker[k]
        /\ toBroker'[Len(toBroker) + 1] = p
    BY <1>0, <1>4, Appended
  <2>2. p.id # id
    BY <1>0, <1>4
  <2>3. \A k \in 1..Len(toBroker') : k \in 1..Len(toBroker) \/ k = Len(toBroker) + 1
    BY <1>0, <2>1
  <2>4. \/ \E i \in 1..Len(toBroker) : toBroker[i].id = id
        \/ \E i \in 1..Len(toClient) : toClient[i].id = id
    BY <1>4, <1>1, <2>1, <2>2, <2>3
  <2>5. id \in InFlight
    BY <2>4, InFlightWhere
  <2>6. \A k \in 1..Len(toBroker) : k \in 1..Len(toBroker') /\ k < Len(toBroker) + 1
    BY <1>0, <2>1
  <2>7. ASSUME BeforeUnsubacks(id), NEW i \in 1..Len(toBroker'), toBroker'[i].type = "UNSUBSCRIBE"
        PROVE  \/ \E j \in 1..Len(toClient') : toClient'[j].id = id
               \/ \E j \in 1..Len(toBroker') : j < i /\ toBroker'[j].id = id
    <3>1. CASE i \in 1..Len(toBroker)
      BY <1>4, <2>1, <2>6, <2>7, <3>1 DEF BeforeUnsubacks
    <3>2. CASE i = Len(toBroker) + 1
      BY <1>4, <2>1, <2>4, <2>6, <3>2
    <3> QED BY <2>3, <3>1, <3>2
  <2>8. ASSUME BeforeUnsubacks(id)
        PROVE  \A i \in 1..Len(toClient') : toClient'[i].type = "UNSUBACK" =>
                 \E j \in 1..Len(toClient') : j < i /\ toClient'[j].id = id
    BY <1>4, <2>8 DEF BeforeUnsubacks
  <2> QED BY <2>5, <2>7, <2>8 DEF BeforeUnsubacks
<1>5. CASE toClient # <<>> /\ toClient' = Tail(toClient) /\ toBroker' = toBroker
  <2>1. /\ Len(toClient') = Len(toClient) - 1
        /\ \A k \in 1..(Len(toClient) - 1) : toClient'[k] = toClient[k + 1]
    BY <1>0, <1>5, Taken
  <2>2. \A k \in 1..Len(toClient') : k + 1 \in 1..Len(toClient) /\ toClient'[k] = toClient[k + 1]
    BY <1>0, <2>1
  <2>3. id \in InFlight
    BY <1>5, <1>1, <2>2, InFlightWhere
  <2>4. 1 \in 1..Len(toClient) /\ toClient[1].id # id
    <3>1. 1 \in 1..Len(toClient)
      BY <1>0, <1>5
    <3>2. ASSUME toClient[1].id = id PROVE FALSE
      <4>1. \A k \in 1..Len(toClient') : k + 1 # 1
        BY <1>0
      <4> QED BY <1>5, <1>1, <2>2, <3>1, <3>2, <4>1 DEF UniqueInv
    <3> QED BY <3>1, <3>2
  <2>5. \A j \in 1..Len(toClient) : toClient[j].id = id =>
          j - 1 \in 1..Len(toClient') /\ toClient'[j - 1] = toClient[j]
    <3> SUFFICES ASSUME NEW j \in 1..Len(toClient), toClient[j].id = id
                 PROVE  j - 1 \in 1..Len(toClient') /\ toClient'[j - 1] = toClient[j]
      OBVIOUS
    <3>1. j # 1
      BY <2>4
    <3>2. j - 1 \in 1..(Len(toClient) - 1) /\ (j - 1) + 1 = j
      BY <1>0, <3>1
    <3> QED BY <2>1, <3>2
  <2>6. ASSUME BeforeUnsubacks(id), NEW i \in 1..Len(toClient'), toClient'[i].type = "UNSUBACK"
        PROVE  \E j \in 1..Len(toClient') : j < i /\ toClient'[j].id = id
    <3>1. PICK j \in 1..Len(toClient) : j < i + 1 /\ toClient[j].id = id
      BY <2>2, <2>6 DEF BeforeUnsubacks
    <3>2. j - 1 < i
      BY <1>0, <3>1
    <3> QED BY <2>5, <3>1, <3>2
  <2>7. ASSUME BeforeUnsubacks(id), NEW i \in 1..Len(toBroker'), toBroker'[i].type = "UNSUBSCRIBE"
        PROVE  \/ \E j \in 1..Len(toClient') : toClient'[j].id = id
               \/ \E j \in 1..Len(toBroker') : j < i /\ toBroker'[j].id = id
    <3>1. \/ \E j \in 1..Len(toClient) : toClient[j].id = id
          \/ \E j \in 1..Len(toBroker) : j < i /\ toBroker[j].id = id
      BY <1>5, <2>7 DEF BeforeUnsubacks
    <3>2. CASE \E j \in 1..Len(toClient) : toClient[j].id = id
      BY <2>5, <3>2
    <3>3. CASE \E j \in 1..Len(toBroker) : j < i /\ toBroker[j].id = id
      BY <1>5, <3>3
    <3> QED BY <3>1, <3>2, <3>3
  <2> QED BY <2>3, <2>6, <2>7 DEF BeforeUnsubacks
<1>6. CASE BrokerAnswer
  <2> DEFINE p == Head(toBroker)
             q == AckPacket(Head(toBroker))
  <2>1. /\ toBroker # <<>> /\ p \in RequestPackets /\ p = toBroker[1] /\ toBroker' = Tail(toBroker)
        /\ q \in Packets /\ q.id = p.id /\ q.type = AckOf(p.type) /\ toClient' = Append(toClient, q)
    BY <1>6, AnswerStep
  <2> HIDE DEF p, q
  <2>2. /\ Len(toBroker) \in Nat \ {0} /\ Len(toBroker') = Len(toBroker) - 1
        /\ \A i \in 1..(Len(toBroker) - 1) : toBroker'[i] = toBroker[i + 1]
    BY <1>0, <2>1, Taken
  <2>3. /\ Len(toClient') = Len(toClient) + 1
        /\ \A i \in 1..Len(toClient) : toClient'[i] = toClient[i]
        /\ toClient'[Len(toClient) + 1] = q
    BY <1>0, <2>1, Appended
  <2>4. \A k \in 1..Len(toBroker') : k + 1 \in 1..Len(toBroker) /\ toBroker'[k] = toBroker[k + 1]
    BY <2>2
  <2>5. \A k \in 1..Len(toClient') : k \in 1..Len(toClient) \/ k = Len(toClient) + 1
    BY <1>0, <2>3
  <2>6. \A k \in 1..Len(toClient) : k \in 1..Len(toClient') /\ k < Len(toClient) + 1
    BY <1>0, <2>3
  <2>7. 1 \in 1..Len(toBroker) /\ Len(toClient) + 1 \in 1..Len(toClient')
    BY <1>0, <2>2, <2>3
  <2>8. id \in InFlight
    BY <1>1, <2>1, <2>3, <2>4, <2>5, <2>7, InFlightWhere
  <2>9. \A j \in 1..Len(toBroker) : toBroker[j].id = id =>
          \/ toClient'[Len(toClient) + 1].id = id
          \/ j - 1 \in 1..Len(toBroker') /\ toBroker'[j - 1] = toBroker[j]
    <3> SUFFICES ASSUME NEW j \in 1..Len(toBroker), toBroker[j].id = id
                 PROVE  \/ toClient'[Len(toClient) + 1].id = id
                        \/ j - 1 \in 1..Len(toBroker') /\ toBroker'[j - 1] = toBroker[j]
      OBVIOUS
    <3>1. CASE j = 1
      BY <2>1, <2>3, <3>1
    <3>2. CASE j # 1
      <4>1. j - 1 \in 1..(Len(toBroker) - 1) /\ (j - 1) + 1 = j
        BY <2>2, <3>2
      <4> QED BY <2>2, <4>1
    <3> QED BY <3>1, <3>2
  <2>10. ASSUME BeforeUnsubacks(id), NEW i \in 1..Len(toClient'), toClient'[i].type = "UNSUBACK"
         PROVE  \E j \in 1..Len(toClient') : j < i /\ toClient'[j].id = id
    <3>1. CASE i \in 1..Len(toClient)
      BY <2>3, <2>6, <2>10, <3>1 DEF BeforeUnsubacks
    <3>2. CASE i = Len(toClient) + 1
      <4>1. toBroker[1].type = "UNSUBSCRIBE"
        BY <2>1, <2>3, <2>10, <3>2 DEF AckOf, RequestPackets
      <4>2. ~(\E j \in 1..Len(toBroker) : j < 1)
        BY <2>2
      <4>3. \E j \in 1..Len(toClient) : toClient[j].id = id
        BY <2>7, <2>10, <4>1, <4>2 DEF BeforeUnsubacks
      <4> QED BY <2>3, <2>6, <3>2, <4>3
    <3> QED BY <2>5, <3>1, <3>2
  <2>11. ASSUME BeforeUnsubacks(id), NEW i \in 1..Len(toBroker'), toBroker'[i].type = "UNSUBSCRIBE"
         PROVE  \/ \E j \in 1..Len(toClient') : toClient'[j].id = id
                \/ \E j \in 1..Len(toBroker') : j < i /\ toBroker'[j].id = id
    <3>1. CASE \E j \in 1..Len(toClient) : toClient[j].id = id
      BY <2>3, <2>6, <3>1
    <3>2. CASE ~(\E j \in 1..Len(toClient) : toClient[j].id = id)
      <4>1. PICK j \in 1..Len(toBroker) : j < i + 1 /\ toBroker[j].id = id
        BY <2>4, <2>11, <3>2 DEF BeforeUnsubacks
      <4>2. j - 1 < i
        BY <2>2, <4>1
      <4> QED BY <2>7, <2>9, <4>1, <4>2
    <3> QED BY <3>1, <3>2
  <2> QED BY <2>8, <2>10, <2>11 DEF BeforeUnsubacks
<1>7. ASSUME NEW topic \in Topics, BrokerPublish(topic) PROVE Goal
  <2> DEFINE q == [type |-> "PUBLISH", id |-> 0, topic |-> topic]
  <2>1. q \in Packets /\ q.type = "PUBLISH" /\ q.id = 0
    BY DEF Packets
  <2>2. toClient' = Append(toClient, q) /\ toBroker' = toBroker
    BY <1>7 DEF BrokerPublish
  <2> HIDE DEF q
  <2>3. /\ Len(toClient') = Len(toClient) + 1
        /\ \A k \in 1..Len(toClient) : toClient'[k] = toClient[k]
        /\ toClient'[Len(toClient) + 1] = q
    BY <1>0, <2>1, <2>2, Appended
  <2>4. \A k \in 1..Len(toClient') : k \in 1..Len(toClient) \/ k = Len(toClient) + 1
    BY <1>0, <2>3
  <2>5. \A k \in 1..Len(toClient) : k \in 1..Len(toClient')
    BY <1>0, <2>3
  <2>6. id \in InFlight
    BY <1>1, <2>1, <2>2, <2>3, <2>4, InFlightWhere
  <2>7. ASSUME BeforeUnsubacks(id), NEW i \in 1..Len(toClient'), toClient'[i].type = "UNSUBACK"
        PROVE  \E j \in 1..Len(toClient') : j < i /\ toClient'[j].id = id
    <3>1. i \in 1..Len(toClient)
      BY <2>1, <2>3, <2>4, <2>7
    <3> QED BY <2>3, <2>5, <2>7, <3>1 DEF BeforeUnsubacks
  <2>8. ASSUME BeforeUnsubacks(id), NEW i \in 1..Len(toBroker'), toBroker'[i].type = "UNSUBSCRIBE"
        PROVE  \/ \E j \in 1..Len(toClient') : toClient'[j].id = id
               \/ \E j \in 1..Len(toBroker') : j < i /\ toBroker'[j].id = id
    BY <2>2, <2>3, <2>5, <2>8 DEF BeforeUnsubacks
  <2> QED BY <2>6, <2>7, <2>8 DEF BeforeUnsubacks
<1> QED BY <1>2, <1>3, <1>4, <1>5, <1>6, <1>7, ChannelStep

\* An UNSUBACK, or what it answers, is there only while an unsubscribe waits.
LEMMA NoUnsubacks ==
  ASSUME OwnInv("UNSUBACK"), Waiting("UNSUBACK") = {}
  PROVE  /\ \A i \in 1..Len(toClient) : toClient[i].type # "UNSUBACK"
         /\ \A i \in 1..Len(toBroker) : toBroker[i].type # "UNSUBSCRIBE"
BY AwaitedTypes DEF OwnInv

\* A step leaves resubscribe the slots that it has to visit.
LEMMA NullStep ==
  ASSUME TypeInv, FrameInv, LinkInv, UniqueInv, OwnAll, AloneAll, NullInv, [Next]_vars, TypeInv', FrameInv'
  PROVE  NullInv'
<1>0. /\ stack \in Seq(Frames) /\ stack' \in Seq(Frames) /\ Len(stack) \in Nat /\ Len(stack') \in Nat
      /\ messageHandlers \in [Slots -> Topics \union {NoTopic}] /\ toBroker \in Seq(RequestPackets)
      /\ NumHandlers \in Nat /\ NoTopic \notin Topics
      /\ "resubscribe" \notin CallbackCalls /\ "resubscribe" # "deliver_message"
  BY SessionAssumption DEF TypeInv
<1> SUFFICES ASSUME 1 \in 1..Len(stack'), stack'[1].fn = "resubscribe"
             PROVE  /\ stack'[1].pc = "send" => SlotsAhead(stack[1])'
                    /\ stack'[1].pc = "wait" => stack'[1].id # 0
                    /\ stack'[1].pc = "wait" /\ stack'[1].id \in InFlight' =>
                         SlotsAhead(stack[1])' /\ BeforeUnsubacks(stack[1].id)'
  BY DEF NullInv
<1> DEFINE Goal == /\ stack'[1].pc = "send" => SlotsAhead(stack[1])'
                   /\ stack'[1].pc = "wait" => stack'[1].id # 0
                   /\ stack'[1].pc = "wait" /\ stack'[1].id \in InFlight' =>
                        SlotsAhead(stack[1])' /\ BeforeUnsubacks(stack[1].id)'
<1>1. stack'[1] \in Frames /\ FrameOK(stack'[1]) /\ stack'[1].count \in Nat /\ stack'[1].index \in Nat
  <2>1. stack'[1] \in Frames
    BY <1>0
  <2>2. FrameOK(stack'[1])
    BY DEF FrameInv
  <2> QED BY <1>0, <2>1, <2>2 DEF Frames
<1>2. \A i \in stack'[1].index..stack'[1].count : i \in Slots
  <2>1. stack'[1].count <= NumHandlers /\ stack'[1].index >= 1
    BY <1>0, <1>1 DEF Frames, FrameOK
  <2>2. PICK m \in Nat, n \in Nat : m = stack'[1].index /\ n = stack'[1].count
    BY <1>1
  <2>3. \A i \in m..n : i \in Slots
    BY <1>0, <2>1, <2>2 DEF Slots
  <2> QED BY <2>2, <2>3
<1>3. CASE 1 = Len(stack') /\ NewCall(stack'[1]) /\ UNCHANGED messageHandlers
  <2>1. stack'[1].pc = "send" /\ stack'[1].index = 1 /\ stack'[1].count = FreeIndex - 1
    BY <1>3 DEF NewCall
  <2>2. \A i \in 1..(FreeIndex - 1) : messageHandlers[i] # NoTopic
    BY <1>0, FreeIndexFree
  <2> QED BY <1>3, <2>1, <2>2 DEF SlotsAhead
<1>4. CASE 1 \in 1..Len(stack) /\ stack'[1] = stack[1]
  <2>0. stack # <<>> /\ stack[1].fn = "resubscribe" /\ FrameOK(Top) /\ Top = stack[Len(stack)]
    BY <1>4, TopOK
  <2>1. CASE stack[1].pc = "send"
    <3>1. 1 = Len(stack)
      BY <1>4, <2>1 DEF FrameInv
    <3>2. UNCHANGED messageHandlers
      BY <2>0, <3>1, TableStep
    <3>3. SlotsAhead(stack[1])
      BY <1>4, <2>0, <2>1 DEF NullInv
    <3> QED BY <1>4, <2>1, <3>2, <3>3 DEF SlotsAhead
  <2>2. CASE stack[1].pc = "wait" /\ stack[1].id \in InFlight'
    <3>1. PICK id : id = stack[1].id
      OBVIOUS
    <3>2. id # 0
      BY <1>4, <2>0, <2>2, <3>1 DEF NullInv
    <3>3. id \in InFlight /\ (BeforeUnsubacks(id) => BeforeUnsubacks(id)')
      BY <1>4, <2>2, <3>1, <3>2, BeforeStep
    <3>4. SlotsAhead(stack[1]) /\ BeforeUnsubacks(id)
      BY <1>4, <2>0, <2>2, <3>1, <3>3 DEF NullInv
    <3>5. BeforeUnsubacks(stack[1].id)'
      BY <1>4, <3>1, <3>3, <3>4 DEF BeforeUnsubacks
    <3>6. ASSUME NEW i \in stack'[1].index..stack'[1].count PROVE messageHandlers'[i] # NoTopic
      <4>1. messageHandlers[i] # NoTopic /\ i \in Slots
        BY <1>2, <1>4, <3>4, <3>6 DEF SlotsAhead
      <4>2. CASE UNCHANGED messageHandlers
        BY <4>1, <4>2
      <4>3. CASE Top.fn = "subscribe" /\ messageHandlers' = [messageHandlers EXCEPT ![Top.index] = Top.topic]
        <5>1. Top.topic # NoTopic
          BY <1>0, <2>0, <4>3 DEF FrameOK
        <5> QED BY <1>0, <4>1, <4>3, <5>1
      <4>4. CASE Top.fn = "unsubscribe" /\ ReceiveAck
        <5>1. toClient # <<>> /\ Head(toClient).type = "UNSUBACK"
          BY <4>4 DEF ReceiveAck, Read, Awaited
        <5>2. Head(toClient) = toClient[1] /\ 1 \in 1..Len(toClient)
          BY <5>1, Taken DEF TypeInv
        <5>3. PICK j \in 1..Len(toClient) : j < 1
          BY <3>4, <5>1, <5>2 DEF BeforeUnsubacks
        <5>4. Len(toClient) \in Nat
          BY DEF TypeInv
        <5> QED BY <5>3, <5>4
      <4> QED BY <4>2, <4>3, <4>4, TableStep
    <3>7. SlotsAhead(stack[1])'
      BY <3>6 DEF SlotsAhead
    <3> QED BY <1>4, <2>2, <3>1, <3>2, <3>5, <3>7
  <2>3. CASE stack[1].pc = "wait" /\ stack[1].id \notin InFlight'
    <3>1. stack[1].id # 0
      BY <1>4, <2>0, <2>3 DEF NullInv
    <3> QED BY <1>4, <2>3, <3>1
  <2>4. CASE stack[1].pc \notin {"send", "wait"}
    BY <1>4, <2>4
  <2> QED BY <2>1, <2>2, <2>3, <2>4
<1>5. CASE /\ 1 = Len(stack) /\ stack # <<>> /\ Moved(Top, stack'[1])
           /\ ReceiveAck \/ WaitTimeout \/ ResubscribeSend
  <2>0. /\ Top = stack[1] /\ Top \in Frames /\ FrameOK(Top) /\ Top.fn = "resubscribe" /\ 1 \in 1..Len(stack)
        /\ stack[1].fn = "resubscribe"
    BY <1>5, TopOK DEF Moved
  <2>1. UNCHANGED messageHandlers
    BY <2>0, TableStep
  <2>2. ASSUME NEW g \in Frames, SetTop(g) PROVE stack'[1] = g
    BY <1>0, <1>5, <2>2, TopSet
  <2>3. CASE ReceiveAck
    <3>1. Top.pc = "wait" /\ SetTop(AckFrame(Top)) /\ AckFrame(Top) \in Frames /\ Read
      BY <2>0, <2>3, AckFrameKeeps DEF ReceiveAck, At, AckFrame
    <3>2. stack'[1].pc = "send" /\ stack'[1].count = Top.count /\ stack'[1].index = Top.index + 1
      <4>1. AckFrame(Top) = [Top EXCEPT !.pc = "send", !.index = Top.index + 1, !.id = 0]
        BY <2>0 DEF AckFrame
      <4>2. AckFrame(Top).pc = "send" /\ AckFrame(Top).count = Top.count /\ AckFrame(Top).index = Top.index + 1
        BY <2>0, <4>1 DEF Frames
      <4> QED BY <2>2, <3>1, <4>2
    <3>3. Awaited(Top.fn) \in Acks
      BY DEF Awaited, Acks
    <3>4. Top.id = Head(toClient).id
      BY <2>3, <3>3, AckIsOwn DEF OwnAll, AloneAll
    <3>5. Head(toClient) = toClient[1] /\ 1 \in 1..Len(toClient)
      BY <3>1, Taken DEF Read, TypeInv
    <3>6. Top.id \in InFlight
      BY <3>4, <3>5, InFlightHas
    <3>7. SlotsAhead(Top)
      BY <2>0, <3>1, <3>6 DEF NullInv
    <3>8. ASSUME NEW i \in stack'[1].index..stack'[1].count PROVE messageHandlers'[i] # NoTopic
      <4>0. Top.index \in Nat /\ Top.count \in Nat
        BY <1>0, <2>0 DEF Frames
      <4>1. PICK m \in Nat, n \in Nat : m = Top.index /\ n = Top.count
        BY <4>0
      <4>2. i \in (m + 1)..n
        BY <3>2, <4>1
      <4>3. i \in m..n
        BY <4>2
      <4> QED BY <2>1, <3>7, <4>1, <4>3 DEF SlotsAhead
    <3>9. SlotsAhead(stack[1])'
      BY <3>8 DEF SlotsAhead
    <3> QED BY <3>2, <3>9
  <2>4. CASE WaitTimeout
    <3>1. SetTop([Top EXCEPT !.pc = "return"])
      BY <2>4 DEF WaitTimeout
    <3>2. 1 \in Ids
      BY SessionAssumption DEF Ids
    <3>3. [Top EXCEPT !.pc = "return"] \in Frames
      BY <2>0, <3>2, MovedFrames
    <3>4. stack'[1].pc = "return"
      BY <2>0, <2>2, <3>1, <3>3 DEF Frames
    <3> QED BY <3>4
  <2>5. CASE ResubscribeSend
    <3>0. Top.pc = "send" /\ toClient' = toClient
      BY <2>5 DEF ResubscribeSend, At, network, Sent
    <3>1. 1 \in Ids /\ NextPacketId \in Ids /\ NextPacketId # 0
      BY SessionAssumption, NextPacketIdType DEF Ids, TypeInv
    <3>2. CASE SetTop([Top EXCEPT !.pc = "return"]) \/ SetTop([Top EXCEPT !.pc = "return", !.ok = TRUE])
      <4>1. [Top EXCEPT !.pc = "return"] \in Frames /\ [Top EXCEPT !.pc = "return", !.ok = TRUE] \in Frames
        BY <2>0, <3>1, MovedFrames
      <4>2. [Top EXCEPT !.pc = "return"].pc = "return" /\ [Top EXCEPT !.pc = "return", !.ok = TRUE].pc = "return"
        BY <2>0 DEF Frames
      <4>3. stack'[1].pc = "return"
        BY <2>2, <3>2, <4>1, <4>2
      <4> QED BY <4>3
    <3>3. CASE /\ ~(Top.index > Top.count)
               /\ Sent("SUBSCRIBE", messageHandlers[Top.index])
               /\ SetTop([Top EXCEPT !.pc = "wait", !.id = NextPacketId])
      <4>1. Top.index <= Top.count /\ Top.index \in Slots
        BY SMTT(30), <2>0, <3>3, SessionAssumption DEF FrameOK, Frames, Slots
      <4>2. messageHandlers[Top.index] \in Topics \union {NoTopic}
        BY <4>1 DEF TypeInv
      <4>3. [Top EXCEPT !.pc = "wait", !.id = NextPacketId] \in Frames
        BY <2>0, <3>0, <3>1, <4>1, MovedFrames
      <4>4. /\ stack'[1].pc = "wait" /\ stack'[1].count = Top.count /\ stack'[1].index = Top.index
            /\ stack'[1].id = NextPacketId
        <5> DEFINE g == [Top EXCEPT !.pc = "wait", !.id = NextPacketId]
        <5>1. g.pc = "wait" /\ g.count = Top.count /\ g.index = Top.index /\ g.id = NextPacketId
          BY <2>0 DEF Frames
        <5>2. stack'[1] = g
          BY <2>2, <3>3, <4>3
        <5> HIDE DEF g
        <5> QED BY <5>1, <5>2
      <4>5. SlotsAhead(stack[1])'
        <5>1. SlotsAhead(Top)
          BY <2>0, <3>0 DEF NullInv
        <5> QED BY <2>1, <4>4, <5>1 DEF SlotsAhead
      <4>6. Waiting("UNSUBACK") = {}
        <5>1. Awaited("resubscribe") # "UNSUBACK"
          BY DEF Awaited
        <5>2. Len(stack) = 1
          BY <1>5
        <5>3. \A e \in 1..Len(stack) : e = 1
          BY <5>2
        <5> QED BY <2>0, <5>1, <5>3 DEF Waiting
      <4>7. /\ \A i \in 1..Len(toClient) : toClient[i].type # "UNSUBACK"
            /\ \A i \in 1..Len(toBroker) : toBroker[i].type # "UNSUBSCRIBE"
        BY <4>6, NoUnsubacks DEF OwnAll, Acks
      <4> DEFINE p == [type |-> "SUBSCRIBE", id |-> NextPacketId, topic |-> messageHandlers[Top.index]]
      <4>8. p \in RequestPackets /\ p.type = "SUBSCRIBE"
        BY <3>3, <4>2, SentKeeps
      <4>9. toBroker' = Append(toBroker, p) \/ toBroker' = toBroker
        BY <3>3 DEF Sent
      <4> HIDE DEF p
      <4>10. \A i \in 1..Len(toBroker') : toBroker'[i].type # "UNSUBSCRIBE"
        <5>1. CASE toBroker' = toBroker
          BY <4>7, <5>1
        <5>2. CASE toBroker' = Append(toBroker, p)
          <6>1. /\ Len(toBroker) \in Nat /\ Len(toBroker') = Len(toBroker) + 1
                /\ \A k \in 1..Len(toBroker) : toBroker'[k] = toBroker[k]
                /\ toBroker'[Len(toBroker) + 1] = p
            BY <1>0, <4>8, <5>2, Appended
          <6>2. \A k \in 1..Len(toBroker') : k \in 1..Len(toBroker) \/ k = Len(toBroker) + 1
            BY <6>1
          <6> QED BY <4>7, <4>8, <6>1, <6>2
        <5> QED BY <4>9, <5>1, <5>2
      <4>11. BeforeUnsubacks(stack[1].id)'
        BY <3>0, <4>7, <4>10 DEF BeforeUnsubacks
      <4> QED BY <3>1, <4>4, <4>5, <4>11
    <3> QED BY <2>5, <3>2, <3>3 DEF ResubscribeSend
  <2> QED BY <1>5, <2>3, <2>4, <2>5
<1> QED BY <1>3, <1>4, <1>5, StackStep

\* resubscribe never sends the topic name of an empty slot, whatever its callbacks do to the table:
\* a callback that empties a slot has read an UNSUBACK, and with it the SUBACK that resubscribe
\* waits for, which then waits in vain and gives up.  It takes what AnswersAreOwn takes: no timer
\* expires while an answer may still come, and no two requests wait for the same type of answer.
THEOREM NoNullTopic == ~LateAnswers => (Spec /\ []AloneAll => []ResubscribeNotNull)
<1> SUFFICES ASSUME ~LateAnswers PROVE Spec /\ []AloneAll => []ResubscribeNotNull
  OBVIOUS
<1>1. Init => OwnAll /\ NullInv
  BY DEF Init, OwnAll, OwnInv, NullInv
<1>2. TypeInv /\ FrameInv /\ LinkInv /\ UniqueInv /\ AloneAll /\ OwnAll /\ [Next]_vars => OwnAll'
  BY OwnStep DEF OwnAll, AloneAll
<1>3. /\ TypeInv /\ FrameInv /\ LinkInv /\ UniqueInv /\ OwnAll /\ AloneAll /\ NullInv /\ [Next]_vars
      /\ TypeInv' /\ FrameInv'
      => NullInv'
  BY NullStep
<1>4. TypeInv /\ FrameInv /\ NullInv => ResubscribeNotNull
  <2> SUFFICES ASSUME TypeInv, FrameInv, NullInv, At({"resubscribe"}, "send"), NEW i \in Top.index..Top.count
               PROVE  messageHandlers[i] # NoTopic
    BY DEF ResubscribeNotNull
  <2>1. "resubscribe" \notin CallbackCalls \union {"deliver_message"}
    BY SessionAssumption
  <2>2. Top = stack[1] /\ 1 \in 1..Len(stack)
    BY <2>1, TopOK DEF At
  <2> QED BY <2>2 DEF NullInv, SlotsAhead, At
<1> QED BY <1>1, <1>2, <1>3, <1>4, FrameInductive, LinkInductive, PTL DEF Spec

\* resubscribe never sends a null pointer, for every program whose callbacks make no request that
\* waits for an answer for which the application may be waiting: they may unsubscribe.
THEOREM CallbacksMayUnsubscribe == ~LateAnswers /\ CallsDiffer => (Spec => []ResubscribeNotNull)
<1> SUFFICES ASSUME ~LateAnswers, CallsDiffer PROVE Spec => []ResubscribeNotNull
  OBVIOUS
<1>1. TypeInv /\ FrameInv /\ NestInv => AloneAll
  BY NestedAlone
<1> QED BY <1>1, NoNullTopic, FrameInductive, NestInductive, PTL

\* The types of all variables: the broker is asked for topics and never for a null pointer, if no
\* callback unsubscribes, or it does under the conditions of CallbacksMayUnsubscribe.
THEOREM SessionTypes ==
  "unsubscribe" \notin CallbackCalls \/ (~LateAnswers /\ CallsDiffer) => (Spec => []TypeOK)
<1>1. ASSUME "unsubscribe" \notin CallbackCalls PROVE Spec => []TypeOK
  BY <1>1, NobodyUnsubscribes, TypesOfNames, PTL
<1>2. ASSUME ~LateAnswers, CallsDiffer PROVE Spec => []TypeOK
  BY <1>2, CallbacksMayUnsubscribe, TypesOfNames, PTL
<1> QED BY <1>1, <1>2

-----------------------------------------------------------------------------
(* resubscribe restores the subscriptions.                                 *)

\* While resubscribe is under way: it is going to visit the slots before the first free one; on a
\* connection that is still alive the session has the topics of the slots that it is done with;
\* what it has in flight is about the slot that it is at.
RestoreInv ==
  1 \in 1..Len(stack) /\ stack[1].fn = "resubscribe" =>
    /\ stack[1].count = FreeIndex - 1
    /\ link => \A i \in 1..(stack[1].index - 1) : messageHandlers[i] \in session
    /\ stack[1].pc = "wait" =>
         /\ \A i \in 1..Len(toBroker) :
              toBroker[i].type = "SUBSCRIBE" => toBroker[i].topic = messageHandlers[stack[1].index]
         /\ \A i \in 1..Len(toClient) :
              toClient[i].type = "SUBACK" => messageHandlers[stack[1].index] \in session
    /\ stack[1].pc = "return" /\ stack[1].ok => stack[1].index > stack[1].count

\* If the callbacks only publish, all that waits for a SUBACK or an UNSUBACK is the outermost
\* activation.
LEMMA WaitingOutermost ==
  ASSUME CallbackCalls \subseteq {"publish"}, TypeInv, FrameInv
  PROVE  /\ Alone("SUBACK") /\ Alone("UNSUBACK")
         /\ \A id \in Waiting("SUBACK") : 1 \in 1..Len(stack) /\ stack[1].pc = "wait" /\ stack[1].id = id
         /\ 1 \in 1..Len(stack) /\ stack[1].fn = "resubscribe" => Waiting("UNSUBACK") = {}
<1>1. ASSUME NEW d \in 1..Len(stack), Awaited(stack[d].fn) \in {"SUBACK", "UNSUBACK"}
      PROVE  d = 1 /\ 1 \in 1..Len(stack)
  <2>1. stack[d].fn \notin CallbackCalls \union {"deliver_message"}
    BY <1>1 DEF Awaited
  <2> QED BY <2>1 DEF FrameInv
<1>2. Alone("SUBACK") /\ Alone("UNSUBACK")
  BY <1>1 DEF Alone
<1>3. \A id \in Waiting("SUBACK") : 1 \in 1..Len(stack) /\ stack[1].pc = "wait" /\ stack[1].id = id
  BY <1>1 DEF Waiting
<1>4. 1 \in 1..Len(stack) /\ stack[1].fn = "resubscribe" => Waiting("UNSUBACK") = {}
  <2>1. Awaited("resubscribe") # "UNSUBACK"
    BY DEF Awaited
  <2> QED BY <1>1, <2>1 DEF Waiting
<1> QED BY <1>2, <1>3, <1>4

\* While resubscribe is under way no unsubscribe is in flight, and a subscribe or its answer is
\* only while it waits.
LEMMA ResubscribeInFlight ==
  ASSUME CallbackCalls \subseteq {"publish"}, TypeInv, FrameInv, OwnInv("SUBACK"), OwnInv("UNSUBACK"),
         1 \in 1..Len(stack), stack[1].fn = "resubscribe"
  PROVE  /\ \A i \in 1..Len(toBroker) :
              /\ toBroker[i].type # "UNSUBSCRIBE"
              /\ toBroker[i].type = "SUBSCRIBE" => stack[1].pc = "wait" /\ toBroker[i].id = stack[1].id
         /\ \A i \in 1..Len(toClient) :
              toClient[i].type = "SUBACK" => stack[1].pc = "wait" /\ toClient[i].id = stack[1].id
<1>1. /\ \A id \in Waiting("SUBACK") : stack[1].pc = "wait" /\ stack[1].id = id
      /\ Waiting("UNSUBACK") = {}
  BY WaitingOutermost
<1> QED BY <1>1, AwaitedTypes DEF OwnInv

\* A step keeps what resubscribe has restored.
LEMMA RestoreStep ==
  ASSUME ~LateAnswers, CallbackCalls \subseteq {"publish"}, TypeInv, FrameInv, LinkInv,
         OwnInv("SUBACK"), OwnInv("UNSUBACK"), RestoreInv, [Next]_vars,
         TypeInv', FrameInv', OwnInv("SUBACK")', OwnInv("UNSUBACK")'
  PROVE  RestoreInv'
<1>0. /\ stack \in Seq(Frames) /\ stack' \in Seq(Frames)
      /\ toBroker \in Seq(RequestPackets) /\ toClient \in Seq(Packets)
      /\ NumHandlers \in Nat /\ "resubscribe" \notin CallbackCalls /\ "resubscribe" # "deliver_message"
  BY SessionAssumption DEF TypeInv
<1> SUFFICES ASSUME 1 \in 1..Len(stack'), stack'[1].fn = "resubscribe"
             PROVE  /\ stack'[1].count = FreeIndex' - 1
                    /\ link' => \A i \in 1..(stack'[1].index - 1) : messageHandlers'[i] \in session'
                    /\ stack'[1].pc = "wait" =>
                         /\ \A i \in 1..Len(toBroker') :
                              toBroker'[i].type = "SUBSCRIBE" =>
                                toBroker'[i].topic = messageHandlers'[stack'[1].index]
                         /\ \A i \in 1..Len(toClient') :
                              toClient'[i].type = "SUBACK" => messageHandlers'[stack'[1].index] \in session'
                    /\ stack'[1].pc = "return" /\ stack'[1].ok => stack'[1].index > stack'[1].count
  BY DEF RestoreInv
<1> DEFINE Goal == /\ stack'[1].count = FreeIndex' - 1
                   /\ link' => \A i \in 1..(stack'[1].index - 1) : messageHandlers'[i] \in session'
                   /\ stack'[1].pc = "wait" =>
                        /\ \A i \in 1..Len(toBroker') :
                             toBroker'[i].type = "SUBSCRIBE" =>
                               toBroker'[i].topic = messageHandlers'[stack'[1].index]
                        /\ \A i \in 1..Len(toClient') :
                             toClient'[i].type = "SUBACK" => messageHandlers'[stack'[1].index] \in session'
                   /\ stack'[1].pc = "return" /\ stack'[1].ok => stack'[1].index > stack'[1].count
<1>1. ASSUME UNCHANGED messageHandlers PROVE FreeIndex' = FreeIndex
  BY <1>1 DEF FreeIndex
<1>2. CASE 1 = Len(stack') /\ NewCall(stack'[1]) /\ UNCHANGED messageHandlers
  <2>1. stack'[1].pc = "send" /\ stack'[1].index = 1 /\ stack'[1].count = FreeIndex - 1
    BY <1>2 DEF NewCall
  <2>2. \A i \in 1..(stack'[1].index - 1) : FALSE
    BY <2>1
  <2> QED BY <1>1, <1>2, <2>1, <2>2
<1>3. ASSUME 1 \in 1..Len(stack), stack[1].fn = "resubscribe" PROVE UNCHANGED messageHandlers
  <2>1. stack # <<>>
    BY <1>3
  <2>2. Top.fn \notin {"subscribe", "unsubscribe"}
    <3>1. /\ Len(stack) = 1 \/ Top.fn \in CallbackCalls \union {"deliver_message"}
          /\ Top = stack[Len(stack)]
      BY <2>1, TopOK
    <3> QED BY <1>3, <3>1
  <2> QED BY <2>2, TableStep
<1>4. CASE 1 \in 1..Len(stack) /\ stack'[1] = stack[1]
  <2>0. stack # <<>> /\ connected
    BY <1>4 DEF LinkInv
  <2>1. UNCHANGED messageHandlers /\ FreeIndex' = FreeIndex
    BY <1>1, <1>3, <1>4
  <2>2. \A i \in 1..Len(toBroker) :
          /\ toBroker[i].type # "UNSUBSCRIBE"
          /\ toBroker[i].type = "SUBSCRIBE" => stack[1].pc = "wait" /\ toBroker[i].id = stack[1].id
    BY <1>4, ResubscribeInFlight
  <2>3. session \subseteq session'
    <3>1. CASE BrokerAnswer
      <4>1. Head(toBroker) = toBroker[1] /\ 1 \in 1..Len(toBroker)
        BY <1>0, <3>1, Taken DEF BrokerAnswer
      <4>2. Head(toBroker).type # "UNSUBSCRIBE"
        BY <2>2, <4>1
      <4> QED BY <3>1, <4>2 DEF BrokerAnswer
    <3>2. CASE session' = session
      BY <3>2
    <3> QED BY <2>0, <3>1, <3>2
            DEF Next, vars, Publish, Resubscribe, ResubscribeSend, Subscribe, Unsubscribe, BrokerPublish,
                ReceiveAck, ReceiveOther, DeliverMessage, Read, WaitTimeout, Return, LinkDown, Disconnect,
                ConnectOnly, Reconnect, Connect
  <2>4. link' => link
    BY <2>0 DEF Next, vars, network, Publish, Resubscribe, ResubscribeSend, Subscribe, Unsubscribe, Sent,
                BrokerPublish, ReceiveAck, ReceiveOther, DeliverMessage, Read, WaitTimeout, Return, LinkDown,
                Disconnect, ConnectOnly, Reconnect, Connect, BrokerAnswer
  <2>5. stack'[1].count = FreeIndex' - 1
    BY <1>4, <2>1 DEF RestoreInv
  <2>6. link' => \A i \in 1..(stack'[1].index - 1) : messageHandlers'[i] \in session'
    BY <1>4, <2>1, <2>3, <2>4 DEF RestoreInv
  <2>7. stack'[1].pc = "return" /\ stack'[1].ok => stack'[1].index > stack'[1].count
    BY <1>4 DEF RestoreInv
  <2>8. ASSUME stack'[1].pc = "wait", NEW i \in 1..Len(toBroker'), toBroker'[i].type = "SUBSCRIBE"
        PROVE  toBroker'[i].topic = messageHandlers'[stack'[1].index]
    <3>1. toBroker'[i].id = stack[1].id
      <4>1. ASSUME NEW d \in 1..Len(stack'), Awaited(stack'[d].fn) = "SUBACK" PROVE d = 1
        <5>1. stack'[d].fn \notin CallbackCalls \union {"deliver_message"}
          BY <4>1 DEF Awaited
        <5> QED BY <5>1 DEF FrameInv
      <4>2. toBroker'[i].id \in Waiting("SUBACK")'
        BY <2>8, AwaitedTypes DEF OwnInv
      <4> QED BY <1>4, <4>1, <4>2 DEF Waiting
    <3>2. \E j \in 1..Len(toBroker) : toBroker'[i] = toBroker[j]
      <4>1. CASE toBroker' = toBroker
        BY <4>1
      <4>2. CASE toBroker' = <<>>
        BY <4>2
      <4>3. CASE toBroker # <<>> /\ toBroker' = Tail(toBroker)
        <5>1. /\ Len(toBroker) \in Nat \ {0} /\ Len(toBroker') = Len(toBroker) - 1
              /\ \A k \in 1..(Len(toBroker) - 1) : toBroker'[k] = toBroker[k + 1]
          BY <1>0, <4>3, Taken
        <5>2. i + 1 \in 1..Len(toBroker) /\ toBroker'[i] = toBroker[i + 1]
          BY <5>1
        <5> QED BY <5>2
      <4>4. ASSUME NEW p \in RequestPackets, p.id = NextPacketId,
                   NextPacketId \notin {stack[d].id : d \in DOMAIN stack}, toBroker' = Append(toBroker, p)
            PROVE  \E j \in 1..Len(toBroker) : toBroker'[i] = toBroker[j]
        <5>1. /\ Len(toBroker) \in Nat /\ Len(toBroker') = Len(toBroker) + 1
              /\ \A k \in 1..Len(toBroker) : toBroker'[k] = toBroker[k]
              /\ toBroker'[Len(toBroker) + 1] = p
          BY <1>0, <4>4, Appended
        <5>2. 1 \in DOMAIN stack
          BY <1>0, <1>4
        <5>3. p.id # stack[1].id
          BY <4>4, <5>2
        <5>4. i # Len(toBroker) + 1
          BY <3>1, <5>1, <5>3
        <5>5. i \in 1..Len(toBroker)
          BY <5>1, <5>4
        <5> QED BY <5>1, <5>5
      <4> QED BY <4>1, <4>2, <4>3, <4>4, ChannelStep DEF BrokerAnswer, BrokerPublish
    <3> QED BY <1>4, <2>1, <2>8, <3>2 DEF RestoreInv
  <2>9. ASSUME stack'[1].pc = "wait", NEW i \in 1..Len(toClient'), toClient'[i].type = "SUBACK"
        PROVE  messageHandlers'[stack'[1].index] \in session'
    <3>1. ASSUME NEW j \in 1..Len(toClient), toClient'[i] = toClient[j]
          PROVE  messageHandlers'[stack'[1].index] \in session'
      BY <1>4, <2>1, <2>3, <2>9, <3>1 DEF RestoreInv
    <3>2. CASE toClient' = toClient
      BY <3>1, <3>2
    <3>3. CASE toClient' = <<>>
      BY <3>3
    <3>4. CASE toClient # <<>> /\ toClient' = Tail(toClient)
      <4>1. /\ Len(toClient) \in Nat \ {0} /\ Len(toClient') = Len(toClient) - 1
            /\ \A k \in 1..(Len(toClient) - 1) : toClient'[k] = toClient[k + 1]
        BY <1>0, <3>4, Taken
      <4>2. i + 1 \in 1..Len(toClient) /\ toClient'[i] = toClient[i + 1]
        BY <4>1
      <4> QED BY <3>1, <4>2
    <3>5. CASE BrokerAnswer
      <4> DEFINE q == AckPacket(Head(toBroker))
      <4>1. /\ toBroker # <<>> /\ Head(toBroker) = toBroker[1] /\ Head(toBroker) \in RequestPackets
            /\ q \in Packets /\ q.type = AckOf(Head(toBroker).type) /\ toClient' = Append(toClient, q)
        BY <3>5, AnswerStep
      <4> HIDE DEF q
      <4>2. /\ Len(toClient) \in Nat /\ Len(toClient') = Len(toClient) + 1
            /\ \A k \in 1..Len(toClient) : toClient'[k] = toClient[k]
            /\ toClient'[Len(toClient) + 1] = q
        BY <1>0, <4>1, Appended
      <4>3. CASE i \in 1..Len(toClient)
        BY <3>1, <4>2, <4>3
      <4>4. CASE i = Len(toClient) + 1
        <5>1. 1 \in 1..Len(toBroker)
          BY <1>0, <4>1, Taken
        <5>2. Head(toBroker).type = "SUBSCRIBE"
          BY <2>9, <4>1, <4>2, <4>4 DEF AckOf
        <5>3. Head(toBroker).topic = messageHandlers[stack[1].index]
          BY <1>4, <2>9, <4>1, <5>1, <5>2 DEF RestoreInv
        <5>4. session' = session \union {Head(toBroker).topic}
          BY <3>5, <5>2 DEF BrokerAnswer
        <5> QED BY <1>4, <2>1, <5>3, <5>4
      <4> QED BY <4>2, <4>3, <4>4
    <3>6. ASSUME NEW topic \in Topics, BrokerPublish(topic) PROVE messageHandlers'[stack'[1].index] \in session'
      <4> DEFINE q == [type |-> "PUBLISH", id |-> 0, topic |-> topic]
      <4>1. q \in Packets /\ q.type = "PUBLISH"
        BY DEF Packets
      <4>2. toClient' = Append(toClient, q)
        BY <3>6 DEF BrokerPublish
      <4> HIDE DEF q
      <4>3. /\ Len(toClient) \in Nat /\ Len(toClient') = Len(toClient) + 1
            /\ \A k \in 1..Len(toClient) : toClient'[k] = toClient[k]
            /\ toClient'[Len(toClient) + 1] = q
        BY <1>0, <4>1, <4>2, Appended
      <4>4. i # Len(toClient) + 1
        BY <2>9, <4>1, <4>3
      <4>5. i \in 1..Len(toClient)
        BY <4>3, <4>4
      <4> QED BY <3>1, <4>3, <4>5
    <3> QED BY <3>2, <3>3, <3>4, <3>5, <3>6, ChannelStep
  <2> QED BY <2>5, <2>6, <2>7, <2>8, <2>9
<1>5. CASE /\ 1 = Len(stack) /\ stack # <<>> /\ Moved(Top, stack'[1])
           /\ ReceiveAck \/ WaitTimeout \/ ResubscribeSend
  <2>0. /\ Top = stack[1] /\ Top \in Frames /\ FrameOK(Top) /\ Top.fn = "resubscribe" /\ 1 \in 1..Len(stack)
        /\ stack[1].fn = "resubscribe"
    BY <1>5, TopOK DEF Moved
  <2>1. UNCHANGED messageHandlers /\ FreeIndex' = FreeIndex
    BY <1>1, <1>3, <2>0
  <2>2. /\ \A i \in 1..Len(toBroker) : toBroker[i].type = "SUBSCRIBE" => Top.pc = "wait"
        /\ \A i \in 1..Len(toClient) : toClient[i].type = "SUBACK" => Top.pc = "wait"
    BY <2>0, ResubscribeInFlight
  <2>3. ASSUME NEW g \in Frames, SetTop(g) PROVE stack'[1] = g
    BY <1>0, <1>5, <2>3, TopSet
  <2>4. Top.count = FreeIndex - 1 /\ (link => \A i \in 1..(Top.index - 1) : messageHandlers[i] \in session)
    BY <2>0 DEF RestoreInv
  <2>5. CASE ReceiveAck
    <3>1. /\ Top.pc = "wait" /\ SetTop(AckFrame(Top)) /\ AckFrame(Top) \in Frames /\ Read
          /\ Head(toClient).type = "SUBACK"
      BY <2>0, <2>5, AckFrameKeeps, AwaitedTypes DEF ReceiveAck, At, AckFrame
    <3>2. /\ stack'[1].pc = "send" /\ stack'[1].count = Top.count /\ stack'[1].index = Top.index + 1
      <4>1. AckFrame(Top) = [Top EXCEPT !.pc = "send", !.index = Top.index + 1, !.id = 0]
        BY <2>0 DEF AckFrame
      <4>2. AckFrame(Top).pc = "send" /\ AckFrame(Top).count = Top.count /\ AckFrame(Top).index = Top.index + 1
        BY <2>0, <4>1 DEF Frames
      <4> QED BY <2>3, <3>1, <4>2
    <3>3. Head(toClient) = toClient[1] /\ 1 \in 1..Len(toClient)
      BY <1>0, <3>1, Taken DEF Read
    <3>4. messageHandlers[Top.index] \in session
      BY <2>0, <3>1, <3>3 DEF RestoreInv
    <3>5. link' = link /\ session' = session
      BY <3>1 DEF Read
    <3>6. ASSUME link', NEW i \in 1..(stack'[1].index - 1) PROVE messageHandlers'[i] \in session'
      <4>1. Top.index \in Nat
        BY <1>0, <2>0 DEF Frames
      <4>2. i \in 1..(Top.index - 1) \/ i = Top.index
        BY <3>2, <4>1
      <4> QED BY <2>1, <2>4, <3>4, <3>5, <3>6, <4>2
    <3> QED BY SMTT(30), <2>1, <2>4, <3>2, <3>6
  <2>6. CASE WaitTimeout
    <3>1. Top.pc = "wait" /\ SetTop([Top EXCEPT !.pc = "return"]) /\ link' = link /\ session' = session
      BY <2>6 DEF WaitTimeout, At, network
    <3>2. 1 \in Ids
      BY SessionAssumption DEF Ids
    <3>3. [Top EXCEPT !.pc = "return"] \in Frames
      BY <2>0, <3>2, MovedFrames
    <3>4. /\ stack'[1].pc = "return" /\ stack'[1].count = Top.count /\ stack'[1].index = Top.index
          /\ stack'[1].ok = Top.ok
      BY <2>0, <2>3, <3>1, <3>3 DEF Frames
    <3>5. ~Top.ok
      BY <2>0, <3>1 DEF FrameOK
    <3> QED BY <2>1, <2>4, <3>1, <3>4, <3>5
  <2>7. CASE ResubscribeSend
    <3>0. Top.pc = "send" /\ link' = link /\ session' = session /\ toClient' = toClient
      BY <2>7 DEF ResubscribeSend, At, network, Sent
    <3>1. 1 \in Ids /\ NextPacketId \in Ids
      BY SessionAssumption, NextPacketIdType DEF Ids, TypeInv
    <3>2. ~Top.ok
      BY <2>0, <3>0 DEF FrameOK
    <3>3. CASE Top.index > Top.count
      <4>1. SetTop([Top EXCEPT !.pc = "return", !.ok = TRUE])
        BY <2>7, <3>3 DEF ResubscribeSend
      <4>2. [Top EXCEPT !.pc = "return", !.ok = TRUE] \in Frames
        BY <2>0, <3>1, MovedFrames
      <4> DEFINE g == [Top EXCEPT !.pc = "return", !.ok = TRUE]
      <4>3. g.pc = "return" /\ g.count = Top.count /\ g.index = Top.index
        BY <2>0 DEF Frames
      <4>4. stack'[1] = g
        BY <2>3, <4>1, <4>2
      <4> HIDE DEF g
      <4> QED BY <2>1, <2>4, <3>0, <3>3, <4>3, <4>4
    <3>4. CASE SetTop([Top EXCEPT !.pc = "return"])
      <4>1. [Top EXCEPT !.pc = "return"] \in Frames
        BY <2>0, <3>1, MovedFrames
      <4>2. /\ stack'[1].pc = "return" /\ stack'[1].count = Top.count /\ stack'[1].index = Top.index
            /\ stack'[1].ok = Top.ok
        BY <2>0, <2>3, <3>4, <4>1 DEF Frames
      <4> QED BY <2>1, <2>4, <3>0, <3>2, <4>2
    <3>5. CASE /\ ~(Top.index > Top.count)
               /\ Sent("SUBSCRIBE", messageHandlers[Top.index])
               /\ SetTop([Top EXCEPT !.pc = "wait", !.id = NextPacketId])
      <4>0. ~(Top.index > Top.count)
        BY <3>5
      <4>1. Top.index <= Top.count /\ Top.index \in Slots
        BY SMTT(30), <2>0, <4>0, SessionAssumption DEF FrameOK, Frames, Slots
      <4>2. messageHandlers[Top.index] \in Topics \union {NoTopic}
        BY <4>1 DEF TypeInv
      <4>3. [Top EXCEPT !.pc = "wait", !.id = NextPacketId] \in Frames
        BY <2>0, <3>0, <3>1, <4>1, MovedFrames
      <4>4. stack'[1].pc = "wait" /\ stack'[1].count = Top.count /\ stack'[1].index = Top.index
        BY ZenonT(60), <2>0, <2>3, <3>5, <4>3 DEF Frames
      <4> DEFINE p == [type |-> "SUBSCRIBE", id |-> NextPacketId, topic |-> messageHandlers[Top.index]]
      <4>5. p \in RequestPackets /\ p.topic = messageHandlers[Top.index]
        BY <3>5, <4>2, SentKeeps
      <4>6. toBroker' = Append(toBroker, p) \/ toBroker' = toBroker
        BY <3>5 DEF Sent
      <4> HIDE DEF p
      <4>7. ASSUME NEW i \in 1..Len(toBroker'), toBroker'[i].type = "SUBSCRIBE"
            PROVE  toBroker'[i].topic = messageHandlers[Top.index]
        <5>1. CASE toBroker' = toBroker
          BY <2>2, <3>0, <4>7, <5>1
        <5>2. CASE toBroker' = Append(toBroker, p)
          <6>1. /\ Len(toBroker) \in Nat /\ Len(toBroker') = Len(toBroker) + 1
                /\ \A k \in 1..Len(toBroker) : toBroker'[k] = toBroker[k]
                /\ toBroker'[Len(toBroker) + 1] = p
            BY <1>0, <4>5, <5>2, Appended
          <6>2. i \notin 1..Len(toBroker)
            BY <2>2, <3>0, <4>7, <6>1
          <6>3. i = Len(toBroker) + 1
            BY <6>1, <6>2
          <6> QED BY <4>5, <6>1, <6>3
        <5> QED BY <4>6, <5>1, <5>2
      <4>8. \A i \in 1..Len(toClient') : toClient'[i].type # "SUBACK"
        BY <2>2, <3>0
      <4> QED BY <2>1, <2>4, <3>0, <4>4, <4>7, <4>8
    <3> QED BY <2>7, <3>3, <3>4, <3>5 DEF ResubscribeSend
  <2> QED BY <1>5, <2>5, <2>6, <2>7
<1> QED BY <1>2, <1>4, <1>5, StackStep

\* resubscribe that succeeds on a live connection has restored every subscription, if the table
\* has no hole, no timer expires while an answer may still come, and the callbacks only publish.
THEOREM ResubscribeRestoresAll ==
  ~LateAnswers /\ CallbackCalls \subseteq {"publish"} => (Spec => []ResubscribeRestoresPacked)
<1> SUFFICES ASSUME ~LateAnswers, CallbackCalls \subseteq {"publish"}
             PROVE  Spec => []ResubscribeRestoresPacked
  OBVIOUS
<1>1. Init => OwnInv("SUBACK") /\ OwnInv("UNSUBACK") /\ RestoreInv
  BY DEF Init, OwnInv, RestoreInv
<1>2. /\ TypeInv /\ FrameInv /\ LinkInv /\ UniqueInv /\ OwnInv("SUBACK") /\ OwnInv("UNSUBACK") /\ [Next]_vars
      => OwnInv("SUBACK")' /\ OwnInv("UNSUBACK")'
  <2> SUFFICES ASSUME TypeInv, FrameInv, LinkInv, UniqueInv, OwnInv("SUBACK"), OwnInv("UNSUBACK"), [Next]_vars
               PROVE  OwnInv("SUBACK")' /\ OwnInv("UNSUBACK")'
    OBVIOUS
  <2>1. Alone("SUBACK") /\ Alone("UNSUBACK") /\ "SUBACK" \in Acks /\ "UNSUBACK" \in Acks
    BY WaitingOutermost DEF Acks
  <2> QED BY <2>1, OwnStep
<1>3. /\ TypeInv /\ FrameInv /\ LinkInv /\ OwnInv("SUBACK") /\ OwnInv("UNSUBACK") /\ RestoreInv /\ [Next]_vars
      /\ TypeInv' /\ FrameInv' /\ OwnInv("SUBACK")' /\ OwnInv("UNSUBACK")'
      => RestoreInv'
  BY RestoreStep
<1>4. TypeInv /\ FrameInv /\ OwnInv("SUBACK") /\ OwnInv("UNSUBACK") /\ RestoreInv => ResubscribeRestoresPacked
  <2> SUFFICES ASSUME TypeInv, FrameInv, OwnInv("SUBACK"), OwnInv("UNSUBACK"), RestoreInv,
                      \A i, j \in Slots : i < j /\ messageHandlers[i] = NoTopic => messageHandlers[j] = NoTopic,
                      At({"resubscribe"}, "return"), Top.ok, link, NEW topic \in Subscribed
               PROVE  Covered(topic)
    BY DEF ResubscribeRestoresPacked, ResubscribeRestores
  <2>0. NumHandlers \in Nat /\ "resubscribe" \notin CallbackCalls /\ NoTopic \notin Topics
        /\ messageHandlers \in [Slots -> Topics \union {NoTopic}]
    BY SessionAssumption DEF TypeInv
  <2>1. /\ Top = stack[1] /\ 1 \in 1..Len(stack) /\ Top \in Frames /\ FrameOK(Top) /\ Top.fn = "resubscribe"
        /\ Top.pc = "return"
    BY <2>0, TopOK DEF At
  <2>2. PICK j \in Slots : messageHandlers[j] = topic /\ topic # NoTopic
    BY <2>0 DEF Subscribed, Range
  <2>3. Top.count = FreeIndex - 1 /\ Top.index > Top.count
    BY <2>1 DEF RestoreInv
  <2>4. j < FreeIndex
    <3>1. PICK n \in Nat : n = FreeIndex
      BY <2>0, FreeIndexFree
    <3>2. n <= NumHandlers => n \in Slots /\ messageHandlers[n] = NoTopic
      BY <2>0, <3>1, FreeIndexFree
    <3>3. n \in Slots => ~(n < j)
      BY <2>2, <3>1, <3>2, <2>0 DEF Slots
    <3>4. n \in Slots => n # j
      BY <2>0, <2>2, <3>2 DEF Slots
    <3>5. j < n
      BY <2>0, <3>2, <3>3, <3>4 DEF Slots
    <3> QED BY <3>1, <3>5
  <2>5. j \in 1..(Top.index - 1)
    <3>1. PICK n \in Nat, m \in Nat : n = FreeIndex /\ m = Top.index
      BY <2>0, <2>1, FreeIndexFree DEF Frames
    <3>2. m > n - 1 /\ j < n /\ j \in 1..NumHandlers
      BY <2>3, <2>4, <3>1 DEF Slots
    <3>3. j \in 1..(m - 1)
      BY <2>0, <3>2
    <3> QED BY <3>1, <3>3
  <2>6. topic \in session
    BY <2>1, <2>2, <2>5 DEF RestoreInv
  <2>7. \A i \in 1..Len(toBroker) : toBroker[i].type \notin {"SUBSCRIBE", "UNSUBSCRIBE"}
    BY <2>1, ResubscribeInFlight
  <2>8. \A i \in 1..Len(toBroker) : toBroker[i].topic = NoTopic
    BY <2>7 DEF TypeInv, RequestPackets
  <2>9. {i \in DOMAIN toBroker : toBroker[i].topic = topic} = {}
    BY <2>2, <2>8 DEF TypeInv
  <2> QED BY <2>6, <2>9 DEF Covered
<1> QED BY <1>1, <1>2, <1>3, <1>4, FrameInductive, LinkInductive, PTL DEF Spec
=============================================================================
