---------------------------- MODULE ShadowProofs -----------------------------
(***************************************************************************)
(* What the device shadow guarantees, for every set of things and actions, *)
(* every size of its lists and of its counts, and every number of actions  *)
(* and versions.                                                           *)
(***************************************************************************)
EXTENDS Shadow, Integers, FiniteSetTheorems, SequenceTheorems, WellFoundedInduction, TLAPS

AckRecords   == [isFree : BOOLEAN, key : Keys \union {NoKey}, token : Tokens \union {0}]
TopicRecords == [isFree : BOOLEAN, topic : (Keys \X Acks) \union {NoTopic},
                 count : 0..MaxCount, isSticky : BOOLEAN]

\* An action knows its key and its token, n tokens being used, and the slots that it fills; a
\* response and a timeout know their place in AckWaitList.
FrameOK(f, n) ==
  /\ f.fn = "action" => /\ f.key \in Keys
                        /\ f.token \in 1..n
                        /\ f.pc = "subscribe" => f.a \in TopicSlots /\ f.r \in TopicSlots
  /\ f.fn \in {"ack", "expire"} => f.index \in AckSlots

\* The types, in groups that the steps change together.
ListsOK ==
  /\ AckWaitList \in [AckSlots -> AckRecords]
  /\ SubscriptionList \in [TopicSlots -> TopicRecords]
  /\ handlers \subseteq TopicSlots

StackOK ==
  /\ stack \in Seq(Frames)
  /\ Len(stack) <= MaxDepth
  /\ \A d \in 1..Len(stack) : FrameOK(stack[d], clientTokenNum)

ServiceOK == clientTokenNum \in 0..MaxActions /\ pending \subseteq Tokens \X Keys

DeltaOK ==
  /\ deltaHandler \in BOOLEAN
  /\ deltaTopicSubscribedFlag \in BOOLEAN
  /\ tokenTableIndex \in 0..MaxTokens

VersionOK ==
  /\ shadowDiscardOldDeltaFlag \in BOOLEAN
  /\ shadowJsonVersionNum \in 0..MaxVersion
  /\ lastDelta \in 0..MaxVersion

HistoryOK == tracked \subseteq Tokens /\ calls \in [Tokens -> Nat] /\ uncovered \in BOOLEAN

TypeInv == ListsOK /\ StackOK /\ ServiceOK /\ DeltaOK /\ VersionOK /\ HistoryOK

-----------------------------------------------------------------------------
(* The stack and the lists.                                                *)

\* The constants, one by one.
LEMMA Constants ==
  /\ MaxAcks \in Nat /\ MaxTopics \in Nat /\ MaxTokens \in Nat /\ MaxVersion \in Nat
  /\ MaxDepth \in Nat /\ MaxDepth # 0 /\ MaxActions \in Nat /\ MaxCount \in Nat /\ MaxCount # 0
BY ShadowAssumption

\* A call pushes one activation.
LEMMA Pushed ==
  ASSUME stack \in Seq(Frames), NEW f \in Frames, stack' = Append(stack, f)
  PROVE  /\ stack' \in Seq(Frames) /\ Len(stack) \in Nat /\ Len(stack') = Len(stack) + 1
         /\ \A d \in 1..Len(stack) : stack'[d] = stack[d]
         /\ stack'[Len(stack) + 1] = f
OBVIOUS

\* Only the innermost activation changes.
LEMMA TopSet ==
  ASSUME stack \in Seq(Frames), stack # <<>>, NEW f \in Frames, SetTop(f)
  PROVE  /\ stack' \in Seq(Frames) /\ Len(stack) \in Nat \ {0} /\ Len(stack') = Len(stack)
         /\ \A d \in 1..Len(stack) : d # Len(stack) => stack'[d] = stack[d]
         /\ stack'[Len(stack)] = f
BY DEF SetTop

\* A return pops one activation.
LEMMA Popped ==
  ASSUME stack \in Seq(Frames), stack # <<>>, Pop
  PROVE  /\ stack' \in Seq(Frames) /\ Len(stack) \in Nat \ {0} /\ Len(stack') = Len(stack) - 1
         /\ \A d \in 1..(Len(stack) - 1) : stack'[d] = stack[d]
<1>1. stack' = SubSeq(stack, 1, Len(stack) - 1) /\ Len(stack) \in Nat \ {0}
  BY DEF Pop, Front
<1>2. \A d \in 1..(Len(stack) - 1) : stack[d] \in Frames
  BY <1>1
<1>3. /\ stack' \in Seq(Frames)
      /\ Len(stack') = IF 1 <= Len(stack) - 1 THEN Len(stack) - 1 ELSE 0
      /\ \A d \in 1..(Len(stack) - 1) : stack'[d] = stack[1 + d - 1]
  <2> DEFINE n == Len(stack) - 1
  <2>1. n \in Int /\ 1 \in Int /\ (n - 1) + 1 = n
    BY <1>1
  <2>2. \A d \in 1..n : stack[d] \in Frames
    BY <1>2
  <2>3. stack' = SubSeq(stack, 1, n)
    BY <1>1
  <2> HIDE DEF n
  <2>4. /\ SubSeq(stack, 1, n) \in Seq(Frames)
        /\ Len(SubSeq(stack, 1, n)) = IF 1 <= n THEN n - 1 + 1 ELSE 0
        /\ \A i \in 1..(n - 1 + 1) : SubSeq(stack, 1, n)[i] = stack[1 + i - 1]
    BY <2>1, <2>2, SubSeqProperties
  <2>5. /\ stack' \in Seq(Frames)
        /\ Len(stack') = IF 1 <= n THEN n ELSE 0
        /\ \A i \in 1..n : stack'[i] = stack[1 + i - 1]
    BY <2>1, <2>3, <2>4
  <2> QED BY <2>5 DEF n
<1>4. \A d \in 1..(Len(stack) - 1) : 1 + d - 1 = d
  BY <1>1
<1>5. \A d \in 1..(Len(stack) - 1) : stack'[d] = stack[d]
  BY <1>3, <1>4
<1>6. Len(stack') = Len(stack) - 1
  <2>1. PICK n \in Nat \ {0} : n = Len(stack)
    BY <1>1
  <2>2. (IF 1 <= n - 1 THEN n - 1 ELSE 0) = n - 1
    OBVIOUS
  <2> QED BY <1>3, <2>1, <2>2
<1> QED BY <1>1, <1>3, <1>5, <1>6

\* The innermost activation.
LEMMA TopType ==
  ASSUME stack \in Seq(Frames), stack # <<>>
  PROVE  Len(stack) \in Nat \ {0} /\ Len(stack) \in 1..Len(stack) /\ Top = stack[Len(stack)] /\ Top \in Frames
BY DEF Top, Last

\* A stack of one activation.
LEMMA Single ==
  ASSUME NEW f \in Frames, stack' = <<f>>
  PROVE  stack' \in Seq(Frames) /\ Len(stack') = 1 /\ stack'[1] = f
OBVIOUS

\* Every set of numbers that is not empty has a least element.
LEMMA LeastElement ==
  ASSUME NEW T, T \subseteq Nat, T # {}
  PROVE  \E x \in T : \A y \in T : x <= y
<1> DEFINE R == OpToRel(<, Nat)
<1>1. \A x, y \in Nat : y < x => <<y, x>> \in R
  BY DEF OpToRel
<1>2. IsWellFoundedOn(R, Nat)
  BY NatLessThanWellFounded
<1> HIDE DEF R
<1>3. \E x \in T : \A y \in T : <<y, x>> \notin R
  BY <1>2, WFMin
<1>4. \E x \in T : \A y \in T : ~(y < x)
  BY <1>1, <1>3
<1> QED BY <1>4

\* The lowest of a set of slots is one of them, and 0 means that there is none.
LEMMA LowestSlot ==
  ASSUME NEW slots, slots \subseteq Nat \ {0}
  PROVE  /\ Lowest(slots) \in slots \union {0}
         /\ Lowest(slots) = 0 <=> slots = {}
<1>1. CASE slots = {}
  BY <1>1 DEF Lowest
<1>2. CASE slots # {}
  <2>1. \E i \in slots : \A j \in slots : i <= j
    BY <1>2, LeastElement
  <2>2. Lowest(slots) \in slots
    BY <1>2, <2>1 DEF Lowest
  <2> QED BY <1>2, <2>2
<1> QED BY <1>1, <1>2

\* A free place in AckWaitList is one of its places, and is free.
LEMMA FreeAckFree ==
  /\ FreeAck \in AckSlots \union {0}
  /\ FreeAck # 0 => FreeAck \in AckSlots /\ AckWaitList[FreeAck].isFree
<1> DEFINE S == {i \in AckSlots : AckWaitList[i].isFree}
<1>1. S \subseteq Nat \ {0} /\ S \subseteq AckSlots
  BY Constants DEF AckSlots
<1>2. FreeAck = Lowest(S)
  BY DEF FreeAck
<1>3. \A i \in S : AckWaitList[i].isFree
  OBVIOUS
<1> HIDE DEF S
<1> QED BY <1>1, <1>2, <1>3, LowestSlot

-----------------------------------------------------------------------------
(* The groups of TypeInv.                                                  *)

\* A call keeps the stack in order.
LEMMA PushKeeps ==
  ASSUME StackOK, ServiceOK, NEW f \in Frames, stack' = Append(stack, f), Len(stack) < MaxDepth,
         clientTokenNum' \in {clientTokenNum, clientTokenNum + 1}, FrameOK(f, clientTokenNum')
  PROVE  StackOK'
<1>1. /\ stack' \in Seq(Frames) /\ Len(stack) \in Nat /\ Len(stack') = Len(stack) + 1
      /\ \A d \in 1..Len(stack) : stack'[d] = stack[d]
      /\ stack'[Len(stack) + 1] = f
  BY Pushed DEF StackOK
<1>2. Len(stack') <= MaxDepth
  BY <1>1, Constants
<1>3. \A d \in 1..Len(stack') : d \in 1..Len(stack) \/ d = Len(stack) + 1
  BY <1>1
<1>4. 1..clientTokenNum \subseteq 1..clientTokenNum'
  <2>1. PICK n \in Nat : n = clientTokenNum
    BY Constants DEF ServiceOK
  <2>2. 1..n \subseteq 1..(n + 1)
    OBVIOUS
  <2> QED BY <2>1, <2>2
<1>5. \A d \in 1..Len(stack) : FrameOK(stack[d], clientTokenNum')
  BY <1>4 DEF StackOK, FrameOK
<1>6. \A d \in 1..Len(stack') : FrameOK(stack'[d], clientTokenNum')
  BY <1>1, <1>3, <1>5
<1> QED BY <1>1, <1>2, <1>6 DEF StackOK

\* The innermost activation moves on.
LEMMA TopKeeps ==
  ASSUME StackOK, stack # <<>>, NEW f \in Frames, SetTop(f), clientTokenNum' = clientTokenNum,
         FrameOK(f, clientTokenNum)
  PROVE  StackOK'
<1>1. /\ stack' \in Seq(Frames) /\ Len(stack) \in Nat \ {0} /\ Len(stack') = Len(stack)
      /\ \A d \in 1..Len(stack) : d # Len(stack) => stack'[d] = stack[d]
      /\ stack'[Len(stack)] = f
  BY TopSet DEF StackOK
<1>2. \A d \in 1..Len(stack') : FrameOK(stack'[d], clientTokenNum)
  BY <1>1 DEF StackOK
<1> QED BY <1>1, <1>2 DEF StackOK

\* The innermost activation returns.
LEMMA PopKeeps ==
  ASSUME StackOK, stack # <<>>, Pop, clientTokenNum' = clientTokenNum
  PROVE  StackOK'
<1>1. /\ stack' \in Seq(Frames) /\ Len(stack) \in Nat \ {0} /\ Len(stack') = Len(stack) - 1
      /\ \A d \in 1..(Len(stack) - 1) : stack'[d] = stack[d]
  BY Popped DEF StackOK
<1>2. \A d \in 1..Len(stack') : d \in 1..Len(stack) /\ stack'[d] = stack[d]
  BY <1>1
<1>3. \A d \in 1..Len(stack') : FrameOK(stack'[d], clientTokenNum)
  BY <1>2 DEF StackOK
<1>4. Len(stack') <= MaxDepth
  <2>1. PICK n \in Nat \ {0} : n = Len(stack)
    BY <1>1
  <2>2. n <= MaxDepth
    BY <2>1 DEF StackOK
  <2>3. n - 1 <= MaxDepth
    BY <2>2, Constants
  <2> QED BY <1>1, <2>1, <2>3
<1> QED BY <1>1, <1>3, <1>4 DEF StackOK

\* A call from outside starts a stack.
LEMMA SingleKeeps ==
  ASSUME NEW f \in Frames, stack' = <<f>>, FrameOK(f, clientTokenNum')
  PROVE  StackOK'
<1>1. stack' \in Seq(Frames) /\ Len(stack') = 1 /\ stack'[1] = f
  BY Single
<1>2. \A d \in 1..Len(stack') : d = 1
  BY <1>1
<1>3. \A d \in 1..Len(stack') : FrameOK(stack'[d], clientTokenNum')
  BY <1>1, <1>2
<1>4. Len(stack') <= MaxDepth
  BY <1>1, Constants
<1> QED BY <1>1, <1>3, <1>4 DEF StackOK

\* The activation on top is in order.
LEMMA TopOK ==
  ASSUME StackOK, stack # <<>>
  PROVE  /\ Top \in Frames /\ FrameOK(Top, clientTokenNum) /\ Top = stack[Len(stack)]
         /\ Len(stack) \in Nat \ {0} /\ Len(stack) \in 1..Len(stack)
BY TopType DEF StackOK

\* The frame of an action that finds its topics subscribed.
LEMMA PublishFrameOK ==
  ASSUME ServiceOK, NEW key \in Keys, NEW sticky \in BOOLEAN, clientTokenNum < MaxActions,
         FreeAck # 0, clientTokenNum' = clientTokenNum + 1, NEW f,
         f = ActionFrame(key, sticky, "publish")
  PROVE  /\ f \in Frames /\ FrameOK(f, clientTokenNum')
         /\ f.fn = "action" /\ f.key = key /\ f.token = clientTokenNum' /\ f.index = FreeAck
         /\ f.pc = "publish" /\ FreeAck \in AckSlots
<1>1. FreeAck \in AckSlots
  BY FreeAckFree
<1>2. clientTokenNum + 1 \in Tokens /\ clientTokenNum' \in 1..clientTokenNum'
  BY Constants DEF ServiceOK, Tokens
<1>3. PICK t \in Tokens : t = clientTokenNum + 1
  BY <1>2
<1>4. PICK x \in AckSlots : x = FreeAck
  BY <1>1
<1>5. /\ f \in Frames
      /\ f.fn = "action" /\ f.key = key /\ f.token = clientTokenNum' /\ f.index = FreeAck
      /\ f.pc = "publish"
  BY <1>3, <1>4 DEF ActionFrame, NewFrame, Frames, Acks
<1> QED BY <1>1, <1>2, <1>5 DEF FrameOK

SubscribeFrame(key, sticky, a, r) ==
  [ActionFrame(key, sticky, "subscribe") EXCEPT !.a = a, !.r = r]

\* The frame of an action that has its topics to subscribe to.
LEMMA SubscribeFrameOK ==
  ASSUME ServiceOK, NEW key \in Keys, NEW sticky \in BOOLEAN, clientTokenNum < MaxActions,
         FreeAck # 0, clientTokenNum' = clientTokenNum + 1,
         NEW a \in TopicSlots \union {0}, NEW r \in TopicSlots \union {0}, NEW g,
         g = SubscribeFrame(key, sticky, a, r)
  PROVE  /\ g \in Frames
         /\ g.fn = "action" /\ g.key = key /\ g.token = clientTokenNum' /\ g.index = FreeAck
         /\ g.a = a /\ g.r = r /\ g.pc = "subscribe" /\ FreeAck \in AckSlots
         /\ a # 0 /\ r # 0 => FrameOK(g, clientTokenNum')
<1>1. FreeAck \in AckSlots
  BY FreeAckFree
<1>2. clientTokenNum + 1 \in Tokens /\ clientTokenNum' \in 1..clientTokenNum'
  BY Constants DEF ServiceOK, Tokens
<1>3. PICK t \in Tokens : t = clientTokenNum + 1
  BY <1>2
<1>4. PICK x \in AckSlots : x = FreeAck
  BY <1>1
<1>5. /\ g \in Frames
      /\ g.fn = "action" /\ g.key = key /\ g.token = clientTokenNum' /\ g.index = FreeAck
      /\ g.a = a /\ g.r = r /\ g.pc = "subscribe"
  BY <1>3, <1>4 DEF SubscribeFrame, ActionFrame, NewFrame, Frames, Acks
<1> QED BY <1>1, <1>2, <1>5 DEF FrameOK

\* The frame of an action that finds no slots for its topics.
LEMMA NoSlotFrameOK ==
  ASSUME ServiceOK, NEW g \in Frames, NEW pc \in {"cleanup", "publish"}, NEW f,
         f = [g EXCEPT !.pc = pc], g.fn = "action", g.key \in Keys,
         clientTokenNum' = clientTokenNum + 1, g.token = clientTokenNum'
  PROVE  /\ f \in Frames /\ FrameOK(f, clientTokenNum')
         /\ f.fn = "action" /\ f.key = g.key /\ f.token = g.token /\ f.index = g.index /\ f.pc = pc
<1>1. clientTokenNum' \in 1..clientTokenNum'
  BY Constants DEF ServiceOK
<1>2. /\ f \in Frames
      /\ f.fn = "action" /\ f.key = g.key /\ f.token = g.token /\ f.index = g.index /\ f.pc = pc
  BY DEF Frames
<1> QED BY <1>1, <1>2 DEF FrameOK

-----------------------------------------------------------------------------
(* TypeInv holds in every reachable state.                                 *)

\* The groups hold after a step that leaves their variables alone.
LEMMA GroupsKeep ==
  /\ ListsOK /\ UNCHANGED lists => ListsOK'
  /\ StackOK /\ UNCHANGED <<stack, clientTokenNum>> => StackOK'
  /\ ServiceOK /\ UNCHANGED service => ServiceOK'
  /\ DeltaOK /\ UNCHANGED delta => DeltaOK'
  /\ VersionOK /\ UNCHANGED version => VersionOK'
  /\ HistoryOK /\ UNCHANGED history => HistoryOK'
<1>1. ListsOK /\ UNCHANGED lists => ListsOK'
  BY DEF ListsOK, lists
<1>2. StackOK /\ UNCHANGED <<stack, clientTokenNum>> => StackOK'
  BY DEF StackOK
<1>3. ServiceOK /\ UNCHANGED service => ServiceOK'
  BY DEF ServiceOK, service
<1>4. DeltaOK /\ UNCHANGED delta => DeltaOK'
  BY DEF DeltaOK, delta
<1>5. VersionOK /\ UNCHANGED version => VersionOK'
  BY DEF VersionOK, version
<1>6. HistoryOK /\ UNCHANGED history => HistoryOK'
  BY DEF HistoryOK, history
<1> QED BY <1>1, <1>2, <1>3, <1>4, <1>5, <1>6

\* Nothing is counted yet.
LEMMA TypeInit == Init => TypeInv
<1> SUFFICES ASSUME Init PROVE TypeInv
  OBVIOUS
<1> USE Constants
<1>1. ListsOK
  BY DEF Init, ListsOK, AckRecords, TopicRecords
<1>2. StackOK
  BY DEF Init, StackOK
<1>3. ServiceOK /\ DeltaOK /\ VersionOK
  <2>1. ServiceOK
    BY DEF Init, ServiceOK
  <2>2. tokenTableIndex \in 0..MaxTokens /\ shadowJsonVersionNum \in 0..MaxVersion /\ lastDelta \in 0..MaxVersion
    BY DEF Init
  <2> QED BY <2>1, <2>2 DEF Init, DeltaOK, VersionOK
<1>4. HistoryOK
  BY DEF Init, HistoryOK
<1> QED BY <1>1, <1>2, <1>3, <1>4 DEF TypeInv

\* One more token is used.
LEMMA StartCounts ==
  ASSUME ServiceOK, NEW key, NEW sticky, Start(key, sticky)
  PROVE  ServiceOK' /\ clientTokenNum' = clientTokenNum + 1
<1>1. PICK n \in 0..MaxActions : n = clientTokenNum
  BY DEF ServiceOK
<1>2. n < MaxActions /\ clientTokenNum' = n + 1 /\ pending' = pending
  BY <1>1 DEF Start
<1>3. n + 1 \in 0..MaxActions
  BY <1>2, Constants
<1> QED BY <1>1, <1>2, <1>3 DEF ServiceOK

\* Both topics are there.
LEMMA TypeIncrement ==
  ASSUME TypeInv, NEW key \in Keys, NEW sticky \in BOOLEAN, Increment(key, sticky)
  PROVE  TypeInv'
<1>1. Start(key, sticky) /\ UNCHANGED <<AckWaitList, handlers, pending, delta, version, tracked, calls>>
  BY DEF Increment, Start
<1>2. ServiceOK' /\ clientTokenNum' = clientTokenNum + 1
  BY <1>1, StartCounts DEF TypeInv
<1>3. StackOK'
  <2> DEFINE h == ActionFrame(key, sticky, "publish")
  <2>1. FreeAck # 0 /\ clientTokenNum < MaxActions /\ Len(stack) < MaxDepth
    BY <1>1 DEF Start
  <2>2. PICK f : f = h
    OBVIOUS
  <2>3. f \in Frames /\ FrameOK(f, clientTokenNum')
    BY <1>2, <2>1, <2>2, PublishFrameOK DEF TypeInv
  <2>4. stack' = Append(stack, f)
    BY <2>2 DEF Increment
  <2> QED BY <1>2, <2>1, <2>3, <2>4, PushKeeps DEF TypeInv
<1>4. SubscriptionList' \in [TopicSlots -> TopicRecords]
  <2>1. SubscriptionList \in [TopicSlots -> TopicRecords]
    BY DEF TypeInv, ListsOK
  <2>2. \A i \in TopicSlots : Counted(SubscriptionList[i].count) \in 0..MaxCount
    <3> TAKE i \in TopicSlots
    <3>1. PICK n \in 0..MaxCount : n = SubscriptionList[i].count
      BY <2>1 DEF TopicRecords
    <3>2. Counted(n) \in 0..MaxCount
      BY <3>1, Constants DEF Counted
    <3> QED BY <3>1, <3>2
  <2>3. SubscriptionList' =
          [i \in TopicSlots |->
             IF i \in Counting(key)
             THEN [SubscriptionList[i] EXCEPT !.count = Counted(SubscriptionList[i].count), !.isSticky = sticky]
             ELSE SubscriptionList[i]]
    BY DEF Increment
  <2>4. \A i \in TopicSlots :
          [SubscriptionList[i] EXCEPT !.count = Counted(SubscriptionList[i].count), !.isSticky = sticky]
            \in TopicRecords
    BY <2>1, <2>2 DEF TopicRecords
  <2> QED BY <2>1, <2>3, <2>4
<1>5. ListsOK'
  BY <1>1, <1>4 DEF TypeInv, ListsOK
<1>6. HistoryOK'
  <2>1. uncovered' \in BOOLEAN
    BY Zenon DEF Increment
  <2> QED BY <1>1, <2>1 DEF TypeInv, HistoryOK
<1> QED BY <1>1, <1>2, <1>3, <1>5, <1>6, GroupsKeep DEF TypeInv

\* The slots that an action finds for its two topics.
LEMMA TwoSlots ==
  ASSUME NEW a, NEW r, a = Lowest({i \in TopicSlots : SubscriptionList[i].isFree}),
         r = Lowest({i \in TopicSlots : SubscriptionList[i].isFree} \ {a})
  PROVE  /\ a \in TopicSlots \union {0} /\ r \in TopicSlots \union {0}
         /\ r # 0 => a # 0 /\ a # r /\ SubscriptionList[a].isFree /\ SubscriptionList[r].isFree
<1> DEFINE S == {i \in TopicSlots : SubscriptionList[i].isFree}
<1>1. S \subseteq Nat \ {0} /\ S \subseteq TopicSlots /\ \A i \in S : SubscriptionList[i].isFree
  BY Constants DEF TopicSlots
<1>2. a = Lowest(S) /\ r = Lowest(S \ {a})
  OBVIOUS
<1> HIDE DEF S
<1>3. a \in S \union {0}
  <2>1. Lowest(S) \in S \union {0}
    BY <1>1, LowestSlot
  <2> QED BY <1>2, <2>1
<1>4. S \ {a} \subseteq Nat \ {0}
  BY <1>1
<1>5. r \in (S \ {a}) \union {0}
  <2> DEFINE T == S \ {a}
  <2>1. T \subseteq Nat \ {0} /\ r = Lowest(T)
    BY <1>2, <1>4
  <2> HIDE DEF T
  <2>2. Lowest(T) \in T \union {0}
    BY <2>1, LowestSlot
  <2> QED BY <2>1, <2>2 DEF T
<1>6. a = 0 => S = {}
  <2>1. Lowest(S) = 0 <=> S = {}
    BY <1>1, LowestSlot
  <2> QED BY <1>2, <2>1
<1> QED BY <1>1, <1>3, <1>5, <1>6

\* Two slots are taken, or there are none.
LEMMA TypeSubscribeAcks ==
  ASSUME TypeInv, NEW key \in Keys, NEW sticky \in BOOLEAN, SubscribeAcks(key, sticky)
  PROVE  TypeInv'
<1>1. Start(key, sticky) /\ UNCHANGED <<AckWaitList, handlers, pending, delta, version, tracked, calls>>
  BY DEF SubscribeAcks, Start
<1>2. ServiceOK' /\ clientTokenNum' = clientTokenNum + 1
  BY <1>1, StartCounts DEF TypeInv
<1>3. FreeAck # 0 /\ clientTokenNum < MaxActions /\ Len(stack) < MaxDepth
  BY <1>1 DEF Start
<1>4. PICK a : a = Lowest({i \in TopicSlots : SubscriptionList[i].isFree})
  OBVIOUS
<1>5. PICK r : r = Lowest({i \in TopicSlots : SubscriptionList[i].isFree} \ {a})
  OBVIOUS
<1>6. PICK g : g = SubscribeFrame(key, sticky, a, r)
  OBVIOUS
<1>7. /\ a \in TopicSlots \union {0} /\ r \in TopicSlots \union {0}
      /\ r # 0 => a # 0 /\ a # r /\ SubscriptionList[a].isFree /\ SubscriptionList[r].isFree
  BY SMTT(30), <1>4, <1>5, TwoSlots
<1>8. \/ /\ r # 0
         /\ SubscriptionList' = [SubscriptionList EXCEPT
                                   ![a].isFree = FALSE, ![r].isFree = FALSE,
                                   ![a].topic = <<key, "accepted">>]
         /\ stack' = Append(stack, g)
      \/ /\ \E pc \in {"cleanup", "publish"} : stack' = Append(stack, [g EXCEPT !.pc = pc])
         /\ UNCHANGED SubscriptionList
  BY <1>4, <1>5, <1>6 DEF SubscribeAcks, SubscribeFrame
<1>9. StackOK'
  <2>1. /\ g \in Frames /\ g.fn = "action" /\ g.key = key /\ g.token = clientTokenNum'
        /\ a # 0 /\ r # 0 => FrameOK(g, clientTokenNum')
    <3>1. ServiceOK /\ a \in TopicSlots \union {0} /\ r \in TopicSlots \union {0}
      BY <1>7 DEF TypeInv
    <3> QED BY <1>2, <1>3, <1>6, <3>1, SubscribeFrameOK
  <2>2. ASSUME r # 0, stack' = Append(stack, g) PROVE StackOK'
    <3>1. a # 0
      BY <1>7, <2>2
    <3>2. FrameOK(g, clientTokenNum')
      BY <2>1, <2>2, <3>1
    <3> QED BY <1>2, <1>3, <2>1, <2>2, <3>2, PushKeeps DEF TypeInv
  <2>3. ASSUME NEW pc \in {"cleanup", "publish"}, stack' = Append(stack, [g EXCEPT !.pc = pc]) PROVE StackOK'
    <3>1. PICK f : f = [g EXCEPT !.pc = pc]
      OBVIOUS
    <3>2. f \in Frames /\ FrameOK(f, clientTokenNum')
      BY <1>2, <2>1, <3>1, NoSlotFrameOK DEF TypeInv
    <3> QED BY <1>2, <1>3, <2>3, <3>1, <3>2, PushKeeps DEF TypeInv
  <2> QED BY <1>8, <2>2, <2>3
<1>10. SubscriptionList' \in [TopicSlots -> TopicRecords]
  <2>1. SubscriptionList \in [TopicSlots -> TopicRecords] /\ <<key, "accepted">> \in Keys \X Acks
    BY DEF TypeInv, ListsOK, Acks
  <2>2. ASSUME r # 0, SubscriptionList' = [SubscriptionList EXCEPT
                                   ![a].isFree = FALSE, ![r].isFree = FALSE,
                                   ![a].topic = <<key, "accepted">>]
        PROVE  SubscriptionList' \in [TopicSlots -> TopicRecords]
    <3>1. a \in TopicSlots /\ r \in TopicSlots /\ a # r
      BY <1>7, <2>2
    <3> DEFINE s1 == [SubscriptionList EXCEPT ![a].isFree = FALSE]
               s2 == [s1 EXCEPT ![r].isFree = FALSE]
    <3>2. SubscriptionList' = [s2 EXCEPT ![a].topic = <<key, "accepted">>]
      BY <2>2
    <3>3. s1 \in [TopicSlots -> TopicRecords]
      BY <2>1, <3>1 DEF TopicRecords
    <3> HIDE DEF s1
    <3>4. s2 \in [TopicSlots -> TopicRecords]
      BY <3>1, <3>3 DEF TopicRecords
    <3> HIDE DEF s2
    <3> QED BY <2>1, <3>1, <3>2, <3>4 DEF TopicRecords
  <2> QED BY <1>8, <2>1, <2>2
<1>11. ListsOK'
  BY <1>1, <1>10 DEF TypeInv, ListsOK
<1>12. HistoryOK'
  <2>1. uncovered' \in {uncovered, TRUE}
    BY DEF SubscribeAcks
  <2> QED BY <1>1, <2>1 DEF TypeInv, HistoryOK
<1> QED BY <1>1, <1>2, <1>9, <1>11, <1>12, GroupsKeep DEF TypeInv

\* The places at which no topic is being subscribed to.
Later == {"cleanup", "publish", "callback", "release", "unsubscribe"}

\* An activation turns to its other topic and keeps what FrameOK asks of it.
LEMMA AckMoves ==
  ASSUME NEW f \in Frames, NEW n, FrameOK(f, n), NEW ack \in Acks, NEW g, g = [f EXCEPT !.ack = ack]
  PROVE  g \in Frames /\ FrameOK(g, n) /\ g.fn = f.fn /\ g.index = f.index /\ g.pc = f.pc /\ g.token = f.token
<1>1. g \in Frames /\ g.fn = f.fn /\ g.index = f.index /\ g.pc = f.pc
  BY DEF Frames
<1>2. g.key = f.key /\ g.token = f.token /\ g.a = f.a /\ g.r = f.r
  BY DEF Frames
<1> QED BY <1>1, <1>2 DEF FrameOK

\* An activation moves on.
LEMMA PcMoves ==
  ASSUME NEW f \in Frames, NEW n, FrameOK(f, n), NEW pc \in Later, NEW g, g = [f EXCEPT !.pc = pc]
  PROVE  g \in Frames /\ FrameOK(g, n) /\ g.fn = f.fn /\ g.index = f.index /\ g.pc = pc /\ g.token = f.token
<1>1. g \in Frames
  BY DEF Frames, Later
<1>2. g.fn = f.fn /\ g.index = f.index /\ g.pc = pc /\ g.token = f.token /\ g.key = f.key
  BY DEF Frames, Later
<1> QED BY <1>1, <1>2 DEF FrameOK, Later

\* An activation moves on after a failure.
LEMMA PcOkMoves ==
  ASSUME NEW f \in Frames, NEW n, FrameOK(f, n), NEW pc \in Later, NEW ok \in BOOLEAN, NEW g, g = [f EXCEPT !.pc = pc, !.ok = ok]
  PROVE  g \in Frames /\ FrameOK(g, n) /\ g.fn = f.fn /\ g.index = f.index /\ g.pc = pc /\ g.token = f.token
<1>1. g \in Frames
  BY DEF Frames, Later
<1>2. g.fn = f.fn /\ g.index = f.index /\ g.pc = pc /\ g.token = f.token /\ g.key = f.key
  BY DEF Frames, Later
<1> QED BY <1>1, <1>2 DEF FrameOK, Later

\* An activation moves on with its other topic.
LEMMA PcAckMoves ==
  ASSUME NEW f \in Frames, NEW n, FrameOK(f, n), NEW pc \in Later, NEW ack \in Acks, NEW g, g = [f EXCEPT !.pc = pc, !.ack = ack]
  PROVE  g \in Frames /\ FrameOK(g, n) /\ g.fn = f.fn /\ g.index = f.index /\ g.pc = pc /\ g.token = f.token
<1>1. g \in Frames
  BY DEF Frames, Later
<1>2. g.fn = f.fn /\ g.index = f.index /\ g.pc = pc /\ g.token = f.token /\ g.key = f.key
  BY DEF Frames, Later
<1> QED BY <1>1, <1>2 DEF FrameOK, Later

\* An activation moves on with the slot of its topic.
LEMMA PcSlotMoves ==
  ASSUME NEW f \in Frames, NEW n, FrameOK(f, n), NEW pc \in Later, NEW a \in TopicSlots, NEW g, g = [f EXCEPT !.pc = pc, !.a = a]
  PROVE  g \in Frames /\ FrameOK(g, n) /\ g.fn = f.fn /\ g.index = f.index /\ g.pc = pc /\ g.token = f.token
<1>1. g \in Frames
  BY DEF Frames, Later
<1>2. g.fn = f.fn /\ g.index = f.index /\ g.pc = pc /\ g.token = f.token /\ g.key = f.key
  BY DEF Frames, Later
<1> QED BY <1>1, <1>2 DEF FrameOK, Later

\* A topic is subscribed to.
LEMMA TypeSubscribed ==
  ASSUME TypeInv, Subscribed
  PROVE  TypeInv'
<1>1. stack # <<>> /\ Top.fn = "action" /\ Top.pc = "subscribe" /\ UNCHANGED <<AckWaitList, service, delta, version, history>>
  BY DEF Subscribed, At
<1>2. Top \in Frames /\ FrameOK(Top, clientTokenNum)
  BY <1>1, TopOK DEF TypeInv
<1>3. PICK f \in Frames : f = Top
  BY <1>2
<1>4. f.a \in TopicSlots /\ f.r \in TopicSlots /\ f.key \in Keys /\ f.token \in 1..clientTokenNum /\ f.sticky \in BOOLEAN
  BY <1>1, <1>2, <1>3 DEF FrameOK, Frames
<1>5. \/ /\ handlers' = handlers \union {f.a}
         /\ SubscriptionList' = [SubscriptionList EXCEPT
                                  ![f.a].count = 1, ![f.a].isSticky = f.sticky,
                                  ![f.r].topic = <<f.key, "rejected">>]
         /\ SetTop([f EXCEPT !.ack = "rejected"])
      \/ /\ handlers' = handlers \union {f.r}
         /\ SubscriptionList' = [SubscriptionList EXCEPT
                                  ![f.r].count = 1, ![f.r].isSticky = f.sticky]
         /\ SetTop([f EXCEPT !.pc = "publish"])
  BY <1>3 DEF Subscribed
<1>6. clientTokenNum' = clientTokenNum
  BY <1>1 DEF service
<1>7. StackOK'
  <2>1. PICK g : SetTop(g) /\ (g = [f EXCEPT !.ack = "rejected"] \/ g = [f EXCEPT !.pc = "publish"])
    BY <1>5
  <2>2. "rejected" \in Acks /\ "publish" \in Later
    BY DEF Acks, Later
  <2>3. g \in Frames /\ FrameOK(g, clientTokenNum)
    BY <1>2, <1>3, <2>1, <2>2, AckMoves, PcMoves
  <2> QED BY <1>1, <1>6, <2>1, <2>3, TopKeeps DEF TypeInv
<1>8. SubscriptionList' \in [TopicSlots -> TopicRecords]
  <2>1. SubscriptionList \in [TopicSlots -> TopicRecords] /\ <<f.key, "rejected">> \in Keys \X Acks
    BY <1>4 DEF TypeInv, ListsOK, Acks
  <2>2. 1 \in 0..MaxCount
    BY Constants
  <2>3. PICK a \in TopicSlots, r \in TopicSlots, t \in Keys \X Acks, b \in BOOLEAN, one \in 0..MaxCount :
           a = f.a /\ r = f.r /\ t = <<f.key, "rejected">> /\ b = f.sticky /\ one = 1
    BY <1>4, <2>1, <2>2
  <2>4. \/ SubscriptionList' = [SubscriptionList EXCEPT ![a].count = one, ![a].isSticky = b, ![r].topic = t]
        \/ SubscriptionList' = [SubscriptionList EXCEPT ![r].count = one, ![r].isSticky = b]
    BY <1>5, <2>3
  <2>5. ASSUME SubscriptionList' = [SubscriptionList EXCEPT ![a].count = one, ![a].isSticky = b, ![r].topic = t]
        PROVE  SubscriptionList' \in [TopicSlots -> TopicRecords]
    BY SMTT(30), <2>1, <2>5 DEF TopicRecords
  <2>6. ASSUME SubscriptionList' = [SubscriptionList EXCEPT ![r].count = one, ![r].isSticky = b]
        PROVE  SubscriptionList' \in [TopicSlots -> TopicRecords]
    BY ZenonT(60), <2>1, <2>6 DEF TopicRecords
  <2> QED BY <2>3, <2>4, <2>5, <2>6
<1>9. ListsOK'
  BY <1>1, <1>4, <1>5, <1>8 DEF TypeInv, ListsOK
<1> QED BY <1>1, <1>7, <1>9, GroupsKeep DEF TypeInv

\* Freeing a slot of SubscriptionList.
LEMMA SlotFreed ==
  ASSUME ListsOK, NEW i, AckWaitList' \in [AckSlots -> AckRecords],
         handlers' \subseteq handlers,
         \/ SubscriptionList' = [SubscriptionList EXCEPT ![i].isFree = TRUE]
         \/ SubscriptionList' = SubscriptionList
  PROVE  ListsOK'
<1>1. SubscriptionList \in [TopicSlots -> TopicRecords] /\ handlers' \subseteq TopicSlots
  BY DEF ListsOK
<1>2. SubscriptionList' \in [TopicSlots -> TopicRecords]
  <2>1. CASE i \in TopicSlots /\ SubscriptionList' = [SubscriptionList EXCEPT ![i].isFree = TRUE]
    BY <1>1, <2>1 DEF TopicRecords
  <2>2. CASE i \notin TopicSlots /\ SubscriptionList' = [SubscriptionList EXCEPT ![i].isFree = TRUE]
    <3>1. SubscriptionList' = SubscriptionList
      BY <1>1, <2>2
    <3> QED BY <1>1, <3>1
  <2>3. CASE SubscriptionList' = SubscriptionList
    BY <1>1, <2>3
  <2> QED BY <2>1, <2>2, <2>3
<1> QED BY <1>1, <1>2 DEF ListsOK

\* A subscribe failed.
LEMMA TypeSubscribeFailed ==
  ASSUME TypeInv, SubscribeFailed
  PROVE  TypeInv'
<1>1. /\ stack # <<>> /\ uncovered' = TRUE
      /\ UNCHANGED <<AckWaitList, handlers, service, delta, version, tracked, calls>>
  BY DEF SubscribeFailed, At
<1>2. PICK f \in Frames : f = Top /\ FrameOK(f, clientTokenNum)
  BY <1>1, TopOK DEF TypeInv
<1>3. SubscriptionList' = [SubscriptionList EXCEPT ![f.a].isFree = TRUE] /\ clientTokenNum' = clientTokenNum
  BY <1>1, <1>2 DEF SubscribeFailed, service
<1>4. ListsOK'
  BY <1>1, <1>3, SlotFreed DEF TypeInv, ListsOK
<1>5. StackOK'
  <2>1. PICK g : g = [f EXCEPT !.pc = "cleanup", !.ok = FALSE]
    OBVIOUS
  <2>2. SetTop(g) \/ Pop
    BY <1>2, <2>1 DEF SubscribeFailed
  <2>3. g \in Frames /\ FrameOK(g, clientTokenNum)
    <3>1. "cleanup" \in Later /\ FALSE \in BOOLEAN
      BY DEF Later
    <3> QED BY <1>2, <2>1, <3>1, PcOkMoves
  <2> QED BY <1>1, <1>3, <2>2, <2>3, TopKeeps, PopKeeps DEF TypeInv
<1>6. HistoryOK'
  BY <1>1 DEF TypeInv, HistoryOK
<1> QED BY <1>1, <1>4, <1>5, <1>6, GroupsKeep DEF TypeInv

\* The cleanup of an action is done.
LEMMA TypeCleanedUp ==
  ASSUME TypeInv, CleanedUp
  PROVE  TypeInv'
<1>1. stack # <<>> /\ UNCHANGED <<AckWaitList, SubscriptionList, service, delta, version, history>>
  BY DEF CleanedUp, At
<1>2. PICK f \in Frames : f = Top /\ FrameOK(f, clientTokenNum)
  BY <1>1, TopOK DEF TypeInv
<1>3. clientTokenNum' = clientTokenNum /\ handlers' \subseteq handlers
  BY <1>1 DEF CleanedUp, HandlersWithout, service
<1>4. ListsOK'
  BY <1>1, <1>3, SlotFreed DEF TypeInv, ListsOK
<1>5. StackOK'
  <2>1. PICK g : g = [f EXCEPT !.pc = "publish"]
    OBVIOUS
  <2>2. SetTop(g) \/ Pop
    BY <1>2, <2>1 DEF CleanedUp
  <2>3. g \in Frames /\ FrameOK(g, clientTokenNum)
    <3>1. "publish" \in Later
      BY DEF Later
    <3> QED BY <1>2, <2>1, <3>1, PcMoves
  <2> QED BY <1>1, <1>3, <2>2, <2>3, TopKeeps, PopKeeps DEF TypeInv
<1> QED BY <1>1, <1>4, <1>5, GroupsKeep DEF TypeInv

\* An action is published and waits for its response.
LEMMA TypePublishAction ==
  ASSUME TypeInv, PublishAction
  PROVE  TypeInv'
<1>1. /\ stack # <<>> /\ Top.fn = "action" /\ Pop
      /\ UNCHANGED <<SubscriptionList, handlers, clientTokenNum, delta, version, calls, uncovered>>
  BY DEF PublishAction, At
<1>2. PICK f \in Frames : f = Top /\ FrameOK(f, clientTokenNum)
  BY <1>1, TopOK DEF TypeInv
<1>3. f.key \in Keys /\ f.token \in Tokens
  <2>1. f.key \in Keys /\ f.token \in 1..clientTokenNum
    BY <1>1, <1>2 DEF FrameOK
  <2>2. clientTokenNum \in 0..MaxActions
    BY DEF TypeInv, ServiceOK
  <2>3. 1..clientTokenNum \subseteq 1..MaxActions
    BY <2>2, Constants
  <2> QED BY <2>1, <2>3 DEF Tokens
<1>4. /\ AckWaitList' \in {AckWaitList, [AckWaitList EXCEPT ![f.index] = [isFree |-> FALSE, key |-> f.key, token |-> f.token]]}
      /\ pending' \subseteq pending \union {<<f.token, f.key>>}
      /\ tracked' \subseteq tracked \union {f.token}
  BY <1>2 DEF PublishAction
<1>5. AckWaitList' \in [AckSlots -> AckRecords]
  <2>1. AckWaitList \in [AckSlots -> AckRecords]
    BY DEF TypeInv, ListsOK
  <2>2. PICK x : x = [isFree |-> FALSE, key |-> f.key, token |-> f.token]
    OBVIOUS
  <2>3. x \in AckRecords
    BY <1>3, <2>2 DEF AckRecords
  <2> QED BY <1>4, <2>1, <2>2, <2>3
<1>6. ListsOK'
  BY <1>1, <1>5, SlotFreed DEF TypeInv
<1>7. ServiceOK' /\ HistoryOK'
  BY <1>1, <1>3, <1>4 DEF TypeInv, ServiceOK, HistoryOK
<1>8. StackOK'
  BY <1>1, PopKeeps DEF TypeInv
<1> QED BY <1>1, <1>6, <1>7, <1>8, GroupsKeep DEF TypeInv

\* One more call of a callback.
LEMMA CallCounted ==
  ASSUME calls \in [Tokens -> Nat], NEW t, calls' = [calls EXCEPT ![t] = @ + 1]
  PROVE  /\ calls' \in [Tokens -> Nat]
         /\ \A s \in Tokens : calls'[s] = IF s = t THEN calls[s] + 1 ELSE calls[s]
<1>1. \A s \in Tokens : calls'[s] = IF s = t THEN calls[s] + 1 ELSE calls[s]
  OBVIOUS
<1>2. DOMAIN calls' = Tokens /\ calls' = [s \in Tokens |-> calls'[s]]
  OBVIOUS
<1>3. \A s \in Tokens : calls[s] \in Nat /\ calls[s] + 1 \in Nat
  OBVIOUS
<1> QED BY <1>1, <1>2, <1>3

\* The frame of a response and of a timeout.
LEMMA CallbackFrameOK ==
  ASSUME NEW i \in AckSlots, NEW fn \in {"ack", "expire"}, NEW n, NEW f,
         f = [NewFrame(fn, "callback") EXCEPT !.index = i]
  PROVE  f \in Frames /\ FrameOK(f, n) /\ f.fn = fn /\ f.pc = "callback" /\ f.index = i
<1>1. f \in Frames /\ f.fn = fn /\ f.pc = "callback" /\ f.index = i
  BY DEF NewFrame, Frames, Acks
<1> QED BY <1>1 DEF FrameOK

\* A response arrives.
LEMMA TypeAckStatus ==
  ASSUME TypeInv, NEW token, NEW key, NEW ack, NEW v \in Versions \union {0},
         AckStatusCallback(token, key, ack, v)
  PROVE  TypeInv'
<1>1. /\ Len(stack) < MaxDepth /\ <<token, key>> \in pending /\ pending' = pending \ {<<token, key>>}
      /\ UNCHANGED <<lists, clientTokenNum, delta, shadowDiscardOldDeltaFlag, lastDelta, tracked, uncovered>>
  BY DEF AckStatusCallback
<1>2. PICK i : i = Lowest({j \in AckSlots : ~AckWaitList[j].isFree /\ AckWaitList[j].token = token})
  OBVIOUS
<1>3. i \in AckSlots \union {0}
  <2> DEFINE S == {j \in AckSlots : ~AckWaitList[j].isFree /\ AckWaitList[j].token = token}
  <2>1. S \subseteq Nat \ {0} /\ S \subseteq AckSlots /\ i = Lowest(S)
    BY <1>2, Constants DEF AckSlots
  <2> HIDE DEF S
  <2>2. Lowest(S) \in S \union {0}
    BY <2>1, LowestSlot
  <2> QED BY <2>1, <2>2
<1>4. /\ i # 0 => /\ stack' = Append(stack, [NewFrame("ack", "callback") EXCEPT !.index = i])
                  /\ calls' = [calls EXCEPT ![token] = @ + 1]
      /\ i = 0 => UNCHANGED <<stack, calls>>
  BY <1>2 DEF AckStatusCallback
<1>5. StackOK'
  <2>1. ASSUME i # 0 PROVE StackOK'
    <3>1. PICK f : f = [NewFrame("ack", "callback") EXCEPT !.index = i]
      OBVIOUS
    <3>2. i \in AckSlots /\ "ack" \in {"ack", "expire"}
      BY <1>3, <2>1
    <3>3. f \in Frames /\ FrameOK(f, clientTokenNum)
      BY <3>1, <3>2, CallbackFrameOK
    <3>4. stack' = Append(stack, f) /\ clientTokenNum' = clientTokenNum
      BY <1>1, <1>4, <2>1, <3>1
    <3> QED BY <1>1, <3>3, <3>4, PushKeeps DEF TypeInv
  <2>2. ASSUME i = 0 PROVE StackOK'
    BY <1>1, <1>4, <2>2, GroupsKeep DEF TypeInv
  <2> QED BY <2>1, <2>2
<1>6. HistoryOK'
  BY <1>1, <1>4, CallCounted DEF TypeInv, HistoryOK
<1>7. ServiceOK'
  BY <1>1 DEF TypeInv, ServiceOK
<1>8. VersionOK'
  <2>1. shadowJsonVersionNum' \in {v, shadowJsonVersionNum}
    BY DEF AckStatusCallback
  <2>2. v \in 0..MaxVersion
    BY Constants DEF Versions
  <2>3. shadowJsonVersionNum' \in 0..MaxVersion
    BY <2>1, <2>2 DEF TypeInv, VersionOK
  <2> QED BY <1>1, <2>3 DEF TypeInv, VersionOK
<1>9. ListsOK'
  BY <1>1, GroupsKeep DEF TypeInv, lists
<1> QED BY <1>1, <1>5, <1>6, <1>7, <1>8, <1>9, GroupsKeep DEF TypeInv

\* A timer has expired.
LEMMA TypeExpire ==
  ASSUME TypeInv, NEW i \in AckSlots, Expire(i)
  PROVE  TypeInv'
<1>1. /\ calls' = [calls EXCEPT ![AckWaitList[i].token] = @ + 1] /\ UNCHANGED <<tracked, uncovered>>
      /\ UNCHANGED <<lists, service, delta, version>>
  BY DEF Expire
<1>2. PICK f : f = [NewFrame("expire", "callback") EXCEPT !.index = i]
  OBVIOUS
<1>3. "expire" \in {"ack", "expire"}
  OBVIOUS
<1>4. f \in Frames /\ FrameOK(f, clientTokenNum')
  BY <1>2, <1>3, CallbackFrameOK
<1>5. stack' = <<f>>
  BY <1>2 DEF Expire
<1>6. StackOK'
  BY <1>4, <1>5, SingleKeeps
<1>7. HistoryOK'
  BY <1>1, CallCounted DEF TypeInv, HistoryOK
<1> QED BY <1>1, <1>6, <1>7, GroupsKeep DEF TypeInv

\* Freeing a place in AckWaitList.
LEMMA PlaceFreed ==
  ASSUME AckWaitList \in [AckSlots -> AckRecords], NEW i \in AckSlots,
         AckWaitList' = [AckWaitList EXCEPT ![i].isFree = TRUE]
  PROVE  /\ AckWaitList' \in [AckSlots -> AckRecords]
         /\ AckWaitList'[i].isFree
         /\ \A j \in AckSlots : j # i => AckWaitList'[j] = AckWaitList[j]
         /\ \A j \in AckSlots : AckWaitList'[j].token = AckWaitList[j].token
BY DEF AckRecords

\* The application's callback returns.
LEMMA TypeCallbackReturns ==
  ASSUME TypeInv, CallbackReturns
  PROVE  TypeInv'
<1>1. /\ stack # <<>> /\ Top.fn \in {"ack", "expire"}
      /\ UNCHANGED <<SubscriptionList, handlers, service, delta, version, history>>
  BY DEF CallbackReturns, At
<1>2. PICK f \in Frames : f = Top /\ FrameOK(f, clientTokenNum)
  BY <1>1, TopOK DEF TypeInv
<1>3. f.index \in AckSlots
  BY <1>1, <1>2 DEF FrameOK
<1>4. AckWaitList \in [AckSlots -> AckRecords]
  BY DEF TypeInv, ListsOK
<1>5. PICK k \in Keys \union {NoKey} : k = AckWaitList[f.index].key
  BY <1>3, <1>4 DEF AckRecords
<1>6. PICK g : g = [f EXCEPT !.pc = "release", !.key = k]
  OBVIOUS
<1>7. SetTop(g)
  BY <1>2, <1>5, <1>6 DEF CallbackReturns
<1>8. g \in Frames /\ FrameOK(g, clientTokenNum)
  <2>1. g \in Frames /\ g.fn = f.fn /\ g.index = f.index
    BY <1>6 DEF Frames
  <2> QED BY <1>1, <1>2, <1>3, <2>1 DEF FrameOK
<1>9. clientTokenNum' = clientTokenNum
  BY <1>1 DEF service
<1>10. StackOK'
  BY <1>1, <1>7, <1>8, <1>9, TopKeeps DEF TypeInv
<1>11. AckWaitList' \in [AckSlots -> AckRecords]
  <2>1. AckWaitList' = AckWaitList \/ AckWaitList' = [AckWaitList EXCEPT ![f.index].isFree = TRUE]
    BY <1>2 DEF CallbackReturns
  <2> QED BY <1>3, <1>4, <2>1, PlaceFreed
<1>12. ListsOK'
  BY <1>1, <1>9, <1>11, SlotFreed DEF TypeInv
<1> QED BY <1>1, <1>10, <1>12, GroupsKeep DEF TypeInv

\* A response or a timeout is done with one of its topics.
LEMMA TypeReleased ==
  ASSUME TypeInv, NEW f \in Frames, FrameOK(f, clientTokenNum), f.index \in AckSlots, stack # <<>>,
         Released(f), clientTokenNum' = clientTokenNum
  PROVE  StackOK' /\ AckWaitList' \in [AckSlots -> AckRecords]
<1>1. AckWaitList \in [AckSlots -> AckRecords]
  BY DEF TypeInv, ListsOK
<1>2. ASSUME f.ack = "accepted" PROVE StackOK' /\ AckWaitList' \in [AckSlots -> AckRecords]
  <2>1. PICK g : g = [f EXCEPT !.pc = "release", !.ack = "rejected"]
    OBVIOUS
  <2>2. SetTop(g) /\ AckWaitList' = AckWaitList
    BY <1>2, <2>1 DEF Released
  <2>3. "release" \in Later /\ "rejected" \in Acks
    BY DEF Later, Acks
  <2>4. g \in Frames /\ FrameOK(g, clientTokenNum)
    BY <2>1, <2>3, PcAckMoves
  <2> QED BY <1>1, <2>2, <2>4, TopKeeps DEF TypeInv
<1>3. ASSUME f.ack # "accepted" PROVE StackOK' /\ AckWaitList' \in [AckSlots -> AckRecords]
  <2>1. Pop /\ (AckWaitList' = AckWaitList \/ AckWaitList' = [AckWaitList EXCEPT ![f.index].isFree = TRUE])
    BY <1>3 DEF Released
  <2>2. StackOK'
    BY <2>1, PopKeeps DEF TypeInv
  <2> QED BY <1>1, <2>1, <2>2, PlaceFreed
<1> QED BY <1>2, <1>3

\* Half of unsubscribeFromAcceptedAndRejected.
LEMMA TypeRelease ==
  ASSUME TypeInv, Release
  PROVE  TypeInv'
<1>1. /\ stack # <<>> /\ Top.fn \in {"ack", "expire"}
      /\ UNCHANGED <<handlers, service, delta, version, history>>
  BY DEF Release, At
<1>2. PICK f \in Frames : f = Top /\ FrameOK(f, clientTokenNum)
  BY <1>1, TopOK DEF TypeInv
<1>3. f.index \in AckSlots /\ clientTokenNum' = clientTokenNum
  BY <1>1, <1>2 DEF FrameOK, service
<1>4. PICK i : i = FindTopic(<<f.key, f.ack>>)
  OBVIOUS
<1>5. i \in TopicSlots \union {0}
  <2> DEFINE S == {j \in TopicSlots : ~SubscriptionList[j].isFree /\ SubscriptionList[j].topic = <<f.key, f.ack>>}
  <2>1. S \subseteq Nat \ {0} /\ S \subseteq TopicSlots /\ i = Lowest(S)
    BY <1>4, Constants DEF TopicSlots, FindTopic
  <2> HIDE DEF S
  <2>2. Lowest(S) \in S \union {0}
    BY <2>1, LowestSlot
  <2> QED BY <2>1, <2>2
<1>6. \/ /\ i # 0
         /\ SetTop([f EXCEPT !.pc = "unsubscribe", !.a = i])
         /\ UNCHANGED <<AckWaitList, SubscriptionList>>
      \/ /\ i # 0 /\ SubscriptionList[i].count > 1
         /\ SubscriptionList' = [SubscriptionList EXCEPT ![i].count = @ - 1]
         /\ Released(f)
      \/ Released(f) /\ UNCHANGED SubscriptionList
  BY <1>2, <1>4 DEF Release
<1>7. ASSUME i # 0, SetTop([f EXCEPT !.pc = "unsubscribe", !.a = i]), UNCHANGED <<AckWaitList, SubscriptionList>>
      PROVE  TypeInv'
  <2>1. PICK g : g = [f EXCEPT !.pc = "unsubscribe", !.a = i]
    OBVIOUS
  <2>2. "unsubscribe" \in Later /\ i \in TopicSlots
    BY <1>5, <1>7 DEF Later
  <2>3. g \in Frames /\ FrameOK(g, clientTokenNum)
    BY <1>2, <2>1, <2>2, PcSlotMoves
  <2>4. SetTop(g)
    BY <1>7, <2>1
  <2>5. StackOK'
    BY <1>1, <1>3, <2>3, <2>4, TopKeeps DEF TypeInv
  <2>6. ListsOK'
    BY <1>1, <1>3, <1>7, GroupsKeep DEF TypeInv, lists
  <2> QED BY <1>1, <2>5, <2>6, GroupsKeep DEF TypeInv
<1>8. ASSUME i # 0, SubscriptionList[i].count > 1, Released(f),
             SubscriptionList' = [SubscriptionList EXCEPT ![i].count = @ - 1]
      PROVE  TypeInv'
  <2>1. StackOK' /\ AckWaitList' \in [AckSlots -> AckRecords]
    BY <1>1, <1>2, <1>3, <1>8, TypeReleased
  <2>2. SubscriptionList \in [TopicSlots -> TopicRecords] /\ i \in TopicSlots
    BY <1>5, <1>8 DEF TypeInv, ListsOK
  <2>3. PICK n \in 0..MaxCount : n = SubscriptionList[i].count
    BY <2>2 DEF TopicRecords
  <2>4. PICK m \in 0..MaxCount : m = n - 1
    <3>1. n > 1
      BY <1>8, <2>3
    <3>2. n - 1 \in 0..MaxCount
      BY <3>1, Constants
    <3> QED BY <3>2
  <2>5. SubscriptionList' = [SubscriptionList EXCEPT ![i].count = m]
    BY <1>8, <2>3, <2>4
  <2>6. SubscriptionList' \in [TopicSlots -> TopicRecords]
    BY <2>2, <2>5 DEF TopicRecords
  <2>7. ListsOK'
    BY <1>1, <2>1, <2>6 DEF TypeInv, ListsOK
  <2> QED BY <1>1, <2>1, <2>7, GroupsKeep DEF TypeInv
<1>9. ASSUME Released(f), UNCHANGED SubscriptionList PROVE TypeInv'
  <2>1. StackOK' /\ AckWaitList' \in [AckSlots -> AckRecords]
    BY <1>1, <1>2, <1>3, <1>9, TypeReleased
  <2>2. ListsOK'
    BY <1>1, <1>3, <1>9, <2>1, SlotFreed DEF TypeInv
  <2> QED BY <1>1, <2>1, <2>2, GroupsKeep DEF TypeInv
<1> QED BY <1>6, <1>7, <1>8, <1>9

\* The unsubscribe of a response or a timeout returns.
LEMMA TypeUnsubscribed ==
  ASSUME TypeInv, Unsubscribed
  PROVE  TypeInv'
<1>1. /\ stack # <<>> /\ Top.fn \in {"ack", "expire"} /\ Released(Top)
      /\ UNCHANGED <<service, delta, version, history>>
  BY DEF Unsubscribed, At
<1>2. PICK f \in Frames : f = Top /\ FrameOK(f, clientTokenNum)
  BY <1>1, TopOK DEF TypeInv
<1>3. f.index \in AckSlots /\ clientTokenNum' = clientTokenNum
  BY <1>1, <1>2 DEF FrameOK, service
<1>4. StackOK' /\ AckWaitList' \in [AckSlots -> AckRecords]
  BY <1>1, <1>2, <1>3, TypeReleased
<1>5. /\ handlers' \subseteq handlers
      /\ \/ SubscriptionList' = [SubscriptionList EXCEPT ![f.a].isFree = TRUE]
         \/ SubscriptionList' = SubscriptionList
  BY <1>2 DEF Unsubscribed, HandlersWithout
<1>6. ListsOK'
  BY <1>3, <1>4, <1>5, SlotFreed DEF TypeInv
<1> QED BY <1>1, <1>4, <1>6, GroupsKeep DEF TypeInv

\* The registrations of deltas.
LEMMA TypeDelta ==
  ASSUME TypeInv, RegisterDelta \/ DeltaSubscribed
  PROVE  TypeInv'
<1>1. UNCHANGED <<lists, service, version, history>>
  BY DEF RegisterDelta, DeltaSubscribed
<1>2. ListsOK' /\ clientTokenNum' = clientTokenNum
  BY <1>1, GroupsKeep DEF TypeInv, lists, service
<1>3. StackOK'
  <2>1. CASE RegisterDelta
    <3>1. PICK f : f = NewFrame("register", "subscribe")
      OBVIOUS
    <3>2. f \in Frames /\ f.fn = "register"
      BY <3>1 DEF NewFrame, Frames, Acks
    <3>3. FrameOK(f, clientTokenNum')
      BY <3>2 DEF FrameOK
    <3>4. stack' = <<f>> \/ stack' = stack
      BY <2>1, <3>1 DEF RegisterDelta
    <3> QED BY <1>2, <3>2, <3>3, <3>4, SingleKeeps, GroupsKeep DEF TypeInv
  <2>2. CASE DeltaSubscribed
    <3>1. stack # <<>> /\ Pop
      BY <2>2 DEF DeltaSubscribed, At
    <3> QED BY <1>2, <3>1, PopKeeps DEF TypeInv
  <2> QED BY <2>1, <2>2
<1>4. DeltaOK'
  <2>1. tokenTableIndex' \in 0..MaxTokens
    <3>1. PICK n \in 0..MaxTokens : n = tokenTableIndex
      BY DEF TypeInv, DeltaOK
    <3>2. tokenTableIndex' = n \/ (n < MaxTokens /\ tokenTableIndex' = n + 1)
      BY <3>1 DEF RegisterDelta, DeltaSubscribed
    <3>3. n < MaxTokens => n + 1 \in 0..MaxTokens
      BY Constants
    <3> QED BY <3>2, <3>3
  <2>2. deltaHandler' \in BOOLEAN /\ deltaTopicSubscribedFlag' \in BOOLEAN
    <3>1. deltaHandler \in BOOLEAN /\ deltaTopicSubscribedFlag \in BOOLEAN
      BY DEF TypeInv, DeltaOK
    <3>2. CASE RegisterDelta
      BY <3>1, <3>2 DEF RegisterDelta
    <3>3. CASE DeltaSubscribed
      BY <3>1, <3>3, Zenon DEF DeltaSubscribed
    <3> QED BY <3>2, <3>3
  <2> QED BY <2>1, <2>2 DEF DeltaOK
<1> QED BY <1>1, <1>2, <1>3, <1>4, GroupsKeep DEF TypeInv

\* The version of the document.
LEMMA TypeVersion ==
  ASSUME TypeInv,
         \/ \E v \in Versions : ShadowDelta(v)
         \/ ResetLastReceivedVersion
         \/ \E enable \in BOOLEAN : DiscardOldDeltaMsgs(enable)
  PROVE  TypeInv'
<1>1. UNCHANGED <<lists, stack, service, delta, history>>
  BY DEF ShadowDelta, ResetLastReceivedVersion, DiscardOldDeltaMsgs
<1>2. StackOK'
  BY <1>1, GroupsKeep DEF TypeInv, lists, service
<1>3. Versions \subseteq 0..MaxVersion /\ 0 \in 0..MaxVersion
  BY Constants DEF Versions
<1>4. shadowJsonVersionNum' \in 0..MaxVersion /\ lastDelta' \in 0..MaxVersion
  BY <1>3 DEF ShadowDelta, ResetLastReceivedVersion, DiscardOldDeltaMsgs, TypeInv, VersionOK
<1>5. shadowDiscardOldDeltaFlag' \in BOOLEAN
  BY DEF ShadowDelta, ResetLastReceivedVersion, DiscardOldDeltaMsgs, TypeInv, VersionOK
<1> QED BY <1>1, <1>2, <1>4, <1>5, GroupsKeep DEF TypeInv, VersionOK

\* TypeInv is inductive.
LEMMA TypeNext == TypeInv /\ [Next]_vars => TypeInv'
<1> SUFFICES ASSUME TypeInv, [Next]_vars PROVE TypeInv'
  OBVIOUS
<1>1. ASSUME NEW key \in Keys, NEW sticky \in BOOLEAN, Increment(key, sticky) \/ SubscribeAcks(key, sticky)
      PROVE  TypeInv'
  BY <1>1, TypeIncrement, TypeSubscribeAcks
<1>2. ASSUME Proceed PROVE TypeInv'
  BY <1>2, TypeSubscribed, TypeSubscribeFailed, TypeCleanedUp, TypePublishAction, TypeCallbackReturns,
     TypeRelease, TypeUnsubscribed, TypeDelta DEF Proceed
<1>3. ASSUME NEW p \in pending, NEW ack \in Acks, NEW v \in Versions \union {0}, AckStatusCallback(p[1], p[2], ack, v)
      PROVE  TypeInv'
  BY <1>3, TypeAckStatus
<1>4. ASSUME NEW i \in AckSlots, Expire(i) PROVE TypeInv'
  BY <1>4, TypeExpire
<1>5. ASSUME UNCHANGED vars PROVE TypeInv'
  BY <1>5, GroupsKeep DEF TypeInv, vars, lists, service
<1> QED BY <1>1, <1>2, <1>3, <1>4, <1>5, TypeDelta, TypeVersion DEF Next

\* The variables of the shadow keep their types, whatever the application, the service and the
\* network do: every index stays within its list.  The reference counts (uint8_t in
\* SubscriptionRecord_t) have their type because they wrap: nothing keeps them from their limit.
THEOREM ShadowTypes == Spec => []TypeOK
<1>1. TypeInv => TypeOK
  <2> SUFFICES ASSUME TypeInv PROVE TypeOK
    OBVIOUS
  <2>1. deltaHandler \in BOOLEAN /\ deltaTopicSubscribedFlag \in BOOLEAN /\ shadowDiscardOldDeltaFlag \in BOOLEAN
    BY DEF TypeInv, DeltaOK, VersionOK
  <2>2. {deltaHandler, deltaTopicSubscribedFlag, shadowDiscardOldDeltaFlag} \subseteq BOOLEAN
    BY <2>1, Zenon
  <2> QED BY <2>2 DEF TypeInv, TypeOK, ListsOK, StackOK, ServiceOK, DeltaOK, VersionOK, HistoryOK, AckRecords, TopicRecords
<1> QED BY <1>1, TypeInit, TypeNext, PTL DEF Spec

-----------------------------------------------------------------------------
(* Deltas.                                                                 *)

\* The version of the document is never behind the newest delta that was handed over.
VersionInv == lastDelta <= shadowJsonVersionNum

\* VersionInv holds at first and after every step, and no step hands over an older delta.
LEMMA VersionNext ==
  /\ Init => VersionInv
  /\ TypeInv /\ VersionInv /\ [Next]_vars =>
       VersionInv' /\ (lastDelta' # lastDelta => lastDelta' > lastDelta \/ lastDelta' = 0)
<1>1. Init => VersionInv
  BY DEF Init, VersionInv
<1>2. ASSUME TypeInv, VersionInv, [Next]_vars
      PROVE  VersionInv' /\ (lastDelta' # lastDelta => lastDelta' > lastDelta \/ lastDelta' = 0)
  <2>1. PICK n \in Nat, m \in Nat : n = lastDelta /\ m = shadowJsonVersionNum
    BY <1>2, Constants DEF TypeInv, VersionOK
  <2>2. n <= m
    BY <1>2, <2>1 DEF VersionInv
  <2>3. \/ lastDelta' = n /\ shadowJsonVersionNum' = m
        \/ \E v \in Nat : v > m /\ lastDelta' = n /\ shadowJsonVersionNum' = v
        \/ \E v \in Nat : v > m /\ lastDelta' = v /\ shadowJsonVersionNum' = v
        \/ lastDelta' = 0 /\ shadowJsonVersionNum' = 0
    <3>1. ASSUME NEW key \in Keys, NEW sticky \in BOOLEAN, Increment(key, sticky) \/ SubscribeAcks(key, sticky)
          PROVE  lastDelta' = n /\ shadowJsonVersionNum' = m
      BY <2>1, <3>1 DEF Increment, SubscribeAcks, Start, version
    <3>2. ASSUME Proceed PROVE lastDelta' = n /\ shadowJsonVersionNum' = m
      BY <2>1, <3>2 DEF Proceed, Subscribed, SubscribeFailed, CleanedUp, PublishAction, CallbackReturns,
         Release, Unsubscribed, DeltaSubscribed, version
    <3>3. ASSUME NEW p \in pending, NEW ack \in Acks, NEW v \in Versions \union {0}, AckStatusCallback(p[1], p[2], ack, v)
          PROVE  /\ lastDelta' = n /\ v \in Nat
                 /\ shadowJsonVersionNum' = m \/ (v > m /\ shadowJsonVersionNum' = v)
      <4>1. v \in Nat
        BY Constants DEF Versions
      <4>2. lastDelta' = n
        BY <2>1, <3>3 DEF AckStatusCallback
      <4>3. shadowJsonVersionNum' = m \/ (v > m /\ shadowJsonVersionNum' = v)
        BY <2>1, <3>3 DEF AckStatusCallback
      <4> QED BY <4>1, <4>2, <4>3
    <3>4. ASSUME (\E i \in AckSlots : Expire(i)) \/ RegisterDelta \/ UNCHANGED vars \/ (\E enable \in BOOLEAN : DiscardOldDeltaMsgs(enable))
          PROVE  lastDelta' = n /\ shadowJsonVersionNum' = m
      BY <2>1, <3>4 DEF Expire, RegisterDelta, vars, version, DiscardOldDeltaMsgs
    <3>5. ASSUME NEW v \in Versions, ShadowDelta(v)
          PROVE  \/ lastDelta' = n /\ shadowJsonVersionNum' = m
                 \/ v \in Nat /\ v > m /\ lastDelta' = v /\ shadowJsonVersionNum' = v
      <4>1. v \in Nat
        BY Constants DEF Versions
      <4>2. ASSUME shadowDiscardOldDeltaFlag PROVE ~(v <= m) /\ lastDelta' = v /\ shadowJsonVersionNum' = v
        BY <2>1, <3>5, <4>2 DEF ShadowDelta, IsOld
      <4>3. ASSUME ~shadowDiscardOldDeltaFlag PROVE lastDelta' = n /\ shadowJsonVersionNum' = m
        BY <2>1, <3>5, <4>3 DEF ShadowDelta
      <4>4. ~(v <= m) => v > m
        BY <4>1
      <4> QED BY <4>1, <4>2, <4>3, <4>4
    <3>6. ASSUME ResetLastReceivedVersion PROVE lastDelta' = 0 /\ shadowJsonVersionNum' = 0
      BY <3>6 DEF ResetLastReceivedVersion
    <3> QED BY SMTT(30), <1>2, <3>1, <3>2, <3>3, <3>4, <3>5, <3>6 DEF Next
  <2>4. ASSUME NEW x \in Nat, NEW y \in Nat, x = lastDelta', y = shadowJsonVersionNum',
               (x = n /\ y = m) \/ (y > m /\ x = n) \/ (y > m /\ x = y) \/ (x = 0 /\ y = 0)
        PROVE  VersionInv' /\ (lastDelta' # lastDelta => lastDelta' > lastDelta \/ lastDelta' = 0)
    <3>1. x <= y /\ (x # n => x > n \/ x = 0)
      BY <2>2, <2>4
    <3> QED BY <2>1, <2>4, <3>1 DEF VersionInv
  <2> QED BY <2>1, <2>3, <2>4
<1> QED BY <1>1, <1>2

\* While old deltas are discarded, shadow_delta_callback hands over newer and newer deltas: no
\* order of deltas and responses (whose versions AckStatusCallback takes over too) makes it hand
\* over one that is not newer than the last.  A reset of the version starts again.
THEOREM DeltasNeverGoBack == Spec => DeltasIncrease
<1>1. Spec => []TypeInv
  BY TypeInit, TypeNext, PTL DEF Spec
<1>2. Init => VersionInv
  BY VersionNext
<1>3. TypeInv /\ VersionInv /\ [Next]_vars => VersionInv'
  BY VersionNext
<1>4. TypeInv /\ VersionInv /\ [Next]_vars => [lastDelta' # lastDelta => lastDelta' > lastDelta \/ lastDelta' = 0]_vars
  BY VersionNext
<1> QED BY <1>1, <1>2, <1>3, <1>4, PTL DEF Spec, DeltasIncrease

-----------------------------------------------------------------------------
(* Every action has its callback called once, when the callbacks start no  *)
(* actions of their own.                                                   *)

\* An activation that has called, or is calling, the callback of an entry it has not freed yet.
Held(f) == f.fn = "ack" \/ (f.fn = "expire" /\ f.pc = "callback")

IsHeld(i) == \E d \in 1..Len(stack) : Held(stack[d]) /\ stack[d].index = i

\* Only responses are handled within another call, and only the innermost activation is in a
\* callback.
ShapeInv ==
  /\ \A d \in 2..Len(stack) : stack[d].fn = "ack"
  /\ \A d \in 1..Len(stack) : stack[d].pc = "callback" => d = Len(stack)

\* What is published was taken on, once; nobody calls the callback of another token.
TokenInv ==
  /\ tracked \subseteq 1..clientTokenNum
  /\ \A p \in pending : p[1] \in tracked
  /\ \A p, q \in pending : p[1] = q[1] => p = q
  /\ \A t \in Tokens : t \notin tracked => calls[t] = 0

\* An entry is that of an action of its own, whose callback was not called unless it is held.
EntryInv ==
  /\ \A i \in AckSlots : ~AckWaitList[i].isFree =>
       /\ AckWaitList[i].token \in tracked
       /\ ~IsHeld(i) => calls[AckWaitList[i].token] = 0
  /\ \A i, j \in AckSlots :
       ~AckWaitList[i].isFree /\ ~AckWaitList[j].isFree /\ AckWaitList[i].token = AckWaitList[j].token => i = j

\* A held entry is in the list, held once, and no second response to it can come.
HeldInv ==
  /\ \A d \in 1..Len(stack) : Held(stack[d]) =>
       /\ ~AckWaitList[stack[d].index].isFree
       /\ calls[AckWaitList[stack[d].index].token] > 0
       /\ stack[d].fn = "ack" => \A p \in pending : p[1] # AckWaitList[stack[d].index].token
  /\ \A d, e \in 1..Len(stack) :
       Held(stack[d]) /\ Held(stack[e]) /\ stack[d].index = stack[e].index => d = e

\* The place that an action chose is still free when it gets to use it.
ActionInv ==
  \A d \in 1..Len(stack) : stack[d].fn = "action" =>
    /\ stack[d].token \notin tracked
    /\ stack[d].index \in AckSlots
    /\ AckWaitList[stack[d].index].isFree

OnceInv == ShapeInv /\ TokenInv /\ EntryInv /\ HeldInv /\ ActionInv /\ CallbackOnce /\ NotForgotten

\* At first there is nothing to hold.
LEMMA OnceInit == Init => OnceInv
<1> SUFFICES ASSUME Init PROVE OnceInv
  OBVIOUS
<1>1. stack = <<>> /\ pending = {} /\ tracked = {}
  BY DEF Init
<1>2. \A i \in AckSlots : AckWaitList[i].isFree
  BY DEF Init
<1>3. \A t \in Tokens : calls[t] = 0
  BY DEF Init
<1>4. 1..Len(stack) = {} /\ 2..Len(stack) = {}
  BY <1>1
<1>5. ShapeInv /\ HeldInv /\ ActionInv
  BY <1>4 DEF ShapeInv, HeldInv, ActionInv
<1>6. TokenInv /\ EntryInv
  BY <1>1, <1>2, <1>3 DEF TokenInv, EntryInv
<1>7. CallbackOnce /\ NotForgotten
  BY <1>1, <1>3 DEF CallbackOnce, NotForgotten
<1> QED BY <1>5, <1>6, <1>7 DEF OnceInv

\* A step after which the activations hold at most what they held, and which frees exactly the
\* entries that are not held any more.
LEMMA Shrinks ==
  ASSUME TypeInv, OnceInv, TypeInv', UNCHANGED <<clientTokenNum, pending, tracked, calls>>,
         Len(stack') <= Len(stack),
         \A d \in 1..Len(stack') : /\ d \in 1..Len(stack)
                                   /\ stack'[d].fn = stack[d].fn
                                   /\ stack'[d].index = stack[d].index
                                   /\ stack'[d].token = stack[d].token
                                   /\ Held(stack'[d]) => Held(stack[d])
                                   /\ stack'[d].pc = "callback" => stack[d].pc = "callback",
         NEW freed \in SUBSET AckSlots,
         \A i \in freed : IsHeld(i) /\ AckWaitList'[i].isFree,
         \A i \in AckSlots \ freed : AckWaitList'[i] = AckWaitList[i],
         \A d \in 1..Len(stack) : Held(stack[d]) =>
           stack[d].index \in freed \/ (d \in 1..Len(stack') /\ Held(stack'[d])),
         \A d \in 1..Len(stack') : Held(stack'[d]) => stack[d].index \notin freed
  PROVE  OnceInv'
<1>1. Len(stack) \in Nat /\ Len(stack') \in Nat
  BY DEF TypeInv, StackOK
<1>2. \A d \in 1..Len(stack) : Held(stack[d]) => stack[d].index \in AckSlots
  BY DEF TypeInv, StackOK, FrameOK, Held
<1>3. \A d \in 1..Len(stack') : Held(stack'[d]) =>
        /\ Held(stack[d]) /\ stack[d].index \in AckSlots \ freed
        /\ AckWaitList'[stack'[d].index] = AckWaitList[stack[d].index]
  BY <1>2
<1>4. \A i \in AckSlots : ~AckWaitList'[i].isFree => i \notin freed /\ AckWaitList'[i] = AckWaitList[i]
  OBVIOUS
<1>5. ShapeInv'
  <2>1. \A d \in 2..Len(stack') : d \in 1..Len(stack') /\ d \in 2..Len(stack)
    BY <1>1
  <2>2. \A d \in 2..Len(stack') : stack'[d].fn = "ack"
    BY <2>1 DEF OnceInv, ShapeInv
  <2>3. \A d \in 1..Len(stack') : d = Len(stack) => d = Len(stack')
    BY <1>1
  <2>4. \A d \in 1..Len(stack') : stack'[d].pc = "callback" => d = Len(stack')
    BY <2>3 DEF OnceInv, ShapeInv
  <2> QED BY <2>2, <2>4 DEF ShapeInv
<1>6. TokenInv'
  BY DEF OnceInv, TokenInv
<1>7. EntryInv'
  <2>1. \A i \in AckSlots \ freed : IsHeld(i) => IsHeld(i)'
    BY DEF IsHeld
  <2>2. \A i \in AckSlots : ~AckWaitList'[i].isFree =>
          /\ AckWaitList'[i].token \in tracked'
          /\ ~IsHeld(i)' => calls'[AckWaitList'[i].token] = 0
    BY <1>4, <2>1 DEF OnceInv, EntryInv
  <2>3. \A i, j \in AckSlots :
          ~AckWaitList'[i].isFree /\ ~AckWaitList'[j].isFree /\ AckWaitList'[i].token = AckWaitList'[j].token => i = j
    BY <1>4 DEF OnceInv, EntryInv
  <2> QED BY <2>2, <2>3 DEF EntryInv
<1>8. HeldInv'
  <2>1. \A d \in 1..Len(stack') : Held(stack'[d]) =>
          /\ ~AckWaitList'[stack'[d].index].isFree
          /\ calls'[AckWaitList'[stack'[d].index].token] > 0
    BY <1>3 DEF OnceInv, HeldInv
  <2>2. \A d \in 1..Len(stack') : Held(stack'[d]) =>
          (stack'[d].fn = "ack" => \A p \in pending' : p[1] # AckWaitList'[stack'[d].index].token)
    BY <1>3 DEF OnceInv, HeldInv
  <2>3. \A d, e \in 1..Len(stack') :
          Held(stack'[d]) /\ Held(stack'[e]) /\ stack'[d].index = stack'[e].index => d = e
    BY DEF OnceInv, HeldInv
  <2> QED BY <2>1, <2>2, <2>3 DEF HeldInv
<1>9. ActionInv'
  <2> SUFFICES ASSUME NEW d \in 1..Len(stack'), stack'[d].fn = "action"
               PROVE  /\ stack'[d].token \notin tracked'
                      /\ stack'[d].index \in AckSlots
                      /\ AckWaitList'[stack'[d].index].isFree
    BY DEF ActionInv
  <2>1. /\ stack[d].token \notin tracked /\ stack[d].index \in AckSlots
        /\ AckWaitList[stack[d].index].isFree
    BY DEF OnceInv, ActionInv
  <2> QED BY <2>1
<1>10. CallbackOnce'
  BY DEF OnceInv, CallbackOnce
<1>11. NotForgotten'
  <2> SUFFICES ASSUME NEW t \in tracked, ~(calls[t] > 0)
               PROVE  \E i \in AckSlots : ~AckWaitList'[i].isFree /\ AckWaitList'[i].token = t
    BY DEF NotForgotten
  <2>1. PICK i \in AckSlots : ~AckWaitList[i].isFree /\ AckWaitList[i].token = t
    BY DEF OnceInv, NotForgotten
  <2>2. IsHeld(i) => calls[t] > 0
    BY <2>1 DEF IsHeld, OnceInv, HeldInv
  <2>3. i \notin freed
    BY <2>2
  <2> QED BY <2>1, <2>3
<1> QED BY <1>5, <1>6, <1>7, <1>8, <1>9, <1>10, <1>11 DEF OnceInv

\* The innermost activation moves on and holds what it held, or frees the entry that it held.
LEMMA TopShrinks ==
  ASSUME TypeInv, OnceInv, TypeInv', UNCHANGED <<clientTokenNum, pending, tracked, calls>>, stack # <<>>,
         NEW g \in Frames, SetTop(g), g.fn = Top.fn, g.index = Top.index, g.token = Top.token,
         g.pc = "callback" => Top.pc = "callback",
         \/ (Held(g) <=> Held(Top)) /\ AckWaitList' = AckWaitList
         \/ /\ Held(Top) /\ ~Held(g) /\ Top.index \in AckSlots
            /\ AckWaitList' = [AckWaitList EXCEPT ![Top.index].isFree = TRUE]
  PROVE  OnceInv'
<1>1. /\ Len(stack) \in Nat \ {0} /\ Len(stack') = Len(stack)
      /\ \A d \in 1..Len(stack) : d # Len(stack) => stack'[d] = stack[d]
      /\ stack'[Len(stack)] = g
  BY TopSet DEF TypeInv, StackOK
<1>2. Top = stack[Len(stack)] /\ Len(stack) \in 1..Len(stack)
  BY TopOK DEF TypeInv
<1>3. Len(stack') <= Len(stack)
  BY <1>1
<1>4. \A d \in 1..Len(stack') : /\ d \in 1..Len(stack)
                                /\ stack'[d].fn = stack[d].fn
                                /\ stack'[d].index = stack[d].index
                                /\ stack'[d].token = stack[d].token
                                /\ Held(stack'[d]) => Held(stack[d])
                                /\ stack'[d].pc = "callback" => stack[d].pc = "callback"
  BY <1>1, <1>2
<1>5. ASSUME Held(g) <=> Held(Top), AckWaitList' = AckWaitList PROVE OnceInv'
  <2>1. {} \in SUBSET AckSlots
    OBVIOUS
  <2>2. \A i \in {} : IsHeld(i) /\ AckWaitList'[i].isFree
    OBVIOUS
  <2>3. \A i \in AckSlots \ {} : AckWaitList'[i] = AckWaitList[i]
    BY <1>5
  <2>4. \A d \in 1..Len(stack) : Held(stack[d]) =>
           stack[d].index \in {} \/ (d \in 1..Len(stack') /\ Held(stack'[d]))
    BY <1>1, <1>2, <1>5
  <2>5. \A d \in 1..Len(stack') : Held(stack'[d]) => stack[d].index \notin {}
    OBVIOUS
  <2> QED BY <1>3, <1>4, <2>1, <2>2, <2>3, <2>4, <2>5, Shrinks
<1>6. ASSUME Held(Top), ~Held(g), Top.index \in AckSlots, AckWaitList' = [AckWaitList EXCEPT ![Top.index].isFree = TRUE]
      PROVE  OnceInv'
  <2>1. PICK i \in AckSlots : i = Top.index
    BY <1>6
  <2>2. AckWaitList'[i].isFree /\ \A j \in AckSlots : j # i => AckWaitList'[j] = AckWaitList[j]
    BY <1>6, <2>1, PlaceFreed DEF TypeInv, ListsOK
  <2>3. IsHeld(i)
    BY <1>2, <1>6, <2>1 DEF IsHeld
  <2>4. PICK freed \in SUBSET AckSlots : freed = {i}
    OBVIOUS
  <2>5. \A j \in freed : IsHeld(j) /\ AckWaitList'[j].isFree
    BY <2>2, <2>3, <2>4
  <2>6. \A j \in AckSlots \ freed : AckWaitList'[j] = AckWaitList[j]
    BY <2>2, <2>4
  <2>7. \A d \in 1..Len(stack) : Held(stack[d]) =>
           stack[d].index \in freed \/ (d \in 1..Len(stack') /\ Held(stack'[d]))
    BY <1>1, <1>2, <2>1, <2>4
  <2>8. \A d \in 1..Len(stack') : Held(stack'[d]) => stack[d].index \notin freed
    <3> SUFFICES ASSUME NEW d \in 1..Len(stack'), Held(stack'[d]), stack[d].index = i
                 PROVE  FALSE
      BY <2>4
    <3>1. d \in 1..Len(stack) /\ Held(stack[d])
      BY <1>4
    <3>2. d = Len(stack)
      BY <1>2, <1>6, <2>1, <3>1 DEF OnceInv, HeldInv
    <3> QED BY <1>1, <1>6, <3>2
  <2> QED BY <1>3, <1>4, <2>5, <2>6, <2>7, <2>8, Shrinks
<1> QED BY <1>5, <1>6

\* The innermost activation returns; the entry that it held is freed.
LEMMA PopShrinks ==
  ASSUME TypeInv, OnceInv, TypeInv', UNCHANGED <<clientTokenNum, pending, tracked, calls>>, stack # <<>>, Pop,
         \/ ~Held(Top) /\ AckWaitList' = AckWaitList
         \/ /\ Held(Top) /\ Top.index \in AckSlots
            /\ AckWaitList' = [AckWaitList EXCEPT ![Top.index].isFree = TRUE]
  PROVE  OnceInv'
<1>1. /\ Len(stack) \in Nat \ {0} /\ Len(stack') = Len(stack) - 1
      /\ \A d \in 1..(Len(stack) - 1) : stack'[d] = stack[d]
  BY Popped DEF TypeInv, StackOK
<1>2. Top = stack[Len(stack)] /\ Len(stack) \in 1..Len(stack)
  BY TopOK DEF TypeInv
<1>3. Len(stack') <= Len(stack)
  BY <1>1
<1>4. /\ \A d \in 1..Len(stack') : d \in 1..Len(stack) /\ d # Len(stack) /\ stack'[d] = stack[d]
      /\ \A d \in 1..Len(stack) : d # Len(stack) => d \in 1..Len(stack') /\ stack'[d] = stack[d]
  <2>1. PICK n \in Nat \ {0} : n = Len(stack)
    BY <1>1
  <2>2. /\ \A d \in 1..(n - 1) : d \in 1..n /\ d # n
        /\ \A d \in 1..n : d # n => d \in 1..(n - 1)
    OBVIOUS
  <2> QED BY <1>1, <2>1, <2>2
<1>5. \A d \in 1..Len(stack') : /\ d \in 1..Len(stack)
                                /\ stack'[d].fn = stack[d].fn
                                /\ stack'[d].index = stack[d].index
                                /\ stack'[d].token = stack[d].token
                                /\ Held(stack'[d]) => Held(stack[d])
                                /\ stack'[d].pc = "callback" => stack[d].pc = "callback"
  BY <1>4
<1>6. ASSUME ~Held(Top), AckWaitList' = AckWaitList PROVE OnceInv'
  <2>1. {} \in SUBSET AckSlots
    OBVIOUS
  <2>2. \A i \in {} : IsHeld(i) /\ AckWaitList'[i].isFree
    OBVIOUS
  <2>3. \A i \in AckSlots \ {} : AckWaitList'[i] = AckWaitList[i]
    BY <1>6
  <2>4. \A d \in 1..Len(stack) : Held(stack[d]) =>
           stack[d].index \in {} \/ (d \in 1..Len(stack') /\ Held(stack'[d]))
    BY <1>2, <1>4, <1>6
  <2>5. \A d \in 1..Len(stack') : Held(stack'[d]) => stack[d].index \notin {}
    OBVIOUS
  <2> QED BY <1>3, <1>5, <2>1, <2>2, <2>3, <2>4, <2>5, Shrinks
<1>7. ASSUME Held(Top), Top.index \in AckSlots, AckWaitList' = [AckWaitList EXCEPT ![Top.index].isFree = TRUE]
      PROVE  OnceInv'
  <2>1. PICK i \in AckSlots : i = Top.index
    BY <1>7
  <2>2. AckWaitList'[i].isFree /\ \A j \in AckSlots : j # i => AckWaitList'[j] = AckWaitList[j]
    BY <1>7, <2>1, PlaceFreed DEF TypeInv, ListsOK
  <2>3. IsHeld(i)
    BY <1>2, <1>7, <2>1 DEF IsHeld
  <2>4. PICK freed \in SUBSET AckSlots : freed = {i}
    OBVIOUS
  <2>5. \A j \in freed : IsHeld(j) /\ AckWaitList'[j].isFree
    BY <2>2, <2>3, <2>4
  <2>6. \A j \in AckSlots \ freed : AckWaitList'[j] = AckWaitList[j]
    BY <2>2, <2>4
  <2>7. \A d \in 1..Len(stack) : Held(stack[d]) =>
           stack[d].index \in freed \/ (d \in 1..Len(stack') /\ Held(stack'[d]))
    BY <1>2, <1>4, <2>1, <2>4
  <2>8. \A d \in 1..Len(stack') : Held(stack'[d]) => stack[d].index \notin freed
    <3> SUFFICES ASSUME NEW d \in 1..Len(stack'), Held(stack'[d]), stack[d].index = i
                 PROVE  FALSE
      BY <2>4
    <3>1. d \in 1..Len(stack) /\ Held(stack[d]) /\ d # Len(stack)
      BY <1>4
    <3> QED BY <1>2, <1>7, <2>1, <3>1 DEF OnceInv, HeldInv
  <2> QED BY <1>3, <1>5, <2>5, <2>6, <2>7, <2>8, Shrinks
<1> QED BY <1>6, <1>7

\* The steps of an action up to its publish.
LEMMA OnceSubscribing ==
  ASSUME TypeInv, OnceInv, TypeInv', Subscribed \/ SubscribeFailed \/ CleanedUp
  PROVE  OnceInv'
<1>1. /\ stack # <<>> /\ Top.fn = "action" /\ Top.pc # "callback"
      /\ UNCHANGED <<AckWaitList, service, tracked, calls>>
  BY DEF Subscribed, SubscribeFailed, CleanedUp, At, history
<1>2. PICK f \in Frames : f = Top /\ FrameOK(f, clientTokenNum)
  BY <1>1, TopOK DEF TypeInv
<1>3. UNCHANGED <<clientTokenNum, pending, tracked, calls>>
  BY <1>1 DEF service, history
<1>4. ~Held(f)
  BY <1>1, <1>2 DEF Held
<1>5. \/ Pop
      \/ SetTop([f EXCEPT !.ack = "rejected"])
      \/ SetTop([f EXCEPT !.pc = "publish"])
      \/ SetTop([f EXCEPT !.pc = "cleanup", !.ok = FALSE])
  <2>1. CASE Subscribed
    BY <1>2, <2>1 DEF Subscribed
  <2>2. CASE SubscribeFailed
    BY <1>2, <2>2 DEF SubscribeFailed
  <2>3. CASE CleanedUp
    BY <1>2, <2>3 DEF CleanedUp
  <2> QED BY <2>1, <2>2, <2>3
<1>6. ASSUME Pop PROVE OnceInv'
  BY <1>1, <1>2, <1>3, <1>4, <1>6, PopShrinks
<1>7. ASSUME NEW g, SetTop(g),
             \/ g = [f EXCEPT !.ack = "rejected"]
             \/ g = [f EXCEPT !.pc = "publish"]
             \/ g = [f EXCEPT !.pc = "cleanup", !.ok = FALSE]
      PROVE  OnceInv'
  <2>1. "rejected" \in Acks /\ "publish" \in Later /\ "cleanup" \in Later /\ FALSE \in BOOLEAN
    BY DEF Acks, Later
  <2>2. g \in Frames /\ g.fn = f.fn /\ g.index = f.index /\ g.token = f.token /\ g.pc \in {f.pc, "publish", "cleanup"}
    <3>1. CASE g = [f EXCEPT !.ack = "rejected"]
      BY <1>2, <2>1, <3>1, AckMoves
    <3>2. CASE g = [f EXCEPT !.pc = "publish"]
      BY <1>2, <2>1, <3>2, PcMoves
    <3>3. CASE g = [f EXCEPT !.pc = "cleanup", !.ok = FALSE]
      BY <3>3 DEF Frames
    <3> QED BY <1>7, <3>1, <3>2, <3>3
  <2>3. ~Held(g) /\ g.pc # "callback"
    BY <1>1, <1>2, <2>2 DEF Held
  <2> QED BY <1>1, <1>2, <1>3, <1>4, <1>7, <2>2, <2>3, TopShrinks
<1> QED BY <1>5, <1>6, <1>7

\* The application's callback returns.
LEMMA OnceCallbackReturns ==
  ASSUME TypeInv, OnceInv, TypeInv', CallbackReturns
  PROVE  OnceInv'
<1>1. /\ stack # <<>> /\ Top.fn \in {"ack", "expire"} /\ Top.pc = "callback"
      /\ UNCHANGED <<service, history>>
  BY DEF CallbackReturns, At
<1>2. PICK f \in Frames : f = Top /\ FrameOK(f, clientTokenNum)
  BY <1>1, TopOK DEF TypeInv
<1>3. UNCHANGED <<clientTokenNum, pending, tracked, calls>>
  BY <1>1 DEF service, history
<1>4. f.index \in AckSlots /\ Held(f)
  BY <1>1, <1>2 DEF FrameOK, Held
<1>5. PICK k \in Keys \union {NoKey} : k = AckWaitList[f.index].key
  BY <1>4 DEF TypeInv, ListsOK, AckRecords
<1>6. PICK g : g = [f EXCEPT !.pc = "release", !.key = k]
  OBVIOUS
<1>7. SetTop(g)
  BY <1>2, <1>5, <1>6 DEF CallbackReturns
<1>8. g \in Frames /\ g.fn = f.fn /\ g.index = f.index /\ g.token = f.token /\ g.pc = "release"
  BY <1>6 DEF Frames
<1>9. \/ f.fn = "ack" /\ AckWaitList' = AckWaitList
      \/ f.fn = "expire" /\ AckWaitList' = [AckWaitList EXCEPT ![f.index].isFree = TRUE]
  BY <1>1, <1>2 DEF CallbackReturns
<1>10. \/ (Held(g) <=> Held(Top)) /\ AckWaitList' = AckWaitList
       \/ /\ Held(Top) /\ ~Held(g) /\ Top.index \in AckSlots
          /\ AckWaitList' = [AckWaitList EXCEPT ![Top.index].isFree = TRUE]
  <2>1. CASE f.fn = "ack"
    BY <1>2, <1>4, <1>8, <1>9, <2>1 DEF Held
  <2>2. CASE f.fn = "expire"
    BY <1>2, <1>4, <1>8, <1>9, <2>2 DEF Held
  <2> QED BY <1>9, <2>1, <2>2
<1> QED BY <1>1, <1>2, <1>3, <1>7, <1>8, <1>10, TopShrinks

\* A response or a timeout is done with one of its topics: the entry of a response is freed last.
LEMMA OnceReleased ==
  ASSUME TypeInv, OnceInv, TypeInv', stack # <<>>, Top.fn \in {"ack", "expire"}, Top.pc # "callback", Released(Top),
         UNCHANGED <<clientTokenNum, pending, tracked, calls>>
  PROVE  OnceInv'
<1>1. PICK f \in Frames : f = Top /\ FrameOK(f, clientTokenNum)
  BY TopOK DEF TypeInv
<1>2. f.index \in AckSlots /\ (Held(f) <=> f.fn = "ack")
  BY <1>1 DEF FrameOK, Held
<1>3. ASSUME f.ack = "accepted" PROVE OnceInv'
  <2>1. PICK g : g = [f EXCEPT !.pc = "release", !.ack = "rejected"]
    OBVIOUS
  <2>2. SetTop(g) /\ AckWaitList' = AckWaitList
    BY <1>1, <1>3, <2>1 DEF Released
  <2>3. "release" \in Later /\ "rejected" \in Acks
    BY DEF Later, Acks
  <2>4. g \in Frames /\ g.fn = f.fn /\ g.index = f.index /\ g.pc = "release" /\ g.token = f.token
    BY <2>1, <2>3 DEF Frames
  <2>5. Held(g) <=> Held(Top)
    BY <1>1, <1>2, <2>4 DEF Held
  <2>6. g.pc # "callback"
    BY <2>4
  <2> QED BY <1>1, <2>2, <2>4, <2>5, <2>6, TopShrinks
<1>4. ASSUME f.ack # "accepted" PROVE OnceInv'
  <2>1. Pop /\ AckWaitList' = IF f.fn = "ack" THEN [AckWaitList EXCEPT ![f.index].isFree = TRUE] ELSE AckWaitList
    BY <1>1, <1>4 DEF Released
  <2>2. \/ ~Held(Top) /\ AckWaitList' = AckWaitList
        \/ /\ Held(Top) /\ Top.index \in AckSlots
           /\ AckWaitList' = [AckWaitList EXCEPT ![Top.index].isFree = TRUE]
    <3>1. CASE f.fn = "ack"
      BY <1>1, <1>2, <2>1, <3>1
    <3>2. CASE f.fn # "ack"
      BY <1>1, <1>2, <2>1, <3>2
    <3> QED BY <3>1, <3>2
  <2> QED BY <2>1, <2>2, PopShrinks
<1> QED BY <1>3, <1>4

\* Release, and the return of its unsubscribe.
LEMMA OnceRelease ==
  ASSUME TypeInv, OnceInv, TypeInv', Release \/ Unsubscribed
  PROVE  OnceInv'
<1>1. /\ stack # <<>> /\ Top.fn \in {"ack", "expire"} /\ Top.pc # "callback"
      /\ UNCHANGED <<service, history>>
  BY DEF Release, Unsubscribed, At
<1>2. PICK f \in Frames : f = Top /\ FrameOK(f, clientTokenNum)
  BY <1>1, TopOK DEF TypeInv
<1>3. UNCHANGED <<clientTokenNum, pending, tracked, calls>>
  BY <1>1 DEF service, history
<1>4. ASSUME Released(Top) PROVE OnceInv'
  BY <1>1, <1>3, <1>4, OnceReleased
<1>5. Released(Top) \/ (\E i \in TopicSlots : SetTop([f EXCEPT !.pc = "unsubscribe", !.a = i]) /\ AckWaitList' = AckWaitList)
  <2>1. ASSUME Release PROVE <1>5!:
    <3>1. PICK i : i = FindTopic(<<f.key, f.ack>>)
      OBVIOUS
    <3>2. i \in TopicSlots \union {0}
      <4> DEFINE S == {j \in TopicSlots : ~SubscriptionList[j].isFree /\ SubscriptionList[j].topic = <<f.key, f.ack>>}
      <4>1. S \subseteq Nat \ {0} /\ S \subseteq TopicSlots /\ i = Lowest(S)
        BY <3>1, Constants DEF TopicSlots, FindTopic
      <4> HIDE DEF S
      <4>2. Lowest(S) \in S \union {0}
        BY <4>1, LowestSlot
      <4> QED BY <4>1, <4>2
    <3>3. Released(Top) \/ (i # 0 /\ SetTop([f EXCEPT !.pc = "unsubscribe", !.a = i]) /\ AckWaitList' = AckWaitList)
      BY <1>2, <2>1, <3>1 DEF Release
    <3> QED BY <3>2, <3>3
  <2>2. ASSUME Unsubscribed PROVE Released(Top)
    BY <2>2 DEF Unsubscribed
  <2> QED BY <2>1, <2>2
<1>6. ASSUME NEW i \in TopicSlots, SetTop([f EXCEPT !.pc = "unsubscribe", !.a = i]), AckWaitList' = AckWaitList
      PROVE  OnceInv'
  <2>1. PICK g : g = [f EXCEPT !.pc = "unsubscribe", !.a = i]
    OBVIOUS
  <2>2. "unsubscribe" \in Later /\ SetTop(g)
    BY <1>6, <2>1 DEF Later
  <2>3. g \in Frames /\ g.fn = f.fn /\ g.index = f.index /\ g.pc = "unsubscribe" /\ g.token = f.token
    BY <2>1 DEF Frames
  <2>4. (Held(g) <=> Held(Top)) /\ g.pc # "callback"
    BY <1>1, <1>2, <2>3 DEF Held
  <2> QED BY <1>1, <1>2, <1>3, <1>6, <2>2, <2>3, <2>4, TopShrinks
<1> QED BY <1>4, <1>5, <1>6

\* A step that starts nothing, calls nothing and touches no entry.
LEMMA OnceStutter ==
  ASSUME OnceInv, UNCHANGED <<AckWaitList, stack, clientTokenNum, pending, tracked, calls>>
  PROVE  OnceInv'
<1>1. ShapeInv' /\ TokenInv' /\ HeldInv' /\ ActionInv'
  BY DEF OnceInv, ShapeInv, TokenInv, HeldInv, ActionInv
<1>2. EntryInv'
  BY DEF OnceInv, EntryInv, IsHeld
<1>3. CallbackOnce' /\ NotForgotten'
  BY DEF OnceInv, CallbackOnce, NotForgotten
<1> QED BY <1>1, <1>2, <1>3 DEF OnceInv

\* The application, not one of its callbacks, starts an action or a registration.
LEMMA OnceStarts ==
  ASSUME TypeInv, OnceInv, TypeInv', stack = <<>>, NEW f \in Frames, stack' = <<f>>,
         UNCHANGED <<AckWaitList, pending, tracked, calls>>,
         f.fn \in {"action", "register"}, f.pc # "callback",
         clientTokenNum' \in {clientTokenNum, clientTokenNum + 1},
         f.fn = "action" => f.token \notin tracked /\ f.index \in AckSlots /\ AckWaitList[f.index].isFree
  PROVE  OnceInv'
<1>1. Len(stack') = 1 /\ stack'[1] = f /\ 1..Len(stack) = {}
  BY Single
<1>2. (\A d \in 1..Len(stack') : d = 1) /\ 2..Len(stack') = {}
  BY <1>1
<1>3. ~Held(f)
  BY DEF Held
<1>4. ShapeInv' /\ HeldInv' /\ ActionInv'
  BY <1>1, <1>2, <1>3 DEF ShapeInv, HeldInv, ActionInv
<1>5. TokenInv'
  <2>1. 1..clientTokenNum \subseteq 1..clientTokenNum'
    <3>1. PICK n \in Nat : n = clientTokenNum
      BY Constants DEF TypeInv, ServiceOK
    <3>2. 1..n \subseteq 1..(n + 1)
      OBVIOUS
    <3> QED BY <3>1, <3>2
  <2> QED BY <2>1 DEF OnceInv, TokenInv
<1>6. EntryInv'
  <2>1. \A i \in AckSlots : ~IsHeld(i)
    BY <1>1 DEF IsHeld
  <2> QED BY <2>1 DEF OnceInv, EntryInv
<1>7. CallbackOnce' /\ NotForgotten'
  BY DEF OnceInv, CallbackOnce, NotForgotten
<1> QED BY <1>4, <1>5, <1>6, <1>7 DEF OnceInv

\* An action starts.
LEMMA OnceStart ==
  ASSUME CallbackActions = {}, TypeInv, OnceInv, TypeInv', NEW key \in Keys, NEW sticky \in BOOLEAN,
         Increment(key, sticky) \/ SubscribeAcks(key, sticky)
  PROVE  OnceInv'
<1>1. /\ Start(key, sticky) /\ clientTokenNum' = clientTokenNum + 1
      /\ UNCHANGED <<AckWaitList, pending, tracked, calls>>
  BY DEF Increment, SubscribeAcks, Start
<1>2. stack = <<>>
  BY <1>1 DEF Start, Callable
<1>3. FreeAck # 0 /\ FreeAck \in AckSlots /\ AckWaitList[FreeAck].isFree /\ clientTokenNum < MaxActions
  BY <1>1, FreeAckFree DEF Start
<1>4. clientTokenNum' \notin tracked
  <2>1. PICK n \in Nat : n = clientTokenNum
    BY Constants DEF TypeInv, ServiceOK
  <2>2. n + 1 \notin 1..n
    OBVIOUS
  <2> QED BY <1>1, <2>1, <2>2 DEF OnceInv, TokenInv
<1>5. \E f \in Frames : /\ stack' = Append(stack, f)
                        /\ f.fn = "action" /\ f.token = clientTokenNum' /\ f.index = FreeAck
                        /\ f.pc \in {"subscribe", "cleanup", "publish"}
  <2>1. CASE Increment(key, sticky)
    <3>1. PICK f : f = ActionFrame(key, sticky, "publish")
      OBVIOUS
    <3>2. /\ f \in Frames /\ f.fn = "action" /\ f.token = clientTokenNum' /\ f.index = FreeAck
          /\ f.pc = "publish"
      BY <1>1, <1>3, <3>1, PublishFrameOK DEF TypeInv
    <3>3. stack' = Append(stack, f)
      BY <2>1, <3>1 DEF Increment
    <3> QED BY <3>2, <3>3
  <2>2. CASE SubscribeAcks(key, sticky)
    <3>1. PICK a : a = Lowest({i \in TopicSlots : SubscriptionList[i].isFree})
      OBVIOUS
    <3>2. PICK r : r = Lowest({i \in TopicSlots : SubscriptionList[i].isFree} \ {a})
      OBVIOUS
    <3>3. PICK g : g = SubscribeFrame(key, sticky, a, r)
      OBVIOUS
    <3>4. a \in TopicSlots \union {0} /\ r \in TopicSlots \union {0}
      BY <3>1, <3>2, TwoSlots
    <3>5. /\ g \in Frames /\ g.fn = "action" /\ g.key = key /\ g.token = clientTokenNum' /\ g.index = FreeAck
          /\ g.pc = "subscribe"
      <4>1. ServiceOK
        BY SMTT(30) DEF TypeInv
      <4> QED BY <1>1, <1>3, <3>3, <3>4, <4>1, SubscribeFrameOK
    <3>6. \/ stack' = Append(stack, g)
          \/ \E pc \in {"cleanup", "publish"} : stack' = Append(stack, [g EXCEPT !.pc = pc])
      BY <2>2, <3>1, <3>2, <3>3 DEF SubscribeAcks, SubscribeFrame
    <3>7. ASSUME NEW pc \in {"cleanup", "publish"}, stack' = Append(stack, [g EXCEPT !.pc = pc]) PROVE <1>5!:
      <4>1. PICK f : f = [g EXCEPT !.pc = pc]
        OBVIOUS
      <4>2. f \in Frames /\ f.fn = "action" /\ f.token = clientTokenNum' /\ f.index = FreeAck /\ f.pc = pc
        BY <1>1, <3>5, <4>1, NoSlotFrameOK DEF TypeInv
      <4> QED BY <3>7, <4>1, <4>2
    <3> QED BY <3>5, <3>6, <3>7
  <2> QED BY <2>1, <2>2
<1>6. PICK f \in Frames : /\ stack' = Append(stack, f)
                          /\ f.fn = "action" /\ f.token = clientTokenNum' /\ f.index = FreeAck
                          /\ f.pc \in {"subscribe", "cleanup", "publish"}
  BY <1>5
<1>7. stack' = <<f>>
  BY <1>2, <1>6
<1> QED BY SMTT(30), <1>1, <1>2, <1>3, <1>4, <1>6, <1>7, OnceStarts

\* The registration of a delta.
LEMMA OnceDelta ==
  ASSUME TypeInv, OnceInv, TypeInv', RegisterDelta \/ DeltaSubscribed
  PROVE  OnceInv'
<1>1. UNCHANGED <<AckWaitList, clientTokenNum, pending, tracked, calls>>
  BY DEF RegisterDelta, DeltaSubscribed, lists, service, history
<1>2. CASE RegisterDelta
  <2>1. PICK f : f = NewFrame("register", "subscribe")
    OBVIOUS
  <2>2. f \in Frames /\ f.fn = "register" /\ f.pc = "subscribe"
    BY <2>1 DEF NewFrame, Frames, Acks
  <2>3. stack = <<>> /\ (stack' = <<f>> \/ stack' = stack)
    BY <1>2, <2>1 DEF RegisterDelta
  <2> QED BY <1>1, <2>2, <2>3, OnceStarts, OnceStutter
<1>3. CASE DeltaSubscribed
  <2>1. stack # <<>> /\ Pop /\ Top.fn = "register"
    BY <1>3 DEF DeltaSubscribed, At
  <2>2. ~Held(Top)
    BY <2>1 DEF Held
  <2> QED BY <1>1, <2>1, <2>2, PopShrinks
<1> QED BY <1>2, <1>3

\* An action is published and takes the place it chose: nothing is held, as nobody else is active.
LEMMA OncePublish ==
  ASSUME TypeInv, OnceInv, TypeInv', PublishAction
  PROVE  OnceInv'
<1>1. /\ stack # <<>> /\ Top.fn = "action" /\ Pop
      /\ UNCHANGED <<SubscriptionList, handlers, clientTokenNum, delta, version, calls, uncovered>>
  BY DEF PublishAction, At
<1>2. /\ Top \in Frames /\ FrameOK(Top, clientTokenNum) /\ Top = stack[Len(stack)]
      /\ Len(stack) \in Nat \ {0} /\ Len(stack) \in 1..Len(stack)
  BY <1>1, TopOK DEF TypeInv
<1>3. PICK f \in Frames : f = Top
  BY <1>2
<1>4. Len(stack) = 1
  <2>1. Len(stack) \notin 2..Len(stack)
    BY <1>1, <1>2 DEF OnceInv, ShapeInv
  <2> QED BY <1>2, <2>1
<1>5. Len(stack') = 0
  BY <1>1, <1>4, Popped DEF TypeInv, StackOK
<1>6. 1..Len(stack) = {1} /\ 1..Len(stack') = {} /\ 2..Len(stack') = {}
  BY <1>4, <1>5
<1>7. ~Held(f) /\ stack[1] = f
  BY <1>1, <1>2, <1>3, <1>4 DEF Held
<1>8. f.token \notin tracked /\ f.index \in AckSlots /\ AckWaitList[f.index].isFree /\ f.token \in 1..clientTokenNum
  BY <1>1, <1>2, <1>3 DEF OnceInv, ActionInv, FrameOK
<1>9. ASSUME UNCHANGED <<AckWaitList, pending, tracked>> PROVE OnceInv'
  BY <1>1, <1>3, <1>7, <1>9, PopShrinks
<1>10. ASSUME AckWaitList' = [AckWaitList EXCEPT ![f.index] = [isFree |-> FALSE, key |-> f.key, token |-> f.token]],
              pending' = pending \union {<<f.token, f.key>>}, tracked' = tracked \union {f.token}
       PROVE  OnceInv'
  <2>1. PICK t, x : t = f.token /\ x = f.index
    OBVIOUS
  <2>2. /\ x \in AckSlots /\ ~AckWaitList'[x].isFree /\ AckWaitList'[x].token = t
        /\ \A i \in AckSlots : i # x => AckWaitList'[i] = AckWaitList[i]
    BY <1>8, <1>10, <2>1 DEF TypeInv, ListsOK
  <2>3. t \in Tokens /\ calls[t] = 0
    <3>1. t \in tracked' /\ tracked' \subseteq Tokens
      BY <1>10, <2>1 DEF TypeInv, HistoryOK
    <3> QED BY <1>8, <2>1, <3>1 DEF OnceInv, TokenInv
  <2>4. \A i \in AckSlots : ~IsHeld(i)
    BY <1>6, <1>7 DEF IsHeld
  <2>5. ShapeInv' /\ HeldInv' /\ ActionInv'
    BY <1>6 DEF ShapeInv, HeldInv, ActionInv
  <2>6. TokenInv'
    <3>1. tracked' \subseteq 1..clientTokenNum'
      BY <1>1, <1>8, <1>10 DEF OnceInv, TokenInv
    <3>2. \A p \in pending' : p \in pending \/ (p = <<t, f.key>> /\ p[1] = t)
      BY <1>10, <2>1
    <3>3. \A p \in pending : p[1] \in tracked /\ p[1] # t
      BY <1>8, <2>1 DEF OnceInv, TokenInv
    <3>4. \A p \in pending' : p[1] \in tracked'
      BY <1>10, <2>1, <3>2, <3>3
    <3>5. \A p, q \in pending' : p[1] = q[1] => p = q
      BY <3>2, <3>3 DEF OnceInv, TokenInv
    <3>6. \A s \in Tokens : s \notin tracked' => calls'[s] = 0
      BY <1>1, <1>10 DEF OnceInv, TokenInv
    <3> QED BY <3>1, <3>4, <3>5, <3>6 DEF TokenInv
  <2>7. EntryInv'
    <3>1. \A i \in AckSlots : ~AckWaitList'[i].isFree =>
            i = x \/ (AckWaitList'[i].token \in tracked /\ AckWaitList'[i].token # t /\ calls[AckWaitList'[i].token] = 0)
      BY <1>8, <2>1, <2>2, <2>4 DEF OnceInv, EntryInv
    <3>2. \A i \in AckSlots : ~AckWaitList'[i].isFree => AckWaitList'[i].token \in tracked' /\ calls'[AckWaitList'[i].token] = 0
      BY <1>1, <1>10, <2>1, <2>2, <2>3, <3>1
    <3>3. \A i, j \in AckSlots :
            ~AckWaitList'[i].isFree /\ ~AckWaitList'[j].isFree /\ AckWaitList'[i].token = AckWaitList'[j].token => i = j
      BY <2>2, <3>1 DEF OnceInv, EntryInv
    <3> QED BY <3>2, <3>3 DEF EntryInv
  <2>8. CallbackOnce'
    BY <1>1 DEF OnceInv, CallbackOnce
  <2>9. NotForgotten'
    <3> SUFFICES ASSUME NEW s \in tracked', ~(calls'[s] > 0)
                 PROVE  \E i \in AckSlots : ~AckWaitList'[i].isFree /\ AckWaitList'[i].token = s
      BY DEF NotForgotten
    <3>1. CASE s = t
      BY <2>2, <3>1
    <3>2. CASE s # t
      <4>1. s \in tracked
        BY <1>10, <2>1, <3>2
      <4>2. PICK i \in AckSlots : ~AckWaitList[i].isFree /\ AckWaitList[i].token = s
        BY <1>1, <4>1 DEF OnceInv, NotForgotten
      <4>3. i # x
        BY <1>8, <2>1, <4>2
      <4> QED BY <2>2, <4>2, <4>3
    <3> QED BY <3>1, <3>2
  <2> QED BY <2>5, <2>6, <2>7, <2>8, <2>9 DEF OnceInv
<1>11. \/ UNCHANGED <<AckWaitList, pending, tracked>>
       \/ /\ AckWaitList' = [AckWaitList EXCEPT ![f.index] = [isFree |-> FALSE, key |-> f.key, token |-> f.token]]
          /\ pending' = pending \union {<<f.token, f.key>>} /\ tracked' = tracked \union {f.token}
  BY <1>3 DEF PublishAction
<1> QED BY <1>9, <1>10, <1>11

\* A callback is called, for an entry that nobody holds: it is its first call.
LEMMA OnceCalls ==
  ASSUME TypeInv, OnceInv, TypeInv', NEW f \in Frames, stack' = Append(stack, f), f.pc = "callback",
         f.fn = "ack" \/ (f.fn = "expire" /\ stack = <<>>), f.index \in AckSlots,
         ~AckWaitList[f.index].isFree, ~IsHeld(f.index),
         \A d \in 1..Len(stack) : stack[d].pc # "callback",
         calls' = [calls EXCEPT ![AckWaitList[f.index].token] = @ + 1],
         pending' \subseteq pending,
         f.fn = "ack" => \A p \in pending' : p[1] # AckWaitList[f.index].token,
         UNCHANGED <<AckWaitList, clientTokenNum, tracked>>
  PROVE  OnceInv'
<1>1. /\ Len(stack) \in Nat /\ Len(stack') = Len(stack) + 1
      /\ \A d \in 1..Len(stack) : stack'[d] = stack[d]
      /\ stack'[Len(stack) + 1] = f
  BY Pushed DEF TypeInv, StackOK
<1>2. /\ \A d \in 1..Len(stack') : (d \in 1..Len(stack) /\ stack'[d] = stack[d] /\ d # Len(stack')) \/ (d = Len(stack') /\ stack'[d] = f)
      /\ 1..Len(stack) \subseteq 1..Len(stack') /\ Len(stack') \in 1..Len(stack')
  <2>1. PICK n \in Nat : n = Len(stack)
    BY <1>1
  <2>2. (\A d \in 1..(n + 1) : (d \in 1..n /\ d # n + 1) \/ d = n + 1) /\ 1..n \subseteq 1..(n + 1) /\ n + 1 \in 1..(n + 1)
    OBVIOUS
  <2> QED BY <1>1, <2>1, <2>2
<1>3. PICK x \in AckSlots : x = f.index
  OBVIOUS
<1>4. PICK t : t = AckWaitList[x].token
  OBVIOUS
<1>5. t \in tracked /\ t \in Tokens /\ calls[t] = 0
  BY <1>3, <1>4 DEF OnceInv, EntryInv, TypeInv, HistoryOK
<1>6. calls'[t] = 1 /\ \A s \in Tokens : s # t => calls'[s] = calls[s]
  <2>1. calls' = [calls EXCEPT ![t] = @ + 1] /\ calls \in [Tokens -> Nat]
    BY <1>3, <1>4 DEF TypeInv, HistoryOK
  <2>2. \A s \in Tokens : calls'[s] = IF s = t THEN calls[s] + 1 ELSE calls[s]
    BY <2>1, CallCounted
  <2> QED BY <1>5, <2>2
<1>7. ShapeInv'
  <2>1. \A d \in 2..Len(stack') : d \in 2..Len(stack) \/ (d = Len(stack') /\ stack # <<>>)
    BY <1>1
  <2>2. \A d \in 2..Len(stack) : d \in 1..Len(stack)
    BY <1>1
  <2>3. \A d \in 2..Len(stack') : stack'[d].fn = "ack"
    BY <1>1, <2>1, <2>2 DEF OnceInv, ShapeInv
  <2>4. \A d \in 1..Len(stack') : stack'[d].pc = "callback" => d = Len(stack')
    BY <1>2
  <2> QED BY <2>3, <2>4 DEF ShapeInv
<1>8. TokenInv'
  <2>1. \A s \in Tokens : s \notin tracked' => calls'[s] = 0
    BY <1>5, <1>6 DEF OnceInv, TokenInv
  <2> QED BY <2>1 DEF OnceInv, TokenInv
<1>9. \A i \in AckSlots : ~AckWaitList[i].isFree /\ i # x =>
        AckWaitList[i].token \in Tokens /\ AckWaitList[i].token # t
  BY <1>3, <1>4 DEF OnceInv, EntryInv, TypeInv, HistoryOK
<1>10. IsHeld(x)'
  <2>1. Held(stack'[Len(stack')]) /\ stack'[Len(stack')].index = x
    BY <1>1, <1>3 DEF Held
  <2> QED BY <1>2, <2>1 DEF IsHeld
<1>11. EntryInv'
  <2>1. \A i \in AckSlots : IsHeld(i) => IsHeld(i)'
    BY <1>1, <1>2 DEF IsHeld
  <2>2. \A i \in AckSlots : ~AckWaitList'[i].isFree =>
          /\ AckWaitList'[i].token \in tracked'
          /\ ~IsHeld(i)' => calls'[AckWaitList'[i].token] = 0
    BY <1>6, <1>9, <1>10, <2>1 DEF OnceInv, EntryInv
  <2>3. \A i, j \in AckSlots :
          ~AckWaitList'[i].isFree /\ ~AckWaitList'[j].isFree /\ AckWaitList'[i].token = AckWaitList'[j].token => i = j
    BY DEF OnceInv, EntryInv
  <2> QED BY <2>2, <2>3 DEF EntryInv
<1>12. HeldInv'
  <2>1. \A d \in 1..Len(stack) : Held(stack[d]) => stack[d].index \in AckSlots /\ stack[d].index # x
    BY <1>3 DEF IsHeld, TypeInv, StackOK, FrameOK, Held
  <2>2. \A d \in 1..Len(stack) : Held(stack[d]) =>
          /\ ~AckWaitList[stack[d].index].isFree
          /\ calls'[AckWaitList[stack[d].index].token] > 0
          /\ stack[d].fn = "ack" => \A p \in pending' : p[1] # AckWaitList[stack[d].index].token
    BY <1>6, <1>9, <2>1 DEF OnceInv, HeldInv
  <2>3. /\ ~AckWaitList[f.index].isFree /\ calls'[AckWaitList[f.index].token] > 0
        /\ f.fn = "ack" => \A p \in pending' : p[1] # AckWaitList[f.index].token
    BY <1>3, <1>4, <1>6
  <2>4. \A d \in 1..Len(stack') : Held(stack'[d]) =>
          /\ ~AckWaitList'[stack'[d].index].isFree
          /\ calls'[AckWaitList'[stack'[d].index].token] > 0
          /\ stack'[d].fn = "ack" => \A p \in pending' : p[1] # AckWaitList'[stack'[d].index].token
    <3> SUFFICES ASSUME NEW d \in 1..Len(stack'), Held(stack'[d])
                 PROVE  /\ ~AckWaitList[stack'[d].index].isFree
                        /\ calls'[AckWaitList[stack'[d].index].token] > 0
                        /\ stack'[d].fn = "ack" => \A p \in pending' : p[1] # AckWaitList[stack'[d].index].token
      OBVIOUS
    <3>1. CASE stack'[d] = f
      BY <2>3, <3>1
    <3>2. CASE d \in 1..Len(stack) /\ stack'[d] = stack[d]
      BY <2>2, <3>2
    <3> QED BY <1>2, <3>1, <3>2
  <2>5. \A d, e \in 1..Len(stack') :
          Held(stack'[d]) /\ Held(stack'[e]) /\ stack'[d].index = stack'[e].index => d = e
    <3> SUFFICES ASSUME NEW d \in 1..Len(stack'), NEW e \in 1..Len(stack'),
                        Held(stack'[d]), Held(stack'[e]), stack'[d].index = stack'[e].index
                 PROVE  d = e
      OBVIOUS
    <3>1. CASE d = Len(stack') /\ stack'[d] = f
      BY <1>2, <1>3, <2>1, <3>1
    <3>2. CASE d \in 1..Len(stack) /\ stack'[d] = stack[d] /\ d # Len(stack')
      BY <1>2, <1>3, <2>1, <3>2 DEF OnceInv, HeldInv
    <3> QED BY <1>2, <3>1, <3>2
  <2> QED BY <2>4, <2>5 DEF HeldInv
<1>13. ActionInv'
  <2>1. f.fn # "action"
    OBVIOUS
  <2> QED BY <1>2, <2>1 DEF OnceInv, ActionInv
<1>14. CallbackOnce'
  <2>1. calls'[t] <= 1
    BY <1>6
  <2> QED BY <1>6, <2>1 DEF OnceInv, CallbackOnce
<1>15. NotForgotten'
  <2> SUFFICES ASSUME NEW s \in tracked, ~(calls'[s] > 0)
               PROVE  \E i \in AckSlots : ~AckWaitList[i].isFree /\ AckWaitList[i].token = s
    BY DEF NotForgotten
  <2>1. s # t /\ s \in Tokens
    BY <1>6 DEF TypeInv, HistoryOK
  <2> QED BY <1>6, <2>1 DEF OnceInv, NotForgotten
<1> QED BY <1>7, <1>8, <1>11, <1>12, <1>13, <1>14, <1>15 DEF OnceInv

\* A response arrives: had its entry been held by another response, it would not be pending, and
\* an expired one is only held while its callback runs, when nothing is read.
LEMMA OnceAckStatus ==
  ASSUME TypeInv, OnceInv, TypeInv', NEW token, NEW key, NEW ack, NEW v, AckStatusCallback(token, key, ack, v)
  PROVE  OnceInv'
<1>1. /\ Reading /\ <<token, key>> \in pending /\ pending' = pending \ {<<token, key>>}
      /\ UNCHANGED <<AckWaitList, clientTokenNum, tracked>>
  BY DEF AckStatusCallback, lists
<1>2. PICK i : i = Lowest({j \in AckSlots : ~AckWaitList[j].isFree /\ AckWaitList[j].token = token})
  OBVIOUS
<1>3. i = 0 \/ (i \in AckSlots /\ ~AckWaitList[i].isFree /\ AckWaitList[i].token = token)
  <2> DEFINE S == {j \in AckSlots : ~AckWaitList[j].isFree /\ AckWaitList[j].token = token}
  <2>1. S \subseteq Nat \ {0} /\ S \subseteq AckSlots /\ i = Lowest(S)
    BY <1>2, Constants DEF AckSlots
  <2>2. \A j \in S : j \in AckSlots /\ ~AckWaitList[j].isFree /\ AckWaitList[j].token = token
    OBVIOUS
  <2> HIDE DEF S
  <2>3. Lowest(S) \in S \union {0}
    BY <2>1, LowestSlot
  <2> QED BY <2>1, <2>2, <2>3
<1>4. /\ i # 0 => /\ stack' = Append(stack, [NewFrame("ack", "callback") EXCEPT !.index = i])
                  /\ calls' = [calls EXCEPT ![token] = @ + 1]
      /\ i = 0 => UNCHANGED <<stack, calls>>
  BY <1>2 DEF AckStatusCallback
<1>5. \A p \in pending' : p \in pending /\ p[1] # token
  <2>1. \A p \in pending' : p \in pending /\ p # <<token, key>>
    BY <1>1
  <2>2. PICK q \in pending : q = <<token, key>> /\ q[1] = token
    BY <1>1
  <2> QED BY <2>1, <2>2 DEF OnceInv, TokenInv
<1>6. ASSUME i = 0 PROVE OnceInv'
  <2>1. UNCHANGED <<stack, calls>>
    BY <1>4, <1>6
  <2>2. ShapeInv' /\ ActionInv' /\ CallbackOnce' /\ NotForgotten'
    BY <1>1, <2>1 DEF OnceInv, ShapeInv, ActionInv, CallbackOnce, NotForgotten
  <2>3. TokenInv'
    BY <1>1, <1>5, <2>1 DEF OnceInv, TokenInv
  <2>4. EntryInv'
    BY <1>1, <2>1 DEF OnceInv, EntryInv, IsHeld
  <2>5. HeldInv'
    BY <1>1, <1>5, <2>1 DEF OnceInv, HeldInv
  <2> QED BY <2>2, <2>3, <2>4, <2>5 DEF OnceInv
<1>7. ASSUME i # 0 PROVE OnceInv'
  <2>1. PICK f : f = [NewFrame("ack", "callback") EXCEPT !.index = i]
    OBVIOUS
  <2>2. i \in AckSlots /\ ~AckWaitList[i].isFree /\ AckWaitList[i].token = token /\ "ack" \in {"ack", "expire"}
    BY <1>3, <1>7
  <2>3. FrameOK(f, clientTokenNum) /\ f \in Frames /\ f.fn = "ack" /\ f.pc = "callback" /\ f.index = i
    BY <2>1, <2>2 DEF NewFrame, Frames, Acks, FrameOK
  <2>4. \A d \in 1..Len(stack) : stack[d].pc # "callback"
    <3> SUFFICES ASSUME NEW d \in 1..Len(stack), stack[d].pc = "callback" PROVE FALSE
      OBVIOUS
    <3>1. stack # <<>>
      OBVIOUS
    <3>2. d = Len(stack) /\ Top = stack[Len(stack)]
      BY <3>1, TopOK DEF OnceInv, ShapeInv, TypeInv
    <3> QED BY <1>1, <3>1, <3>2 DEF Reading
  <2>5. ~IsHeld(i)
    <3> SUFFICES ASSUME NEW d \in 1..Len(stack), Held(stack[d]), stack[d].index = i PROVE FALSE
      BY DEF IsHeld
    <3>1. stack[d].fn = "ack"
      BY <2>4 DEF Held
    <3>2. \A p \in pending : p[1] # token
      BY <2>2, <3>1 DEF OnceInv, HeldInv
    <3>3. <<token, key>>[1] = token
      OBVIOUS
    <3> QED BY <1>1, <3>2, <3>3
  <2>6. stack' = Append(stack, f) /\ calls' = [calls EXCEPT ![AckWaitList[f.index].token] = @ + 1]
    BY <1>4, <1>7, <2>1, <2>2, <2>3
  <2>7. pending' \subseteq pending /\ \A p \in pending' : p[1] # AckWaitList[f.index].token
    BY <1>5, <2>2, <2>3
  <2> QED BY <1>1, <2>2, <2>3, <2>4, <2>5, <2>6, <2>7, OnceCalls
<1> QED BY <1>6, <1>7

\* A timer has expired: nothing is held, as nobody is active.
LEMMA OnceExpire ==
  ASSUME TypeInv, OnceInv, TypeInv', NEW i \in AckSlots, Expire(i)
  PROVE  OnceInv'
<1>1. /\ stack = <<>> /\ ~AckWaitList[i].isFree /\ calls' = [calls EXCEPT ![AckWaitList[i].token] = @ + 1]
      /\ UNCHANGED <<AckWaitList, clientTokenNum, pending, tracked>>
  BY DEF Expire, lists, service
<1>2. PICK f : f = [NewFrame("expire", "callback") EXCEPT !.index = i]
  OBVIOUS
<1>3. FrameOK(f, clientTokenNum) /\ f \in Frames /\ f.fn = "expire" /\ f.pc = "callback" /\ f.index = i
  BY <1>2 DEF NewFrame, Frames, Acks, FrameOK
<1>4. stack' = <<f>>
  BY <1>2 DEF Expire
<1>5. stack' = Append(stack, f) /\ 1..Len(stack) = {}
  BY <1>1, <1>4
<1>6. ~IsHeld(i)
  BY <1>5 DEF IsHeld
<1> QED BY <1>1, <1>3, <1>5, <1>6, OnceCalls

\* OnceInv is inductive.
LEMMA OnceNext == CallbackActions = {} /\ TypeInv /\ TypeInv' /\ OnceInv /\ [Next]_vars => OnceInv'
<1> SUFFICES ASSUME CallbackActions = {}, TypeInv, TypeInv', OnceInv, [Next]_vars PROVE OnceInv'
  OBVIOUS
<1>1. ASSUME NEW key \in Keys, NEW sticky \in BOOLEAN, Increment(key, sticky) \/ SubscribeAcks(key, sticky)
      PROVE  OnceInv'
  BY <1>1, OnceStart
<1>2. ASSUME Proceed PROVE OnceInv'
  BY <1>2, OnceSubscribing, OncePublish, OnceCallbackReturns, OnceRelease, OnceDelta DEF Proceed
<1>3. ASSUME NEW p \in pending, NEW ack \in Acks, NEW v \in Versions \union {0}, AckStatusCallback(p[1], p[2], ack, v)
      PROVE  OnceInv'
  BY <1>3, OnceAckStatus
<1>4. ASSUME NEW i \in AckSlots, Expire(i) PROVE OnceInv'
  BY <1>4, OnceExpire
<1>5. ASSUME \/ \E v \in Versions : ShadowDelta(v)
             \/ ResetLastReceivedVersion
             \/ \E enable \in BOOLEAN : DiscardOldDeltaMsgs(enable)
             \/ UNCHANGED vars
      PROVE  OnceInv'
  <2>1. UNCHANGED <<AckWaitList, stack, clientTokenNum, pending, tracked, calls>>
    BY <1>5 DEF ShadowDelta, ResetLastReceivedVersion, DiscardOldDeltaMsgs, vars, lists, service, history
  <2> QED BY <2>1, OnceStutter
<1> QED BY <1>1, <1>2, <1>3, <1>4, <1>5, OnceDelta DEF Next

\* Both hold in every reachable state.
LEMMA OnceAlways == CallbackActions = {} => (Spec => [](TypeInv /\ OnceInv))
<1> SUFFICES ASSUME CallbackActions = {} PROVE Spec => [](TypeInv /\ OnceInv)
  OBVIOUS
<1>1. Init => TypeInv /\ OnceInv
  BY TypeInit, OnceInit
<1>2. TypeInv /\ OnceInv /\ [Next]_vars => TypeInv' /\ OnceInv'
  BY TypeNext, OnceNext
<1> QED BY <1>1, <1>2, PTL DEF Spec

\* When the callbacks start no shadow action of their own, no callback is called twice: an action
\* ends with its response or with its timeout, never with both, also when the response arrives
\* while AckStatusCallback or HandleExpiredResponseCallbacks waits for the UNSUBACK of its topics.
THEOREM CalledOnce == CallbackActions = {} => (Spec => []CallbackOnce)
<1> SUFFICES ASSUME CallbackActions = {} PROVE Spec => []CallbackOnce
  OBVIOUS
<1>1. Spec => [](TypeInv /\ OnceInv)
  BY OnceAlways
<1>2. TypeInv /\ OnceInv => CallbackOnce
  BY DEF OnceInv
<1> QED BY <1>1, <1>2, PTL

\* Under the same condition no action that was taken on is lost from AckWaitList before its
\* callback was called, although its place is chosen before the subscribes and taken after them.
THEOREM NeverForgotten == CallbackActions = {} => (Spec => []NotForgotten)
<1> SUFFICES ASSUME CallbackActions = {} PROVE Spec => []NotForgotten
  OBVIOUS
<1>1. Spec => [](TypeInv /\ OnceInv)
  BY OnceAlways
<1>2. TypeInv /\ OnceInv => NotForgotten
  BY DEF OnceInv
<1> QED BY <1>1, <1>2, PTL

-----------------------------------------------------------------------------
(* The reference counts cover every action that waits.                     *)

\* An activation that has released the first topic of entry i.
Done(f, i, ack) == f.fn = "ack" /\ f.index = i /\ f.ack = "rejected" /\ ack = "accepted"

\* An activation that is counted on the topic of key k although its entry is not, or not any more,
\* in AckWaitList.
Due(f, i, k, ack) ==
  /\ f.index = i /\ f.key = k
  /\ \/ f.fn = "expire" /\ f.pc \in {"release", "unsubscribe"} /\ (f.ack = "rejected" => ack = "rejected")
     \/ f.fn = "action" /\ f.pc = "publish"
     \/ f.fn = "action" /\ f.pc = "subscribe" /\ f.ack = "rejected" /\ ack = "accepted"

\* The entries of key k, each with its place, that still have to release the topic.
Owes(k, ack) ==
  {i \in AckSlots :
     \/ /\ ~AckWaitList[i].isFree /\ AckWaitList[i].key = k
        /\ \A d \in 1..Len(stack) : ~Done(stack[d], i, ack)
     \/ \E d \in 1..Len(stack) : Due(stack[d], i, k, ack)}

\* An action that has not subscribed to both of its topics yet.
Opening(f) == f.fn = "action" /\ f.pc = "subscribe"

\* The slot that an action has taken and still has the topic of its last use.
Leftover(s) == \E d \in 1..Len(stack) : Opening(stack[d]) /\ stack[d].ack = "accepted" /\ stack[d].r = s

\* The slots that an action has taken and not subscribed to yet.
Unready(s) ==
  \E d \in 1..Len(stack) :
    Opening(stack[d]) /\ (stack[d].r = s \/ (stack[d].a = s /\ stack[d].ack = "accepted"))

\* A slot in use whose action has subscribed to its topic.
Ready(s) == ~SubscriptionList[s].isFree /\ ~Unready(s)

\* A slot that may hold a topic that nobody has subscribed to.
Stale(s) == SubscriptionList[s].isFree \/ Leftover(s)

\* The slot was last used for this topic of key k.
Holds(s, k, ack) == SubscriptionList[s].topic = <<k, ack>>

\* The count of a slot is at least the number of entries that still have to release its topic: no
\* release of another entry brings it to zero.
CoverInv ==
  \A s \in TopicSlots, k \in Keys, ack \in Acks :
    Ready(s) /\ Holds(s, k, ack) =>
      1 <= SubscriptionList[s].count /\ Cardinality(Owes(k, ack)) <= SubscriptionList[s].count

\* A topic that somebody has to release has a slot.
ThereInv ==
  \A k \in Keys, ack \in Acks : Owes(k, ack) # {} => \E s \in TopicSlots : Ready(s) /\ Holds(s, k, ack)

\* Only the slots of finished subscribes have a handler.
HandlerInv == \A s \in handlers : Ready(s)

\* A topic that is listened to has a slot with a handler that comes before every stale slot of the
\* topic: FindTopic, which does not look at the handlers, cannot find a stale one instead.
FirstInv ==
  \A k \in Keys, ack \in Acks : Hears(<<k, ack>>) =>
    \E s \in handlers : /\ Holds(s, k, ack)
                        /\ \A u \in TopicSlots : Holds(u, k, ack) /\ Stale(u) => s < u

\* What is said of an action that is at its subscribes: no other action of its key is waiting,
\* and no free slot that held one of its topics comes before the one it has taken.
OpenInv(f) ==
  /\ f.a # f.r
  /\ ~SubscriptionList[f.r].isFree
  /\ Owes(f.key, "rejected") = {}
  /\ f.ack = "accepted" => /\ ~SubscriptionList[f.a].isFree
                           /\ Owes(f.key, "accepted") = {}
                           /\ Holds(f.a, f.key, "accepted")
  /\ f.ack = "rejected" => Owes(f.key, "accepted") \subseteq {f.index} /\ Holds(f.r, f.key, "rejected")
  /\ \A u \in TopicSlots : SubscriptionList[u].isFree =>
       /\ f.ack = "accepted" /\ Holds(u, f.key, "accepted") => f.a < u
       /\ Holds(u, f.key, "rejected") => f.r < u

\* It holds for every activation that is at its subscribes.
OpeningInv == \A d \in 1..Len(stack) : Opening(stack[d]) => OpenInv(stack[d])

\* What is said of an activation that waits for the UNSUBACK of a topic: it is the last to use it.
LeaveInv(f) ==
  /\ f.a \in TopicSlots /\ Ready(f.a)
  /\ Holds(f.a, f.key, f.ack)
  /\ SubscriptionList[f.a].count = 1

\* It holds for every activation that waits for an UNSUBACK.
LeavingInv == \A d \in 1..Len(stack) : stack[d].pc = "unsubscribe" => LeaveInv(stack[d])

\* What is said of one activation.
FrameInv(f) ==
  /\ f.pc # "cleanup"
  /\ f.fn = "ack" /\ f.pc # "callback" => f.key = AckWaitList[f.index].key
  /\ f.fn = "expire" /\ f.pc # "callback" => AckWaitList[f.index].isFree
  /\ f.fn \in {"ack", "expire"} => f.pc \in {"callback", "release", "unsubscribe"}
  /\ f.fn = "action" => f.pc \in {"subscribe", "publish"}
  /\ f.fn = "register" => f.pc = "subscribe"

\* It holds for every activation.
FramesInv == \A d \in 1..Len(stack) : FrameInv(stack[d])

\* The invariant that TopicsShared rests on.
ListenInv == CoverInv /\ ThereInv /\ HandlerInv /\ FirstInv /\ OpeningInv /\ LeavingInv /\ FramesInv

\* Sets of places are finite; one element more or less counts.
LEMMA PlacesFinite ==
  ASSUME NEW S, S \subseteq AckSlots
  PROVE  IsFiniteSet(S) /\ Cardinality(S) \in Nat /\ (S = {} => Cardinality(S) = 0)
<1>1. IsFiniteSet(AckSlots)
  <2>1. 1 \in Int /\ MaxAcks \in Int
    BY Constants
  <2> QED BY <2>1, FS_Interval DEF AckSlots
<1>2. IsFiniteSet(S)
  BY <1>1, FS_Subset
<1> QED BY <1>2, FS_CardinalityType, FS_EmptySet

\* A part of a set of places has no more elements.
LEMMA FewerPlaces ==
  ASSUME NEW S, NEW T, S \subseteq T, T \subseteq AckSlots
  PROVE  Cardinality(S) <= Cardinality(T)
<1>1. IsFiniteSet(T) /\ S \in SUBSET T
  BY PlacesFinite
<1> QED BY <1>1, FS_Subset

\* One more place.
LEMMA OnePlaceMore ==
  ASSUME NEW T, T \subseteq AckSlots, NEW x \in AckSlots, NEW S, S \subseteq T \union {x}
  PROVE  Cardinality(S) <= Cardinality(T) + 1
<1>1. IsFiniteSet(T) /\ Cardinality(T) \in Nat
  BY PlacesFinite
<1>2. PICK U : U = T \union {x}
  OBVIOUS
<1>3. Cardinality(U) = IF x \in T THEN Cardinality(T) ELSE Cardinality(T) + 1
  BY <1>1, <1>2, FS_AddElement
<1>4. U \subseteq AckSlots /\ S \subseteq U /\ S \subseteq AckSlots
  BY <1>2
<1>5. Cardinality(S) <= Cardinality(U) /\ Cardinality(S) \in Nat
  BY <1>4, FewerPlaces, PlacesFinite
<1>6. PICK m \in Nat, n \in Nat : m = Cardinality(S) /\ n = Cardinality(T)
  BY <1>1, <1>5
<1>7. m <= n \/ m <= n + 1
  BY <1>3, <1>5, <1>6
<1> QED BY <1>6, <1>7

\* One place less.
LEMMA OnePlaceLess ==
  ASSUME NEW T, T \subseteq AckSlots, NEW x \in T, NEW S, S \subseteq T, x \notin S
  PROVE  Cardinality(S) + 1 <= Cardinality(T)
<1>1. IsFiniteSet(T) /\ Cardinality(T) \in Nat
  BY PlacesFinite
<1>2. PICK U : U = T \ {x}
  OBVIOUS
<1>3. Cardinality(U) = Cardinality(T) - 1
  BY <1>1, <1>2, FS_RemoveElement
<1>4. U \subseteq AckSlots /\ S \subseteq U /\ S \subseteq AckSlots
  BY <1>2
<1>5. Cardinality(S) <= Cardinality(U) /\ Cardinality(S) \in Nat
  BY <1>4, FewerPlaces, PlacesFinite
<1>6. PICK m \in Nat, n \in Nat : m = Cardinality(S) /\ n = Cardinality(T)
  BY <1>1, <1>5
<1>7. m <= n - 1
  BY <1>3, <1>5, <1>6
<1>8. m + 1 <= n
  BY <1>7
<1> QED BY <1>6, <1>8

\* Two places.
LEMMA TwoPlaces ==
  ASSUME NEW T, T \subseteq AckSlots, NEW x \in T, NEW y \in T, x # y
  PROVE  ~(Cardinality(T) <= 1)
<1>1. PICK S : S = {y}
  OBVIOUS
<1>2. S \subseteq T /\ x \notin S
  BY <1>1
<1>3. Cardinality(S) + 1 <= Cardinality(T)
  BY <1>2, OnePlaceLess
<1>4. Cardinality(S) = 1
  BY <1>1, FS_Singleton
<1>5. PICK n \in Nat : n = Cardinality(T)
  BY PlacesFinite
<1>6. 2 <= n
  BY <1>3, <1>4, <1>5
<1> QED BY <1>5, <1>6

\* What an action owes is a set of places.
LEMMA OwesPlaces ==
  /\ \A k \in Keys, ack \in Acks : Owes(k, ack) \subseteq AckSlots
  /\ \A k \in Keys, ack \in Acks : Owes(k, ack)' \subseteq AckSlots
BY DEF Owes

\* The same activations are at their subscribes before and after a step.
SameOpening ==
  /\ \A d \in 1..Len(stack) : Opening(stack[d]) => d \in 1..Len(stack') /\ stack'[d] = stack[d]
  /\ \A d \in 1..Len(stack') : Opening(stack'[d]) => d \in 1..Len(stack) /\ stack'[d] = stack[d]

\* Every slot keeps its topic and stays free or taken.
SameTopics ==
  \A s \in TopicSlots : /\ SubscriptionList'[s].isFree = SubscriptionList[s].isFree
                        /\ SubscriptionList'[s].topic = SubscriptionList[s].topic

\* The slots are as ready as they were.
LEMMA SameReady ==
  ASSUME SameOpening
  PROVE  /\ \A s : Unready(s)' <=> Unready(s)
         /\ \A s : Leftover(s)' <=> Leftover(s)
BY DEF SameOpening, Unready, Leftover

\* The handlers stay at slots that are ready, the first of their topics.
LEMMA TopicsKeep ==
  ASSUME TypeInv, SameOpening, SameTopics, handlers' = handlers, HandlerInv, FirstInv
  PROVE  /\ \A s \in TopicSlots : Ready(s)' <=> Ready(s)
         /\ \A s \in TopicSlots, k \in Keys, ack \in Acks : Holds(s, k, ack)' <=> Holds(s, k, ack)
         /\ HandlerInv' /\ FirstInv'
<1>1. /\ \A s : Unready(s)' <=> Unready(s)
      /\ \A s : Leftover(s)' <=> Leftover(s)
  BY SameReady
<1>2. \A s \in TopicSlots : (Ready(s)' <=> Ready(s)) /\ (Stale(s)' <=> Stale(s))
  BY <1>1 DEF SameTopics, Ready, Stale
<1>3. \A s \in TopicSlots, k \in Keys, ack \in Acks : Holds(s, k, ack)' <=> Holds(s, k, ack)
  BY DEF SameTopics, Holds
<1>4. handlers \subseteq TopicSlots
  BY DEF TypeInv, ListsOK
<1>5. HandlerInv'
  BY <1>2, <1>4 DEF HandlerInv
<1>6. FirstInv'
  <2> SUFFICES ASSUME NEW k \in Keys, NEW ack \in Acks, Hears(<<k, ack>>)'
               PROVE  \E s \in handlers' : /\ Holds(s, k, ack)'
                                           /\ \A u \in TopicSlots : Holds(u, k, ack)' /\ Stale(u)' => s < u
    BY DEF FirstInv
  <2>1. Hears(<<k, ack>>)
    BY <1>4 DEF Hears, SameTopics
  <2>2. PICK s \in handlers : /\ Holds(s, k, ack)
                              /\ \A u \in TopicSlots : Holds(u, k, ack) /\ Stale(u) => s < u
    BY <2>1 DEF FirstInv
  <2> QED BY <1>2, <1>3, <1>4, <2>2
<1> QED BY <1>2, <1>3, <1>5, <1>6

\* A step that lets the actions owe less, and lowers no count unless one action owes its topic
\* no longer.
LEMMA CountsKeep ==
  ASSUME TypeInv, TypeInv', SameOpening, SameTopics, handlers' = handlers,
         CoverInv, ThereInv, HandlerInv, FirstInv, OpeningInv,
         \A k \in Keys, ack \in Acks : Owes(k, ack)' \subseteq Owes(k, ack),
         \A s \in TopicSlots :
           \/ SubscriptionList'[s].count = SubscriptionList[s].count
           \/ \E k \in Keys, ack \in Acks :
                /\ Holds(s, k, ack)
                /\ \E x \in Owes(k, ack) : x \notin Owes(k, ack)'
                /\ SubscriptionList[s].count > 1
                /\ SubscriptionList'[s].count = SubscriptionList[s].count - 1
  PROVE  CoverInv' /\ ThereInv' /\ HandlerInv' /\ FirstInv' /\ OpeningInv'
<1>1. \A s \in TopicSlots : Ready(s)' <=> Ready(s)
  BY TopicsKeep
<1>2. \A s \in TopicSlots, k \in Keys, ack \in Acks : Holds(s, k, ack)' <=> Holds(s, k, ack)
  BY TopicsKeep
<1>3. CoverInv'
  <2> SUFFICES ASSUME NEW s \in TopicSlots, NEW k \in Keys, NEW ack \in Acks, Ready(s)', Holds(s, k, ack)'
               PROVE  1 <= SubscriptionList'[s].count /\ Cardinality(Owes(k, ack)') <= SubscriptionList'[s].count
    BY DEF CoverInv
  <2>1. Ready(s) /\ Holds(s, k, ack)
    BY <1>1, <1>2
  <2>2. PICK T : T = Owes(k, ack)
    OBVIOUS
  <2>3. PICK S : S = Owes(k, ack)'
    OBVIOUS
  <2>4. S \subseteq T /\ T \subseteq AckSlots /\ S \subseteq AckSlots
    BY <2>2, <2>3, OwesPlaces
  <2>5. PICK m \in Nat, n \in Nat : m = Cardinality(S) /\ n = Cardinality(T)
    BY <2>4, PlacesFinite
  <2>6. m <= n
    BY <2>4, <2>5, FewerPlaces
  <2>7. PICK c \in Nat : c = SubscriptionList[s].count
    BY Constants DEF TypeInv, ListsOK, TopicRecords
  <2>8. 1 <= c /\ n <= c
    BY <2>1, <2>2, <2>5, <2>7 DEF CoverInv
  <2>9. CASE SubscriptionList'[s].count = c
    <3>1. m <= c
      BY <2>6, <2>8
    <3> QED BY <2>3, <2>5, <2>8, <2>9, <3>1
  <2>10. CASE SubscriptionList'[s].count # c
    <3>1. PICK kk \in Keys, aa \in Acks :
             /\ Holds(s, kk, aa)
             /\ \E x \in Owes(kk, aa) : x \notin Owes(kk, aa)'
             /\ c > 1
             /\ SubscriptionList'[s].count = c - 1
      BY <2>7, <2>10
    <3>2. kk = k /\ aa = ack
      BY <2>1, <3>1 DEF Holds
    <3>3. PICK x \in T : x \notin S
      BY <2>2, <2>3, <3>1, <3>2
    <3>4. m + 1 <= n
      BY <2>4, <2>5, <3>3, OnePlaceLess
    <3>5. 1 <= c - 1 /\ m <= c - 1
      BY <2>8, <3>1, <3>4
    <3> QED BY <2>3, <2>5, <3>1, <3>5
  <2> QED BY <2>9, <2>10
<1>4. ThereInv'
  <2> SUFFICES ASSUME NEW k \in Keys, NEW ack \in Acks, Owes(k, ack)' # {}
               PROVE  \E s \in TopicSlots : Ready(s)' /\ Holds(s, k, ack)'
    BY DEF ThereInv
  <2>1. Owes(k, ack) # {}
    OBVIOUS
  <2>2. PICK s \in TopicSlots : Ready(s) /\ Holds(s, k, ack)
    BY <2>1 DEF ThereInv
  <2> QED BY <1>1, <1>2, <2>2
<1>5. HandlerInv' /\ FirstInv'
  BY TopicsKeep
<1>6. OpeningInv'
  <2> SUFFICES ASSUME NEW d \in 1..Len(stack'), NEW f, f = stack'[d], Opening(f)
               PROVE  OpenInv(f)'
    BY DEF OpeningInv
  <2>1. d \in 1..Len(stack) /\ stack[d] = f
    BY DEF SameOpening
  <2>2. OpenInv(f)
    BY <2>1 DEF OpeningInv
  <2>3. f.a \in TopicSlots /\ f.r \in TopicSlots /\ f.key \in Keys
    BY <2>1 DEF Opening, TypeInv, StackOK, FrameOK
  <2>4. "accepted" \in Acks /\ "rejected" \in Acks
    BY DEF Acks
  <2>5. /\ Owes(f.key, "accepted")' \subseteq Owes(f.key, "accepted")
        /\ Owes(f.key, "rejected")' \subseteq Owes(f.key, "rejected")
    BY <2>3, <2>4
  <2>6. OpenInv(f)'
    BY <1>2, <2>2, <2>3, <2>4, <2>5 DEF OpenInv, SameTopics
  <2> QED BY <2>6
<1> QED BY <1>3, <1>4, <1>5, <1>6

\* An activation that a step leaves alone.
Kept(d) == d \in 1..Len(stack) /\ stack'[d] = stack[d]

\* No entry is taken or changes its key.
SameKeys ==
  \A i \in AckSlots : /\ AckWaitList'[i].key = AckWaitList[i].key
                      /\ AckWaitList[i].isFree => AckWaitList'[i].isFree

\* What is said of an activation stays true as long as the entries keep their keys.
LEMMA FramesStay ==
  ASSUME TypeInv, SameKeys, FramesInv, \A d \in 1..Len(stack') : Kept(d) \/ \E g : stack'[d] = g /\ FrameInv(g)'
  PROVE  FramesInv'
<1> SUFFICES ASSUME NEW d \in 1..Len(stack'), NEW f, f = stack'[d]
             PROVE  FrameInv(f)'
  BY DEF FramesInv
<1>1. CASE Kept(d)
  <2>1. FrameInv(f)
    BY <1>1 DEF Kept, FramesInv
  <2>2. f.fn \in {"ack", "expire"} => f.index \in AckSlots
    BY <1>1 DEF Kept, TypeInv, StackOK, FrameOK
  <2> QED BY <2>1, <2>2 DEF FrameInv, SameKeys
<1>2. CASE ~Kept(d)
  BY <1>2
<1> QED BY <1>1, <1>2

\* The activations stay in order when all but one are left alone.
LEMMA FramesKeep ==
  ASSUME TypeInv, SameOpening, SameTopics, SameKeys, LeavingInv, FramesInv, NEW g,
         \A d \in 1..Len(stack') :
           Kept(d) \/ (stack'[d] = g /\ FrameInv(g)' /\ (g.pc = "unsubscribe" => LeaveInv(g)')),
         \A s \in TopicSlots : SubscriptionList'[s].count = SubscriptionList[s].count \/ SubscriptionList[s].count > 1
  PROVE  LeavingInv' /\ FramesInv'
<1>1. \A s \in TopicSlots : Ready(s)' <=> Ready(s)
  BY SameReady DEF SameTopics, Ready
<1>2. \A k, ack : \A s \in TopicSlots : Holds(s, k, ack)' <=> Holds(s, k, ack)
  BY DEF SameTopics, Holds
<1>3. LeavingInv'
  <2> SUFFICES ASSUME NEW d \in 1..Len(stack'), NEW f, f = stack'[d], f.pc = "unsubscribe"
               PROVE  LeaveInv(f)'
    BY DEF LeavingInv
  <2>1. CASE Kept(d)
    <3>1. LeaveInv(f)
      BY <2>1 DEF Kept, LeavingInv
    <3>2. ~(SubscriptionList[f.a].count > 1)
      BY <3>1 DEF LeaveInv
    <3> QED BY <1>1, <1>2, <3>1, <3>2 DEF LeaveInv
  <2>2. CASE ~Kept(d)
    BY <2>2
  <2> QED BY <2>1, <2>2
<1>4. FramesInv'
  BY FramesStay
<1> QED BY <1>3, <1>4

\* The actions owe no more than they did, if a released topic stays released as long as the
\* entry lasts, and nobody owes anything new.
LEMMA OwesKeep ==
  ASSUME SameKeys,
         \A d \in 1..Len(stack), i \in AckSlots, ack \in Acks :
           Done(stack[d], i, ack) /\ ~AckWaitList'[i].isFree => \E e \in 1..Len(stack') : Done(stack'[e], i, ack),
         \A d \in 1..Len(stack'), i \in AckSlots, k \in Keys, ack \in Acks :
           Due(stack'[d], i, k, ack) => i \in Owes(k, ack)
  PROVE  \A k \in Keys, ack \in Acks : Owes(k, ack)' \subseteq Owes(k, ack)
<1> SUFFICES ASSUME NEW k \in Keys, NEW ack \in Acks, NEW i \in AckSlots, i \in Owes(k, ack)'
             PROVE  i \in Owes(k, ack)
  BY OwesPlaces
<1>1. CASE /\ ~AckWaitList'[i].isFree /\ AckWaitList'[i].key = k
           /\ \A d \in 1..Len(stack') : ~Done(stack'[d], i, ack)
  <2>1. ~AckWaitList[i].isFree /\ AckWaitList[i].key = k
    BY <1>1 DEF SameKeys
  <2>2. \A d \in 1..Len(stack) : ~Done(stack[d], i, ack)
    BY <1>1
  <2> QED BY <2>1, <2>2 DEF Owes
<1>2. CASE \E d \in 1..Len(stack') : Due(stack'[d], i, k, ack)
  BY <1>2
<1> QED BY <1>1, <1>2 DEF Owes

\* A step that changes neither the slots nor the handlers nor who is subscribing.
LEMMA ListenKeeps ==
  ASSUME TypeInv, TypeInv', ListenInv, SameOpening, SameKeys, UNCHANGED <<SubscriptionList, handlers>>,
         NEW g,
         \A d \in 1..Len(stack') :
           Kept(d) \/ (stack'[d] = g /\ FrameInv(g)' /\ (g.pc = "unsubscribe" => LeaveInv(g)')),
         \A k \in Keys, ack \in Acks : Owes(k, ack)' \subseteq Owes(k, ack)
  PROVE  ListenInv'
<1>1. SameTopics /\ \A s \in TopicSlots : SubscriptionList'[s].count = SubscriptionList[s].count
  BY DEF SameTopics
<1>2. LeavingInv' /\ FramesInv'
  BY <1>1, FramesKeep DEF ListenInv
<1>3. CoverInv' /\ ThereInv' /\ HandlerInv' /\ FirstInv' /\ OpeningInv'
  BY <1>1, CountsKeep DEF ListenInv
<1> QED BY <1>2, <1>3 DEF ListenInv

\* A callback or a registration is called.
LEMMA ListenPush ==
  ASSUME TypeInv, TypeInv', ListenInv, UNCHANGED lists, NEW f \in Frames, stack' = Append(stack, f),
         (f.fn \in {"ack", "expire"} /\ f.pc = "callback") \/ (f.fn = "register" /\ f.pc = "subscribe")
  PROVE  ListenInv'
<1>1. /\ Len(stack) \in Nat /\ Len(stack') = Len(stack) + 1
      /\ \A d \in 1..Len(stack) : stack'[d] = stack[d]
      /\ stack'[Len(stack) + 1] = f
  BY Pushed DEF TypeInv, StackOK
<1>2. /\ \A d \in 1..Len(stack') : d \in 1..Len(stack) \/ d = Len(stack) + 1
      /\ \A d \in 1..Len(stack) : d \in 1..Len(stack')
  BY <1>1
<1>3. \A d \in 1..Len(stack') : Kept(d) \/ stack'[d] = f
  BY <1>1, <1>2 DEF Kept
<1>4. ~Opening(f) /\ FrameInv(f)' /\ f.pc # "unsubscribe"
  BY DEF Opening, FrameInv
<1>5. SameOpening
  BY <1>1, <1>2, <1>3, <1>4 DEF SameOpening, Kept
<1>6. SameKeys
  BY DEF SameKeys, lists
<1>7. \A k \in Keys, ack \in Acks : Owes(k, ack)' \subseteq Owes(k, ack)
  <2>1. \A d \in 1..Len(stack), i \in AckSlots, ack \in Acks :
          Done(stack[d], i, ack) /\ ~AckWaitList'[i].isFree => \E e \in 1..Len(stack') : Done(stack'[e], i, ack)
    BY <1>1, <1>2
  <2>2. \A i, k, ack : ~Due(f, i, k, ack)
    BY DEF Due
  <2>3. \A d \in 1..Len(stack'), i \in AckSlots, k \in Keys, ack \in Acks :
          Due(stack'[d], i, k, ack) => i \in Owes(k, ack)
    BY <1>3, <2>2 DEF Owes, Kept
  <2> QED BY <1>6, <2>1, <2>3, OwesKeep
<1>8. UNCHANGED <<SubscriptionList, handlers>>
  BY DEF lists
<1> QED BY <1>3, <1>4, <1>5, <1>6, <1>7, <1>8, ListenKeeps

\* An action that could not be published, or a registration, returns.
LEMMA ListenPop ==
  ASSUME TypeInv, TypeInv', ListenInv, UNCHANGED lists, stack # <<>>, Pop, Top.fn \in {"action", "register"}, ~Opening(Top)
  PROVE  ListenInv'
<1>1. /\ Len(stack) \in Nat \ {0} /\ Len(stack') = Len(stack) - 1
      /\ \A d \in 1..(Len(stack) - 1) : stack'[d] = stack[d]
      /\ Top = stack[Len(stack)]
  BY Popped, TopType DEF TypeInv, StackOK
<1>2. /\ \A d \in 1..Len(stack') : d \in 1..Len(stack)
      /\ \A d \in 1..Len(stack) : d \in 1..Len(stack') \/ d = Len(stack)
  BY <1>1
<1>3. \A d \in 1..Len(stack') : Kept(d)
  BY <1>1, <1>2 DEF Kept
<1>4. SameOpening
  BY <1>1, <1>2, <1>3 DEF SameOpening, Kept
<1>5. SameKeys
  BY DEF SameKeys, lists
<1>6. \A k \in Keys, ack \in Acks : Owes(k, ack)' \subseteq Owes(k, ack)
  <2>1. \A i, ack : ~Done(Top, i, ack)
    BY DEF Done
  <2>2. \A d \in 1..Len(stack), i \in AckSlots, ack \in Acks :
          Done(stack[d], i, ack) /\ ~AckWaitList'[i].isFree => \E e \in 1..Len(stack') : Done(stack'[e], i, ack)
    BY <1>1, <1>2, <2>1
  <2>3. \A d \in 1..Len(stack'), i \in AckSlots, k \in Keys, ack \in Acks :
          Due(stack'[d], i, k, ack) => i \in Owes(k, ack)
    BY <1>3 DEF Owes, Kept
  <2> QED BY <1>5, <2>2, <2>3, OwesKeep
<1>7. UNCHANGED <<SubscriptionList, handlers>>
  BY DEF lists
<1>8. PICK g : g = Top
  OBVIOUS
<1>9. \A d \in 1..Len(stack') :
        Kept(d) \/ (stack'[d] = g /\ FrameInv(g)' /\ (g.pc = "unsubscribe" => LeaveInv(g)'))
  BY <1>3
<1> QED BY <1>4, <1>5, <1>6, <1>7, <1>9, ListenKeeps

\* Nothing of all this changes.
LEMMA ListenStutter ==
  ASSUME TypeInv, TypeInv', ListenInv, UNCHANGED <<lists, stack>>
  PROVE  ListenInv'
<1>1. SameOpening /\ SameKeys /\ \A d \in 1..Len(stack') : Kept(d)
  BY DEF SameOpening, SameKeys, Kept, lists
<1>2. \A k \in Keys, ack \in Acks : Owes(k, ack)' \subseteq Owes(k, ack)
  BY DEF Owes, lists
<1>3. UNCHANGED <<SubscriptionList, handlers>>
  BY DEF lists
<1>4. PICK g : g = 0
  OBVIOUS
<1>5. \A d \in 1..Len(stack') :
         Kept(d) \/ (stack'[d] = g /\ FrameInv(g)' /\ (g.pc = "unsubscribe" => LeaveInv(g)'))
  BY <1>1
<1> QED BY <1>1, <1>2, <1>3, <1>5, ListenKeeps

\* The innermost activation moves on, and is at no subscribe before or after.
LEMMA TopMoves ==
  ASSUME TypeInv, stack # <<>>, NEW g \in Frames, SetTop(g), ~Opening(Top), ~Opening(g)
  PROVE  /\ SameOpening
         /\ Len(stack) \in 1..Len(stack) /\ Len(stack') = Len(stack)
         /\ Top = stack[Len(stack)] /\ stack'[Len(stack)] = g
         /\ \A d \in 1..Len(stack') : d # Len(stack) => Kept(d)
<1>1. /\ Len(stack) \in Nat \ {0} /\ Len(stack') = Len(stack)
      /\ \A d \in 1..Len(stack) : d # Len(stack) => stack'[d] = stack[d]
      /\ stack'[Len(stack)] = g
  BY TopSet DEF TypeInv, StackOK
<1>2. Top = stack[Len(stack)] /\ Len(stack) \in 1..Len(stack)
  BY TopType DEF TypeInv, StackOK
<1> QED BY <1>1, <1>2 DEF SameOpening, Kept

\* The innermost activation returns, and was at no subscribe.
LEMMA PopMoves ==
  ASSUME TypeInv, stack # <<>>, Pop, ~Opening(Top)
  PROVE  /\ SameOpening
         /\ Len(stack) \in 1..Len(stack) /\ Top = stack[Len(stack)]
         /\ \A d \in 1..Len(stack') : Kept(d) /\ d # Len(stack)
         /\ \A d \in 1..Len(stack) : d # Len(stack) => d \in 1..Len(stack') /\ Kept(d)
<1>1. /\ Len(stack) \in Nat \ {0} /\ Len(stack') = Len(stack) - 1
      /\ \A d \in 1..(Len(stack) - 1) : stack'[d] = stack[d]
      /\ Top = stack[Len(stack)] /\ Len(stack) \in 1..Len(stack)
  BY Popped, TopType DEF TypeInv, StackOK
<1>2. /\ \A d \in 1..Len(stack') : d \in 1..Len(stack) /\ d # Len(stack)
      /\ \A d \in 1..Len(stack) : d \in 1..Len(stack') \/ d = Len(stack)
  BY <1>1
<1>3. \A d \in 1..Len(stack') : Kept(d)
  BY <1>1, <1>2 DEF Kept
<1>4. SameOpening
  BY <1>1, <1>2, <1>3 DEF SameOpening, Kept
<1> QED BY <1>1, <1>2, <1>3, <1>4

\* A response or a timeout that is releasing topics.
Releasing(f) == f.fn \in {"ack", "expire"} /\ f.pc # "callback"

\* Only the outermost activation is an action or a timeout.
LEMMA Outermost ==
  ASSUME TypeInv, OnceInv, NEW d \in 1..Len(stack), stack[d].fn # "ack"
  PROVE  d = 1
<1>1. PICK n \in Nat : n = Len(stack)
  BY DEF TypeInv, StackOK
<1>2. \A e \in 1..n : e = 1 \/ e \in 2..n
  OBVIOUS
<1>3. d \notin 2..Len(stack)
  BY DEF OnceInv, ShapeInv
<1> QED BY <1>1, <1>2, <1>3

\* No two of them release the topics of the same place, and no action has chosen it.
LEMMA Apart ==
  ASSUME TypeInv, OnceInv, FramesInv, NEW d \in 1..Len(stack), NEW e \in 1..Len(stack), d # e,
         Releasing(stack[d]), Releasing(stack[e]) \/ stack[e].fn = "action"
  PROVE  stack[d].index # stack[e].index
<1> SUFFICES ASSUME stack[d].index = stack[e].index PROVE FALSE
  OBVIOUS
<1>1. PICK i : i = stack[d].index /\ i = stack[e].index
  OBVIOUS
<1>2. \A c \in 1..Len(stack) : stack[c].fn = "ack" => ~AckWaitList[stack[c].index].isFree
  BY DEF OnceInv, HeldInv, Held
<1>3. \A c \in 1..Len(stack) : stack[c].fn = "action" => AckWaitList[stack[c].index].isFree
  BY DEF OnceInv, ActionInv
<1>4. \A c \in 1..Len(stack) : stack[c].fn = "expire" /\ stack[c].pc # "callback" => AckWaitList[stack[c].index].isFree
  BY DEF FramesInv, FrameInv
<1>5. CASE stack[d].fn = "ack" /\ stack[e].fn = "ack"
  BY <1>1, <1>5 DEF OnceInv, HeldInv, Held
<1>6. CASE stack[d].fn # "ack" /\ stack[e].fn # "ack"
  BY <1>6, Outermost
<1>7. CASE stack[d].fn = "ack" /\ stack[e].fn # "ack"
  BY <1>1, <1>2, <1>3, <1>4, <1>7 DEF Releasing
<1>8. CASE stack[d].fn # "ack" /\ stack[e].fn = "ack"
  BY <1>1, <1>2, <1>3, <1>4, <1>8 DEF Releasing
<1> QED BY <1>5, <1>6, <1>7, <1>8

\* They owe the topic that they are at.
LEMMA ReleasingOwes ==
  ASSUME TypeInv, OnceInv, FramesInv, NEW d \in 1..Len(stack), Releasing(stack[d]), stack[d].key \in Keys
  PROVE  stack[d].index \in Owes(stack[d].key, stack[d].ack)
<1>1. PICK f : f = stack[d]
  OBVIOUS
<1>2. f.index \in AckSlots /\ FrameInv(f)
  BY <1>1 DEF TypeInv, StackOK, FrameOK, FramesInv, Releasing
<1>3. CASE f.fn = "ack"
  <2>1. ~AckWaitList[f.index].isFree /\ AckWaitList[f.index].key = f.key
    BY <1>1, <1>2, <1>3 DEF OnceInv, HeldInv, Held, FrameInv, Releasing
  <2>2. ASSUME NEW e \in 1..Len(stack), Done(stack[e], f.index, f.ack) PROVE FALSE
    <3>1. stack[e].fn = "ack" /\ stack[e].index = f.index /\ stack[e].ack # f.ack
      BY <2>2 DEF Done
    <3>2. e = d
      BY <1>1, <1>3, <3>1 DEF OnceInv, HeldInv, Held
    <3> QED BY <1>1, <3>1, <3>2
  <2> QED BY <1>1, <1>2, <2>1, <2>2 DEF Owes
<1>4. CASE f.fn = "expire"
  <2>1. f.pc \in {"release", "unsubscribe"}
    BY <1>1, <1>2, <1>4 DEF FrameInv, Releasing
  <2>2. Due(f, f.index, f.key, f.ack)
    BY <1>4, <2>1 DEF Due
  <2> QED BY <1>1, <1>2, <2>2 DEF Owes
<1> QED BY <1>1, <1>3, <1>4 DEF Releasing

\* The application's callback returns.
LEMMA ListenCallbackReturns ==
  ASSUME TypeInv, TypeInv', OnceInv, ListenInv, CallbackReturns
  PROVE  ListenInv'
<1>1. /\ stack # <<>> /\ Top.fn \in {"ack", "expire"} /\ Top.pc = "callback"
      /\ UNCHANGED <<SubscriptionList, handlers>>
  BY DEF CallbackReturns, At
<1>2. PICK f \in Frames : f = Top /\ FrameOK(f, clientTokenNum)
  BY <1>1, TopOK DEF TypeInv
<1>3. f.index \in AckSlots /\ ~Opening(f)
  BY <1>1, <1>2 DEF FrameOK, Opening
<1>4. AckWaitList \in [AckSlots -> AckRecords]
  BY DEF TypeInv, ListsOK
<1>5. PICK key : key = AckWaitList[f.index].key
  OBVIOUS
<1>6. key \in Keys \union {NoKey}
  BY <1>3, <1>4, <1>5 DEF AckRecords
<1>7. PICK g : g = [f EXCEPT !.pc = "release", !.key = key]
  OBVIOUS
<1>8. /\ g \in Frames /\ g.fn = f.fn /\ g.pc = "release" /\ g.key = key /\ g.index = f.index /\ g.ack = f.ack
      /\ ~Opening(g)
  BY <1>1, <1>2, <1>6, <1>7 DEF Frames, Opening
<1>9. SetTop(g) /\ AckWaitList' = IF f.fn = "expire" THEN [AckWaitList EXCEPT ![f.index].isFree = TRUE] ELSE AckWaitList
  BY <1>2, <1>5, <1>7 DEF CallbackReturns
<1>10. /\ SameOpening
       /\ Len(stack) \in 1..Len(stack) /\ Len(stack') = Len(stack)
       /\ f = stack[Len(stack)] /\ stack'[Len(stack)] = g
       /\ \A d \in 1..Len(stack') : d # Len(stack) => Kept(d)
  BY <1>1, <1>2, <1>3, <1>8, <1>9, TopMoves
<1>11. SameKeys /\ (f.fn = "expire" => AckWaitList'[f.index].isFree)
  BY <1>3, <1>4, <1>9 DEF SameKeys, AckRecords
<1>12. FrameInv(g)'
  BY <1>1, <1>2, <1>3, <1>5, <1>8, <1>11 DEF FrameInv, SameKeys
<1>13. \A d \in 1..Len(stack') :
         Kept(d) \/ (stack'[d] = g /\ FrameInv(g)' /\ (g.pc = "unsubscribe" => LeaveInv(g)'))
  BY <1>8, <1>10, <1>12
<1>14. \A k \in Keys, ack \in Acks : Owes(k, ack)' \subseteq Owes(k, ack)
  <2>1. \A i, ack : Done(f, i, ack) => Done(g, i, ack)
    BY <1>8 DEF Done
  <2>2. \A d \in 1..Len(stack), i \in AckSlots, ack \in Acks :
          Done(stack[d], i, ack) /\ ~AckWaitList'[i].isFree => \E e \in 1..Len(stack') : Done(stack'[e], i, ack)
    BY <1>10, <2>1 DEF Kept
  <2>3. ASSUME NEW i \in AckSlots, NEW k \in Keys, NEW ack \in Acks, Due(g, i, k, ack) PROVE i \in Owes(k, ack)
    <3>1. f.fn = "expire" /\ i = f.index /\ k = key
      BY <1>1, <1>2, <1>8, <2>3 DEF Due
    <3>2. Held(f) /\ ~AckWaitList[i].isFree /\ AckWaitList[i].key = k
      BY <1>1, <1>2, <1>5, <1>10, <3>1 DEF Held, OnceInv, HeldInv
    <3>3. ASSUME NEW e \in 1..Len(stack), Done(stack[e], i, ack) PROVE FALSE
      <4>1. Held(stack[e]) /\ stack[e].index = i /\ stack[e].fn = "ack"
        BY <3>3 DEF Done, Held
      <4>2. e = Len(stack)
        BY <1>10, <3>1, <3>2, <4>1 DEF OnceInv, HeldInv
      <4> QED BY <1>10, <3>1, <4>1, <4>2
    <3> QED BY <3>2, <3>3 DEF Owes
  <2>4. \A d \in 1..Len(stack'), i \in AckSlots, k \in Keys, ack \in Acks :
          Due(stack'[d], i, k, ack) => i \in Owes(k, ack)
    BY <1>10, <2>3 DEF Owes, Kept
  <2> QED BY <1>11, <2>2, <2>4, OwesKeep
<1> QED BY <1>1, <1>10, <1>11, <1>13, <1>14, ListenKeeps

\* What the end of a topic's release does to the activations and to what is owed.
LEMMA ReleasedOwes ==
  ASSUME TypeInv, TypeInv', OnceInv, FramesInv, stack # <<>>, NEW f, f = Top, Releasing(f), Released(f)
  PROVE  /\ SameOpening /\ SameKeys
         /\ \A k \in Keys, ack \in Acks : Owes(k, ack)' \subseteq Owes(k, ack)
         /\ f.key \in Keys => f.index \in Owes(f.key, f.ack) /\ f.index \notin Owes(f.key, f.ack)'
         /\ \E g : \A d \in 1..Len(stack') :
              Kept(d) \/ (stack'[d] = g /\ FrameInv(g)' /\ (g.pc = "unsubscribe" => LeaveInv(g)'))
         /\ \A d \in 1..Len(stack') : stack'[d].pc = "unsubscribe" => Kept(d) /\ d # Len(stack)
<1>1. f \in Frames /\ FrameOK(f, clientTokenNum) /\ f = stack[Len(stack)] /\ Len(stack) \in 1..Len(stack)
  BY TopOK DEF TypeInv
<1>2. f.index \in AckSlots /\ ~Opening(f) /\ f.ack \in Acks /\ f.fn \in {"ack", "expire"} /\ FrameInv(f)
  BY <1>1 DEF FrameOK, Opening, Frames, Releasing, FramesInv
<1>3. AckWaitList \in [AckSlots -> AckRecords]
  BY DEF TypeInv, ListsOK
<1>4. f.key \in Keys => f.index \in Owes(f.key, f.ack)
  BY <1>1, ReleasingOwes
<1>5. ASSUME NEW d \in 1..Len(stack), d # Len(stack) PROVE \A k, ack : ~Due(stack[d], f.index, k, ack)
  <2> SUFFICES ASSUME NEW k, NEW ack, Due(stack[d], f.index, k, ack) PROVE FALSE
    OBVIOUS
  <2>1. Releasing(stack[d]) \/ stack[d].fn = "action"
    BY DEF Due, Releasing
  <2>2. stack[d].index = f.index
    BY DEF Due
  <2> QED BY <1>1, <1>5, <2>1, <2>2, Apart
<1>6. f.fn = "expire" => AckWaitList[f.index].isFree
  BY <1>1, <1>2 DEF FrameInv, Releasing
<1>7. CASE f.ack = "accepted"
  <2>1. PICK g : g = [f EXCEPT !.pc = "release", !.ack = "rejected"]
    OBVIOUS
  <2>2. /\ g \in Frames /\ g.fn = f.fn /\ g.pc = "release" /\ g.key = f.key /\ g.index = f.index
        /\ g.ack = "rejected" /\ ~Opening(g)
    BY <1>1, <1>2, <2>1 DEF Frames, Acks, Opening
  <2>3. SetTop(g) /\ AckWaitList' = AckWaitList
    BY <1>1, <1>7, <2>1 DEF Released
  <2>4. /\ SameOpening
        /\ Len(stack') = Len(stack)
        /\ stack'[Len(stack)] = g
        /\ \A d \in 1..Len(stack') : d # Len(stack) => Kept(d)
    BY <1>1, <1>2, <2>2, <2>3, TopMoves
  <2>5. SameKeys
    BY <2>3 DEF SameKeys
  <2>6. FrameInv(g)'
    BY <1>1, <1>2, <2>2, <2>3 DEF FrameInv, Releasing
  <2>7. \A d \in 1..Len(stack') :
          Kept(d) \/ (stack'[d] = g /\ FrameInv(g)' /\ (g.pc = "unsubscribe" => LeaveInv(g)'))
    BY <2>2, <2>4, <2>6
  <2>8. \A d \in 1..Len(stack') : stack'[d].pc = "unsubscribe" => Kept(d) /\ d # Len(stack)
    BY <2>2, <2>4
  <2>9. \A k \in Keys, ack \in Acks : Owes(k, ack)' \subseteq Owes(k, ack)
    <3>1. \A i, ack : ~Done(f, i, ack)
      BY <1>7 DEF Done
    <3>2. \A d \in 1..Len(stack), i \in AckSlots, ack \in Acks :
            Done(stack[d], i, ack) /\ ~AckWaitList'[i].isFree => \E e \in 1..Len(stack') : Done(stack'[e], i, ack)
      BY <1>1, <2>4, <3>1 DEF Kept
    <3>3. ASSUME NEW i, NEW k, NEW ack, Due(g, i, k, ack) PROVE Due(f, i, k, ack)
      BY <1>1, <1>2, <1>7, <2>2, <3>3 DEF Due, FrameInv, Releasing
    <3>4. \A d \in 1..Len(stack'), i \in AckSlots, k \in Keys, ack \in Acks :
            Due(stack'[d], i, k, ack) => i \in Owes(k, ack)
      BY <1>1, <2>4, <3>3 DEF Owes, Kept
    <3> QED BY <2>5, <3>2, <3>4, OwesKeep
  <2>10. ASSUME f.index \in Owes(f.key, f.ack)' PROVE FALSE
    <3>1. CASE /\ ~AckWaitList'[f.index].isFree
               /\ \A d \in 1..Len(stack') : ~Done(stack'[d], f.index, f.ack)
      <4>1. f.fn = "ack"
        BY <1>2, <1>6, <2>3, <3>1
      <4>2. Done(g, f.index, f.ack)
        BY <1>7, <2>2, <4>1 DEF Done
      <4> QED BY <1>1, <2>4, <3>1, <4>2
    <3>2. CASE \E d \in 1..Len(stack') : Due(stack'[d], f.index, f.key, f.ack)
      <4>1. PICK d \in 1..Len(stack') : Due(stack'[d], f.index, f.key, f.ack)
        BY <3>2
      <4>2. d = Len(stack)
        BY <1>5, <2>4, <4>1 DEF Kept
      <4>3. Due(g, f.index, f.key, "accepted")
        BY <1>7, <2>4, <4>1, <4>2
      <4> QED BY <1>2, <2>2, <4>3 DEF Due
    <3> QED BY <2>10, <3>1, <3>2 DEF Owes
  <2> QED BY <1>1, <1>4, <2>4, <2>5, <2>7, <2>8, <2>9, <2>10
<1>8. CASE f.ack = "rejected"
  <2>1. Pop /\ AckWaitList' = IF f.fn = "ack" THEN [AckWaitList EXCEPT ![f.index].isFree = TRUE] ELSE AckWaitList
    BY <1>1, <1>8 DEF Released
  <2>2. /\ SameOpening
        /\ \A d \in 1..Len(stack') : Kept(d) /\ d # Len(stack)
        /\ \A d \in 1..Len(stack) : d # Len(stack) => d \in 1..Len(stack') /\ Kept(d)
    BY <1>1, <1>2, <2>1, PopMoves
  <2>3. SameKeys /\ AckWaitList'[f.index].isFree
    BY <1>2, <1>3, <1>6, <2>1 DEF SameKeys, AckRecords
  <2>4. \A k \in Keys, ack \in Acks : Owes(k, ack)' \subseteq Owes(k, ack)
    <3>1. \A i, ack : Done(f, i, ack) => i = f.index
      BY DEF Done
    <3>2. \A d \in 1..Len(stack), i \in AckSlots, ack \in Acks :
            Done(stack[d], i, ack) /\ ~AckWaitList'[i].isFree => \E e \in 1..Len(stack') : Done(stack'[e], i, ack)
      BY <1>1, <2>2, <2>3, <3>1 DEF Kept
    <3>3. \A d \in 1..Len(stack'), i \in AckSlots, k \in Keys, ack \in Acks :
            Due(stack'[d], i, k, ack) => i \in Owes(k, ack)
      BY <2>2 DEF Owes, Kept
    <3> QED BY <2>3, <3>2, <3>3, OwesKeep
  <2>5. ASSUME f.index \in Owes(f.key, f.ack)' PROVE FALSE
    <3>1. PICK d \in 1..Len(stack') : Due(stack'[d], f.index, f.key, f.ack)
      BY <2>3, <2>5 DEF Owes
    <3> QED BY <1>5, <2>2, <3>1 DEF Kept
  <2> QED BY <1>1, <1>4, <2>2, <2>3, <2>4, <2>5
<1> QED BY <1>2, <1>7, <1>8 DEF Acks

\* The lowest of a set of slots is below the others.
LEMMA LowestLeast ==
  ASSUME NEW slots, slots \subseteq Nat, slots # {}
  PROVE  Lowest(slots) \in slots /\ \A j \in slots : Lowest(slots) <= j
<1>1. \E i \in slots : \A j \in slots : i <= j
  BY LeastElement
<1> QED BY <1>1 DEF Lowest

\* The slot that FindTopic finds is the lowest with the topic.
LEMMA FoundTopic ==
  ASSUME NEW topic, NEW i, i = FindTopic(topic), i # 0
  PROVE  /\ i \in TopicSlots /\ ~SubscriptionList[i].isFree /\ SubscriptionList[i].topic = topic
         /\ \A j \in TopicSlots : ~SubscriptionList[j].isFree /\ SubscriptionList[j].topic = topic => i <= j
<1> DEFINE S == {j \in TopicSlots : ~SubscriptionList[j].isFree /\ SubscriptionList[j].topic = topic}
<1>1. S \subseteq Nat /\ i = Lowest(S)
  BY Constants DEF TopicSlots, FindTopic
<1> HIDE DEF S
<1>2. S # {}
  BY <1>1 DEF Lowest
<1>3. i \in S /\ \A j \in S : i <= j
  BY <1>1, <1>2, LowestLeast
<1> QED BY <1>3 DEF S

\* A slot whose topic has a key and an acknowledgement has a key of Keys.
LEMMA TopicHasKey ==
  ASSUME TypeInv, NEW i \in TopicSlots, NEW k, NEW ack, SubscriptionList[i].topic = <<k, ack>>
  PROVE  k \in Keys /\ ack \in Acks
<1>1. PICK t : t = SubscriptionList[i].topic
  OBVIOUS
<1>2. t \in (Keys \X Acks) \union {NoTopic}
  BY <1>1 DEF TypeInv, ListsOK, TopicRecords
<1>3. t = <<k, ack>> /\ t # NoTopic
  BY <1>1 DEF NoTopic
<1> QED BY <1>2, <1>3

\* The slot that a release finds has a topic that is subscribed to.
LEMMA FoundReady ==
  ASSUME TypeInv, FirstInv, OpeningInv, HandlerInv, NEW k \in Keys, NEW ack \in Acks, Hears(<<k, ack>>),
         Owes(k, ack) # {}, NEW i \in TopicSlots, i = FindTopic(<<k, ack>>), i # 0
  PROVE  Ready(i)
<1>1. /\ ~SubscriptionList[i].isFree /\ Holds(i, k, ack)
      /\ \A j \in TopicSlots : ~SubscriptionList[j].isFree /\ SubscriptionList[j].topic = <<k, ack>> => i <= j
  BY FoundTopic DEF Holds
<1>2. SUFFICES ASSUME Unready(i) PROVE FALSE
  BY <1>1 DEF Ready
<1>3. PICK d \in 1..Len(stack) :
         Opening(stack[d]) /\ (stack[d].r = i \/ (stack[d].a = i /\ stack[d].ack = "accepted"))
  BY <1>2 DEF Unready
<1>4. PICK o : o = stack[d]
  OBVIOUS
<1>5. OpenInv(o) /\ o.ack \in Acks
  <2>1. o \in Frames
    BY <1>4 DEF TypeInv, StackOK
  <2> QED BY <1>3, <1>4, <2>1 DEF OpeningInv, Frames
<1>6. CASE o.a = i /\ o.ack = "accepted"
  <2>1. Holds(i, o.key, "accepted") /\ Owes(o.key, "accepted") = {}
    BY <1>5, <1>6 DEF OpenInv
  <2>2. o.key = k /\ "accepted" = ack
    BY <1>1, <2>1 DEF Holds
  <2> QED BY <2>1, <2>2
<1>7. CASE o.r = i /\ o.ack = "rejected"
  <2>1. Holds(i, o.key, "rejected") /\ Owes(o.key, "rejected") = {}
    BY <1>5, <1>7 DEF OpenInv
  <2>2. o.key = k /\ "rejected" = ack
    BY <1>1, <2>1 DEF Holds
  <2> QED BY <2>1, <2>2
<1>8. CASE o.r = i /\ o.ack = "accepted"
  <2>1. Stale(i)
    BY <1>3, <1>4, <1>8 DEF Stale, Leftover
  <2>2. PICK s \in handlers : /\ Holds(s, k, ack)
                              /\ \A u \in TopicSlots : Holds(u, k, ack) /\ Stale(u) => s < u
    BY DEF FirstInv
  <2>3. s < i /\ s \in TopicSlots
    BY <1>1, <2>1, <2>2 DEF TypeInv, ListsOK
  <2>4. i <= s
    BY <1>1, <2>2, <2>3 DEF HandlerInv, Ready, Holds
  <2>5. s \in Nat /\ i \in Nat
    BY <2>3, Constants DEF TopicSlots
  <2> QED BY <2>3, <2>4, <2>5
<1> QED BY <1>3, <1>4, <1>5, <1>6, <1>7, <1>8 DEF Acks

\* A topic is released, up to the unsubscribe if there is one.
LEMMA ListenRelease ==
  ASSUME TypeInv, TypeInv', OnceInv, ListenInv, Release
  PROVE  ListenInv'
<1>1. stack # <<>> /\ Top.fn \in {"ack", "expire"} /\ Top.pc = "release" /\ handlers' = handlers
  BY DEF Release, At
<1>2. PICK f \in Frames : f = Top /\ FrameOK(f, clientTokenNum) /\ f = stack[Len(stack)] /\ Len(stack) \in 1..Len(stack)
  BY <1>1, TopOK DEF TypeInv
<1>3. f.index \in AckSlots /\ ~Opening(f) /\ f.ack \in Acks /\ Releasing(f) /\ FrameInv(f)
  BY <1>1, <1>2 DEF FrameOK, Opening, Releasing, Frames, ListenInv, FramesInv
<1>4. PICK i : i = FindTopic(<<f.key, f.ack>>)
  OBVIOUS
<1>5. i # 0 => /\ i \in TopicSlots /\ ~SubscriptionList[i].isFree /\ Holds(i, f.key, f.ack) /\ f.key \in Keys
               /\ SubscriptionList[i] \in TopicRecords
  <2> SUFFICES ASSUME i # 0
               PROVE  /\ i \in TopicSlots /\ ~SubscriptionList[i].isFree /\ Holds(i, f.key, f.ack) /\ f.key \in Keys
                      /\ SubscriptionList[i] \in TopicRecords
    OBVIOUS
  <2>1. i \in TopicSlots /\ ~SubscriptionList[i].isFree /\ SubscriptionList[i].topic = <<f.key, f.ack>>
    BY <1>4, FoundTopic
  <2> QED BY <2>1, TopicHasKey DEF Holds, TypeInv, ListsOK
<1>6. \/ /\ i # 0 /\ LastUse(i) /\ Hears(<<f.key, f.ack>>)
         /\ SetTop([f EXCEPT !.pc = "unsubscribe", !.a = i])
         /\ UNCHANGED <<AckWaitList, SubscriptionList>>
      \/ /\ i # 0 /\ SubscriptionList[i].count > 1
         /\ SubscriptionList' = [SubscriptionList EXCEPT ![i].count = @ - 1]
         /\ Released(f)
      \/ Released(f) /\ UNCHANGED SubscriptionList
  BY <1>2, <1>4 DEF Release
<1>7. ASSUME Released(f)
      PROVE  /\ SameOpening /\ SameKeys
             /\ \A k \in Keys, ack \in Acks : Owes(k, ack)' \subseteq Owes(k, ack)
             /\ f.key \in Keys => f.index \in Owes(f.key, f.ack) /\ f.index \notin Owes(f.key, f.ack)'
             /\ \E g : \A d \in 1..Len(stack') :
                  Kept(d) \/ (stack'[d] = g /\ FrameInv(g)' /\ (g.pc = "unsubscribe" => LeaveInv(g)'))
  BY <1>1, <1>2, <1>3, <1>7, ReleasedOwes DEF ListenInv
<1>8. CASE Released(f) /\ UNCHANGED SubscriptionList
  BY <1>1, <1>7, <1>8, ListenKeeps
<1>9. CASE /\ i # 0 /\ SubscriptionList[i].count > 1
           /\ SubscriptionList' = [SubscriptionList EXCEPT ![i].count = @ - 1]
           /\ Released(f)
  <2>1. SubscriptionList \in [TopicSlots -> TopicRecords]
    BY DEF TypeInv, ListsOK
  <2>2. /\ SameTopics
        /\ SubscriptionList'[i].count = SubscriptionList[i].count - 1
        /\ \A s \in TopicSlots : s # i => SubscriptionList'[s].count = SubscriptionList[s].count
    BY <1>5, <1>9, <2>1 DEF SameTopics, TopicRecords
  <2>3. \A s \in TopicSlots :
           \/ SubscriptionList'[s].count = SubscriptionList[s].count
           \/ \E k \in Keys, ack \in Acks :
                /\ Holds(s, k, ack)
                /\ \E x \in Owes(k, ack) : x \notin Owes(k, ack)'
                /\ SubscriptionList[s].count > 1
                /\ SubscriptionList'[s].count = SubscriptionList[s].count - 1
    <3> SUFFICES ASSUME NEW s \in TopicSlots, s = i
                 PROVE  \E k \in Keys, ack \in Acks :
                           /\ Holds(s, k, ack)
                           /\ \E x \in Owes(k, ack) : x \notin Owes(k, ack)'
                           /\ SubscriptionList[s].count > 1
                           /\ SubscriptionList'[s].count = SubscriptionList[s].count - 1
      BY <2>2
    <3>1. PICK k \in Keys, ack \in Acks : k = f.key /\ ack = f.ack
      BY <1>3, <1>5, <1>9
    <3>2. \E x \in Owes(k, ack) : x \notin Owes(k, ack)'
      BY <1>7, <1>9, <3>1
    <3> QED BY <1>5, <1>9, <2>2, <3>1, <3>2
  <2>4. CoverInv' /\ ThereInv' /\ HandlerInv' /\ FirstInv' /\ OpeningInv'
    BY <1>1, <1>7, <1>9, <2>2, <2>3, CountsKeep DEF ListenInv
  <2>5. \A s \in TopicSlots : SubscriptionList'[s].count = SubscriptionList[s].count \/ SubscriptionList[s].count > 1
    BY <1>9, <2>2
  <2>6. LeavingInv' /\ FramesInv'
    BY <1>7, <1>9, <2>2, <2>5, FramesKeep DEF ListenInv
  <2> QED BY <2>4, <2>6 DEF ListenInv
<1>10. CASE /\ i # 0 /\ LastUse(i) /\ Hears(<<f.key, f.ack>>)
            /\ SetTop([f EXCEPT !.pc = "unsubscribe", !.a = i])
            /\ UNCHANGED <<AckWaitList, SubscriptionList>>
  <2>1. PICK g : g = [f EXCEPT !.pc = "unsubscribe", !.a = i]
    OBVIOUS
  <2>2. i \in TopicSlots /\ f.key \in Keys /\ Holds(i, f.key, f.ack)
    BY <1>5, <1>10
  <2>3. /\ g \in Frames /\ g.fn = f.fn /\ g.pc = "unsubscribe" /\ g.key = f.key /\ g.index = f.index
        /\ g.ack = f.ack /\ g.a = i /\ ~Opening(g)
    BY <1>2, <2>1, <2>2 DEF Frames, Opening
  <2>4. /\ SameOpening
        /\ Len(stack') = Len(stack)
        /\ stack'[Len(stack)] = g
        /\ \A d \in 1..Len(stack') : d # Len(stack) => Kept(d)
    BY <1>1, <1>2, <1>3, <1>10, <2>1, <2>3, TopMoves
  <2>5. SameKeys
    BY <1>10 DEF SameKeys
  <2>6. \A k \in Keys, ack \in Acks : Owes(k, ack)' \subseteq Owes(k, ack)
    <3>1. \A j, ack : Done(f, j, ack) => Done(g, j, ack)
      BY <2>3 DEF Done
    <3>2. \A d \in 1..Len(stack), j \in AckSlots, ack \in Acks :
            Done(stack[d], j, ack) /\ ~AckWaitList'[j].isFree => \E e \in 1..Len(stack') : Done(stack'[e], j, ack)
      BY <1>2, <2>4, <3>1 DEF Kept
    <3>3. \A j, k, ack : Due(g, j, k, ack) => Due(f, j, k, ack)
      BY <1>1, <1>2, <2>3 DEF Due
    <3>4. \A d \in 1..Len(stack'), j \in AckSlots, k \in Keys, ack \in Acks :
            Due(stack'[d], j, k, ack) => j \in Owes(k, ack)
      BY <1>2, <2>4, <3>3 DEF Owes, Kept
    <3> QED BY <2>5, <3>2, <3>4, OwesKeep
  <2>7. FrameInv(g)'
    BY <1>1, <1>2, <1>3, <1>10, <2>3 DEF FrameInv
  <2>8. LeaveInv(g)'
    <3>1. Owes(f.key, f.ack) # {}
      BY <1>2, <1>3, <2>2, ReleasingOwes DEF ListenInv
    <3>2. Ready(i)
      BY <1>3, <1>4, <1>10, <2>2, <3>1, FoundReady DEF ListenInv
    <3>3. SubscriptionList[i].count = 1
      BY <1>10 DEF LastUse
    <3>4. Ready(i)'
      BY <1>10, <2>4, <3>2, SameReady DEF Ready
    <3> QED BY <1>10, <2>2, <2>3, <3>3, <3>4 DEF LeaveInv, Holds
  <2>9. \A d \in 1..Len(stack') :
          Kept(d) \/ (stack'[d] = g /\ FrameInv(g)' /\ (g.pc = "unsubscribe" => LeaveInv(g)'))
    BY <2>4, <2>7, <2>8
  <2>10. UNCHANGED <<SubscriptionList, handlers>>
    BY <1>1, <1>10
  <2> QED BY <2>4, <2>5, <2>6, <2>9, <2>10, ListenKeeps
<1> QED BY <1>6, <1>8, <1>9, <1>10

\* No action that waits for its response before and after a step loses one of its topics by it.
Stays ==
  \A i \in Awaiting \intersect Awaiting', ack \in Acks : HearsAck(i, ack) => HearsAck(i, ack)'

\* Handlers that keep their slots, with the topics in them, keep hearing.
LEMMA HandlersStay ==
  ASSUME handlers \subseteq handlers', \A s \in handlers : SubscriptionList'[s].topic = SubscriptionList[s].topic,
         \A i \in Awaiting \intersect Awaiting' : AckWaitList'[i].key = AckWaitList[i].key
  PROVE  Stays
BY DEF Stays, HearsAck, Hears

\* Entries that keep their keys, too.
LEMMA KeysStay ==
  ASSUME SameKeys
  PROVE  \A i \in Awaiting \intersect Awaiting' : AckWaitList'[i].key = AckWaitList[i].key
BY DEF SameKeys, Awaiting

\* The unsubscribe of a topic returns: it was the last to use the topic, so that nobody else waits
\* for a response on it.
LEMMA ListenUnsubscribed ==
  ASSUME TypeInv, TypeInv', OnceInv, ListenInv, Unsubscribed
  PROVE  ListenInv' /\ Stays
<1>1. stack # <<>> /\ Top.fn \in {"ack", "expire"} /\ Top.pc = "unsubscribe"
  BY DEF Unsubscribed, At
<1>2. PICK f \in Frames : f = Top /\ FrameOK(f, clientTokenNum) /\ f = stack[Len(stack)] /\ Len(stack) \in 1..Len(stack)
  BY <1>1, TopOK DEF TypeInv
<1>3. f.index \in AckSlots /\ ~Opening(f) /\ Releasing(f) /\ FrameInv(f) /\ LeaveInv(f)
  BY <1>1, <1>2 DEF FrameOK, Opening, Releasing, ListenInv, FramesInv, LeavingInv
<1>4. f.a \in TopicSlots /\ Ready(f.a) /\ Holds(f.a, f.key, f.ack) /\ SubscriptionList[f.a].count = 1
  BY <1>3 DEF LeaveInv
<1>5. f.key \in Keys /\ f.ack \in Acks
  BY <1>4, TopicHasKey DEF Holds
<1>6. PICK key \in Keys, ack \in Acks, a \in TopicSlots : key = f.key /\ ack = f.ack /\ a = f.a
  BY <1>4, <1>5
<1>7. /\ SameOpening /\ SameKeys
      /\ \A k \in Keys, aa \in Acks : Owes(k, aa)' \subseteq Owes(k, aa)
      /\ f.index \in Owes(key, ack) /\ f.index \notin Owes(key, ack)'
      /\ \E g : \A d \in 1..Len(stack') :
           Kept(d) \/ (stack'[d] = g /\ FrameInv(g)' /\ (g.pc = "unsubscribe" => LeaveInv(g)'))
      /\ \A d \in 1..Len(stack') : stack'[d].pc = "unsubscribe" => Kept(d) /\ d # Len(stack)
  <2>1. Released(f)
    BY <1>2 DEF Unsubscribed
  <2> QED BY <1>1, <1>2, <1>3, <1>5, <1>6, <2>1, ReleasedOwes DEF ListenInv
<1>8. \A x \in Owes(key, ack) : x = f.index
  <2> SUFFICES ASSUME NEW x \in Owes(key, ack), x # f.index PROVE FALSE
    OBVIOUS
  <2>1. PICK T : T = Owes(key, ack)
    OBVIOUS
  <2>2. T \subseteq AckSlots /\ x \in T /\ f.index \in T
    BY <1>7, <2>1, OwesPlaces
  <2>3. Cardinality(T) <= 1
    BY <1>4, <1>6, <2>1 DEF ListenInv, CoverInv
  <2> QED BY <2>2, <2>3, TwoPlaces
<1>9. CASE UNCHANGED <<handlers, SubscriptionList>>
  <2>1. ListenInv'
    BY <1>7, <1>9, ListenKeeps
  <2>2. Stays
    BY <1>7, <1>9, HandlersStay, KeysStay
  <2> QED BY <2>1, <2>2
<1>10. CASE /\ handlers' = HandlersWithout(<<key, ack>>)
            /\ SubscriptionList' = [SubscriptionList EXCEPT ![a].isFree = TRUE]
  <2>1. /\ SubscriptionList'[a].isFree
        /\ \A s \in TopicSlots : /\ s # a => SubscriptionList'[s].isFree = SubscriptionList[s].isFree
                                 /\ SubscriptionList'[s].topic = SubscriptionList[s].topic
                                 /\ SubscriptionList'[s].count = SubscriptionList[s].count
    <3>1. SubscriptionList \in [TopicSlots -> TopicRecords]
      BY DEF TypeInv, ListsOK
    <3> QED BY <1>10, <3>1 DEF TopicRecords
  <2>2. \A s \in TopicSlots, k \in Keys, aa \in Acks : Holds(s, k, aa)' <=> Holds(s, k, aa)
    BY <2>1 DEF Holds
  <2>3. (\A s : Unready(s)' <=> Unready(s)) /\ (\A s : Leftover(s)' <=> Leftover(s))
    BY <1>7, SameReady
  <2>4. \A s \in TopicSlots : /\ Ready(s)' => Ready(s) /\ s # a
                              /\ s # a /\ Ready(s) => Ready(s)'
                              /\ s # a /\ Stale(s)' => Stale(s)
    BY <2>1, <2>3 DEF Ready, Stale
  <2>5. handlers \subseteq TopicSlots /\ handlers' = {s \in handlers : ~Holds(s, key, ack)}
    BY <1>10 DEF HandlersWithout, Holds, TypeInv, ListsOK
  <2>6. Owes(key, ack)' = {}
    BY <1>7, <1>8
  <2>7. CoverInv'
    <3> SUFFICES ASSUME NEW s \in TopicSlots, NEW k \in Keys, NEW aa \in Acks, Ready(s)', Holds(s, k, aa)'
                 PROVE  1 <= SubscriptionList'[s].count /\ Cardinality(Owes(k, aa)') <= SubscriptionList'[s].count
      BY DEF CoverInv
    <3>1. PICK T : T = Owes(k, aa)
      OBVIOUS
    <3>2. PICK S : S = Owes(k, aa)'
      OBVIOUS
    <3>3. S \subseteq T /\ T \subseteq AckSlots /\ S \subseteq AckSlots
      BY <1>7, <3>1, <3>2, OwesPlaces
    <3>4. SubscriptionList[s].count \in Nat
      BY Constants DEF TypeInv, ListsOK, TopicRecords
    <3>5. PICK m \in Nat, n \in Nat, c \in Nat :
             m = Cardinality(S) /\ n = Cardinality(T) /\ c = SubscriptionList[s].count
      BY <3>3, <3>4, PlacesFinite
    <3>6. m <= n
      BY <3>3, <3>5, FewerPlaces
    <3>7. 1 <= c /\ n <= c
      BY <2>2, <2>4, <3>1, <3>5 DEF ListenInv, CoverInv
    <3>8. m <= c
      BY <3>6, <3>7
    <3> QED BY <2>1, <3>2, <3>5, <3>7, <3>8
  <2>8. ThereInv'
    <3> SUFFICES ASSUME NEW k \in Keys, NEW aa \in Acks, Owes(k, aa)' # {}
                 PROVE  \E s \in TopicSlots : Ready(s)' /\ Holds(s, k, aa)'
      BY DEF ThereInv
    <3>1. Owes(k, aa) # {} /\ ~(k = key /\ aa = ack)
      BY <1>7, <2>6
    <3>2. PICK s \in TopicSlots : Ready(s) /\ Holds(s, k, aa)
      BY <3>1 DEF ListenInv, ThereInv
    <3>3. s # a
      BY <1>4, <1>6, <3>1, <3>2 DEF Holds
    <3> QED BY <2>2, <2>4, <3>2, <3>3
  <2>9. HandlerInv'
    <3>1. \A s \in handlers' : s \in TopicSlots /\ s # a /\ Ready(s)
      BY <1>4, <1>6, <2>5 DEF ListenInv, HandlerInv
    <3> QED BY <2>4, <3>1 DEF HandlerInv
  <2>10. FirstInv'
    <3> SUFFICES ASSUME NEW k \in Keys, NEW aa \in Acks, Hears(<<k, aa>>)'
                 PROVE  \E s \in handlers' : /\ Holds(s, k, aa)'
                                             /\ \A u \in TopicSlots : Holds(u, k, aa)' /\ Stale(u)' => s < u
      BY DEF FirstInv
    <3>1. PICK t \in handlers' : Holds(t, k, aa)'
      BY DEF Hears, Holds
    <3>2. t \in handlers /\ t \in TopicSlots /\ Holds(t, k, aa) /\ ~Holds(t, key, ack)
      BY <2>2, <2>5, <3>1
    <3>3. ~(k = key /\ aa = ack) /\ Hears(<<k, aa>>)
      BY <3>2 DEF Holds, Hears
    <3>4. PICK s \in handlers : /\ Holds(s, k, aa)
                                /\ \A u \in TopicSlots : Holds(u, k, aa) /\ Stale(u) => s < u
      BY <3>3 DEF ListenInv, FirstInv
    <3>5. s \in handlers' /\ s \in TopicSlots
      BY <2>5, <3>3, <3>4 DEF Holds
    <3>6. \A u \in TopicSlots : Holds(u, k, aa) => u # a
      BY <1>4, <1>6, <3>3 DEF Holds
    <3> QED BY <2>2, <2>4, <3>4, <3>5, <3>6
  <2>11. OpeningInv'
    <3> SUFFICES ASSUME NEW d \in 1..Len(stack'), NEW o, o = stack'[d], Opening(o)
                 PROVE  OpenInv(o)'
      BY DEF OpeningInv
    <3>1. d \in 1..Len(stack) /\ stack[d] = o
      BY <1>7 DEF SameOpening
    <3>2. OpenInv(o) /\ o.a \in TopicSlots /\ o.r \in TopicSlots /\ o.key \in Keys
      <4>1. FrameOK(o, clientTokenNum)
        BY <3>1 DEF TypeInv, StackOK
      <4> QED BY <3>1, <4>1 DEF ListenInv, OpeningInv, Opening, FrameOK
    <3>3. "accepted" \in Acks /\ "rejected" \in Acks
      BY DEF Acks
    <3>4. /\ Owes(o.key, "accepted")' \subseteq Owes(o.key, "accepted")
          /\ Owes(o.key, "rejected")' \subseteq Owes(o.key, "rejected")
      BY <1>7, <3>2, <3>3
    <3>5. o.r # a /\ (o.ack = "accepted" => o.a # a)
      BY <1>4, <1>6, <3>1 DEF Ready, Unready
    <3>6. /\ ~Holds(a, o.key, "rejected")
          /\ o.ack = "accepted" => ~Holds(a, o.key, "accepted")
      <4>1. \A aa : Holds(a, o.key, aa) => o.key = key /\ aa = ack
        BY <1>4, <1>6 DEF Holds
      <4>2. Owes(o.key, "rejected") = {} /\ (o.ack = "accepted" => Owes(o.key, "accepted") = {})
        BY <3>2 DEF OpenInv
      <4> QED BY <1>7, <4>1, <4>2
    <3> QED BY <2>1, <2>2, <3>2, <3>3, <3>4, <3>5, <3>6 DEF OpenInv
  <2>12. LeavingInv'
    <3> SUFFICES ASSUME NEW d \in 1..Len(stack'), NEW g, g = stack'[d], g.pc = "unsubscribe"
                 PROVE  LeaveInv(g)'
      BY DEF LeavingInv
    <3>1. d \in 1..Len(stack) /\ stack[d] = g /\ d # Len(stack)
      BY <1>7 DEF Kept
    <3>2. LeaveInv(g) /\ g \in Frames /\ FrameInv(g)
      BY <3>1 DEF ListenInv, LeavingInv, FramesInv, TypeInv, StackOK
    <3>3. g.a \in TopicSlots /\ Ready(g.a) /\ Holds(g.a, g.key, g.ack) /\ SubscriptionList[g.a].count = 1
      BY <3>2 DEF LeaveInv
    <3>4. g.key \in Keys /\ g.ack \in Acks
      BY <3>3, TopicHasKey DEF Holds
    <3>5. ASSUME g.a = a PROVE FALSE
      <4>1. g.key = key /\ g.ack = ack
        BY <1>4, <1>6, <3>3, <3>5 DEF Holds
      <4>2. Releasing(g)
        BY <3>2 DEF Releasing, FrameInv, Frames
      <4>3. g.index \in Owes(key, ack)
        BY <3>1, <3>4, <4>1, <4>2, ReleasingOwes DEF ListenInv
      <4>4. g.index # f.index
        BY <1>2, <1>3, <3>1, <4>2, Apart DEF ListenInv
      <4> QED BY <1>8, <4>3, <4>4
    <3> QED BY <2>1, <2>2, <2>4, <3>3, <3>4, <3>5 DEF LeaveInv
  <2>13. FramesInv'
    BY <1>7, FramesStay DEF ListenInv
  <2>14. Stays
    <3> SUFFICES ASSUME NEW i \in Awaiting, i \in Awaiting', NEW aa \in Acks, HearsAck(i, aa)
                 PROVE  HearsAck(i, aa)'
      BY DEF Stays
    <3>1. PICK k : k = AckWaitList[i].key
      OBVIOUS
    <3>2. i \in AckSlots /\ ~AckWaitList[i].isFree /\ AckWaitList'[i].key = k
      BY <1>7, <3>1 DEF Awaiting, SameKeys
    <3>3. PICK s \in handlers : Holds(s, k, aa)
      BY <3>1 DEF HearsAck, Hears, Holds
    <3>4. ASSUME Holds(s, key, ack) PROVE FALSE
      <4>1. k = key /\ aa = ack
        BY <3>3, <3>4 DEF Holds
      <4>2. \A d \in 1..Len(stack) : stack[d].fn = "ack" => stack[d].index # i
        BY DEF Awaiting, TypeInv, StackOK
      <4>3. \A d \in 1..Len(stack) : ~Done(stack[d], i, ack)
        BY <4>2 DEF Done
      <4>4. i \in Owes(key, ack)
        BY <3>1, <3>2, <4>1, <4>3 DEF Owes
      <4>5. i = f.index
        BY <1>8, <4>4
      <4> QED BY <1>1, <1>2, <1>3, <3>2, <4>2, <4>5 DEF FrameInv
    <3>5. s \in handlers' /\ s \in TopicSlots
      BY <2>5, <3>4
    <3> QED BY <2>1, <3>2, <3>3, <3>5 DEF HearsAck, Hears, Holds
  <2> QED BY <2>7, <2>8, <2>9, <2>10, <2>11, <2>12, <2>13, <2>14 DEF ListenInv
<1> QED BY <1>2, <1>6, <1>9, <1>10 DEF Unsubscribed

\* A slot becomes ready for a topic that nobody waits on yet.
LEMMA SlotReady ==
  ASSUME TypeInv, TypeInv', CoverInv, ThereInv, HandlerInv, FirstInv,
         NEW x \in TopicSlots, NEW key \in Keys, NEW xx \in Acks, NEW idx \in AckSlots,
         handlers' = handlers \union {x}, Holds(x, key, xx)', SubscriptionList'[x].count = 1,
         \A s \in TopicSlots : Ready(s)' <=> (Ready(s) \/ s = x),
         \A s \in TopicSlots : Ready(s) => /\ s # x
                                           /\ SubscriptionList'[s].topic = SubscriptionList[s].topic
                                           /\ SubscriptionList'[s].count = SubscriptionList[s].count,
         \A u \in TopicSlots : Stale(u)' => /\ Stale(u)
                                            /\ SubscriptionList'[u].topic = SubscriptionList[u].topic
                                            /\ Holds(u, key, xx) => x < u,
         Owes(key, xx) = {}, Owes(key, xx)' \subseteq {idx},
         \A k \in Keys, ack \in Acks : ~(k = key /\ ack = xx) => Owes(k, ack)' \subseteq Owes(k, ack)
  PROVE  CoverInv' /\ ThereInv' /\ HandlerInv' /\ FirstInv'
<1>1. \A s \in TopicSlots, k \in Keys, ack \in Acks : Ready(s) => (Holds(s, k, ack)' <=> Holds(s, k, ack))
  BY DEF Holds
<1>2. \A k \in Keys, ack \in Acks : Holds(x, k, ack)' => k = key /\ ack = xx
  BY DEF Holds
<1>3. handlers \subseteq TopicSlots /\ \A s \in handlers : Ready(s)
  BY DEF TypeInv, ListsOK, HandlerInv
<1>4. Cardinality(Owes(key, xx)') <= 1
  <2>1. PICK T : T = {}
    OBVIOUS
  <2>2. PICK S : S = Owes(key, xx)'
    OBVIOUS
  <2>3. T \subseteq AckSlots /\ S \subseteq T \union {idx} /\ Cardinality(T) = 0
    BY <2>1, <2>2, PlacesFinite
  <2>4. Cardinality(S) <= Cardinality(T) + 1
    BY <2>3, OnePlaceMore
  <2> QED BY <2>2, <2>3, <2>4
<1>5. CoverInv'
  <2> SUFFICES ASSUME NEW s \in TopicSlots, NEW k \in Keys, NEW ack \in Acks, Ready(s)', Holds(s, k, ack)'
               PROVE  1 <= SubscriptionList'[s].count /\ Cardinality(Owes(k, ack)') <= SubscriptionList'[s].count
    BY DEF CoverInv
  <2>1. PICK S : S = Owes(k, ack)'
    OBVIOUS
  <2>2. PICK T : T = Owes(k, ack)
    OBVIOUS
  <2>3. S \subseteq AckSlots /\ T \subseteq AckSlots
    BY <2>1, <2>2, OwesPlaces
  <2>4. PICK m \in Nat, n \in Nat : m = Cardinality(S) /\ n = Cardinality(T)
    BY <2>3, PlacesFinite
  <2>5. CASE s = x
    BY <1>2, <1>4, <2>5
  <2>6. CASE s # x
    <3>1. Ready(s) /\ Holds(s, k, ack)
      BY <1>1, <2>6
    <3>2. SubscriptionList[s].count \in Nat
      BY Constants DEF TypeInv, ListsOK, TopicRecords
    <3>3. PICK c \in Nat : c = SubscriptionList[s].count
      BY <3>2
    <3>4. 1 <= c /\ n <= c /\ SubscriptionList'[s].count = c
      BY <2>2, <2>4, <3>1, <3>3 DEF CoverInv
    <3>5. CASE k = key /\ ack = xx
      <4>1. m <= 1
        BY <1>4, <2>1, <2>4, <3>5
      <4>2. m <= c
        BY <3>4, <4>1
      <4> QED BY <2>1, <2>4, <3>4, <4>2
    <3>6. CASE ~(k = key /\ ack = xx)
      <4>1. S \subseteq T
        BY <2>1, <2>2, <3>6
      <4>2. m <= n
        BY <2>3, <2>4, <4>1, FewerPlaces
      <4>3. m <= c
        BY <3>4, <4>2
      <4> QED BY <2>1, <2>4, <3>4, <4>3
    <3> QED BY <3>5, <3>6
  <2> QED BY <2>5, <2>6
<1>6. ThereInv'
  <2> SUFFICES ASSUME NEW k \in Keys, NEW ack \in Acks, Owes(k, ack)' # {}
               PROVE  \E s \in TopicSlots : Ready(s)' /\ Holds(s, k, ack)'
    BY DEF ThereInv
  <2>1. CASE k = key /\ ack = xx
    BY <2>1
  <2>2. CASE ~(k = key /\ ack = xx)
    <3>1. PICK s \in TopicSlots : Ready(s) /\ Holds(s, k, ack)
      BY <2>2 DEF ThereInv
    <3> QED BY <1>1, <3>1
  <2> QED BY <2>1, <2>2
<1>7. HandlerInv'
  BY <1>3 DEF HandlerInv
<1>8. FirstInv'
  <2> SUFFICES ASSUME NEW k \in Keys, NEW ack \in Acks, Hears(<<k, ack>>)'
               PROVE  \E s \in handlers' : /\ Holds(s, k, ack)'
                                           /\ \A u \in TopicSlots : Holds(u, k, ack)' /\ Stale(u)' => s < u
    BY DEF FirstInv
  <2>1. \A u \in TopicSlots : Holds(u, k, ack)' /\ Stale(u)' => Holds(u, k, ack) /\ Stale(u)
    BY DEF Holds
  <2>2. CASE k = key /\ ack = xx
    BY <2>1, <2>2
  <2>3. CASE ~(k = key /\ ack = xx)
    <3>1. PICK t \in handlers' : Holds(t, k, ack)'
      BY DEF Hears, Holds
    <3>2. t \in handlers
      BY <1>2, <2>3, <3>1
    <3>3. Hears(<<k, ack>>)
      BY <1>1, <1>3, <3>1, <3>2 DEF Hears, Holds
    <3>4. PICK s \in handlers : /\ Holds(s, k, ack)
                                /\ \A u \in TopicSlots : Holds(u, k, ack) /\ Stale(u) => s < u
      BY <3>3 DEF FirstInv
    <3>5. Holds(s, k, ack)'
      BY <1>1, <1>3, <3>4
    <3> QED BY <2>1, <3>4, <3>5
  <2> QED BY <2>2, <2>3
<1> QED BY <1>5, <1>6, <1>7, <1>8

\* An action at the bottom of the stack is alone.
LEMMA Alone ==
  ASSUME TypeInv, OnceInv, stack # <<>>, Top.fn # "ack"
  PROVE  Len(stack) = 1 /\ stack[1] = Top /\ 1..Len(stack) = {1}
<1>1. Len(stack) \in Nat \ {0} /\ Len(stack) \in 1..Len(stack) /\ Top = stack[Len(stack)]
  BY TopType DEF TypeInv, StackOK
<1>2. Len(stack) = 1
  BY <1>1, Outermost
<1> QED BY <1>1, <1>2

\* An action is published and takes the place it chose.
LEMMA ListenPublish ==
  ASSUME TypeInv, TypeInv', OnceInv, ListenInv, PublishAction
  PROVE  ListenInv' /\ Stays
<1>1. /\ stack # <<>> /\ Top.fn = "action" /\ Top.pc = "publish" /\ Pop
      /\ UNCHANGED <<SubscriptionList, handlers>>
  BY DEF PublishAction, At
<1>2. PICK f \in Frames : f = Top /\ FrameOK(f, clientTokenNum)
  BY <1>1, TopOK DEF TypeInv
<1>3. Len(stack) = 1 /\ stack[1] = f /\ 1..Len(stack) = {1}
  BY <1>1, <1>2, Alone
<1>4. f.index \in AckSlots /\ AckWaitList[f.index].isFree
  BY <1>1, <1>2, <1>3 DEF OnceInv, ActionInv
<1>5. ~Opening(Top)
  BY <1>1 DEF Opening
<1>6. CASE UNCHANGED AckWaitList
  <2>1. ListenInv'
    BY <1>1, <1>5, <1>6, ListenPop DEF lists
  <2>2. Stays
    BY <1>1, <1>6, HandlersStay
  <2> QED BY <2>1, <2>2
<1>7. CASE AckWaitList' = [AckWaitList EXCEPT ![f.index] = [isFree |-> FALSE, key |-> f.key, token |-> f.token]]
  <2>1. /\ SameOpening
        /\ \A d \in 1..Len(stack') : Kept(d) /\ d # Len(stack)
    BY <1>1, <1>5, PopMoves
  <2>2. 1..Len(stack') = {}
    BY <1>3, <2>1 DEF Kept
  <2>3. \A i \in AckSlots : i # f.index => AckWaitList'[i] = AckWaitList[i]
    BY <1>7 DEF TypeInv, ListsOK
  <2>4. AckWaitList'[f.index].key = f.key
    BY <1>4, <1>7 DEF TypeInv, ListsOK
  <2>5. ASSUME NEW k \in Keys, NEW ack \in Acks, NEW i \in AckSlots, i \in Owes(k, ack)' PROVE i \in Owes(k, ack)
    <3>1. ~AckWaitList'[i].isFree /\ AckWaitList'[i].key = k
      BY <2>2, <2>5 DEF Owes
    <3>2. CASE i = f.index
      <4>1. Due(f, i, k, ack)
        BY <1>1, <1>2, <2>4, <3>1, <3>2 DEF Due
      <4> QED BY <1>3, <4>1 DEF Owes
    <3>3. CASE i # f.index
      <4>1. ~AckWaitList[i].isFree /\ AckWaitList[i].key = k
        BY <2>3, <3>1, <3>3
      <4>2. \A d \in 1..Len(stack) : ~Done(stack[d], i, ack)
        BY <1>1, <1>2, <1>3 DEF Done
      <4> QED BY <4>1, <4>2 DEF Owes
    <3> QED BY <3>2, <3>3
  <2>6. \A k \in Keys, ack \in Acks : Owes(k, ack)' \subseteq Owes(k, ack)
    BY <2>5, OwesPlaces
  <2>7. SameTopics /\ \A s \in TopicSlots : SubscriptionList'[s].count = SubscriptionList[s].count
    BY <1>1 DEF SameTopics
  <2>8. CoverInv' /\ ThereInv' /\ HandlerInv' /\ FirstInv' /\ OpeningInv'
    BY <1>1, <2>1, <2>6, <2>7, CountsKeep DEF ListenInv
  <2>9. LeavingInv' /\ FramesInv'
    BY <2>2 DEF LeavingInv, FramesInv
  <2>10. Stays
    <3>1. \A i \in Awaiting : i \in AckSlots /\ i # f.index
      BY <1>4 DEF Awaiting
    <3>2. \A i \in Awaiting \intersect Awaiting' : AckWaitList'[i].key = AckWaitList[i].key
      BY <2>3, <3>1
    <3> QED BY <1>1, <3>2, HandlersStay
  <2> QED BY <2>8, <2>9, <2>10 DEF ListenInv
<1> QED BY <1>2, <1>6, <1>7 DEF PublishAction

\* The application starts an action that finds its topics subscribed to, and no count wraps.
LEMMA ListenIncrement ==
  ASSUME CallbackActions = {}, TypeInv, TypeInv', ListenInv, NEW key \in Keys, NEW sticky \in BOOLEAN,
         Increment(key, sticky), ~uncovered'
  PROVE  ListenInv' /\ Stays
<1>1. /\ stack = <<>> /\ FreeAck # 0 /\ IsSubscriptionPresent(key)
      /\ UNCHANGED <<AckWaitList, handlers>>
  BY DEF Increment, Start, Callable
<1>2. FreeAck \in AckSlots /\ 1..Len(stack) = {}
  BY <1>1, FreeAckFree
<1>3. PICK f : f = ActionFrame(key, sticky, "publish")
  OBVIOUS
<1>4. /\ f.fn = "action" /\ f.pc = "publish" /\ f.key = key /\ f.index = FreeAck
      /\ ~Opening(f) /\ FrameInv(f)'
  BY <1>3 DEF ActionFrame, NewFrame, Opening, FrameInv
<1>5. stack' = <<f>> /\ 1..Len(stack') = {1} /\ stack'[1] = f
  <2>1. stack' = Append(stack, f)
    BY <1>3 DEF Increment
  <2>2. stack' = <<f>>
    BY <1>1, <2>1
  <2> QED BY <2>2
<1>6. SameOpening
  BY <1>2, <1>4, <1>5 DEF SameOpening
<1>7. SubscriptionList \in [TopicSlots -> TopicRecords]
  BY DEF TypeInv, ListsOK
<1>8. \A s \in TopicSlots :
        /\ SubscriptionList'[s].isFree = SubscriptionList[s].isFree
        /\ SubscriptionList'[s].topic = SubscriptionList[s].topic
        /\ SubscriptionList'[s].count =
             IF ~SubscriptionList[s].isFree /\ SubscriptionList[s].topic \in {key} \X Acks
             THEN SubscriptionList[s].count + 1 ELSE SubscriptionList[s].count
  <2> SUFFICES ASSUME NEW s \in TopicSlots
               PROVE  /\ SubscriptionList'[s].isFree = SubscriptionList[s].isFree
                      /\ SubscriptionList'[s].topic = SubscriptionList[s].topic
                      /\ SubscriptionList'[s].count =
                           IF ~SubscriptionList[s].isFree /\ SubscriptionList[s].topic \in {key} \X Acks
                           THEN SubscriptionList[s].count + 1 ELSE SubscriptionList[s].count
    OBVIOUS
  <2>1. SubscriptionList'[s] =
          IF ~SubscriptionList[s].isFree /\ SubscriptionList[s].topic \in {key} \X Acks
          THEN [SubscriptionList[s] EXCEPT !.count = @ + 1, !.isSticky = sticky]
          ELSE SubscriptionList[s]
    <3>1. SubscriptionList'[s] =
            IF s \in Counting(key)
            THEN [SubscriptionList[s] EXCEPT !.count = Counted(SubscriptionList[s].count), !.isSticky = sticky]
            ELSE SubscriptionList[s]
      BY DEF Increment
    <3>2. s \in Counting(key) <=> ~SubscriptionList[s].isFree /\ SubscriptionList[s].topic \in {key} \X Acks
      BY DEF Counting
    <3>3. s \in Counting(key) => SubscriptionList[s].count # MaxCount
      BY DEF Increment
    <3>4. s \in Counting(key) => Counted(SubscriptionList[s].count) = SubscriptionList[s].count + 1
      BY <3>3 DEF Counted
    <3> QED BY <3>1, <3>2, <3>4
  <2>2. SubscriptionList[s] \in TopicRecords
    BY <1>7
  <2>3. CASE ~SubscriptionList[s].isFree /\ SubscriptionList[s].topic \in {key} \X Acks
    BY <2>1, <2>2, <2>3 DEF TopicRecords
  <2>4. CASE ~(~SubscriptionList[s].isFree /\ SubscriptionList[s].topic \in {key} \X Acks)
    BY <2>1, <2>4
  <2> QED BY <2>3, <2>4
<1>9. SameTopics
  BY <1>8 DEF SameTopics
<1>10. /\ \A s \in TopicSlots : Ready(s)' <=> Ready(s)
       /\ \A s \in TopicSlots, k \in Keys, ack \in Acks : Holds(s, k, ack)' <=> Holds(s, k, ack)
       /\ HandlerInv' /\ FirstInv'
  BY <1>1, <1>6, <1>9, TopicsKeep DEF ListenInv
<1>11. ASSUME NEW k \in Keys, NEW ack \in Acks
       PROVE  /\ Owes(k, ack)' \subseteq Owes(k, ack) \union {FreeAck}
              /\ k # key => Owes(k, ack)' \subseteq Owes(k, ack)
  <2> SUFFICES ASSUME NEW i \in AckSlots, i \in Owes(k, ack)', i \notin Owes(k, ack)
               PROVE  i = FreeAck /\ k = key
    BY OwesPlaces
  <2>1. ~(~AckWaitList[i].isFree /\ AckWaitList[i].key = k)
    BY <1>2 DEF Owes
  <2>2. \E d \in 1..Len(stack') : Due(stack'[d], i, k, ack)
    BY <1>1, <2>1 DEF Owes
  <2>3. Due(f, i, k, ack)
    BY <1>5, <2>2
  <2> QED BY <1>4, <2>3 DEF Due
<1>12. CoverInv'
  <2> SUFFICES ASSUME NEW s \in TopicSlots, NEW k \in Keys, NEW ack \in Acks, Ready(s)', Holds(s, k, ack)'
               PROVE  1 <= SubscriptionList'[s].count /\ Cardinality(Owes(k, ack)') <= SubscriptionList'[s].count
    BY DEF CoverInv
  <2>1. Ready(s) /\ Holds(s, k, ack)
    BY <1>10
  <2>2. PICK T : T = Owes(k, ack)
    OBVIOUS
  <2>3. PICK S : S = Owes(k, ack)'
    OBVIOUS
  <2>4. S \subseteq T \union {FreeAck} /\ T \subseteq AckSlots /\ S \subseteq AckSlots
    BY <1>11, <2>2, <2>3, OwesPlaces
  <2>5. SubscriptionList[s].count \in Nat
    BY <1>7, Constants DEF TopicRecords
  <2>6. PICK m \in Nat, n \in Nat, c \in Nat :
           m = Cardinality(S) /\ n = Cardinality(T) /\ c = SubscriptionList[s].count
    BY <2>4, <2>5, PlacesFinite
  <2>7. 1 <= c /\ n <= c
    BY <2>1, <2>2, <2>6 DEF ListenInv, CoverInv
  <2>8. CASE k = key
    <3>1. ~SubscriptionList[s].isFree /\ SubscriptionList[s].topic \in {key} \X Acks
      BY <2>1, <2>8 DEF Ready, Holds
    <3>2. SubscriptionList'[s].count = c + 1
      BY <1>8, <2>6, <3>1
    <3>3. m <= n + 1
      BY <1>2, <2>4, <2>6, OnePlaceMore
    <3>4. 1 <= c + 1 /\ m <= c + 1
      BY <2>7, <3>3
    <3> QED BY <2>3, <2>6, <3>2, <3>4
  <2>9. CASE k # key
    <3>1. SubscriptionList'[s].count = c
      BY <1>8, <2>1, <2>6, <2>9 DEF Holds
    <3>2. m <= n
      BY <1>11, <2>2, <2>3, <2>4, <2>6, <2>9, FewerPlaces
    <3>3. m <= c
      BY <2>7, <3>2
    <3> QED BY <2>3, <2>6, <2>7, <3>1, <3>3
  <2> QED BY <2>8, <2>9
<1>13. ThereInv'
  <2> SUFFICES ASSUME NEW k \in Keys, NEW ack \in Acks, Owes(k, ack)' # {}
               PROVE  \E s \in TopicSlots : Ready(s)' /\ Holds(s, k, ack)'
    BY DEF ThereInv
  <2>1. CASE k = key
    <3>1. PICK s : s = FindTopic(<<key, ack>>) /\ s # 0
      BY <1>1 DEF IsSubscriptionPresent
    <3>2. s \in TopicSlots /\ ~SubscriptionList[s].isFree /\ SubscriptionList[s].topic = <<key, ack>>
      BY <3>1, FoundTopic
    <3>3. Ready(s) /\ Holds(s, k, ack)
      BY <1>2, <2>1, <3>2 DEF Ready, Unready, Holds
    <3> QED BY <1>10, <3>2, <3>3
  <2>2. CASE k # key
    <3>1. Owes(k, ack) # {}
      BY <1>11, <2>2
    <3>2. PICK s \in TopicSlots : Ready(s) /\ Holds(s, k, ack)
      BY <3>1 DEF ListenInv, ThereInv
    <3> QED BY <1>10, <3>2
  <2> QED BY <2>1, <2>2
<1>14. OpeningInv' /\ LeavingInv' /\ FramesInv'
  BY <1>4, <1>5 DEF OpeningInv, LeavingInv, FramesInv
<1>15. Stays
  <2>1. \A s \in handlers : SubscriptionList'[s].topic = SubscriptionList[s].topic
    BY <1>8 DEF TypeInv, ListsOK
  <2> QED BY <1>1, <2>1, HandlersStay
<1> QED BY <1>10, <1>12, <1>13, <1>14, <1>15 DEF ListenInv

\* While no call is in progress, the actions owe both of their topics.
LEMMA OwesBoth ==
  ASSUME TypeInv, stack = <<>>, NEW k \in Keys, NEW ack \in Acks, NEW ack2 \in Acks
  PROVE  Owes(k, ack) = Owes(k, ack2)
<1>1. 1..Len(stack) = {}
  OBVIOUS
<1> QED BY <1>1 DEF Owes

\* The two slots of an action that subscribes are the lowest free ones.
LEMMA LowestTwo ==
  ASSUME NEW a, a = Lowest({i \in TopicSlots : SubscriptionList[i].isFree}),
         NEW r, r = Lowest({i \in TopicSlots : SubscriptionList[i].isFree} \ {a}), r # 0
  PROVE  /\ a \in TopicSlots /\ r \in TopicSlots /\ a # r
         /\ SubscriptionList[a].isFree /\ SubscriptionList[r].isFree
         /\ \A u \in TopicSlots : SubscriptionList[u].isFree /\ u # a => a < u
         /\ \A u \in TopicSlots : SubscriptionList[u].isFree /\ u # a /\ u # r => r < u
<1> DEFINE S == {i \in TopicSlots : SubscriptionList[i].isFree}
<1>1. S \subseteq Nat /\ S \subseteq TopicSlots /\ a = Lowest(S) /\ r = Lowest(S \ {a})
  BY Constants DEF TopicSlots
<1>2. \A u \in TopicSlots : SubscriptionList[u].isFree <=> u \in S
  OBVIOUS
<1> HIDE DEF S
<1>3. S \ {a} # {}
  BY <1>1 DEF Lowest
<1>4. PICK S2 : S2 = S \ {a}
  OBVIOUS
<1>5. S2 \subseteq Nat /\ S2 # {} /\ S # {}
  BY <1>1, <1>3, <1>4
<1>6. a \in S /\ \A j \in S : a <= j
  BY <1>1, <1>5, LowestLeast
<1>7. r \in S2 /\ \A j \in S2 : r <= j
  BY <1>1, <1>4, <1>5, LowestLeast
<1>8. \A u \in S : u # a => a < u
  <2> SUFFICES ASSUME NEW u \in S, u # a PROVE a < u
    OBVIOUS
  <2>1. a \in Nat /\ u \in Nat
    BY <1>1, <1>6
  <2>2. a <= u
    BY <1>6
  <2> QED BY <2>1, <2>2
<1>9. \A u \in S : u # a /\ u # r => r < u
  <2> SUFFICES ASSUME NEW u \in S, u # a, u # r PROVE r < u
    OBVIOUS
  <2>1. r \in Nat /\ u \in Nat
    BY <1>1, <1>4, <1>7
  <2>2. u \in S2
    BY <1>4
  <2>3. r <= u
    BY <1>7, <2>2
  <2> QED BY <2>1, <2>3
<1> QED BY <1>1, <1>2, <1>4, <1>6, <1>7, <1>8, <1>9

\* The application starts an action that subscribes to its topics.
LEMMA ListenSubscribeAcks ==
  ASSUME CallbackActions = {}, TypeInv, TypeInv', ListenInv, NEW key \in Keys, NEW sticky \in BOOLEAN,
         SubscribeAcks(key, sticky), ~uncovered'
  PROVE  ListenInv' /\ Stays
<1>1. /\ stack = <<>> /\ FreeAck # 0 /\ ~IsSubscriptionPresent(key)
      /\ UNCHANGED <<AckWaitList, handlers>>
  BY DEF SubscribeAcks, Start, Callable
<1>2. 1..Len(stack) = {}
  BY <1>1
<1>3. PICK a : a = Lowest({i \in TopicSlots : SubscriptionList[i].isFree})
  OBVIOUS
<1>4. PICK r : r = Lowest({i \in TopicSlots : SubscriptionList[i].isFree} \ {a})
  OBVIOUS
<1>5. PICK f : f = SubscribeFrame(key, sticky, a, r)
  OBVIOUS
<1>6. /\ r # 0
      /\ SubscriptionList' = [SubscriptionList EXCEPT
                                ![a].isFree = FALSE, ![r].isFree = FALSE, ![a].topic = <<key, "accepted">>]
      /\ stack' = Append(stack, f)
  BY <1>3, <1>4, <1>5 DEF SubscribeAcks, SubscribeFrame
<1>7. /\ f.fn = "action" /\ f.pc = "subscribe" /\ f.key = key /\ f.ack = "accepted" /\ f.a = a /\ f.r = r
      /\ Opening(f) /\ FrameInv(f)'
  BY <1>5 DEF SubscribeFrame, ActionFrame, NewFrame, Opening, FrameInv
<1>8. stack' = <<f>> /\ 1..Len(stack') = {1} /\ stack'[1] = f
  BY <1>1, <1>6
<1>9. /\ a \in TopicSlots /\ r \in TopicSlots /\ a # r
      /\ SubscriptionList[a].isFree /\ SubscriptionList[r].isFree
      /\ \A u \in TopicSlots : SubscriptionList[u].isFree /\ u # a => a < u
      /\ \A u \in TopicSlots : SubscriptionList[u].isFree /\ u # a /\ u # r => r < u
  BY <1>3, <1>4, <1>6, LowestTwo
<1>10. /\ ~SubscriptionList'[a].isFree /\ SubscriptionList'[a].topic = <<key, "accepted">>
       /\ ~SubscriptionList'[r].isFree /\ SubscriptionList'[r].topic = SubscriptionList[r].topic
       /\ \A s \in TopicSlots : s # a /\ s # r => SubscriptionList'[s] = SubscriptionList[s]
  <2>1. SubscriptionList \in [TopicSlots -> TopicRecords]
    BY DEF TypeInv, ListsOK
  <2> QED BY <1>6, <1>9, <2>1 DEF TopicRecords
<1>11. \A s : (Unready(s)' <=> s \in {a, r}) /\ (Leftover(s)' <=> s = r) /\ ~Unready(s)
  BY <1>2, <1>7, <1>8 DEF Unready, Leftover
<1>12. \A s \in TopicSlots : /\ Ready(s)' <=> Ready(s)
                             /\ Ready(s) => s # a /\ s # r
                             /\ Stale(s)' => Stale(s) /\ s # a
  BY <1>9, <1>10, <1>11 DEF Ready, Stale
<1>13. \A s \in TopicSlots, k \in Keys, ack \in Acks : s # a => (Holds(s, k, ack)' <=> Holds(s, k, ack))
  BY <1>9, <1>10 DEF Holds
<1>14. handlers \subseteq TopicSlots /\ \A s \in handlers : Ready(s)
  BY DEF TypeInv, ListsOK, ListenInv, HandlerInv
<1>15. \A k \in Keys, ack \in Acks : Owes(k, ack)' \subseteq Owes(k, ack)
  <2> SUFFICES ASSUME NEW k \in Keys, NEW ack \in Acks, NEW i \in AckSlots, i \in Owes(k, ack)'
               PROVE  i \in Owes(k, ack)
    BY OwesPlaces
  <2>1. ~Due(f, i, k, ack)
    BY <1>7 DEF Due
  <2>2. ~AckWaitList[i].isFree /\ AckWaitList[i].key = k
    BY <1>1, <1>8, <2>1 DEF Owes
  <2> QED BY <1>2, <2>2 DEF Owes
<1>16. \A ack \in Acks : Owes(key, ack) = {}
  <2>1. PICK ack \in Acks : FindTopic(<<key, ack>>) = 0
    BY <1>1 DEF IsSubscriptionPresent
  <2>2. ASSUME NEW s \in TopicSlots, Ready(s), Holds(s, key, ack) PROVE FALSE
    <3> DEFINE S == {j \in TopicSlots : ~SubscriptionList[j].isFree /\ SubscriptionList[j].topic = <<key, ack>>}
    <3>1. S \subseteq Nat \ {0} /\ Lowest(S) = 0
      BY <2>1, Constants DEF TopicSlots, FindTopic
    <3>2. s \in S
      BY <2>2 DEF Ready, Holds
    <3> HIDE DEF S
    <3> QED BY <3>1, <3>2, LowestSlot
  <2>3. Owes(key, ack) = {}
    BY <2>2 DEF ListenInv, ThereInv
  <2> QED BY <1>1, <2>3, OwesBoth
<1>17. CoverInv'
  <2> SUFFICES ASSUME NEW s \in TopicSlots, NEW k \in Keys, NEW ack \in Acks, Ready(s)', Holds(s, k, ack)'
               PROVE  1 <= SubscriptionList'[s].count /\ Cardinality(Owes(k, ack)') <= SubscriptionList'[s].count
    BY DEF CoverInv
  <2>1. Ready(s) /\ Holds(s, k, ack) /\ SubscriptionList'[s] = SubscriptionList[s]
    BY <1>10, <1>12, <1>13
  <2>2. PICK T : T = Owes(k, ack)
    OBVIOUS
  <2>3. PICK S : S = Owes(k, ack)'
    OBVIOUS
  <2>4. S \subseteq T /\ T \subseteq AckSlots /\ S \subseteq AckSlots
    BY <1>15, <2>2, <2>3, OwesPlaces
  <2>5. SubscriptionList[s].count \in Nat
    BY Constants DEF TypeInv, ListsOK, TopicRecords
  <2>6. PICK m \in Nat, n \in Nat, c \in Nat :
           m = Cardinality(S) /\ n = Cardinality(T) /\ c = SubscriptionList[s].count
    BY <2>4, <2>5, PlacesFinite
  <2>7. 1 <= c /\ n <= c
    BY <2>1, <2>2, <2>6 DEF ListenInv, CoverInv
  <2>8. m <= n
    BY <2>4, <2>6, FewerPlaces
  <2>9. m <= c
    BY <2>7, <2>8
  <2> QED BY <2>1, <2>3, <2>6, <2>7, <2>9
<1>18. ThereInv'
  <2> SUFFICES ASSUME NEW k \in Keys, NEW ack \in Acks, Owes(k, ack)' # {}
               PROVE  \E s \in TopicSlots : Ready(s)' /\ Holds(s, k, ack)'
    BY DEF ThereInv
  <2>1. PICK s \in TopicSlots : Ready(s) /\ Holds(s, k, ack)
    BY <1>15 DEF ListenInv, ThereInv
  <2> QED BY <1>12, <1>13, <2>1
<1>19. HandlerInv'
  BY <1>1, <1>12, <1>14 DEF HandlerInv
<1>20. FirstInv'
  <2> SUFFICES ASSUME NEW k \in Keys, NEW ack \in Acks, Hears(<<k, ack>>)'
               PROVE  \E s \in handlers' : /\ Holds(s, k, ack)'
                                           /\ \A u \in TopicSlots : Holds(u, k, ack)' /\ Stale(u)' => s < u
    BY DEF FirstInv
  <2>1. PICK t \in handlers : Holds(t, k, ack)'
    BY <1>1 DEF Hears, Holds
  <2>2. Holds(t, k, ack)
    BY <1>12, <1>13, <1>14, <2>1
  <2>3. Hears(<<k, ack>>)
    BY <2>2 DEF Hears, Holds
  <2>4. PICK s \in handlers : /\ Holds(s, k, ack)
                              /\ \A u \in TopicSlots : Holds(u, k, ack) /\ Stale(u) => s < u
    BY <2>3 DEF ListenInv, FirstInv
  <2>5. Holds(s, k, ack)'
    BY <1>12, <1>13, <1>14, <2>4
  <2>6. \A u \in TopicSlots : Holds(u, k, ack)' /\ Stale(u)' => Holds(u, k, ack) /\ Stale(u)
    BY <1>12, <1>13
  <2> QED BY <1>1, <2>4, <2>5, <2>6
<1>21. OpenInv(f)'
  <2>1. "accepted" \in Acks /\ "rejected" \in Acks
    BY DEF Acks
  <2>2. Owes(key, "accepted")' = {} /\ Owes(key, "rejected")' = {}
    BY <1>15, <1>16, <2>1
  <2>3. \A u \in TopicSlots : SubscriptionList'[u].isFree => a < u /\ r < u
    BY <1>9, <1>10
  <2>4. Holds(a, key, "accepted")'
    BY <1>10 DEF Holds
  <2> QED BY <1>7, <1>9, <1>10, <2>2, <2>3, <2>4 DEF OpenInv
<1>22. OpeningInv' /\ LeavingInv' /\ FramesInv'
  BY <1>7, <1>8, <1>21 DEF OpeningInv, LeavingInv, FramesInv
<1>23. Stays
  <2>1. \A s \in handlers : SubscriptionList'[s].topic = SubscriptionList[s].topic
    BY <1>10, <1>12, <1>14, SMTT(30)
  <2> QED BY <1>1, <2>1, HandlersStay
<1> QED BY <1>17, <1>18, <1>19, <1>20, <1>22, <1>23 DEF ListenInv

\* A subscribe succeeds: the slot is ready, and counts the action alone.
LEMMA ListenSubscribed ==
  ASSUME TypeInv, TypeInv', OnceInv, ListenInv, Subscribed
  PROVE  ListenInv' /\ Stays
<1>1. stack # <<>> /\ Top.fn = "action" /\ Top.pc = "subscribe" /\ AckWaitList' = AckWaitList
  BY DEF Subscribed, At
<1>2. PICK f \in Frames : f = Top /\ FrameOK(f, clientTokenNum)
  BY <1>1, TopOK DEF TypeInv
<1>3. stack[1] = f /\ 1..Len(stack) = {1} /\ Len(stack) = 1
  BY <1>1, <1>2, Alone
<1>4. Opening(f) /\ OpenInv(f) /\ f.fn = "action" /\ f.pc = "subscribe"
  BY <1>1, <1>2, <1>3 DEF Opening, ListenInv, OpeningInv
<1>5. f.a \in TopicSlots /\ f.r \in TopicSlots /\ f.key \in Keys /\ f.index \in AckSlots /\ f.ack \in Acks
  <2>1. f.index \in AckSlots
    BY <1>3, <1>4 DEF OnceInv, ActionInv
  <2> QED BY <1>2, <1>4, <2>1 DEF FrameOK, Frames
<1>6. PICK a \in TopicSlots, r \in TopicSlots, key \in Keys : a = f.a /\ r = f.r /\ key = f.key
  BY <1>5
<1>7. /\ a # r /\ ~SubscriptionList[r].isFree
      /\ Owes(key, "rejected") = {}
      /\ f.ack = "accepted" => /\ ~SubscriptionList[a].isFree
                               /\ Owes(key, "accepted") = {}
                               /\ Holds(a, key, "accepted")
      /\ f.ack = "rejected" => Owes(key, "accepted") \subseteq {f.index} /\ Holds(r, key, "rejected")
      /\ \A u \in TopicSlots : SubscriptionList[u].isFree =>
           /\ f.ack = "accepted" /\ Holds(u, key, "accepted") => a < u
           /\ Holds(u, key, "rejected") => r < u
  BY <1>4, <1>6 DEF OpenInv
<1>8. "accepted" \in Acks /\ "rejected" \in Acks
  BY DEF Acks
<1>9. SubscriptionList \in [TopicSlots -> TopicRecords] /\ handlers \subseteq TopicSlots
  BY DEF TypeInv, ListsOK
<1>10. \A s : /\ Unready(s) <=> (r = s \/ (a = s /\ f.ack = "accepted"))
              /\ Leftover(s) <=> (f.ack = "accepted" /\ r = s)
  BY <1>3, <1>4, <1>6 DEF Unready, Leftover
<1>11. \A k \in Keys, ack \in Acks, i \in AckSlots :
         i \in Owes(k, ack) <=> (~AckWaitList[i].isFree /\ AckWaitList[i].key = k) \/ Due(f, i, k, ack)
  <2>1. \A i, ack : ~Done(f, i, ack)
    BY <1>4 DEF Done
  <2> QED BY <1>3, <2>1 DEF Owes
<1>12. \A s \in handlers : s \in TopicSlots /\ Ready(s)
  BY <1>9 DEF ListenInv, HandlerInv
<1>13. CASE f.ack = "accepted"
  <2>1. PICK g : g = [f EXCEPT !.ack = "rejected"]
    OBVIOUS
  <2>2. /\ handlers' = handlers \union {a}
        /\ SubscriptionList' = [SubscriptionList EXCEPT
                                  ![a].count = 1, ![a].isSticky = f.sticky, ![r].topic = <<key, "rejected">>]
        /\ SetTop(g)
    BY <1>2, <1>6, <1>13, <2>1 DEF Subscribed
  <2>3. /\ g.fn = "action" /\ g.pc = "subscribe" /\ g.key = key /\ g.ack = "rejected" /\ g.a = a /\ g.r = r
        /\ g.index = f.index /\ Opening(g) /\ FrameInv(g)' /\ g \in Frames
    BY <1>2, <1>4, <1>6, <1>8, <2>1 DEF Frames, Opening, FrameInv
  <2>4. 1..Len(stack') = {1} /\ stack'[1] = g
    <3>1. Len(stack') = Len(stack) /\ stack'[Len(stack)] = g
      BY <1>1, <2>2, <2>3, TopSet DEF TypeInv, StackOK
    <3> QED BY <1>3, <3>1
  <2>5. /\ SubscriptionList'[a].count = 1 /\ SubscriptionList'[a].topic = SubscriptionList[a].topic
        /\ SubscriptionList'[r].topic = <<key, "rejected">>
        /\ \A s \in TopicSlots : SubscriptionList'[s].isFree = SubscriptionList[s].isFree
        /\ \A s \in TopicSlots : s # a /\ s # r => SubscriptionList'[s] = SubscriptionList[s]
    BY <1>7, <1>9, <2>2 DEF TopicRecords
  <2>6. \A s : (Unready(s)' <=> r = s) /\ ~Leftover(s)'
    BY <2>3, <2>4 DEF Unready, Leftover
  <2>7. \A s \in TopicSlots : Ready(s)' <=> (Ready(s) \/ s = a)
    BY <1>7, <1>10, <1>13, <2>5, <2>6 DEF Ready
  <2>8. \A s \in TopicSlots : Ready(s) => /\ s # a /\ s # r
                                          /\ SubscriptionList'[s].topic = SubscriptionList[s].topic
                                          /\ SubscriptionList'[s].count = SubscriptionList[s].count
    BY <1>10, <1>13, <2>5 DEF Ready
  <2>9. \A u \in TopicSlots : Stale(u)' => /\ Stale(u)
                                           /\ SubscriptionList'[u].topic = SubscriptionList[u].topic
                                           /\ Holds(u, key, "accepted") => a < u
    <3> SUFFICES ASSUME NEW u \in TopicSlots, Stale(u)'
                 PROVE  /\ Stale(u)
                        /\ SubscriptionList'[u].topic = SubscriptionList[u].topic
                        /\ Holds(u, key, "accepted") => a < u
      OBVIOUS
    <3>1. SubscriptionList[u].isFree
      BY <2>5, <2>6 DEF Stale
    <3>2. u # a /\ u # r
      BY <1>7, <1>13, <3>1
    <3> QED BY <1>7, <1>13, <2>5, <3>1, <3>2 DEF Stale
  <2>10. \A k \in Keys, ack \in Acks, i \in AckSlots :
           i \in Owes(k, ack)' <=> (~AckWaitList[i].isFree /\ AckWaitList[i].key = k) \/ Due(g, i, k, ack)
    <3>1. \A i, ack : ~Done(g, i, ack)
      BY <2>3 DEF Done
    <3> QED BY <1>1, <2>4, <3>1 DEF Owes
  <2>11. \A k \in Keys, ack \in Acks, i \in AckSlots : Due(g, i, k, ack) => i = f.index /\ k = key /\ ack = "accepted"
    BY <2>3 DEF Due
  <2>12. Owes(key, "accepted")' \subseteq {f.index}
    <3> SUFFICES ASSUME NEW i \in AckSlots, i \in Owes(key, "accepted")' PROVE i = f.index
      BY <1>8, OwesPlaces
    <3> QED BY <1>7, <1>8, <1>11, <1>13, <2>10, <2>11
  <2>13. \A k \in Keys, ack \in Acks : ~(k = key /\ ack = "accepted") => Owes(k, ack)' \subseteq Owes(k, ack)
    <3> SUFFICES ASSUME NEW k \in Keys, NEW ack \in Acks, ~(k = key /\ ack = "accepted"),
                        NEW i \in AckSlots, i \in Owes(k, ack)'
                 PROVE  i \in Owes(k, ack)
      BY OwesPlaces
    <3> QED BY <1>11, <2>10, <2>11
  <2>14. Holds(a, key, "accepted")'
    BY <1>7, <1>13, <2>5 DEF Holds
  <2>15. CoverInv' /\ ThereInv' /\ HandlerInv' /\ FirstInv'
    <3>1. Owes(key, "accepted") = {}
      BY <1>7, <1>13
    <3>2. CoverInv /\ ThereInv /\ HandlerInv /\ FirstInv
      BY DEF ListenInv
    <3> QED BY <1>5, <1>8, <2>2, <2>5, <2>7, <2>8, <2>9, <2>12, <2>13, <2>14, <3>1, <3>2, SlotReady, ZenonT(40)
  <2>16. OpenInv(g)'
    <3>1. Owes(key, "rejected")' = {}
      BY <1>7, <1>8, <2>13
    <3>2. \A u \in TopicSlots : SubscriptionList'[u].isFree /\ Holds(u, key, "rejected")' => r < u
      <4> SUFFICES ASSUME NEW u \in TopicSlots, SubscriptionList'[u].isFree, Holds(u, key, "rejected")' PROVE r < u
        OBVIOUS
      <4>1. SubscriptionList[u].isFree /\ u # a /\ u # r
        BY <1>7, <1>13, <2>5
      <4>2. Holds(u, key, "rejected")
        BY <2>5, <4>1 DEF Holds
      <4> QED BY <1>7, <4>1, <4>2
    <3>3. Holds(r, key, "rejected")'
      BY <2>5 DEF Holds
    <3> QED BY <1>7, <2>3, <2>5, <2>12, <3>1, <3>2, <3>3 DEF OpenInv
  <2>17. OpeningInv' /\ LeavingInv' /\ FramesInv'
    BY <2>3, <2>4, <2>16 DEF OpeningInv, LeavingInv, FramesInv
  <2>18. Stays
    <3>1. \A s \in handlers : SubscriptionList'[s].topic = SubscriptionList[s].topic
      BY <1>12, <2>8
    <3> QED BY <1>1, <2>2, <3>1, HandlersStay
  <2> QED BY <2>15, <2>17, <2>18 DEF ListenInv
<1>14. CASE f.ack = "rejected"
  <2>1. PICK g : g = [f EXCEPT !.pc = "publish"]
    OBVIOUS
  <2>2. /\ handlers' = handlers \union {r}
        /\ SubscriptionList' = [SubscriptionList EXCEPT ![r].count = 1, ![r].isSticky = f.sticky]
        /\ SetTop(g)
    BY <1>2, <1>6, <1>14, <2>1 DEF Subscribed
  <2>3. /\ g.fn = "action" /\ g.pc = "publish" /\ g.key = key
        /\ g.index = f.index /\ ~Opening(g) /\ FrameInv(g)' /\ g \in Frames
    BY <1>2, <1>4, <1>6, <2>1 DEF Frames, Opening, FrameInv
  <2>4. 1..Len(stack') = {1} /\ stack'[1] = g
    <3>1. Len(stack') = Len(stack) /\ stack'[Len(stack)] = g
      BY <1>1, <2>2, <2>3, TopSet DEF TypeInv, StackOK
    <3> QED BY <1>3, <3>1
  <2>5. /\ SubscriptionList'[r].count = 1
        /\ \A s \in TopicSlots : /\ SubscriptionList'[s].isFree = SubscriptionList[s].isFree
                                 /\ SubscriptionList'[s].topic = SubscriptionList[s].topic
        /\ \A s \in TopicSlots : s # r => SubscriptionList'[s] = SubscriptionList[s]
    BY <1>9, <2>2 DEF TopicRecords
  <2>6. \A s : ~Unready(s)' /\ ~Leftover(s)'
    BY <2>3, <2>4 DEF Unready, Leftover
  <2>7. \A s \in TopicSlots : Ready(s)' <=> (Ready(s) \/ s = r)
    BY <1>7, <1>10, <1>14, <2>5, <2>6 DEF Ready
  <2>8. \A s \in TopicSlots : Ready(s) => /\ s # r
                                          /\ SubscriptionList'[s].topic = SubscriptionList[s].topic
                                          /\ SubscriptionList'[s].count = SubscriptionList[s].count
    BY <1>10, <2>5 DEF Ready
  <2>9. \A u \in TopicSlots : Stale(u)' => /\ Stale(u)
                                           /\ SubscriptionList'[u].topic = SubscriptionList[u].topic
                                           /\ Holds(u, key, "rejected") => r < u
    BY <1>7, <2>5, <2>6 DEF Stale
  <2>10. \A k \in Keys, ack \in Acks, i \in AckSlots :
           i \in Owes(k, ack)' <=> (~AckWaitList[i].isFree /\ AckWaitList[i].key = k) \/ Due(g, i, k, ack)
    <3>1. \A i, ack : ~Done(g, i, ack)
      BY <2>3 DEF Done
    <3> QED BY <1>1, <2>4, <3>1 DEF Owes
  <2>11. \A k \in Keys, ack \in Acks, i \in AckSlots : Due(g, i, k, ack) => i = f.index /\ k = key
    BY <2>3 DEF Due
  <2>12. Due(f, f.index, key, "accepted")
    BY <1>4, <1>6, <1>14 DEF Due
  <2>13. Owes(key, "rejected")' \subseteq {f.index}
    <3> SUFFICES ASSUME NEW i \in AckSlots, i \in Owes(key, "rejected")' PROVE i = f.index
      BY <1>8, OwesPlaces
    <3> QED BY <1>7, <1>8, <1>11, <2>10, <2>11
  <2>14. \A k \in Keys, ack \in Acks : ~(k = key /\ ack = "rejected") => Owes(k, ack)' \subseteq Owes(k, ack)
    <3> SUFFICES ASSUME NEW k \in Keys, NEW ack \in Acks, ~(k = key /\ ack = "rejected"),
                        NEW i \in AckSlots, i \in Owes(k, ack)'
                 PROVE  i \in Owes(k, ack)
      BY OwesPlaces
    <3>1. k = key => ack = "accepted"
      BY DEF Acks
    <3> QED BY <1>11, <2>10, <2>11, <2>12, <3>1
  <2>15. Holds(r, key, "rejected")'
    BY <1>7, <1>14, <2>5 DEF Holds
  <2>16. CoverInv' /\ ThereInv' /\ HandlerInv' /\ FirstInv'
    <3>1. CoverInv /\ ThereInv /\ HandlerInv /\ FirstInv
      BY DEF ListenInv
    <3> QED BY <1>5, <1>7, <1>8, <2>2, <2>5, <2>7, <2>8, <2>9, <2>13, <2>14, <2>15, <3>1, SlotReady
  <2>17. OpeningInv' /\ LeavingInv' /\ FramesInv'
    BY <2>3, <2>4 DEF OpeningInv, LeavingInv, FramesInv
  <2>18. Stays
    <3>1. \A s \in handlers : SubscriptionList'[s].topic = SubscriptionList[s].topic
      BY <1>12, <2>8
    <3> QED BY <1>1, <2>2, <3>1, HandlersStay
  <2> QED BY <2>16, <2>17, <2>18 DEF ListenInv
<1> QED BY <1>5, <1>13, <1>14 DEF Acks

\* At first nobody waits.
LEMMA ListenInit == Init => ListenInv
<1> SUFFICES ASSUME Init PROVE ListenInv
  OBVIOUS
<1>1. stack = <<>> /\ handlers = {}
  BY DEF Init
<1>2. 1..Len(stack) = {}
  BY <1>1
<1>3. (\A s \in TopicSlots : SubscriptionList[s].isFree) /\ (\A i \in AckSlots : AckWaitList[i].isFree)
  BY DEF Init
<1>4. \A k \in Keys, ack \in Acks : Owes(k, ack) = {}
  BY <1>2, <1>3 DEF Owes
<1>5. CoverInv /\ ThereInv
  BY <1>3, <1>4 DEF CoverInv, ThereInv, Ready
<1>6. HandlerInv /\ FirstInv
  BY <1>1 DEF HandlerInv, FirstInv, Hears
<1>7. OpeningInv /\ LeavingInv /\ FramesInv
  BY <1>2 DEF OpeningInv, LeavingInv, FramesInv
<1> QED BY <1>5, <1>6, <1>7 DEF ListenInv

\* A step that leaves the handlers and the slots alone takes no topic from anybody.
LEMMA ListsStay ==
  ASSUME UNCHANGED <<SubscriptionList, handlers>>, SameKeys
  PROVE  Stays
<1>1. \A s \in handlers : SubscriptionList'[s].topic = SubscriptionList[s].topic
  OBVIOUS
<1>2. handlers \subseteq handlers'
  OBVIOUS
<1> QED BY <1>1, <1>2, HandlersStay, KeysStay

\* No step takes a topic from an action that waits, as long as every action was covered.
LEMMA ListenNext ==
  CallbackActions = {} /\ TypeInv /\ TypeInv' /\ OnceInv /\ (~uncovered => ListenInv) /\ [Next]_vars
    => (~uncovered' => ListenInv') /\ (~uncovered => Stays)
<1> SUFFICES ASSUME CallbackActions = {}, TypeInv, TypeInv', OnceInv, ~uncovered => ListenInv, [Next]_vars
             PROVE  (~uncovered' => ListenInv') /\ (~uncovered => Stays)
  OBVIOUS
<1>1. uncovered \in BOOLEAN /\ uncovered' \in BOOLEAN
  BY DEF TypeInv, HistoryOK
<1>2. ASSUME ~uncovered, NEW key \in Keys, NEW sticky \in BOOLEAN, Increment(key, sticky) \/ SubscribeAcks(key, sticky)
      PROVE  (~uncovered' => ListenInv') /\ Stays
  <2>1. CASE Increment(key, sticky)
    <3>1. CASE ~uncovered'
      BY <1>2, <2>1, <3>1, ListenIncrement
    <3>2. CASE uncovered'
      <4>1. SubscriptionList \in [TopicSlots -> TopicRecords] /\ handlers \subseteq TopicSlots
        BY DEF TypeInv, ListsOK
      <4>2. handlers' = handlers /\ SameKeys
        BY <2>1 DEF Increment, Start, SameKeys
      <4>3. \A s \in TopicSlots : SubscriptionList'[s].topic = SubscriptionList[s].topic
        BY <2>1, <4>1 DEF Increment, TopicRecords
      <4>4. (\A s \in handlers : SubscriptionList'[s].topic = SubscriptionList[s].topic) /\ handlers \subseteq handlers'
        BY <4>1, <4>2, <4>3
      <4> QED BY <3>2, <4>2, <4>4, HandlersStay, KeysStay
    <3> QED BY <3>1, <3>2
  <2>2. CASE SubscribeAcks(key, sticky) /\ ~uncovered'
    <3>1. key \in Keys /\ sticky \in BOOLEAN /\ ListenInv
      BY <1>2
    <3>2. SubscribeAcks(key, sticky) /\ ~uncovered'
      BY <2>2
    <3> QED BY <3>1, <3>2, ListenSubscribeAcks, SMTT(30)
  <2>3. CASE SubscribeAcks(key, sticky) /\ uncovered'
    <3>1. CASE UNCHANGED SubscriptionList
      <4>1. UNCHANGED <<SubscriptionList, handlers>> /\ SameKeys
        BY <2>3, <3>1 DEF SubscribeAcks, Start, SameKeys
      <4> QED BY <2>3, <4>1, ListsStay
    <3>2. CASE uncovered' = uncovered
      BY <1>2, <2>3, <3>2
    <3> QED BY <2>3, <3>1, <3>2 DEF SubscribeAcks
  <2> QED BY <1>2, <2>1, <2>2, <2>3
<1>3. ASSUME ~uncovered, Proceed PROVE (~uncovered' => ListenInv') /\ Stays
  <2>1. CASE Subscribed
    BY <1>3, <2>1, ListenSubscribed
  <2>2. CASE SubscribeFailed
    <3>1. /\ uncovered' /\ handlers' = handlers /\ SameKeys
          /\ SubscriptionList' = [SubscriptionList EXCEPT ![Top.a].isFree = TRUE]
      BY <2>2 DEF SubscribeFailed, SameKeys
    <3>2. SubscriptionList \in [TopicSlots -> TopicRecords] /\ handlers \subseteq TopicSlots
      BY DEF TypeInv, ListsOK
    <3>3. \A s \in handlers : SubscriptionList'[s].topic = SubscriptionList[s].topic
      BY <3>1, <3>2 DEF TopicRecords
    <3>4. handlers \subseteq handlers'
      BY <3>1
    <3> QED BY <3>1, <3>3, <3>4, HandlersStay, KeysStay
  <2>3. CASE CleanedUp
    <3>1. stack # <<>> /\ Top.pc = "cleanup"
      BY <2>3 DEF CleanedUp, At
    <3>2. FrameInv(Top)
      BY <1>3, <3>1, TopOK DEF TypeInv, ListenInv, FramesInv
    <3> QED BY <3>1, <3>2 DEF FrameInv
  <2>4. CASE PublishAction
    BY <1>3, <2>4, ListenPublish
  <2>5. CASE CallbackReturns
    <3>1. ListenInv'
      BY <1>3, <2>5, ListenCallbackReturns
    <3>2. UNCHANGED <<SubscriptionList, handlers>>
      BY <2>5 DEF CallbackReturns
    <3>3. SameKeys
      BY <2>5 DEF CallbackReturns, SameKeys, TypeInv, ListsOK, AckRecords
    <3> QED BY <3>1, <3>2, <3>3, ListsStay
  <2>6. CASE Release
    <3>1. ListenInv'
      BY <1>3, <2>6, ListenRelease
    <3>2. handlers' = handlers
      BY <2>6 DEF Release
    <3>3. \A s \in handlers : SubscriptionList'[s].topic = SubscriptionList[s].topic
      <4>1. SubscriptionList \in [TopicSlots -> TopicRecords] /\ handlers \subseteq TopicSlots
        BY DEF TypeInv, ListsOK
      <4>2. PICK i : \/ SubscriptionList' = [SubscriptionList EXCEPT ![i].count = @ - 1]
                     \/ SubscriptionList' = SubscriptionList
        BY <2>6 DEF Release
      <4> QED BY <4>1, <4>2 DEF TopicRecords
    <3>4. AckWaitList' \in {AckWaitList, [AckWaitList EXCEPT ![Top.index].isFree = TRUE]}
      BY <2>6 DEF Release, Released
    <3>5. SameKeys
      BY <3>4 DEF SameKeys, TypeInv, ListsOK, AckRecords
    <3>6. handlers \subseteq handlers'
      BY <3>2
    <3> QED BY <3>1, <3>3, <3>5, <3>6, HandlersStay, KeysStay
  <2>7. CASE Unsubscribed
    BY <1>3, <2>7, ListenUnsubscribed
  <2>8. CASE DeltaSubscribed
    <3>1. stack # <<>> /\ Top.fn = "register" /\ Pop /\ UNCHANGED lists
      BY <2>8 DEF DeltaSubscribed, At
    <3>2. ~Opening(Top) /\ Top.fn \in {"action", "register"}
      BY <3>1 DEF Opening
    <3>3. ListenInv'
      BY <1>3, <3>1, <3>2, ListenPop
    <3>4. UNCHANGED <<SubscriptionList, handlers>> /\ SameKeys
      BY <3>1 DEF lists, SameKeys
    <3> QED BY <3>3, <3>4, ListsStay
  <2> QED BY <1>3, <2>1, <2>2, <2>3, <2>4, <2>5, <2>6, <2>7, <2>8 DEF Proceed
<1>4. ASSUME ~uncovered, UNCHANGED lists,
             stack' = stack \/ \E f \in Frames : /\ stack' = Append(stack, f)
                                                 /\ \/ f.fn \in {"ack", "expire"} /\ f.pc = "callback"
                                                    \/ f.fn = "register" /\ f.pc = "subscribe"
      PROVE  (~uncovered' => ListenInv') /\ Stays
  <2>1. ListenInv'
    <3>1. CASE stack' = stack
      BY <1>4, <3>1, ListenStutter
    <3>2. CASE stack' # stack
      BY <1>4, <3>2, ListenPush
    <3> QED BY <3>1, <3>2
  <2>2. UNCHANGED <<SubscriptionList, handlers>> /\ SameKeys
    BY <1>4 DEF lists, SameKeys
  <2> QED BY <2>1, <2>2, ListsStay
<1>5. ASSUME NEW p \in pending, NEW ack \in Acks, NEW v \in Versions \union {0}, AckStatusCallback(p[1], p[2], ack, v)
      PROVE  /\ UNCHANGED lists /\ uncovered' = uncovered
             /\ stack' = stack \/ \E f \in Frames : /\ stack' = Append(stack, f)
                                                    /\ \/ f.fn \in {"ack", "expire"} /\ f.pc = "callback"
                                                       \/ f.fn = "register" /\ f.pc = "subscribe"
  <2>1. UNCHANGED lists /\ uncovered' = uncovered
    BY <1>5 DEF AckStatusCallback
  <2>2. PICK i : i = Lowest({j \in AckSlots : ~AckWaitList[j].isFree /\ AckWaitList[j].token = p[1]})
    OBVIOUS
  <2>3. i \in AckSlots \union {0}
    <3> DEFINE S == {j \in AckSlots : ~AckWaitList[j].isFree /\ AckWaitList[j].token = p[1]}
    <3>1. S \subseteq Nat \ {0} /\ S \subseteq AckSlots /\ i = Lowest(S)
      BY <2>2, Constants DEF AckSlots
    <3> HIDE DEF S
    <3>2. Lowest(S) \in S \union {0}
      BY <3>1, LowestSlot
    <3> QED BY <3>1, <3>2
  <2>4. CASE i = 0
    BY <1>5, <2>1, <2>2, <2>4 DEF AckStatusCallback
  <2>5. CASE i # 0
    <3>1. PICK f : f = [NewFrame("ack", "callback") EXCEPT !.index = i]
      OBVIOUS
    <3>2. stack' = Append(stack, f)
      BY <1>5, <2>2, <2>5, <3>1 DEF AckStatusCallback
    <3>3. i \in AckSlots
      BY <2>3, <2>5
    <3>4. f \in Frames /\ f.fn = "ack" /\ f.pc = "callback"
      BY <3>1, <3>3 DEF NewFrame, Frames, Acks
    <3> QED BY <2>1, <3>2, <3>4
  <2> QED BY <2>4, <2>5
<1>6. ASSUME NEW i \in AckSlots, Expire(i)
      PROVE  /\ UNCHANGED lists /\ uncovered' = uncovered
             /\ stack' = stack \/ \E f \in Frames : /\ stack' = Append(stack, f)
                                                    /\ \/ f.fn \in {"ack", "expire"} /\ f.pc = "callback"
                                                       \/ f.fn = "register" /\ f.pc = "subscribe"
  <2>1. UNCHANGED lists /\ uncovered' = uncovered /\ stack = <<>>
    BY <1>6 DEF Expire
  <2>2. PICK f : f = [NewFrame("expire", "callback") EXCEPT !.index = i]
    OBVIOUS
  <2>3. stack' = <<f>>
    BY <1>6, <2>2 DEF Expire
  <2>4. stack' = Append(stack, f)
    BY <2>1, <2>3
  <2>5. f \in Frames /\ f.fn = "expire" /\ f.pc = "callback"
    BY <1>6, <2>2 DEF NewFrame, Frames, Acks
  <2> QED BY <2>1, <2>4, <2>5
<1>7. ASSUME RegisterDelta
      PROVE  /\ UNCHANGED lists /\ uncovered' = uncovered
             /\ stack' = stack \/ \E f \in Frames : /\ stack' = Append(stack, f)
                                                    /\ \/ f.fn \in {"ack", "expire"} /\ f.pc = "callback"
                                                       \/ f.fn = "register" /\ f.pc = "subscribe"
  <2>1. UNCHANGED lists /\ uncovered' = uncovered /\ stack = <<>>
    BY <1>7 DEF RegisterDelta, history
  <2>2. PICK f : f = NewFrame("register", "subscribe")
    OBVIOUS
  <2>3. stack' = <<f>> \/ stack' = stack
    BY <1>7, <2>2 DEF RegisterDelta
  <2>4. stack' = Append(stack, f) \/ stack' = stack
    BY <2>1, <2>3
  <2>5. f \in Frames /\ f.fn = "register" /\ f.pc = "subscribe"
    BY <2>2 DEF NewFrame, Frames, Acks
  <2> QED BY <2>1, <2>4, <2>5
<1>8. ASSUME \/ \E v \in Versions : ShadowDelta(v)
             \/ ResetLastReceivedVersion
             \/ \E enable \in BOOLEAN : DiscardOldDeltaMsgs(enable)
             \/ UNCHANGED vars
      PROVE  UNCHANGED lists /\ uncovered' = uncovered /\ stack' = stack
  BY <1>8 DEF ShadowDelta, ResetLastReceivedVersion, DiscardOldDeltaMsgs, vars, history
<1>9. CASE ~uncovered
  BY <1>2, <1>3, <1>4, <1>5, <1>6, <1>7, <1>8, <1>9 DEF Next
<1>10. CASE uncovered
  <2>1. uncovered'
    <3>1. ASSUME Proceed PROVE uncovered'
      BY <1>10, <3>1 DEF Proceed, Subscribed, SubscribeFailed, CleanedUp, PublishAction, CallbackReturns,
         Release, Unsubscribed, DeltaSubscribed, history
    <3>2. ASSUME NEW key \in Keys, NEW sticky \in BOOLEAN, Increment(key, sticky) \/ SubscribeAcks(key, sticky)
          PROVE  uncovered'
      BY <1>10, <3>2 DEF Increment, SubscribeAcks
    <3> QED BY <1>5, <1>6, <1>7, <1>8, <1>10, <3>1, <3>2 DEF Next
  <2> QED BY <1>10, <2>1
<1> QED BY <1>9, <1>10

\* When the callbacks start no shadow action of their own, no step of another action, response or
\* timeout takes a response topic from an action that waits: the reference counts with which
\* incrementSubscriptionCnt and unsubscribeFromAcceptedAndRejected share the topics cover every
\* action in AckWaitList, also where unsubscribes fail, a topic has two slots, and responses are
\* handled during the subscribes and unsubscribes of others, as long as no action has failed to
\* subscribe to its topics or found no slots for them, and no count has wrapped after its limit
\* (255; an action whose publish fails is never taken off its topics' counts again).
THEOREM TopicsShared == CallbackActions = {} => (Spec => StaysListening)
<1> SUFFICES ASSUME CallbackActions = {} PROVE Spec => StaysListening
  OBVIOUS
<1>1. Spec => [](TypeInv /\ OnceInv)
  BY OnceAlways
<1>2. Init => (~uncovered => ListenInv)
  BY ListenInit
<1>3. TypeInv /\ TypeInv' /\ OnceInv /\ (~uncovered => ListenInv) /\ [Next]_vars => (~uncovered' => ListenInv')
  BY ListenNext
<1>4. TypeInv /\ TypeInv' /\ OnceInv /\ (~uncovered => ListenInv) /\ [Next]_vars =>
        [~uncovered => \A i \in Awaiting \intersect Awaiting', ack \in Acks : HearsAck(i, ack) => HearsAck(i, ack)']_vars
  BY ListenNext DEF Stays
<1> QED BY <1>1, <1>2, <1>3, <1>4, PTL DEF Spec, StaysListening
=============================================================================
