-------------------------------- MODULE Shadow --------------------------------
(***************************************************************************)
(* The device shadow: the actions that wait for their response             *)
(* (AckWaitList), the reference-counted list of response topics            *)
(* (SubscriptionList), the delta registration and the version of the       *)
(* shadow document.  One thread.  An action is a chain of MQTT calls, and  *)
(* the client reads packets while it waits for a SUBACK or an UNSUBACK: a  *)
(* response or a delta is handled between the steps of other actions, and  *)
(* its callback may start actions of its own.  The state here is the one   *)
(* after shadow_init and shadow_connect; the connection lasts, and the     *)
(* MQTT calls fail as Faults says.                                         *)
(***************************************************************************)
EXTENDS Naturals, Sequences, SequencesExt

CONSTANTS
  Keys,             \* the things and actions: <<thing name, "get" | "update" | "delete">>
  MyThing,          \* myThingName
  MaxAcks,          \* MAX_ACKS_TO_COMEIN_AT_ANY_GIVEN_TIME
  MaxTopics,        \* MAX_TOPICS_AT_ANY_GIVEN_TIME
  MaxTokens,        \* MAX_JSON_TOKEN_EXPECTED
  MaxCount,         \* UINT8_MAX, the largest value of a count in SubscriptionList
  Faults,           \* the MQTT calls that may fail
  AppActions,       \* <<key, isSticky>> of the actions the application performs ...
  CallbackActions,  \* ... and of those its callbacks perform
  MaxActions,       \* bound: actions, one client token each
  MaxVersion,       \* bound: versions of the shadow document
  MaxDepth          \* bound: activations on the call stack

ASSUME ShadowAssumption ==
  /\ \A key \in Keys : key[2] \in {"get", "update", "delete"}
  /\ {MaxAcks, MaxTopics, MaxTokens, MaxActions, MaxVersion} \subseteq Nat
  /\ {MaxDepth, MaxCount} \subseteq Nat \ {0}
  /\ Faults \subseteq {"subscribe", "unsubscribe", "publish"}
  /\ AppActions \union CallbackActions \subseteq Keys \X BOOLEAN

VARIABLES
  AckWaitList,
  SubscriptionList,
  handlers,                  \* the slots of SubscriptionList that a handler of the MQTT client points to
  stack,                     \* the activations, innermost last
  clientTokenNum,            \* client tokens used
  pending,                   \* <<token, key>> of what is published and not answered
  deltaHandler,              \* does the MQTT client have the handler of the delta topic?
  deltaTopicSubscribedFlag,
  tokenTableIndex,
  shadowJsonVersionNum,
  shadowDiscardOldDeltaFlag,
  tracked,                   \* history: the tokens that addToAckWaitList took in
  calls,                     \* history: how often the callback of each token was called
  uncovered,                 \* history: has an action not been counted: it failed to subscribe to its
                             \* topics, found no room, or made a count wrap?
  lastDelta                  \* history: newest delta handed over, of those it may discard

lists   == <<AckWaitList, SubscriptionList, handlers>>
delta   == <<deltaHandler, deltaTopicSubscribedFlag, tokenTableIndex>>
version == <<shadowJsonVersionNum, shadowDiscardOldDeltaFlag, lastDelta>>
service == <<clientTokenNum, pending>>
history == <<tracked, calls, uncovered>>
vars    == <<lists, stack, service, delta, version, history>>

AckSlots   == 1..MaxAcks
TopicSlots == 1..MaxTopics
Tokens     == 1..MaxActions
Versions   == 1..MaxVersion         \* a response without a version counts as version 0
Acks       == {"accepted", "rejected"}
NoKey      == <<>>
NoTopic    == <<>>

\* fn: an action, AckStatusCallback, an iteration of HandleExpiredResponseCallbacks, or a delta
\* registration; ack: the topic of the two it is at; index: its place in AckWaitList; a, r: its
\* slots of SubscriptionList.
Frames == [fn : {"action", "ack", "expire", "register"},
           pc : {"subscribe", "cleanup", "publish", "callback", "release", "unsubscribe"},
           key : Keys \union {NoKey}, ack : Acks, sticky : BOOLEAN, ok : BOOLEAN,
           token : Tokens \union {0}, index : AckSlots \union {0},
           a : TopicSlots \union {0}, r : TopicSlots \union {0}]

NewFrame(fn, pc) ==
  [fn |-> fn, pc |-> pc, key |-> NoKey, ack |-> "accepted", sticky |-> FALSE, ok |-> TRUE,
   token |-> 0, index |-> 0, a |-> 0, r |-> 0]

Top       == Last(stack)
SetTop(f) == stack' = [stack EXCEPT ![Len(stack)] = f]
Pop       == stack' = Front(stack)

At(fns, pc) == stack # <<>> /\ Top.fn \in fns /\ Top.pc = pc

\* Packets are read by yield and by the calls that wait for a SUBACK or an UNSUBACK.
Reading == stack # <<>> => Top.pc \in {"subscribe", "cleanup", "unsubscribe"}

\* An MQTT call returns TRUE for SUCCESS.
Outcomes(call) == IF call \in Faults THEN BOOLEAN ELSE {TRUE}

-----------------------------------------------------------------------------
(* The lists.                                                              *)

\* The lowest of a set of slots, 0 if there is none.
Lowest(slots) == IF slots = {} THEN 0 ELSE CHOOSE i \in slots : \A j \in slots : i <= j

FindTopic(topic) ==
  Lowest({i \in TopicSlots : ~SubscriptionList[i].isFree /\ SubscriptionList[i].topic = topic})

IsSubscriptionPresent(key) == \A ack \in Acks : FindTopic(<<key, ack>>) # 0

\* Messages of the topic reach AckStatusCallback.  A handler follows the buffer of its slot,
\* also when the slot is free or serves another topic by now.
Hears(topic) == \E i \in handlers : SubscriptionList[i].topic = topic

HandlersWithout(topic) == {i \in handlers : SubscriptionList[i].topic # topic}

-----------------------------------------------------------------------------
(* aws_iot_shadow_internal_action, with a callback and a client token (no  *)
(* list is involved otherwise).                                            *)

Callable == IF stack = <<>> THEN AppActions ELSE IF Top.pc = "callback" THEN CallbackActions ELSE {}

\* Mutant: the first place, whether it is free or not.
FreeAckFirst == 1

\* A place in AckWaitList is chosen, not taken; without one the action fails.
FreeAck == Lowest({i \in AckSlots : AckWaitList[i].isFree})

Start(key, sticky) ==
  /\ <<key, sticky>> \in Callable
  /\ Len(stack) < MaxDepth
  /\ clientTokenNum < MaxActions
  /\ FreeAck # 0
  /\ clientTokenNum' = clientTokenNum + 1
  /\ UNCHANGED <<AckWaitList, handlers, pending, delta, version, tracked, calls>>

ActionFrame(key, sticky, pc) ==
  [NewFrame("action", pc) EXCEPT !.key = key, !.sticky = sticky, !.index = FreeAck,
                                 !.token = clientTokenNum + 1]

\* Mutant: the count stays as it is for an action that finds its topics subscribed.
IncrementNoCount(key, sticky) ==
  /\ Start(key, sticky)
  /\ IsSubscriptionPresent(key)
  /\ stack' = Append(stack, ActionFrame(key, sticky, "publish"))
  /\ UNCHANGED <<SubscriptionList, uncovered>>

\* count++
Counted(n) == IF n = MaxCount THEN 0 ELSE n + 1

\* The slots of the topics of an action.
Counting(key) ==
  {i \in TopicSlots : ~SubscriptionList[i].isFree /\ SubscriptionList[i].topic \in {key} \X Acks}

\* Both topics are subscribed to already: incrementSubscriptionCnt.  An action whose publish
\* fails is never taken off again, so that the count goes on to its limit and wraps.
Increment(key, sticky) ==
  /\ Start(key, sticky)
  /\ IsSubscriptionPresent(key)
  /\ stack' = Append(stack, ActionFrame(key, sticky, "publish"))
  /\ SubscriptionList' =
       [i \in TopicSlots |->
          IF i \in Counting(key)
          THEN [SubscriptionList[i] EXCEPT !.count = Counted(@), !.isSticky = sticky]
          ELSE SubscriptionList[i]]
  /\ uncovered' = (uncovered \/ \E i \in Counting(key) : SubscriptionList[i].count = MaxCount)

\* subscribeToShadowActionAcks, up to the first subscribe.  Without two free slots it subscribes
\* to nothing and returns SUCCESS all the same, after an unsubscribe from the topic that slot a
\* still holds if its count happens to be 1.
SubscribeAcks(key, sticky) ==
  LET a == Lowest({i \in TopicSlots : SubscriptionList[i].isFree})
      r == Lowest({i \in TopicSlots : SubscriptionList[i].isFree} \ {a})
      f == [ActionFrame(key, sticky, "subscribe") EXCEPT !.a = a, !.r = r]
  IN
  /\ Start(key, sticky)
  /\ ~IsSubscriptionPresent(key)
  /\ \/ /\ r # 0
        /\ SubscriptionList' = [SubscriptionList EXCEPT
                                  ![a].isFree = FALSE, ![r].isFree = FALSE,
                                  ![a].topic = <<key, "accepted">>]
        /\ stack' = Append(stack, f)
        /\ UNCHANGED uncovered
     \/ /\ r = 0
        /\ stack' = Append(stack,
             [f EXCEPT !.pc = IF /\ a # 0
                                 /\ SubscriptionList[a].count = 1
                                 /\ Hears(SubscriptionList[a].topic)
                              THEN "cleanup" ELSE "publish"])
        /\ uncovered' = TRUE
        /\ UNCHANGED SubscriptionList

\* A subscribe succeeded.
Subscribed ==
  LET f == Top IN
  /\ At({"action"}, "subscribe")
  /\ \/ /\ f.ack = "accepted"
        /\ handlers' = handlers \union {f.a}
        /\ SubscriptionList' = [SubscriptionList EXCEPT
                                  ![f.a].count = 1, ![f.a].isSticky = f.sticky,
                                  ![f.r].topic = <<f.key, "rejected">>]
        /\ SetTop([f EXCEPT !.ack = "rejected"])
     \/ /\ f.ack = "rejected"
        /\ handlers' = handlers \union {f.r}
        /\ SubscriptionList' = [SubscriptionList EXCEPT
                                  ![f.r].count = 1, ![f.r].isSticky = f.sticky]
        /\ SetTop([f EXCEPT !.pc = "publish"])
  /\ UNCHANGED <<AckWaitList, service, delta, version, history>>

\* A subscribe failed: slot a is freed (never r) and its topic unsubscribed from if its count is 1.
SubscribeFailed ==
  LET f == Top IN
  /\ At({"action"}, "subscribe")
  /\ FALSE \in Outcomes("subscribe")
  /\ SubscriptionList' = [SubscriptionList EXCEPT ![f.a].isFree = TRUE]
  /\ IF SubscriptionList[f.a].count = 1 /\ Hears(SubscriptionList[f.a].topic)
     THEN SetTop([f EXCEPT !.pc = "cleanup", !.ok = FALSE])
     ELSE Pop
  /\ uncovered' = TRUE
  /\ UNCHANGED <<AckWaitList, handlers, service, delta, version, tracked, calls>>

\* The unsubscribe of that cleanup returns; its result is not looked at.
CleanedUp ==
  /\ At({"action"}, "cleanup")
  /\ \E ok \in Outcomes("unsubscribe") :
       handlers' = IF ok THEN HandlersWithout(SubscriptionList[Top.a].topic) ELSE handlers
  /\ IF Top.ok THEN SetTop([Top EXCEPT !.pc = "publish"]) ELSE Pop
  /\ UNCHANGED <<AckWaitList, SubscriptionList, service, delta, version, history>>

\* publishToShadowAction (QoS 0, it waits for nothing), then addToAckWaitList at the place that
\* was free when the action started.
PublishAction ==
  /\ At({"action"}, "publish")
  /\ \E ok \in Outcomes("publish") :
       IF ok
       THEN /\ AckWaitList' = [AckWaitList EXCEPT ![Top.index] =
                                 [isFree |-> FALSE, key |-> Top.key, token |-> Top.token]]
            /\ pending' = pending \union {<<Top.token, Top.key>>}
            /\ tracked' = tracked \union {Top.token}
       ELSE UNCHANGED <<AckWaitList, pending, tracked>>
  /\ Pop
  /\ UNCHANGED <<SubscriptionList, handlers, clientTokenNum, delta, version, calls, uncovered>>

-----------------------------------------------------------------------------
(* Responses and timeouts.                                                 *)

\* isAckForMyThingName, for the topics that AckStatusCallback is registered on and thing names
\* that do not contain each other.
CarriesVersion(key, ack) == key[1] = MyThing /\ key[2] \in {"get", "update"} /\ ack = "accepted"

\* A response arrives on a topic that is listened to.  One that nobody waits for any more only
\* counts for its version.
AckStatusCallback(token, key, ack, v) ==
  LET i == Lowest({j \in AckSlots : ~AckWaitList[j].isFree /\ AckWaitList[j].token = token}) IN
  /\ Reading
  /\ Len(stack) < MaxDepth
  /\ <<token, key>> \in pending
  /\ Hears(<<key, ack>>)
  /\ pending' = pending \ {<<token, key>>}
  /\ shadowJsonVersionNum' = IF CarriesVersion(key, ack) /\ v > shadowJsonVersionNum
                             THEN v ELSE shadowJsonVersionNum
  /\ IF i # 0
     THEN /\ stack' = Append(stack, [NewFrame("ack", "callback") EXCEPT !.index = i])
          /\ calls' = [calls EXCEPT ![token] = @ + 1]
     ELSE UNCHANGED <<stack, calls>>
  /\ UNCHANGED <<lists, clientTokenNum, delta, shadowDiscardOldDeltaFlag, lastDelta, tracked, uncovered>>

\* Mutant: the loop ends one entry early.
ExpireShort(i) ==
  /\ stack = <<>>
  /\ i < MaxAcks
  /\ ~AckWaitList[i].isFree
  /\ stack' = <<[NewFrame("expire", "callback") EXCEPT !.index = i]>>
  /\ calls' = [calls EXCEPT ![AckWaitList[i].token] = @ + 1]
  /\ UNCHANGED <<lists, service, delta, version, tracked, uncovered>>

\* HandleExpiredResponseCallbacks, first in yield, finds an expired timer.
Expire(i) ==
  /\ stack = <<>>
  /\ ~AckWaitList[i].isFree
  /\ stack' = <<[NewFrame("expire", "callback") EXCEPT !.index = i]>>
  /\ calls' = [calls EXCEPT ![AckWaitList[i].token] = @ + 1]
  /\ UNCHANGED <<lists, service, delta, version, tracked, uncovered>>

\* The application's callback returns: a timeout frees its entry now, a response at its end.
CallbackReturns ==
  LET i == Top.index IN
  /\ At({"ack", "expire"}, "callback")
  /\ SetTop([Top EXCEPT !.pc = "release", !.key = AckWaitList[i].key])
  /\ AckWaitList' = IF Top.fn = "expire" THEN [AckWaitList EXCEPT ![i].isFree = TRUE]
                    ELSE AckWaitList
  /\ UNCHANGED <<SubscriptionList, handlers, service, delta, version, history>>

\* Mutant: the entry of an answered action stays in the list.
ReleasedKeeps(f) ==
  /\ IF f.ack = "accepted" THEN SetTop([f EXCEPT !.pc = "release", !.ack = "rejected"]) ELSE Pop
  /\ UNCHANGED AckWaitList

\* On to the rejected topic, or the end.
Released(f) ==
  IF f.ack = "accepted"
  THEN /\ SetTop([f EXCEPT !.pc = "release", !.ack = "rejected"])
       /\ UNCHANGED AckWaitList
  ELSE /\ Pop
       /\ AckWaitList' = IF f.fn = "ack" THEN [AckWaitList EXCEPT ![f.index].isFree = TRUE]
                         ELSE AckWaitList

\* Does unsubscribeFromAcceptedAndRejected unsubscribe from the topic in slot i?
LastUse(i) == ~SubscriptionList[i].isSticky /\ SubscriptionList[i].count = 1

\* unsubscribeFromAcceptedAndRejected, one of its halves, up to the unsubscribe if there is one.
Release ==
  LET topic == <<Top.key, Top.ack>>
      i     == FindTopic(topic)
  IN
  /\ At({"ack", "expire"}, "release")
  /\ \/ /\ i # 0 /\ LastUse(i) /\ Hears(topic)
        /\ SetTop([Top EXCEPT !.pc = "unsubscribe", !.a = i])
        /\ UNCHANGED <<AckWaitList, SubscriptionList>>
     \/ /\ i # 0 /\ ~LastUse(i) /\ SubscriptionList[i].count > 1
        /\ SubscriptionList' = [SubscriptionList EXCEPT ![i].count = @ - 1]
        /\ Released(Top)
     \* Not in the list, an unsubscribe that fails at once, or a persistent subscription.
     \/ /\ ~(i # 0 /\ IF LastUse(i) THEN Hears(topic) ELSE SubscriptionList[i].count > 1)
        /\ Released(Top)
        /\ UNCHANGED SubscriptionList
  /\ UNCHANGED <<handlers, service, delta, version, history>>

\* The unsubscribe returns.
Unsubscribed ==
  /\ At({"ack", "expire"}, "unsubscribe")
  /\ \E ok \in Outcomes("unsubscribe") :
       IF ok
       THEN /\ handlers' = HandlersWithout(<<Top.key, Top.ack>>)
            /\ SubscriptionList' = [SubscriptionList EXCEPT ![Top.a].isFree = TRUE]
       ELSE UNCHANGED <<handlers, SubscriptionList>>
  /\ Released(Top)
  /\ UNCHANGED <<service, delta, version, history>>

-----------------------------------------------------------------------------
(* Deltas and the version of the document.                                 *)

\* Mutant: the size of tokenTable is not checked.
RegisterDeltaNoLimit ==
  /\ stack = <<>>
  /\ \/ /\ ~deltaTopicSubscribedFlag
        /\ stack' = <<NewFrame("register", "subscribe")>>
        /\ UNCHANGED tokenTableIndex
     \/ /\ deltaTopicSubscribedFlag
        /\ tokenTableIndex' = tokenTableIndex + 1
        /\ UNCHANGED stack
  /\ UNCHANGED <<lists, service, deltaHandler, deltaTopicSubscribedFlag, version, history>>

\* registerJsonTokenOnDelta: the first call subscribes.
RegisterDelta ==
  /\ stack = <<>>
  /\ \/ /\ ~deltaTopicSubscribedFlag
        /\ stack' = <<NewFrame("register", "subscribe")>>
        /\ UNCHANGED tokenTableIndex
     \/ /\ deltaTopicSubscribedFlag
        /\ tokenTableIndex < MaxTokens
        /\ tokenTableIndex' = tokenTableIndex + 1
        /\ UNCHANGED stack
  /\ UNCHANGED <<lists, service, deltaHandler, deltaTopicSubscribedFlag, version, history>>

\* That subscribe returns.  The flag is set and the token registered whatever it returns.
DeltaSubscribed ==
  /\ At({"register"}, "subscribe")
  /\ \E ok \in Outcomes("subscribe") : deltaHandler' = (deltaHandler \/ ok)
  /\ deltaTopicSubscribedFlag' = TRUE
  /\ tokenTableIndex' = IF tokenTableIndex < MaxTokens THEN tokenTableIndex + 1 ELSE tokenTableIndex
  /\ Pop
  /\ UNCHANGED <<lists, service, version, history>>

\* Mutant: the version is not looked at.
IsOldNever(v) == FALSE

\* To be ignored, if old deltas are.
IsOld(v) == v <= shadowJsonVersionNum

\* shadow_delta_callback.  The token callbacks make no calls here.
ShadowDelta(v) ==
  /\ Reading
  /\ deltaHandler
  /\ shadowDiscardOldDeltaFlag => ~IsOld(v)             \* else it is ignored
  /\ shadowJsonVersionNum' = IF shadowDiscardOldDeltaFlag THEN v ELSE shadowJsonVersionNum
  /\ lastDelta' = IF shadowDiscardOldDeltaFlag THEN v ELSE lastDelta
  /\ UNCHANGED <<lists, stack, service, delta, shadowDiscardOldDeltaFlag, history>>

ResetLastReceivedVersion ==
  /\ stack = <<>>
  /\ shadowJsonVersionNum' = 0
  /\ lastDelta' = 0
  /\ UNCHANGED <<lists, stack, service, delta, shadowDiscardOldDeltaFlag, history>>

DiscardOldDeltaMsgs(enable) ==
  /\ stack = <<>>
  /\ shadowDiscardOldDeltaFlag' = enable
  /\ UNCHANGED <<lists, stack, service, delta, shadowJsonVersionNum, lastDelta, history>>

-----------------------------------------------------------------------------

\* After shadow_init and shadow_connect (initializeRecords).
Init ==
  /\ AckWaitList = [i \in AckSlots |-> [isFree |-> TRUE, key |-> NoKey, token |-> 0]]
  /\ SubscriptionList =
       [i \in TopicSlots |-> [isFree |-> TRUE, topic |-> NoTopic, count |-> 0, isSticky |-> FALSE]]
  /\ handlers = {}
  /\ stack = <<>>
  /\ clientTokenNum = 0
  /\ pending = {}
  /\ deltaHandler = FALSE
  /\ deltaTopicSubscribedFlag = FALSE
  /\ tokenTableIndex = 0
  /\ shadowJsonVersionNum = 0
  /\ shadowDiscardOldDeltaFlag = TRUE
  /\ tracked = {}
  /\ calls = [t \in Tokens |-> 0]
  /\ uncovered = FALSE
  /\ lastDelta = 0

\* What a call in progress does without the application or the service.
Proceed ==
  \/ Subscribed
  \/ SubscribeFailed
  \/ CleanedUp
  \/ PublishAction
  \/ CallbackReturns
  \/ Release
  \/ Unsubscribed
  \/ DeltaSubscribed

Next ==
  \/ \E key \in Keys, sticky \in BOOLEAN : Increment(key, sticky) \/ SubscribeAcks(key, sticky)
  \/ Proceed
  \/ \E p \in pending, ack \in Acks, v \in Versions \union {0} : AckStatusCallback(p[1], p[2], ack, v)
  \/ \E i \in AckSlots : Expire(i)
  \/ RegisterDelta
  \/ \E v \in Versions : ShadowDelta(v)
  \/ ResetLastReceivedVersion
  \/ \E enable \in BOOLEAN : DiscardOldDeltaMsgs(enable)

Spec == Init /\ [][Next]_vars

\* Calls return (their timers see to it, see MqttClient), and the application yields again and
\* again, so that the timer of every entry is looked at after it has expired.
FairSpec == Spec /\ WF_vars(Proceed) /\ \A i \in AckSlots : WF_vars(Expire(i))

-----------------------------------------------------------------------------
(* Properties.                                                             *)

\* The variables have their types.
TypeOK ==
  /\ AckWaitList \in [AckSlots -> [isFree : BOOLEAN, key : Keys \union {NoKey}, token : Tokens \union {0}]]
  /\ SubscriptionList \in [TopicSlots -> [isFree : BOOLEAN, topic : (Keys \X Acks) \union {NoTopic},
                                          count : 0..MaxCount, isSticky : BOOLEAN]]
  /\ handlers \subseteq TopicSlots
  /\ stack \in Seq(Frames) /\ Len(stack) <= MaxDepth
  /\ clientTokenNum \in 0..MaxActions
  /\ pending \subseteq Tokens \X Keys
  /\ {deltaHandler, deltaTopicSubscribedFlag, shadowDiscardOldDeltaFlag} \subseteq BOOLEAN
  /\ tokenTableIndex \in 0..MaxTokens
  /\ {shadowJsonVersionNum, lastDelta} \subseteq 0..MaxVersion
  /\ tracked \subseteq Tokens
  /\ calls \in [Tokens -> Nat]
  /\ uncovered \in BOOLEAN

\* The entries whose response is still awaited.
Awaiting == {i \in AckSlots : /\ ~AckWaitList[i].isFree
                              /\ \A d \in DOMAIN stack : stack[d].fn = "ack" => stack[d].index # i}

HearsAck(i, ack) == Hears(<<AckWaitList[i].key, ack>>)

\* No step of another action, response or timeout takes a response topic away from an action that
\* still waits for its response: the reference counts of SubscriptionList cover every waiting
\* action, as long as every action has subscribed to its topics or found them subscribed to, and
\* no count has wrapped.
StaysListening ==
  [][~uncovered => \A i \in Awaiting \intersect Awaiting', ack \in Acks :
                     HearsAck(i, ack) => HearsAck(i, ack)']_vars

\* An action that shadow_get, _update or _delete took on (SUCCESS, callback given) is in
\* AckWaitList until its callback has been called: no other action uses its place.
NotForgotten ==
  \A t \in tracked :
    calls[t] > 0 \/ \E i \in AckSlots : ~AckWaitList[i].isFree /\ AckWaitList[i].token = t

\* The callback of an action is called once: with the response or with the timeout, also when the
\* response arrives while the topics of an expired entry are being unsubscribed.
CallbackOnce == \A t \in Tokens : calls[t] <= 1

\* While old deltas are discarded, each delta handed over is newer than the one before, whatever
\* order the deltas and the responses arrive in.
DeltasIncrease == [][lastDelta' # lastDelta => lastDelta' > lastDelta \/ lastDelta' = 0]_vars

\* Every action taken on has its callback called in the end.
Answered == \A t \in Tokens : t \in tracked ~> calls[t] > 0
=============================================================================
