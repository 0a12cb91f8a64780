--------------------------- MODULE MqttClientProofs ---------------------------
(***************************************************************************)
(* Theorems about MqttClient, for every number of threads, every bound on  *)
(* the depth of the call stacks and every choice of the calls that the     *)
(* application and its callbacks make.                                     *)
(***************************************************************************)
EXTENDS MqttClient, TLAPS

\* A frame keeps its type whatever place, return code or caller's resumption it moves to.
LEMMA CasTypes ==
  ASSUME NEW f \in Frames, NEW ok \in BOOLEAN
  PROVE  /\ Expected(f) \in ClientStates
         /\ NewState(f) \in ClientStates
         /\ AfterCas(f, ok) \in Pcs
         /\ RcAfterCas(f, ok) \in ReturnCodes
<1>1. Expected(f) \in ClientStates
  BY DEF Frames, Expected, Own, Fns, Calls, Acked, Requests, ClientStates, ConnectedStates,
         DisconnectedStates
<1>2. NewState(f) \in ClientStates
  BY DEF Frames, NewState, Own, Fns, Calls, Acked, Requests, ClientStates, ConnectedStates,
         DisconnectedStates
<1>3. AfterCas(f, ok) \in Pcs
  BY DEF Frames, AfterCas, Pcs, CasPcs
<1>4. RcAfterCas(f, ok) \in ReturnCodes
  BY DEF Frames, RcAfterCas, ReturnCodes
<1> QED BY <1>1, <1>2, <1>3, <1>4

\* A frame stays a frame when only its place and its return code change.
LEMMA MoveType ==
  ASSUME NEW f \in Frames, NEW pc \in Pcs, NEW rc \in ReturnCodes
  PROVE  /\ [f EXCEPT !.pc = pc] \in Frames
         /\ [f EXCEPT !.pc = pc, !.rc = rc] \in Frames
BY DEF Frames

\* A caller stays a frame whatever the callee returned.
LEMMA ResumeType ==
  ASSUME NEW g \in Frames, NEW rc \in ReturnCodes
  PROVE  Resume(g, rc) \in Frames
<1>1. {"keepalive", "end", "handler", "force", "resume", "backoff", "check", "return"} \subseteq Pcs
  BY DEF Pcs, CasPcs
<1>2. "RECONNECTED" \in ReturnCodes
  BY DEF ReturnCodes
<1>3. CASE g.fn = "yield" /\ g.pc = "read"
  <2> DEFINE pc == IF rc = "SUCCESS" THEN "keepalive" ELSE "end"
  <2>1. Resume(g, rc) = [g EXCEPT !.pc = pc, !.rc = rc]
    BY <1>3 DEF Resume
  <2>2. pc \in Pcs
    BY <1>1
  <2> HIDE DEF pc
  <2> QED BY <2>1, <2>2, MoveType
<1>4. CASE g.fn = "yield" /\ g.pc = "disconnect"
  <2> DEFINE pc == IF rc = "SUCCESS" THEN "handler" ELSE "force"
  <2>1. Resume(g, rc) = [g EXCEPT !.pc = pc]
    BY <1>4 DEF Resume
  <2>2. pc \in Pcs
    BY <1>1
  <2> HIDE DEF pc
  <2> QED BY <2>1, <2>2, MoveType
<1>5. CASE g.fn = "yield" /\ g.pc = "reconnect"
  <2> DEFINE pc == IF rc = "RECONNECTED" THEN "resume" ELSE "backoff"
  <2>1. Resume(g, rc) = [g EXCEPT !.pc = pc, !.rc = rc]
    BY <1>5 DEF Resume
  <2>2. pc \in Pcs
    BY <1>1
  <2> HIDE DEF pc
  <2> QED BY <2>1, <2>2, MoveType
<1>6. CASE g.fn = "attempt_reconnect" /\ g.pc = "connect"
  <2>1. Resume(g, rc) = [g EXCEPT !.pc = "check"]
    BY <1>6 DEF Resume
  <2> QED BY <2>1, <1>1, MoveType
<1>7. CASE g.fn = "attempt_reconnect" /\ g.pc = "resubscribe"
  <2> DEFINE r == IF rc = "SUCCESS" THEN "RECONNECTED" ELSE rc
  <2>1. Resume(g, rc) = [g EXCEPT !.pc = "return", !.rc = r]
    BY <1>7 DEF Resume
  <2>2. r \in ReturnCodes /\ "return" \in Pcs
    BY <1>1, <1>2
  <2> HIDE DEF r
  <2> QED BY <2>1, <2>2 DEF Frames
<1> QED BY <1>3, <1>4, <1>5, <1>6, <1>7 DEF Resume

\* The empty frame and the frame of a fresh call are frames.
LEMMA NoFrameType ==
  /\ NoFrame \in Frames
  /\ \A fn \in Fns : [NoFrame EXCEPT !.fn = fn, !.pc = "enter"] \in Frames
BY DEF NoFrame, Frames, Fns, Pcs, ReturnCodes, ClientStates

\* Replacing the top frame, and pushing a frame, keep the stacks well typed.
LEMMA SetTopType ==
  ASSUME TypeOK, NEW t \in Threads, depth[t] > 0, NEW f \in Frames, SetTop(t, f)
  PROVE  /\ depth' \in [Threads -> 0..MaxDepth]
         /\ frame' \in [Threads -> [1..MaxDepth -> Frames]]
BY ConstantsAssumption DEF TypeOK, SetTop

\* The top of a nonempty stack is a frame.
LEMMA TopType ==
  ASSUME TypeOK, NEW t \in Threads, depth[t] > 0
  PROVE  Top(t) \in Frames
BY ConstantsAssumption DEF TypeOK, Top

\* Moving the top frame to another place keeps the stacks well typed.
LEMMA GotoType ==
  ASSUME TypeOK, NEW t \in Threads, depth[t] > 0, NEW pc \in Pcs, NEW rc \in ReturnCodes,
         Goto(t, pc) \/ GotoRc(t, pc, rc)
  PROVE  /\ depth' \in [Threads -> 0..MaxDepth]
         /\ frame' \in [Threads -> [1..MaxDepth -> Frames]]
<1>1. Top(t) \in Frames
  BY TopType
<1>2. /\ [Top(t) EXCEPT !.pc = pc] \in Frames
      /\ [Top(t) EXCEPT !.pc = pc, !.rc = rc] \in Frames
  BY <1>1, MoveType
<1> QED BY <1>2, SetTopType DEF Goto, GotoRc

\* A call keeps the stacks well typed.
LEMMA PushType ==
  ASSUME TypeOK, NEW t \in Threads, NEW pc \in Pcs, NEW fn \in Fns, Push(t, pc, fn)
  PROVE  /\ depth' \in [Threads -> 0..MaxDepth]
         /\ frame' \in [Threads -> [1..MaxDepth -> Frames]]
<1>1. Top(t) \in Frames
  BY TopType DEF Push
<1>2. [Top(t) EXCEPT !.pc = pc] \in Frames
  BY <1>1 DEF Frames
<1>3. [NoFrame EXCEPT !.fn = fn, !.pc = "enter"] \in Frames
  BY NoFrameType
<1> DEFINE f == [Top(t) EXCEPT !.pc = pc]
           g == [NoFrame EXCEPT !.fn = fn, !.pc = "enter"]
<1> HIDE DEF f, g
<1>4. f \in Frames /\ g \in Frames
  BY <1>2, <1>3 DEF f, g
<1>5. [frame[t] EXCEPT ![depth[t]] = f, ![depth[t] + 1] = g] \in [1..MaxDepth -> Frames]
  BY <1>4 DEF TypeOK
<1>6. frame' = [frame EXCEPT ![t] = [frame[t] EXCEPT ![depth[t]] = f, ![depth[t] + 1] = g]]
  BY DEF Push, f, g, TypeOK
<1>7. depth' = [depth EXCEPT ![t] = depth[t] + 1] /\ depth[t] < MaxDepth
  BY DEF Push, TypeOK
<1>8. frame' \in [Threads -> [1..MaxDepth -> Frames]]
  <2> DEFINE st == [frame[t] EXCEPT ![depth[t]] = f, ![depth[t] + 1] = g]
  <2> HIDE DEF st
  <2>1. st \in [1..MaxDepth -> Frames] /\ frame' = [frame EXCEPT ![t] = st]
    BY <1>5, <1>6 DEF st
  <2> QED BY <2>1 DEF TypeOK
<1>9. depth' \in [Threads -> 0..MaxDepth]
  BY <1>7, ConstantsAssumption DEF TypeOK
<1> QED BY <1>8, <1>9

\* Every step of every API function keeps the types.
LEMMA TypeStep ==
  ASSUME TypeOK, [Next]_vars
  PROVE  TypeOK'
<1>1. CASE UNCHANGED vars
  BY <1>1 DEF TypeOK, vars, status
<1>2. ASSUME NEW t \in Threads, Step(t) \/ App(t)
      PROVE  TypeOK'
  <2>0. depth[t] > 0 => Top(t) \in Frames
    BY TopType
  <2> DEFINE StacksOK == /\ depth' \in [Threads -> 0..MaxDepth]
                         /\ frame' \in [Threads -> [1..MaxDepth -> Frames]]
  <2>1. CASE LockAndCompare(t)
    <3>1. [Top(t) EXCEPT !.match = (clientState = Expected(Top(t)))] \in Frames
      BY <2>0, <2>1 DEF LockAndCompare, Frames
    <3>2. StacksOK
      BY <2>1, <3>1, SetTopType DEF LockAndCompare
    <3> QED BY <2>1, <3>2 DEF LockAndCompare, TypeOK, status
  <2>2. CASE SwapAndUnlock(t)
    <3>1. Top(t) \in Frames /\ Top(t).match \in BOOLEAN
      BY <2>0, <2>2 DEF SwapAndUnlock, Frames
    <3>2. /\ AfterCas(Top(t), Top(t).match) \in Pcs
          /\ RcAfterCas(Top(t), Top(t).match) \in ReturnCodes
          /\ NewState(Top(t)) \in ClientStates
      BY <3>1, CasTypes
    <3>3. [Top(t) EXCEPT !.pc = AfterCas(Top(t), Top(t).match),
                         !.rc = RcAfterCas(Top(t), Top(t).match), !.match = FALSE] \in Frames
      BY <3>1, <3>2 DEF Frames
    <3>4. StacksOK
      BY <2>2, <3>3, SetTopType DEF SwapAndUnlock
    <3> QED BY <2>2, <3>2, <3>4 DEF SwapAndUnlock, TypeOK, status
  <2>3. CASE TryLockFails(t)
    <3>1. /\ Top(t) \in Frames
          /\ AfterCas(Top(t), FALSE) \in Pcs
          /\ RcAfterCas(Top(t), FALSE) \in ReturnCodes
      BY <2>0, <2>3, CasTypes DEF TryLockFails
    <3>2. [Top(t) EXCEPT !.pc = AfterCas(Top(t), FALSE), !.rc = RcAfterCas(Top(t), FALSE)] \in Frames
      BY <3>1 DEF Frames
    <3>3. StacksOK
      BY <2>3, <3>2, SetTopType DEF TryLockFails
    <3> QED BY <2>3, <3>3 DEF TryLockFails, TypeOK, status
  <2>4. CASE Enter(t)
    <3>1. depth[t] > 0 /\ Top(t) \in Frames
      BY <2>0, <2>4 DEF Enter, At
    <3>2. \A n \in Nat, pc \in Pcs, s \in ClientStates :
            [Top(t) EXCEPT !.pc = pc, !.saved = s, !.left = n] \in Frames
      BY <3>1 DEF Frames
    <3>3. CASE clientState \in Admits[Top(t).fn]
      <4> DEFINE pc == IF Top(t).fn = "yield" /\ clientState = "PENDING_RECONNECT" THEN "loop" ELSE "begin"
                 s  == IF Top(t).fn = "yield" THEN "CONNECTED_IDLE" ELSE clientState
      <4>1. pc \in Pcs /\ s \in ClientStates
        BY DEF Pcs, CasPcs, ClientStates, ConnectedStates, TypeOK
      <4>2. PICK n \in Nat : SetTop(t, [Top(t) EXCEPT !.pc = pc, !.saved = s, !.left = n])
        <5>1. \E n \in IF Top(t).fn = "resubscribe" THEN 0..NumHandlers ELSE {1} :
                SetTop(t, [Top(t) EXCEPT !.pc = pc, !.saved = s, !.left = n])
          BY <2>4, <3>3 DEF Enter
        <5> HIDE DEF pc, s
        <5>2. (IF Top(t).fn = "resubscribe" THEN 0..NumHandlers ELSE {1}) \subseteq Nat
          BY ConstantsAssumption
        <5> QED BY <5>1, <5>2, Zenon
      <4>3. [Top(t) EXCEPT !.pc = pc, !.saved = s, !.left = n] \in Frames
        BY <3>2, <4>1, <4>2
      <4>4. StacksOK
        BY <3>1, <4>2, <4>3, SetTopType
      <4> QED BY <2>4, <4>4 DEF Enter, TypeOK, status
    <3>4. CASE clientState \notin Admits[Top(t).fn]
      <4>1. PICK rc \in ReturnCodes : GotoRc(t, "return", rc)
        BY <2>4, <3>4 DEF Enter, ReturnCodes
      <4>2. StacksOK
        BY <3>1, <4>1, GotoType DEF Pcs
      <4> QED BY <2>4, <4>2 DEF Enter, TypeOK, status
    <3> QED BY <3>3, <3>4
  <2>5. CASE Return(t)
    <3>1. depth[t] > 0 /\ Top(t) \in Frames
      BY <2>0, <2>5 DEF Return
    <3>2. Top(t).rc \in ReturnCodes
      BY <3>1 DEF Frames
    <3>3. \A d \in 1..MaxDepth : Resume(frame[t][d], Top(t).rc) \in Frames
      BY <3>2, ResumeType DEF TypeOK
    <3>4. StacksOK
      <4> DEFINE g(d) == CASE d = depth[t]     -> NoFrame
                           [] d + 1 = depth[t] -> Resume(frame[t][d], Top(t).rc)
                           [] OTHER            -> frame[t][d]
      <4>1. frame' = [frame EXCEPT ![t] = [d \in 1..MaxDepth |-> g(d)]]
        BY <2>5 DEF Return
      <4>2. \A d \in 1..MaxDepth : g(d) \in Frames
        BY <3>3, NoFrameType DEF TypeOK
      <4> HIDE DEF g
      <4>3. frame' \in [Threads -> [1..MaxDepth -> Frames]]
        BY <4>1, <4>2 DEF TypeOK
      <4>4. depth' = [depth EXCEPT ![t] = depth[t] - 1]
        BY <2>5 DEF Return, TypeOK
      <4> QED BY <3>1, <4>3, <4>4, ConstantsAssumption DEF TypeOK
    <3> QED BY <2>5, <3>4 DEF Return, TypeOK, status
  <2>6. CASE \E fn \in Calls : Call(t, fn)
    <3>1. PICK fn \in Calls : Call(t, fn)
      BY <2>6
    <3>2. [NoFrame EXCEPT !.fn = fn, !.pc = "enter"] \in Frames
      BY NoFrameType DEF Fns
    <3>3. StacksOK
      BY <3>1, <3>2, ConstantsAssumption DEF Call, TypeOK
    <3> QED BY <3>1, <3>3 DEF Call, TypeOK, status
  <2>7. CASE \E fn \in Calls : NestedCall(t, fn)
    <3>1. PICK fn \in Calls : NestedCall(t, fn)
      BY <2>7
    <3>2. Top(t).pc \in Pcs /\ fn \in Fns
      BY <2>0, <3>1 DEF NestedCall, At, Frames, Fns
    <3>3. StacksOK
      BY <3>1, <3>2, PushType DEF NestedCall
    <3> QED BY <3>1, <3>3 DEF NestedCall, TypeOK, status
  <2>8. CASE SetAutoReconnect(t)
    BY <2>8 DEF SetAutoReconnect, TypeOK
  <2>9. CASE Send(t)
    <3>1. depth[t] > 0 /\ Top(t) \in Frames
      BY <2>0, <2>9 DEF Send, At
    <3>2. Top(t).left > 0 => [Top(t) EXCEPT !.pc = "wait", !.left = @ - 1] \in Frames
      <4>1. "wait" \in Pcs
        BY DEF Pcs
      <4>2. Top(t).left \in Nat
        BY <3>1 DEF Frames
      <4>3. Top(t).left > 0 => Top(t).left - 1 \in Nat
        BY <4>2
      <4> QED BY <3>1, <4>1, <4>3 DEF Frames
    <3>3. StacksOK
      <4>1. CASE \E rc \in ReturnCodes : GotoRc(t, "end", rc)
        BY <3>1, <4>1, GotoType DEF Pcs, CasPcs
      <4>2. CASE Top(t).left > 0 /\ SetTop(t, [Top(t) EXCEPT !.pc = "wait", !.left = @ - 1])
        BY <3>1, <3>2, <4>2, SetTopType
      <4> QED BY <2>9, <4>1, <4>2 DEF Send, ReturnCodes
    <3> QED BY <2>9, <3>3 DEF Send, TypeOK, status
  \* The remaining actions move the top frame to another place or push a callee.
  <2> DEFINE Moves == /\ depth[t] > 0
                      /\ \/ \E pc \in Pcs : Goto(t, pc)
                         \/ \E pc \in Pcs, rc \in ReturnCodes : GotoRc(t, pc, rc)
                         \/ \E pc \in Pcs, fn \in Fns : Push(t, pc, fn)
  <2>10. ASSUME Moves PROVE StacksOK
    <3>0. "SUCCESS" \in ReturnCodes
      BY DEF ReturnCodes
    <3> QED BY <2>10, <3>0, GotoType, PushType
  <2>11. /\ {"return", "send", "wait", "callback", "puback", "tls", "connack", "cleanup", "check",
             "close", "manual", "restore", "connect", "resubscribe", "loop", "delay", "reconnect",
             "backoff", "read", "keepalive", "disconnect", "force", "destroy", "handler", "arm",
             "begin", "end", "fail", "done", "pend"} \subseteq Pcs
         /\ {"SUCCESS", "ERROR", "DISCONNECTED", "ATTEMPTING", "ALREADY_CONNECTED"} \subseteq ReturnCodes
         /\ {"connect", "disconnect", "attempt_reconnect", "resubscribe", "handle_publish"} \subseteq Fns
         /\ {"DISCONNECTED_ERROR", "DISCONNECTED_MANUALLY"} \subseteq ClientStates
         /\ {"yield", "handle_publish"} \subseteq Fns
    BY DEF Pcs, CasPcs, ReturnCodes, Fns, Calls, Acked, Requests, ClientStates, DisconnectedStates
  <2>12. depth[t] > 0 => Top(t).rc \in ReturnCodes /\ Top(t).saved \in ClientStates /\ Top(t).pc \in Pcs
    BY <2>0 DEF Frames
  <2>13. CASE DisconnectEnter(t)
    <3>1. depth[t] > 0 /\ [Top(t) EXCEPT !.pc = "check", !.saved = clientState] \in Frames
      BY <2>0, <2>11, <2>13 DEF DisconnectEnter, At, Frames, TypeOK
    <3>2. StacksOK
      BY <2>13, <3>1, SetTopType DEF DisconnectEnter
    <3> QED BY <2>13, <3>2 DEF DisconnectEnter, TypeOK, status
  <2>14. CASE ReceiveAck(t)
    <3>1. Moves
      BY <2>11, <2>12, <2>14 DEF ReceiveAck, At
    <3> HIDE DEF Moves
    <3>2. StacksOK
      BY <2>10, <3>1
    <3> HIDE DEF StacksOK
    <3> QED BY <2>14, <3>2, <2>11, <2>12, ConstantsAssumption DEF ReceiveAck, At, TypeOK, status, StacksOK
  <2>15. CASE WaitTimeout(t)
    <3>1. Moves
      BY <2>11, <2>12, <2>15 DEF WaitTimeout, At
    <3> HIDE DEF Moves
    <3>2. StacksOK
      BY <2>10, <3>1
    <3> HIDE DEF StacksOK
    <3> QED BY <2>15, <3>2, <2>11, <2>12, ConstantsAssumption DEF WaitTimeout, At, TypeOK, status, StacksOK
  <2>16. CASE ReceivePublish(t)
    <3>1. Moves
      BY <2>11, <2>12, <2>16 DEF ReceivePublish, At
    <3> HIDE DEF Moves
    <3>2. StacksOK
      BY <2>10, <3>1
    <3> HIDE DEF StacksOK
    <3> QED BY <2>16, <3>2, <2>11, <2>12, ConstantsAssumption DEF ReceivePublish, At, TypeOK, status, StacksOK
  <2>17. CASE CallbackDone(t)
    <3>1. Moves
      BY <2>11, <2>12, <2>17 DEF CallbackDone, At
    <3> HIDE DEF Moves
    <3>2. StacksOK
      BY <2>10, <3>1
    <3> HIDE DEF StacksOK
    <3> QED BY <2>17, <3>2, <2>11, <2>12, ConstantsAssumption DEF CallbackDone, At, TypeOK, status, StacksOK
  <2>18. CASE SendPuback(t)
    <3>1. Moves
      BY <2>11, <2>12, <2>18 DEF SendPuback, At
    <3> HIDE DEF Moves
    <3>2. StacksOK
      BY <2>10, <3>1
    <3> HIDE DEF StacksOK
    <3> QED BY <2>18, <3>2, <2>11, <2>12, ConstantsAssumption DEF SendPuback, At, TypeOK, status, StacksOK
  <2>19. CASE DisconnectCheck(t)
    <3>1. Moves
      BY <2>11, <2>12, <2>19 DEF DisconnectCheck, At
    <3> HIDE DEF Moves
    <3>2. StacksOK
      BY <2>10, <3>1
    <3> HIDE DEF StacksOK
    <3> QED BY <2>19, <3>2, <2>11, <2>12, ConstantsAssumption DEF DisconnectCheck, At, TypeOK, status, StacksOK
  <2>20. CASE DisconnectSend(t)
    <3>1. Moves
      BY <2>11, <2>12, <2>20 DEF DisconnectSend, At
    <3> HIDE DEF Moves
    <3>2. StacksOK
      BY <2>10, <3>1
    <3> HIDE DEF StacksOK
    <3> QED BY <2>20, <3>2, <2>11, <2>12, ConstantsAssumption DEF DisconnectSend, At, TypeOK, status, StacksOK
  <2>21. CASE ReconnectEnter(t)
    <3>1. Moves
      BY <2>11, <2>12, <2>21 DEF ReconnectEnter, At
    <3> HIDE DEF Moves
    <3>2. StacksOK
      BY <2>10, <3>1
    <3> HIDE DEF StacksOK
    <3> QED BY <2>21, <3>2, <2>11, <2>12, ConstantsAssumption DEF ReconnectEnter, At, TypeOK, status, StacksOK
  <2>22. CASE ReconnectCheck(t)
    <3>1. Moves
      BY <2>11, <2>12, <2>22 DEF ReconnectCheck, At
    <3> HIDE DEF Moves
    <3>2. StacksOK
      BY <2>10, <3>1
    <3> HIDE DEF StacksOK
    <3> QED BY <2>22, <3>2, <2>11, <2>12, ConstantsAssumption DEF ReconnectCheck, At, TypeOK, status, StacksOK
  <2>23. CASE YieldLeave(t)
    <3>1. Moves
      BY <2>11, <2>12, <2>23 DEF YieldLeave, At
    <3> HIDE DEF Moves
    <3>2. StacksOK
      BY <2>10, <3>1
    <3> HIDE DEF StacksOK
    <3> QED BY <2>23, <3>2, <2>11, <2>12, ConstantsAssumption DEF YieldLeave, At, TypeOK, status, StacksOK
  <2>24. CASE YieldIterate(t)
    <3>1. Moves
      BY <2>11, <2>12, <2>24 DEF YieldIterate, At
    <3> HIDE DEF Moves
    <3>2. StacksOK
      BY <2>10, <3>1
    <3> HIDE DEF StacksOK
    <3> QED BY <2>24, <3>2, <2>11, <2>12, ConstantsAssumption DEF YieldIterate, At, TypeOK, status, StacksOK
  <2>25. CASE HandleReconnect(t)
    <3>1. Moves
      BY <2>11, <2>12, <2>25 DEF HandleReconnect, At
    <3> HIDE DEF Moves
    <3>2. StacksOK
      BY <2>10, <3>1
    <3> HIDE DEF StacksOK
    <3> QED BY <2>25, <3>2, <2>11, <2>12, ConstantsAssumption DEF HandleReconnect, At, TypeOK, status, StacksOK
  <2>26. CASE YieldRead(t)
    <3>1. Moves
      BY <2>11, <2>12, <2>26 DEF YieldRead, At
    <3> HIDE DEF Moves
    <3>2. StacksOK
      BY <2>10, <3>1
    <3> HIDE DEF StacksOK
    <3> QED BY <2>26, <3>2, <2>11, <2>12, ConstantsAssumption DEF YieldRead, At, TypeOK, status, StacksOK
  <2>27. CASE KeepAliveLost(t)
    <3>1. Moves
      BY <2>11, <2>12, <2>27 DEF KeepAliveLost, At
    <3> HIDE DEF Moves
    <3>2. StacksOK
      BY <2>10, <3>1
    <3> HIDE DEF StacksOK
    <3> QED BY <2>27, <3>2, <2>11, <2>12, ConstantsAssumption DEF KeepAliveLost, At, TypeOK, status, StacksOK
  <2>28. CASE ReceivePingresp(t)
    <3>1. Moves
      BY <2>11, <2>12, <2>28 DEF ReceivePingresp, At
    <3> HIDE DEF Moves
    <3>2. StacksOK
      BY <2>10, <3>1
    <3> HIDE DEF StacksOK
    <3> QED BY <2>28, <3>2, <2>11, <2>12, ConstantsAssumption DEF ReceivePingresp, At, TypeOK, status, StacksOK
  <2>29. CASE ConnectTls(t)
    <3>1. Moves
      BY <2>11, <2>12, <2>29 DEF ConnectTls, At
    <3> HIDE DEF Moves
    <3>2. StacksOK
      BY <2>10, <3>1
    <3> HIDE DEF StacksOK
    <3> QED BY <2>29, <3>2, <2>11, <2>12, ConstantsAssumption DEF ConnectTls, At, TypeOK, status, StacksOK
  <2>30. CASE ConnectMqtt(t)
    <3>1. Moves
      BY <2>11, <2>12, <2>30 DEF ConnectMqtt, At
    <3> HIDE DEF Moves
    <3>2. StacksOK
      BY <2>10, <3>1
    <3> HIDE DEF StacksOK
    <3> QED BY <2>30, <3>2, <2>11, <2>12, ConstantsAssumption DEF ConnectMqtt, At, TypeOK, status, StacksOK
  <2>31. CASE ConnectCleanup(t)
    <3>1. Moves
      BY <2>11, <2>12, <2>31 DEF ConnectCleanup, At
    <3> HIDE DEF Moves
    <3>2. StacksOK
      BY <2>10, <3>1
    <3> HIDE DEF StacksOK
    <3> QED BY <2>31, <3>2, <2>11, <2>12, ConstantsAssumption DEF ConnectCleanup, At, TypeOK, status, StacksOK
  <2>32. CASE DisconnectClose(t)
    <3>1. Moves
      BY <2>11, <2>12, <2>32 DEF DisconnectClose, At
    <3> HIDE DEF Moves
    <3>2. StacksOK
      BY <2>10, <3>1
    <3> HIDE DEF StacksOK
    <3> QED BY <2>32, <3>2, <2>11, <2>12, ConstantsAssumption DEF DisconnectClose, At, TypeOK, status, StacksOK
  <2>33. CASE DisconnectAssign(t)
    <3>1. Moves
      BY <2>11, <2>12, <2>33 DEF DisconnectAssign, At
    <3> HIDE DEF Moves
    <3>2. StacksOK
      BY <2>10, <3>1
    <3> HIDE DEF StacksOK
    <3> QED BY <2>33, <3>2, <2>11, <2>12, ConstantsAssumption DEF DisconnectAssign, At, TypeOK, status, StacksOK
  <2>34. CASE Backoff(t)
    <3>1. Moves
      BY <2>11, <2>12, <2>34 DEF Backoff, At
    <3> HIDE DEF Moves
    <3>2. StacksOK
      BY <2>10, <3>1
    <3> HIDE DEF StacksOK
    <3> QED BY <2>34, <3>2, <2>11, <2>12, ConstantsAssumption DEF Backoff, At, TypeOK, status, StacksOK
  <2>35. CASE KeepAlive(t)
    <3>1. Moves
      BY <2>11, <2>12, <2>35 DEF KeepAlive, At
    <3> HIDE DEF Moves
    <3>2. StacksOK
      BY <2>10, <3>1
    <3> HIDE DEF StacksOK
    <3> QED BY <2>35, <3>2, <2>11, <2>12, ConstantsAssumption DEF KeepAlive, At, TypeOK, status, StacksOK
  <2>36. CASE ForceState(t)
    <3>1. Moves
      BY <2>11, <2>12, <2>36 DEF ForceState, At
    <3> HIDE DEF Moves
    <3>2. StacksOK
      BY <2>10, <3>1
    <3> HIDE DEF StacksOK
    <3> QED BY <2>36, <3>2, <2>11, <2>12, ConstantsAssumption DEF ForceState, At, TypeOK, status, StacksOK
  <2>37. CASE ForceDestroy(t)
    <3>1. Moves
      BY <2>11, <2>12, <2>37 DEF ForceDestroy, At
    <3> HIDE DEF Moves
    <3>2. StacksOK
      BY <2>10, <3>1
    <3> HIDE DEF StacksOK
    <3> QED BY <2>37, <3>2, <2>11, <2>12, ConstantsAssumption DEF ForceDestroy, At, TypeOK, status, StacksOK
  <2>38. CASE HandlerDone(t)
    <3>1. Moves
      BY <2>11, <2>12, <2>38 DEF HandlerDone, At
    <3> HIDE DEF Moves
    <3>2. StacksOK
      BY <2>10, <3>1
    <3> HIDE DEF StacksOK
    <3> QED BY <2>38, <3>2, <2>11, <2>12, ConstantsAssumption DEF HandlerDone, At, TypeOK, status, StacksOK
  <2>39. CASE ArmReconnect(t)
    <3>1. Moves
      BY <2>11, <2>12, <2>39 DEF ArmReconnect, At
    <3> HIDE DEF Moves
    <3>2. StacksOK
      BY <2>10, <3>1
    <3> HIDE DEF StacksOK
    <3> QED BY <2>39, <3>2, <2>11, <2>12, ConstantsAssumption DEF ArmReconnect, At, TypeOK, status, StacksOK
  <2> QED
    BY <1>2, <2>1, <2>2, <2>3, <2>4, <2>5, <2>6, <2>7, <2>8, <2>9, <2>13, <2>14, <2>15, <2>16, <2>17, <2>18, <2>19, <2>20, <2>21, <2>22, <2>23, <2>24, <2>25, <2>26, <2>27, <2>28, <2>29, <2>30, <2>31, <2>32, <2>33, <2>34, <2>35, <2>36, <2>37, <2>38, <2>39 DEF Step, App
<1> QED BY <1>1, <1>2 DEF Next

\* aws_iot_mqtt_init leaves the client well typed.
LEMMA InitType == Init => TypeOK
<1> SUFFICES ASSUME Init PROVE TypeOK
  OBVIOUS
<1>1. frame \in [Threads -> [1..MaxDepth -> Frames]]
  BY NoFrameType DEF Init
<1>2. depth \in [Threads -> 0..MaxDepth]
  BY ConstantsAssumption DEF Init
<1> QED BY <1>1, <1>2, ConstantsAssumption DEF Init, TypeOK, ClientStates

\* Every variable keeps its type, and with it the call stacks their bound.
THEOREM TypeCorrect == Spec => []TypeOK
<1>1. TypeOK /\ [Next]_vars => TypeOK'
  BY TypeStep
<1> QED BY InitType, <1>1, PTL DEF Spec

-----------------------------------------------------------------------------
(* Requests of several threads exclude each other.                         *)


\* The threads only connect, publish, subscribe and resubscribe, and the broker sends nothing.
OnlyRequests ==
  /\ ~Inbound
  /\ AppCalls \subseteq {"connect", "publish", "subscribe", "resubscribe", "autoreconnect_set_status"}

\* Replacing the top frame of one thread leaves the stacks of the others alone.
LEMMA OtherStacks ==
  ASSUME TypeOK, NEW t \in Threads, depth[t] > 0, NEW f, SetTop(t, f)
  PROVE  /\ depth' = depth
         /\ frame'[t][depth[t]] = f
         /\ \A u \in Threads : u # t => frame'[u] = frame[u]
BY ConstantsAssumption DEF TypeOK, SetTop

\* A step of thread t that replaces its frame by one for which this holds keeps ExclusionInv.
ExclusionMove(t, f) ==
  /\ depth[t] > 0
  /\ SetTop(t, f)
  /\ RequestFrame(f)
  /\ \/ stateMutex' = NoThread
     \/ stateMutex' = stateMutex /\ (Top(t).pc \notin CasPcs \/ stateMutex # t)
     \/ stateMutex' = t /\ f.pc \in CasPcs /\ (f.match => clientState' = Expected(f))
  /\ \/ clientState' = clientState /\ (Requesting(f) => Requesting(Top(t)) /\ f.fn = Top(t).fn)
     \/ /\ stateMutex' = NoThread
        /\ \A u \in Threads \ {t} : depth[u] = 1 => ~Requesting(frame[u][1])
        /\ Requesting(f) => clientState' = Own[f.fn]

\* The step above keeps the invariant.
LEMMA ExclusionMoveKeeps ==
  ASSUME ExclusionInv, NEW t \in Threads, NEW f, ExclusionMove(t, f), TypeOK'
  PROVE  ExclusionInv'
<1>1. /\ depth' = depth /\ depth[t] = 1
      /\ frame'[t][1] = f
      /\ \A u \in Threads : u # t => frame'[u] = frame[u]
      /\ Top(t) = frame[t][1]
  BY OtherStacks DEF ExclusionInv, ExclusionMove, Top
<1>2. NoThread \notin Threads
  BY ConstantsAssumption
<1>3. ASSUME NEW u \in Threads, depth[u] = 1, Requesting(frame'[u][1])
      PROVE  clientState' = Own[frame'[u][1].fn]
  <2>1. CASE u = t
    BY <1>1, <1>3, <2>1 DEF ExclusionMove, ExclusionInv
  <2>2. CASE u # t
    BY <1>1, <1>3, <2>2 DEF ExclusionMove, ExclusionInv
  <2> QED BY <2>1, <2>2
<1>4. \A u, v \in Threads :
        depth[u] = 1 /\ depth[v] = 1 /\ Requesting(frame[u][1]) /\ Requesting(frame[v][1]) => u = v
  BY DEF ExclusionInv, RequestExclusion
<1>5. ASSUME NEW u \in Threads, NEW v \in Threads, depth[u] = 1, depth[v] = 1,
             Requesting(frame'[u][1]), Requesting(frame'[v][1])
      PROVE  u = v
  <2>1. CASE u # t /\ v # t
    BY <1>1, <1>4, <1>5, <2>1
  <2>2. CASE u = t /\ v # t
    BY <1>1, <1>4, <1>5, <2>2 DEF ExclusionMove
  <2>3. CASE u # t /\ v = t
    BY <1>1, <1>4, <1>5, <2>3 DEF ExclusionMove
  <2> QED BY <2>1, <2>2, <2>3
<1>6. RequestExclusion'
  <2>1. \A u \in Threads : \A d \in 1..depth[u] : d = 1 /\ depth[u] = 1
    BY DEF ExclusionInv
  <2> QED BY <1>1, <1>5, <2>1 DEF RequestExclusion
<1>7. ASSUME NEW u \in Threads, stateMutex' = u
      PROVE  /\ depth[u] = 1
             /\ frame'[u][1].pc \in CasPcs
             /\ frame'[u][1].match => clientState' = Expected(frame'[u][1])
  <2>1. CASE u = t
    BY <1>1, <1>2, <1>7, <2>1 DEF ExclusionMove, ExclusionInv
  <2>2. CASE u # t
    <3>1. stateMutex = u /\ clientState' = clientState
      BY <1>2, <1>7, <2>2 DEF ExclusionMove
    <3> QED BY <1>1, <2>2, <3>1 DEF ExclusionInv
  <2> QED BY <2>1, <2>2
<1>8. \A u \in Threads : depth[u] = 1 => RequestFrame(frame'[u][1])
  BY <1>1 DEF ExclusionMove, ExclusionInv
<1> QED BY <1>1, <1>3, <1>6, <1>7, <1>8 DEF ExclusionInv

\* The swaps of connect and of the requests: one that succeeds found a state that no request
\* in progress leaves the client in, or is the one that ends the request.
LEMMA ExclusionSwap ==
  ASSUME ExclusionInv, NEW t \in Threads, SwapAndUnlock(t), TypeOK'
  PROVE  ExclusionInv'
<1> DEFINE g == Top(t)
           f == [g EXCEPT !.pc = AfterCas(g, g.match), !.rc = RcAfterCas(g, g.match), !.match = FALSE]
<1>1. /\ depth[t] = 1 /\ g = frame[t][1] /\ g \in Frames /\ g.pc \in CasPcs
      /\ stateMutex' = NoThread
      /\ clientState' = IF g.match THEN NewState(g) ELSE clientState
      /\ SetTop(t, f)
      /\ RequestFrame(g)
      /\ g.match => clientState = Expected(g)
      /\ g.match \in BOOLEAN
  <2>1. depth[t] = 1 /\ g = frame[t][1]
    BY DEF SwapAndUnlock, ExclusionInv, Top
  <2>2. g \in Frames
    BY TopType DEF SwapAndUnlock, ExclusionInv
  <2> QED BY <2>1, <2>2 DEF SwapAndUnlock, ExclusionInv, Frames
<1>2. /\ f.fn = g.fn /\ f.saved = g.saved
      /\ f.pc = AfterCas(g, g.match)
  BY <1>1 DEF Frames
<1> HIDE DEF f, g
<1>3. RequestFrame(f)
  <2>1. CASE g.fn = "connect"
    BY <1>1, <1>2, <2>1 DEF AfterCas, RequestFrame, Acked, Requests, CasPcs
  <2>2. CASE g.fn \in Acked \ {"unsubscribe"}
    BY <1>1, <1>2, <2>2 DEF AfterCas, RequestFrame, Acked, Requests, CasPcs
  <2> QED BY <1>1, <2>1, <2>2 DEF RequestFrame
<1>4. CASE ~g.match
  <2>1. Requesting(f) => Requesting(g)
    BY <1>1, <1>2, <1>4 DEF Requesting, Answers, AfterCas, RequestFrame, Acked, Requests, CasPcs
  <2>2. ExclusionMove(t, f)
    BY <1>1, <1>2, <1>3, <1>4, <2>1 DEF ExclusionMove, g
  <2> QED BY <2>2, ExclusionMoveKeeps
<1>5. CASE g.match
  <2>1. Requesting(f) => clientState' = Own[f.fn]
    BY <1>1, <1>2, <1>5 DEF Requesting, Answers, AfterCas, NewState, RequestFrame, Acked, Requests, CasPcs
  <2>2. ASSUME NEW u \in Threads \ {t}, depth[u] = 1, Requesting(frame[u][1])
        PROVE  FALSE
    <3>1. clientState = Own[frame[u][1].fn] /\ frame[u][1].fn \in Acked /\ frame[u][1].fn # "unsubscribe"
      BY <2>2 DEF ExclusionInv, Requesting, RequestFrame
    <3>2. clientState \in {"PUBLISH_IN_PROGRESS", "SUBSCRIBE_IN_PROGRESS", "RESUBSCRIBE_IN_PROGRESS"}
      BY <3>1 DEF Own, Acked, Requests, Fns, Calls
    <3>3. clientState = Expected(g)
      BY <1>1, <1>5
    <3>4. CASE g.pc = "begin"
      <4>1. clientState \in Admits[g.fn] /\ g.fn \in (Acked \ {"unsubscribe"}) \union {"connect"}
        BY <1>1, <3>3, <3>4 DEF RequestFrame, Expected
      <4>2. Admits[g.fn] \subseteq {"CONNECTED_IDLE", "WAIT_FOR_CB_RETURN", "INITIALIZED"} \union DisconnectedStates
        BY <4>1 DEF Admits, Acked, Requests, Fns, Calls
      <4> QED BY <3>2, <4>1, <4>2 DEF DisconnectedStates
    <3>5. CASE g.fn = "connect" /\ g.pc # "begin"
      <4>1. g.pc \in {"done", "fail"}
        BY <1>1, <3>5 DEF RequestFrame, CasPcs, Acked, Requests
      <4>2. clientState = "CONNECTING"
        BY <3>3, <3>5, <4>1 DEF Expected, Own, Fns, Calls
      <4> QED BY <3>2, <4>2
    <3>6. CASE g.fn \in Acked /\ g.pc # "begin"
      <4>1. g.pc = "end"
        BY <1>1, <3>6 DEF RequestFrame, CasPcs, Acked, Requests
      <4>2. Requesting(g)
        BY <3>6, <4>1 DEF Requesting, Answers
      <4>3. 1 \in 1..depth[t] /\ 1 \in 1..depth[u]
        BY <1>1, <2>2
      <4> QED BY <1>1, <2>2, <4>2, <4>3 DEF ExclusionInv, RequestExclusion
    <3> QED BY <1>1, <3>4, <3>5, <3>6 DEF RequestFrame
  <2>3. ExclusionMove(t, f)
    BY <1>1, <1>3, <2>1, <2>2 DEF ExclusionMove
  <2> QED BY <2>3, ExclusionMoveKeeps
<1> QED BY <1>1, <1>4, <1>5

\* Every step of connect and of the requests keeps ExclusionInv.
LEMMA ExclusionStep ==
  ASSUME OnlyRequests, ExclusionInv, [Next]_vars
  PROVE  ExclusionInv'
<1>0. TypeOK'
  BY TypeStep DEF ExclusionInv
<1>1. CASE UNCHANGED vars
  BY <1>1 DEF ExclusionInv, TypeOK, RequestExclusion, vars, status
<1>2. ASSUME NEW t \in Threads, Step(t) \/ App(t)
      PROVE  ExclusionInv'
  <2> DEFINE g == Top(t)
  <2>1. depth[t] > 0 => depth[t] = 1 /\ g = frame[t][1] /\ g \in Frames /\ RequestFrame(g)
    BY TopType DEF ExclusionInv, Top
  <2>2. /\ "connect" \notin Acked
        /\ {"yield", "handle_publish", "disconnect", "attempt_reconnect"} \intersect (Acked \union {"connect"}) = {}
    BY DEF Acked, Requests
  \* The other functions are never called.
  <2>3. ~(ReceivePublish(t) \/ CallbackDone(t) \/ SendPuback(t) \/ (\E fn \in Calls : NestedCall(t, fn)))
    BY <2>1, <2>2 DEF OnlyRequests, ReceivePublish, CallbackDone, SendPuback, NestedCall, At, RequestFrame
  <2>4. ~(DisconnectEnter(t) \/ DisconnectCheck(t) \/ DisconnectSend(t) \/ DisconnectClose(t) \/ DisconnectAssign(t))
    BY <2>1, <2>2 DEF DisconnectEnter, DisconnectCheck, DisconnectSend, DisconnectClose, DisconnectAssign, At, RequestFrame
  <2>5. ~(ReconnectEnter(t) \/ ReconnectCheck(t) \/ HandleReconnect(t) \/ Backoff(t) \/ ArmReconnect(t))
    BY <2>1, <2>2 DEF ReconnectEnter, ReconnectCheck, HandleReconnect, Backoff, ArmReconnect, At, RequestFrame
  <2>6. ~(YieldLeave(t) \/ YieldIterate(t) \/ YieldRead(t) \/ KeepAlive(t) \/ KeepAliveLost(t))
    BY <2>1, <2>2 DEF YieldLeave, YieldIterate, YieldRead, KeepAlive, KeepAliveLost, At, RequestFrame
  <2>7. ~(ForceState(t) \/ ForceDestroy(t) \/ HandlerDone(t))
    BY <2>1, <2>2 DEF ForceState, ForceDestroy, HandlerDone, At, RequestFrame
  \* The steps that only move the frame to another place.
  <2> DEFINE Moved(pc) == \/ Goto(t, pc)
                          \/ \E rc : GotoRc(t, pc, rc)
                          \/ \E n : SetTop(t, [g EXCEPT !.pc = pc, !.left = n])
  <2>8. ASSUME NEW pc, Moved(pc), depth[t] > 0, g.pc \notin CasPcs, clientState' = clientState,
               stateMutex' = stateMutex, pc \notin {"enter", "begin"},
               \/ g.fn = "connect" /\ pc \in {"connack", "cleanup", "done", "fail", "return"}
               \/ g.fn \in Acked /\ pc = "return"
               \/ g.fn \in Acked /\ pc \in {"send", "wait", "end"} /\ g.pc \in {"send", "wait"}
        PROVE  ExclusionInv'
    <3>1. PICK f : SetTop(t, f) /\ f.fn = g.fn /\ f.pc = pc
      <4>1. g \in Frames
        BY <2>1, <2>8
      <4> HIDE DEF g
      <4>2. \A rc : [g EXCEPT !.pc = pc, !.rc = rc].fn = g.fn /\ [g EXCEPT !.pc = pc, !.rc = rc].pc = pc
        BY <4>1 DEF Frames
      <4>3. \A n : [g EXCEPT !.pc = pc, !.left = n].fn = g.fn /\ [g EXCEPT !.pc = pc, !.left = n].pc = pc
        BY <4>1 DEF Frames
      <4>4. [g EXCEPT !.pc = pc].fn = g.fn /\ [g EXCEPT !.pc = pc].pc = pc
        BY <4>1 DEF Frames
      <4> QED BY <2>8, <4>2, <4>3, <4>4 DEF Goto, GotoRc, g
    <3>2. RequestFrame(f)
      BY <2>1, <2>2, <2>8, <3>1 DEF RequestFrame
    <3>3. Requesting(f) => Requesting(g)
      BY <2>2, <2>8, <3>1 DEF Requesting, Answers
    <3>4. ExclusionMove(t, f)
      BY <2>8, <3>1, <3>2, <3>3 DEF ExclusionMove
    <3> QED BY <1>0, <3>4, ExclusionMoveKeeps
  <2>9. CASE ReceiveAck(t)
    <3>1. PICK pc : /\ Moved(pc) /\ depth[t] > 0 /\ g.pc \notin CasPcs /\ clientState' = clientState
                    /\ stateMutex' = stateMutex /\ pc \notin {"enter", "begin"}
                    /\ \/ g.fn = "connect" /\ pc \in {"connack", "cleanup", "done", "fail", "return"}
                       \/ g.fn \in Acked /\ pc \in {"send", "wait", "end"} /\ g.pc \in {"send", "wait"}
      BY <2>1, <2>2, <2>9 DEF ReceiveAck, At, CasPcs, RequestFrame
    <3> HIDE DEF Moved
    <3> QED BY <2>8, <3>1
  <2>10. CASE WaitTimeout(t)
    <3>1. PICK pc : /\ Moved(pc) /\ depth[t] > 0 /\ g.pc \notin CasPcs /\ clientState' = clientState
                    /\ stateMutex' = stateMutex /\ pc \notin {"enter", "begin"}
                    /\ \/ g.fn = "connect" /\ pc \in {"connack", "cleanup", "done", "fail", "return"}
                       \/ g.fn \in Acked /\ pc \in {"send", "wait", "end"} /\ g.pc \in {"send", "wait"}
      BY <2>1, <2>2, <2>10 DEF WaitTimeout, At, CasPcs, RequestFrame
    <3> HIDE DEF Moved
    <3> QED BY <2>8, <3>1
  <2>11. CASE ReceivePingresp(t)
    <3>1. PICK pc : /\ Moved(pc) /\ depth[t] > 0 /\ g.pc \notin CasPcs /\ clientState' = clientState
                    /\ stateMutex' = stateMutex /\ pc \notin {"enter", "begin"}
                    /\ \/ g.fn = "connect" /\ pc \in {"connack", "cleanup", "done", "fail", "return"}
                       \/ g.fn \in Acked /\ pc \in {"send", "wait", "end"} /\ g.pc \in {"send", "wait"}
      BY <2>1, <2>2, <2>11 DEF ReceivePingresp, At, CasPcs, RequestFrame
    <3> HIDE DEF Moved
    <3> QED BY <2>8, <3>1
  <2>12. CASE ConnectTls(t)
    <3>1. PICK pc : /\ Moved(pc) /\ depth[t] > 0 /\ g.pc \notin CasPcs /\ clientState' = clientState
                    /\ stateMutex' = stateMutex /\ pc \notin {"enter", "begin"}
                    /\ \/ g.fn = "connect" /\ pc \in {"connack", "cleanup", "done", "fail", "return"}
                       \/ g.fn \in Acked /\ pc \in {"send", "wait", "end"} /\ g.pc \in {"send", "wait"}
      BY <2>1, <2>2, <2>12 DEF ConnectTls, At, CasPcs, RequestFrame
    <3> HIDE DEF Moved
    <3> QED BY <2>8, <3>1
  <2>13. CASE ConnectMqtt(t)
    <3>1. PICK pc : /\ Moved(pc) /\ depth[t] > 0 /\ g.pc \notin CasPcs /\ clientState' = clientState
                    /\ stateMutex' = stateMutex /\ pc \notin {"enter", "begin"}
                    /\ \/ g.fn = "connect" /\ pc \in {"connack", "cleanup", "done", "fail", "return"}
                       \/ g.fn \in Acked /\ pc \in {"send", "wait", "end"} /\ g.pc \in {"send", "wait"}
      BY <2>1, <2>2, <2>13 DEF ConnectMqtt, At, CasPcs, RequestFrame
    <3> HIDE DEF Moved
    <3> QED BY <2>8, <3>1
  <2>14. CASE ConnectCleanup(t)
    <3>1. PICK pc : /\ Moved(pc) /\ depth[t] > 0 /\ g.pc \notin CasPcs /\ clientState' = clientState
                    /\ stateMutex' = stateMutex /\ pc \notin {"enter", "begin"}
                    /\ \/ g.fn = "connect" /\ pc \in {"connack", "cleanup", "done", "fail", "return"}
                       \/ g.fn \in Acked /\ pc \in {"send", "wait", "end"} /\ g.pc \in {"send", "wait"}
      BY <2>1, <2>2, <2>14 DEF ConnectCleanup, At, CasPcs, RequestFrame
    <3> HIDE DEF Moved
    <3> QED BY <2>8, <3>1
  <2>15. CASE Send(t)
    <3>1. PICK pc : /\ Moved(pc) /\ depth[t] > 0 /\ g.pc \notin CasPcs /\ clientState' = clientState
                    /\ stateMutex' = stateMutex /\ pc \notin {"enter", "begin"}
                    /\ \/ g.fn = "connect" /\ pc \in {"connack", "cleanup", "done", "fail", "return"}
                       \/ g.fn \in Acked /\ pc \in {"send", "wait", "end"} /\ g.pc \in {"send", "wait"}
      BY <2>1, <2>2, <2>15 DEF Send, At, CasPcs, RequestFrame
    <3> HIDE DEF Moved
    <3> QED BY <2>8, <3>1
  <2>16. CASE Enter(t)
    <3>1. /\ depth[t] > 0 /\ g.pc = "enter" /\ g \in Frames /\ RequestFrame(g)
          /\ clientState' = clientState /\ stateMutex' = stateMutex
      BY <2>1, <2>16 DEF Enter, At
    <3>2. CASE clientState \in Admits[g.fn]
      <4>1. PICK n : SetTop(t, [g EXCEPT !.pc = "begin", !.saved = clientState, !.left = n])
        <5>1. g.fn # "yield"
          BY <2>2, <3>1 DEF RequestFrame
        <5> QED BY <2>16, <3>2, <5>1 DEF Enter
      <4> DEFINE f == [g EXCEPT !.pc = "begin", !.saved = clientState, !.left = n]
      <4>2. f.fn = g.fn /\ f.pc = "begin" /\ f.saved = clientState /\ SetTop(t, f)
        BY <3>1, <4>1 DEF Frames
      <4> HIDE DEF f
      <4>3. RequestFrame(f) /\ ~Requesting(f) /\ g.pc \notin CasPcs
        BY <3>1, <3>2, <4>2 DEF RequestFrame, Requesting, Answers, CasPcs
      <4>4. ExclusionMove(t, f)
        BY <3>1, <4>2, <4>3 DEF ExclusionMove
      <4> QED BY <1>0, <4>4, ExclusionMoveKeeps
    <3>3. CASE clientState \notin Admits[g.fn]
      <4>1. Moved("return")
        BY <2>16, <3>3 DEF Enter
      <4>2. g.pc \notin CasPcs /\ g.fn \in Acked \union {"connect"}
        BY <3>1 DEF RequestFrame, CasPcs
      <4> HIDE DEF Moved
      <4> QED BY <2>8, <3>1, <4>1, <4>2
    <3> QED BY <3>2, <3>3
  <2>17. CASE LockAndCompare(t)
    <3> DEFINE f == [g EXCEPT !.match = (clientState = Expected(g))]
    <3>1. depth[t] > 0 /\ g \in Frames /\ RequestFrame(g) /\ g.pc \in CasPcs
      BY <2>1, <2>17 DEF LockAndCompare
    <3>2. /\ f.fn = g.fn /\ f.pc = g.pc /\ f.saved = g.saved /\ f.rc = g.rc
          /\ f.match <=> clientState = Expected(g)
      BY <3>1 DEF Frames
    <3>3. SetTop(t, f) /\ stateMutex' = t /\ clientState' = clientState
      BY <2>17 DEF LockAndCompare
    <3> HIDE DEF f
    <3>4. Expected(f) = Expected(g) /\ RequestFrame(f) /\ (Requesting(f) <=> Requesting(g))
      BY <3>1, <3>2 DEF Expected, RequestFrame, Requesting, Answers
    <3>5. ExclusionMove(t, f)
      BY <3>1, <3>2, <3>3, <3>4 DEF ExclusionMove
    <3> QED BY <1>0, <3>5, ExclusionMoveKeeps
  <2>18. CASE SwapAndUnlock(t)
    BY <1>0, <2>18, ExclusionSwap
  <2>19. CASE TryLockFails(t)
    <3> DEFINE f == [g EXCEPT !.pc = AfterCas(g, FALSE), !.rc = RcAfterCas(g, FALSE)]
    <3>1. depth[t] > 0 /\ g \in Frames /\ RequestFrame(g) /\ g.pc \in CasPcs
      BY <2>1, <2>19 DEF TryLockFails
    <3>2. f.fn = g.fn /\ f.pc = AfterCas(g, FALSE) /\ f.saved = g.saved
      BY <3>1 DEF Frames
    <3>3. SetTop(t, f) /\ stateMutex' = stateMutex /\ clientState' = clientState /\ stateMutex # t
      BY <2>19 DEF TryLockFails
    <3> HIDE DEF f
    <3>4. f.pc \in {"return", "tls"} /\ (f.pc = "tls" => f.fn = "connect")
      BY <3>1, <3>2 DEF RequestFrame, AfterCas, CasPcs, Acked, Requests
    <3>5. RequestFrame(f) /\ ~Requesting(f)
      BY <2>2, <3>1, <3>2, <3>4 DEF RequestFrame, Requesting, Answers
    <3>6. ExclusionMove(t, f)
      BY <3>1, <3>2, <3>3, <3>5 DEF ExclusionMove
    <3> QED BY <1>0, <3>6, ExclusionMoveKeeps
  <2>20. CASE SetAutoReconnect(t)
    BY <1>0, <2>20 DEF SetAutoReconnect, ExclusionInv, RequestExclusion
  <2>21. CASE \E fn \in Calls : Call(t, fn)
    <3>1. PICK fn \in Calls : Call(t, fn)
      BY <2>21
    <3> DEFINE f == [NoFrame EXCEPT !.fn = fn, !.pc = "enter"]
    <3>2. /\ depth[t] = 0 /\ depth' = [depth EXCEPT ![t] = 1]
          /\ clientState' = clientState /\ stateMutex' = stateMutex
          /\ frame' = [frame EXCEPT ![t] = [frame[t] EXCEPT ![1] = f]]
      BY <3>1 DEF Call, ExclusionInv, TypeOK
    <3>3. f.fn = fn /\ f.pc = "enter"
      BY DEF NoFrame
    <3>4. fn \in {"connect", "publish", "subscribe", "resubscribe"}
      BY <3>1 DEF Call, OnlyRequests, Calls, Acked, Requests
    <3> HIDE DEF f
    <3>5. RequestFrame(f) /\ ~Requesting(f)
      BY <3>3, <3>4 DEF RequestFrame, Requesting, Answers, Acked, Requests
    <3>6. frame'[t][1] = f /\ \A u \in Threads : u # t => frame'[u] = frame[u] /\ depth'[u] = depth[u]
      BY <3>2, ConstantsAssumption DEF ExclusionInv, TypeOK
    <3>7. \A u \in Threads : \A d \in 1..depth[u] : d = 1 /\ depth[u] = 1
      BY DEF ExclusionInv
    <3>8. depth'[t] = 1 /\ \A d \in 1..depth'[t] : d = 1
      BY <3>2 DEF ExclusionInv, TypeOK
    <3>9. RequestExclusion'
      <4> SUFFICES ASSUME NEW u \in Threads, NEW v \in Threads, NEW d \in 1..depth'[u], NEW e \in 1..depth'[v],
                          Requesting(frame'[u][d]), Requesting(frame'[v][e])
                   PROVE  u = v
        BY DEF RequestExclusion
      <4>1. u # t /\ v # t
        BY <3>5, <3>6, <3>8
      <4> QED BY <3>6, <4>1 DEF ExclusionInv, RequestExclusion
    <3>10. stateMutex # t
      BY <3>2 DEF ExclusionInv
    <3> QED BY <1>0, <3>2, <3>5, <3>6, <3>8, <3>9, <3>10 DEF ExclusionInv
  <2>22. CASE Return(t)
    <3>1. depth[t] = 1 /\ g.pc = "return" /\ g = frame[t][1] /\ clientState' = clientState /\ stateMutex' = stateMutex
      BY <2>1, <2>22 DEF Return
    <3>2. depth' = [depth EXCEPT ![t] = depth[t] - 1] /\ depth'[t] = 0
      BY <3>1, <2>22 DEF Return, ExclusionInv, TypeOK
    <3>3. \A u \in Threads : u # t => frame'[u] = frame[u] /\ depth'[u] = depth[u]
      <4> DEFINE h == [d \in 1..MaxDepth |->
                         CASE d = depth[t]     -> NoFrame
                           [] d + 1 = depth[t] -> Resume(frame[t][d], Top(t).rc)
                           [] OTHER            -> frame[t][d]]
      <4>1. frame' = [frame EXCEPT ![t] = h]
        BY <2>22 DEF Return
      <4> HIDE DEF h
      <4> QED BY <3>2, <4>1 DEF ExclusionInv, TypeOK
    <3>4. stateMutex # t
      BY <3>1 DEF ExclusionInv, CasPcs
    <3>5. RequestExclusion'
      <4> SUFFICES ASSUME NEW u \in Threads, NEW v \in Threads, NEW d \in 1..depth'[u], NEW e \in 1..depth'[v],
                          Requesting(frame'[u][d]), Requesting(frame'[v][e])
                   PROVE  u = v
        BY DEF RequestExclusion
      <4>1. u # t /\ v # t
        BY <3>2
      <4> QED BY <3>3, <4>1 DEF ExclusionInv, RequestExclusion
    <3> QED BY <1>0, <3>1, <3>2, <3>3, <3>4, <3>5 DEF ExclusionInv
  <2> QED
    BY <1>2, <2>3, <2>4, <2>5, <2>6, <2>7, <2>9, <2>10, <2>11, <2>12, <2>13, <2>14, <2>15, <2>16, <2>17, <2>18, <2>19, <2>20, <2>21, <2>22 DEF Step, App
<1> QED BY <1>1, <1>2 DEF Next

\* However many threads connect, publish, subscribe and resubscribe, and whether or not they
\* block on the lock: the client state names the request in progress, and what the holder of the
\* lock compared still holds when it swaps.
THEOREM RequestsInductive == OnlyRequests => (Spec => []ExclusionInv)
<1> SUFFICES ASSUME OnlyRequests PROVE Spec => []ExclusionInv
  OBVIOUS
<1>1. Init => ExclusionInv
  <2> SUFFICES ASSUME Init PROVE ExclusionInv
    OBVIOUS
  <2>1. TypeOK
    BY InitType
  <2>2. stateMutex \notin Threads /\ \A t \in Threads : depth[t] = 0 /\ 1..depth[t] = {}
    BY ConstantsAssumption DEF Init
  <2> QED BY <2>1, <2>2 DEF ExclusionInv, RequestExclusion
<1>2. ExclusionInv /\ [Next]_vars => ExclusionInv'
  BY ExclusionStep
<1> QED BY <1>1, <1>2, PTL DEF Spec

\* For such threads the compare-and-swap of set_client_state admits one request at a time.
THEOREM RequestsExclude == OnlyRequests => (Spec => []RequestExclusion)
<1>1. ExclusionInv => RequestExclusion
  BY DEF ExclusionInv
<1> QED BY <1>1, RequestsInductive, PTL

-----------------------------------------------------------------------------
(* An application with one thread never finds the client in an in-progress *)
(* state that no call answers for.                                         *)

\* The client is used by one thread only.
SingleThread == \A t, u \in Threads : t = u

\* What replacing the top frame does to the stack of its thread.
LEMMA SetTopEffect ==
  ASSUME TypeOK, NEW t \in Threads, depth[t] > 0, NEW f, SetTop(t, f)
  PROVE  /\ depth' = depth
         /\ depth[t] \in 1..MaxDepth
         /\ frame'[t][depth[t]] = f
         /\ \A d \in 1..MaxDepth : d # depth[t] => frame'[t][d] = frame[t][d]
BY ConstantsAssumption DEF TypeOK, SetTop

\* What a call does to the stack of its thread.
LEMMA PushEffect ==
  ASSUME TypeOK, NEW t \in Threads, NEW pc, NEW fn, Push(t, pc, fn)
  PROVE  /\ depth[t] \in 1..MaxDepth /\ depth[t] + 1 \in 1..MaxDepth
         /\ depth'[t] = depth[t] + 1
         /\ frame'[t][depth[t]] = [Top(t) EXCEPT !.pc = pc]
         /\ frame'[t][depth[t] + 1] = [NoFrame EXCEPT !.fn = fn, !.pc = "enter"]
         /\ \A d \in 1..MaxDepth : d < depth[t] => frame'[t][d] = frame[t][d]
<1> DEFINE f == [Top(t) EXCEPT !.pc = pc]
           g == [NoFrame EXCEPT !.fn = fn, !.pc = "enter"]
<1> HIDE DEF f, g
<1>1. depth[t] > 0 /\ depth[t] < MaxDepth /\ depth' = [depth EXCEPT ![t] = depth[t] + 1]
  BY DEF Push, TypeOK
<1>2. depth[t] \in 1..MaxDepth /\ depth[t] + 1 \in 1..MaxDepth /\ depth'[t] = depth[t] + 1
  BY <1>1, ConstantsAssumption DEF TypeOK
<1>3. frame' = [frame EXCEPT ![t] = [frame[t] EXCEPT ![depth[t]] = f, ![depth[t] + 1] = g]]
  BY DEF Push, f, g, TypeOK
<1>4. frame'[t] = [frame[t] EXCEPT ![depth[t]] = f, ![depth[t] + 1] = g]
  BY <1>3 DEF TypeOK
<1>5. frame[t] \in [1..MaxDepth -> Frames]
  BY DEF TypeOK
<1>6. /\ frame'[t][depth[t]] = f
      /\ frame'[t][depth[t] + 1] = g
      /\ \A d \in 1..MaxDepth : d < depth[t] => frame'[t][d] = frame[t][d]
  <2> DEFINE n == depth[t]
  <2>1. n \in 1..MaxDepth /\ n + 1 \in 1..MaxDepth /\ n \in Nat /\ n # n + 1
    BY <1>2
  <2>2. frame'[t] = [frame[t] EXCEPT ![n] = f, ![n + 1] = g]
    BY <1>4
  <2>3. DOMAIN frame[t] = 1..MaxDepth
    BY <1>5
  <2> HIDE DEF n
  <2>4. frame'[t][n] = f /\ frame'[t][n + 1] = g
    BY <2>1, <2>2, <2>3
  <2>5. ASSUME NEW d \in 1..MaxDepth, d < n PROVE frame'[t][d] = frame[t][d]
    <3>1. d # n /\ d # n + 1
      BY <2>1, <2>5
    <3> QED BY <2>2, <2>3, <2>5, <3>1
  <2> QED BY <2>4, <2>5 DEF n
<1> QED BY <1>2, <1>6 DEF f, g

\* A replacement of the top frame that accounts for the state keeps NoGhost and SavedAnswered.
LEMMA SetTopAnswered ==
  ASSUME SingleThread, TypeOK, NoGhost, SavedAnswered,
         NEW t \in Threads, depth[t] > 0, NEW f, SetTop(t, f),
         f.fn = Top(t).fn,
         \/ f.saved = Top(t).saved
         \/ f.saved \notin InProgress
         \/ f.saved = clientState /\ ~Answers(Top(t)),
         \/ clientState' \notin InProgress
         \/ Answers(f) /\ clientState' = Own[f.fn]
         \/ clientState' = clientState /\ (Answers(Top(t)) => Answers(f) \/ clientState # Own[f.fn])
         \/ clientState' = Top(t).saved
  PROVE  NoGhost' /\ SavedAnswered'
<1>1. /\ depth' = depth
      /\ depth[t] \in 1..MaxDepth
      /\ frame'[t][depth[t]] = f
      /\ \A d \in 1..MaxDepth : d # depth[t] => frame'[t][d] = frame[t][d]
  BY SetTopEffect
<1>2. \A d \in 1..depth[t] : d \in 1..MaxDepth
  BY <1>1, ConstantsAssumption
<1>3. clientState \in InProgress =>
        \E d \in 1..depth[t] : Answers(frame[t][d]) /\ Own[frame[t][d].fn] = clientState
  BY DEF NoGhost, SingleThread
<1>4. \A d \in 1..depth[t] : frame[t][d].saved \in InProgress =>
        \E e \in 1..(d - 1) : Answers(frame[t][e]) /\ Own[frame[t][e].fn] = frame[t][d].saved
  BY DEF SavedAnswered
<1>5. Top(t) = frame[t][depth[t]]
  BY DEF Top
<1>6. \A d \in 1..depth[t] : \A e \in 1..(d - 1) : e \in 1..depth[t] /\ e < depth[t] /\ e \in 1..MaxDepth
  BY <1>1, ConstantsAssumption
<1>7. clientState' \in InProgress =>
        \E d \in 1..depth[t] : Answers(frame'[t][d]) /\ Own[frame'[t][d].fn] = clientState'
  <2> SUFFICES ASSUME clientState' \in InProgress
               PROVE  \E d \in 1..depth[t] : Answers(frame'[t][d]) /\ Own[frame'[t][d].fn] = clientState'
    OBVIOUS
  <2>0. depth[t] \in 1..depth[t]
    BY <1>1
  <2>1. CASE Answers(f) /\ clientState' = Own[f.fn]
    BY <2>0, <2>1, <1>1
  <2>2. CASE clientState' = clientState /\ (Answers(Top(t)) => Answers(f) \/ clientState # Own[f.fn])
    <3>1. PICK d \in 1..depth[t] : Answers(frame[t][d]) /\ Own[frame[t][d].fn] = clientState
      BY <2>2, <1>3
    <3>2. CASE d = depth[t]
      BY <3>1, <3>2, <2>2, <2>0, <1>1, <1>5
    <3>3. CASE d # depth[t]
      BY <3>1, <3>3, <2>2, <1>1, <1>2
    <3> QED BY <3>2, <3>3
  <2>3. CASE clientState' = Top(t).saved
    <3>1. PICK e \in 1..(depth[t] - 1) : Answers(frame[t][e]) /\ Own[frame[t][e].fn] = Top(t).saved
      BY <2>0, <2>3, <1>4, <1>5
    <3> QED BY <3>1, <2>0, <2>3, <1>1, <1>6
  <2> QED BY <2>1, <2>2, <2>3
<1>8. ASSUME NEW d \in 1..depth[t], frame'[t][d].saved \in InProgress
      PROVE  \E e \in 1..(d - 1) : Answers(frame'[t][e]) /\ Own[frame'[t][e].fn] = frame'[t][d].saved
  <2>1. CASE d = depth[t] /\ f.saved = clientState /\ ~Answers(Top(t))
    <3>1. PICK e \in 1..depth[t] : Answers(frame[t][e]) /\ Own[frame[t][e].fn] = clientState
      BY <1>1, <1>3, <1>8, <2>1
    <3>2. e # depth[t]
      BY <3>1, <2>1, <1>5
    <3>3. e \in 1..(d - 1) /\ frame'[t][e] = frame[t][e]
      BY <3>2, <2>1, <1>1, <1>2
    <3> QED BY <3>1, <3>3, <2>1, <1>1
  <2>2. CASE frame'[t][d].saved = frame[t][d].saved
    <3>1. PICK e \in 1..(d - 1) : Answers(frame[t][e]) /\ Own[frame[t][e].fn] = frame[t][d].saved
      BY <1>4, <1>8, <2>2
    <3> QED BY <3>1, <2>2, <1>1, <1>6
  <2> QED BY <2>1, <2>2, <1>1, <1>2, <1>5, <1>8
<1>9. NoGhost'
  BY <1>1, <1>7 DEF NoGhost
<1>10. SavedAnswered'
  BY <1>1, <1>8 DEF SavedAnswered, SingleThread
<1> QED BY <1>9, <1>10

\* A call whose caller goes on answering keeps NoGhost and SavedAnswered.
LEMMA PushAnswered ==
  ASSUME SingleThread, TypeOK, NoGhost, SavedAnswered,
         NEW t \in Threads, NEW pc, NEW fn, Push(t, pc, fn), clientState' = clientState,
         Answers(Top(t)) => Answers([Top(t) EXCEPT !.pc = pc]) \/ clientState # Own[Top(t).fn]
  PROVE  NoGhost' /\ SavedAnswered'
<1> DEFINE f == [Top(t) EXCEPT !.pc = pc]
           g == [NoFrame EXCEPT !.fn = fn, !.pc = "enter"]
<1>1. /\ depth[t] \in 1..MaxDepth /\ depth[t] + 1 \in 1..MaxDepth
      /\ depth'[t] = depth[t] + 1
      /\ frame'[t][depth[t]] = f
      /\ frame'[t][depth[t] + 1] = g
      /\ \A d \in 1..MaxDepth : d < depth[t] => frame'[t][d] = frame[t][d]
  BY PushEffect
<1>2. Top(t) = frame[t][depth[t]] /\ Top(t) \in Frames
  BY <1>1, TopType, ConstantsAssumption DEF Top
<1>3. f.fn = Top(t).fn /\ f.saved = Top(t).saved
  BY <1>2 DEF Frames
<1>4. g.saved \notin InProgress
  BY DEF NoFrame, InProgress, ConnectedStates
<1> HIDE DEF f, g
<1>5. clientState \in InProgress =>
        \E d \in 1..depth[t] : Answers(frame[t][d]) /\ Own[frame[t][d].fn] = clientState
  BY DEF NoGhost, SingleThread
<1>6. \A d \in 1..depth[t] : frame[t][d].saved \in InProgress =>
        \E e \in 1..(d - 1) : Answers(frame[t][e]) /\ Own[frame[t][e].fn] = frame[t][d].saved
  BY DEF SavedAnswered
<1>7. ASSUME clientState' \in InProgress
      PROVE  \E d \in 1..depth'[t] : Answers(frame'[t][d]) /\ Own[frame'[t][d].fn] = clientState'
  <2>1. PICK d \in 1..depth[t] : Answers(frame[t][d]) /\ Own[frame[t][d].fn] = clientState
    BY <1>5, <1>7
  <2>2. d \in 1..depth'[t]
    BY <1>1
  <2>3. CASE d = depth[t]
    BY <2>1, <2>2, <2>3, <1>1, <1>2, <1>3 DEF f
  <2>4. CASE d # depth[t]
    <3>1. frame'[t][d] = frame[t][d]
      BY <1>1, <2>4, ConstantsAssumption
    <3> QED BY <2>1, <2>2, <3>1
  <2> QED BY <2>3, <2>4
<1>8. ASSUME NEW d \in 1..depth'[t], frame'[t][d].saved \in InProgress
      PROVE  \E e \in 1..(d - 1) : Answers(frame'[t][e]) /\ Own[frame'[t][e].fn] = frame'[t][d].saved
  <2>1. d # depth[t] + 1
    BY <1>1, <1>4, <1>8
  <2>2. d \in 1..depth[t]
    BY <1>1, <2>1
  <2>3. frame'[t][d].saved = frame[t][d].saved
    BY <1>1, <1>2, <1>3, <2>2, ConstantsAssumption
  <2>4. PICK e \in 1..(d - 1) : Answers(frame[t][e]) /\ Own[frame[t][e].fn] = frame[t][d].saved
    BY <1>6, <1>8, <2>2, <2>3
  <2>5. frame'[t][e] = frame[t][e]
    BY <1>1, <2>2, <2>4, ConstantsAssumption
  <2> QED BY <2>3, <2>4, <2>5
<1>9. NoGhost'
  BY <1>7 DEF NoGhost
<1>10. SavedAnswered'
  BY <1>8 DEF SavedAnswered, SingleThread
<1> QED BY <1>9, <1>10

\* What Return does to the stack of its thread.
LEMMA ReturnEffect ==
  ASSUME TypeOK, NEW t \in Threads, Return(t)
  PROVE  /\ depth[t] \in 1..MaxDepth /\ Top(t).pc = "return"
         /\ depth'[t] = depth[t] - 1
         /\ depth[t] > 1 => /\ depth[t] - 1 \in 1..MaxDepth
                            /\ frame'[t][depth[t] - 1] = Resume(frame[t][depth[t] - 1], Top(t).rc)
         /\ \A d \in 1..MaxDepth : d < depth[t] - 1 => frame'[t][d] = frame[t][d]
<1> DEFINE g(d) == CASE d = depth[t]     -> NoFrame
                     [] d + 1 = depth[t] -> Resume(frame[t][d], Top(t).rc)
                     [] OTHER            -> frame[t][d]
<1>1. frame' = [frame EXCEPT ![t] = [d \in 1..MaxDepth |-> g(d)]]
  BY DEF Return
<1>2. depth[t] \in 1..MaxDepth /\ Top(t).pc = "return" /\ depth'[t] = depth[t] - 1
  BY ConstantsAssumption DEF Return, TypeOK
<1>3. \A d \in 1..MaxDepth : d < depth[t] - 1 => g(d) = frame[t][d]
  BY <1>2
<1>4. depth[t] > 1 => /\ depth[t] - 1 \in 1..MaxDepth
                      /\ g(depth[t] - 1) = Resume(frame[t][depth[t] - 1], Top(t).rc)
  BY <1>2, ConstantsAssumption
<1> HIDE DEF g
<1>5. \A d \in 1..MaxDepth : frame'[t][d] = g(d)
  BY <1>1 DEF TypeOK
<1> QED BY <1>2, <1>3, <1>4, <1>5

\* A caller that resumes still answers for its state, except the yield whose own disconnect
\* has just closed the connection.
LEMMA ResumeAnswers ==
  ASSUME NEW g \in Frames, NEW rc \in ReturnCodes
  PROVE  /\ Resume(g, rc).fn = g.fn
         /\ Resume(g, rc).saved = g.saved
         /\ Answers(g) => \/ Answers(Resume(g, rc))
                          \/ g.fn = "attempt_reconnect"
                          \/ g.fn = "yield" /\ g.pc = "disconnect" /\ rc = "SUCCESS"
<1>1. CASE g.fn = "yield" /\ g.pc = "read"
  BY <1>1 DEF Resume, Frames, Answers
<1>2. CASE g.fn = "yield" /\ g.pc = "disconnect"
  BY <1>2 DEF Resume, Frames, Answers
<1>3. CASE g.fn = "yield" /\ g.pc = "reconnect"
  BY <1>3 DEF Resume, Frames, Answers
<1>4. CASE g.fn = "attempt_reconnect"
  BY <1>4 DEF Resume, Frames
<1> QED BY <1>1, <1>2, <1>3, <1>4 DEF Resume

\* A step of thread t that replaces its top frame by one for which this holds keeps
\* SingleThreadInv.
Moves(t, f) ==
  /\ depth[t] > 0
  /\ SetTop(t, f)
  /\ f.fn = Top(t).fn
  /\ \/ f.saved = Top(t).saved
     \/ f.saved \notin InProgress
     \/ f.saved = clientState /\ ~Answers(Top(t))
  /\ \/ clientState' \notin InProgress
     \/ Answers(f) /\ clientState' = Own[f.fn]
     \/ clientState' = clientState /\ (Answers(Top(t)) => Answers(f) \/ clientState # Own[f.fn])
     \/ clientState' = Top(t).saved
  /\ f.pc \in {"enter", "begin"} => f.rc = "SUCCESS"
  /\ f.fn = "disconnect" =>
       /\ f.pc \in CasPcs => f.pc = "begin"
       /\ f.pc = "check" => f.rc = "SUCCESS"
       /\ f.pc = "restore" => f.rc # "SUCCESS"
       /\ f.pc = "return" /\ f.rc = "SUCCESS" => clientState' = "DISCONNECTED_MANUALLY"
  /\ \/ Top(t).pc \notin CasPcs /\ stateMutex' = stateMutex
     \/ stateMutex' = NoThread
     \/ stateMutex' = t /\ f.pc \in CasPcs /\ (f.match <=> clientState' = Expected(f))

\* The step above keeps the invariant.
LEMMA MoveKeeps ==
  ASSUME SingleThread, SingleThreadInv, NEW t \in Threads, NEW f, Moves(t, f), TypeOK'
  PROVE  SingleThreadInv'
<1> USE DEF SingleThreadInv
<1>1. NoGhost' /\ SavedAnswered'
  BY SetTopAnswered DEF Moves
<1>2. /\ depth' = depth
      /\ depth[t] \in 1..MaxDepth
      /\ frame'[t][depth[t]] = f
      /\ \A d \in 1..MaxDepth : d # depth[t] => frame'[t][d] = frame[t][d]
  BY SetTopEffect DEF Moves
<1>3. Top(t)' = f /\ \A d \in 1..depth[t] : d \in 1..MaxDepth
  BY <1>2, ConstantsAssumption DEF Top
<1>4. MutexOK'
  <2> SUFFICES ASSUME stateMutex' = t
               PROVE  depth'[t] > 0 /\ Top(t)'.pc \in CasPcs /\ (Top(t)'.match <=> clientState' = Expected(Top(t)'))
    BY DEF MutexOK, SingleThread
  <2>1. stateMutex' # NoThread
    BY ConstantsAssumption
  <2>2. ~(Top(t).pc \notin CasPcs /\ stateMutex' = stateMutex)
    BY DEF MutexOK
  <2> QED BY <1>2, <1>3, <2>1, <2>2 DEF Moves
<1>5. FramesOK'
  <2> SUFFICES ASSUME NEW d \in 1..depth[t]
               PROVE  /\ frame'[t][d].pc \in {"enter", "begin"} => frame'[t][d].rc = "SUCCESS"
                      /\ frame'[t][d].fn = "disconnect" =>
                           /\ frame'[t][d].pc \in CasPcs => frame'[t][d].pc = "begin"
                           /\ frame'[t][d].pc = "check" => frame'[t][d].rc = "SUCCESS"
                           /\ frame'[t][d].pc = "restore" => frame'[t][d].rc # "SUCCESS"
    BY <1>2 DEF FramesOK, SingleThread
  <2>1. CASE d = depth[t]
    BY <1>2, <2>1 DEF Moves
  <2>2. CASE d # depth[t]
    BY <1>2, <1>3, <2>2 DEF FramesOK
  <2> QED BY <2>1, <2>2
<1>6. DisconnectOK'
  BY <1>3 DEF DisconnectOK, At, Moves, SingleThread
<1>7. CallersOK'
  <2> SUFFICES ASSUME NEW d \in 1..depth[t], d < depth[t]
               PROVE  /\ frame'[t][d].fn # "disconnect"
                      /\ frame'[t][d].fn = "yield" /\ frame'[t][d].pc = "disconnect" =>
                           frame'[t][d + 1].fn = "disconnect"
    BY <1>2 DEF CallersOK, SingleThread
  <2>1. frame'[t][d] = frame[t][d] /\ d + 1 \in 1..MaxDepth
    BY <1>2, <1>3
  <2>2. frame'[t][d + 1].fn = frame[t][d + 1].fn
    BY <1>2, <2>1 DEF Moves, Top
  <2> QED BY <2>1, <2>2 DEF CallersOK
<1> QED BY <1>1, <1>4, <1>5, <1>6, <1>7

\* A call from a place outside set_client_state keeps SingleThreadInv.
LEMMA PushKeeps ==
  ASSUME SingleThread, SingleThreadInv, NEW t \in Threads, NEW pc, NEW fn,
         Push(t, pc, fn), TypeOK', clientState' = clientState, stateMutex' = stateMutex,
         Top(t).fn # "disconnect", Top(t).pc \notin CasPcs, pc \notin {"enter", "begin"},
         Top(t).fn = "yield" /\ pc = "disconnect" => fn = "disconnect",
         Answers(Top(t)) => Answers([Top(t) EXCEPT !.pc = pc]) \/ clientState # Own[Top(t).fn]
  PROVE  SingleThreadInv'
<1> USE DEF SingleThreadInv
<1> DEFINE f == [Top(t) EXCEPT !.pc = pc]
           g == [NoFrame EXCEPT !.fn = fn, !.pc = "enter"]
<1>1. NoGhost' /\ SavedAnswered'
  BY PushAnswered
<1>2. /\ depth[t] \in 1..MaxDepth /\ depth[t] + 1 \in 1..MaxDepth
      /\ depth'[t] = depth[t] + 1
      /\ frame'[t][depth[t]] = f
      /\ frame'[t][depth[t] + 1] = g
      /\ \A d \in 1..MaxDepth : d < depth[t] => frame'[t][d] = frame[t][d]
  BY PushEffect
<1>3. /\ Top(t)' = g
      /\ \A d \in 1..depth'[t] : d \in 1..MaxDepth /\ (d = depth[t] + 1 \/ d = depth[t] \/ d < depth[t])
      /\ \A d \in 1..depth'[t] : d < depth'[t] => d \in 1..depth[t]
  BY <1>2, ConstantsAssumption DEF Top
<1>4. /\ g.pc = "enter" /\ g.rc = "SUCCESS" /\ g.fn = fn
      /\ "enter" \notin CasPcs
  BY DEF NoFrame, CasPcs
<1>5. f.pc = pc /\ f.fn = Top(t).fn
  <2>1. Top(t) \in Frames
    BY <1>2, TopType, ConstantsAssumption
  <2> QED BY <2>1 DEF Frames
<1> HIDE DEF f, g
<1>6. MutexOK'
  <2>1. stateMutex # t
    BY DEF MutexOK
  <2> QED BY <2>1 DEF MutexOK, SingleThread
<1>7. FramesOK'
  <2> SUFFICES ASSUME NEW d \in 1..depth'[t]
               PROVE  /\ frame'[t][d].pc \in {"enter", "begin"} => frame'[t][d].rc = "SUCCESS"
                      /\ frame'[t][d].fn = "disconnect" =>
                           /\ frame'[t][d].pc \in CasPcs => frame'[t][d].pc = "begin"
                           /\ frame'[t][d].pc = "check" => frame'[t][d].rc = "SUCCESS"
                           /\ frame'[t][d].pc = "restore" => frame'[t][d].rc # "SUCCESS"
    BY DEF FramesOK, SingleThread
  <2>1. CASE d = depth[t] + 1
    BY <1>2, <1>4, <2>1
  <2>2. CASE d = depth[t]
    BY <1>2, <1>5, <2>2
  <2>3. CASE d < depth[t]
    <3>1. d \in 1..depth[t] /\ frame'[t][d] = frame[t][d]
      BY <1>2, <1>3, <2>3
    <3> QED BY <3>1 DEF FramesOK
  <2> QED BY <1>3, <2>1, <2>2, <2>3
<1>8. DisconnectOK'
  BY <1>3, <1>4 DEF DisconnectOK, At, SingleThread
<1>9. CallersOK'
  <2> SUFFICES ASSUME NEW d \in 1..depth'[t], d < depth'[t]
               PROVE  /\ frame'[t][d].fn # "disconnect"
                      /\ frame'[t][d].fn = "yield" /\ frame'[t][d].pc = "disconnect" =>
                           frame'[t][d + 1].fn = "disconnect"
    BY DEF CallersOK, SingleThread
  <2>1. CASE d = depth[t]
    BY <1>2, <1>4, <1>5, <2>1
  <2>2. CASE d < depth[t]
    <3>1. d \in 1..depth[t] /\ frame'[t][d] = frame[t][d] /\ d + 1 \in 1..MaxDepth /\ (d + 1 = depth[t] \/ d + 1 < depth[t])
      BY <1>2, <1>3, <2>2
    <3>2. frame'[t][d + 1].fn = frame[t][d + 1].fn
      BY <1>2, <1>5, <3>1 DEF Top
    <3> QED BY <2>2, <3>1, <3>2 DEF CallersOK
  <2> QED BY <1>2, <1>3, <2>1, <2>2
<1> QED BY <1>1, <1>6, <1>7, <1>8, <1>9

\* A return keeps SingleThreadInv: the caller goes on answering for its state, or its own
\* disconnect has just succeeded.
LEMMA ReturnKeeps ==
  ASSUME SingleThread, SingleThreadInv, NEW t \in Threads, Return(t), TypeOK'
  PROVE  SingleThreadInv'
<1> USE DEF SingleThreadInv
<1> DEFINE n == depth[t]
           g == frame[t][n - 1]
           h == Resume(g, Top(t).rc)
<1>1. /\ n \in 1..MaxDepth /\ Top(t).pc = "return"
      /\ depth'[t] = n - 1
      /\ n > 1 => n - 1 \in 1..MaxDepth /\ frame'[t][n - 1] = h
      /\ \A d \in 1..MaxDepth : d < n - 1 => frame'[t][d] = frame[t][d]
  BY ReturnEffect
<1>2. clientState' = clientState /\ stateMutex' = stateMutex
  BY DEF Return
<1>3. Top(t) = frame[t][n] /\ Top(t) \in Frames
  BY <1>1, TopType, ConstantsAssumption DEF Top
<1>4. n > 1 => /\ g \in Frames
               /\ h.fn = g.fn
               /\ h.saved = g.saved
               /\ Answers(g) => \/ Answers(h)
                                \/ g.fn = "attempt_reconnect"
                                \/ g.fn = "yield" /\ g.pc = "disconnect" /\ Top(t).rc = "SUCCESS"
  <2>1. n > 1 => g \in Frames
    BY <1>1 DEF TypeOK
  <2>2. Top(t).rc \in ReturnCodes
    BY <1>3 DEF Frames
  <2> HIDE DEF g
  <2> QED BY <2>1, <2>2, ResumeAnswers DEF h
<1>5. n > 1 => g.fn # "disconnect" /\ (g.fn = "yield" /\ g.pc = "disconnect" => Top(t).fn = "disconnect")
  <2> SUFFICES ASSUME n > 1 PROVE g.fn # "disconnect" /\ (g.fn = "yield" /\ g.pc = "disconnect" => Top(t).fn = "disconnect")
    OBVIOUS
  <2>1. n - 1 \in 1..depth[t] /\ n - 1 < depth[t] /\ (n - 1) + 1 = n
    BY <1>1
  <2> QED BY <1>3, <2>1 DEF CallersOK
<1>6. n > 1 => /\ h.pc \in {"enter", "begin"} => h.rc = "SUCCESS"
  <2> SUFFICES ASSUME n > 1, h.pc \in {"enter", "begin"} PROVE h.rc = "SUCCESS"
    OBVIOUS
  <2>1. g.pc \in {"enter", "begin"} => g.rc = "SUCCESS"
    BY <1>1 DEF FramesOK
  <2>2. g \in Frames
    BY <1>4
  <2> HIDE DEF g
  <2>3. h = g
    BY <2>2 DEF h, Resume, Frames
  <2> QED BY <2>1, <2>3
<1>7. \A d \in 1..depth'[t] : d \in 1..MaxDepth /\ d \in 1..n /\ ((d = n - 1 /\ n > 1) \/ d < n - 1)
  BY <1>1, ConstantsAssumption
<1>8. n > 1 => Top(t)' = h
  BY <1>1 DEF Top
<1> HIDE DEF h, g
<1>9. ASSUME clientState' \in InProgress
      PROVE  \E d \in 1..depth'[t] : Answers(frame'[t][d]) /\ Own[frame'[t][d].fn] = clientState'
  <2>1. PICK d \in 1..n : Answers(frame[t][d]) /\ Own[frame[t][d].fn] = clientState
    BY <1>2, <1>9 DEF NoGhost, SingleThread
  <2>2. d # n
    BY <1>1, <1>3, <2>1 DEF Answers
  <2>3. d \in 1..depth'[t]
    BY <1>1, <2>2
  <2>4. CASE d < n - 1
    BY <1>1, <1>2, <1>7, <2>1, <2>3, <2>4
  <2>5. CASE d = n - 1 /\ n > 1
    <3>1. frame[t][d] = g
      BY <2>5 DEF g
    <3>2. g.fn # "attempt_reconnect"
      BY <1>2, <1>9, <2>1, <3>1 DEF Own, InProgress, ConnectedStates, Fns, Calls
    <3>3. ~(g.fn = "yield" /\ g.pc = "disconnect" /\ Top(t).rc = "SUCCESS")
      <4> SUFFICES ASSUME g.fn = "yield" /\ g.pc = "disconnect" /\ Top(t).rc = "SUCCESS" PROVE FALSE
        OBVIOUS
      <4>1. At(t, {"disconnect"}, "return")
        BY <1>1, <1>5, <2>5 DEF At
      <4>2. clientState = "DISCONNECTED_MANUALLY"
        BY <4>1 DEF DisconnectOK
      <4> QED BY <4>2, <1>2, <1>9 DEF InProgress, ConnectedStates
    <3>4. Answers(h) /\ h.fn = g.fn
      BY <1>4, <2>1, <2>5, <3>1, <3>2, <3>3
    <3> QED BY <1>1, <1>2, <2>1, <2>3, <2>5, <3>1, <3>4
  <2> QED BY <1>7, <2>3, <2>4, <2>5
<1>10. ASSUME NEW d \in 1..depth'[t], frame'[t][d].saved \in InProgress
       PROVE  \E e \in 1..(d - 1) : Answers(frame'[t][e]) /\ Own[frame'[t][e].fn] = frame'[t][d].saved
  <2>1. frame'[t][d].saved = frame[t][d].saved /\ d \in 1..depth[t]
    BY <1>1, <1>4, <1>7 DEF g
  <2>2. PICK e \in 1..(d - 1) : Answers(frame[t][e]) /\ Own[frame[t][e].fn] = frame[t][d].saved
    BY <1>10, <2>1 DEF SavedAnswered
  <2>3. e \in 1..MaxDepth /\ e < n - 1
    BY <1>1, <1>7, <2>2
  <2> QED BY <1>1, <2>1, <2>2, <2>3
<1>11. NoGhost'
  BY <1>9 DEF NoGhost
<1>12. SavedAnswered'
  BY <1>10 DEF SavedAnswered, SingleThread
<1>13. MutexOK'
  <2>1. stateMutex # t
    BY <1>1 DEF MutexOK, CasPcs
  <2> QED BY <2>1, <1>2 DEF MutexOK, SingleThread
<1>14. FramesOK'
  <2> SUFFICES ASSUME NEW d \in 1..depth'[t]
               PROVE  /\ frame'[t][d].pc \in {"enter", "begin"} => frame'[t][d].rc = "SUCCESS"
                      /\ frame'[t][d].fn = "disconnect" =>
                           /\ frame'[t][d].pc \in CasPcs => frame'[t][d].pc = "begin"
                           /\ frame'[t][d].pc = "check" => frame'[t][d].rc = "SUCCESS"
                           /\ frame'[t][d].pc = "restore" => frame'[t][d].rc # "SUCCESS"
    BY DEF FramesOK, SingleThread
  <2>1. CASE d = n - 1 /\ n > 1
    BY <1>1, <1>4, <1>5, <1>6, <2>1
  <2>2. CASE d < n - 1
    <3>1. frame'[t][d] = frame[t][d] /\ d \in 1..depth[t]
      BY <1>1, <1>7, <2>2
    <3> QED BY <3>1 DEF FramesOK
  <2> QED BY <1>7, <2>1, <2>2
<1>15. DisconnectOK'
  <2>1. depth'[t] > 0 => Top(t)'.fn # "disconnect"
    BY <1>1, <1>4, <1>5, <1>8
  <2> QED BY <2>1 DEF DisconnectOK, At, SingleThread
<1>16. CallersOK'
  <2> SUFFICES ASSUME NEW d \in 1..depth'[t], d < depth'[t]
               PROVE  /\ frame'[t][d].fn # "disconnect"
                      /\ frame'[t][d].fn = "yield" /\ frame'[t][d].pc = "disconnect" =>
                           frame'[t][d + 1].fn = "disconnect"
    BY DEF CallersOK, SingleThread
  <2>1. frame'[t][d] = frame[t][d] /\ d \in 1..depth[t] /\ d < depth[t]
    BY <1>1, <1>7
  <2>2. frame'[t][d + 1].fn = frame[t][d + 1].fn
    <3>1. d + 1 \in 1..MaxDepth /\ ((d + 1 = n - 1 /\ n > 1) \/ d + 1 < n - 1)
      BY <1>1, <1>7
    <3> QED BY <1>1, <1>4, <3>1 DEF g
  <2> QED BY <2>1, <2>2 DEF CallersOK
<1> QED BY <1>11, <1>12, <1>13, <1>14, <1>15, <1>16

\* The moves of the top frame that only change its place and its return code.
MovesTo(t, pc, rc) ==
  /\ depth[t] > 0
  /\ Top(t).pc \notin CasPcs
  /\ stateMutex' = stateMutex
  /\ GotoRc(t, pc, rc) \/ (rc = Top(t).rc /\ Goto(t, pc))
  /\ pc # "enter"
  /\ pc = "begin" => rc = "SUCCESS"
  /\ Top(t).fn = "disconnect" =>
       /\ pc \in {"begin", "send", "close", "manual", "restore", "return"}
       /\ pc = "restore" => rc # "SUCCESS"
       /\ pc = "return" /\ rc = "SUCCESS" => clientState' = "DISCONNECTED_MANUALLY"
  /\ \/ clientState' \notin InProgress
     \/ clientState' = Top(t).saved
     \/ /\ clientState' = clientState
        /\ \/ ~Answers(Top(t))
           \/ clientState # Own[Top(t).fn]
           \/ pc \in {"end", "send", "wait", "callback", "connack", "cleanup", "fail", "done", "close",
                      "manual", "restore", "read", "keepalive"}
           \/ pc = "loop" /\ rc \notin {"DISCONNECTED", "ATTEMPTING"}

\* Such a move keeps SingleThreadInv.
LEMMA GotoKeeps ==
  ASSUME SingleThread, SingleThreadInv, NEW t \in Threads, NEW pc \in Pcs, NEW rc \in ReturnCodes,
         MovesTo(t, pc, rc), TypeOK'
  PROVE  SingleThreadInv'
<1> DEFINE f == [Top(t) EXCEPT !.pc = pc, !.rc = rc]
<1>1. Top(t) \in Frames
  BY TopType DEF SingleThreadInv, MovesTo
<1>2. f.fn = Top(t).fn /\ f.saved = Top(t).saved /\ f.pc = pc /\ f.rc = rc
  BY <1>1 DEF Frames
<1>3. SetTop(t, f)
  <2>1. CASE GotoRc(t, pc, rc)
    BY <2>1 DEF GotoRc
  <2>2. CASE rc = Top(t).rc /\ Goto(t, pc)
    <3>1. [Top(t) EXCEPT !.pc = pc] = f
      BY <1>1, <2>2 DEF Frames
    <3> QED BY <2>2, <3>1 DEF Goto
  <2> QED BY <2>1, <2>2 DEF MovesTo
<1> HIDE DEF f
<1>4. Answers(f) \/ ~(\/ pc \in {"end", "send", "wait", "callback", "connack", "cleanup", "fail", "done", "close",
                             "manual", "restore", "read", "keepalive"}
                      \/ pc = "loop" /\ rc \notin {"DISCONNECTED", "ATTEMPTING"})
  BY <1>2 DEF Answers
<1>5. Moves(t, f)
  BY <1>2, <1>3, <1>4 DEF Moves, MovesTo, CasPcs
<1> QED BY <1>5, MoveKeeps

\* Every compare-and-swap hands the state over from a frame to itself, to its saver or to nobody.
LEMMA SwapKeeps ==
  ASSUME SingleThread, SingleThreadInv, NEW t \in Threads, SwapAndUnlock(t), TypeOK'
  PROVE  SingleThreadInv'
<1> DEFINE g == Top(t)
           f == [g EXCEPT !.pc = AfterCas(g, g.match), !.rc = RcAfterCas(g, g.match), !.match = FALSE]
<1>1. /\ depth[t] > 0 /\ g \in Frames /\ g.pc \in CasPcs
      /\ stateMutex' = NoThread
      /\ clientState' = IF g.match THEN NewState(g) ELSE clientState
      /\ SetTop(t, f)
  BY TopType DEF SwapAndUnlock, SingleThreadInv
<1>2. g.match <=> clientState = Expected(g)
  BY DEF SwapAndUnlock, SingleThreadInv, MutexOK
<1>3. /\ f.fn = g.fn /\ f.saved = g.saved
      /\ f.pc = AfterCas(g, g.match) /\ f.rc = RcAfterCas(g, g.match)
  BY <1>1 DEF Frames
<1>4. depth[t] \in 1..depth[t] /\ g = frame[t][depth[t]]
  BY <1>1 DEF Top, SingleThreadInv, TypeOK
<1>5. /\ g.pc = "begin" => g.rc = "SUCCESS"
      /\ g.fn = "disconnect" => g.pc = "begin"
  BY <1>1, <1>4 DEF SingleThreadInv, FramesOK
<1> HIDE DEF f, g
<1>6. g.match \in BOOLEAN
  BY <1>1 DEF Frames
<1>7. f.pc \notin {"enter", "begin"}
  BY <1>3, <1>6 DEF AfterCas
<1>8. f.fn = "disconnect" => \/ f.pc = "send"
                             \/ f.pc = "return" /\ f.rc # "SUCCESS"
  BY <1>3, <1>5, <1>6 DEF AfterCas, RcAfterCas, Acked, Requests
<1>9. \/ clientState' \notin InProgress
      \/ Answers(f) /\ clientState' = Own[f.fn]
      \/ clientState' = clientState /\ (Answers(g) => Answers(f) \/ clientState # Own[f.fn])
      \/ clientState' = g.saved
  <2>1. CASE ~g.match
    <3>1. clientState' = clientState /\ clientState # Expected(g)
      BY <1>1, <1>2, <2>1
    <3>2. CASE g.pc \in {"begin", "undo", "pend", "resume"}
      BY <3>1, <3>2 DEF Answers
    <3>3. CASE g.pc \in {"end", "fail", "done"}
      BY <1>3, <3>1, <3>3 DEF Expected
    <3> QED BY <1>1, <3>2, <3>3 DEF CasPcs
  <2>2. CASE g.match
    <3>1. clientState' = NewState(g)
      BY <1>1, <2>2
    <3>2. CASE g.pc = "begin"
      <4>1. clientState' = Own[f.fn] /\ g.rc = "SUCCESS" /\ g.fn \in Fns
        BY <1>1, <1>3, <1>5, <3>1, <3>2 DEF NewState, Frames
      <4>2. CASE g.fn \in Acked \union {"handle_publish", "connect", "disconnect", "yield"}
        <5>1. f.pc \in {"send", "callback", "tls", "loop"} /\ f.rc = "SUCCESS"
          BY <1>3, <2>2, <3>2, <4>1, <4>2 DEF AfterCas, RcAfterCas, Acked, Requests
        <5> QED BY <4>1, <5>1 DEF Answers
      <4>3. CASE g.fn \notin Acked \union {"handle_publish", "connect", "disconnect", "yield"}
        <5>1. Own[f.fn] = "INVALID"
          BY <1>3, <4>1, <4>3 DEF Own, Acked, Requests
        <5> QED BY <4>1, <5>1 DEF InProgress, ConnectedStates
      <4> QED BY <4>2, <4>3
    <3>3. CASE g.pc = "resume"
      <4>1. f.pc = "loop"
        BY <1>3, <3>3 DEF AfterCas
      <4>2. f.rc = IF g.match THEN "RECONNECTED" ELSE "ERROR"
        BY <1>3, <3>3 DEF RcAfterCas
      <4> QED BY <1>3, <2>2, <3>1, <3>3, <4>1, <4>2 DEF NewState, Answers
    <3>4. CASE g.pc \in {"end", "undo"}
      BY <3>1, <3>4 DEF NewState
    <3>5. CASE g.pc \in {"fail", "done", "pend"}
      BY <3>1, <3>5 DEF NewState, InProgress, ConnectedStates
    <3> QED BY <1>1, <3>2, <3>3, <3>4, <3>5 DEF CasPcs
  <2> QED BY <2>1, <2>2
<1>10. Moves(t, f)
  BY <1>1, <1>3, <1>7, <1>8, <1>9 DEF Moves, g, CasPcs
<1> QED BY <1>10, MoveKeeps

\* A call from the application finds no call in progress on the only thread.
LEMMA CallKeeps ==
  ASSUME SingleThread, SingleThreadInv, NEW t \in Threads, NEW fn \in Calls, Call(t, fn), TypeOK'
  PROVE  SingleThreadInv'
<1> DEFINE g == [NoFrame EXCEPT !.fn = fn, !.pc = "enter"]
<1>1. g.pc = "enter" /\ g.rc = "SUCCESS" /\ g.fn = fn /\ g.saved = "INVALID" /\ "enter" \notin CasPcs
  BY DEF NoFrame, CasPcs
<1>2. frame' = [frame EXCEPT ![t] = [frame[t] EXCEPT ![1] = g]]
  BY DEF Call, SingleThreadInv, TypeOK
<1> HIDE DEF g
<1>3. /\ depth[t] = 0 /\ depth'[t] = 1 /\ frame'[t][1] = g
      /\ clientState' = clientState /\ stateMutex' = stateMutex
  BY <1>2, ConstantsAssumption DEF Call, SingleThreadInv, TypeOK
<1>4. \A d \in 1..depth'[t] : d = 1
  BY <1>3
<1>5. Top(t)' = g
  BY <1>3 DEF Top
<1>6. NoGhost'
  <2>1. clientState \notin InProgress
    BY <1>3 DEF SingleThreadInv, NoGhost, SingleThread
  <2> QED BY <1>3, <2>1 DEF NoGhost
<1>7. SavedAnswered'
  <2>1. g.saved \notin InProgress
    BY <1>1 DEF InProgress, ConnectedStates
  <2> QED BY <1>3, <1>4, <2>1 DEF SavedAnswered, SingleThread
<1>8. MutexOK'
  <2>1. stateMutex # t
    BY <1>3 DEF SingleThreadInv, MutexOK
  <2> QED BY <1>3, <2>1 DEF MutexOK, SingleThread
<1>9. FramesOK'
  BY <1>1, <1>3, <1>4 DEF FramesOK, SingleThread
<1>10. DisconnectOK'
  BY <1>1, <1>5 DEF DisconnectOK, At, SingleThread
<1>11. CallersOK'
  <2>1. \A d \in 1..depth'[t] : ~(d < depth'[t])
    BY <1>3, <1>4
  <2> QED BY <2>1 DEF CallersOK, SingleThread
<1> QED BY <1>6, <1>7, <1>8, <1>9, <1>10, <1>11 DEF SingleThreadInv

\* Every step of the only thread keeps SingleThreadInv.
LEMMA SingleThreadStep ==
  ASSUME SingleThread, SingleThreadInv, [Next]_vars
  PROVE  SingleThreadInv'
<1>0. TypeOK'
  BY TypeStep DEF SingleThreadInv
<1>1. CASE UNCHANGED vars
  BY <1>1 DEF SingleThreadInv, TypeOK, NoGhost, SavedAnswered, MutexOK, FramesOK, DisconnectOK,
              CallersOK, Top, At, vars, status
<1>2. ASSUME NEW t \in Threads, Step(t) \/ App(t)
      PROVE  SingleThreadInv'
  <2>1. /\ {"return", "send", "wait", "callback", "puback", "tls", "connack", "cleanup", "check",
            "close", "manual", "restore", "connect", "resubscribe", "loop", "delay", "reconnect",
            "backoff", "read", "keepalive", "disconnect", "force", "destroy", "handler", "arm",
            "begin", "end", "fail", "done", "pend"} \subseteq Pcs
        /\ {"SUCCESS", "ERROR", "DISCONNECTED", "ATTEMPTING", "ALREADY_CONNECTED"} \subseteq ReturnCodes
    BY DEF Pcs, CasPcs, ReturnCodes
  <2>2. depth[t] > 0 => Top(t) \in Frames /\ Top(t).rc \in ReturnCodes
    BY TopType DEF SingleThreadInv, Frames
  <2>3. "disconnect" \notin Acked
    BY DEF Acked, Requests
  <2>4. {"DISCONNECTED_ERROR", "DISCONNECTED_MANUALLY", "PENDING_RECONNECT", "CONNECTED_IDLE"} \intersect InProgress = {}
    BY DEF InProgress, ConnectedStates
  <2>5. depth[t] > 0 /\ Top(t).fn = "disconnect" =>
          /\ Top(t).pc = "check" => Top(t).rc = "SUCCESS"
          /\ Top(t).pc = "restore" => Top(t).rc # "SUCCESS"
    <3>1. depth[t] > 0 => depth[t] \in 1..depth[t]
      BY DEF SingleThreadInv, TypeOK
    <3> QED BY <3>1 DEF SingleThreadInv, FramesOK, Top
  <2> DEFINE Goes == \E pc \in Pcs, rc \in ReturnCodes : MovesTo(t, pc, rc)
  <2>6. ASSUME Goes PROVE SingleThreadInv'
    BY <1>0, <2>6, GotoKeeps
  <2>7. CASE ReceiveAck(t)
    <3>1. Goes
      BY <2>1, <2>2, <2>3, <2>4, <2>5, <2>7 DEF ReceiveAck, At, MovesTo, Answers, CasPcs, status
    <3> HIDE DEF Goes
    <3> QED BY <2>6, <3>1
  <2>8. CASE WaitTimeout(t)
    <3>1. Goes
      BY <2>1, <2>2, <2>3, <2>4, <2>5, <2>8 DEF WaitTimeout, At, MovesTo, Answers, CasPcs, status
    <3> HIDE DEF Goes
    <3> QED BY <2>6, <3>1
  <2>9. CASE CallbackDone(t)
    <3>1. Goes
      BY <2>1, <2>2, <2>3, <2>4, <2>5, <2>9 DEF CallbackDone, At, MovesTo, Answers, CasPcs, status
    <3> HIDE DEF Goes
    <3> QED BY <2>6, <3>1
  <2>10. CASE SendPuback(t)
    <3>1. Goes
      BY <2>1, <2>2, <2>3, <2>4, <2>5, <2>10 DEF SendPuback, At, MovesTo, Answers, CasPcs, status
    <3> HIDE DEF Goes
    <3> QED BY <2>6, <3>1
  <2>11. CASE ConnectTls(t)
    <3>1. Goes
      BY <2>1, <2>2, <2>3, <2>4, <2>5, <2>11 DEF ConnectTls, At, MovesTo, Answers, CasPcs, status
    <3> HIDE DEF Goes
    <3> QED BY <2>6, <3>1
  <2>12. CASE ConnectMqtt(t)
    <3>1. Goes
      BY <2>1, <2>2, <2>3, <2>4, <2>5, <2>12 DEF ConnectMqtt, At, MovesTo, Answers, CasPcs, status
    <3> HIDE DEF Goes
    <3> QED BY <2>6, <3>1
  <2>13. CASE ConnectCleanup(t)
    <3>1. Goes
      BY <2>1, <2>2, <2>3, <2>4, <2>5, <2>13 DEF ConnectCleanup, At, MovesTo, Answers, CasPcs, status
    <3> HIDE DEF Goes
    <3> QED BY <2>6, <3>1
  <2>14. CASE DisconnectCheck(t)
    <3>1. Goes
      BY <2>1, <2>2, <2>3, <2>4, <2>5, <2>14 DEF DisconnectCheck, At, MovesTo, Answers, CasPcs, status
    <3> HIDE DEF Goes
    <3> QED BY <2>6, <3>1
  <2>15. CASE DisconnectSend(t)
    <3>1. Goes
      BY <2>1, <2>2, <2>3, <2>4, <2>5, <2>15 DEF DisconnectSend, At, MovesTo, Answers, CasPcs, status
    <3> HIDE DEF Goes
    <3> QED BY <2>6, <3>1
  <2>16. CASE DisconnectClose(t)
    <3>1. Goes
      BY <2>1, <2>2, <2>3, <2>4, <2>5, <2>16 DEF DisconnectClose, At, MovesTo, Answers, CasPcs, status
    <3> HIDE DEF Goes
    <3> QED BY <2>6, <3>1
  <2>17. CASE DisconnectAssign(t)
    <3>1. Goes
      BY <2>1, <2>2, <2>3, <2>4, <2>5, <2>17 DEF DisconnectAssign, At, MovesTo, Answers, CasPcs, status
    <3> HIDE DEF Goes
    <3> QED BY <2>6, <3>1
  <2>18. CASE YieldLeave(t)
    <3>1. Goes
      BY <2>1, <2>2, <2>3, <2>4, <2>5, <2>18 DEF YieldLeave, At, MovesTo, Answers, CasPcs, status
    <3> HIDE DEF Goes
    <3> QED BY <2>6, <3>1
  <2>19. CASE YieldIterate(t)
    <3>1. Goes
      BY <2>1, <2>2, <2>3, <2>4, <2>5, <2>19 DEF YieldIterate, At, MovesTo, Answers, CasPcs, status
    <3> HIDE DEF Goes
    <3> QED BY <2>6, <3>1
  <2>20. CASE Backoff(t)
    <3>1. Goes
      BY <2>1, <2>2, <2>3, <2>4, <2>5, <2>20 DEF Backoff, At, MovesTo, Answers, CasPcs, status
    <3> HIDE DEF Goes
    <3> QED BY <2>6, <3>1
  <2>21. CASE YieldRead(t)
    <3>1. Goes
      BY <2>1, <2>2, <2>3, <2>4, <2>5, <2>21 DEF YieldRead, At, MovesTo, Answers, CasPcs, status
    <3> HIDE DEF Goes
    <3> QED BY <2>6, <3>1
  <2>22. CASE KeepAlive(t)
    <3>1. Goes
      BY <2>1, <2>2, <2>3, <2>4, <2>5, <2>22 DEF KeepAlive, At, MovesTo, Answers, CasPcs, status
    <3> HIDE DEF Goes
    <3> QED BY <2>6, <3>1
  <2>23. CASE ForceState(t)
    <3>1. Goes
      BY <2>1, <2>2, <2>3, <2>4, <2>5, <2>23 DEF ForceState, At, MovesTo, Answers, CasPcs, status
    <3> HIDE DEF Goes
    <3> QED BY <2>6, <3>1
  <2>24. CASE ForceDestroy(t)
    <3>1. Goes
      BY <2>1, <2>2, <2>3, <2>4, <2>5, <2>24 DEF ForceDestroy, At, MovesTo, Answers, CasPcs, status
    <3> HIDE DEF Goes
    <3> QED BY <2>6, <3>1
  <2>25. CASE HandlerDone(t)
    <3>1. Goes
      BY <2>1, <2>2, <2>3, <2>4, <2>5, <2>25 DEF HandlerDone, At, MovesTo, Answers, CasPcs, status
    <3> HIDE DEF Goes
    <3> QED BY <2>6, <3>1
  <2>26. CASE ArmReconnect(t)
    <3>1. Goes
      BY <2>1, <2>2, <2>3, <2>4, <2>5, <2>26 DEF ArmReconnect, At, MovesTo, Answers, CasPcs, status
    <3> HIDE DEF Goes
    <3> QED BY <2>6, <3>1
  <2>27. CASE ReceivePingresp(t)
    <3>1. Goes
      BY <2>1, <2>2, <2>3, <2>4, <2>5, <2>27 DEF ReceivePingresp, At, MovesTo, Answers, CasPcs, status
    <3> HIDE DEF Goes
    <3> QED BY <2>6, <3>1
  <2>28. CASE LockAndCompare(t)
    <3> DEFINE f == [Top(t) EXCEPT !.match = (clientState = Expected(Top(t)))]
    <3>1. depth[t] > 0 /\ Top(t) \in Frames
      BY <2>2, <2>28 DEF LockAndCompare
    <3>2. /\ f.fn = Top(t).fn /\ f.pc = Top(t).pc /\ f.saved = Top(t).saved /\ f.rc = Top(t).rc
          /\ f.match <=> clientState = Expected(Top(t))
      BY <3>1 DEF Frames
    <3>3. SetTop(t, f) /\ stateMutex' = t /\ clientState' = clientState /\ f.pc \in CasPcs
      BY <2>28, <3>2 DEF LockAndCompare
    <3> HIDE DEF f
    <3>4. Expected(f) = Expected(Top(t)) /\ (Answers(f) <=> Answers(Top(t)))
      BY <3>2 DEF Expected, Answers
    <3>5. depth[t] \in 1..depth[t] /\ Top(t) = frame[t][depth[t]]
      BY <3>1 DEF Top, SingleThreadInv, TypeOK
    <3>6. /\ f.pc \in {"enter", "begin"} => f.rc = "SUCCESS"
          /\ f.fn = "disconnect" => f.pc = "begin"
      BY <3>2, <3>3, <3>5 DEF SingleThreadInv, FramesOK
    <3>7. Moves(t, f)
      BY <3>1, <3>2, <3>3, <3>4, <3>6 DEF Moves
    <3> QED BY <1>0, <3>7, MoveKeeps
  <2>29. CASE SwapAndUnlock(t)
    BY <1>0, <2>29, SwapKeeps
  <2>30. CASE TryLockFails(t)
    BY <2>30 DEF TryLockFails, SingleThreadInv, TypeOK, SingleThread
  <2>31. CASE Return(t)
    BY <1>0, <2>31, ReturnKeeps
  <2>32. CASE SetAutoReconnect(t)
    BY <1>0, <2>32 DEF SetAutoReconnect, SingleThreadInv, NoGhost, SavedAnswered, MutexOK, FramesOK,
                        DisconnectOK, CallersOK, Top, At
  <2>33. CASE \E fn \in Calls : Call(t, fn)
    BY <1>0, <2>33, CallKeeps
  <2>34. CASE \E fn \in Calls : NestedCall(t, fn)
    <3>1. PICK fn \in Calls : NestedCall(t, fn)
      BY <2>34
    <3>2. depth[t] > 0 /\ Top(t) \in Frames
      BY <2>2, <3>1 DEF NestedCall, Push
    <3>3. [Top(t) EXCEPT !.pc = Top(t).pc] = Top(t)
      BY <3>2 DEF Frames
    <3> QED BY <1>0, <3>1, <3>3, PushKeeps DEF NestedCall, At, CasPcs
  <2>35. CASE ReceivePublish(t)
    <3>1. depth[t] > 0 /\ Top(t) \in Frames
      BY <2>2, <2>35 DEF ReceivePublish, At
    <3>2. [Top(t) EXCEPT !.pc = Top(t).pc] = Top(t)
      BY <3>1 DEF Frames
    <3> QED BY <1>0, <2>3, <2>35, <3>2, PushKeeps DEF ReceivePublish, At, CasPcs
  <2>36. CASE KeepAliveLost(t)
    <3>1. depth[t] > 0 /\ Top(t) \in Frames
      BY <2>2, <2>36 DEF KeepAliveLost, At
    <3>2. Answers([Top(t) EXCEPT !.pc = "disconnect"])
      BY <3>1 DEF Frames, Answers
    <3> QED BY <1>0, <2>36, <3>2, PushKeeps DEF KeepAliveLost, At, CasPcs
  <2>37. CASE HandleReconnect(t)
    <3>1. CASE Push(t, "reconnect", "attempt_reconnect")
      <4>1. ~Answers(Top(t))
        BY <2>37 DEF HandleReconnect, At, Answers
      <4> QED BY <1>0, <2>37, <3>1, <4>1, PushKeeps DEF HandleReconnect, At, CasPcs
    <3>2. CASE GotoRc(t, "loop", "ATTEMPTING") \/ GotoRc(t, "backoff", "ERROR")
      <4>1. Goes
        BY <2>1, <2>37, <3>2 DEF HandleReconnect, At, MovesTo, Answers, CasPcs
      <4> HIDE DEF Goes
      <4> QED BY <2>6, <4>1
    <3> QED BY <2>37, <3>1, <3>2 DEF HandleReconnect
  <2>38. CASE ReconnectEnter(t)
    <3>1. CASE Push(t, "connect", "connect")
      <4>1. ~Answers(Top(t))
        BY <2>38 DEF ReconnectEnter, At, Answers
      <4> QED BY <1>0, <2>38, <3>1, <4>1, PushKeeps DEF ReconnectEnter, At, CasPcs
    <3>2. CASE GotoRc(t, "return", "ALREADY_CONNECTED")
      <4>1. Goes
        BY <2>1, <2>38, <3>2 DEF ReconnectEnter, At, MovesTo, Answers, CasPcs
      <4> HIDE DEF Goes
      <4> QED BY <2>6, <4>1
    <3> QED BY <2>38, <3>1, <3>2 DEF ReconnectEnter
  <2>39. CASE ReconnectCheck(t)
    <3>1. CASE Push(t, "resubscribe", "resubscribe")
      <4>1. ~Answers(Top(t))
        BY <2>39 DEF ReconnectCheck, At, Answers
      <4> QED BY <1>0, <2>39, <3>1, <4>1, PushKeeps DEF ReconnectCheck, At, CasPcs
    <3>2. CASE Goto(t, "pend")
      <4>1. Goes
        BY <2>1, <2>2, <2>39, <3>2 DEF ReconnectCheck, At, MovesTo, Answers, CasPcs
      <4> HIDE DEF Goes
      <4> QED BY <2>6, <4>1
    <3> QED BY <2>39, <3>1, <3>2 DEF ReconnectCheck
  <2>40. CASE DisconnectEnter(t)
    <3> DEFINE f == [Top(t) EXCEPT !.pc = "check", !.saved = clientState]
    <3>1. depth[t] > 0 /\ Top(t) \in Frames /\ Top(t).pc = "enter" /\ Top(t).fn = "disconnect"
      BY <2>2, <2>40 DEF DisconnectEnter, At
    <3>2. f.fn = Top(t).fn /\ f.pc = "check" /\ f.saved = clientState /\ f.rc = Top(t).rc
      BY <3>1 DEF Frames
    <3>3. SetTop(t, f) /\ stateMutex' = stateMutex /\ clientState' = clientState
      BY <2>40 DEF DisconnectEnter
    <3> HIDE DEF f
    <3>4. depth[t] \in 1..depth[t] /\ Top(t) = frame[t][depth[t]]
      BY <3>1 DEF Top, SingleThreadInv, TypeOK
    <3>5. f.rc = "SUCCESS" /\ ~Answers(Top(t))
      BY <3>1, <3>2, <3>4 DEF SingleThreadInv, FramesOK, Answers
    <3>6. Moves(t, f)
      BY <3>1, <3>2, <3>3, <3>5 DEF Moves, CasPcs
    <3> QED BY <1>0, <3>6, MoveKeeps
  <2>41. CASE Send(t)
    <3>1. CASE \E rc \in {"SUCCESS", "ERROR"} : GotoRc(t, "end", rc)
      <4>1. Goes
        BY <2>1, <2>3, <2>41, <3>1 DEF Send, At, MovesTo, CasPcs
      <4> HIDE DEF Goes
      <4> QED BY <2>6, <4>1
    <3>2. CASE SetTop(t, [Top(t) EXCEPT !.pc = "wait", !.left = @ - 1])
      <4> DEFINE f == [Top(t) EXCEPT !.pc = "wait", !.left = @ - 1]
      <4>1. depth[t] > 0 /\ Top(t) \in Frames /\ Top(t).pc = "send" /\ Top(t).fn # "disconnect"
        BY <2>2, <2>3, <2>41 DEF Send, At
      <4>2. f.fn = Top(t).fn /\ f.pc = "wait" /\ f.saved = Top(t).saved
        BY <4>1 DEF Frames
      <4>3. SetTop(t, f) /\ stateMutex' = stateMutex /\ clientState' = clientState
        BY <2>41, <3>2 DEF Send
      <4> HIDE DEF f
      <4>4. Answers(f)
        BY <4>2 DEF Answers
      <4>5. Moves(t, f)
        BY <4>1, <4>2, <4>3, <4>4 DEF Moves, CasPcs
      <4> QED BY <1>0, <4>5, MoveKeeps
    <3> QED BY <2>41, <3>1, <3>2 DEF Send
  <2>42. CASE Enter(t)
    <3>1. /\ depth[t] > 0 /\ Top(t) \in Frames /\ Top(t).pc = "enter" /\ Top(t).fn # "disconnect"
          /\ stateMutex' = stateMutex /\ clientState' = clientState
      BY <2>2, <2>42 DEF Enter, At
    <3>2. CASE clientState \in Admits[Top(t).fn]
      <4> DEFINE pc == IF Top(t).fn = "yield" /\ clientState = "PENDING_RECONNECT" THEN "loop" ELSE "begin"
                 s  == IF Top(t).fn = "yield" THEN "CONNECTED_IDLE" ELSE clientState
                 f(n) == [Top(t) EXCEPT !.pc = pc, !.saved = s, !.left = n]
      <4>1. PICK n : SetTop(t, f(n))
        BY <2>42, <3>2 DEF Enter
      <4>2. /\ f(n).fn = Top(t).fn /\ f(n).pc = pc /\ f(n).saved = s /\ f(n).rc = Top(t).rc
        BY <3>1 DEF Frames
      <4>3. pc \in {"loop", "begin"} /\ (s = clientState \/ s \notin InProgress)
        BY <2>4
      <4> HIDE DEF pc, s, f
      <4>4. depth[t] \in 1..depth[t] /\ Top(t) = frame[t][depth[t]]
        BY <3>1 DEF Top, SingleThreadInv, TypeOK
      <4>5. Top(t).rc = "SUCCESS" /\ ~Answers(Top(t))
        BY <3>1, <4>4 DEF SingleThreadInv, FramesOK, Answers
      <4>6. Moves(t, f(n))
        BY <3>1, <4>1, <4>2, <4>3, <4>5 DEF Moves, CasPcs
      <4> QED BY <1>0, <4>6, MoveKeeps
    <3>3. CASE clientState \notin Admits[Top(t).fn]
      <4>1. Goes
        BY <2>1, <2>42, <3>1, <3>3 DEF Enter, MovesTo, Answers, CasPcs
      <4> HIDE DEF Goes
      <4> QED BY <2>6, <4>1
    <3> QED BY <3>2, <3>3
  <2> QED
    BY <1>2, <2>7, <2>8, <2>9, <2>10, <2>11, <2>12, <2>13, <2>14, <2>15, <2>16, <2>17, <2>18, <2>19, <2>20, <2>21, <2>22, <2>23, <2>24, <2>25, <2>26, <2>27, <2>28, <2>29, <2>30, <2>31, <2>32, <2>33, <2>34, <2>35, <2>36, <2>37, <2>38, <2>39, <2>40, <2>41, <2>42 DEF Step, App
<1> QED BY <1>1, <1>2 DEF Next

\* In an application with one thread, whatever its message callbacks and its disconnect handler
\* call: an in-progress state that a nested call saved is that of an outer call which cannot end
\* before it, and nothing that set_client_state compared changes before it swaps.
THEOREM SingleThreadInductive == SingleThread => (Spec => []SingleThreadInv)
<1> SUFFICES ASSUME SingleThread PROVE Spec => []SingleThreadInv
  OBVIOUS
<1>1. Init => SingleThreadInv
  <2> SUFFICES ASSUME Init PROVE SingleThreadInv
    OBVIOUS
  <2>1. TypeOK
    BY InitType
  <2>2. \A t \in Threads : depth[t] = 0
    BY DEF Init
  <2>3. stateMutex \notin Threads /\ clientState \notin InProgress
    BY ConstantsAssumption DEF Init, InProgress, ConnectedStates
  <2>4. \A t \in Threads : 1..depth[t] = {}
    BY <2>2
  <2> QED BY <2>1, <2>2, <2>3, <2>4 DEF SingleThreadInv, NoGhost, SavedAnswered, MutexOK, FramesOK,
                                 DisconnectOK, CallersOK, At
<1>2. SingleThreadInv /\ [Next]_vars => SingleThreadInv'
  BY SingleThreadStep
<1> QED BY <1>1, <1>2, PTL DEF Spec

\* In such an application no API function returns and leaves the client in the in-progress state
\* it had set: every set_client_state that starts a request is answered by one that ends it on
\* every path.
THEOREM SingleThreadNoGhost == SingleThread => (Spec => []NoGhost)
<1>1. SingleThreadInv => NoGhost
  BY DEF SingleThreadInv
<1> QED BY <1>1, SingleThreadInductive, PTL

-----------------------------------------------------------------------------
(* The shape of a call stack.                                              *)

\* The places of each function.
PcsOf == [fn \in Fns |->
  CASE fn \in Acked             -> {"enter", "begin", "send", "wait", "end", "undo", "return"}
    [] fn = "handle_publish"    -> {"enter", "begin", "callback", "end", "puback", "return"}
    [] fn = "connect"           -> {"enter", "begin", "tls", "connack", "cleanup", "done", "fail", "return"}
    [] fn = "disconnect"        -> {"enter", "check", "begin", "send", "close", "manual", "restore", "return"}
    [] fn = "attempt_reconnect" -> {"enter", "connect", "check", "resubscribe", "pend", "return"}
    [] fn = "yield"             -> {"enter", "begin", "loop", "read", "keepalive", "disconnect", "force",
                                    "destroy", "handler", "pend", "arm", "delay", "reconnect", "backoff",
                                    "resume", "end", "return"}
    [] OTHER                    -> {}]

\* A frame of function fn at place pc waits for a call of callee.
Waits(fn, pc, callee) ==
  \/ fn \in Acked /\ pc = "wait" /\ callee = "handle_publish"
  \/ fn = "yield" /\ pc = "read" /\ callee = "handle_publish"
  \/ fn = "yield" /\ pc = "disconnect" /\ callee = "disconnect"
  \/ fn = "yield" /\ pc = "reconnect" /\ callee = "attempt_reconnect"
  \/ fn = "yield" /\ pc = "handler" /\ callee \in HandlerCalls
  \/ fn = "handle_publish" /\ pc = "callback" /\ callee \in CallbackCalls
  \/ fn = "attempt_reconnect" /\ pc = "connect" /\ callee = "connect"
  \/ fn = "attempt_reconnect" /\ pc = "resubscribe" /\ callee = "resubscribe"

\* A call that was admitted while the client was connected has saved a connected state.
SavedOK(f) ==
  f.fn \in Acked \union {"yield", "disconnect"} /\ f.pc \notin {"enter", "check", "return"} =>
    Connected(f.saved)

\* What the place of the running call says of the client state s.
StateOK(f, s) ==
  /\ f.pc = "begin" => s = f.saved
  /\ f.fn = "disconnect" /\ f.pc = "check" => s = f.saved
  /\ f.fn = "connect" /\ f.pc \in {"tls", "connack", "cleanup", "done", "fail"} => s = "CONNECTING"
  /\ f.fn = "disconnect" /\ f.pc \in {"send", "close", "manual", "restore"} => s = "DISCONNECTING"
  /\ f.fn = "yield" /\ f.pc = "destroy" => s = "DISCONNECTED_ERROR"

StackOK(t) ==
  /\ \A d \in 1..depth[t] : frame[t][d].pc \in PcsOf[frame[t][d].fn] /\ SavedOK(frame[t][d])
  /\ \A d \in 1..depth[t] : d < depth[t] => Waits(frame[t][d].fn, frame[t][d].pc, frame[t][d + 1].fn)
  /\ depth[t] > 0 => StateOK(Top(t), clientState)

\* Every frame stands at a place of its function, waits for the call above it and, when it
\* runs, finds the client in the state it has set or saved.
StackInv == \A t \in Threads : StackOK(t)

-----------------------------------------------------------------------------
(* The moves of the top frame.                                             *)

\* The top frame goes to place pc and keeps what it saved.
Goes(t, pc) ==
  \E f \in Frames : SetTop(t, f) /\ f.fn = Top(t).fn /\ f.saved = Top(t).saved /\ f.pc = pc

\* Goto and GotoRc are such moves.
LEMMA GotoGoes ==
  ASSUME TypeOK, NEW t \in Threads, depth[t] > 0, NEW pc \in Pcs, NEW rc \in ReturnCodes,
         Goto(t, pc) \/ GotoRc(t, pc, rc)
  PROVE  Goes(t, pc)
<1>1. Top(t) \in Frames
  BY TopType
<1>2. CASE Goto(t, pc)
  <2>1. PICK f : f = [Top(t) EXCEPT !.pc = pc]
    OBVIOUS
  <2>2. SetTop(t, f)
    BY <1>2, <2>1 DEF Goto
  <2>3. f \in Frames /\ f.fn = Top(t).fn /\ f.saved = Top(t).saved /\ f.pc = pc
    BY <1>1, <2>1 DEF Frames
  <2> QED BY <2>2, <2>3 DEF Goes
<1>3. CASE GotoRc(t, pc, rc)
  <2>1. PICK f : f = [Top(t) EXCEPT !.pc = pc, !.rc = rc]
    OBVIOUS
  <2>2. SetTop(t, f)
    BY <1>3, <2>1 DEF GotoRc
  <2>3. f \in Frames /\ f.fn = Top(t).fn /\ f.saved = Top(t).saved /\ f.pc = pc
    BY <1>1, <2>1 DEF Frames
  <2> QED BY <2>2, <2>3 DEF Goes
<1> QED BY <1>2, <1>3

\* The moves that leave the client state and the TLS context alone, whatever these are.
Quiet(fn, pc, to) ==
  \/ fn \in Acked /\ pc = "send" /\ to \in {"end", "wait"}
  \/ fn \in Acked /\ pc = "wait" /\ to \in {"wait", "send", "end"}
  \/ fn = "handle_publish" /\ pc = "callback" /\ to = "end"
  \/ fn = "handle_publish" /\ pc = "puback" /\ to = "return"
  \/ fn = "attempt_reconnect" /\ pc = "check" /\ to = "pend"
  \/ fn = "yield" /\ pc = "loop" /\ to \in {"return", "end", "read", "delay"}
  \/ fn = "yield" /\ pc = "delay" /\ to \in {"loop", "backoff"}
  \/ fn = "yield" /\ pc = "read" /\ to \in {"keepalive", "end"}
  \/ fn = "yield" /\ pc \in {"backoff", "keepalive", "arm"} /\ to = "loop"
  \/ pc \in CasPcs /\ to = pc
  \/ fn # "handle_publish" /\ pc = "enter" /\ to = "return"

\* The other moves of the functions that make and end a connection.
Links(fn, pc, to) ==
  \/ fn = "connect" /\ pc = "tls" /\ clientState' = clientState
       /\ ((to = "connack" /\ tls' = "open") \/ (to = "cleanup" /\ tls' = tls))
  \/ fn = "connect" /\ pc = "connack" /\ clientState' = clientState /\ tls' = tls
       /\ ((to = "done" /\ tls = "open") \/ to = "cleanup")
  \/ fn = "connect" /\ pc = "cleanup" /\ to = "fail" /\ clientState' = clientState /\ tls' = "closed"
  \/ fn = "disconnect" /\ pc = "check" /\ clientState' = clientState /\ tls' = tls
       /\ to = IF Connected(clientState) THEN "begin" ELSE "return"
  \/ fn = "disconnect" /\ pc = "send" /\ to \in {"close", "restore"} /\ clientState' = clientState /\ tls' = tls
  \/ fn = "disconnect" /\ pc = "close" /\ to = "manual" /\ clientState' = clientState /\ tls' = "closed"
  \/ fn = "disconnect" /\ pc = "manual" /\ to = "return" /\ clientState' = "DISCONNECTED_MANUALLY" /\ tls' = tls
  \/ fn = "yield" /\ pc = "force" /\ to = "destroy" /\ clientState' = "DISCONNECTED_ERROR" /\ tls' = tls
  \/ fn = "yield" /\ pc = "destroy" /\ to = "handler" /\ clientState' = clientState /\ tls' = "closed"
  \/ fn = "yield" /\ pc = "handler" /\ to \in {"pend", "return"} /\ clientState' = "DISCONNECTED_ERROR" /\ tls' = tls

\* Every step that is neither a call nor a return moves the top frame in one of these ways.
Moved(t) ==
  /\ depth[t] > 0
  /\ \/ /\ \E to \in Pcs : Goes(t, to) /\ Quiet(Top(t).fn, Top(t).pc, to)
        /\ clientState' = clientState /\ tls' = tls
     \/ \E to \in Pcs : Goes(t, to) /\ Links(Top(t).fn, Top(t).pc, to)
     \/ /\ Top(t).fn = "disconnect" /\ Top(t).pc = "restore"
        /\ Goes(t, "return") /\ clientState' = Top(t).saved /\ tls' = tls
     \/ /\ Top(t).pc \in CasPcs
        /\ clientState' = IF clientState = Expected(Top(t)) THEN NewState(Top(t)) ELSE clientState
        /\ Goes(t, AfterCas(Top(t), clientState = Expected(Top(t))))
        /\ tls' = tls
     \/ /\ Top(t).pc = "enter" /\ clientState \in Admits[Top(t).fn]
        /\ \E f \in Frames : /\ SetTop(t, f) /\ f.fn = Top(t).fn
                             /\ f.pc = IF f.fn = "yield" /\ clientState = "PENDING_RECONNECT" THEN "loop" ELSE "begin"
                             /\ f.saved = IF f.fn = "yield" THEN "CONNECTED_IDLE" ELSE clientState
        /\ clientState' = clientState /\ tls' = tls
     \/ /\ Top(t).pc = "enter" /\ Top(t).fn = "disconnect"
        /\ \E f \in Frames : SetTop(t, f) /\ f.fn = Top(t).fn /\ f.pc = "check" /\ f.saved = clientState
        /\ clientState' = clientState /\ tls' = tls

\* A frame of function fn that makes a call from place pc waits for it at place to.
CallsFrom(fn, pc, to) ==
  \/ pc = to
  \/ fn = "attempt_reconnect" /\ pc = "enter" /\ to = "connect"
  \/ fn = "attempt_reconnect" /\ pc = "check" /\ to = "resubscribe"
  \/ fn = "yield" /\ pc = "delay" /\ to = "reconnect"
  \/ fn = "yield" /\ pc = "keepalive" /\ to = "disconnect"

\* Every call puts its frame on top of one that waits for it.
Pushed(t) ==
  /\ \E pc \in Pcs, fn \in Fns \ {"none"} :
       /\ Push(t, pc, fn)
       /\ Waits(Top(t).fn, pc, fn)
       /\ CallsFrom(Top(t).fn, Top(t).pc, pc)
       /\ fn = "handle_publish" => tls = "open"
  /\ clientState' = clientState /\ tls' = tls

\* The steps of the only thread, sorted by what they do to its stack.
LEMMA StepShape ==
  ASSUME SingleThread, SingleThreadInv, NEW t \in Threads, Step(t) \/ App(t)
  PROVE  \/ Moved(t) \/ Pushed(t) \/ Return(t) \/ SetAutoReconnect(t)
         \/ \E fn \in Calls : Call(t, fn)
<1> DEFINE Shaped == \/ Moved(t) \/ Pushed(t) \/ Return(t) \/ SetAutoReconnect(t)
                     \/ \E fn \in Calls : Call(t, fn)
           Quiets  == /\ depth[t] > 0
                      /\ \E to \in Pcs : Goes(t, to) /\ Quiet(Top(t).fn, Top(t).pc, to)
                      /\ clientState' = clientState /\ tls' = tls
           Linked  == /\ depth[t] > 0
                      /\ \E to \in Pcs : Goes(t, to) /\ Links(Top(t).fn, Top(t).pc, to)
<1>1. TypeOK
  BY DEF SingleThreadInv
<1>2. \A pc \in Pcs : \A rc \in ReturnCodes : depth[t] > 0 /\ (Goto(t, pc) \/ GotoRc(t, pc, rc)) => Goes(t, pc)
  BY <1>1, GotoGoes
<1>3. /\ {"return", "send", "wait", "callback", "puback", "tls", "connack", "cleanup", "check",
          "close", "manual", "restore", "connect", "resubscribe", "loop", "delay", "reconnect",
          "backoff", "read", "keepalive", "disconnect", "force", "destroy", "handler", "arm",
          "begin", "end", "fail", "done", "pend"} \subseteq Pcs
      /\ {"SUCCESS", "ERROR", "DISCONNECTED", "ATTEMPTING", "ALREADY_CONNECTED"} \subseteq ReturnCodes
  BY DEF Pcs, CasPcs, ReturnCodes
<1>4. depth[t] > 0 => Top(t) \in Frames /\ Top(t).rc \in ReturnCodes /\ Top(t).fn \in Fns
  BY <1>1, TopType DEF Frames
<1>5. Quiets => Moved(t)
  BY DEF Moved
<1>6. Linked => Moved(t)
  BY DEF Moved
<1>7. depth[t] > 0 => \E rc \in ReturnCodes : rc = Top(t).rc
  BY <1>4
<1> HIDE DEF Shaped, Quiets, Linked
<1>8. CASE WaitTimeout(t)
  <2>1. depth[t] > 0 /\ clientState' = clientState /\ tls' = tls
    BY <1>8 DEF WaitTimeout, At, status
  <2>2. Goes(t, "end") /\ Quiet(Top(t).fn, Top(t).pc, "end")
    BY <1>8, <1>2, <1>3, <1>4, <1>7, <2>1 DEF WaitTimeout, At, Quiet
  <2> QED BY <1>3, <1>5, <2>1, <2>2 DEF Shaped, Quiets
<1>9. CASE CallbackDone(t)
  <2>1. depth[t] > 0 /\ clientState' = clientState /\ tls' = tls
    BY <1>9 DEF CallbackDone, At, status
  <2>2. Goes(t, "end") /\ Quiet(Top(t).fn, Top(t).pc, "end")
    BY <1>9, <1>2, <1>3, <1>4, <1>7, <2>1 DEF CallbackDone, At, Quiet
  <2> QED BY <1>3, <1>5, <2>1, <2>2 DEF Shaped, Quiets
<1>10. CASE SendPuback(t)
  <2>1. depth[t] > 0 /\ clientState' = clientState /\ tls' = tls
    BY <1>10 DEF SendPuback, At, status
  <2>2. Goes(t, "return") /\ Quiet(Top(t).fn, Top(t).pc, "return")
    BY <1>10, <1>2, <1>3, <1>4, <1>7, <2>1 DEF SendPuback, At, Quiet
  <2> QED BY <1>3, <1>5, <2>1, <2>2 DEF Shaped, Quiets
<1>11. CASE YieldLeave(t)
  <2>1. depth[t] > 0 /\ clientState' = clientState /\ tls' = tls
    BY <1>11 DEF YieldLeave, At, status
  <2>2. \/ Goes(t, "return") /\ Quiet(Top(t).fn, Top(t).pc, "return")
        \/ Goes(t, "end") /\ Quiet(Top(t).fn, Top(t).pc, "end")
    BY <1>11, <1>2, <1>3, <1>4, <1>7, <2>1 DEF YieldLeave, At, Quiet
  <2> QED BY <1>3, <1>5, <2>1, <2>2 DEF Shaped, Quiets
<1>12. CASE YieldIterate(t)
  <2>1. depth[t] > 0 /\ clientState' = clientState /\ tls' = tls
    BY <1>12 DEF YieldIterate, At, status
  <2>2. \/ Goes(t, "read") /\ Quiet(Top(t).fn, Top(t).pc, "read")
        \/ Goes(t, "end") /\ Quiet(Top(t).fn, Top(t).pc, "end")
        \/ Goes(t, "delay") /\ Quiet(Top(t).fn, Top(t).pc, "delay")
    BY <1>12, <1>2, <1>3, <1>4, <1>7, <2>1 DEF YieldIterate, At, Quiet
  <2> QED BY <1>3, <1>5, <2>1, <2>2 DEF Shaped, Quiets
<1>13. CASE Backoff(t)
  <2>1. depth[t] > 0 /\ clientState' = clientState /\ tls' = tls
    BY <1>13 DEF Backoff, At, status
  <2>2. Goes(t, "loop") /\ Quiet(Top(t).fn, Top(t).pc, "loop")
    BY <1>13, <1>2, <1>3, <1>4, <1>7, <2>1 DEF Backoff, At, Quiet
  <2> QED BY <1>3, <1>5, <2>1, <2>2 DEF Shaped, Quiets
<1>14. CASE YieldRead(t)
  <2>1. depth[t] > 0 /\ clientState' = clientState /\ tls' = tls
    BY <1>14 DEF YieldRead, At, status
  <2>2. \/ Goes(t, "keepalive") /\ Quiet(Top(t).fn, Top(t).pc, "keepalive")
        \/ Goes(t, "end") /\ Quiet(Top(t).fn, Top(t).pc, "end")
    BY <1>14, <1>2, <1>3, <1>4, <1>7, <2>1 DEF YieldRead, At, Quiet
  <2> QED BY <1>3, <1>5, <2>1, <2>2 DEF Shaped, Quiets
<1>15. CASE KeepAlive(t)
  <2>1. depth[t] > 0 /\ clientState' = clientState /\ tls' = tls
    BY <1>15 DEF KeepAlive, At, status
  <2>2. Goes(t, "loop") /\ Quiet(Top(t).fn, Top(t).pc, "loop")
    BY <1>15, <1>2, <1>3, <1>4, <1>7, <2>1 DEF KeepAlive, At, Quiet
  <2> QED BY <1>3, <1>5, <2>1, <2>2 DEF Shaped, Quiets
<1>16. CASE ArmReconnect(t)
  <2>1. depth[t] > 0 /\ clientState' = clientState /\ tls' = tls
    BY <1>16 DEF ArmReconnect, At, status
  <2>2. Goes(t, "loop") /\ Quiet(Top(t).fn, Top(t).pc, "loop")
    BY <1>16, <1>2, <1>3, <1>4, <1>7, <2>1 DEF ArmReconnect, At, Quiet
  <2> QED BY <1>3, <1>5, <2>1, <2>2 DEF Shaped, Quiets
<1>17. CASE ReceiveAck(t)
  <2>1. depth[t] > 0 /\ clientState' = clientState /\ tls' = tls
    BY <1>17 DEF ReceiveAck, At, status
  <2>2. \/ Goes(t, "send") /\ Quiet(Top(t).fn, Top(t).pc, "send")
        \/ Goes(t, "end") /\ Quiet(Top(t).fn, Top(t).pc, "end")
    BY <1>17, <1>2, <1>3, <1>4, <1>7, <2>1 DEF ReceiveAck, At, Quiet
  <2> QED BY <1>3, <1>5, <2>1, <2>2 DEF Shaped, Quiets
<1>18. CASE ReceivePingresp(t)
  <2>1. depth[t] > 0 /\ clientState' = clientState /\ tls' = tls
    BY <1>18 DEF ReceivePingresp, At, status
  <2>2. \/ Goes(t, "wait") /\ Quiet(Top(t).fn, Top(t).pc, "wait")
        \/ Goes(t, "keepalive") /\ Quiet(Top(t).fn, Top(t).pc, "keepalive")
    BY <1>18, <1>2, <1>3, <1>4, <1>7, <2>1 DEF ReceivePingresp, At, Quiet
  <2> QED BY <1>3, <1>5, <2>1, <2>2 DEF Shaped, Quiets
<1>19. CASE ConnectTls(t)
  <2>1. \/ Goes(t, "connack") /\ Links(Top(t).fn, Top(t).pc, "connack")
        \/ Goes(t, "cleanup") /\ Links(Top(t).fn, Top(t).pc, "cleanup")
    BY <1>19, <1>2, <1>3, <1>4, <1>7 DEF ConnectTls, At, Links, status
  <2>2. depth[t] > 0
    BY <1>19 DEF ConnectTls, At
  <2> QED BY <1>3, <1>6, <2>1, <2>2 DEF Shaped, Linked
<1>20. CASE ConnectMqtt(t)
  <2>1. \/ Goes(t, "done") /\ Links(Top(t).fn, Top(t).pc, "done")
        \/ Goes(t, "cleanup") /\ Links(Top(t).fn, Top(t).pc, "cleanup")
    BY <1>20, <1>2, <1>3, <1>4, <1>7 DEF ConnectMqtt, At, Links, status
  <2>2. depth[t] > 0
    BY <1>20 DEF ConnectMqtt, At
  <2> QED BY <1>3, <1>6, <2>1, <2>2 DEF Shaped, Linked
<1>21. CASE ConnectCleanup(t)
  <2>1. Goes(t, "fail") /\ Links(Top(t).fn, Top(t).pc, "fail")
    BY <1>21, <1>2, <1>3, <1>4, <1>7 DEF ConnectCleanup, At, Links, status
  <2>2. depth[t] > 0
    BY <1>21 DEF ConnectCleanup, At
  <2> QED BY <1>3, <1>6, <2>1, <2>2 DEF Shaped, Linked
<1>22. CASE DisconnectCheck(t)
  <2>1. \/ Goes(t, "begin") /\ Links(Top(t).fn, Top(t).pc, "begin")
        \/ Goes(t, "return") /\ Links(Top(t).fn, Top(t).pc, "return")
    BY <1>22, <1>2, <1>3, <1>4, <1>7 DEF DisconnectCheck, At, Links, status
  <2>2. depth[t] > 0
    BY <1>22 DEF DisconnectCheck, At
  <2> QED BY <1>3, <1>6, <2>1, <2>2 DEF Shaped, Linked
<1>23. CASE DisconnectSend(t)
  <2>1. \/ Goes(t, "close") /\ Links(Top(t).fn, Top(t).pc, "close")
        \/ Goes(t, "restore") /\ Links(Top(t).fn, Top(t).pc, "restore")
    BY <1>23, <1>2, <1>3, <1>4, <1>7 DEF DisconnectSend, At, Links, status
  <2>2. depth[t] > 0
    BY <1>23 DEF DisconnectSend, At
  <2> QED BY <1>3, <1>6, <2>1, <2>2 DEF Shaped, Linked
<1>24. CASE DisconnectClose(t)
  <2>1. Goes(t, "manual") /\ Links(Top(t).fn, Top(t).pc, "manual")
    BY <1>24, <1>2, <1>3, <1>4, <1>7 DEF DisconnectClose, At, Links, status
  <2>2. depth[t] > 0
    BY <1>24 DEF DisconnectClose, At
  <2> QED BY <1>3, <1>6, <2>1, <2>2 DEF Shaped, Linked
<1>25. CASE ForceState(t)
  <2>1. Goes(t, "destroy") /\ Links(Top(t).fn, Top(t).pc, "destroy")
    BY <1>25, <1>2, <1>3, <1>4, <1>7 DEF ForceState, At, Links, status
  <2>2. depth[t] > 0
    BY <1>25 DEF ForceState, At
  <2> QED BY <1>3, <1>6, <2>1, <2>2 DEF Shaped, Linked
<1>26. CASE ForceDestroy(t)
  <2>1. Goes(t, "handler") /\ Links(Top(t).fn, Top(t).pc, "handler")
    BY <1>26, <1>2, <1>3, <1>4, <1>7 DEF ForceDestroy, At, Links, status
  <2>2. depth[t] > 0
    BY <1>26 DEF ForceDestroy, At
  <2> QED BY <1>3, <1>6, <2>1, <2>2 DEF Shaped, Linked
<1>27. CASE HandlerDone(t)
  <2>1. \/ Goes(t, "pend") /\ Links(Top(t).fn, Top(t).pc, "pend")
        \/ Goes(t, "return") /\ Links(Top(t).fn, Top(t).pc, "return")
    BY <1>27, <1>2, <1>3, <1>4, <1>7 DEF HandlerDone, At, Links, status
  <2>2. depth[t] > 0
    BY <1>27 DEF HandlerDone, At
  <2> QED BY <1>3, <1>6, <2>1, <2>2 DEF Shaped, Linked
<1>28. CASE DisconnectAssign(t)
  <2>1. depth[t] > 0 /\ Goes(t, "return") /\ tls' = tls /\ Top(t).fn = "disconnect"
    BY <1>28, <1>2, <1>3, <1>7 DEF DisconnectAssign, At, status
  <2>2. CASE Top(t).pc = "manual" /\ clientState' = "DISCONNECTED_MANUALLY"
    <3>1. Links(Top(t).fn, Top(t).pc, "return")
      BY <2>1, <2>2 DEF Links
    <3> QED BY <1>3, <1>6, <2>1, <3>1 DEF Shaped, Linked
  <2>3. CASE Top(t).pc = "restore" /\ clientState' = Top(t).saved
    BY <2>1, <2>3 DEF Shaped, Moved
  <2> QED BY <1>28, <2>2, <2>3 DEF DisconnectAssign, At
<1>29. CASE LockAndCompare(t)
  <2>1. /\ depth[t] > 0 /\ Top(t).pc \in CasPcs /\ clientState' = clientState /\ tls' = tls
        /\ SetTop(t, [Top(t) EXCEPT !.match = (clientState = Expected(Top(t)))])
    BY <1>29 DEF LockAndCompare, status
  <2>2. PICK f : f = [Top(t) EXCEPT !.match = (clientState = Expected(Top(t)))]
    OBVIOUS
  <2>3. f \in Frames /\ f.fn = Top(t).fn /\ f.saved = Top(t).saved /\ f.pc = Top(t).pc
    BY <1>4, <2>1, <2>2 DEF Frames
  <2>4. SetTop(t, f)
    BY <2>1, <2>2
  <2>5. Goes(t, Top(t).pc) /\ Quiet(Top(t).fn, Top(t).pc, Top(t).pc) /\ Top(t).pc \in Pcs
    BY <2>1, <2>3, <2>4 DEF Goes, Quiet, Pcs
  <2> QED BY <1>5, <2>1, <2>5 DEF Shaped, Quiets
<1>30. CASE SwapAndUnlock(t)
  <2>1. /\ depth[t] > 0 /\ Top(t).pc \in CasPcs /\ tls' = tls /\ stateMutex = t
        /\ clientState' = IF Top(t).match THEN NewState(Top(t)) ELSE clientState
        /\ SetTop(t, [Top(t) EXCEPT !.pc = AfterCas(Top(t), Top(t).match),
                                    !.rc = RcAfterCas(Top(t), Top(t).match), !.match = FALSE])
    BY <1>30 DEF SwapAndUnlock, status
  <2>2. Top(t).match = (clientState = Expected(Top(t)))
    <3>1. Top(t).match <=> clientState = Expected(Top(t))
      BY <2>1 DEF SingleThreadInv, MutexOK
    <3>2. Top(t).match \in BOOLEAN
      BY <1>4, <2>1 DEF Frames
    <3> QED BY <3>1, <3>2
  <2>3. PICK f : f = [Top(t) EXCEPT !.pc = AfterCas(Top(t), Top(t).match),
                                   !.rc = RcAfterCas(Top(t), Top(t).match), !.match = FALSE]
    OBVIOUS
  <2>4. AfterCas(Top(t), Top(t).match) \in Pcs /\ RcAfterCas(Top(t), Top(t).match) \in ReturnCodes
    <3>1. Top(t) \in Frames /\ Top(t).match \in BOOLEAN
      BY <1>4, <2>1 DEF Frames
    <3> QED BY <3>1, CasTypes
  <2>5. f \in Frames /\ f.fn = Top(t).fn /\ f.saved = Top(t).saved /\ f.pc = AfterCas(Top(t), Top(t).match)
    BY <1>4, <2>1, <2>3, <2>4 DEF Frames
  <2>6. SetTop(t, f)
    BY <2>1, <2>3
  <2>7. Goes(t, AfterCas(Top(t), Top(t).match))
    BY <2>5, <2>6 DEF Goes
  <2>8. /\ Goes(t, AfterCas(Top(t), clientState = Expected(Top(t))))
        /\ clientState' = IF clientState = Expected(Top(t)) THEN NewState(Top(t)) ELSE clientState
    BY <2>1, <2>2, <2>7
  <2> QED BY <2>1, <2>8 DEF Shaped, Moved
<1>31. CASE TryLockFails(t)
  <2>1. stateMutex \in Threads /\ stateMutex # t
    BY <1>31, <1>1 DEF TryLockFails, TypeOK
  <2> QED BY <2>1 DEF SingleThread
<1>32. CASE Enter(t)
  <2>1. depth[t] > 0 /\ Top(t).pc = "enter" /\ clientState' = clientState /\ tls' = tls
    BY <1>32 DEF Enter, At, status
  <2>2. CASE clientState \in Admits[Top(t).fn]
    <3> DEFINE pc == IF Top(t).fn = "yield" /\ clientState = "PENDING_RECONNECT" THEN "loop" ELSE "begin"
               s  == IF Top(t).fn = "yield" THEN "CONNECTED_IDLE" ELSE clientState
    <3>1. pc \in Pcs /\ s \in ClientStates
      BY <1>1, <1>3 DEF TypeOK, ClientStates, ConnectedStates
    <3>2. PICK n \in Nat : SetTop(t, [Top(t) EXCEPT !.pc = pc, !.saved = s, !.left = n])
      <4>1. PICK n \in (IF Top(t).fn = "resubscribe" THEN 0..NumHandlers ELSE {1}) :
              SetTop(t, [Top(t) EXCEPT !.pc = pc, !.saved = s, !.left = n])
        BY <1>32, <2>2 DEF Enter
      <4>2. n \in Nat
        BY ConstantsAssumption
      <4> QED BY <4>1, <4>2
    <3> HIDE DEF pc, s
    <3>3. PICK f : f = [Top(t) EXCEPT !.pc = pc, !.saved = s, !.left = n]
      OBVIOUS
    <3>4. f \in Frames /\ f.fn = Top(t).fn /\ f.saved = s /\ f.pc = pc
      BY <1>4, <2>1, <3>1, <3>3 DEF Frames
    <3>5. SetTop(t, f)
      BY <3>2, <3>3
    <3> QED BY <2>1, <2>2, <3>4, <3>5 DEF Shaped, Moved, pc, s
  <2>3. CASE clientState \notin Admits[Top(t).fn]
    <3>1. Goes(t, "return")
      BY <1>32, <1>2, <1>3, <2>1, <2>3 DEF Enter
    <3>2. Top(t).fn # "handle_publish"
      BY <1>1, <2>3 DEF Admits, Fns, TypeOK
    <3>3. Quiet(Top(t).fn, Top(t).pc, "return")
      BY <2>1, <3>2 DEF Quiet
    <3> QED BY <1>3, <1>5, <2>1, <3>1, <3>3 DEF Shaped, Quiets
  <2> QED BY <2>2, <2>3
<1>33. CASE DisconnectEnter(t)
  <2>1. /\ depth[t] > 0 /\ Top(t).pc = "enter" /\ Top(t).fn = "disconnect"
        /\ clientState' = clientState /\ tls' = tls
        /\ SetTop(t, [Top(t) EXCEPT !.pc = "check", !.saved = clientState])
    BY <1>33 DEF DisconnectEnter, At, status
  <2>2. PICK f : f = [Top(t) EXCEPT !.pc = "check", !.saved = clientState]
    OBVIOUS
  <2>3. f \in Frames /\ f.fn = Top(t).fn /\ f.saved = clientState /\ f.pc = "check"
    BY <1>1, <1>3, <1>4, <2>1, <2>2 DEF Frames, TypeOK
  <2>4. SetTop(t, f)
    BY <2>1, <2>2
  <2> QED BY <2>1, <2>3, <2>4 DEF Shaped, Moved
<1>34. CASE Send(t)
  <2>1. depth[t] > 0 /\ clientState' = clientState /\ tls' = tls /\ Top(t).fn \in Acked /\ Top(t).pc = "send"
    BY <1>34 DEF Send, At, status
  <2>2. Goes(t, "end") \/ Goes(t, "wait")
    <3>1. CASE GotoRc(t, "end", "SUCCESS") \/ GotoRc(t, "end", "ERROR")
      BY <1>2, <1>3, <2>1, <3>1
    <3>2. CASE Top(t).left > 0 /\ SetTop(t, [Top(t) EXCEPT !.pc = "wait", !.left = @ - 1])
      <4>1. PICK n \in Nat : n = Top(t).left - 1
        BY <1>4, <2>1, <3>2 DEF Frames
      <4>2. PICK f : f = [Top(t) EXCEPT !.pc = "wait", !.left = n]
        OBVIOUS
      <4>3. f \in Frames /\ f.fn = Top(t).fn /\ f.saved = Top(t).saved /\ f.pc = "wait"
        BY <1>3, <1>4, <2>1, <4>2 DEF Frames
      <4>4. [Top(t) EXCEPT !.pc = "wait", !.left = @ - 1] = f
        BY <1>4, <2>1, <4>1, <4>2 DEF Frames
      <4> QED BY <3>2, <4>3, <4>4 DEF Goes
    <3> QED BY <1>34, <3>1, <3>2 DEF Send
  <2>3. Quiet(Top(t).fn, Top(t).pc, "end") /\ Quiet(Top(t).fn, Top(t).pc, "wait")
    BY <2>1 DEF Quiet
  <2> QED BY <1>3, <1>5, <2>1, <2>2, <2>3 DEF Shaped, Quiets
<1>35. CASE ReconnectEnter(t)
  <2>1. /\ depth[t] > 0 /\ clientState' = clientState /\ tls' = tls
        /\ Top(t).fn = "attempt_reconnect" /\ Top(t).pc = "enter"
    BY <1>35 DEF ReconnectEnter, At, status
  <2>2. CASE GotoRc(t, "return", "ALREADY_CONNECTED")
    <3>1. Goes(t, "return") /\ Quiet(Top(t).fn, Top(t).pc, "return")
      BY <1>2, <1>3, <2>1, <2>2 DEF Quiet
    <3> QED BY <1>3, <1>5, <2>1, <3>1 DEF Shaped, Quiets
  <2>3. CASE Push(t, "connect", "connect")
    <3>1. Pushed(t)
      BY <1>3, <2>1, <2>3 DEF Pushed, CallsFrom, Waits, Fns, Calls
    <3> QED BY <3>1 DEF Shaped
  <2> QED BY <1>35, <2>2, <2>3 DEF ReconnectEnter
<1>36. CASE ReconnectCheck(t)
  <2>1. /\ depth[t] > 0 /\ clientState' = clientState /\ tls' = tls
        /\ Top(t).fn = "attempt_reconnect" /\ Top(t).pc = "check"
    BY <1>36 DEF ReconnectCheck, At, status
  <2>2. CASE Goto(t, "pend")
    <3>1. Goes(t, "pend") /\ Quiet(Top(t).fn, Top(t).pc, "pend")
      BY <1>2, <1>3, <2>1, <2>2 DEF Quiet
    <3> QED BY <1>3, <1>5, <2>1, <3>1 DEF Shaped, Quiets
  <2>3. CASE Push(t, "resubscribe", "resubscribe")
    <3>1. Pushed(t)
      BY <1>3, <2>1, <2>3 DEF Pushed, CallsFrom, Waits, Fns, Calls, Acked
    <3> QED BY <3>1 DEF Shaped
  <2> QED BY <1>36, <2>2, <2>3 DEF ReconnectCheck
<1>37. CASE HandleReconnect(t)
  <2>1. /\ depth[t] > 0 /\ clientState' = clientState /\ tls' = tls
        /\ Top(t).fn = "yield" /\ Top(t).pc = "delay"
    BY <1>37 DEF HandleReconnect, At, status
  <2>2. CASE GotoRc(t, "loop", "ATTEMPTING") \/ GotoRc(t, "backoff", "ERROR")
    <3>1. \/ Goes(t, "loop") /\ Quiet(Top(t).fn, Top(t).pc, "loop")
          \/ Goes(t, "backoff") /\ Quiet(Top(t).fn, Top(t).pc, "backoff")
      BY <1>2, <1>3, <2>1, <2>2 DEF Quiet
    <3> QED BY <1>3, <1>5, <2>1, <3>1 DEF Shaped, Quiets
  <2>3. CASE Push(t, "reconnect", "attempt_reconnect")
    <3>1. Pushed(t)
      BY <1>3, <2>1, <2>3 DEF Pushed, CallsFrom, Waits, Fns, Calls
    <3> QED BY <3>1 DEF Shaped
  <2> QED BY <1>37, <2>2, <2>3 DEF HandleReconnect
<1>38. CASE KeepAliveLost(t)
  <2>1. /\ clientState' = clientState /\ tls' = tls
        /\ Top(t).fn = "yield" /\ Top(t).pc = "keepalive" /\ Push(t, "disconnect", "disconnect")
    BY <1>38 DEF KeepAliveLost, At, status
  <2>2. Pushed(t)
    BY <1>3, <2>1 DEF Pushed, CallsFrom, Waits, Fns, Calls
  <2> QED BY <2>2 DEF Shaped
<1>39. CASE ReceivePublish(t)
  <2>1. /\ clientState' = clientState /\ tls' = tls /\ tls = "open" /\ depth[t] > 0
        /\ Push(t, Top(t).pc, "handle_publish")
        /\ \/ Top(t).fn \in Acked /\ Top(t).pc = "wait"
           \/ Top(t).fn = "yield" /\ Top(t).pc = "read"
    BY <1>39 DEF ReceivePublish, At, status
  <2>2. Pushed(t)
    BY <1>3, <2>1 DEF Pushed, CallsFrom, Waits, Fns
  <2> QED BY <2>2 DEF Shaped
<1>40. ASSUME NEW fn \in Calls, NestedCall(t, fn) PROVE Shaped
  <2>1. /\ clientState' = clientState /\ tls' = tls /\ Push(t, Top(t).pc, fn)
        /\ \/ Top(t).fn = "handle_publish" /\ Top(t).pc = "callback" /\ fn \in CallbackCalls
           \/ Top(t).fn = "yield" /\ Top(t).pc = "handler" /\ fn \in HandlerCalls
    BY <1>40 DEF NestedCall, At, status
  <2>2. Waits(Top(t).fn, Top(t).pc, fn) /\ Top(t).pc \in Pcs
    BY <1>3, <2>1 DEF Waits
  <2>3. fn \in Fns \ {"none"} /\ fn # "handle_publish"
    BY DEF Fns, Calls, Acked, Requests
  <2>4. Pushed(t)
    BY <2>1, <2>2, <2>3 DEF Pushed, CallsFrom
  <2> QED BY <2>4 DEF Shaped
<1> QED
  BY <1>8, <1>9, <1>10, <1>11, <1>12, <1>13, <1>14, <1>15, <1>16, <1>17, <1>18, <1>19, <1>20, <1>21, <1>22, <1>23, <1>24, <1>25, <1>26, <1>27, <1>28, <1>29, <1>30, <1>31, <1>32, <1>33, <1>34, <1>35, <1>36, <1>37, <1>38, <1>39, <1>40 DEF Step, App, Shaped

-----------------------------------------------------------------------------
(* The shape of the stack is an invariant.                                 *)

\* The places of each function, one by one.
LEMMA PlacesOf ==
  /\ \A fn \in Acked : PcsOf[fn] = {"enter", "begin", "send", "wait", "end", "undo", "return"}
  /\ PcsOf["handle_publish"] = {"enter", "begin", "callback", "end", "puback", "return"}
  /\ PcsOf["connect"] = {"enter", "begin", "tls", "connack", "cleanup", "done", "fail", "return"}
  /\ PcsOf["disconnect"] = {"enter", "check", "begin", "send", "close", "manual", "restore", "return"}
  /\ PcsOf["attempt_reconnect"] = {"enter", "connect", "check", "resubscribe", "pend", "return"}
  /\ PcsOf["yield"] = {"enter", "begin", "loop", "read", "keepalive", "disconnect", "force",
                       "destroy", "handler", "pend", "arm", "delay", "reconnect", "backoff",
                       "resume", "end", "return"}
  /\ PcsOf["none"] = {}
BY DEF PcsOf, Fns, Calls, Acked, Requests

\* A move of the top frame that keeps its own shape keeps the shape of the stack.
LEMMA StackMove ==
  ASSUME TypeOK, NEW t \in Threads, StackOK(t), depth[t] > 0, NEW f, SetTop(t, f), f.fn = Top(t).fn,
         f.pc \in PcsOf[f.fn], SavedOK(f), StateOK(f, clientState')
  PROVE  StackOK(t)'
<1>1. /\ depth' = depth
      /\ depth[t] \in 1..MaxDepth
      /\ frame'[t][depth[t]] = f
      /\ \A d \in 1..MaxDepth : d # depth[t] => frame'[t][d] = frame[t][d]
  BY SetTopEffect
<1>2. \A d \in 1..depth[t] : d \in 1..MaxDepth /\ (d < depth[t] => d + 1 \in 1..depth[t])
  BY <1>1, ConstantsAssumption
<1>3. \A d \in 1..depth[t] : d = depth[t] \/ frame'[t][d] = frame[t][d]
  BY <1>1, <1>2
<1>4. \A d \in 1..depth[t] : frame'[t][d].fn = frame[t][d].fn
  BY <1>1, <1>3 DEF Top
<1>5. \A d \in 1..depth'[t] : frame'[t][d].pc \in PcsOf[frame'[t][d].fn] /\ SavedOK(frame'[t][d])
  BY <1>1, <1>3 DEF StackOK
<1>6. \A d \in 1..depth'[t] : d < depth'[t] => Waits(frame'[t][d].fn, frame'[t][d].pc, frame'[t][d + 1].fn)
  <2> SUFFICES ASSUME NEW d \in 1..depth[t], d < depth[t]
               PROVE  Waits(frame'[t][d].fn, frame'[t][d].pc, frame'[t][d + 1].fn)
    BY <1>1
  <2>1. d # depth[t] /\ d + 1 \in 1..depth[t]
    BY <1>1, <1>2
  <2>2. frame'[t][d] = frame[t][d] /\ frame'[t][d + 1].fn = frame[t][d + 1].fn
    BY <1>3, <1>4, <2>1
  <2>3. Waits(frame[t][d].fn, frame[t][d].pc, frame[t][d + 1].fn)
    BY DEF StackOK
  <2> QED BY <2>2, <2>3
<1>7. StateOK(Top(t)', clientState')
  BY <1>1 DEF Top
<1> QED BY <1>5, <1>6, <1>7 DEF StackOK

\* Every move of the top frame keeps the shape of the stack: nothing changes the client state
\* between the place where a call saves it and its compare-and-swap, so the swap succeeds.
LEMMA StackMoved ==
  ASSUME TypeOK, NEW t \in Threads, StackOK(t), Moved(t)
  PROVE  StackOK(t)'
<1> DEFINE g == Top(t)
<1>1. depth[t] > 0 /\ g \in Frames /\ g.fn \in Fns /\ depth[t] \in 1..depth[t] /\ g = frame[t][depth[t]]
  BY TopType DEF Moved, Frames, TypeOK, Top
<1>2. g.pc \in PcsOf[g.fn] /\ SavedOK(g) /\ StateOK(g, clientState)
  BY <1>1 DEF StackOK
<1>3. ASSUME NEW to \in Pcs, Goes(t, to), to \in PcsOf[g.fn],
             \A f \in Frames : f.fn = g.fn /\ f.saved = g.saved /\ f.pc = to => SavedOK(f) /\ StateOK(f, clientState')
      PROVE  StackOK(t)'
  <2>1. PICK f \in Frames : SetTop(t, f) /\ f.fn = g.fn /\ f.saved = g.saved /\ f.pc = to
    BY <1>3 DEF Goes
  <2> HIDE DEF g
  <2>2. f.pc \in PcsOf[f.fn] /\ SavedOK(f) /\ StateOK(f, clientState')
    BY <1>3, <2>1
  <2> QED BY <1>1, <2>1, <2>2, StackMove DEF g
<1>4. clientState \in ClientStates
  BY DEF TypeOK
<1>5. "handle_publish" \notin Acked /\ "connect" \notin Acked /\ "disconnect" \notin Acked
      /\ "attempt_reconnect" \notin Acked /\ "yield" \notin Acked /\ "none" \notin Acked
  BY DEF Acked, Requests
<1>6. g.fn \in Acked \/ g.fn \in {"handle_publish", "connect", "disconnect", "attempt_reconnect", "yield", "none"}
  BY <1>1 DEF Fns, Calls
<1> HIDE DEF g
<1>7. ASSUME NEW to \in Pcs, Goes(t, to), Quiet(g.fn, g.pc, to), clientState' = clientState
      PROVE  StackOK(t)'
  <2>1. to \in PcsOf[g.fn]
    BY <1>2, <1>5, <1>6, <1>7, PlacesOf DEF Quiet
  <2>2. ASSUME NEW f \in Frames, f.fn = g.fn, f.saved = g.saved, f.pc = to
        PROVE  SavedOK(f) /\ StateOK(f, clientState')
    <3>1. SavedOK(f)
      BY <1>2, <1>5, <1>6, <1>7, <2>2 DEF Quiet, SavedOK, CasPcs
    <3>2. StateOK(f, clientState)
      BY <1>2, <1>5, <1>6, <1>7, <2>2 DEF Quiet, StateOK, CasPcs
    <3> QED BY <1>7, <3>1, <3>2
  <2> QED BY <1>3, <1>7, <2>1, <2>2
<1>8. ASSUME NEW to \in Pcs, Goes(t, to), Links(g.fn, g.pc, to)
      PROVE  StackOK(t)'
  <2>1. to \in PcsOf[g.fn]
    BY <1>8, PlacesOf DEF Links
  <2>2. ASSUME NEW f \in Frames, f.fn = g.fn, f.saved = g.saved, f.pc = to
        PROVE  SavedOK(f) /\ StateOK(f, clientState')
    <3>1. SavedOK(f)
      BY <1>2, <1>8, <2>2 DEF Links, SavedOK, StateOK
    <3>2. StateOK(f, clientState')
      BY <1>2, <1>8, <2>2 DEF Links, StateOK
    <3> QED BY <3>1, <3>2
  <2> QED BY <1>3, <1>8, <2>1, <2>2
<1>9. ASSUME g.fn = "disconnect", Goes(t, "return")
      PROVE  StackOK(t)'
  <2>1. "return" \in PcsOf[g.fn] /\ "return" \in Pcs
    BY <1>9, PlacesOf DEF Pcs
  <2>2. \A f \in Frames : f.fn = g.fn /\ f.saved = g.saved /\ f.pc = "return" => SavedOK(f) /\ StateOK(f, clientState')
    BY <1>9 DEF SavedOK, StateOK
  <2> QED BY <1>3, <1>9, <2>1, <2>2
<1>10. ASSUME g.pc \in CasPcs, NEW ok \in BOOLEAN, ok = (clientState = Expected(g)),
              clientState' = IF ok THEN NewState(g) ELSE clientState,
              Goes(t, AfterCas(g, ok))
       PROVE  StackOK(t)'
  <2>1. g.pc = "begin" => ok
    BY <1>2, <1>10 DEF StateOK, Expected
  <2>2. ok => clientState' = NewState(g)
    BY <1>10
  <2>3. PICK to \in Pcs : to = AfterCas(g, ok)
    BY <1>1, <1>10, CasTypes
  <2>4. to \in PcsOf[g.fn]
    BY <1>2, <1>5, <1>6, <1>10, <2>1, <2>3, PlacesOf DEF AfterCas, CasPcs
  <2>5. ASSUME NEW f \in Frames, f.fn = g.fn, f.saved = g.saved, f.pc = to
        PROVE  SavedOK(f) /\ StateOK(f, clientState')
    <3>1. SavedOK(f)
      BY <1>2, <1>5, <1>6, <1>10, <2>1, <2>3, <2>5 DEF AfterCas, SavedOK, CasPcs
    <3>2. StateOK(f, clientState')
      <4>1. CASE g.pc = "begin" /\ g.fn \in {"connect", "disconnect"}
        <5>1. clientState' = Own[g.fn]
          BY <2>1, <2>2, <4>1 DEF NewState
        <5>2. to \in {"tls", "send"}
          BY <1>5, <2>1, <2>3, <4>1 DEF AfterCas
        <5>3. Own["connect"] = "CONNECTING" /\ Own["disconnect"] = "DISCONNECTING"
          BY DEF Own, Fns, Calls
        <5>4. g.fn = "connect" => to = "tls"
          BY <1>5, <2>3, <4>1 DEF AfterCas
        <5> QED BY <2>5, <4>1, <5>1, <5>2, <5>3, <5>4 DEF StateOK
      <4>2. CASE ~(g.pc = "begin" /\ g.fn \in {"connect", "disconnect"})
        <5>1. to \notin {"begin", "check", "tls", "destroy", "connack", "cleanup", "done", "fail", "close", "manual", "restore"}
          BY <1>10, <2>3, <4>2 DEF AfterCas, CasPcs
        <5>2. g.fn = "disconnect" => to # "send"
          BY <1>2, <1>10, <2>3, <4>2, PlacesOf DEF AfterCas, CasPcs
        <5> QED BY <2>5, <5>1, <5>2 DEF StateOK
      <4> QED BY <4>1, <4>2
    <3> QED BY <3>1, <3>2
  <2> QED BY <1>3, <1>10, <2>3, <2>4, <2>5
<1>11. ASSUME g.pc = "enter", clientState \in Admits[g.fn], NEW f \in Frames, SetTop(t, f), f.fn = g.fn,
              f.pc = IF f.fn = "yield" /\ clientState = "PENDING_RECONNECT" THEN "loop" ELSE "begin",
              f.saved = IF f.fn = "yield" THEN "CONNECTED_IDLE" ELSE clientState,
              clientState' = clientState
       PROVE  StackOK(t)'
  <2>1. /\ \A fn \in Acked : Admits[fn] \subseteq ConnectedStates
        /\ Admits["yield"] = {"CONNECTED_IDLE", "PENDING_RECONNECT"}
        /\ Admits["disconnect"] = {} /\ Admits["attempt_reconnect"] = {} /\ Admits["none"] = {}
    BY DEF Admits, Fns, Calls, Acked, Requests, ConnectedStates
  <2>2. f.pc \in PcsOf[f.fn]
    BY <1>6, <1>11, <2>1, PlacesOf
  <2>3. SavedOK(f)
    BY <1>11, <2>1 DEF SavedOK, Connected, ConnectedStates
  <2>4. StateOK(f, clientState')
    BY <1>11, <2>1 DEF StateOK
  <2> QED BY <1>1, <1>11, <2>2, <2>3, <2>4, StackMove DEF g
<1>12. ASSUME g.pc = "enter", g.fn = "disconnect", NEW f \in Frames, SetTop(t, f), f.fn = g.fn,
              f.pc = "check", f.saved = clientState, clientState' = clientState
       PROVE  StackOK(t)'
  <2>1. f.pc \in PcsOf[f.fn]
    BY <1>12, PlacesOf
  <2>2. SavedOK(f) /\ StateOK(f, clientState')
    BY <1>12 DEF SavedOK, StateOK
  <2> QED BY <1>1, <1>12, <2>1, <2>2, StackMove DEF g
<1> QED
  <2>1. (clientState = Expected(g)) \in BOOLEAN
    OBVIOUS
  <2> QED BY <1>7, <1>8, <1>9, <1>10, <1>11, <1>12, <2>1 DEF Moved, g

\* The frame of a call that has just been made.
LEMMA EnterShape ==
  ASSUME NEW fn \in Fns \ {"none"}, NEW f, f = [NoFrame EXCEPT !.fn = fn, !.pc = "enter"], NEW s
  PROVE  /\ f.fn = fn /\ f.pc = "enter"
         /\ f.pc \in PcsOf[f.fn] /\ SavedOK(f) /\ StateOK(f, s)
<1>1. f.fn = fn /\ f.pc = "enter"
  BY DEF NoFrame
<1>2. fn \in Acked \/ fn \in {"handle_publish", "connect", "disconnect", "attempt_reconnect", "yield"}
  BY DEF Fns, Calls
<1>3. f.pc \in PcsOf[f.fn]
  BY <1>1, <1>2, PlacesOf
<1>4. SavedOK(f) /\ StateOK(f, s)
  BY <1>1 DEF SavedOK, StateOK
<1> QED BY <1>1, <1>3, <1>4

\* A call of fn puts frame h on top of frame f, which waits at place pc.
PushesOnto(t, pc, fn, n, f, h) ==
  /\ n = depth[t] /\ n \in 1..MaxDepth /\ depth'[t] = n + 1
  /\ Top(t) = frame[t][n] /\ Top(t) \in Frames
  /\ f.fn = Top(t).fn /\ f.saved = Top(t).saved /\ f.pc = pc
  /\ h.fn = fn /\ h.pc = "enter" /\ h = [NoFrame EXCEPT !.fn = fn, !.pc = "enter"]
  /\ frame'[t][n] = f /\ frame'[t][n + 1] = h
  /\ \A d \in 1..n : d # n => frame'[t][d] = frame[t][d]
  /\ Waits(Top(t).fn, pc, fn)
  /\ CallsFrom(Top(t).fn, Top(t).pc, pc)
  /\ fn = "handle_publish" => tls = "open"

\* What a call does to the stack of its thread, with the frames named.
LEMMA PushedStack ==
  ASSUME TypeOK, NEW t \in Threads, Pushed(t)
  PROVE  \E pc \in Pcs, fn \in Fns \ {"none"}, n \in Nat, f \in Frames, h \in Frames :
           PushesOnto(t, pc, fn, n, f, h)
<1>1. PICK pc \in Pcs, fn \in Fns \ {"none"} :
        /\ Push(t, pc, fn)
        /\ Waits(Top(t).fn, pc, fn)
        /\ CallsFrom(Top(t).fn, Top(t).pc, pc)
        /\ fn = "handle_publish" => tls = "open"
  BY DEF Pushed
<1>2. /\ depth[t] \in 1..MaxDepth /\ depth[t] + 1 \in 1..MaxDepth
      /\ depth'[t] = depth[t] + 1
      /\ frame'[t][depth[t]] = [Top(t) EXCEPT !.pc = pc]
      /\ frame'[t][depth[t] + 1] = [NoFrame EXCEPT !.fn = fn, !.pc = "enter"]
      /\ \A d \in 1..MaxDepth : d < depth[t] => frame'[t][d] = frame[t][d]
  BY <1>1, PushEffect
<1>3. PICK n \in Nat : n = depth[t]
  BY DEF TypeOK
<1>4. PICK f : f = [Top(t) EXCEPT !.pc = pc]
  OBVIOUS
<1>5. PICK h : h = [NoFrame EXCEPT !.fn = fn, !.pc = "enter"]
  OBVIOUS
<1>6. Top(t) \in Frames /\ Top(t) = frame[t][n]
  BY <1>2, <1>3, ConstantsAssumption, TopType DEF Top
<1>7. f \in Frames /\ f.fn = Top(t).fn /\ f.saved = Top(t).saved /\ f.pc = pc
  BY <1>4, <1>6 DEF Frames
<1>8. h \in Frames /\ h.fn = fn /\ h.pc = "enter"
  BY <1>5 DEF Frames, NoFrame, Pcs, ClientStates, ReturnCodes
<1>9. \A d \in 1..n : d # n => d \in 1..MaxDepth /\ d < n
  BY <1>2, <1>3, ConstantsAssumption
<1>10. n \in 1..MaxDepth /\ depth'[t] = n + 1 /\ frame'[t][n] = f /\ frame'[t][n + 1] = h
  BY <1>2, <1>3, <1>4, <1>5
<1>11. \A d \in 1..n : d # n => frame'[t][d] = frame[t][d]
  BY <1>2, <1>3, <1>9
<1>12. PushesOnto(t, pc, fn, n, f, h)
  BY <1>1, <1>3, <1>5, <1>6, <1>7, <1>8, <1>10, <1>11 DEF PushesOnto
<1> QED BY <1>7, <1>8, <1>12

\* Every call keeps the shape of the stack.
LEMMA StackPushed ==
  ASSUME TypeOK, NEW t \in Threads, StackOK(t), Pushed(t)
  PROVE  StackOK(t)'
<1>0. PICK pc \in Pcs, fn \in Fns \ {"none"}, n \in Nat, f \in Frames, h \in Frames :
        PushesOnto(t, pc, fn, n, f, h)
  BY PushedStack
<1>1. /\ n = depth[t] /\ depth'[t] = n + 1 /\ Top(t) = frame[t][n] /\ n \in 1..MaxDepth
      /\ f.fn = Top(t).fn /\ f.saved = Top(t).saved /\ f.pc = pc
      /\ h = [NoFrame EXCEPT !.fn = fn, !.pc = "enter"]
      /\ frame'[t][n] = f /\ frame'[t][n + 1] = h
      /\ \A d \in 1..n : d # n => frame'[t][d] = frame[t][d]
      /\ Waits(Top(t).fn, pc, fn)
      /\ CallsFrom(Top(t).fn, Top(t).pc, pc)
  BY <1>0 DEF PushesOnto
<1>2. n \in 1..n /\ Top(t) = frame[t][n]
  BY <1>1 DEF Top
<1>3. Top(t).pc \in PcsOf[Top(t).fn] /\ SavedOK(Top(t))
  BY <1>1, <1>2 DEF StackOK
<1>4. pc \in PcsOf[f.fn] /\ SavedOK(f)
  <2>1. "attempt_reconnect" \notin Acked /\ "handle_publish" \notin Acked
    BY DEF Acked, Requests
  <2>2. pc \in PcsOf[f.fn]
    BY <1>1, PlacesOf DEF Waits
  <2>3. SavedOK(f)
    BY <1>1, <1>3, <2>1 DEF SavedOK, Waits, CallsFrom
  <2> QED BY <2>2, <2>3
<1>5. h.fn = fn /\ h.pc \in PcsOf[h.fn] /\ SavedOK(h) /\ StateOK(h, clientState')
  <2>1. h = [NoFrame EXCEPT !.fn = fn, !.pc = "enter"]
    BY <1>1
  <2> QED BY <2>1, EnterShape
<1>6. \A d \in 1..(n + 1) : d = n + 1 \/ d = n \/ (d \in 1..n /\ d # n /\ d + 1 \in 1..n)
  BY <1>1
<1>7. \A d \in 1..n : frame'[t][d].fn = frame[t][d].fn
  BY <1>1, <1>2
<1>8. \A d \in 1..depth'[t] : frame'[t][d].pc \in PcsOf[frame'[t][d].fn] /\ SavedOK(frame'[t][d])
  <2> SUFFICES ASSUME NEW d \in 1..(n + 1)
               PROVE  frame'[t][d].pc \in PcsOf[frame'[t][d].fn] /\ SavedOK(frame'[t][d])
    BY <1>1
  <2>1. CASE d = n + 1
    BY <1>1, <1>5, <2>1
  <2>2. CASE d = n
    BY <1>1, <1>4, <2>2
  <2>3. CASE d \in 1..n /\ d # n
    BY <1>1, <2>3 DEF StackOK
  <2> QED BY <1>6, <2>1, <2>2, <2>3
<1>9. \A d \in 1..depth'[t] : d < depth'[t] => Waits(frame'[t][d].fn, frame'[t][d].pc, frame'[t][d + 1].fn)
  <2> SUFFICES ASSUME NEW d \in 1..(n + 1), d < n + 1
               PROVE  Waits(frame'[t][d].fn, frame'[t][d].pc, frame'[t][d + 1].fn)
    BY <1>1
  <2>1. CASE d = n
    <3>1. frame'[t][d] = f /\ frame'[t][d + 1] = h
      BY <1>1, <2>1
    <3> QED BY <1>1, <1>5, <3>1
  <2>2. CASE d \in 1..n /\ d # n /\ d + 1 \in 1..n
    <3>1. frame'[t][d] = frame[t][d] /\ frame'[t][d + 1].fn = frame[t][d + 1].fn /\ d < depth[t]
      BY <1>1, <1>7, <2>2
    <3>2. Waits(frame[t][d].fn, frame[t][d].pc, frame[t][d + 1].fn)
      BY <1>1, <2>2, <3>1 DEF StackOK
    <3> QED BY <3>1, <3>2
  <2> QED BY <1>6, <2>1, <2>2
<1>10. StateOK(Top(t)', clientState')
  BY <1>1, <1>5 DEF Top
<1> QED BY <1>8, <1>9, <1>10 DEF StackOK

\* Where a caller goes when the call it waits for returns.
LEMMA ResumePlace ==
  ASSUME NEW g \in Frames, NEW rc \in ReturnCodes, NEW callee, Waits(g.fn, g.pc, callee)
  PROVE  /\ Resume(g, rc).fn = g.fn
         /\ Resume(g, rc).saved = g.saved
         /\ Resume(g, rc).pc \in PcsOf[g.fn] \ {"enter", "begin"}
         /\ g.fn = "yield" => Resume(g, rc).pc \in {"keepalive", "end", "force", "handler", "resume", "backoff"}
         /\ g.fn = "yield" /\ Resume(g, rc).pc = "handler" =>
              g.pc = "handler" \/ (g.pc = "disconnect" /\ rc = "SUCCESS")
         /\ g.fn \in Acked \union {"handle_publish"} => Resume(g, rc) = g
<1>1. "handle_publish" \notin Acked /\ "attempt_reconnect" \notin Acked /\ "yield" \notin Acked
  BY DEF Acked, Requests
<1>2. CASE g.fn = "yield" /\ g.pc = "read"
  BY <1>1, <1>2, PlacesOf DEF Resume, Frames
<1>3. CASE g.fn = "yield" /\ g.pc = "disconnect"
  BY <1>1, <1>3, PlacesOf DEF Resume, Frames
<1>4. CASE g.fn = "yield" /\ g.pc = "reconnect"
  BY <1>1, <1>4, PlacesOf DEF Resume, Frames
<1>5. CASE g.fn = "attempt_reconnect" /\ g.pc = "connect"
  BY <1>1, <1>5, PlacesOf DEF Resume, Frames
<1>6. CASE g.fn = "attempt_reconnect" /\ g.pc = "resubscribe"
  BY <1>1, <1>6, PlacesOf DEF Resume, Frames
<1>7. CASE g.fn = "yield" /\ g.pc = "handler"
  <2>1. Resume(g, rc) = g
    BY <1>7 DEF Resume
  <2> QED BY <1>1, <1>7, <2>1, PlacesOf
<1>8. CASE (g.fn \in Acked /\ g.pc = "wait") \/ (g.fn = "handle_publish" /\ g.pc = "callback")
  <2>1. Resume(g, rc) = g
    BY <1>1, <1>8 DEF Resume
  <2> QED BY <1>1, <1>8, <2>1, PlacesOf
<1> QED BY <1>2, <1>3, <1>4, <1>5, <1>6, <1>7, <1>8 DEF Waits

\* A return takes the top frame away; its caller, frame g, goes on as frame r.
ReturnsTo(t, n, g, r) ==
  /\ n = depth'[t] /\ depth[t] = n + 1 /\ n + 1 \in 1..MaxDepth
  /\ Top(t) = frame[t][n + 1] /\ Top(t).pc = "return" /\ Top(t) \in Frames
  /\ \A d \in 1..n : d # n => frame'[t][d] = frame[t][d]
  /\ n > 0 => /\ frame[t][n] = g /\ frame'[t][n] = r
              /\ r = Resume(g, Top(t).rc)
              /\ Waits(g.fn, g.pc, Top(t).fn)

\* What a return does to the stack of its thread, with the frames named.
LEMMA ReturnedStack ==
  ASSUME TypeOK, NEW t \in Threads, StackOK(t), Return(t)
  PROVE  \E n \in Nat, g \in Frames, r \in Frames : ReturnsTo(t, n, g, r)
<1>1. /\ depth[t] \in 1..MaxDepth /\ Top(t).pc = "return"
      /\ depth'[t] = depth[t] - 1
      /\ depth[t] > 1 => /\ depth[t] - 1 \in 1..MaxDepth
                         /\ frame'[t][depth[t] - 1] = Resume(frame[t][depth[t] - 1], Top(t).rc)
      /\ \A d \in 1..MaxDepth : d < depth[t] - 1 => frame'[t][d] = frame[t][d]
  BY ReturnEffect
<1>2. PICK n \in Nat : n = depth[t] - 1
  BY <1>1, ConstantsAssumption
<1>3. n = depth'[t] /\ depth[t] = n + 1 /\ n + 1 \in 1..MaxDepth
  BY <1>1, <1>2, ConstantsAssumption
<1>4. Top(t) = frame[t][n + 1]
  BY <1>3 DEF Top
<1>5. \A d \in 1..n : d \in 1..MaxDepth /\ (d # n => d < n)
  BY <1>3, ConstantsAssumption
<1>6. \A d \in 1..n : d # n => frame'[t][d] = frame[t][d]
  BY <1>1, <1>2, <1>5
<1>7. Top(t) \in Frames /\ Top(t).rc \in ReturnCodes
  BY <1>1, ConstantsAssumption, TopType DEF Frames
<1>8. CASE n > 0
  <2>1. n \in 1..n /\ n \in 1..depth[t] /\ n < depth[t] /\ n \in 1..MaxDepth
    BY <1>3, <1>5, <1>8
  <2>2. PICK g \in Frames : g = frame[t][n]
    BY <2>1 DEF TypeOK
  <2>3. PICK r \in Frames : r = Resume(g, Top(t).rc)
    BY <1>7, <2>2, ResumeType
  <2>4. depth[t] - 1 = n /\ depth[t] > 1
    BY <1>3, <1>8
  <2>5. frame'[t][n] = Resume(frame[t][n], Top(t).rc)
    BY <1>1, <2>4
  <2>6. frame'[t][n] = r
    BY <2>2, <2>3, <2>5
  <2>7. Waits(frame[t][n].fn, frame[t][n].pc, frame[t][n + 1].fn)
    BY <2>1 DEF StackOK
  <2>8. ReturnsTo(t, n, g, r)
    BY <1>1, <1>3, <1>4, <1>6, <1>7, <2>2, <2>3, <2>6, <2>7 DEF ReturnsTo
  <2> QED BY <2>8
<1>9. CASE ~(n > 0)
  <2>1. ReturnsTo(t, n, Top(t), Top(t))
    BY <1>1, <1>3, <1>4, <1>6, <1>7, <1>9 DEF ReturnsTo
  <2> QED BY <1>7, <2>1
<1> QED BY <1>8, <1>9

\* Every return keeps the shape of the stack.
LEMMA StackReturn ==
  ASSUME TypeOK, NEW t \in Threads, StackOK(t), Return(t)
  PROVE  StackOK(t)'
<1>0. PICK n \in Nat, g \in Frames, r \in Frames : ReturnsTo(t, n, g, r)
  BY ReturnedStack
<1>1. /\ n = depth'[t] /\ depth[t] = n + 1
      /\ \A d \in 1..n : d # n => frame'[t][d] = frame[t][d]
      /\ n > 0 => /\ frame[t][n] = g /\ frame'[t][n] = r
                  /\ r = Resume(g, Top(t).rc)
                  /\ Waits(g.fn, g.pc, Top(t).fn)
      /\ Top(t).rc \in ReturnCodes
  BY <1>0 DEF ReturnsTo, Frames
<1>2. CASE n = 0
  <2>1. 1..depth'[t] = {} /\ ~(depth'[t] > 0)
    BY <1>1, <1>2
  <2> QED BY <2>1 DEF StackOK
<1>3. CASE n > 0
  <2>1. n \in 1..n /\ n \in 1..(n + 1)
    BY <1>3
  <2>2. \A d \in 1..n : d \in 1..depth[t] /\ d < depth[t] /\ (d < n => d + 1 \in 1..n)
    BY <1>1
  <2>3. g.pc \in PcsOf[g.fn] /\ SavedOK(g)
    BY <1>1, <1>3, <2>1 DEF StackOK
  <2>4. /\ r.fn = g.fn /\ r.saved = g.saved
        /\ r.pc \in PcsOf[g.fn] \ {"enter", "begin"}
        /\ g.fn = "yield" => r.pc \in {"keepalive", "end", "force", "handler", "resume", "backoff"}
        /\ g.fn \in Acked \union {"handle_publish"} => r = g
    <3>1. r = Resume(g, Top(t).rc) /\ Waits(g.fn, g.pc, Top(t).fn) /\ Top(t).rc \in ReturnCodes
      BY <1>1, <1>3
    <3> QED BY <3>1, ResumePlace
  <2>5. r.fn \notin {"connect", "disconnect"}
    <3>1. "connect" \notin Acked /\ "disconnect" \notin Acked
      BY DEF Acked, Requests
    <3> QED BY <1>1, <1>3, <2>4, <3>1 DEF Waits
  <2>6. SavedOK(r)
    <3>1. g.fn = "yield" => g.pc \notin {"enter", "check", "return"}
      <4>1. "yield" \notin Acked
        BY DEF Acked, Requests
      <4> QED BY <1>1, <1>3, <4>1 DEF Waits
    <3> QED BY <2>3, <2>4, <2>5, <3>1 DEF SavedOK
  <2>7. StateOK(r, clientState')
    BY <2>4, <2>5 DEF StateOK
  <2>8. \A d \in 1..n : frame'[t][d].fn = frame[t][d].fn
    BY <1>1, <1>3, <2>4
  <2>9. \A d \in 1..depth'[t] : frame'[t][d].pc \in PcsOf[frame'[t][d].fn] /\ SavedOK(frame'[t][d])
    <3> SUFFICES ASSUME NEW d \in 1..n
                 PROVE  frame'[t][d].pc \in PcsOf[frame'[t][d].fn] /\ SavedOK(frame'[t][d])
      BY <1>1
    <3>1. CASE d = n
      BY <1>1, <1>3, <2>4, <2>6, <3>1
    <3>2. CASE d # n
      BY <1>1, <2>2, <3>2 DEF StackOK
    <3> QED BY <3>1, <3>2
  <2>10. \A d \in 1..depth'[t] : d < depth'[t] => Waits(frame'[t][d].fn, frame'[t][d].pc, frame'[t][d + 1].fn)
    <3> SUFFICES ASSUME NEW d \in 1..n, d < n
                 PROVE  Waits(frame'[t][d].fn, frame'[t][d].pc, frame'[t][d + 1].fn)
      BY <1>1
    <3>1. frame'[t][d] = frame[t][d] /\ frame'[t][d + 1].fn = frame[t][d + 1].fn
      BY <1>1, <2>2, <2>8
    <3>2. Waits(frame[t][d].fn, frame[t][d].pc, frame[t][d + 1].fn)
      BY <2>2 DEF StackOK
    <3> QED BY <3>1, <3>2
  <2>11. StateOK(Top(t)', clientState')
    BY <1>1, <1>3, <2>7 DEF Top
  <2> QED BY <2>9, <2>10, <2>11 DEF StackOK
<1> QED BY <1>1, <1>2, <1>3

\* What a call from the application does to the empty stack of its thread.
LEMMA CalledStack ==
  ASSUME TypeOK, NEW t \in Threads, NEW fn \in Calls, Call(t, fn)
  PROVE  /\ depth[t] = 0 /\ depth'[t] = 1
         /\ frame'[t][1].fn = fn /\ frame'[t][1].pc = "enter"
         /\ fn \in Fns \ {"none"} /\ fn # "handle_publish"
         /\ clientState' = clientState /\ tls' = tls
         /\ frame'[t][1] = [NoFrame EXCEPT !.fn = fn, !.pc = "enter"]
<1>1. PICK h : h = [NoFrame EXCEPT !.fn = fn, !.pc = "enter"]
  OBVIOUS
<1>2. h.fn = fn /\ h.pc = "enter"
  BY <1>1 DEF NoFrame
<1>3. frame' = [frame EXCEPT ![t] = [frame[t] EXCEPT ![1] = h]]
  BY <1>1 DEF Call, TypeOK
<1>4. /\ depth[t] = 0 /\ depth'[t] = 1 /\ frame'[t][1] = h
      /\ clientState' = clientState /\ tls' = tls
  BY <1>3, ConstantsAssumption DEF Call, TypeOK
<1>5. fn \in Fns \ {"none"} /\ fn # "handle_publish"
  BY DEF Fns, Calls, Acked, Requests
<1> QED BY <1>1, <1>2, <1>4, <1>5

\* Every step of the only thread keeps the shape of its stack.
LEMMA StackStep ==
  ASSUME SingleThread, SingleThreadInv, StackInv, [Next]_vars
  PROVE  StackInv'
<1>1. CASE UNCHANGED vars
  BY <1>1 DEF StackInv, StackOK, Top, vars
<1>2. ASSUME NEW t \in Threads, Step(t) \/ App(t)
      PROVE  StackOK(t)'
  <2>1. TypeOK /\ StackOK(t)
    BY DEF SingleThreadInv, StackInv
  <2>2. CASE Moved(t)
    BY <2>1, <2>2, StackMoved
  <2>3. CASE Pushed(t)
    BY <2>1, <2>3, StackPushed
  <2>4. CASE Return(t)
    BY <2>1, <2>4, StackReturn
  <2>5. CASE SetAutoReconnect(t)
    BY <2>1, <2>5 DEF SetAutoReconnect, StackOK, Top
  <2>6. ASSUME NEW fn \in Calls, Call(t, fn)
        PROVE  StackOK(t)'
    <3>1. /\ depth'[t] = 1 /\ fn \in Fns \ {"none"}
          /\ frame'[t][1] = [NoFrame EXCEPT !.fn = fn, !.pc = "enter"]
      BY <2>1, <2>6, CalledStack
    <3>2. PICK h : h = [NoFrame EXCEPT !.fn = fn, !.pc = "enter"]
      OBVIOUS
    <3>3. frame'[t][1].pc \in PcsOf[frame'[t][1].fn] /\ SavedOK(frame'[t][1]) /\ StateOK(frame'[t][1], clientState')
      BY <3>1, <3>2, EnterShape
    <3>4. \A d \in 1..depth'[t] : d = 1 /\ ~(d < depth'[t])
      BY <3>1
    <3> QED BY <3>1, <3>3, <3>4 DEF StackOK, Top
  <2> QED BY <1>2, <2>2, <2>3, <2>4, <2>5, <2>6, StepShape
<1> QED BY <1>1, <1>2 DEF Next, StackInv, SingleThread

\* No frame is on a stack at the start.
LEMMA StackStart ==
  Init => StackInv
<1> SUFFICES ASSUME Init, NEW t \in Threads PROVE StackOK(t)
  BY DEF StackInv
<1>1. depth[t] = 0 /\ 1..depth[t] = {}
  BY DEF Init
<1> QED BY <1>1 DEF StackOK

-----------------------------------------------------------------------------
(* The client state and the TLS context.                                   *)

\* The states of a client that has no connection.
Unlinked == DisconnectedStates \union {"INITIALIZED", "INVALID"}

\* The states the disconnect handler finds and leaves, as long as it does not reconnect.
Lost == {"DISCONNECTED_ERROR", "DISCONNECTED_MANUALLY"}

\* The disconnect handler leaves the reconnection to yield.
HandlerDoesNotConnect == HandlerCalls \intersect {"connect", "attempt_reconnect"} = {}

\* Client state s and TLS context l agree.
Agree(s, l) ==
  /\ Connected(s) => l = "open"
  /\ s \in Unlinked => l = "closed"

\* What the place of the running call says of the TLS context l.
TlsOK(f, l) ==
  /\ f.fn = "connect" /\ f.pc = "done" => l = "open"
  /\ f.fn = "connect" /\ f.pc = "fail" => l = "closed"
  /\ f.fn = "disconnect" /\ f.pc \in {"send", "close", "restore"} => l = "open"
  /\ f.fn = "disconnect" /\ f.pc = "manual" => l = "closed"
  /\ f.fn = "handle_publish" /\ f.pc \in {"enter", "begin"} => l = "open"

\* A message is only ever delivered while the client is connected.
DeliveryOK(f) ==
  f.fn = "handle_publish" /\ f.pc \notin {"enter", "return"} => Connected(f.saved)

AtHandler(f) == f.fn = "yield" /\ f.pc = "handler"

LinkOK(t) ==
  /\ depth[t] > 0 => TlsOK(Top(t), tls)
  /\ \A d \in 1..depth[t] : DeliveryOK(frame[t][d])
  /\ \A d \in 1..depth[t] : AtHandler(frame[t][d]) =>
       /\ clientState \in Lost /\ tls = "closed"
       /\ d < depth[t] => d + 1 = depth[t] /\ Top(t).pc \in {"enter", "check", "return"}
  /\ ~At(t, {"yield"}, "destroy") => Agree(clientState, tls)

\* The connection and the client state agree at every place of every function; a call that
\* the disconnect handler makes is refused.
LinkInv == ConnectionAgrees /\ \A t \in Threads : LinkOK(t)

\* Only connect and disconnect run while the client is connecting or disconnecting.
LEMMA LeafStates ==
  ASSUME SingleThread, SingleThreadInv, NEW t \in Threads, StackOK(t)
  PROVE  /\ clientState = "CONNECTING" => depth[t] > 0 /\ Top(t).fn = "connect"
         /\ clientState = "DISCONNECTING" => depth[t] > 0 /\ Top(t).fn = "disconnect"
<1>1. clientState \in InProgress =>
        \E d \in 1..depth[t] : Answers(frame[t][d]) /\ Own[frame[t][d].fn] = clientState
  BY DEF SingleThreadInv, NoGhost, SingleThread
<1>2. \A d \in 1..depth[t] : d < depth[t] => Waits(frame[t][d].fn, frame[t][d].pc, frame[t][d + 1].fn)
  BY DEF StackOK
<1>3. \A fn \in Fns : /\ Own[fn] = "CONNECTING" => fn = "connect"
                      /\ Own[fn] = "DISCONNECTING" => fn = "disconnect"
  BY DEF Own
<1>4. \A fn, pc, callee : Waits(fn, pc, callee) => fn \notin {"connect", "disconnect"}
  BY DEF Waits, Acked, Requests
<1>5. ASSUME clientState \in {"CONNECTING", "DISCONNECTING"}
      PROVE  /\ depth[t] > 0
             /\ clientState = "CONNECTING" => Top(t).fn = "connect"
             /\ clientState = "DISCONNECTING" => Top(t).fn = "disconnect"
  <2>1. PICK d \in 1..depth[t] : Own[frame[t][d].fn] = clientState
    BY <1>1, <1>5 DEF InProgress
  <2>2. depth[t] \in 0..MaxDepth /\ d \in 1..MaxDepth /\ depth[t] > 0
    BY ConstantsAssumption DEF SingleThreadInv, TypeOK
  <2>3. frame[t][d].fn \in Fns
    BY <2>2 DEF SingleThreadInv, TypeOK, Frames
  <2>4. frame[t][d].fn \in {"connect", "disconnect"}
    BY <1>3, <1>5, <2>1, <2>3
  <2>5. ~(d < depth[t])
    BY <1>2, <1>4, <2>4
  <2>6. d = depth[t]
    BY <2>2, <2>5
  <2>7. Own[Top(t).fn] = clientState /\ Top(t).fn \in Fns
    BY <2>1, <2>3, <2>6 DEF Top
  <2> QED BY <1>3, <2>2, <2>7
<1> QED BY <1>5

\* No call of the disconnect handler is running.
NoneBelow(t) == \A d \in 1..depth[t] : d < depth[t] => ~AtHandler(frame[t][d])

\* Above a disconnect handler there is at most one call, which is refused.
LEMMA AboveHandler ==
  ASSUME HandlerDoesNotConnect, TypeOK, NEW t \in Threads, StackOK(t), LinkOK(t), depth[t] > 0
  PROVE  \/ NoneBelow(t)
         \/ /\ clientState \in Lost /\ tls = "closed"
            /\ Top(t).fn \notin {"connect", "attempt_reconnect", "handle_publish", "none"}
            /\ Top(t).pc \in {"enter", "check", "return"}
<1> SUFFICES ASSUME NEW d \in 1..depth[t], d < depth[t], AtHandler(frame[t][d])
             PROVE  /\ clientState \in Lost /\ tls = "closed"
                    /\ Top(t).fn \notin {"connect", "attempt_reconnect", "handle_publish", "none"}
                    /\ Top(t).pc \in {"enter", "check", "return"}
  BY DEF NoneBelow
<1>1. /\ clientState \in Lost /\ tls = "closed"
      /\ d + 1 = depth[t] /\ Top(t).pc \in {"enter", "check", "return"}
  BY DEF LinkOK
<1>2. Waits(frame[t][d].fn, frame[t][d].pc, Top(t).fn)
  BY <1>1 DEF StackOK, Top
<1>3. Top(t).fn \in HandlerCalls
  <2>1. "yield" \notin Acked
    BY DEF Acked, Requests
  <2> QED BY <1>2, <2>1 DEF Waits, AtHandler
<1>4. Top(t).fn \in Calls
  BY <1>3, ConstantsAssumption
<1>5. "handle_publish" \notin Calls /\ "none" \notin Calls
  BY DEF Calls, Acked, Requests
<1> QED BY <1>1, <1>3, <1>4, <1>5 DEF HandlerDoesNotConnect

\* A move of the top frame that keeps the connection right at its own place keeps it right.
LEMMA LinkMove ==
  ASSUME TypeOK, NEW t \in Threads, LinkOK(t), depth[t] > 0, NEW f \in Frames, SetTop(t, f),
         TlsOK(f, tls'), DeliveryOK(f),
         \/ NoneBelow(t) /\ (AtHandler(f) => clientState' \in Lost /\ tls' = "closed")
         \/ clientState' = clientState /\ tls' = tls /\ f.pc \in {"enter", "check", "return"},
         (f.fn = "yield" /\ f.pc = "destroy") \/ Agree(clientState', tls')
  PROVE  LinkOK(t)'
<1>1. /\ depth' = depth
      /\ depth[t] \in 1..MaxDepth
      /\ frame'[t][depth[t]] = f
      /\ \A d \in 1..MaxDepth : d # depth[t] => frame'[t][d] = frame[t][d]
  BY SetTopEffect
<1>2. \A d \in 1..depth[t] : d \in 1..MaxDepth /\ (d # depth[t] => d < depth[t])
  BY <1>1, ConstantsAssumption
<1>3. \A d \in 1..depth[t] : d = depth[t] \/ (d < depth[t] /\ frame'[t][d] = frame[t][d])
  BY <1>1, <1>2
<1>4. Top(t)' = f
  BY <1>1 DEF Top
<1>5. \A d \in 1..depth'[t] : DeliveryOK(frame'[t][d])
  BY <1>1, <1>3 DEF LinkOK
<1>6. ASSUME NEW d \in 1..depth[t], AtHandler(frame'[t][d])
      PROVE  /\ clientState' \in Lost /\ tls' = "closed"
             /\ d < depth[t] => d + 1 = depth[t] /\ f.pc \in {"enter", "check", "return"}
  <2>1. CASE d = depth[t]
    <3>1. AtHandler(f) /\ ~(d < depth[t])
      BY <1>1, <1>6, <2>1
    <3>2. f.pc \notin {"enter", "check", "return"}
      BY <3>1 DEF AtHandler
    <3> QED BY <3>1, <3>2
  <2>2. CASE d # depth[t]
    <3>1. d < depth[t] /\ AtHandler(frame[t][d])
      BY <1>3, <1>6, <2>2
    <3>2. ~NoneBelow(t)
      BY <3>1 DEF NoneBelow
    <3>3. clientState' = clientState /\ tls' = tls /\ f.pc \in {"enter", "check", "return"}
      BY <3>2
    <3>4. clientState \in Lost /\ tls = "closed" /\ d + 1 = depth[t]
      BY <3>1 DEF LinkOK
    <3> QED BY <3>3, <3>4
  <2> QED BY <2>1, <2>2
<1>7. \A d \in 1..depth'[t] : AtHandler(frame'[t][d]) =>
        /\ clientState' \in Lost /\ tls' = "closed"
        /\ d < depth'[t] => d + 1 = depth'[t] /\ Top(t)'.pc \in {"enter", "check", "return"}
  BY <1>1, <1>4, <1>6
<1>8. depth'[t] > 0 /\ TlsOK(Top(t)', tls')
  BY <1>1, <1>4
<1>9. At(t, {"yield"}, "destroy")' \/ Agree(clientState', tls')
  BY <1>4, <1>8 DEF At
<1> QED BY <1>5, <1>7, <1>8, <1>9 DEF LinkOK

\* Every move of the top frame keeps the connection and the client state in agreement.
LEMMA LinkMoved ==
  ASSUME HandlerDoesNotConnect, SingleThread, SingleThreadInv, NEW t \in Threads, StackOK(t), LinkOK(t),
         Moved(t)
  PROVE  LinkOK(t)'
<1> DEFINE g == Top(t)
<1>1. /\ TypeOK /\ depth[t] > 0 /\ g \in Frames /\ g.fn \in Fns
      /\ depth[t] \in 1..depth[t] /\ g = frame[t][depth[t]]
  BY TopType DEF SingleThreadInv, Moved, Frames, TypeOK, Top
<1>2. g.pc \in PcsOf[g.fn] /\ SavedOK(g) /\ StateOK(g, clientState)
  BY <1>1 DEF StackOK
<1>3. TlsOK(g, tls) /\ DeliveryOK(g)
  BY <1>1 DEF LinkOK
<1>4. AtHandler(g) => clientState \in Lost /\ tls = "closed"
  BY <1>1 DEF LinkOK
<1>5. (g.fn = "yield" /\ g.pc = "destroy") \/ Agree(clientState, tls)
  BY <1>1 DEF LinkOK, At
<1>6. \/ NoneBelow(t)
      \/ /\ clientState \in Lost
         /\ g.fn \notin {"connect", "attempt_reconnect", "handle_publish", "none"}
         /\ g.pc \in {"enter", "check", "return"}
  BY <1>1, AboveHandler
<1>7. /\ clientState = "CONNECTING" => g.fn = "connect"
      /\ clientState = "DISCONNECTING" => g.fn = "disconnect"
  BY LeafStates
<1>8. "handle_publish" \notin Acked /\ "connect" \notin Acked /\ "disconnect" \notin Acked
      /\ "attempt_reconnect" \notin Acked /\ "yield" \notin Acked /\ "none" \notin Acked
  BY DEF Acked, Requests
<1>9. g.fn \in Acked \/ g.fn \in {"handle_publish", "connect", "disconnect", "attempt_reconnect", "yield", "none"}
  BY <1>1 DEF Fns, Calls
<1>10. clientState \in ClientStates /\ tls \in {"open", "closed"}
  BY <1>1 DEF TypeOK
<1>11. ASSUME NEW f \in Frames, SetTop(t, f), TlsOK(f, tls'), DeliveryOK(f),
              \/ NoneBelow(t) /\ (AtHandler(f) => clientState' \in Lost /\ tls' = "closed")
              \/ clientState' = clientState /\ tls' = tls /\ f.pc \in {"enter", "check", "return"},
              (f.fn = "yield" /\ f.pc = "destroy") \/ Agree(clientState', tls')
       PROVE  LinkOK(t)'
  BY <1>1, <1>11, LinkMove
<1> HIDE DEF g
<1>12. ASSUME NEW to \in Pcs, Goes(t, to), Quiet(g.fn, g.pc, to), clientState' = clientState, tls' = tls
       PROVE  LinkOK(t)'
  <2>1. PICK f \in Frames : SetTop(t, f) /\ f.fn = g.fn /\ f.saved = g.saved /\ f.pc = to
    BY <1>12 DEF Goes, g
  <2>2. TlsOK(f, tls)
    BY <1>3, <1>8, <1>12, <2>1 DEF Quiet, TlsOK, CasPcs
  <2>3. DeliveryOK(f)
    BY <1>3, <1>8, <1>12, <2>1 DEF Quiet, DeliveryOK, CasPcs
  <2>4. \/ NoneBelow(t) /\ ~AtHandler(f)
        \/ f.pc \in {"enter", "check", "return"}
    BY <1>6, <1>8, <1>12, <2>1 DEF Quiet, AtHandler, CasPcs
  <2>5. Agree(clientState, tls)
    BY <1>5, <1>8, <1>12 DEF Quiet, CasPcs
  <2> QED BY <1>11, <1>12, <2>1, <2>2, <2>3, <2>4, <2>5
<1>13. ASSUME NEW to \in Pcs, Goes(t, to), Links(g.fn, g.pc, to)
       PROVE  LinkOK(t)'
  <2>1. PICK f \in Frames : SetTop(t, f) /\ f.fn = g.fn /\ f.saved = g.saved /\ f.pc = to
    BY <1>13 DEF Goes, g
  <2>2. TlsOK(f, tls')
    BY <1>3, <1>13, <2>1 DEF Links, TlsOK
  <2>3. DeliveryOK(f)
    BY <1>13, <2>1 DEF Links, DeliveryOK
  <2>4. \/ NoneBelow(t) /\ (AtHandler(f) => clientState' \in Lost /\ tls' = "closed")
        \/ clientState' = clientState /\ tls' = tls /\ f.pc \in {"enter", "check", "return"}
    BY <1>2, <1>6, <1>13, <2>1 DEF Links, AtHandler, StateOK, Lost, Connected, ConnectedStates
  <2>5. (f.fn = "yield" /\ f.pc = "destroy") \/ Agree(clientState', tls')
    BY <1>2, <1>3, <1>4, <1>5, <1>13, <2>1
       DEF Links, AtHandler, StateOK, TlsOK, Agree, Unlinked, DisconnectedStates, Connected, ConnectedStates
  <2> QED BY <1>11, <2>1, <2>2, <2>3, <2>4, <2>5
<1>14. ASSUME g.fn = "disconnect", g.pc = "restore", Goes(t, "return"), clientState' = g.saved, tls' = tls
       PROVE  LinkOK(t)'
  <2>1. PICK f \in Frames : SetTop(t, f) /\ f.fn = g.fn /\ f.saved = g.saved /\ f.pc = "return"
    BY <1>14 DEF Goes, g
  <2>2. TlsOK(f, tls') /\ DeliveryOK(f) /\ ~AtHandler(f) /\ NoneBelow(t)
    BY <1>6, <1>14, <2>1 DEF TlsOK, DeliveryOK, AtHandler
  <2>3. tls' = "open" /\ Connected(clientState')
    BY <1>2, <1>3, <1>14 DEF TlsOK, SavedOK
  <2>4. Agree(clientState', tls')
    BY <2>3 DEF Agree, Unlinked, DisconnectedStates, Connected, ConnectedStates
  <2> QED BY <1>11, <2>1, <2>2, <2>4
<1>15. ASSUME g.pc \in CasPcs, NEW ok \in BOOLEAN, ok = (clientState = Expected(g)),
              clientState' = IF ok THEN NewState(g) ELSE clientState,
              Goes(t, AfterCas(g, ok)), tls' = tls
       PROVE  LinkOK(t)'
  <2>1. PICK f \in Frames : SetTop(t, f) /\ f.fn = g.fn /\ f.saved = g.saved /\ f.pc = AfterCas(g, ok)
    BY <1>15 DEF Goes, g
  <2>2. Agree(clientState, tls) /\ NoneBelow(t)
    BY <1>5, <1>6, <1>15 DEF CasPcs
  <2>3. g.pc = "begin" => ok
    BY <1>2, <1>15 DEF StateOK, Expected
  <2>4. f.pc \in {"send", "undo", "return", "callback", "tls", "loop", "puback", "arm", "end"}
    BY <2>1 DEF AfterCas
  <2>5. ~AtHandler(f)
    BY <2>4 DEF AtHandler
  <2>6. f.fn = "disconnect" /\ f.pc = "send" => g.pc = "begin"
    BY <1>8, <2>1 DEF AfterCas
  <2>7. g.fn = "disconnect" /\ g.pc = "begin" => tls = "open"
    BY <1>2, <2>2 DEF SavedOK, StateOK, Agree
  <2>8. TlsOK(f, tls')
    BY <1>15, <2>1, <2>4, <2>6, <2>7 DEF TlsOK
  <2>9. DeliveryOK(f)
    BY <1>3, <1>15, <2>1 DEF DeliveryOK, CasPcs
  <2>10. /\ \A fn \in Acked \union {"handle_publish", "yield"} : Connected(Own[fn])
         /\ Own["connect"] = "CONNECTING" /\ Own["disconnect"] = "DISCONNECTING"
    BY DEF Own, Fns, Calls, Acked, Requests, Connected, ConnectedStates
  <2>11. Agree(clientState', tls')
    <3>1. CASE ~ok
      BY <1>15, <2>2, <3>1
    <3>2. CASE ok /\ g.pc = "begin"
      <4>1. clientState' = Own[g.fn] /\ clientState = g.saved
        BY <1>2, <1>15, <3>2 DEF NewState, StateOK
      <4>2. CASE g.fn \in Acked \union {"handle_publish", "yield"}
        <5>1. Connected(g.saved)
          BY <1>3, <1>2, <3>2, <4>2 DEF SavedOK, DeliveryOK
        <5>2. tls' = "open" /\ Connected(clientState')
          BY <1>15, <2>2, <2>10, <4>1, <4>2, <5>1 DEF Agree
        <5> QED BY <5>2 DEF Agree, Unlinked, DisconnectedStates, Connected, ConnectedStates
      <4>3. CASE g.fn \in {"connect", "disconnect"}
        BY <2>10, <4>1, <4>3 DEF Agree, Unlinked, DisconnectedStates, Connected, ConnectedStates
      <4> QED BY <1>2, <1>9, <3>2, <4>2, <4>3, PlacesOf
    <3>3. CASE ok /\ g.pc \in {"end", "undo"}
      <4>1. clientState' = g.saved /\ clientState = Own[g.fn]
        BY <1>15, <3>3 DEF NewState, Expected
      <4>2. g.fn \in Acked \union {"handle_publish", "yield"}
        BY <1>2, <1>9, <3>3, PlacesOf
      <4>3. Connected(clientState)
        BY <2>10, <4>1, <4>2
      <4>4. Connected(clientState')
        BY <1>2, <1>3, <3>3, <4>1, <4>2 DEF SavedOK, DeliveryOK
      <4>5. tls' = "open"
        BY <1>15, <2>2, <4>3 DEF Agree
      <4> QED BY <4>4, <4>5 DEF Agree, Unlinked, DisconnectedStates, Connected, ConnectedStates
    <3>4. CASE ok /\ g.pc \in {"fail", "done"}
      <4>1. g.fn = "connect"
        BY <1>2, <1>9, <3>4, PlacesOf
      <4>2. /\ g.pc = "fail" => clientState' = "DISCONNECTED_ERROR" /\ tls' = "closed"
            /\ g.pc = "done" => clientState' = "CONNECTED_IDLE" /\ tls' = "open"
        BY <1>3, <1>15, <3>4, <4>1 DEF NewState, TlsOK
      <4> QED BY <3>4, <4>2 DEF Agree, Unlinked, DisconnectedStates, Connected, ConnectedStates
    <3>5. CASE ok /\ g.pc = "pend"
      <4>1. clientState' = "PENDING_RECONNECT" /\ clientState = "DISCONNECTED_ERROR"
        BY <1>15, <3>5 DEF NewState, Expected
      <4> QED BY <1>15, <2>2, <4>1 DEF Agree, Unlinked, DisconnectedStates, Connected, ConnectedStates
    <3>6. CASE ok /\ g.pc = "resume"
      <4>1. g.fn = "yield"
        BY <1>2, <1>9, <3>6, PlacesOf
      <4>2. clientState' = Own["yield"] /\ clientState = "CONNECTED_IDLE"
        BY <1>15, <3>6, <4>1 DEF NewState, Expected
      <4>3. Connected(clientState')
        BY <2>10, <4>2
      <4>4. tls' = "open"
        BY <1>15, <2>2, <4>2 DEF Agree, Connected, ConnectedStates
      <4> QED BY <4>3, <4>4 DEF Agree, Unlinked, DisconnectedStates, Connected, ConnectedStates
    <3> QED BY <1>15, <3>1, <3>2, <3>3, <3>4, <3>5, <3>6 DEF CasPcs
  <2> QED BY <1>11, <2>1, <2>2, <2>5, <2>8, <2>9, <2>11
<1>16. ASSUME g.pc = "enter", clientState \in Admits[g.fn], NEW f \in Frames, SetTop(t, f), f.fn = g.fn,
              f.pc = IF f.fn = "yield" /\ clientState = "PENDING_RECONNECT" THEN "loop" ELSE "begin",
              f.saved = IF f.fn = "yield" THEN "CONNECTED_IDLE" ELSE clientState,
              clientState' = clientState, tls' = tls
       PROVE  LinkOK(t)'
  <2>1. /\ \A fn \in Acked \union {"yield", "disconnect"} : Admits[fn] \intersect Lost = {}
        /\ Admits["disconnect"] = {}
    BY DEF Admits, Fns, Calls, Acked, Requests, Lost
  <2>2. NoneBelow(t) /\ ~AtHandler(f) /\ g.fn # "disconnect"
    BY <1>6, <1>9, <1>16, <2>1 DEF AtHandler
  <2>3. Agree(clientState, tls)
    BY <1>5, <1>16
  <2>4. TlsOK(f, tls')
    BY <1>3, <1>16, <2>2 DEF TlsOK
  <2>5. DeliveryOK(f)
    <3> SUFFICES ASSUME f.fn = "handle_publish" PROVE Connected(clientState)
      BY <1>16 DEF DeliveryOK
    <3>1. tls = "open"
      BY <1>3, <1>16 DEF TlsOK
    <3>2. clientState \notin Unlinked
      BY <2>3, <3>1 DEF Agree
    <3>3. clientState \notin {"CONNECTING", "DISCONNECTING"}
      BY <1>7, <1>16
    <3> QED BY <1>10, <3>2, <3>3 DEF Unlinked, ClientStates, Connected
  <2> QED BY <1>11, <1>16, <2>2, <2>3, <2>4, <2>5
<1>17. ASSUME g.pc = "enter", g.fn = "disconnect", NEW f \in Frames, SetTop(t, f), f.fn = g.fn,
              f.pc = "check", f.saved = clientState, clientState' = clientState, tls' = tls
       PROVE  LinkOK(t)'
  <2>1. TlsOK(f, tls') /\ DeliveryOK(f) /\ f.pc \in {"enter", "check", "return"}
    BY <1>17 DEF TlsOK, DeliveryOK
  <2>2. Agree(clientState, tls)
    BY <1>5, <1>17
  <2> QED BY <1>11, <1>17, <2>1, <2>2
<1> QED
  <2>1. (clientState = Expected(g)) \in BOOLEAN
    OBVIOUS
  <2> QED BY <1>12, <1>13, <1>14, <1>15, <1>16, <1>17, <2>1 DEF Moved, g

\* Every call keeps the connection and the client state in agreement.
LEMMA LinkPushed ==
  ASSUME HandlerDoesNotConnect, TypeOK, NEW t \in Threads, StackOK(t), LinkOK(t), Pushed(t)
  PROVE  LinkOK(t)'
<1>1. PICK pc \in Pcs, fn \in Fns \ {"none"}, n \in Nat, f \in Frames, h \in Frames :
        PushesOnto(t, pc, fn, n, f, h)
  BY PushedStack
<1>2. /\ n = depth[t] /\ n \in 1..MaxDepth /\ depth'[t] = n + 1 /\ Top(t) = frame[t][n]
      /\ f.fn = Top(t).fn /\ f.saved = Top(t).saved /\ f.pc = pc
      /\ h.fn = fn /\ h.pc = "enter"
      /\ frame'[t][n] = f /\ frame'[t][n + 1] = h
      /\ \A d \in 1..n : d # n => frame'[t][d] = frame[t][d]
      /\ fn = "handle_publish" => tls = "open"
  BY <1>1 DEF PushesOnto
<1>3. Waits(Top(t).fn, pc, fn) /\ CallsFrom(Top(t).fn, Top(t).pc, pc)
  BY <1>1 DEF PushesOnto
<1>4. clientState' = clientState /\ tls' = tls /\ depth[t] > 0 /\ n \in 1..n
  BY <1>2, ConstantsAssumption DEF Pushed
<1>5. "handle_publish" \notin Acked /\ "yield" \notin Acked /\ "attempt_reconnect" \notin Acked
  BY DEF Acked, Requests
<1>6. \A d \in 1..(n + 1) : d = n + 1 \/ d = n \/ (d \in 1..n /\ d # n /\ d < n)
  BY <1>2
<1>7. NoneBelow(t)
  <2>1. \/ NoneBelow(t)
        \/ /\ Top(t).fn \notin {"connect", "attempt_reconnect", "handle_publish", "none"}
           /\ Top(t).pc \in {"enter", "check", "return"}
    BY <1>4, AboveHandler
  <2> QED BY <1>3, <2>1 DEF Waits, CallsFrom
<1>8. Top(t)' = h
  BY <1>2 DEF Top
<1>9. TlsOK(h, tls') /\ DeliveryOK(h) /\ ~AtHandler(h)
  BY <1>2, <1>4 DEF TlsOK, DeliveryOK, AtHandler
<1>10. DeliveryOK(Top(t)) /\ (AtHandler(Top(t)) => clientState \in Lost /\ tls = "closed")
  BY <1>2, <1>4 DEF LinkOK
<1>11. DeliveryOK(f)
  BY <1>2, <1>3, <1>5, <1>10 DEF DeliveryOK, Waits, CallsFrom
<1>12. AtHandler(f) => clientState \in Lost /\ tls = "closed"
  BY <1>2, <1>3, <1>5, <1>10 DEF AtHandler, Waits, CallsFrom
<1>13. \A d \in 1..depth'[t] : DeliveryOK(frame'[t][d])
  <2> SUFFICES ASSUME NEW d \in 1..(n + 1) PROVE DeliveryOK(frame'[t][d])
    BY <1>2
  <2>1. CASE d = n + 1
    BY <1>2, <1>9, <2>1
  <2>2. CASE d = n
    BY <1>2, <1>11, <2>2
  <2>3. CASE d \in 1..n /\ d # n
    BY <1>2, <2>3 DEF LinkOK
  <2> QED BY <1>6, <2>1, <2>2, <2>3
<1>14. ASSUME NEW d \in 1..(n + 1), AtHandler(frame'[t][d])
       PROVE  clientState' \in Lost /\ tls' = "closed" /\ d = n
  <2>1. CASE d = n + 1
    BY <1>2, <1>9, <1>14, <2>1
  <2>2. CASE d = n
    BY <1>2, <1>4, <1>12, <1>14, <2>2
  <2>3. CASE d \in 1..n /\ d # n /\ d < n
    BY <1>2, <1>7, <1>14, <2>3 DEF NoneBelow
  <2> QED BY <1>6, <2>1, <2>2, <2>3
<1>15. \A d \in 1..depth'[t] : AtHandler(frame'[t][d]) =>
         /\ clientState' \in Lost /\ tls' = "closed"
         /\ d < depth'[t] => d + 1 = depth'[t] /\ Top(t)'.pc \in {"enter", "check", "return"}
  <2> SUFFICES ASSUME NEW d \in 1..(n + 1), AtHandler(frame'[t][d])
               PROVE  /\ clientState' \in Lost /\ tls' = "closed"
                      /\ d + 1 = depth'[t] /\ Top(t)'.pc \in {"enter", "check", "return"}
    BY <1>2
  <2>1. clientState' \in Lost /\ tls' = "closed" /\ d = n
    BY <1>14
  <2> QED BY <1>2, <1>8, <2>1
<1>16. Agree(clientState', tls')
  <2>1. ~At(t, {"yield"}, "destroy")
    BY <1>3 DEF At, Waits, CallsFrom
  <2> QED BY <1>4, <2>1 DEF LinkOK
<1> QED BY <1>8, <1>9, <1>13, <1>15, <1>16 DEF LinkOK

\* Every return keeps the connection and the client state in agreement: yield calls the
\* disconnect handler only after its own disconnect has closed the connection.
LEMMA LinkReturn ==
  ASSUME SingleThreadInv, NEW t \in Threads, StackOK(t), LinkOK(t), Return(t)
  PROVE  LinkOK(t)'
<1>0. TypeOK
  BY DEF SingleThreadInv
<1>1. PICK n \in Nat, g \in Frames, r \in Frames : ReturnsTo(t, n, g, r)
  BY <1>0, ReturnedStack
<1>2. /\ n = depth'[t] /\ depth[t] = n + 1 /\ depth[t] > 0
      /\ Top(t).pc = "return" /\ Top(t).rc \in ReturnCodes
      /\ \A d \in 1..n : d # n => frame'[t][d] = frame[t][d]
      /\ n > 0 => /\ frame[t][n] = g /\ frame'[t][n] = r
                  /\ r = Resume(g, Top(t).rc)
                  /\ Waits(g.fn, g.pc, Top(t).fn)
  BY <1>1 DEF ReturnsTo, Frames
<1>3. clientState' = clientState /\ tls' = tls
  BY DEF Return, status
<1>4. Agree(clientState, tls)
  <2>1. ~At(t, {"yield"}, "destroy")
    BY <1>2 DEF At
  <2> QED BY <2>1 DEF LinkOK
<1>5. CASE n = 0
  <2>1. 1..depth'[t] = {} /\ ~(depth'[t] > 0)
    BY <1>2, <1>5
  <2> QED BY <1>3, <1>4, <2>1 DEF LinkOK
<1>6. CASE n > 0
  <2>1. n \in 1..n /\ n \in 1..depth[t] /\ n < depth[t]
    BY <1>2, <1>6
  <2>2. \A d \in 1..n : d \in 1..depth[t] /\ d < depth[t] /\ (d # n => d + 1 # depth[t])
    BY <1>2
  <2>3. r = Resume(g, Top(t).rc) /\ Waits(g.fn, g.pc, Top(t).fn) /\ frame[t][n] = g /\ frame'[t][n] = r
    BY <1>2, <1>6
  <2>4. /\ r.fn = g.fn /\ r.saved = g.saved /\ r.pc \notin {"enter", "begin"}
        /\ g.fn = "yield" /\ r.pc = "handler" =>
             g.pc = "handler" \/ (g.pc = "disconnect" /\ Top(t).rc = "SUCCESS")
        /\ g.fn \in Acked \union {"handle_publish"} => r = g
    <3>1. Top(t).rc \in ReturnCodes
      BY <1>2
    <3> QED BY <2>3, <3>1, ResumePlace
  <2>5. "connect" \notin Acked /\ "disconnect" \notin Acked /\ "yield" \notin Acked
    BY DEF Acked, Requests
  <2>6. r.fn \notin {"connect", "disconnect"}
    BY <2>3, <2>4, <2>5 DEF Waits
  <2>7. TlsOK(r, tls')
    BY <2>4, <2>6 DEF TlsOK
  <2>8. DeliveryOK(r)
    <3>1. DeliveryOK(g)
      BY <2>1, <2>3 DEF LinkOK
    <3> QED BY <2>4, <3>1 DEF DeliveryOK
  <2>9. AtHandler(r) => clientState \in Lost /\ tls = "closed"
    <3> SUFFICES ASSUME AtHandler(r) PROVE clientState \in Lost /\ tls = "closed"
      OBVIOUS
    <3>1. CASE g.pc = "handler"
      <4>1. AtHandler(frame[t][n])
        BY <2>3, <2>4, <3>1 DEF AtHandler
      <4> QED BY <2>1, <4>1 DEF LinkOK
    <3>2. CASE g.pc = "disconnect" /\ Top(t).rc = "SUCCESS"
      <4>1. g.fn = "yield"
        BY <2>4 DEF AtHandler
      <4>2. Top(t).fn = "disconnect"
        BY <2>3, <2>5, <3>2, <4>1 DEF Waits
      <4>3. At(t, {"disconnect"}, "return")
        BY <1>2, <4>2 DEF At
      <4>4. clientState = "DISCONNECTED_MANUALLY"
        BY <3>2, <4>3 DEF SingleThreadInv, DisconnectOK
      <4> QED BY <1>4, <4>4 DEF Agree, Unlinked, DisconnectedStates, Lost
    <3> QED BY <2>4, <3>1, <3>2 DEF AtHandler
  <2>10. Top(t)' = r
    BY <1>2, <2>3 DEF Top
  <2>11. \A d \in 1..depth'[t] : DeliveryOK(frame'[t][d])
    <3> SUFFICES ASSUME NEW d \in 1..n PROVE DeliveryOK(frame'[t][d])
      BY <1>2
    <3>1. CASE d = n
      BY <2>3, <2>8, <3>1
    <3>2. CASE d # n
      BY <1>2, <2>2, <3>2 DEF LinkOK
    <3> QED BY <3>1, <3>2
  <2>12. ASSUME NEW d \in 1..n, AtHandler(frame'[t][d])
         PROVE  clientState' \in Lost /\ tls' = "closed" /\ d = n
    <3>1. CASE d = n
      BY <1>3, <2>3, <2>9, <2>12, <3>1
    <3>2. CASE d # n
      <4>1. AtHandler(frame[t][d])
        BY <1>2, <2>12, <3>2
      <4>2. d + 1 = depth[t]
        BY <2>2, <4>1 DEF LinkOK
      <4> QED BY <2>2, <3>2, <4>2
    <3> QED BY <3>1, <3>2
  <2>13. \A d \in 1..depth'[t] : AtHandler(frame'[t][d]) =>
           /\ clientState' \in Lost /\ tls' = "closed"
           /\ ~(d < depth'[t])
    <3> SUFFICES ASSUME NEW d \in 1..n, AtHandler(frame'[t][d])
                 PROVE  clientState' \in Lost /\ tls' = "closed" /\ ~(d < n)
      BY <1>2
    <3>1. clientState' \in Lost /\ tls' = "closed" /\ d = n
      BY <2>12
    <3> QED BY <3>1
  <2> QED BY <1>3, <1>4, <2>7, <2>10, <2>11, <2>13 DEF LinkOK
<1> QED BY <1>5, <1>6

\* Every step of the only thread keeps the connection and the client state in agreement.
LEMMA LinkStep ==
  ASSUME HandlerDoesNotConnect, SingleThread, SingleThreadInv, StackInv, LinkInv, [Next]_vars
  PROVE  LinkInv'
<1>1. CASE UNCHANGED vars
  BY <1>1 DEF LinkInv, LinkOK, ConnectionAgrees, Top, At, vars
<1>2. ASSUME NEW t \in Threads, Step(t) \/ App(t)
      PROVE  LinkOK(t)'
  <2>1. TypeOK /\ StackOK(t) /\ LinkOK(t)
    BY DEF SingleThreadInv, StackInv, LinkInv
  <2>2. CASE Moved(t)
    BY <2>1, <2>2, LinkMoved
  <2>3. CASE Pushed(t)
    BY <2>1, <2>3, LinkPushed
  <2>4. CASE Return(t)
    BY <2>1, <2>4, LinkReturn
  <2>5. CASE SetAutoReconnect(t)
    BY <2>1, <2>5 DEF SetAutoReconnect, LinkOK, Top, At
  <2>6. ASSUME NEW fn \in Calls, Call(t, fn)
        PROVE  LinkOK(t)'
    <3>1. /\ depth[t] = 0 /\ depth'[t] = 1 /\ fn # "handle_publish"
          /\ frame'[t][1].fn = fn /\ frame'[t][1].pc = "enter"
          /\ clientState' = clientState /\ tls' = tls
      BY <2>1, <2>6, CalledStack
    <3>2. \A d \in 1..depth'[t] : d = 1 /\ ~(d < depth'[t])
      BY <3>1
    <3>3. Top(t)' = frame'[t][1]
      BY <3>1 DEF Top
    <3>4. TlsOK(frame'[t][1], tls') /\ DeliveryOK(frame'[t][1]) /\ ~AtHandler(frame'[t][1])
      BY <3>1 DEF TlsOK, DeliveryOK, AtHandler
    <3>5. Agree(clientState', tls')
      <4>1. ~At(t, {"yield"}, "destroy")
        BY <3>1 DEF At
      <4> QED BY <2>1, <3>1, <4>1 DEF LinkOK
    <3> QED BY <3>2, <3>3, <3>4, <3>5 DEF LinkOK
  <2> QED BY <1>2, <2>2, <2>3, <2>4, <2>5, <2>6, StepShape
<1>3. ASSUME NEW t \in Threads, StackOK(t)', LinkOK(t)'
      PROVE  ConnectionAgrees'
  <2>1. CASE At(t, {"yield"}, "destroy")'
    <3>1. depth'[t] > 0 /\ Top(t)'.fn = "yield" /\ Top(t)'.pc = "destroy"
      BY <2>1 DEF At
    <3>2. clientState' = "DISCONNECTED_ERROR"
      BY <1>3, <3>1 DEF StackOK, StateOK
    <3> QED BY <2>1, <3>2 DEF ConnectionAgrees, Connected, ConnectedStates
  <2>2. CASE ~At(t, {"yield"}, "destroy")'
    <3>1. Agree(clientState', tls')
      BY <1>3, <2>2 DEF LinkOK
    <3> QED BY <3>1 DEF Agree, ConnectionAgrees, Unlinked
  <2> QED BY <2>1, <2>2
<1>4. CASE Next
  <2>1. PICK t \in Threads : Step(t) \/ App(t)
    BY <1>4 DEF Next
  <2>2. StackInv'
    BY StackStep
  <2>3. StackOK(t)' /\ LinkOK(t)'
    BY <1>2, <2>1, <2>2 DEF StackInv
  <2>4. ConnectionAgrees'
    BY <1>3, <2>3
  <2> QED BY <2>3, <2>4 DEF LinkInv, SingleThread
<1> QED BY <1>1, <1>4

\* In an application with one thread whose disconnect handler leaves the reconnection to yield:
\* a client that reports a connection has a TLS context, and one that reports none has freed it,
\* whatever the message callbacks do (disconnect, connect and attempt_reconnect included) and
\* whichever packet or TLS call fails, except between the two statements of
\* _aws_iot_mqtt_force_client_disconnect.
THEOREM SingleThreadConnectionAgrees ==
  SingleThread /\ HandlerDoesNotConnect => (Spec => []ConnectionAgrees)
<1> SUFFICES ASSUME SingleThread, HandlerDoesNotConnect PROVE Spec => []ConnectionAgrees
  OBVIOUS
<1>1. Init => StackInv /\ LinkInv
  <2> SUFFICES ASSUME Init PROVE LinkInv
    BY StackStart
  <2>1. /\ clientState = "INITIALIZED" /\ tls = "closed"
        /\ \A t \in Threads : depth[t] = 0 /\ 1..depth[t] = {}
    BY DEF Init
  <2>2. Agree(clientState, tls) /\ ConnectionAgrees
    BY <2>1 DEF Agree, ConnectionAgrees, Connected, ConnectedStates
  <2> QED BY <2>1, <2>2 DEF LinkInv, LinkOK
<1>2. SingleThreadInv /\ StackInv /\ LinkInv /\ [Next]_vars => (StackInv /\ LinkInv)'
  BY StackStep, LinkStep
<1>3. LinkInv => ConnectionAgrees
  BY DEF LinkInv
<1> QED BY <1>1, <1>2, <1>3, SingleThreadInductive, PTL DEF Spec

-----------------------------------------------------------------------------
(* Message callbacks and yield.                                            *)

\* The message callbacks do not connect the client again.
CallbacksDoNotConnect == CallbackCalls \intersect {"connect", "attempt_reconnect"} = {}

\* The states of the client while a message callback runs: none of them admits yield.
Busy == {"WAIT_FOR_CB_RETURN", "PUBLISH_IN_PROGRESS", "SUBSCRIBE_IN_PROGRESS", "UNSUBSCRIBE_IN_PROGRESS",
         "DISCONNECTING", "DISCONNECTED_MANUALLY"}

InCallback(f) == f.fn = "handle_publish" /\ f.pc = "callback"

\* A call made inside a message callback, directly or not.
Inside(f) ==
  /\ f.fn \in Acked \union {"handle_publish", "disconnect", "yield"}
  /\ f.fn \in {"yield", "resubscribe"} => f.pc \in {"enter", "return"}
  /\ f.pc \notin {"enter", "return"} => f.saved \in Busy

CallbackOK(t) ==
  \A d \in 1..depth[t] : InCallback(frame[t][d]) =>
    /\ clientState \in Busy
    /\ \A e \in 1..depth[t] : d < e => Inside(frame[t][e])

\* While a message callback runs the client is busy, every state that the calls inside it have
\* saved is busy too, and yield and resubscribe are refused.
CallbackInv == \A t \in Threads : CallbackOK(t)

\* A move of the top frame that stays inside the callbacks below it keeps CallbackOK.
LEMMA CallbackMove ==
  ASSUME TypeOK, NEW t \in Threads, CallbackOK(t), depth[t] > 0, NEW f, SetTop(t, f),
         InCallback(f) => clientState' \in Busy,
         clientState \in Busy /\ Inside(Top(t)) => clientState' \in Busy /\ Inside(f)
  PROVE  CallbackOK(t)'
<1>1. /\ depth' = depth
      /\ depth[t] \in 1..MaxDepth
      /\ frame'[t][depth[t]] = f
      /\ \A d \in 1..MaxDepth : d # depth[t] => frame'[t][d] = frame[t][d]
  BY SetTopEffect
<1>2. \A d \in 1..depth[t] : d \in 1..MaxDepth /\ (d # depth[t] => d < depth[t])
  BY <1>1, ConstantsAssumption
<1>3. \A d \in 1..depth[t] : d = depth[t] \/ (d < depth[t] /\ frame'[t][d] = frame[t][d])
  BY <1>1, <1>2
<1>4. depth[t] \in 1..depth[t] /\ Top(t) = frame[t][depth[t]]
  BY <1>1, ConstantsAssumption DEF Top
<1> SUFFICES ASSUME NEW d \in 1..depth[t], InCallback(frame'[t][d])
             PROVE  clientState' \in Busy /\ \A e \in 1..depth[t] : d < e => Inside(frame'[t][e])
  BY <1>1 DEF CallbackOK
<1>5. CASE d = depth[t]
  <2>1. InCallback(f)
    BY <1>1, <1>5
  <2>2. \A e \in 1..depth[t] : ~(d < e)
    BY <1>1, <1>2, <1>5
  <2> QED BY <2>1, <2>2
<1>6. CASE d # depth[t]
  <2>1. InCallback(frame[t][d]) /\ d < depth[t]
    BY <1>3, <1>6
  <2>2. clientState \in Busy /\ \A e \in 1..depth[t] : d < e => Inside(frame[t][e])
    BY <2>1 DEF CallbackOK
  <2>3. Inside(Top(t))
    BY <1>4, <2>1, <2>2
  <2>4. clientState' \in Busy /\ Inside(f)
    BY <2>2, <2>3
  <2>5. ASSUME NEW e \in 1..depth[t], d < e PROVE Inside(frame'[t][e])
    <3>1. CASE e = depth[t]
      BY <1>1, <2>4, <3>1
    <3>2. CASE e # depth[t]
      BY <1>3, <2>2, <2>5, <3>2
    <3> QED BY <3>1, <3>2
  <2> QED BY <2>4, <2>5
<1> QED BY <1>5, <1>6

\* Every move of the top frame keeps CallbackOK.
LEMMA CallbackMoved ==
  ASSUME TypeOK, NEW t \in Threads, StackOK(t), CallbackOK(t), Moved(t)
  PROVE  CallbackOK(t)'
<1> DEFINE g == Top(t)
<1>1. /\ depth[t] > 0 /\ g \in Frames /\ g.fn \in Fns
      /\ depth[t] \in 1..depth[t] /\ g = frame[t][depth[t]]
  BY TopType DEF Moved, Frames, TypeOK, Top
<1>2. g.pc \in PcsOf[g.fn] /\ StateOK(g, clientState)
  BY <1>1 DEF StackOK
<1>3. "handle_publish" \notin Acked /\ "connect" \notin Acked /\ "disconnect" \notin Acked
      /\ "attempt_reconnect" \notin Acked /\ "yield" \notin Acked /\ "none" \notin Acked
  BY DEF Acked, Requests
<1>4. g.fn \in Acked \/ g.fn \in {"handle_publish", "connect", "disconnect", "attempt_reconnect", "yield", "none"}
  BY <1>1 DEF Fns, Calls
<1>5. ASSUME NEW f \in Frames, SetTop(t, f),
             InCallback(f) => clientState' \in Busy,
             clientState \in Busy /\ Inside(g) => clientState' \in Busy /\ Inside(f)
      PROVE  CallbackOK(t)'
  BY <1>1, <1>5, CallbackMove
<1> HIDE DEF g
<1>6. ASSUME NEW to \in Pcs, Goes(t, to), Quiet(g.fn, g.pc, to), clientState' = clientState
      PROVE  CallbackOK(t)'
  <2>1. PICK f \in Frames : SetTop(t, f) /\ f.fn = g.fn /\ f.saved = g.saved /\ f.pc = to
    BY <1>6 DEF Goes, g
  <2>2. ~InCallback(f)
    BY <1>3, <1>6, <2>1 DEF Quiet, InCallback, CasPcs
  <2>3. Inside(g) => Inside(f)
    BY <1>3, <1>6, <2>1 DEF Quiet, Inside, CasPcs
  <2> QED BY <1>5, <1>6, <2>1, <2>2, <2>3
<1>7. ASSUME NEW to \in Pcs, Goes(t, to), Links(g.fn, g.pc, to)
      PROVE  CallbackOK(t)'
  <2>1. PICK f \in Frames : SetTop(t, f) /\ f.fn = g.fn /\ f.saved = g.saved /\ f.pc = to
    BY <1>7 DEF Goes, g
  <2>2. ~InCallback(f)
    BY <1>7, <2>1 DEF Links, InCallback
  <2>3. Inside(g) => Inside(f) /\ (clientState' = clientState \/ clientState' = "DISCONNECTED_MANUALLY")
    BY <1>3, <1>7, <2>1 DEF Links, Inside
  <2>4. clientState \in Busy /\ Inside(g) => clientState' \in Busy /\ Inside(f)
    BY <2>3 DEF Busy
  <2> QED BY <1>5, <2>1, <2>2, <2>4
<1>8. ASSUME g.fn = "disconnect", g.pc = "restore", Goes(t, "return"), clientState' = g.saved
      PROVE  CallbackOK(t)'
  <2>1. PICK f \in Frames : SetTop(t, f) /\ f.fn = g.fn /\ f.saved = g.saved /\ f.pc = "return"
    BY <1>8 DEF Goes, g
  <2>2. ~InCallback(f)
    BY <1>8, <2>1 DEF InCallback
  <2>3. Inside(g) => clientState' \in Busy /\ Inside(f)
    BY <1>8, <2>1 DEF Inside
  <2> QED BY <1>5, <2>1, <2>2, <2>3
<1>9. ASSUME g.pc \in CasPcs, NEW ok \in BOOLEAN, ok = (clientState = Expected(g)),
             clientState' = IF ok THEN NewState(g) ELSE clientState,
             Goes(t, AfterCas(g, ok))
      PROVE  CallbackOK(t)'
  <2>1. PICK f \in Frames : SetTop(t, f) /\ f.fn = g.fn /\ f.saved = g.saved /\ f.pc = AfterCas(g, ok)
    BY <1>9 DEF Goes, g
  <2>2. g.pc = "begin" => ok
    BY <1>2, <1>9 DEF StateOK, Expected
  <2>3. /\ \A fn \in Acked \ {"resubscribe"} : Own[fn] \in Busy
        /\ Own["handle_publish"] \in Busy /\ Own["disconnect"] \in Busy
    BY DEF Own, Fns, Calls, Acked, Requests, Busy
  <2>4. g.pc = "begin" => clientState' = Own[g.fn]
    BY <1>9, <2>2 DEF NewState
  <2>5. InCallback(f) => clientState' \in Busy
    <3>1. InCallback(f) => g.pc = "begin" /\ g.fn = "handle_publish"
      BY <2>1 DEF InCallback, AfterCas
    <3> QED BY <2>3, <2>4, <3>1
  <2>6. ASSUME clientState \in Busy, Inside(g) PROVE clientState' \in Busy /\ Inside(f)
    <3>1. g.fn \in Acked \ {"resubscribe"} \/ g.fn \in {"handle_publish", "disconnect"}
      BY <1>9, <2>6 DEF Inside, CasPcs
    <3>2. g.saved \in Busy
      BY <1>9, <2>6 DEF Inside, CasPcs
    <3>3. g.pc \in {"begin", "end", "undo"}
      BY <1>2, <1>9, <3>1, PlacesOf DEF CasPcs
    <3>4. clientState' \in Busy
      <4>1. CASE g.pc = "begin"
        BY <2>3, <2>4, <3>1, <4>1
      <4>2. CASE g.pc \in {"end", "undo"}
        BY <1>9, <2>6, <3>2, <4>2 DEF NewState
      <4> QED BY <3>3, <4>1, <4>2
    <3>5. Inside(f)
      BY <1>3, <2>1, <3>1, <3>2 DEF Inside
    <3> QED BY <3>4, <3>5
  <2> QED BY <1>5, <2>1, <2>5, <2>6
<1>10. ASSUME g.pc = "enter", clientState \in Admits[g.fn], NEW f \in Frames, SetTop(t, f), f.fn = g.fn,
              f.pc = IF f.fn = "yield" /\ clientState = "PENDING_RECONNECT" THEN "loop" ELSE "begin",
              f.saved = IF f.fn = "yield" THEN "CONNECTED_IDLE" ELSE clientState,
              clientState' = clientState
       PROVE  CallbackOK(t)'
  <2>1. Admits["yield"] \intersect Busy = {} /\ Admits["resubscribe"] \intersect Busy = {}
    BY DEF Admits, Fns, Calls, Acked, Requests, Busy
  <2>2. ~InCallback(f)
    BY <1>10 DEF InCallback
  <2>3. ASSUME clientState \in Busy, Inside(g) PROVE clientState' \in Busy /\ Inside(f)
    <3>1. g.fn \notin {"yield", "resubscribe"}
      BY <1>10, <2>1, <2>3
    <3> QED BY <1>10, <2>3, <3>1 DEF Inside
  <2> QED BY <1>5, <1>10, <2>2, <2>3
<1>11. ASSUME g.pc = "enter", g.fn = "disconnect", NEW f \in Frames, SetTop(t, f), f.fn = g.fn,
              f.pc = "check", f.saved = clientState, clientState' = clientState
       PROVE  CallbackOK(t)'
  <2>1. ~InCallback(f)
    BY <1>11 DEF InCallback
  <2>2. clientState \in Busy => clientState' \in Busy /\ Inside(f)
    BY <1>11 DEF Inside
  <2> QED BY <1>5, <1>11, <2>1, <2>2
<1> QED
  <2>1. (clientState = Expected(g)) \in BOOLEAN
    OBVIOUS
  <2> QED BY <1>6, <1>7, <1>8, <1>9, <1>10, <1>11, <2>1 DEF Moved, g

\* Every call keeps CallbackOK.
LEMMA CallbackPushed ==
  ASSUME CallbacksDoNotConnect, TypeOK, NEW t \in Threads, StackOK(t), CallbackOK(t), Pushed(t)
  PROVE  CallbackOK(t)'
<1>1. PICK pc \in Pcs, fn \in Fns \ {"none"}, n \in Nat, f \in Frames, h \in Frames :
        PushesOnto(t, pc, fn, n, f, h)
  BY PushedStack
<1>2. /\ n = depth[t] /\ n \in 1..MaxDepth /\ depth'[t] = n + 1 /\ Top(t) = frame[t][n]
      /\ f.fn = Top(t).fn /\ f.saved = Top(t).saved /\ f.pc = pc
      /\ h.fn = fn /\ h.pc = "enter"
      /\ frame'[t][n] = f /\ frame'[t][n + 1] = h
      /\ \A d \in 1..n : d # n => frame'[t][d] = frame[t][d]
  BY <1>1 DEF PushesOnto
<1>3. Waits(Top(t).fn, pc, fn) /\ CallsFrom(Top(t).fn, Top(t).pc, pc)
  BY <1>1 DEF PushesOnto
<1>4. clientState' = clientState /\ n \in 1..n
  BY <1>2, ConstantsAssumption DEF Pushed
<1>5. "handle_publish" \notin Acked /\ "yield" \notin Acked /\ "attempt_reconnect" \notin Acked
  BY DEF Acked, Requests
<1>6. \A d \in 1..(n + 1) : d = n + 1 \/ d = n \/ (d \in 1..n /\ d # n /\ d < n)
  BY <1>2
<1>7. InCallback(f) => InCallback(Top(t))
  BY <1>2, <1>3, <1>5 DEF InCallback, Waits, CallsFrom
<1>8. InCallback(Top(t)) \/ Inside(Top(t)) => Inside(h)
  <2>1. fn \in CallbackCalls => fn \in Acked \union {"disconnect", "yield"}
    BY ConstantsAssumption DEF CallbacksDoNotConnect, Calls
  <2>2. InCallback(Top(t)) \/ Inside(Top(t)) => fn \in CallbackCalls \union {"handle_publish"}
    BY <1>2, <1>3, <1>5 DEF InCallback, Inside, Waits, CallsFrom
  <2> QED BY <1>2, <2>1, <2>2 DEF Inside
<1>9. Inside(Top(t)) => Inside(f)
  BY <1>2, <1>3, <1>5 DEF Inside, Waits, CallsFrom
<1>10. ASSUME NEW d \in 1..(n + 1), InCallback(frame'[t][d])
       PROVE  clientState' \in Busy /\ \A e \in 1..(n + 1) : d < e => Inside(frame'[t][e])
  <2>1. CASE d = n + 1
    BY <1>2, <1>10, <2>1 DEF InCallback
  <2>2. CASE d = n
    <3>1. InCallback(Top(t))
      BY <1>2, <1>7, <1>10, <2>2
    <3>2. clientState' \in Busy
      BY <1>2, <1>4, <3>1 DEF CallbackOK
    <3>3. \A e \in 1..(n + 1) : d < e => e = n + 1
      BY <2>2
    <3> QED BY <1>2, <1>8, <3>1, <3>2, <3>3
  <2>3. CASE d \in 1..n /\ d # n /\ d < n
    <3>1. InCallback(frame[t][d])
      BY <1>2, <1>10, <2>3
    <3>2. clientState \in Busy /\ \A e \in 1..n : d < e => Inside(frame[t][e])
      BY <1>2, <2>3, <3>1 DEF CallbackOK
    <3>3. Inside(Top(t))
      BY <1>2, <1>4, <2>3, <3>2
    <3>4. Inside(f) /\ Inside(h)
      BY <1>8, <1>9, <3>3
    <3>5. ASSUME NEW e \in 1..(n + 1), d < e PROVE Inside(frame'[t][e])
      <4>1. CASE e = n + 1
        BY <1>2, <3>4, <4>1
      <4>2. CASE e = n
        BY <1>2, <3>4, <4>2
      <4>3. CASE e \in 1..n /\ e # n
        BY <1>2, <3>2, <3>5, <4>3
      <4> QED BY <1>6, <4>1, <4>2, <4>3
    <3> QED BY <1>4, <3>2, <3>5
  <2> QED BY <1>6, <2>1, <2>2, <2>3
<1> QED BY <1>2, <1>10 DEF CallbackOK

\* Every return keeps CallbackOK.
LEMMA CallbackReturn ==
  ASSUME TypeOK, NEW t \in Threads, StackOK(t), CallbackOK(t), Return(t)
  PROVE  CallbackOK(t)'
<1>1. PICK n \in Nat, g \in Frames, r \in Frames : ReturnsTo(t, n, g, r)
  BY ReturnedStack
<1>2. /\ n = depth'[t] /\ depth[t] = n + 1 /\ Top(t).rc \in ReturnCodes
      /\ \A d \in 1..n : d # n => frame'[t][d] = frame[t][d]
      /\ n > 0 => /\ frame[t][n] = g /\ frame'[t][n] = r
                  /\ r = Resume(g, Top(t).rc)
                  /\ Waits(g.fn, g.pc, Top(t).fn)
  BY <1>1 DEF ReturnsTo, Frames
<1>3. clientState' = clientState
  BY DEF Return
<1>4. \A d \in 1..n : d \in 1..depth[t] /\ n > 0 /\ n \in 1..depth[t] /\ (d # n => d < n)
  BY <1>2
<1>5. n > 0 => /\ InCallback(r) => InCallback(g)
               /\ Inside(g) => Inside(r)
  <2> SUFFICES ASSUME n > 0 PROVE (InCallback(r) => InCallback(g)) /\ (Inside(g) => Inside(r))
    OBVIOUS
  <2>1. r = Resume(g, Top(t).rc) /\ Waits(g.fn, g.pc, Top(t).fn) /\ Top(t).rc \in ReturnCodes
    BY <1>2
  <2>2. r.fn = g.fn /\ (g.fn \in Acked \union {"handle_publish"} => r = g)
    BY <2>1, ResumePlace
  <2>3. Inside(g) => g.fn \in Acked \union {"handle_publish"}
    BY <2>1 DEF Inside, Waits
  <2> QED BY <2>2, <2>3 DEF InCallback
<1>6. ASSUME NEW d \in 1..n, InCallback(frame'[t][d])
      PROVE  clientState' \in Busy /\ \A e \in 1..n : d < e => Inside(frame'[t][e])
  <2>1. InCallback(frame[t][d])
    BY <1>2, <1>4, <1>5, <1>6
  <2>2. clientState \in Busy /\ \A e \in 1..depth[t] : d < e => Inside(frame[t][e])
    BY <1>4, <2>1 DEF CallbackOK
  <2>3. ASSUME NEW e \in 1..n, d < e PROVE Inside(frame'[t][e])
    <3>1. Inside(frame[t][e])
      BY <1>4, <2>2, <2>3
    <3>2. CASE e = n
      BY <1>2, <1>4, <1>5, <3>1, <3>2
    <3>3. CASE e # n
      BY <1>2, <3>1, <3>3
    <3> QED BY <3>2, <3>3
  <2> QED BY <1>3, <2>2, <2>3
<1> QED BY <1>2, <1>6 DEF CallbackOK

\* Every step of the only thread keeps CallbackInv.
LEMMA CallbackStep ==
  ASSUME CallbacksDoNotConnect, SingleThread, SingleThreadInv, StackInv, CallbackInv, [Next]_vars
  PROVE  CallbackInv'
<1>1. CASE UNCHANGED vars
  BY <1>1 DEF CallbackInv, CallbackOK, vars
<1>2. ASSUME NEW t \in Threads, Step(t) \/ App(t)
      PROVE  CallbackOK(t)'
  <2>1. TypeOK /\ StackOK(t) /\ CallbackOK(t)
    BY DEF SingleThreadInv, StackInv, CallbackInv
  <2>2. CASE Moved(t)
    BY <2>1, <2>2, CallbackMoved
  <2>3. CASE Pushed(t)
    BY <2>1, <2>3, CallbackPushed
  <2>4. CASE Return(t)
    BY <2>1, <2>4, CallbackReturn
  <2>5. CASE SetAutoReconnect(t)
    BY <2>1, <2>5 DEF SetAutoReconnect, CallbackOK
  <2>6. ASSUME NEW fn \in Calls, Call(t, fn)
        PROVE  CallbackOK(t)'
    <3>1. depth'[t] = 1 /\ frame'[t][1].pc = "enter"
      BY <2>1, <2>6, CalledStack
    <3>2. \A d \in 1..depth'[t] : d = 1
      BY <3>1
    <3> QED BY <3>1, <3>2 DEF CallbackOK, InCallback
  <2> QED BY <1>2, <2>2, <2>3, <2>4, <2>5, <2>6, StepShape
<1> QED BY <1>1, <1>2 DEF Next, CallbackInv, SingleThread

\* In an application with one thread whose message callbacks do not connect the client again,
\* yield never runs inside a message callback, however deep the calls nest: it is refused, as
\* the comment on WAIT_FOR_CB_RETURN in deliver_message promises.
THEOREM SingleThreadYield ==
  SingleThread /\ CallbacksDoNotConnect => (Spec => []YieldNotInCallback)
<1> SUFFICES ASSUME SingleThread, CallbacksDoNotConnect PROVE Spec => []YieldNotInCallback
  OBVIOUS
<1>1. Init => StackInv /\ CallbackInv
  <2> SUFFICES ASSUME Init PROVE CallbackInv
    BY StackStart
  <2>1. \A t \in Threads : 1..depth[t] = {}
    BY DEF Init
  <2> QED BY <2>1 DEF CallbackInv, CallbackOK
<1>2. SingleThreadInv /\ StackInv /\ CallbackInv /\ [Next]_vars => (StackInv /\ CallbackInv)'
  BY StackStep, CallbackStep
<1>3. SingleThreadInv /\ StackInv /\ CallbackInv => YieldNotInCallback
  <2> SUFFICES ASSUME SingleThreadInv, StackInv, CallbackInv, NEW t \in Threads,
                      NEW d \in 1..depth[t], NEW e \in 1..depth[t], d < e,
                      frame[t][d].fn = "handle_publish", frame[t][e].fn = "yield"
               PROVE  frame[t][e].pc \in {"enter", "return"}
    BY DEF YieldNotInCallback
  <2>1. d < depth[t]
    BY DEF SingleThreadInv, TypeOK
  <2>2. Waits(frame[t][d].fn, frame[t][d].pc, frame[t][d + 1].fn)
    BY <2>1 DEF StackInv, StackOK
  <2>3. InCallback(frame[t][d])
    <3>1. "handle_publish" \notin Acked
      BY DEF Acked, Requests
    <3> QED BY <2>2, <3>1 DEF Waits, InCallback
  <2>4. Inside(frame[t][e])
    BY <2>3 DEF CallbackInv, CallbackOK
  <2> QED BY <2>4 DEF Inside
<1> QED BY <1>1, <1>2, <1>3, SingleThreadInductive, PTL DEF Spec
=============================================================================
