------------------------------ MODULE MqttClient ------------------------------
(***************************************************************************)
(* The client state machine of the MQTT client: clientStatus.clientState,  *)
(* the state_change_mutex that guards its compare-and-swap, and every API  *)
(* function that moves it, with the nesting of calls that the callbacks    *)
(* of the application make possible (a message callback runs inside the    *)
(* read loop of the call that received the message; the disconnect handler *)
(* runs inside yield).                                                     *)
(*                                                                         *)
(* Every thread owns a call stack.  A stack frame is one activation of an  *)
(* API function: its name, where it stands, the client state it saved on   *)
(* entry, the return code it has computed, and the outcome of the test of  *)
(* the compare-and-swap it is inside of.  One step is one access to shared *)
(* state.  Timers are observed, not counted: whenever the code asks        *)
(* has_timer_expired, both answers are possible until the first "yes",     *)
(* which always leaves the loop that asked.                                *)
(***************************************************************************)
EXTENDS Naturals, FiniteSets

CONSTANTS
  Threads,            \* application threads that share one AWS_IoT_Client
  NoThread,           \* "the mutex is free"
  MaxDepth,           \* bound: frames on one call stack
  NumHandlers,        \* AWS_IOT_MQTT_NUM_SUBSCRIBE_HANDLERS
  MinInterval,        \* AWS_IOT_MQTT_MIN_RECONNECT_WAIT_INTERVAL
  MaxInterval,        \* AWS_IOT_MQTT_MAX_RECONNECT_WAIT_INTERVAL
  StaleIntervals,     \* what currentReconnectWaitInterval may hold before its first assignment
  BlockOnThreadLock,  \* isBlockOnThreadLockEnabled
  Inbound,            \* may the broker send PUBLISH packets to this client?
  AppCalls,           \* API functions the threads call
  CallbackCalls,      \* API functions the message callbacks call
  HandlerCalls        \* API functions the disconnect handler calls

Requests == {"publish", "subscribe", "unsubscribe"}
Acked    == Requests \union {"resubscribe"}
Calls    == Acked \union {"connect", "disconnect", "attempt_reconnect", "yield"}
Fns      == Calls \union {"handle_publish", "none"}

ASSUME ConstantsAssumption ==
  /\ NoThread \notin Threads
  /\ MaxDepth \in Nat \ {0}
  /\ NumHandlers \in Nat
  /\ MinInterval \in Nat
  /\ MaxInterval \in Nat
  /\ StaleIntervals \subseteq Nat
  /\ BlockOnThreadLock \in BOOLEAN
  /\ Inbound \in BOOLEAN
  /\ AppCalls \subseteq Calls \union {"autoreconnect_set_status"}
  /\ CallbackCalls \subseteq Calls
  /\ HandlerCalls \subseteq Calls

VARIABLES
  clientState,        \* clientStatus.clientState
  stateMutex,         \* holder of state_change_mutex, or NoThread
  tls,                \* the TLS context of networkStack: "open" or "closed"
  isPingOutstanding,
  isAutoReconnectEnabled,
  currentReconnectWaitInterval,
  depth,              \* depth[t]: frames on thread t's call stack
  frame               \* frame[t][d]: the d-th frame of thread t, d = 1 the outermost

status == <<isPingOutstanding, isAutoReconnectEnabled, currentReconnectWaitInterval>>
vars   == <<clientState, stateMutex, tls, status, depth, frame>>

-----------------------------------------------------------------------------
(* The states of the client and the frames of the call stacks.             *)

ConnectedStates ==
  {"CONNECTED_IDLE", "YIELD_IN_PROGRESS", "PUBLISH_IN_PROGRESS", "SUBSCRIBE_IN_PROGRESS",
   "UNSUBSCRIBE_IN_PROGRESS", "RESUBSCRIBE_IN_PROGRESS", "WAIT_FOR_CB_RETURN"}

DisconnectedStates == {"DISCONNECTED_ERROR", "DISCONNECTED_MANUALLY", "PENDING_RECONNECT"}

ClientStates ==
  ConnectedStates \union DisconnectedStates
    \union {"INVALID", "INITIALIZED", "CONNECTING", "DISCONNECTING"}

\* The state a function sets for as long as it is in progress.
Own == [fn \in Fns |->
  CASE fn = "publish"        -> "PUBLISH_IN_PROGRESS"
    [] fn = "subscribe"      -> "SUBSCRIBE_IN_PROGRESS"
    [] fn = "unsubscribe"    -> "UNSUBSCRIBE_IN_PROGRESS"
    [] fn = "resubscribe"    -> "RESUBSCRIBE_IN_PROGRESS"
    [] fn = "yield"          -> "YIELD_IN_PROGRESS"
    [] fn = "handle_publish" -> "WAIT_FOR_CB_RETURN"
    [] fn = "connect"        -> "CONNECTING"
    [] fn = "disconnect"     -> "DISCONNECTING"
    [] OTHER                 -> "INVALID"]

\* Mutant: yield may run inside a message callback.
AdmitsYieldInCallback == [fn \in Fns |->
  CASE fn = "yield"          -> {"CONNECTED_IDLE", "PENDING_RECONNECT", "WAIT_FOR_CB_RETURN"}
    [] fn = "connect"        -> DisconnectedStates \union {"INITIALIZED"}
    [] fn = "handle_publish" -> ClientStates
    [] OTHER                 -> {"CONNECTED_IDLE", "WAIT_FOR_CB_RETURN"}]

\* The states from which a function goes on; any other makes it return an error.
Admits == [fn \in Fns |->
  CASE fn \in Requests       -> {"CONNECTED_IDLE", "WAIT_FOR_CB_RETURN"}
    [] fn = "resubscribe"    -> {"CONNECTED_IDLE"}
    [] fn = "yield"          -> {"CONNECTED_IDLE", "PENDING_RECONNECT"}
    [] fn = "connect"        -> DisconnectedStates \union {"INITIALIZED"}
    [] fn = "handle_publish" -> ClientStates
    [] OTHER                 -> {}]

\* The return codes that some caller tells apart; every other one is "ERROR".
ReturnCodes == {"SUCCESS", "ERROR", "ALREADY_CONNECTED", "DISCONNECTED", "ATTEMPTING", "RECONNECTED"}

\* The places of a frame that stand inside aws_iot_mqtt_set_client_state ...
CasPcs == {"begin", "end", "undo", "fail", "done", "pend", "resume"}
\* ... and all of them.
Pcs == CasPcs \union
  {"none", "enter", "return", "send", "wait", "callback", "puback", "tls", "connack", "cleanup",
   "check", "close", "manual", "restore", "connect", "resubscribe", "loop", "delay", "reconnect",
   "backoff", "read", "keepalive", "disconnect", "force", "destroy", "handler", "arm"}

Frames == [fn : Fns, pc : Pcs, saved : ClientStates, rc : ReturnCodes,
           match : BOOLEAN, left : Nat]

NoFrame == [fn |-> "none", pc |-> "none", saved |-> "INVALID", rc |-> "SUCCESS",
            match |-> FALSE, left |-> 0]

Connected(s) == s \in ConnectedStates

Top(t) == frame[t][depth[t]]

At(t, fns, pc) ==
  /\ depth[t] > 0
  /\ Top(t).fn \in fns
  /\ Top(t).pc = pc

SetTop(t, f) ==
  /\ frame' = [frame EXCEPT ![t] = [@ EXCEPT ![depth[t]] = f]]
  /\ depth' = depth

Goto(t, pc)       == SetTop(t, [Top(t) EXCEPT !.pc = pc])
GotoRc(t, pc, rc) == SetTop(t, [Top(t) EXCEPT !.pc = pc, !.rc = rc])

\* The caller waits at place pc; the callee's frame goes on top of it.
Push(t, pc, fn) ==
  /\ depth[t] > 0
  /\ depth[t] < MaxDepth
  /\ depth' = [depth EXCEPT ![t] = @ + 1]
  /\ frame' = [frame EXCEPT ![t] =
       [@ EXCEPT ![depth[t]] = [Top(t) EXCEPT !.pc = pc],
                 ![depth[t] + 1] = [NoFrame EXCEPT !.fn = fn, !.pc = "enter"]]]

-----------------------------------------------------------------------------
(* aws_iot_mqtt_set_client_state(expected, new): lock the mutex, compare,  *)
(* assign, unlock.  Some assignments elsewhere bypass the mutex, so the    *)
(* comparison and the assignment are two steps.                            *)

\* Mutant: the state is assigned without the comparison.
ExpectedAny(f) == clientState

Expected(f) ==
  CASE f.pc = "begin"  -> f.saved
    [] f.pc = "pend"   -> "DISCONNECTED_ERROR"
    [] f.pc = "resume" -> "CONNECTED_IDLE"
    [] OTHER           -> Own[f.fn]

NewState(f) ==
  CASE f.pc \in {"begin", "resume"} -> Own[f.fn]
    [] f.pc \in {"end", "undo"}     -> f.saved
    [] f.pc = "fail"                -> "DISCONNECTED_ERROR"
    [] f.pc = "done"                -> "CONNECTED_IDLE"
    [] OTHER                        -> "PENDING_RECONNECT"

\* The place a frame goes to after the compare-and-swap at its place succeeded (ok) or not.
AfterCas(f, ok) ==
  CASE f.pc = "begin" /\ f.fn \in Acked           -> IF ok THEN "send"
                                                     ELSE IF f.fn = "unsubscribe" THEN "undo" ELSE "return"
    [] f.pc = "begin" /\ f.fn = "handle_publish"  -> "callback"
    [] f.pc = "begin" /\ f.fn = "connect"         -> "tls"
    [] f.pc = "begin" /\ f.fn = "disconnect"      -> IF ok THEN "send" ELSE "return"
    [] f.pc = "begin" /\ f.fn = "yield"           -> IF ok THEN "loop" ELSE "return"
    [] f.pc = "end" /\ f.fn = "handle_publish"    -> IF ok THEN "puback" ELSE "return"
    [] f.pc = "pend" /\ f.fn = "yield"            -> IF ok THEN "arm" ELSE "end"
    [] f.pc = "resume"                            -> "loop"
    [] OTHER                                      -> "return"

\* The return code after it: an error of the swap counts unless the code ignores it.
RcAfterCas(f, ok) ==
  CASE f.pc = "undo"                                  -> IF ok THEN "SUCCESS" ELSE "ERROR"
    [] f.pc = "resume"                                -> IF ok THEN "RECONNECTED" ELSE "ERROR"
    [] f.pc = "pend" /\ f.fn = "attempt_reconnect"    -> "ATTEMPTING"
    [] f.pc = "pend" /\ f.fn = "yield"                -> IF ok THEN "ATTEMPTING" ELSE "ERROR"
    [] f.pc \in {"begin", "done", "fail"} /\ f.fn = "connect" -> f.rc
    [] f.pc = "begin" /\ f.fn = "handle_publish"      -> f.rc
    [] OTHER -> IF f.rc = "SUCCESS" /\ ~ok THEN "ERROR" ELSE f.rc

LockAndCompare(t) ==
  /\ depth[t] > 0
  /\ Top(t).pc \in CasPcs
  /\ stateMutex = NoThread
  /\ stateMutex' = t
  /\ SetTop(t, [Top(t) EXCEPT !.match = (clientState = Expected(Top(t)))])
  /\ UNCHANGED <<clientState, tls, status>>

SwapAndUnlock(t) ==
  LET f == Top(t) IN
  /\ depth[t] > 0
  /\ f.pc \in CasPcs
  /\ stateMutex = t
  /\ clientState' = IF f.match THEN NewState(f) ELSE clientState
  /\ stateMutex' = NoThread
  /\ SetTop(t, [f EXCEPT !.pc = AfterCas(f, f.match), !.rc = RcAfterCas(f, f.match), !.match = FALSE])
  /\ UNCHANGED <<tls, status>>

\* Mutant: the result of the trylock is not looked at.
TryLockIgnored(t) ==
  LET f == Top(t) IN
  /\ ~BlockOnThreadLock
  /\ depth[t] > 0
  /\ f.pc \in CasPcs
  /\ stateMutex \notin {t, NoThread}
  /\ clientState' = NewState(f)
  /\ SetTop(t, [f EXCEPT !.pc = AfterCas(f, TRUE), !.rc = RcAfterCas(f, TRUE)])
  /\ UNCHANGED <<stateMutex, tls, status>>

\* Without isBlockOnThreadLockEnabled the mutex is only tried.
TryLockFails(t) ==
  LET f == Top(t) IN
  /\ ~BlockOnThreadLock
  /\ depth[t] > 0
  /\ f.pc \in CasPcs
  /\ stateMutex \notin {t, NoThread}
  /\ SetTop(t, [f EXCEPT !.pc = AfterCas(f, FALSE), !.rc = RcAfterCas(f, FALSE)])
  /\ UNCHANGED <<clientState, stateMutex, tls, status>>

-----------------------------------------------------------------------------
(* Calls and returns.                                                      *)

\* Frames that a call may need on top of its own for the calls it makes itself.
FramesOf(fn) == IF fn = "yield" THEN 3 ELSE IF fn = "attempt_reconnect" THEN 2 ELSE 1

\* A thread calls the API from its own code ...
Call(t, fn) ==
  /\ depth[t] = 0
  /\ fn \in AppCalls
  /\ FramesOf(fn) <= MaxDepth
  /\ depth' = [depth EXCEPT ![t] = 1]
  /\ frame' = [frame EXCEPT ![t] = [@ EXCEPT ![1] = [NoFrame EXCEPT !.fn = fn, !.pc = "enter"]]]
  /\ UNCHANGED <<clientState, stateMutex, tls, status>>

\* ... or from a callback that the SDK is running on this thread.
NestedCall(t, fn) ==
  /\ \/ At(t, {"handle_publish"}, "callback") /\ fn \in CallbackCalls
     \/ At(t, {"yield"}, "handler") /\ fn \in HandlerCalls
  /\ depth[t] + FramesOf(fn) <= MaxDepth
  /\ Push(t, Top(t).pc, fn)
  /\ UNCHANGED <<clientState, stateMutex, tls, status>>

SetAutoReconnect(t) ==
  /\ depth[t] = 0
  /\ "autoreconnect_set_status" \in AppCalls
  /\ isAutoReconnectEnabled' = ~isAutoReconnectEnabled
  /\ UNCHANGED <<clientState, stateMutex, tls, isPingOutstanding, currentReconnectWaitInterval,
                 depth, frame>>

\* What caller g does with the return code rc of the call it waits for.
Resume(g, rc) ==
  CASE g.fn = "yield" /\ g.pc = "read" ->
         [g EXCEPT !.pc = IF rc = "SUCCESS" THEN "keepalive" ELSE "end", !.rc = rc]
    [] g.fn = "yield" /\ g.pc = "disconnect" ->
         [g EXCEPT !.pc = IF rc = "SUCCESS" THEN "handler" ELSE "force"]
    [] g.fn = "yield" /\ g.pc = "reconnect" ->
         [g EXCEPT !.pc = IF rc = "RECONNECTED" THEN "resume" ELSE "backoff", !.rc = rc]
    [] g.fn = "attempt_reconnect" /\ g.pc = "connect" -> [g EXCEPT !.pc = "check"]
    [] g.fn = "attempt_reconnect" /\ g.pc = "resubscribe" ->
         [g EXCEPT !.pc = "return", !.rc = IF rc = "SUCCESS" THEN "RECONNECTED" ELSE rc]
    [] OTHER -> g   \* a read loop or a callback goes on, whatever the callee returned

Return(t) ==
  /\ depth[t] > 0
  /\ Top(t).pc = "return"
  /\ depth' = [depth EXCEPT ![t] = @ - 1]
  /\ frame' = [frame EXCEPT ![t] =
       [d \in 1..MaxDepth |->
          CASE d = depth[t]     -> NoFrame
            [] d + 1 = depth[t] -> Resume(frame[t][d], Top(t).rc)
            [] OTHER            -> frame[t][d]]]
  /\ UNCHANGED <<clientState, stateMutex, tls, status>>

\* The validations at the head of a function, which go on or return an error.  The code reads
\* the state twice, so another thread may turn "disconnected" into "not idle" in between.
Enter(t) ==
  LET f == Top(t) IN
  /\ At(t, Fns \ {"disconnect", "attempt_reconnect"}, "enter")
  /\ IF clientState \in Admits[f.fn]
     THEN \E n \in IF f.fn = "resubscribe" THEN 0..NumHandlers ELSE {1} :
            SetTop(t, [f EXCEPT
              !.pc = IF f.fn = "yield" /\ clientState = "PENDING_RECONNECT" THEN "loop" ELSE "begin",
              !.saved = IF f.fn = "yield" THEN "CONNECTED_IDLE" ELSE clientState,
              !.left = n])
     ELSE \/ ~Connected(clientState) /\ GotoRc(t, "return", "DISCONNECTED")
          \/ (Connected(clientState) \/ Threads # {t}) /\ GotoRc(t, "return", "ERROR")
  /\ UNCHANGED <<clientState, stateMutex, tls, status>>

-----------------------------------------------------------------------------
(* publish, subscribe, unsubscribe and resubscribe: send a packet, then    *)
(* read until the acknowledgement comes or the command timer expires.      *)
(* left counts the packets still to be sent: one, or for resubscribe the   *)
(* number of handlers it finds.                                            *)

\* Mutant: resubscribe sends one packet too many.
SendOneMore(t) ==
  /\ At(t, Acked, "send")
  /\ SetTop(t, [Top(t) EXCEPT !.pc = "wait", !.left = @ - 1])
  /\ UNCHANGED <<clientState, stateMutex, tls, status>>

\* Mutant: a packet that cannot be sent makes the call return without giving the state back.
SendErrorReturns(t) ==
  /\ At(t, Acked, "send")
  /\ IF Top(t).left = 0 THEN GotoRc(t, "end", "SUCCESS") ELSE GotoRc(t, "return", "ERROR")
  /\ UNCHANGED <<clientState, stateMutex, tls, status>>

Send(t) ==
  LET f == Top(t) IN
  /\ At(t, Acked, "send")
  /\ \/ f.left = 0 /\ GotoRc(t, "end", "SUCCESS")
     \/ f.left > 0 /\ GotoRc(t, "end", "ERROR")
     \/ f.fn = "publish" /\ tls = "open" /\ GotoRc(t, "end", "SUCCESS")      \* QoS 0
     \/ f.left > 0 /\ tls = "open" /\ SetTop(t, [f EXCEPT !.pc = "wait", !.left = @ - 1])
  /\ UNCHANGED <<clientState, stateMutex, tls, status>>

ReceiveAck(t) ==
  LET f == Top(t) IN
  /\ At(t, Acked, "wait")
  /\ tls = "open"
  /\ \/ Goto(t, IF f.fn = "resubscribe" THEN "send" ELSE "end")
     \/ GotoRc(t, "end", "ERROR")                    \* the packet does not decode
  /\ UNCHANGED <<clientState, stateMutex, tls, status>>

\* Mutant: the loop asks for a lost connection only, not for its timer.
WaitOnlyLost(t) ==
  /\ At(t, Acked, "wait")
  /\ tls = "closed"
  /\ GotoRc(t, "end", "ERROR")
  /\ UNCHANGED <<clientState, stateMutex, tls, status>>

WaitTimeout(t) ==
  /\ At(t, Acked, "wait")
  /\ GotoRc(t, "end", "ERROR")
  /\ UNCHANGED <<clientState, stateMutex, tls, status>>

\* aws_iot_mqtt_internal_cycle_read finds a PUBLISH packet in one of the read loops.
ReceivePublish(t) ==
  /\ Inbound
  /\ tls = "open"
  /\ At(t, Acked, "wait") \/ At(t, {"yield"}, "read")
  /\ Push(t, Top(t).pc, "handle_publish")
  /\ UNCHANGED <<clientState, stateMutex, tls, status>>

ReceivePingresp(t) ==
  /\ tls = "open"
  /\ \/ At(t, Acked, "wait") /\ Goto(t, "wait")
     \/ At(t, {"yield"}, "read") /\ GotoRc(t, "keepalive", "SUCCESS")
  /\ isPingOutstanding' = FALSE
  /\ UNCHANGED <<clientState, stateMutex, tls, isAutoReconnectEnabled, currentReconnectWaitInterval>>

\* The message callbacks of the application are done.
CallbackDone(t) ==
  /\ At(t, {"handle_publish"}, "callback")
  /\ Goto(t, "end")
  /\ UNCHANGED <<clientState, stateMutex, tls, status>>

\* Nothing to send for QoS 0; the PUBACK of QoS 1 may fail.
SendPuback(t) ==
  /\ At(t, {"handle_publish"}, "puback")
  /\ \E rc \in {"SUCCESS", "ERROR"} : GotoRc(t, "return", rc)
  /\ UNCHANGED <<clientState, stateMutex, tls, status>>

-----------------------------------------------------------------------------
(* connect, disconnect and attempt_reconnect.                              *)

ConnectTls(t) ==
  /\ At(t, {"connect"}, "tls")
  /\ \/ tls' = "open" /\ Goto(t, "connack")
     \/ tls' = tls /\ GotoRc(t, "cleanup", "ERROR")
  /\ UNCHANGED <<clientState, stateMutex, status>>

\* Send CONNECT and wait for the CONNACK that accepts it; a broker sends nothing before it.
ConnectMqtt(t) ==
  /\ At(t, {"connect"}, "connack")
  /\ \/ tls = "open" /\ isPingOutstanding' = FALSE /\ Goto(t, "done")
     \/ isPingOutstanding' = isPingOutstanding /\ GotoRc(t, "cleanup", "ERROR")
  /\ UNCHANGED <<clientState, stateMutex, tls, isAutoReconnectEnabled, currentReconnectWaitInterval>>

\* Mutant: a failed connect does not free the TLS context.
ConnectNoCleanup(t) ==
  /\ At(t, {"connect"}, "cleanup")
  /\ Goto(t, "fail")
  /\ UNCHANGED <<clientState, stateMutex, tls, status>>

ConnectCleanup(t) ==
  /\ At(t, {"connect"}, "cleanup")
  /\ tls' = "closed"
  /\ Goto(t, "fail")
  /\ UNCHANGED <<clientState, stateMutex, status>>

DisconnectEnter(t) ==
  /\ At(t, {"disconnect"}, "enter")
  /\ SetTop(t, [Top(t) EXCEPT !.pc = "check", !.saved = clientState])
  /\ UNCHANGED <<clientState, stateMutex, tls, status>>

DisconnectCheck(t) ==
  /\ At(t, {"disconnect"}, "check")
  /\ IF Connected(clientState) THEN Goto(t, "begin") ELSE GotoRc(t, "return", "DISCONNECTED")
  /\ UNCHANGED <<clientState, stateMutex, tls, status>>

\* Mutant: disconnect does not report that its packet could not be sent.
DisconnectSendSilent(t) ==
  /\ At(t, {"disconnect"}, "send")
  /\ \/ tls = "open" /\ Goto(t, "close")
     \/ Goto(t, "restore")
  /\ UNCHANGED <<clientState, stateMutex, tls, status>>

DisconnectSend(t) ==
  /\ At(t, {"disconnect"}, "send")
  /\ \/ tls = "open" /\ Goto(t, "close")
     \/ GotoRc(t, "restore", "ERROR")
  /\ UNCHANGED <<clientState, stateMutex, tls, status>>

DisconnectClose(t) ==
  /\ At(t, {"disconnect"}, "close")
  /\ tls' = "closed"
  /\ Goto(t, "manual")
  /\ UNCHANGED <<clientState, stateMutex, status>>

\* The two assignments at the end of aws_iot_mqtt_disconnect do not take the mutex.
DisconnectAssign(t) ==
  /\ \/ At(t, {"disconnect"}, "manual") /\ clientState' = "DISCONNECTED_MANUALLY"
     \/ At(t, {"disconnect"}, "restore") /\ clientState' = Top(t).saved
  /\ Goto(t, "return")
  /\ UNCHANGED <<stateMutex, tls, status>>

ReconnectEnter(t) ==
  /\ At(t, {"attempt_reconnect"}, "enter")
  /\ IF Connected(clientState) THEN GotoRc(t, "return", "ALREADY_CONNECTED") ELSE Push(t, "connect", "connect")
  /\ UNCHANGED <<clientState, stateMutex, tls, status>>

ReconnectCheck(t) ==
  /\ At(t, {"attempt_reconnect"}, "check")
  /\ IF clientState # "CONNECTED_IDLE" THEN Goto(t, "pend") ELSE Push(t, "resubscribe", "resubscribe")
  /\ UNCHANGED <<clientState, stateMutex, tls, status>>

-----------------------------------------------------------------------------
(* yield.                                                                  *)

\* The yield timer has expired.
YieldLeave(t) ==
  /\ At(t, {"yield"}, "loop")
  /\ Goto(t, IF Top(t).rc \in {"DISCONNECTED", "ATTEMPTING"} THEN "return" ELSE "end")
  /\ UNCHANGED <<clientState, stateMutex, tls, status>>

YieldIterate(t) ==
  /\ At(t, {"yield"}, "loop")
  /\ IF clientState # "PENDING_RECONNECT" THEN Goto(t, "read")
     ELSE IF MaxInterval < currentReconnectWaitInterval THEN GotoRc(t, "end", "ERROR")
     ELSE Goto(t, "delay")
  /\ UNCHANGED <<clientState, stateMutex, tls, status>>

\* _aws_iot_mqtt_handle_reconnect: the delay timer, the physical layer, one attempt.
HandleReconnect(t) ==
  /\ At(t, {"yield"}, "delay")
  /\ \/ GotoRc(t, "loop", "ATTEMPTING")
     \/ GotoRc(t, "backoff", "ERROR")
     \/ Push(t, "reconnect", "attempt_reconnect")
  /\ UNCHANGED <<clientState, stateMutex, tls, status>>

Backoff(t) ==
  /\ At(t, {"yield"}, "backoff")
  /\ currentReconnectWaitInterval' = 2 * currentReconnectWaitInterval
  /\ GotoRc(t, "loop", IF MaxInterval < 2 * currentReconnectWaitInterval THEN "ERROR" ELSE Top(t).rc)
  /\ UNCHANGED <<clientState, stateMutex, tls, isPingOutstanding, isAutoReconnectEnabled>>

\* Nothing to read, or an acknowledgement nobody waits for; or the read fails.
YieldRead(t) ==
  /\ At(t, {"yield"}, "read")
  /\ GotoRc(t, "keepalive", "SUCCESS") \/ GotoRc(t, "end", "ERROR")
  /\ UNCHANGED <<clientState, stateMutex, tls, status>>

\* The ping timer is running or keep-alive is off; or it has expired and a ping goes out.
KeepAlive(t) ==
  /\ At(t, {"yield"}, "keepalive")
  /\ \/ isPingOutstanding' = isPingOutstanding
     \/ ~isPingOutstanding /\ tls = "open" /\ isPingOutstanding' = TRUE
  /\ GotoRc(t, "loop", "SUCCESS")
  /\ UNCHANGED <<clientState, stateMutex, tls, isAutoReconnectEnabled, currentReconnectWaitInterval>>

\* It has expired and the last ping is unanswered, or the new one cannot be sent.
KeepAliveLost(t) ==
  /\ At(t, {"yield"}, "keepalive")
  /\ Push(t, "disconnect", "disconnect")
  /\ UNCHANGED <<clientState, stateMutex, tls, status>>

\* _aws_iot_mqtt_force_client_disconnect
ForceState(t) ==
  /\ At(t, {"yield"}, "force")
  /\ clientState' = "DISCONNECTED_ERROR"
  /\ Goto(t, "destroy")
  /\ UNCHANGED <<stateMutex, tls, status>>

ForceDestroy(t) ==
  /\ At(t, {"yield"}, "destroy")
  /\ tls' = "closed"
  /\ Goto(t, "handler")
  /\ UNCHANGED <<clientState, stateMutex, status>>

\* The disconnect handler, if there is one, is done.
HandlerDone(t) ==
  /\ At(t, {"yield"}, "handler")
  /\ clientState' = "DISCONNECTED_ERROR"
  /\ GotoRc(t, IF isAutoReconnectEnabled THEN "pend" ELSE "return", "DISCONNECTED")
  /\ UNCHANGED <<stateMutex, tls, status>>

\* The back-off starts again.
ArmReconnect(t) ==
  /\ At(t, {"yield"}, "arm")
  /\ currentReconnectWaitInterval' = MinInterval
  /\ Goto(t, "loop")
  /\ UNCHANGED <<clientState, stateMutex, tls, isPingOutstanding, isAutoReconnectEnabled>>

-----------------------------------------------------------------------------

\* After a successful aws_iot_mqtt_init, which leaves currentReconnectWaitInterval alone.
Init ==
  /\ clientState = "INITIALIZED"
  /\ stateMutex = NoThread
  /\ tls = "closed"
  /\ isPingOutstanding = FALSE
  /\ isAutoReconnectEnabled \in BOOLEAN
  /\ currentReconnectWaitInterval \in StaleIntervals
  /\ depth = [t \in Threads |-> 0]
  /\ frame = [t \in Threads |-> [d \in 1..MaxDepth |-> NoFrame]]

\* The steps of the SDK on thread t, as opposed to the decisions of the application.
Step(t) ==
  \/ LockAndCompare(t) \/ SwapAndUnlock(t) \/ TryLockFails(t)
  \/ Enter(t) \/ Return(t)
  \/ Send(t) \/ ReceiveAck(t) \/ WaitTimeout(t) \/ ReceivePublish(t) \/ ReceivePingresp(t)
  \/ SendPuback(t)
  \/ ConnectTls(t) \/ ConnectMqtt(t) \/ ConnectCleanup(t)
  \/ DisconnectEnter(t) \/ DisconnectCheck(t) \/ DisconnectSend(t) \/ DisconnectClose(t)
  \/ DisconnectAssign(t)
  \/ ReconnectEnter(t) \/ ReconnectCheck(t)
  \/ YieldLeave(t) \/ YieldIterate(t) \/ HandleReconnect(t) \/ Backoff(t) \/ YieldRead(t)
  \/ KeepAlive(t) \/ KeepAliveLost(t) \/ ForceState(t) \/ ForceDestroy(t) \/ ArmReconnect(t)

App(t) ==
  \/ \E fn \in Calls : Call(t, fn) \/ NestedCall(t, fn)
  \/ SetAutoReconnect(t)
  \/ CallbackDone(t) \/ HandlerDone(t)

Next == \E t \in Threads : Step(t) \/ App(t)

Spec == Init /\ [][Next]_vars

\* Weak fairness: the threads are scheduled.  Strong fairness: the timer of each activation
\* of a loop expires, whatever else the loop meets, and each activation of a message
\* callback or of the disconnect handler makes finitely many calls.
Leave(t) == WaitTimeout(t) \/ YieldLeave(t) \/ CallbackDone(t)

FairSpec ==
  /\ Spec
  /\ \A t \in Threads :
       /\ WF_vars(Step(t) \/ CallbackDone(t) \/ HandlerDone(t))
       /\ \A d \in 1..MaxDepth : /\ SF_vars(depth[t] = d /\ Leave(t))
                                 /\ SF_vars(depth[t] = d /\ HandlerDone(t))

-----------------------------------------------------------------------------
(* Properties.                                                             *)

\* Every variable has its type; the mutex is held only inside set_client_state.
TypeOK ==
  /\ clientState \in ClientStates
  /\ stateMutex \in Threads \union {NoThread}
  /\ tls \in {"open", "closed"}
  /\ isPingOutstanding \in BOOLEAN
  /\ isAutoReconnectEnabled \in BOOLEAN
  /\ currentReconnectWaitInterval \in Nat
  /\ depth \in [Threads -> 0..MaxDepth]
  /\ frame \in [Threads -> [1..MaxDepth -> Frames]]

\* The states that announce that a call is in progress.
InProgress == (ConnectedStates \ {"CONNECTED_IDLE"}) \union {"CONNECTING", "DISCONNECTING"}

\* A frame answers for the in-progress state of its function from the swap that set it
\* until the swap (or the assignment) that ends it.  yield does not answer for
\* YIELD_IN_PROGRESS while it handles a lost connection or a pending reconnect.
Answers(f) ==
  /\ f.pc \notin {"none", "enter", "begin", "undo", "check", "puback", "return",
                  "destroy", "handler", "pend", "arm", "delay", "reconnect", "backoff", "resume"}
  /\ ~(f.pc = "loop" /\ f.rc \in {"DISCONNECTED", "ATTEMPTING"})

\* An in-progress state is always some live call's: no call returns and leaves the client in
\* a state that only it could have ended (nothing would ever leave such a state, and yield
\* would refuse to run in it).
NoGhost ==
  clientState \in InProgress =>
    \E t \in Threads : \E d \in 1..depth[t] :
      Answers(frame[t][d]) /\ Own[frame[t][d].fn] = clientState

\* An in-progress state that a call has saved and may write back is another, outer call's on
\* the same stack, which cannot end before this one.
SavedAnswered ==
  \A t \in Threads : \A d \in 1..depth[t] :
    frame[t][d].saved \in InProgress =>
      \E e \in 1..(d - 1) :
        Answers(frame[t][e]) /\ Own[frame[t][e].fn] = frame[t][d].saved

\* The holder of the mutex is inside set_client_state, and what it saw there still holds.
MutexOK ==
  \A t \in Threads : stateMutex = t =>
    /\ depth[t] > 0
    /\ Top(t).pc \in CasPcs
    /\ Top(t).match <=> clientState = Expected(Top(t))

\* Where a frame stands says what it may have computed.
FramesOK ==
  \A t \in Threads : \A d \in 1..depth[t] :
    LET f == frame[t][d] IN
    /\ f.pc \in {"enter", "begin"} => f.rc = "SUCCESS"
    /\ f.fn = "disconnect" => /\ f.pc \in CasPcs => f.pc = "begin"
                              /\ f.pc = "check" => f.rc = "SUCCESS"
                              /\ f.pc = "restore" => f.rc # "SUCCESS"

\* A disconnect that is about to return success has just closed the connection.
DisconnectOK ==
  \A t \in Threads :
    At(t, {"disconnect"}, "return") /\ Top(t).rc = "SUCCESS" => clientState = "DISCONNECTED_MANUALLY"

\* disconnect calls nobody, and keep-alive waits for nobody but disconnect.
CallersOK ==
  \A t \in Threads : \A d \in 1..depth[t] : d < depth[t] =>
    /\ frame[t][d].fn # "disconnect"
    /\ frame[t][d].fn = "yield" /\ frame[t][d].pc = "disconnect" => frame[t][d + 1].fn = "disconnect"

\* The inductive invariant behind NoGhost for an application with one thread.
SingleThreadInv ==
  TypeOK /\ NoGhost /\ SavedAnswered /\ MutexOK /\ FramesOK /\ DisconnectOK /\ CallersOK

\* A client that reports a connection has a TLS context, and one that reports none has freed
\* it (aws_iot_mqtt_is_client_connected; connect builds a new context without freeing an old
\* one).  The one exception is force_client_disconnect between its assignment and its clean-up.
ConnectionAgrees ==
  /\ Connected(clientState) => tls = "open"
  /\ clientState \in DisconnectedStates \union {"INITIALIZED", "INVALID"} =>
       \/ tls = "closed"
       \/ \E t \in Threads : At(t, {"yield"}, "destroy")

\* yield does not run inside a message callback (deliver_message: "while callback return is in
\* progress, Yield should not be called. The state for CB_RETURN accomplishes that").
YieldNotInCallback ==
  \A t \in Threads : \A d, e \in 1..depth[t] :
    (d < e /\ frame[t][d].fn = "handle_publish" /\ frame[t][e].fn = "yield") =>
      frame[t][e].pc \in {"enter", "return"}

\* A request is in progress in frame f.
Requesting(f) == f.fn \in Acked /\ Answers(f)

\* Two threads are never both between the swap that starts a request and the one that ends it.
RequestExclusion ==
  \A t, u \in Threads : \A d \in 1..depth[t], e \in 1..depth[u] :
    Requesting(frame[t][d]) /\ Requesting(frame[u][e]) => t = u

\* The inductive invariant behind RequestExclusion for threads that only connect, publish,
\* subscribe and resubscribe: the state names the request in progress, and what the holder of
\* the mutex saw still holds.
RequestFrame(f) ==
  /\ \/ f.fn = "connect" /\ f.pc \in {"enter", "begin", "tls", "connack", "cleanup", "done", "fail", "return"}
     \/ f.fn \in Acked \ {"unsubscribe"} /\ f.pc \in {"enter", "begin", "send", "wait", "end", "return"}
  /\ f.pc = "begin" => f.saved \in Admits[f.fn]

ExclusionInv ==
  /\ TypeOK
  /\ RequestExclusion
  /\ \A t \in Threads :
       /\ depth[t] \in {0, 1}
       /\ depth[t] = 1 => RequestFrame(frame[t][1])
       /\ depth[t] = 1 /\ Requesting(frame[t][1]) => clientState = Own[frame[t][1].fn]
       /\ stateMutex = t => /\ depth[t] = 1
                            /\ frame[t][1].pc \in CasPcs
                            /\ frame[t][1].match => clientState = Expected(frame[t][1])

\* Every API call returns: no read loop, reconnect loop or lock request traps its thread.
CallsReturn ==
  \A t \in Threads : depth[t] > 0 ~> depth[t] = 0
=============================================================================
