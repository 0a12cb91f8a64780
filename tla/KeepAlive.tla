------------------------------ MODULE KeepAlive ------------------------------
(***************************************************************************)
(* The timers of yield, in discrete time: the ping that watches over the   *)
(* connection and the exponential back-off of automatic reconnects.  The   *)
(* application calls yield again and again; of its loop there is the read  *)
(* of one packet, then keep_alive, or, while a reconnect is pending,       *)
(* handle_reconnect.  Which calls the client state admits is the subject   *)
(* of MqttClient; message callbacks and the disconnect handler make none   *)
(* here.  The time that anything else takes is bounded by MaxGap: no more  *)
(* passes between two iterations of the loop.  An iteration reaches        *)
(* keep_alive only when its read succeeds; a read that fails ends the call *)
(* of yield, and the next iteration belongs to the next call.              *)
(***************************************************************************)
EXTENDS Naturals, Sequences

CONSTANTS
  KeepAlives,      \* keepAliveIntervalInSec, as the application may choose it
  MaxGap,          \* what passes at most between two iterations
  MaxDelay,        \* what the broker takes at most to answer
  MaxQueue,        \* packets received and not read, an answer included
  MaxFailures,     \* packets in a row that cannot be read or handled, before keep_alive is reached
  MinInterval,     \* AWS_IOT_MQTT_MIN_RECONNECT_WAIT_INTERVAL
  MaxInterval,     \* AWS_IOT_MQTT_MAX_RECONNECT_WAIT_INTERVAL
  StaleIntervals,  \* currentReconnectWaitInterval before its first assignment
  MaxTime          \* bound: where the history clocks stop

ASSUME KeepAliveAssumption ==
  /\ KeepAlives \subseteq Nat
  /\ MaxGap \in Nat \ {0} /\ MaxDelay \in Nat /\ MaxQueue \in Nat \ {0}
  /\ MaxFailures \in Nat
  /\ MinInterval \in Nat \ {0} /\ MaxInterval \in Nat
  /\ StaleIntervals \subseteq Nat
  /\ MaxTime \in Nat /\ MaxDelay <= MaxTime /\ MaxInterval <= MaxTime

VARIABLES
  keepAliveInterval,
  isAutoReconnectEnabled,
  clientState,
  pc,                 \* "loop", or "keep_alive": between the read and the check of the ping
  isPingOutstanding,
  pingTimer, reconnectDelayTimer,   \* the time that is left
  currentReconnectWaitInterval,
  net,                \* can the broker be reached?
  alive,              \* does the connection carry packets?  A dead one takes them silently
  ended,              \* has the peer closed the connection?  Behind inbound there is the end of file
  pingreq,            \* the age of the PINGREQ that the broker has not answered, or NoPing
  inbound,            \* packets received and not read
  gap,                \* the time since the last iteration
  failed,             \* packets read without success since the last keep_alive
  silent,             \* history: how long the connection has been dead
  since,              \* history: the time since the broker last heard of the client
  armed,              \* history: the back-off was started by yield
  spacing, waited     \* history: the minimum, doubled for every failed attempt of this back-off;
                      \* the time since the last attempt

net_vars  == <<net, alive, ended, pingreq, inbound>>
ping      == <<isPingOutstanding, pingTimer>>
backoff   == <<reconnectDelayTimer, currentReconnectWaitInterval, armed, spacing, waited>>
clocks    == <<gap, failed, silent, since>>
params    == <<keepAliveInterval, isAutoReconnectEnabled>>
vars      == <<params, clientState, pc, ping, backoff, net_vars, clocks>>

NoPing == MaxDelay + 1

Connected == clientState = "CONNECTED"

-----------------------------------------------------------------------------
(* Time, the network and the broker (external).                            *)

Elapsed(clock)   == IF clock < MaxTime THEN clock + 1 ELSE clock
Remaining(timer) == IF timer > 0 THEN timer - 1 ELSE 0

\* Nothing may take longer than its bound.
Tick ==
  /\ Connected => gap < MaxGap
  /\ alive /\ pingreq # NoPing => pingreq < MaxDelay
  /\ pingTimer' = Remaining(pingTimer)
  /\ reconnectDelayTimer' = Remaining(reconnectDelayTimer)
  /\ pingreq' = IF pingreq # NoPing THEN pingreq + 1 ELSE NoPing
  /\ gap' = IF Connected THEN gap + 1 ELSE 0
  /\ silent' = IF Connected /\ ~alive THEN Elapsed(silent) ELSE 0
  /\ since' = IF alive THEN Elapsed(since) ELSE 0
  /\ waited' = IF armed THEN Elapsed(waited) ELSE 0
  /\ UNCHANGED <<params, clientState, pc, isPingOutstanding, currentReconnectWaitInterval, net, alive,
                 ended, inbound, failed, armed, spacing>>

\* The connection dies, alone or with the network, and nobody is told.
ConnectionDies ==
  /\ net
  /\ net' \in BOOLEAN
  /\ alive' = FALSE
  /\ pingreq' = NoPing
  /\ since' = 0
  /\ UNCHANGED <<params, clientState, pc, ping, backoff, ended, inbound, gap, failed, silent>>

\* The peer closes the connection; what it has sent before can still be read.
ConnectionEnds ==
  /\ Connected /\ net /\ ~ended
  /\ alive' = FALSE /\ ended' = TRUE
  /\ pingreq' = NoPing
  /\ since' = 0
  /\ UNCHANGED <<params, clientState, pc, ping, backoff, net, inbound, gap, failed, silent>>

NetworkReturns ==
  /\ ~net
  /\ net' = TRUE
  /\ UNCHANGED <<params, clientState, pc, ping, backoff, alive, ended, pingreq, inbound, clocks>>

BrokerAnswers ==
  /\ alive /\ pingreq # NoPing
  /\ inbound' = Append(inbound, "PINGRESP")
  /\ pingreq' = NoPing
  /\ since' = 0
  /\ UNCHANGED <<params, clientState, pc, ping, backoff, net, alive, ended, gap, failed, silent>>

\* There is always a place left for the answer to a ping.
BrokerPublishes ==
  /\ alive /\ Len(inbound) < MaxQueue - 1
  /\ inbound' = Append(inbound, "PUBLISH")
  /\ UNCHANGED <<params, clientState, pc, ping, backoff, net, alive, ended, pingreq, clocks>>

-----------------------------------------------------------------------------
(* connect and attempt_reconnect.                                          *)

\* Mutant: one less.
PingTimeoutShort == keepAliveInterval \div 2 - 1

\* Half of the interval, in integers.
PingTimeout == keepAliveInterval \div 2

\* A connection is made; the broker has heard of the client since it got the CONNECT.
ConnectSucceeds ==
  /\ net
  /\ clientState' = "CONNECTED"
  /\ isPingOutstanding' = FALSE
  /\ pingTimer' = PingTimeout
  /\ alive' = TRUE /\ ended' = FALSE
  /\ since' \in 0..MaxDelay
  /\ gap' = 0 /\ failed' = 0 /\ silent' = 0
  /\ UNCHANGED <<params, pc, net, pingreq, inbound>>

\* The application calls connect, or attempt_reconnect, which differ in the state they leave
\* when they fail.
Connect ==
  /\ pc = "loop" /\ ~Connected
  /\ ConnectSucceeds
  /\ armed' = FALSE /\ spacing' = 0 /\ waited' = 0
  /\ UNCHANGED <<reconnectDelayTimer, currentReconnectWaitInterval>>

ConnectFails(state) ==
  /\ pc = "loop" /\ ~Connected
  /\ clientState' = state
  /\ armed' = (armed /\ clientState = state)
  /\ spacing' = (IF armed' THEN spacing ELSE 0)
  /\ waited' = (IF armed' THEN waited ELSE 0)
  /\ UNCHANGED <<params, pc, ping, reconnectDelayTimer, currentReconnectWaitInterval, net_vars, clocks>>

-----------------------------------------------------------------------------
(* The loop of yield: cycle_read, then keep_alive.                         *)

\* Mutant: whatever is read restarts the ping timer.
ReceivedAny(packet) ==
  /\ isPingOutstanding' = (isPingOutstanding /\ packet # "PINGRESP")
  /\ pingTimer' = keepAliveInterval

\* Mutant: the ping stays outstanding.
ReceivedKept(packet) ==
  /\ pingTimer' = IF packet = "PINGRESP" THEN keepAliveInterval ELSE pingTimer
  /\ UNCHANGED isPingOutstanding

Received(packet) ==
  IF packet = "PINGRESP"
  THEN isPingOutstanding' = FALSE /\ pingTimer' = keepAliveInterval
  ELSE UNCHANGED ping

\* To have nothing to read, or a connection that was reset, is not an error.  At the end of file
\* the read asks until less than a millisecond is left, and if that is not over it has read no
\* bytes with success: the header byte is what the buffer holds, the length a local without a
\* value.  With length 0 that is a packet, of a type that is left open here.
ReadSucceeds ==
  /\ pc' = "keep_alive"
  /\ \/ inbound = <<>> /\ ~ended /\ UNCHANGED <<inbound, ping>>
     \/ /\ inbound = <<>> /\ ended /\ UNCHANGED inbound
        /\ \E packet \in {"CONNACK", "PINGRESP"} : Received(packet)
     \/ inbound # <<>> /\ inbound' = Tail(inbound) /\ Received(Head(inbound))
  /\ UNCHANGED <<gap, failed>>

\* Otherwise its timer has ended at the end of file, and that is an error; so is a packet too
\* long for the buffer or refused by its handler.  yield returns without a keep_alive.
ReadFails ==
  /\ gap' = 0
  /\ \/ inbound = <<>> /\ ended /\ UNCHANGED <<inbound, failed>>
     \/ /\ inbound # <<>> /\ Head(inbound) = "PUBLISH" /\ failed < MaxFailures
        /\ inbound' = Tail(inbound) /\ failed' = failed + 1
  /\ UNCHANGED <<pc, ping>>

CycleRead ==
  /\ pc = "loop" /\ Connected
  /\ ReadSucceeds \/ ReadFails
  /\ UNCHANGED <<params, clientState, backoff, net, alive, ended, pingreq, silent, since>>

\* handle_disconnect, and what yield does after it.
Lost ==
  /\ IF isAutoReconnectEnabled
     THEN /\ clientState' = "PENDING_RECONNECT"
          /\ currentReconnectWaitInterval' = MinInterval
          /\ reconnectDelayTimer' = MinInterval
          /\ armed' = TRUE /\ spacing' = MinInterval
     ELSE /\ clientState' = "DISCONNECTED_ERROR"
          /\ UNCHANGED <<currentReconnectWaitInterval, reconnectDelayTimer, armed, spacing>>
  /\ alive' = FALSE /\ ended' = FALSE /\ pingreq' = NoPing /\ inbound' = <<>>
  /\ since' = 0 /\ silent' = 0
  /\ UNCHANGED <<ping, net, waited>>

SendPing ==
  /\ isPingOutstanding' = TRUE
  /\ pingTimer' = PingTimeout
  /\ pingreq' = IF alive THEN 0 ELSE NoPing
  /\ UNCHANGED <<clientState, backoff, net, alive, ended, inbound, silent, since>>

\* Mutant: a ping that was not answered is repeated.
CheckPingRepeats == SendPing

\* The ping timer has expired.  A dead connection may refuse the packet.
CheckPing ==
  IF isPingOutstanding THEN Lost ELSE SendPing \/ (~alive /\ Lost)

KeepAlive ==
  /\ pc = "keep_alive"
  /\ pc' = "loop"
  /\ gap' = 0 /\ failed' = 0
  /\ IF keepAliveInterval = 0 \/ pingTimer > 0
     THEN UNCHANGED <<clientState, ping, backoff, net_vars, silent, since>>
     ELSE CheckPing
  /\ UNCHANGED params

-----------------------------------------------------------------------------
(* The loop of yield: handle_reconnect.                                    *)

Beyond(interval) == MaxInterval < interval

\* Mutant: the timer is set before the interval is doubled.
BackoffBefore ==
  LET interval == 2 * currentReconnectWaitInterval
  IN /\ currentReconnectWaitInterval' = interval
     /\ IF Beyond(interval) THEN UNCHANGED reconnectDelayTimer
        ELSE reconnectDelayTimer' = currentReconnectWaitInterval

Backoff ==
  LET interval == 2 * currentReconnectWaitInterval
  IN /\ currentReconnectWaitInterval' = interval
     /\ IF Beyond(interval) THEN UNCHANGED reconnectDelayTimer
        ELSE reconnectDelayTimer' = interval

MayAttempt ==
  /\ pc = "loop" /\ clientState = "PENDING_RECONNECT"
  /\ ~Beyond(currentReconnectWaitInterval)
  /\ reconnectDelayTimer = 0

Reconnected ==
  /\ MayAttempt
  /\ ConnectSucceeds
  /\ armed' = FALSE /\ spacing' = 0 /\ waited' = 0
  /\ UNCHANGED <<reconnectDelayTimer, currentReconnectWaitInterval>>

\* Connected, but resubscribe fails: yield backs off and then reads.
ResubscribeFails ==
  /\ MayAttempt
  /\ ConnectSucceeds
  /\ armed' = FALSE /\ spacing' = 0 /\ waited' = 0
  /\ Backoff

\* Mutant: nothing is counted while the network is away.
AttemptFailsOnline ==
  /\ MayAttempt /\ net
  /\ Backoff
  /\ spacing' = IF armed THEN 2 * spacing ELSE 0
  /\ waited' = 0
  /\ UNCHANGED <<params, clientState, pc, ping, armed, net_vars, clocks>>

\* The physical layer is not connected, or connect fails.
AttemptFails ==
  /\ MayAttempt
  /\ Backoff
  /\ spacing' = IF armed THEN 2 * spacing ELSE 0
  /\ waited' = 0
  /\ UNCHANGED <<params, clientState, pc, ping, armed, net_vars, clocks>>

-----------------------------------------------------------------------------

Init ==
  /\ keepAliveInterval \in KeepAlives
  /\ isAutoReconnectEnabled \in BOOLEAN
  /\ clientState = "INITIALIZED"
  /\ pc = "loop"
  /\ isPingOutstanding = FALSE
  /\ pingTimer = 0 /\ reconnectDelayTimer = 0
  /\ currentReconnectWaitInterval \in StaleIntervals
  /\ net = TRUE /\ alive = FALSE /\ ended = FALSE /\ pingreq = NoPing /\ inbound = <<>>
  /\ gap = 0 /\ failed = 0 /\ silent = 0 /\ since = 0
  /\ armed = FALSE /\ spacing = 0 /\ waited = 0

Yield == CycleRead \/ KeepAlive \/ Reconnected \/ ResubscribeFails \/ AttemptFails

Next ==
  \/ Tick
  \/ ConnectionDies \/ ConnectionEnds \/ NetworkReturns
  \/ BrokerAnswers \/ BrokerPublishes
  \/ Connect
  \/ \E state \in {"DISCONNECTED_ERROR", "PENDING_RECONNECT"} : ConnectFails(state)
  \/ Yield

Spec == Init /\ [][Next]_vars

\* Time goes on, and the application calls yield.
FairSpec == Spec /\ WF_vars(Tick) /\ WF_vars(Yield)

-----------------------------------------------------------------------------
(* Properties.                                                             *)

TypeOK ==
  /\ keepAliveInterval \in KeepAlives
  /\ isAutoReconnectEnabled \in BOOLEAN
  /\ clientState \in {"INITIALIZED", "CONNECTED", "DISCONNECTED_ERROR", "PENDING_RECONNECT"}
  /\ pc \in {"loop", "keep_alive"}
  /\ isPingOutstanding \in BOOLEAN
  /\ pingTimer \in Nat /\ reconnectDelayTimer \in Nat
  /\ currentReconnectWaitInterval \in Nat
  /\ net \in BOOLEAN /\ alive \in BOOLEAN /\ ended \in BOOLEAN
  /\ pingreq \in 0..NoPing
  /\ inbound \in Seq({"PINGRESP", "PUBLISH"})
  /\ gap \in 0..MaxGap /\ failed \in 0..MaxFailures
  /\ silent \in 0..MaxTime /\ since \in 0..MaxTime
  /\ armed \in BOOLEAN /\ spacing \in Nat /\ waited \in 0..MaxTime

\* From a ping to the last iteration before its answer is read: the broker's time, and an
\* iteration for each packet up to the answer.
Latency == MaxDelay + MaxQueue * MaxGap

\* A dead connection is found out: an answer that was under way starts the interval anew, then
\* come the interval, a ping and half the interval, and the time that yield takes to look.
FoundOut == silent <= keepAliveInterval + PingTimeout + (MaxQueue + 2 * MaxFailures + 3) * MaxGap

DeadLinkDetected == keepAliveInterval # 0 /\ ~ended => FoundOut

\* "All other negative return values indicate connection needs to be reset.  Will be caught in
\* ping request": and the end of file, handled just above, with them.  But when all reads fail,
\* yield never gets to a ping request again.
EndedLinkDetected == keepAliveInterval # 0 /\ ended => FoundOut

\* A live connection is not given up when the answer to a ping can be read in half the
\* interval.  The half is rounded down: an interval of 1 leaves no time at all.
NoFalseAlarm ==
  [][Connected /\ ~Connected' => ~alive \/ PingTimeout <= Latency]_vars

\* The broker, which gives a client one and a half intervals, hears of it in one and the time
\* of a ping: the interval runs from the answer to the last ping, and only pings restart it.
\* On a new connection the CONNECT may have taken the broker's time as well.
BrokerSatisfied ==
  keepAliveInterval # 0 => since <= keepAliveInterval + MaxDelay + Latency + (MaxFailures + 2) * MaxGap

\* Automatic attempts are spaced by the minimum, doubled for every attempt that has failed,
\* and none is made after this interval has passed the maximum.
BackoffSpacing ==
  [][armed /\ (Reconnected \/ ResubscribeFails \/ AttemptFails)
       => waited >= spacing /\ spacing <= MaxInterval]_vars

\* A reconnect that yield has started is over some day: connected, given up, or taken over by
\* the application.  The interval that a manual attempt leaves behind promises nothing: 0
\* makes yield try for ever and without delay, and one beyond the maximum not at all.
PendingEnds ==
  armed /\ clientState = "PENDING_RECONNECT"
    ~> clientState # "PENDING_RECONNECT" \/ Beyond(currentReconnectWaitInterval)
=============================================================================
