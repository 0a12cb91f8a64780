--------------------------- MODULE KeepAliveProofs ---------------------------
(***************************************************************************)
(* What the timers of yield guarantee, for every interval, every gap       *)
(* between two iterations, every delay of the broker, every length of the  *)
(* queue of packets and every number of reads that fail.                   *)
(***************************************************************************)
EXTENDS KeepAlive, Integers, TLAPS

\* Where the answers to pings are, among the packets to be read.
Answers == {j \in 1..Len(inbound) : inbound[j] = "PINGRESP"}

\* The connection, the ping and its answer: one of the ping, the answer and neither is under
\* way, and there is always room for the answer.
LinkInv ==
  /\ alive => Connected
  /\ ~Connected => inbound = <<>> /\ pc = "loop" /\ pingreq = NoPing
  /\ alive => silent = 0
  /\ ~Connected => silent = 0
  /\ ~alive => since = 0
  /\ ended => Connected /\ ~alive
  /\ pingTimer <= keepAliveInterval
  /\ pingreq # NoPing => alive /\ isPingOutstanding
  /\ \A j \in Answers : isPingOutstanding /\ pingreq = NoPing
  /\ \A i, j \in Answers : i = j
  /\ alive /\ isPingOutstanding /\ pingreq = NoPing => Answers # {}
  /\ Len(inbound) <= MaxQueue
  /\ Len(inbound) < MaxQueue \/ Answers # {}

\* From the expiry of the ping timer to the keep_alive that sees it: an iteration, and one more
\* for each packet whose read fails.
LookGap == (MaxFailures + 1) * MaxGap

\* The time until a keep_alive finds the ping timer expired, and until the j-th packet is read.
ToLook    == IF pingTimer > 0 THEN pingTimer + LookGap ELSE LookGap - failed * MaxGap - gap
ToRead(j) == MaxGap - gap + (IF pc = "loop" THEN j * MaxGap - MaxGap ELSE j * MaxGap)

\* What is left of the time in which a dead connection must be found out: an answer may still
\* be read, then the interval passes and a ping is sent, then half the interval passes.
DeadLimit == keepAliveInterval + PingTimeout + MaxQueue * MaxGap + MaxGap + 2 * LookGap

DeadInv ==
  keepAliveInterval # 0 /\ Connected /\ ~alive /\ ~ended =>
    /\ isPingOutstanding /\ Answers = {} => silent + ToLook <= DeadLimit
    /\ ~isPingOutstanding => silent + ToLook + PingTimeout + LookGap <= DeadLimit
    /\ \A j \in Answers :
         silent + ToRead(j) + keepAliveInterval + PingTimeout + 2 * LookGap <= DeadLimit

\* What is left of the time in which the broker must hear of the client.
HeardLimit == keepAliveInterval + 2 * MaxDelay + MaxQueue * MaxGap + MaxGap + LookGap

HeardInv ==
  keepAliveInterval # 0 /\ alive =>
    /\ ~isPingOutstanding => since + ToLook + MaxDelay <= HeardLimit
    /\ pingreq # NoPing => since + MaxDelay - pingreq <= HeardLimit
    /\ \A j \in Answers :
         since + ToRead(j) + keepAliveInterval + LookGap + MaxDelay <= HeardLimit

\* While an answer is awaited on a live connection, the ping timer lasts until it can be read.
AlarmInv ==
  alive /\ PingTimeout > Latency =>
    /\ pingreq # NoPing => pingTimer + pingreq >= PingTimeout
    /\ \A j \in Answers : IF pc = "loop" THEN j = 1 \/ pingTimer > j * MaxGap - MaxGap - gap
                          ELSE pingTimer > j * MaxGap - gap

\* The back-off that yield has started: its timer and the time that has passed make up the
\* spacing.
BackoffInv ==
  /\ armed => /\ clientState = "PENDING_RECONNECT"
              /\ currentReconnectWaitInterval = spacing
              /\ spacing <= MaxInterval => waited + reconnectDelayTimer >= spacing
  /\ ~armed => spacing = 0 /\ waited = 0

-----------------------------------------------------------------------------
(* Types.                                                                  *)

\* Half of the interval, in integers, is a time and not more than the interval.
LEMMA PingTimeoutType ==
  ASSUME keepAliveInterval \in Nat
  PROVE  PingTimeout \in Nat /\ PingTimeout <= keepAliveInterval
BY DEF PingTimeout

\* A history clock stays within its bound.
LEMMA ElapsedType ==
  ASSUME NEW clock \in 0..MaxTime
  PROVE  Elapsed(clock) \in 0..MaxTime /\ Elapsed(clock) >= clock /\ Elapsed(clock) <= clock + 1
BY KeepAliveAssumption DEF Elapsed

\* A timer runs down to zero.
LEMMA RemainingType ==
  ASSUME NEW timer \in Nat
  PROVE  Remaining(timer) \in Nat /\ Remaining(timer) <= timer /\ Remaining(timer) + 1 >= timer
BY DEF Remaining

\* The step of cycle_read, by what it does to the queue and to the ping, and by whether keep_alive
\* comes next.
LEMMA ReadCases ==
  ASSUME CycleRead
  PROVE  /\ pc = "loop" /\ Connected
         /\ UNCHANGED <<keepAliveInterval, isAutoReconnectEnabled, clientState, alive, ended,
                        pingreq, silent, since>>
         /\ \/ inbound = <<>> /\ UNCHANGED <<inbound, isPingOutstanding, pingTimer>>
            \/ /\ inbound = <<>> /\ ended /\ UNCHANGED inbound
               /\ isPingOutstanding' = FALSE /\ pingTimer' = keepAliveInterval
            \/ /\ inbound # <<>> /\ inbound' = Tail(inbound)
               /\ Head(inbound) = "PINGRESP" => isPingOutstanding' = FALSE /\ pingTimer' = keepAliveInterval
               /\ Head(inbound) # "PINGRESP" => UNCHANGED <<isPingOutstanding, pingTimer>>
         /\ \/ pc' = "keep_alive" /\ UNCHANGED <<gap, failed>>
            \/ /\ pc' = "loop" /\ gap' = 0
               /\ \/ ended /\ inbound = <<>> /\ failed' = failed
                  \/ /\ inbound # <<>> /\ Head(inbound) # "PINGRESP"
                     /\ failed < MaxFailures /\ failed' = failed + 1
<1>1. /\ pc = "loop" /\ Connected
      /\ UNCHANGED <<keepAliveInterval, isAutoReconnectEnabled, clientState, alive, ended,
                     pingreq, silent, since>>
  BY DEF CycleRead, params
<1>2. CASE ReadSucceeds
  BY <1>1, <1>2 DEF ReadSucceeds, Received, ping
<1>3. CASE ReadFails
  BY <1>1, <1>3 DEF ReadFails, ping
<1> QED BY <1>2, <1>3 DEF CycleRead

\* What the values of the variables are.
THEOREM TypeCorrect == Spec => []TypeOK
<1>1. Init => TypeOK
  <2> SUFFICES ASSUME Init PROVE TypeOK
    OBVIOUS
  <2>1. keepAliveInterval \in KeepAlives /\ currentReconnectWaitInterval \in Nat /\ pingreq \in 0..NoPing
    BY KeepAliveAssumption DEF Init, NoPing
  <2>2. /\ gap \in 0..MaxGap /\ failed \in 0..MaxFailures
        /\ silent \in 0..MaxTime /\ since \in 0..MaxTime /\ waited \in 0..MaxTime
    BY KeepAliveAssumption DEF Init
  <2>3. inbound \in Seq({"PINGRESP", "PUBLISH"})
    BY DEF Init
  <2> QED BY <2>1, <2>2, <2>3 DEF Init, TypeOK
<1>2. TypeOK /\ [Next]_vars => TypeOK'
  <2> SUFFICES ASSUME TypeOK, [Next]_vars PROVE TypeOK'
    OBVIOUS
  <2> USE KeepAliveAssumption DEF NoPing
  <2>0. keepAliveInterval \in Nat /\ PingTimeout \in Nat
    BY PingTimeoutType DEF TypeOK
  <2>1. CASE Tick
    <3>1. Remaining(pingTimer) \in Nat /\ Remaining(reconnectDelayTimer) \in Nat
      BY RemainingType DEF TypeOK
    <3>2. /\ Elapsed(silent) \in 0..MaxTime /\ Elapsed(since) \in 0..MaxTime
          /\ Elapsed(waited) \in 0..MaxTime
      BY ElapsedType DEF TypeOK
    <3>3. pingreq' \in 0..NoPing /\ gap' \in 0..MaxGap
      BY <2>1 DEF Tick, TypeOK, Connected
    <3>4. silent' \in 0..MaxTime /\ since' \in 0..MaxTime /\ waited' \in 0..MaxTime
      BY <2>1, <3>2 DEF Tick
    <3> QED BY <2>1, <3>1, <3>3, <3>4 DEF Tick, TypeOK, params
  <2>2. CASE ConnectionDies
    <3>1. pingreq' \in 0..NoPing /\ since' \in 0..MaxTime
      BY <2>2 DEF ConnectionDies
    <3>2. alive' \in BOOLEAN /\ net' \in BOOLEAN
      BY <2>2 DEF ConnectionDies
    <3> QED BY <2>2, <3>1, <3>2 DEF ConnectionDies, TypeOK, params, ping, backoff
  <2>16. CASE ConnectionEnds
    <3>1. pingreq' \in 0..NoPing /\ since' \in 0..MaxTime
      BY <2>16 DEF ConnectionEnds
    <3>2. alive' \in BOOLEAN /\ ended' \in BOOLEAN
      BY <2>16 DEF ConnectionEnds
    <3> QED BY <2>16, <3>1, <3>2 DEF ConnectionEnds, TypeOK, params, ping, backoff
  <2>3. CASE NetworkReturns
    BY <2>3 DEF NetworkReturns, TypeOK, params, ping, backoff, clocks
  <2>4. CASE BrokerAnswers
    <3>1. inbound' \in Seq({"PINGRESP", "PUBLISH"})
      BY <2>4 DEF BrokerAnswers, TypeOK
    <3> QED BY <2>4, <3>1 DEF BrokerAnswers, TypeOK, params, ping, backoff
  <2>5. CASE BrokerPublishes
    <3>1. inbound' \in Seq({"PINGRESP", "PUBLISH"})
      BY <2>5 DEF BrokerPublishes, TypeOK
    <3> QED BY <2>5, <3>1 DEF BrokerPublishes, TypeOK, params, ping, backoff, clocks
  <2>6. ASSUME ConnectSucceeds, reconnectDelayTimer' \in Nat, currentReconnectWaitInterval' \in Nat,
               armed' = FALSE, spacing' = 0, waited' = 0
        PROVE  TypeOK'
    <3>1. /\ gap' \in 0..MaxGap /\ failed' \in 0..MaxFailures
          /\ silent' \in 0..MaxTime /\ since' \in 0..MaxTime /\ waited' \in 0..MaxTime
      BY <2>6 DEF ConnectSucceeds
    <3>2. alive' \in BOOLEAN /\ ended' \in BOOLEAN /\ isPingOutstanding' \in BOOLEAN /\ armed' \in BOOLEAN
      BY <2>6 DEF ConnectSucceeds
    <3>3. pingTimer' \in Nat /\ spacing' \in Nat
      BY <2>0, <2>6 DEF ConnectSucceeds
    <3> QED BY <2>6, <3>1, <3>2, <3>3 DEF ConnectSucceeds, TypeOK, params
  <2>7. ASSUME Backoff
        PROVE  reconnectDelayTimer' \in Nat /\ currentReconnectWaitInterval' \in Nat
    BY <2>7 DEF Backoff, TypeOK
  <2>8. CASE Connect
    <3>1. reconnectDelayTimer' \in Nat /\ currentReconnectWaitInterval' \in Nat
      BY <2>8 DEF Connect, TypeOK
    <3> QED BY <2>6, <2>8, <3>1 DEF Connect
  <2>9. ASSUME NEW state \in {"DISCONNECTED_ERROR", "PENDING_RECONNECT"}, ConnectFails(state)
        PROVE  TypeOK'
    <3>1. armed' \in BOOLEAN /\ spacing' \in Nat /\ waited' \in 0..MaxTime
      BY <2>9 DEF ConnectFails, TypeOK
    <3> QED BY <2>9, <3>1 DEF ConnectFails, TypeOK, params, ping, net_vars, clocks
  <2>10. CASE CycleRead
    <3>1. inbound' \in Seq({"PINGRESP", "PUBLISH"})
      <4>1. inbound \in Seq({"PINGRESP", "PUBLISH"})
        BY DEF TypeOK
      <4>2. inbound' = inbound \/ (inbound # <<>> /\ inbound' = Tail(inbound))
        BY <2>10, ReadCases
      <4> QED BY <4>1, <4>2
    <3>2. isPingOutstanding' \in BOOLEAN /\ pingTimer' \in Nat
      BY <2>0, <2>10, ReadCases DEF TypeOK
    <3>3. pc' \in {"loop", "keep_alive"} /\ gap' \in 0..MaxGap /\ failed' \in 0..MaxFailures
      BY <2>10, ReadCases DEF TypeOK
    <3>4. UNCHANGED <<params, clientState, backoff, net, alive, ended, pingreq, silent, since>>
      BY <2>10 DEF CycleRead
    <3> QED BY <3>1, <3>2, <3>3, <3>4 DEF TypeOK, params, backoff
  <2>11. CASE KeepAlive
    <3>0. pc' = "loop" /\ gap' \in 0..MaxGap /\ failed' \in 0..MaxFailures /\ UNCHANGED params
      BY <2>11 DEF KeepAlive
    <3>1. CASE UNCHANGED <<clientState, ping, backoff, net_vars, silent, since>>
      BY <3>0, <3>1 DEF TypeOK, params, ping, backoff, net_vars
    <3>2. CASE Lost
      <4>1. inbound' \in Seq({"PINGRESP", "PUBLISH"})
        BY <3>2 DEF Lost
      <4>2. /\ clientState' \in {"DISCONNECTED_ERROR", "PENDING_RECONNECT"}
            /\ reconnectDelayTimer' \in Nat /\ currentReconnectWaitInterval' \in Nat
            /\ armed' \in BOOLEAN /\ spacing' \in Nat
        BY <3>2 DEF Lost, TypeOK
      <4>3. alive' \in BOOLEAN /\ ended' \in BOOLEAN /\ UNCHANGED <<isPingOutstanding, pingTimer, net, waited>>
        BY <3>2 DEF Lost, ping
      <4>4. pingreq' \in 0..NoPing /\ silent' \in 0..MaxTime /\ since' \in 0..MaxTime
        BY <3>2 DEF Lost
      <4> QED BY <3>0, <4>1, <4>2, <4>3, <4>4 DEF TypeOK, params
    <3>3. CASE SendPing
      <4>1. pingreq' \in 0..NoPing
        BY <3>3 DEF SendPing
      <4>2. isPingOutstanding' \in BOOLEAN /\ pingTimer' \in Nat
        BY <2>0, <3>3 DEF SendPing
      <4>3. UNCHANGED <<params, clientState, backoff, net, alive, ended, inbound, silent, since>>
        BY <3>0, <3>3 DEF SendPing
      <4> QED BY <3>0, <4>1, <4>2, <4>3 DEF TypeOK, params, backoff
    <3> QED BY <2>11, <3>1, <3>2, <3>3 DEF KeepAlive, CheckPing
  <2>12. CASE Reconnected
    <3>1. reconnectDelayTimer' \in Nat /\ currentReconnectWaitInterval' \in Nat
      BY <2>12 DEF Reconnected, TypeOK
    <3> QED BY <2>6, <2>12, <3>1 DEF Reconnected
  <2>13. CASE ResubscribeFails
    BY <2>6, <2>7, <2>13 DEF ResubscribeFails
  <2>14. CASE AttemptFails
    <3>1. spacing' \in Nat /\ waited' \in 0..MaxTime
      BY <2>14 DEF AttemptFails, TypeOK
    <3> QED BY <2>7, <2>14, <3>1 DEF AttemptFails, TypeOK, params, ping, net_vars, clocks
  <2>15. CASE UNCHANGED vars
    BY <2>15 DEF vars, params, ping, backoff, net_vars, clocks, TypeOK
  <2> QED BY <2>1, <2>2, <2>3, <2>4, <2>5, <2>8, <2>9, <2>10, <2>11, <2>12, <2>13, <2>14, <2>15, <2>16
          DEF Next, Yield
<1> QED BY <1>1, <1>2, PTL DEF Spec

-----------------------------------------------------------------------------
(* The connection, the ping and its answer.                                *)

\* Only an answer to a ping changes where the answers are, when a packet is received.
LEMMA AnswersAppend ==
  ASSUME TypeOK, NEW packet \in {"PINGRESP", "PUBLISH"}, inbound' = Append(inbound, packet)
  PROVE  /\ Len(inbound') = Len(inbound) + 1
         /\ Answers' = IF packet = "PINGRESP" THEN Answers \cup {Len(inbound) + 1} ELSE Answers
<1>1. inbound \in Seq({"PINGRESP", "PUBLISH"}) /\ Len(inbound) \in Nat
  BY DEF TypeOK
<1>2. /\ Len(inbound') = Len(inbound) + 1
      /\ \A j \in 1..Len(inbound) : inbound'[j] = inbound[j]
      /\ inbound'[Len(inbound) + 1] = packet
  BY <1>1
<1>3. \A j : j \in 1..(Len(inbound) + 1) <=> j \in 1..Len(inbound) \/ j = Len(inbound) + 1
  BY <1>1
<1>4. \A j : j \in Answers' <=> j \in Answers \/ (j = Len(inbound) + 1 /\ packet = "PINGRESP")
  BY <1>2, <1>3 DEF Answers
<1> QED BY <1>2, <1>4

\* All answers move up by one when a packet is read.
LEMMA AnswersTail ==
  ASSUME TypeOK, inbound # <<>>, inbound' = Tail(inbound)
  PROVE  /\ Len(inbound') = Len(inbound) - 1 /\ Len(inbound) > 0
         /\ \A j : j \in Answers' <=> j \in Nat \ {0} /\ j + 1 \in Answers
         /\ Head(inbound) = "PINGRESP" <=> 1 \in Answers
<1>1. inbound \in Seq({"PINGRESP", "PUBLISH"}) /\ Len(inbound) \in Nat \ {0}
  BY DEF TypeOK
<1>2. /\ Len(inbound') = Len(inbound) - 1
      /\ \A j \in 1..(Len(inbound) - 1) : inbound'[j] = inbound[j + 1]
      /\ Head(inbound) = inbound[1]
  BY <1>1
<1>3. \A j : j \in Answers' <=> j \in Nat \ {0} /\ j + 1 \in Answers
  <2> TAKE j
  <2>1. j \in 1..(Len(inbound) - 1) <=> j \in Nat \ {0} /\ j + 1 \in 1..Len(inbound)
    BY <1>1
  <2> QED BY <1>1, <1>2, <2>1 DEF Answers
<1> QED BY <1>1, <1>2, <1>3 DEF Answers

\* There are no answers in an empty queue.
LEMMA AnswersEmpty == inbound = <<>> => Answers = {} /\ Len(inbound) = 0
BY DEF Answers

\* The answers are where the packets are.
LEMMA AnswersType ==
  ASSUME TypeOK
  PROVE  /\ Len(inbound) \in Nat
         /\ \A j \in Answers : j \in Nat \ {0} /\ j <= Len(inbound)
<1>1. Len(inbound) \in Nat
  BY DEF TypeOK
<1> QED BY <1>1 DEF Answers

\* One of the ping, its answer and neither is under way on a connection, and the queue has room
\* for the answer.
LEMMA LinkInductive == Spec => []LinkInv
<1>1. Init => LinkInv
  <2> SUFFICES ASSUME Init PROVE LinkInv
    OBVIOUS
  <2>1. Answers = {} /\ Len(inbound) = 0
    BY AnswersEmpty DEF Init
  <2>2. pingTimer <= keepAliveInterval
    BY KeepAliveAssumption DEF Init
  <2>3. Len(inbound) < MaxQueue /\ Len(inbound) <= MaxQueue
    BY <2>1, KeepAliveAssumption
  <2> QED BY <2>1, <2>2, <2>3 DEF Init, LinkInv, Connected
<1>2. TypeOK /\ LinkInv /\ [Next]_vars => LinkInv'
  <2> SUFFICES ASSUME TypeOK, LinkInv, [Next]_vars PROVE LinkInv'
    OBVIOUS
  <2> USE DEF Connected
  <2>0. /\ keepAliveInterval \in Nat /\ pingTimer \in Nat /\ PingTimeout \in Nat
        /\ PingTimeout <= keepAliveInterval /\ MaxQueue \in Nat \ {0} /\ MaxDelay \in Nat
        /\ pingreq \in 0..NoPing
        /\ alive \in BOOLEAN /\ isPingOutstanding \in BOOLEAN
    BY KeepAliveAssumption, PingTimeoutType DEF TypeOK
  <2>00. /\ Len(inbound) \in Nat
         /\ \A j \in Answers : j \in Nat \ {0} /\ j <= Len(inbound)
    BY AnswersType
  <2>1. CASE UNCHANGED <<keepAliveInterval, clientState, pc, ping, alive, ended, pingreq, inbound, silent, since>>
    <3>1. Answers' = Answers
      BY <2>1 DEF Answers
    <3> QED BY <2>1, <3>1 DEF LinkInv, ping
  <2>2. CASE Tick
    <3>1. Answers' = Answers /\ inbound' = inbound
      BY <2>2 DEF Answers, Tick
    <3>2. pingTimer' <= keepAliveInterval'
      BY <2>0, <2>2, RemainingType DEF Tick, LinkInv, params
    <3>3. pingreq' # NoPing => pingreq # NoPing
      BY <2>2 DEF Tick
    <3>4. pingreq' = NoPing => pingreq = NoPing \/ ~alive
      BY <2>0, <2>2 DEF Tick, NoPing
    <3>5. pingreq = NoPing => pingreq' = NoPing
      BY <2>2 DEF Tick
    <3>6. /\ UNCHANGED <<clientState, pc, alive, ended, isPingOutstanding>>
          /\ alive \/ ~Connected => silent' = 0
          /\ ~alive => since' = 0
      BY <2>2 DEF Tick
    <3> QED BY <3>1, <3>2, <3>3, <3>4, <3>5, <3>6 DEF LinkInv
  <2>3. CASE ConnectionDies
    <3>1. Answers' = Answers /\ inbound' = inbound
      BY <2>3 DEF Answers, ConnectionDies
    <3> QED BY <2>3, <3>1 DEF ConnectionDies, LinkInv, params, ping
  <2>11. CASE ConnectionEnds
    <3>1. Answers' = Answers /\ inbound' = inbound
      BY <2>11 DEF Answers, ConnectionEnds
    <3> QED BY <2>11, <3>1 DEF ConnectionEnds, LinkInv, params, ping
  <2>4. CASE BrokerAnswers
    <3>1. Answers = {} /\ Len(inbound) < MaxQueue /\ isPingOutstanding
      BY <2>4 DEF LinkInv, BrokerAnswers
    <3>2. Answers' = {Len(inbound) + 1} /\ Len(inbound') = Len(inbound) + 1
      BY <2>4, <3>1, AnswersAppend DEF BrokerAnswers
    <3>3. Len(inbound') <= MaxQueue
      BY <2>0, <2>00, <3>1, <3>2
    <3> QED BY <2>4, <3>1, <3>2, <3>3 DEF BrokerAnswers, LinkInv, params, ping
  <2>5. CASE BrokerPublishes
    <3>1. Answers' = Answers /\ Len(inbound') = Len(inbound) + 1
      BY <2>5, AnswersAppend DEF BrokerPublishes
    <3>2. Len(inbound') <= MaxQueue /\ Len(inbound') < MaxQueue
      BY <2>0, <2>00, <2>5, <3>1 DEF BrokerPublishes
    <3> QED BY <2>5, <3>1, <3>2 DEF BrokerPublishes, LinkInv, params, ping, clocks
  <2>6. CASE ConnectSucceeds /\ ~Connected
    <3>1. inbound' = <<>> /\ inbound = <<>> /\ pc = "loop" /\ pingreq = NoPing
      BY <2>6 DEF ConnectSucceeds, LinkInv
    <3>2. Answers = {} /\ Len(inbound) = 0 /\ Answers' = {} /\ Len(inbound') = 0
      BY <3>1, AnswersEmpty DEF Answers
    <3>3. 0 < MaxQueue /\ 0 <= MaxQueue
      BY <2>0
    <3>4. pingTimer' <= keepAliveInterval'
      BY <2>0, <2>6 DEF ConnectSucceeds, params
    <3> QED BY <2>6, <3>1, <3>2, <3>3, <3>4 DEF ConnectSucceeds, LinkInv
  <2>7. ASSUME NEW state \in {"DISCONNECTED_ERROR", "PENDING_RECONNECT"}, ConnectFails(state)
        PROVE  LinkInv'
    <3>1. Answers' = Answers
      BY <2>7 DEF Answers, ConnectFails, net_vars
    <3> QED BY <2>7, <3>1 DEF ConnectFails, LinkInv, params, ping, net_vars, clocks
  <2>8. CASE CycleRead
    <3>0. /\ UNCHANGED <<keepAliveInterval, clientState, alive, ended, pingreq, silent, since>>
          /\ Connected
      BY <2>8, ReadCases
    <3>1. CASE inbound = <<>>
      <4>1. Answers' = Answers /\ inbound' = inbound
        BY <2>8, <3>1, ReadCases DEF Answers
      <4>2. CASE UNCHANGED <<isPingOutstanding, pingTimer>>
        BY <3>0, <4>1, <4>2 DEF LinkInv
      <4>3. CASE ended /\ isPingOutstanding' = FALSE /\ pingTimer' = keepAliveInterval
        <5>1. ~alive /\ pingTimer' <= keepAliveInterval' /\ Answers = {}
          BY <2>0, <3>0, <3>1, <4>3, AnswersEmpty DEF LinkInv
        <5> QED BY <3>0, <4>1, <4>3, <5>1 DEF LinkInv
      <4> QED BY <2>8, <3>1, <4>2, <4>3, ReadCases
    <3>2. CASE inbound # <<>>
      <4>1. /\ Len(inbound') = Len(inbound) - 1
            /\ \A j : j \in Answers' <=> j \in Nat \ {0} /\ j + 1 \in Answers
            /\ Head(inbound) = "PINGRESP" <=> 1 \in Answers
        BY <2>8, <3>2, AnswersTail, ReadCases
      <4>2. Len(inbound') <= MaxQueue /\ Len(inbound') < MaxQueue
        BY <2>0, <2>00, <4>1 DEF LinkInv
      <4>3. CASE Head(inbound) = "PINGRESP"
        <5>1. isPingOutstanding' = FALSE /\ pingTimer' = keepAliveInterval
          BY <2>8, <3>2, <4>3, ReadCases
        <5>2. pingreq = NoPing
          BY <4>1, <4>3 DEF LinkInv
        <5>3. Answers' = {}
          <6> SUFFICES ASSUME NEW j \in Answers' PROVE FALSE
            OBVIOUS
          <6>1. j \in Nat \ {0} /\ j + 1 \in Answers /\ 1 \in Answers
            BY <4>1, <4>3
          <6>2. j + 1 = 1
            BY <6>1 DEF LinkInv
          <6> QED BY <6>1, <6>2
        <5>4. pingTimer' <= keepAliveInterval'
          BY <2>0, <3>0, <5>1
        <5> QED BY <3>0, <4>2, <5>1, <5>2, <5>3, <5>4 DEF LinkInv
      <4>4. CASE Head(inbound) # "PINGRESP"
        <5>1. UNCHANGED <<isPingOutstanding, pingTimer>>
          BY <2>8, <3>2, <4>4, ReadCases
        <5>2. Answers # {} => Answers' # {}
          <6> SUFFICES ASSUME NEW j \in Answers PROVE \E i : i \in Answers'
            OBVIOUS
          <6>1. j \in Nat \ {0} /\ j # 1
            BY <2>00, <4>1, <4>4
          <6>2. j - 1 \in Nat \ {0} /\ (j - 1) + 1 = j
            BY <6>1
          <6> QED BY <4>1, <6>2
        <5>3. Answers' # {} => Answers # {}
          BY <4>1
        <5>4. \A i, j \in Answers' : i = j
          <6> SUFFICES ASSUME NEW i \in Answers', NEW j \in Answers' PROVE i = j
            OBVIOUS
          <6>1. i \in Nat /\ j \in Nat /\ i + 1 = j + 1
            BY <4>1 DEF LinkInv
          <6> QED BY <6>1
        <5> QED BY <3>0, <4>2, <5>1, <5>2, <5>3, <5>4 DEF LinkInv
      <4> QED BY <4>3, <4>4
    <3> QED BY <3>1, <3>2
  <2>9. CASE KeepAlive
    <3>0. pc = "keep_alive" /\ pc' = "loop" /\ UNCHANGED keepAliveInterval /\ Connected
      BY <2>9 DEF KeepAlive, params, LinkInv
    <3>1. CASE UNCHANGED <<clientState, ping, backoff, net_vars, silent, since>>
      <4>1. Answers' = Answers
        BY <3>1 DEF Answers, net_vars
      <4> QED BY <3>0, <3>1, <4>1 DEF LinkInv, ping, net_vars
    <3>2. CASE Lost
      <4>1. Answers' = {} /\ Len(inbound') = 0 /\ inbound' = <<>>
        BY <3>2 DEF Lost, Answers
      <4>2. 0 < MaxQueue /\ 0 <= MaxQueue
        BY <2>0
      <4>3. /\ clientState' # "CONNECTED" /\ alive' = FALSE /\ ended' = FALSE /\ pingreq' = NoPing
            /\ silent' = 0 /\ since' = 0 /\ pingTimer' = pingTimer
        BY <3>2 DEF Lost, ping
      <4> QED BY <3>0, <4>1, <4>2, <4>3 DEF LinkInv
    <3>3. CASE SendPing /\ ~isPingOutstanding
      <4>1. Answers' = Answers /\ Answers = {} /\ inbound' = inbound
        BY <3>3 DEF SendPing, Answers, LinkInv
      <4>2. pingTimer' <= keepAliveInterval'
        BY <2>0, <3>0, <3>3 DEF SendPing
      <4>3. 0 # NoPing
        BY <2>0 DEF NoPing
      <4>4. /\ UNCHANGED <<clientState, alive, ended, silent, since>>
            /\ isPingOutstanding' = TRUE
            /\ alive => pingreq' = 0
            /\ ~alive => pingreq' = NoPing
        BY <3>3 DEF SendPing
      <4> QED BY <3>0, <4>1, <4>2, <4>3, <4>4 DEF LinkInv
    <3> QED BY <2>9, <3>1, <3>2, <3>3 DEF KeepAlive, CheckPing
  <2>10. CASE NetworkReturns \/ AttemptFails \/ UNCHANGED vars
    BY <2>1, <2>10 DEF NetworkReturns, AttemptFails, vars, params, ping, net_vars, clocks
  <2> QED BY <2>2, <2>3, <2>4, <2>5, <2>6, <2>7, <2>8, <2>9, <2>10, <2>11
          DEF Next, Yield, Connect, Reconnected, ResubscribeFails, MayAttempt
<1> QED BY <1>1, <1>2, TypeCorrect, PTL DEF Spec

-----------------------------------------------------------------------------
(* The back-off.                                                           *)

\* The interval and the timer of the back-off keep up with what has failed.
LEMMA BackoffInductive == Spec => []BackoffInv
<1>1. Init => BackoffInv
  BY DEF Init, BackoffInv
<1>2. TypeOK /\ LinkInv /\ BackoffInv /\ [Next]_vars => BackoffInv'
  <2> SUFFICES ASSUME TypeOK, LinkInv, BackoffInv, [Next]_vars PROVE BackoffInv'
    OBVIOUS
  <2>0. /\ armed \in BOOLEAN /\ spacing \in Nat /\ waited \in 0..MaxTime
        /\ reconnectDelayTimer \in Nat /\ currentReconnectWaitInterval \in Nat
        /\ MinInterval \in Nat /\ MaxInterval \in Nat /\ MaxTime \in Nat /\ MaxInterval <= MaxTime
    BY KeepAliveAssumption DEF TypeOK
  <2>1. CASE Tick
    <3>1. CASE armed
      <4>1. spacing <= MaxInterval => waited' + reconnectDelayTimer' >= spacing
        BY <2>0, <2>1, <3>1 DEF Tick, BackoffInv, Elapsed, Remaining
      <4> QED BY <2>1, <3>1, <4>1 DEF Tick, BackoffInv
    <3>2. CASE ~armed
      BY <2>1, <3>2 DEF Tick, BackoffInv
    <3> QED BY <3>1, <3>2
  <2>2. CASE UNCHANGED <<clientState, backoff>>
    BY <2>2 DEF BackoffInv, backoff
  <2>3. CASE armed' = FALSE /\ spacing' = 0 /\ waited' = 0
    BY <2>3 DEF BackoffInv
  <2>4. ASSUME NEW state, ConnectFails(state)
        PROVE  BackoffInv'
    <3>1. CASE armed /\ clientState = state
      <4>1. armed' /\ UNCHANGED <<clientState, reconnectDelayTimer, currentReconnectWaitInterval>>
        BY <2>4, <3>1 DEF ConnectFails
      <4>2. spacing' = spacing /\ waited' = waited
        BY <2>4, <4>1 DEF ConnectFails
      <4> QED BY <3>1, <4>1, <4>2 DEF BackoffInv
    <3>2. CASE ~(armed /\ clientState = state)
      <4>1. ~armed'
        BY <2>4, <3>2 DEF ConnectFails
      <4>2. spacing' = 0 /\ waited' = 0
        BY <2>4, <4>1 DEF ConnectFails
      <4> QED BY <4>1, <4>2 DEF BackoffInv
    <3> QED BY <3>1, <3>2
  <2>5. CASE KeepAlive /\ Lost
    <3>1. CASE isAutoReconnectEnabled
      <4>1. /\ armed' = TRUE /\ clientState' = "PENDING_RECONNECT"
            /\ currentReconnectWaitInterval' = spacing'
        BY <2>5, <3>1 DEF Lost
      <4>2. waited' + reconnectDelayTimer' >= spacing'
        BY <2>0, <2>5, <3>1 DEF Lost
      <4> QED BY <4>1, <4>2 DEF BackoffInv
    <3>2. CASE ~isAutoReconnectEnabled
      <4>1. UNCHANGED backoff
        BY <2>5, <3>2 DEF Lost, backoff
      <4>2. ~armed
        BY <2>5 DEF KeepAlive, LinkInv, BackoffInv, Connected
      <4> QED BY <4>1, <4>2 DEF BackoffInv, backoff
    <3> QED BY <3>1, <3>2
  <2>6. CASE AttemptFails
    <3>1. CASE armed
      <4>1. /\ currentReconnectWaitInterval' = spacing'
            /\ spacing' <= MaxInterval => waited' + reconnectDelayTimer' >= spacing'
        BY <2>0, <2>6, <3>1 DEF AttemptFails, Backoff, Beyond, BackoffInv
      <4> QED BY <2>6, <3>1, <4>1 DEF AttemptFails, BackoffInv
    <3>2. CASE ~armed
      BY <2>6, <3>2 DEF AttemptFails, BackoffInv
    <3> QED BY <3>1, <3>2
  <2>7. CASE KeepAlive /\ ~Lost
    BY <2>2, <2>7 DEF KeepAlive, CheckPing, SendPing
  <2> QED BY <2>1, <2>2, <2>3, <2>4, <2>5, <2>6, <2>7
          DEF Next, Yield, ConnectionDies, ConnectionEnds, NetworkReturns, BrokerAnswers, BrokerPublishes, Connect,
              CycleRead, Reconnected, ResubscribeFails, vars
<1> QED BY <1>1, <1>2, TypeCorrect, LinkInductive, PTL DEF Spec

\* Automatic attempts are spaced by the minimum, doubled for every failed one, and end at the
\* maximum: for all intervals, and whatever the interval was before its first assignment.
THEOREM AttemptsAreSpaced == Spec => BackoffSpacing
<1>1. TypeOK /\ BackoffInv
        => [armed /\ (Reconnected \/ ResubscribeFails \/ AttemptFails)
              => waited >= spacing /\ spacing <= MaxInterval]_vars
  <2> SUFFICES ASSUME TypeOK, BackoffInv, armed, Reconnected \/ ResubscribeFails \/ AttemptFails
               PROVE  waited >= spacing /\ spacing <= MaxInterval
    OBVIOUS
  <2>1. MayAttempt
    BY DEF Reconnected, ResubscribeFails, AttemptFails
  <2> QED BY <2>1, KeepAliveAssumption DEF MayAttempt, Beyond, BackoffInv, TypeOK
<1> QED BY <1>1, TypeCorrect, BackoffInductive, PTL DEF BackoffSpacing

-----------------------------------------------------------------------------
(* Times.                                                                  *)

\* The iterations that it takes to read j packets.
LEMMA Iterations ==
  ASSUME NEW j \in Nat \ {0}
  PROVE  /\ MaxGap \in Nat \ {0} /\ MaxQueue \in Nat \ {0} /\ MaxDelay \in Nat
         /\ j * MaxGap \in Nat /\ MaxQueue * MaxGap \in Nat
         /\ j * MaxGap >= MaxGap
         /\ (j + 1) * MaxGap = j * MaxGap + MaxGap
         /\ j <= MaxQueue => j * MaxGap <= MaxQueue * MaxGap
<1>1. MaxGap \in Nat \ {0} /\ MaxQueue \in Nat \ {0} /\ MaxDelay \in Nat
  BY KeepAliveAssumption
<1>2. j * MaxGap \in Nat /\ MaxQueue * MaxGap \in Nat
  BY <1>1
<1>3. (j + 1) * MaxGap = j * MaxGap + MaxGap
  BY <1>1
<1>4. j * MaxGap >= MaxGap
  <2>1. (j - 1) * MaxGap >= 0
    BY <1>1
  <2>2. (j - 1) * MaxGap = j * MaxGap - MaxGap
    BY <1>1
  <2> QED BY <1>1, <1>2, <2>1, <2>2
<1>5. ASSUME j <= MaxQueue PROVE j * MaxGap <= MaxQueue * MaxGap
  <2>1. (MaxQueue - j) * MaxGap >= 0
    BY <1>1, <1>5
  <2>2. (MaxQueue - j) * MaxGap = MaxQueue * MaxGap - j * MaxGap
    BY <1>1
  <2> QED BY <1>1, <1>2, <2>1, <2>2
<1> QED BY <1>1, <1>2, <1>3, <1>4, <1>5

\* The iterations that f reads without success take, of those that lead to a keep_alive.
LEMMA Failures ==
  ASSUME NEW f \in 0..MaxFailures
  PROVE  /\ LookGap \in Nat /\ LookGap >= MaxGap
         /\ f * MaxGap \in Nat /\ f * MaxGap + MaxGap <= LookGap
         /\ (f + 1) * MaxGap = f * MaxGap + MaxGap
<1>1. MaxGap \in Nat \ {0} /\ MaxFailures \in Nat /\ f \in Nat /\ f <= MaxFailures
  BY KeepAliveAssumption
<1>2. f * MaxGap \in Nat /\ MaxFailures * MaxGap \in Nat
  BY <1>1
<1>3. (f + 1) * MaxGap = f * MaxGap + MaxGap /\ LookGap = MaxFailures * MaxGap + MaxGap
  BY <1>1 DEF LookGap
<1>4. (MaxFailures - f) * MaxGap >= 0 /\ (MaxFailures - f) * MaxGap = MaxFailures * MaxGap - f * MaxGap
  BY <1>1
<1> QED BY <1>1, <1>2, <1>3, <1>4

\* The bounds of the properties, without the products of the sums.
LEMMA Iterations3 ==
  /\ (MaxQueue + 2 * MaxFailures + 3) * MaxGap = MaxQueue * MaxGap + MaxGap + 2 * LookGap
  /\ (MaxFailures + 2) * MaxGap = MaxGap + LookGap
BY KeepAliveAssumption DEF LookGap

\* The times are numbers, and have the bounds that a fresh timer and a full queue give them.
LEMMA TimesType ==
  ASSUME TypeOK, LinkInv
  PROVE  /\ keepAliveInterval \in Nat /\ PingTimeout \in Nat /\ PingTimeout <= keepAliveInterval
         /\ MaxGap \in Nat \ {0} /\ MaxDelay \in Nat /\ MaxQueue * MaxGap \in Nat
         /\ pingTimer \in Nat /\ gap \in 0..MaxGap /\ silent \in Nat /\ since \in Nat
         /\ pingreq \in 0..NoPing
         /\ LookGap \in Nat /\ LookGap >= MaxGap
         /\ ToLook \in Nat /\ ToLook <= keepAliveInterval + LookGap
         /\ \A j \in Answers : /\ j \in Nat \ {0} /\ ToRead(j) \in Nat
                               /\ ToRead(j) <= MaxGap + MaxQueue * MaxGap
<1>1. /\ keepAliveInterval \in Nat /\ PingTimeout \in Nat /\ PingTimeout <= keepAliveInterval
      /\ MaxGap \in Nat \ {0} /\ MaxDelay \in Nat /\ MaxQueue * MaxGap \in Nat /\ MaxQueue \in Nat
      /\ pingTimer \in Nat /\ gap \in 0..MaxGap /\ silent \in Nat /\ since \in Nat
      /\ pingreq \in 0..NoPing
  BY KeepAliveAssumption, PingTimeoutType DEF TypeOK
<1>2. LookGap \in Nat /\ LookGap >= MaxGap /\ ToLook \in Nat /\ ToLook <= keepAliveInterval + LookGap
  <2> DEFINE fG == failed * MaxGap
  <2>1. LookGap \in Nat /\ LookGap >= MaxGap /\ fG \in Nat /\ fG + MaxGap <= LookGap
    BY Failures DEF TypeOK
  <2>2. ToLook = IF pingTimer > 0 THEN pingTimer + LookGap ELSE LookGap - fG - gap
    BY DEF ToLook
  <2>3. pingTimer <= keepAliveInterval
    BY DEF LinkInv
  <2> HIDE DEF fG
  <2> QED BY <1>1, <2>1, <2>2, <2>3
<1>3. ASSUME NEW j \in Answers
      PROVE  j \in Nat \ {0} /\ ToRead(j) \in Nat /\ ToRead(j) <= MaxGap + MaxQueue * MaxGap
  <2>1. j \in Nat \ {0} /\ j <= MaxQueue
    BY <1>1, AnswersType DEF LinkInv
  <2>2. j * MaxGap \in Nat /\ j * MaxGap >= MaxGap /\ j * MaxGap <= MaxQueue * MaxGap
    BY <2>1, Iterations
  <2> DEFINE jG == j * MaxGap
             QG == MaxQueue * MaxGap
  <2>3. ToRead(j) = MaxGap - gap + (IF pc = "loop" THEN jG - MaxGap ELSE jG)
    BY DEF ToRead
  <2>4. jG \in Nat /\ QG \in Nat /\ jG >= MaxGap /\ jG <= QG
    BY <1>1, <2>2
  <2> HIDE DEF jG, QG
  <2>5. ToRead(j) \in Nat /\ ToRead(j) <= MaxGap + QG
    BY <1>1, <2>3, <2>4
  <2> QED BY <2>1, <2>5 DEF QG
<1> QED BY <1>1, <1>2, <1>3

\* With every unit of time, both the next look at the ping timer and the reading of a packet
\* come closer.
LEMMA TimesTick ==
  ASSUME TypeOK, LinkInv, Tick, Connected
  PROVE  /\ ToLook' \in Nat /\ ToLook' + 1 <= ToLook
         /\ \A j \in Answers : ToRead(j)' \in Int /\ ToRead(j)' + 1 = ToRead(j)
         /\ Answers' = Answers
<1>0. /\ MaxGap \in Nat \ {0} /\ pingTimer \in Nat /\ gap \in 0..MaxGap
      /\ gap < MaxGap /\ gap' = gap + 1 /\ pingTimer' = Remaining(pingTimer)
      /\ UNCHANGED <<pc, failed>>
  BY TimesType DEF Tick
<1>1. ToLook' \in Nat /\ ToLook' + 1 <= ToLook
  <2> DEFINE fG == failed * MaxGap
  <2>1. LookGap \in Nat /\ fG \in Nat /\ fG + MaxGap <= LookGap
    BY Failures DEF TypeOK
  <2>2. /\ ToLook = IF pingTimer > 0 THEN pingTimer + LookGap ELSE LookGap - fG - gap
        /\ ToLook' = IF pingTimer' > 0 THEN pingTimer' + LookGap ELSE LookGap - fG - gap'
    BY <1>0 DEF ToLook, LookGap
  <2> HIDE DEF fG
  <2> QED BY <1>0, <2>1, <2>2 DEF Remaining
<1>2. ASSUME NEW j \in Answers PROVE ToRead(j)' \in Int /\ ToRead(j)' + 1 = ToRead(j)
  <2>1. j * MaxGap \in Nat
    BY TimesType, Iterations
  <2> DEFINE jG == j * MaxGap
  <2> HIDE DEF jG
  <2>2. jG \in Nat
    BY <2>1 DEF jG
  <2>3. /\ ToRead(j) = MaxGap - gap + (IF pc = "loop" THEN jG - MaxGap ELSE jG)
        /\ ToRead(j)' = MaxGap - gap' + (IF pc' = "loop" THEN jG - MaxGap ELSE jG)
    BY DEF ToRead, jG
  <2> QED BY <1>0, <2>2, <2>3
<1>3. Answers' = Answers
  BY DEF Tick, Answers
<1> QED BY <1>1, <1>2, <1>3

\* As long as the connection has not ended, an iteration makes neither the time of the next look
\* longer nor that of an answer further back, whether its read succeeds or fails, and after an
\* answer the whole interval runs.
LEMMA TimesRead ==
  ASSUME TypeOK, LinkInv, CycleRead, ~ended
  PROVE  \/ /\ Answers # {} /\ Answers' = {} /\ ~isPingOutstanding' /\ pingreq' = NoPing
            /\ pingTimer' = keepAliveInterval
            /\ \A j \in Answers : ToRead(j) = MaxGap - gap
         \/ /\ UNCHANGED <<isPingOutstanding, pingTimer>> /\ ToLook' \in Nat /\ ToLook' <= ToLook
            /\ Answers = {} <=> Answers' = {}
            /\ \A j \in Answers' : /\ j + 1 \in Answers
                                   /\ ToRead(j)' \in Int /\ ToRead(j)' <= ToRead(j + 1)
<1>0. /\ pc = "loop" /\ UNCHANGED <<keepAliveInterval, clientState, alive, pingreq, silent, since>>
      /\ \/ pc' = "keep_alive" /\ UNCHANGED <<gap, failed>>
         \/ pc' = "loop" /\ gap' = 0 /\ failed < MaxFailures /\ failed' = failed + 1
  BY ReadCases
<1>1. /\ MaxGap \in Nat /\ gap \in 0..MaxGap /\ pingTimer \in Nat /\ LookGap \in Nat
      /\ ToLook \in Nat
  BY TimesType
<1>4. ASSUME UNCHANGED pingTimer PROVE ToLook' \in Nat /\ ToLook' <= ToLook
  <2> DEFINE fG == failed * MaxGap
             fG1 == failed' * MaxGap
  <2>1. /\ ToLook = IF pingTimer > 0 THEN pingTimer + LookGap ELSE LookGap - fG - gap
        /\ ToLook' = IF pingTimer > 0 THEN pingTimer + LookGap ELSE LookGap - fG1 - gap'
    BY <1>4 DEF ToLook, LookGap
  <2>2. fG \in Nat /\ fG + MaxGap <= LookGap
    BY Failures DEF TypeOK
  <2>3. CASE UNCHANGED <<gap, failed>>
    BY <1>1, <2>1, <2>3
  <2>4. CASE gap' = 0 /\ failed < MaxFailures /\ failed' = failed + 1
    <3>1. fG1 = fG + MaxGap
      BY <2>4, Failures DEF TypeOK
    <3>2. gap' = 0
      BY <2>4
    <3> HIDE DEF fG, fG1
    <3> QED BY <1>1, <2>1, <2>2, <3>1, <3>2
  <2> QED BY <1>0, <2>3, <2>4
<1>2. CASE inbound = <<>>
  <2>1. Answers = {} /\ Answers' = {} /\ UNCHANGED <<isPingOutstanding, pingTimer>>
    BY <1>2, AnswersEmpty, ReadCases DEF Answers
  <2> QED BY <1>4, <2>1
<1>3. CASE inbound # <<>>
  <2>1. /\ \A j : j \in Answers' <=> j \in Nat \ {0} /\ j + 1 \in Answers
        /\ Head(inbound) = "PINGRESP" <=> 1 \in Answers
    BY <1>3, AnswersTail, ReadCases
  <2>2. CASE 1 \in Answers
    <3>1. \A j \in Answers : j = 1
      BY <2>2 DEF LinkInv
    <3>2. Answers' = {}
      <4> SUFFICES ASSUME NEW j \in Answers' PROVE FALSE
        OBVIOUS
      <4>1. j \in Nat \ {0} /\ j + 1 = 1
        BY <2>1, <3>1
      <4> QED BY <4>1
    <3>3. isPingOutstanding' = FALSE /\ pingTimer' = keepAliveInterval
      BY <1>3, <2>1, <2>2, ReadCases
    <3>4. pingreq' = NoPing
      BY <1>0, <2>2 DEF LinkInv
    <3>5. ToRead(1) = MaxGap - gap
      BY <1>0, <1>1 DEF ToRead
    <3> QED BY <2>2, <3>1, <3>2, <3>3, <3>4, <3>5
  <2>3. CASE 1 \notin Answers
    <3>1. UNCHANGED <<isPingOutstanding, pingTimer>>
      BY <1>3, <2>1, <2>3, ReadCases
    <3>2. ToLook' \in Nat /\ ToLook' <= ToLook
      BY <1>4, <3>1
    <3>3. ASSUME NEW j \in Answers'
          PROVE  /\ j + 1 \in Answers
                 /\ ToRead(j)' \in Int /\ ToRead(j)' <= ToRead(j + 1)
      <4>1. j \in Nat \ {0} /\ j + 1 \in Answers
        BY <2>1
      <4> DEFINE jG == j * MaxGap
                 j1G == (j + 1) * MaxGap
      <4>2. j1G = jG + MaxGap /\ jG \in Nat
        BY <4>1, Iterations
      <4>3. /\ ToRead(j)' = MaxGap - gap' + (IF pc' = "loop" THEN jG - MaxGap ELSE jG)
            /\ ToRead(j + 1) = MaxGap - gap + (j1G - MaxGap)
        BY <1>0 DEF ToRead
      <4> HIDE DEF jG, j1G
      <4> QED BY <1>0, <1>1, <4>1, <4>2, <4>3
    <3>4. ASSUME NEW j \in Answers PROVE Answers' # {}
      <4>1. j \in Nat \ {0} /\ j # 1
        BY <2>3, AnswersType
      <4>2. j - 1 \in Nat \ {0} /\ (j - 1) + 1 = j
        BY <4>1
      <4> QED BY <2>1, <4>2
    <3> QED BY <3>1, <3>2, <3>3, <3>4
  <2> QED BY <2>2, <2>3
<1> QED BY <1>2, <1>3

\* A keep_alive that has nothing to do leaves the times no longer than they were.
LEMMA TimesSkip ==
  ASSUME TypeOK, LinkInv, pc = "keep_alive", pc' = "loop", gap' = 0, pingTimer > 0,
         UNCHANGED <<ping, net_vars>>
  PROVE  /\ ToLook' = ToLook /\ Answers' = Answers
         /\ \A j \in Answers : ToRead(j)' \in Int /\ ToRead(j)' <= ToRead(j)
<1>1. ToLook' = ToLook /\ Answers' = Answers
  BY DEF ToLook, LookGap, Answers, ping, net_vars
<1>2. ASSUME NEW j \in Answers PROVE ToRead(j)' \in Int /\ ToRead(j)' <= ToRead(j)
  <2>1. j * MaxGap \in Nat /\ MaxGap \in Nat /\ gap \in 0..MaxGap
    BY TimesType, Iterations
  <2> QED BY <2>1 DEF ToRead
<1> QED BY <1>1, <1>2

-----------------------------------------------------------------------------
(* A dead connection is found out.                                         *)

\* The interval of a connection is the application's choice, once and for all.
LEMMA IntervalFixed ==
  ASSUME [Next]_vars
  PROVE  /\ keepAliveInterval' = keepAliveInterval /\ PingTimeout' = PingTimeout
         /\ DeadLimit' = DeadLimit /\ HeardLimit' = HeardLimit
<1>1. keepAliveInterval' = keepAliveInterval
  BY DEF Next, Yield, Tick, ConnectionDies, ConnectionEnds, NetworkReturns, BrokerAnswers, BrokerPublishes, Connect,
         ConnectSucceeds, ConnectFails, CycleRead, KeepAlive, Reconnected, ResubscribeFails,
         AttemptFails, params, vars
<1>2. PingTimeout' = PingTimeout
  BY <1>1 DEF PingTimeout
<1> QED BY <1>1, <1>2 DEF DeadLimit, HeardLimit, LookGap

\* The step of KeepAlive, by what it does.
LEMMA KeepAliveCases ==
  ASSUME TypeOK, LinkInv, KeepAlive
  PROVE  /\ pc = "keep_alive" /\ pc' = "loop" /\ gap' = 0 /\ failed' = 0 /\ Connected
         /\ \/ keepAliveInterval = 0 /\ UNCHANGED <<clientState, alive, ended>>
            \/ /\ pingTimer > 0
               /\ UNCHANGED <<clientState, ping, net_vars, silent, since>>
            \/ ~Connected' /\ alive' = FALSE /\ pingTimer = 0 /\ (isPingOutstanding \/ ~alive)
            \/ /\ pingTimer = 0 /\ ~isPingOutstanding /\ Answers = {} /\ Answers' = {}
               /\ isPingOutstanding' /\ pingTimer' = PingTimeout
               /\ alive => pingreq' = 0
               /\ UNCHANGED <<clientState, alive, ended, silent, since>>
<1>1. pc = "keep_alive" /\ pc' = "loop" /\ gap' = 0 /\ failed' = 0 /\ Connected
  BY DEF KeepAlive, LinkInv
<1>2. CASE keepAliveInterval = 0 \/ pingTimer > 0
  <2>1. UNCHANGED <<clientState, ping, net_vars, silent, since>>
    BY <1>2 DEF KeepAlive
  <2> QED BY <1>1, <1>2, <2>1 DEF net_vars
<1>3. CASE ~(keepAliveInterval = 0 \/ pingTimer > 0)
  <2>1. pingTimer = 0
    BY <1>3 DEF TypeOK
  <2>2. CheckPing
    BY <1>3 DEF KeepAlive
  <2>3. CASE Lost /\ (isPingOutstanding \/ ~alive)
    <3>1. ~Connected' /\ alive' = FALSE
      BY <2>3 DEF Lost, Connected
    <3> QED BY <1>1, <2>1, <2>3, <3>1
  <2>4. CASE SendPing /\ ~isPingOutstanding
    <3>1. Answers = {} /\ Answers' = Answers
      BY <2>4 DEF LinkInv, SendPing, Answers
    <3>2. /\ isPingOutstanding' /\ pingTimer' = PingTimeout
          /\ alive => pingreq' = 0
          /\ UNCHANGED <<clientState, alive, ended, silent, since>>
      BY <2>4 DEF SendPing
    <3> QED BY <1>1, <2>1, <2>4, <3>1, <3>2
  <2> QED BY <2>2, <2>3, <2>4 DEF CheckPing
<1> QED BY <1>2, <1>3

\* On a dead connection the time that has passed and the time that is still needed stay within
\* the limit.
LEMMA DeadInductive == Spec => []DeadInv
<1>1. Init => DeadInv
  BY DEF Init, DeadInv, Connected
<1>2. TypeOK /\ LinkInv /\ DeadInv /\ [Next]_vars => DeadInv'
  <2> SUFFICES ASSUME TypeOK, LinkInv, DeadInv, [Next]_vars,
                      keepAliveInterval' # 0, Connected', ~alive', ~ended'
               PROVE  /\ isPingOutstanding' /\ Answers' = {} => silent' + ToLook' <= DeadLimit'
                      /\ ~isPingOutstanding' => silent' + ToLook' + PingTimeout' + LookGap <= DeadLimit'
                      /\ \A j \in Answers' :
                           silent' + ToRead(j)' + keepAliveInterval' + PingTimeout' + 2 * LookGap
                             <= DeadLimit'
    BY DEF DeadInv, LookGap
  <2>1. /\ keepAliveInterval' = keepAliveInterval /\ PingTimeout' = PingTimeout /\ DeadLimit' = DeadLimit
        /\ keepAliveInterval # 0
    BY IntervalFixed
  <2> DEFINE QG == MaxQueue * MaxGap
  <2> HIDE DEF QG
  <2>2. /\ keepAliveInterval \in Nat /\ PingTimeout \in Nat /\ PingTimeout <= keepAliveInterval
        /\ MaxGap \in Nat \ {0} /\ QG \in Nat /\ LookGap \in Nat /\ LookGap >= MaxGap
        /\ DeadLimit = keepAliveInterval + PingTimeout + QG + MaxGap + 2 * LookGap
        /\ pingTimer \in Nat /\ gap \in 0..MaxGap /\ silent \in Nat
        /\ ToLook \in Nat /\ ToLook <= keepAliveInterval + LookGap
        /\ \A j \in Answers : ToRead(j) \in Nat /\ ToRead(j) <= MaxGap + QG
    BY TimesType DEF DeadLimit, QG
  <2>3. DeadLimit \in Nat
    BY <2>2
  <2>4. ASSUME Connected, ~alive, ~ended
        PROVE  /\ isPingOutstanding /\ Answers = {} => silent + ToLook <= DeadLimit
               /\ ~isPingOutstanding => silent + ToLook + PingTimeout + LookGap <= DeadLimit
               /\ \A j \in Answers :
                    silent + ToRead(j) + keepAliveInterval + PingTimeout + 2 * LookGap <= DeadLimit
    BY <2>1, <2>4 DEF DeadInv
  <2>5. CASE Tick
    <3>1. Connected /\ ~alive /\ ~ended /\ UNCHANGED isPingOutstanding
      BY <2>5 DEF Tick, Connected
    <3>2. /\ ToLook' \in Nat /\ ToLook' + 1 <= ToLook /\ Answers' = Answers
          /\ \A j \in Answers : ToRead(j)' \in Int /\ ToRead(j)' + 1 = ToRead(j)
      BY <2>5, <3>1, TimesTick
    <3>3. silent' \in Nat /\ silent' <= silent + 1
      <4>1. silent' = Elapsed(silent) /\ silent \in 0..MaxTime
        BY <2>5, <3>1 DEF Tick, TypeOK
      <4> QED BY <4>1, ElapsedType
    <3>4. PICK t \in Nat, s1 \in Nat, t1 \in Nat, limit \in Nat :
                 t = ToLook /\ s1 = silent' /\ t1 = ToLook' /\ limit = DeadLimit
      BY <2>2, <2>3, <3>2, <3>3
    <3>5. ASSUME isPingOutstanding', Answers' = {} PROVE silent' + ToLook' <= DeadLimit
      <4>1. s1 <= silent + 1 /\ t1 + 1 <= t /\ silent + t <= limit
        BY <2>4, <3>1, <3>2, <3>3, <3>4, <3>5
      <4>2. s1 + t1 <= limit
        BY <2>2, <4>1
      <4> QED BY <3>4, <4>2
    <3>6. ASSUME ~isPingOutstanding'
          PROVE  silent' + ToLook' + PingTimeout + LookGap <= DeadLimit
      <4>1. s1 <= silent + 1 /\ t1 + 1 <= t /\ silent + t + PingTimeout + LookGap <= limit
        BY <2>4, <3>1, <3>2, <3>3, <3>4, <3>6
      <4>2. s1 + t1 + PingTimeout + LookGap <= limit
        BY <2>2, <4>1
      <4> QED BY <3>4, <4>2
    <3>7. ASSUME NEW j \in Answers'
          PROVE  silent' + ToRead(j)' + keepAliveInterval + PingTimeout + 2 * LookGap <= DeadLimit
      BY <2>2, <2>3, <2>4, <3>1, <3>2, <3>3
    <3> QED BY <2>1, <3>5, <3>6, <3>7
  <2>6. CASE UNCHANGED <<clientState, pc, ping, alive, ended, inbound, gap, failed, silent>>
    <3>1. /\ UNCHANGED <<isPingOutstanding, Answers, ToLook, silent>>
          /\ Connected /\ ~alive /\ ~ended
          /\ \A j : ToRead(j)' = ToRead(j)
      BY <2>6 DEF Answers, ToLook, LookGap, ToRead, ping, Connected
    <3> QED BY <2>1, <2>4, <3>1
  <2>7. CASE ConnectionDies
    <3>1. /\ UNCHANGED <<clientState, pc, ping, inbound, gap, silent>> /\ Connected /\ ~ended
          /\ UNCHANGED <<isPingOutstanding, Answers, ToLook>>
          /\ \A j : ToRead(j)' = ToRead(j)
      BY <2>7 DEF ConnectionDies, Connected, Answers, ToLook, LookGap, ToRead, ping
    <3>2. CASE ~alive
      BY <2>1, <2>4, <3>1, <3>2
    <3>3. CASE alive
      <4>1. silent' = 0
        BY <3>1, <3>3 DEF LinkInv
      <4>2. silent' + ToLook' <= DeadLimit
        BY <2>2, <3>1, <4>1
      <4>3. silent' + ToLook' + PingTimeout + LookGap <= DeadLimit
        BY <2>2, <3>1, <4>1
      <4>4. ASSUME NEW j \in Answers'
            PROVE  silent' + ToRead(j)' + keepAliveInterval + PingTimeout + 2 * LookGap <= DeadLimit
        BY <2>2, <3>1, <4>1
      <4> QED BY <2>1, <4>2, <4>3, <4>4
    <3> QED BY <3>2, <3>3
  <2>8. CASE CycleRead
    <3>1. UNCHANGED <<clientState, alive, ended, silent>> /\ Connected /\ ~alive /\ ~ended
      BY <2>8, ReadCases
    <3>2. CASE /\ Answers # {} /\ Answers' = {} /\ ~isPingOutstanding' /\ pingreq' = NoPing
               /\ pingTimer' = keepAliveInterval
               /\ \A j \in Answers : ToRead(j) = MaxGap - gap
      <4>1. PICK j \in Answers : ToRead(j) = MaxGap - gap
        BY <3>2
      <4>2. silent + (MaxGap - gap) + keepAliveInterval + PingTimeout + 2 * LookGap <= DeadLimit
        BY <2>4, <3>1, <4>1
      <4>3. ToLook' = keepAliveInterval + LookGap
        BY <2>1, <2>2, <3>2 DEF ToLook, LookGap
      <4>4. silent + ToLook' + PingTimeout + LookGap <= DeadLimit
        BY <2>2, <2>3, <4>2, <4>3
      <4> QED BY <2>1, <3>1, <3>2, <4>4
    <3>3. CASE /\ UNCHANGED <<isPingOutstanding, pingTimer>> /\ ToLook' \in Nat /\ ToLook' <= ToLook
               /\ Answers = {} <=> Answers' = {}
               /\ \A j \in Answers' : /\ j + 1 \in Answers
                                      /\ ToRead(j)' \in Int /\ ToRead(j)' <= ToRead(j + 1)
      <4>1. PICK t \in Nat, t1 \in Nat, limit \in Nat :
                   t = ToLook /\ t1 = ToLook' /\ limit = DeadLimit /\ t1 <= t
        BY <2>2, <2>3, <3>3
      <4>2. ASSUME isPingOutstanding', Answers' = {} PROVE silent' + ToLook' <= DeadLimit
        <5>1. silent + t <= limit /\ t1 <= t
          BY <2>4, <3>1, <3>3, <4>1, <4>2
        <5>2. silent + t1 <= limit
          BY <2>2, <5>1
        <5> QED BY <3>1, <4>1, <5>2
      <4>3. ASSUME ~isPingOutstanding' PROVE silent' + ToLook' + PingTimeout + LookGap <= DeadLimit
        <5>1. silent + t + PingTimeout + LookGap <= limit /\ t1 <= t
          BY <2>4, <3>1, <3>3, <4>1, <4>3
        <5>2. silent + t1 + PingTimeout + LookGap <= limit
          BY <2>2, <5>1
        <5> QED BY <3>1, <4>1, <5>2
      <4>4. ASSUME NEW j \in Answers'
            PROVE  silent' + ToRead(j)' + keepAliveInterval + PingTimeout + 2 * LookGap <= DeadLimit
        <5>1. /\ silent + ToRead(j + 1) + keepAliveInterval + PingTimeout + 2 * LookGap <= DeadLimit
              /\ ToRead(j)' \in Int /\ ToRead(j)' <= ToRead(j + 1) /\ ToRead(j + 1) \in Nat
          BY <2>2, <2>4, <3>1, <3>3
        <5> QED BY <2>2, <2>3, <3>1, <5>1
      <4> QED BY <2>1, <4>2, <4>3, <4>4
    <3> QED BY <2>8, <3>1, <3>2, <3>3, TimesRead
  <2>9. CASE KeepAlive
    <3>1. pc = "keep_alive" /\ pc' = "loop" /\ gap' = 0 /\ failed' = 0 /\ Connected
      BY <2>9, KeepAliveCases
    <3>2. CASE pingTimer > 0 /\ UNCHANGED <<clientState, ping, net_vars, silent, since>>
      <4>1. /\ UNCHANGED <<isPingOutstanding, alive, ended, silent>> /\ ~alive /\ ~ended
            /\ ToLook' = ToLook /\ Answers' = Answers
            /\ \A j \in Answers : ToRead(j)' \in Int /\ ToRead(j)' <= ToRead(j)
        BY <3>1, <3>2, TimesSkip DEF ping, net_vars
      <4>2. ASSUME NEW j \in Answers'
            PROVE  silent' + ToRead(j)' + keepAliveInterval + PingTimeout + 2 * LookGap <= DeadLimit
        BY <2>2, <2>3, <2>4, <3>1, <4>1
      <4> QED BY <2>1, <2>4, <3>1, <4>1, <4>2
    <3>3. CASE /\ pingTimer = 0 /\ ~isPingOutstanding /\ Answers = {} /\ Answers' = {}
               /\ isPingOutstanding' /\ pingTimer' = PingTimeout
               /\ UNCHANGED <<clientState, alive, ended, silent, since>>
      <4>1. silent + ToLook + PingTimeout + LookGap <= DeadLimit
        BY <2>4, <3>1, <3>3
      <4>3. ToLook' = IF PingTimeout > 0 THEN PingTimeout + LookGap ELSE LookGap
        BY <2>2, <3>1, <3>3 DEF ToLook, LookGap
      <4>4. silent + ToLook' <= DeadLimit
        BY <2>2, <2>3, <4>1, <4>3
      <4> QED BY <2>1, <3>3, <4>4
    <3> QED BY <2>1, <2>9, <3>2, <3>3, KeepAliveCases
  <2>11. CASE ConnectionEnds
    BY <2>11 DEF ConnectionEnds
  <2>10. CASE \/ NetworkReturns \/ BrokerAnswers \/ BrokerPublishes \/ Connect \/ AttemptFails
              \/ Reconnected \/ ResubscribeFails \/ UNCHANGED vars
              \/ \E state \in {"DISCONNECTED_ERROR", "PENDING_RECONNECT"} : ConnectFails(state)
    BY <2>6, <2>10 DEF NetworkReturns, BrokerAnswers, BrokerPublishes, Connect, AttemptFails,
                       Reconnected, ResubscribeFails, ConnectSucceeds, ConnectFails, Connected,
                       vars, params, ping, net_vars, clocks
  <2> QED BY <2>5, <2>7, <2>8, <2>9, <2>10, <2>11 DEF Next, Yield
<1> QED BY <1>1, <1>2, TypeCorrect, LinkInductive, PTL DEF Spec

\* A dead connection that the peer has not closed is found out in time, for every interval, gap,
\* delay, length of the queue and number of packets in a row that cannot be read.  One that the
\* peer has closed is never found out: the run of EndedLinkDetected shows it.
THEOREM DeadLinksAreFound == Spec => []DeadLinkDetected
<1>1. TypeOK /\ LinkInv /\ DeadInv => DeadLinkDetected
  <2> SUFFICES ASSUME TypeOK, LinkInv, DeadInv, keepAliveInterval # 0, ~ended
               PROVE  silent <= keepAliveInterval + PingTimeout
                                  + (MaxQueue + 2 * MaxFailures + 3) * MaxGap
    BY DEF DeadLinkDetected, FoundOut
  <2> DEFINE QG == MaxQueue * MaxGap
  <2> HIDE DEF QG
  <2>1. /\ keepAliveInterval \in Nat /\ PingTimeout \in Nat /\ MaxGap \in Nat \ {0} /\ QG \in Nat
        /\ LookGap \in Nat /\ DeadLimit = keepAliveInterval + PingTimeout + QG + MaxGap + 2 * LookGap
        /\ silent \in Nat /\ ToLook \in Nat
        /\ \A j \in Answers : ToRead(j) \in Nat
    BY TimesType DEF DeadLimit, QG
  <2>2. silent <= DeadLimit
    <3>1. CASE silent = 0
      BY <2>1, <3>1
    <3>2. CASE Connected /\ ~alive /\ isPingOutstanding /\ Answers = {}
      <4>1. silent + ToLook <= DeadLimit
        BY <3>2 DEF DeadInv
      <4> QED BY <2>1, <4>1
    <3>3. CASE Connected /\ ~alive /\ ~isPingOutstanding
      <4>1. silent + ToLook + PingTimeout + LookGap <= DeadLimit
        BY <3>3 DEF DeadInv
      <4> QED BY <2>1, <4>1
    <3>4. CASE Connected /\ ~alive /\ Answers # {}
      <4>1. PICK j \in Answers :
                   silent + ToRead(j) + keepAliveInterval + PingTimeout + 2 * LookGap <= DeadLimit
        BY <3>4 DEF DeadInv
      <4> QED BY <2>1, <4>1
    <3> QED BY <3>1, <3>2, <3>3, <3>4 DEF LinkInv
  <2>3. (MaxQueue + 2 * MaxFailures + 3) * MaxGap = QG + MaxGap + 2 * LookGap
    BY Iterations3 DEF QG
  <2> QED BY <2>1, <2>2, <2>3
<1> QED BY <1>1, TypeCorrect, LinkInductive, DeadInductive, PTL

-----------------------------------------------------------------------------
(* The broker hears of the client.                                         *)

\* On a live connection the time since the broker heard of the client and the time until it
\* hears again stay within the limit.
LEMMA HeardInductive == Spec => []HeardInv
<1>1. Init => HeardInv
  BY DEF Init, HeardInv
<1>2. TypeOK /\ LinkInv /\ HeardInv /\ [Next]_vars => HeardInv'
  <2> SUFFICES ASSUME TypeOK, LinkInv, HeardInv, [Next]_vars, keepAliveInterval' # 0, alive'
               PROVE  /\ ~isPingOutstanding' => since' + ToLook' + MaxDelay <= HeardLimit'
                      /\ pingreq' # NoPing => since' + MaxDelay - pingreq' <= HeardLimit'
                      /\ \A j \in Answers' :
                           since' + ToRead(j)' + keepAliveInterval' + LookGap + MaxDelay <= HeardLimit'
    BY DEF HeardInv, NoPing, LookGap
  <2>1. /\ keepAliveInterval' = keepAliveInterval /\ PingTimeout' = PingTimeout
        /\ HeardLimit' = HeardLimit /\ keepAliveInterval # 0
    BY IntervalFixed
  <2> DEFINE QG == MaxQueue * MaxGap
  <2> HIDE DEF QG
  <2>2. /\ keepAliveInterval \in Nat /\ PingTimeout \in Nat /\ PingTimeout <= keepAliveInterval
        /\ MaxGap \in Nat \ {0} /\ MaxDelay \in Nat /\ QG \in Nat
        /\ LookGap \in Nat /\ LookGap >= MaxGap
        /\ HeardLimit = keepAliveInterval + 2 * MaxDelay + QG + MaxGap + LookGap
        /\ pingTimer \in Nat /\ gap \in 0..MaxGap /\ since \in Nat /\ pingreq \in 0..NoPing
        /\ ToLook \in Nat /\ ToLook <= keepAliveInterval + LookGap
        /\ \A j \in Answers : ToRead(j) \in Nat /\ ToRead(j) <= MaxGap + QG
    BY TimesType DEF HeardLimit, QG
  <2>3. HeardLimit \in Nat
    BY <2>2
  <2>4. ASSUME alive
        PROVE  /\ ~isPingOutstanding => since + ToLook + MaxDelay <= HeardLimit
               /\ pingreq # NoPing => since + MaxDelay - pingreq <= HeardLimit
               /\ \A j \in Answers :
                    since + ToRead(j) + keepAliveInterval + LookGap + MaxDelay <= HeardLimit
    BY <2>1, <2>4 DEF HeardInv
  <2>5. CASE Tick
    <3>1. alive /\ Connected /\ UNCHANGED isPingOutstanding
      BY <2>5 DEF Tick, LinkInv
    <3>2. /\ ToLook' \in Nat /\ ToLook' + 1 <= ToLook /\ Answers' = Answers
          /\ \A j \in Answers : ToRead(j)' \in Int /\ ToRead(j)' + 1 = ToRead(j)
      BY <2>5, <3>1, TimesTick
    <3>3. since' \in Nat /\ since' <= since + 1
      <4>1. since' = Elapsed(since) /\ since \in 0..MaxTime
        BY <2>5, <3>1 DEF Tick, TypeOK
      <4> QED BY <4>1, ElapsedType
    <3>4. PICK t \in Nat, s1 \in Nat, t1 \in Nat, limit \in Nat :
                 t = ToLook /\ s1 = since' /\ t1 = ToLook' /\ limit = HeardLimit
      BY <2>2, <2>3, <3>2, <3>3
    <3>5. ASSUME ~isPingOutstanding' PROVE since' + ToLook' + MaxDelay <= HeardLimit
      <4>1. s1 <= since + 1 /\ t1 + 1 <= t /\ since + t + MaxDelay <= limit
        BY <2>4, <3>1, <3>2, <3>3, <3>4, <3>5
      <4>2. s1 + t1 + MaxDelay <= limit
        BY <2>2, <4>1
      <4> QED BY <3>4, <4>2
    <3>6. ASSUME pingreq' # NoPing PROVE since' + MaxDelay - pingreq' <= HeardLimit
      <4>1. pingreq # NoPing /\ pingreq' = pingreq + 1
        BY <2>5, <3>6 DEF Tick
      <4>2. s1 <= since + 1 /\ since + MaxDelay - pingreq <= limit /\ pingreq \in Nat
        BY <2>2, <2>4, <3>1, <3>3, <3>4, <4>1
      <4>3. s1 + MaxDelay - (pingreq + 1) <= limit
        BY <2>2, <4>2
      <4> QED BY <3>4, <4>1, <4>3
    <3>7. ASSUME NEW j \in Answers'
          PROVE  since' + ToRead(j)' + keepAliveInterval + LookGap + MaxDelay <= HeardLimit
      BY <2>2, <2>3, <2>4, <3>1, <3>2, <3>3
    <3> QED BY <2>1, <3>5, <3>6, <3>7
  <2>6. CASE UNCHANGED <<pc, ping, alive, pingreq, inbound, gap, failed, since>>
    <3>1. /\ UNCHANGED <<isPingOutstanding, Answers, ToLook, since, pingreq>> /\ alive
          /\ \A j : ToRead(j)' = ToRead(j)
      BY <2>6 DEF Answers, ToLook, LookGap, ToRead, ping
    <3> QED BY <2>1, <2>4, <3>1
  <2>7. CASE BrokerAnswers
    <3>1. alive /\ isPingOutstanding /\ Answers = {} /\ Len(inbound) < MaxQueue
      BY <2>7 DEF BrokerAnswers, LinkInv
    <3>2. /\ Answers' = {Len(inbound) + 1} /\ since' = 0 /\ pingreq' = NoPing
          /\ UNCHANGED <<isPingOutstanding, pc, gap>>
      BY <2>7, <3>1, AnswersAppend DEF BrokerAnswers, ping
    <3>3. ASSUME NEW j \in Answers'
          PROVE  since' + ToRead(j)' + keepAliveInterval + LookGap + MaxDelay <= HeardLimit
      <4>1. j \in Nat \ {0} /\ j <= MaxQueue
        BY <3>1, <3>2, AnswersType, KeepAliveAssumption
      <4> DEFINE jG == j * MaxGap
      <4>2. jG \in Nat /\ jG <= QG
        BY <4>1, Iterations DEF QG
      <4>3. ToRead(j)' = MaxGap - gap + (IF pc = "loop" THEN jG - MaxGap ELSE jG)
        BY <3>2 DEF ToRead
      <4> HIDE DEF jG
      <4>4. ToRead(j)' \in Int /\ ToRead(j)' <= MaxGap + QG
        BY <2>2, <4>2, <4>3
      <4> QED BY <2>2, <3>2, <4>4
    <3> QED BY <2>1, <3>1, <3>2, <3>3
  <2>8. CASE BrokerPublishes
    <3>1. Answers' = Answers /\ UNCHANGED <<isPingOutstanding, ToLook, since, pingreq>> /\ alive
      BY <2>8, AnswersAppend DEF BrokerPublishes, ToLook, LookGap, ping, clocks
    <3>2. \A j : ToRead(j)' = ToRead(j)
      BY <2>8 DEF BrokerPublishes, ToRead, clocks
    <3> QED BY <2>1, <2>4, <3>1, <3>2
  <2>9. CASE ConnectSucceeds /\ ~Connected
    <3>1. Answers' = {} /\ pingreq' = NoPing
      BY <2>9, AnswersEmpty DEF ConnectSucceeds, LinkInv, Answers
    <3>2. PICK s1 \in 0..MaxDelay : since' = s1
      BY <2>9 DEF ConnectSucceeds
    <3>3. /\ ToLook' = IF PingTimeout > 0 THEN PingTimeout + LookGap ELSE LookGap
      BY <2>2, <2>9 DEF ConnectSucceeds, ToLook, LookGap
    <3>4. s1 + (IF PingTimeout > 0 THEN PingTimeout + LookGap ELSE LookGap) + MaxDelay <= HeardLimit
      BY <2>2
    <3> QED BY <2>1, <3>1, <3>2, <3>3, <3>4
  <2>10. CASE CycleRead
    <3>1. UNCHANGED <<alive, pingreq, since>> /\ alive /\ ~ended
      BY <2>10, ReadCases DEF LinkInv
    <3>2. CASE /\ Answers # {} /\ Answers' = {} /\ ~isPingOutstanding' /\ pingreq' = NoPing
               /\ pingTimer' = keepAliveInterval
               /\ \A j \in Answers : ToRead(j) = MaxGap - gap
      <4>1. PICK j \in Answers : ToRead(j) = MaxGap - gap
        BY <3>2
      <4>2. since + (MaxGap - gap) + keepAliveInterval + LookGap + MaxDelay <= HeardLimit
        BY <2>4, <3>1, <4>1
      <4>3. ToLook' = keepAliveInterval + LookGap
        BY <2>1, <2>2, <3>2 DEF ToLook, LookGap
      <4>4. since + ToLook' + MaxDelay <= HeardLimit
        BY <2>2, <2>3, <4>2, <4>3
      <4> QED BY <2>1, <3>1, <3>2, <4>4
    <3>3. CASE /\ UNCHANGED <<isPingOutstanding, pingTimer>> /\ ToLook' \in Nat /\ ToLook' <= ToLook
               /\ Answers = {} <=> Answers' = {}
               /\ \A j \in Answers' : /\ j + 1 \in Answers
                                      /\ ToRead(j)' \in Int /\ ToRead(j)' <= ToRead(j + 1)
      <4>1. PICK t \in Nat, t1 \in Nat, limit \in Nat :
                   t = ToLook /\ t1 = ToLook' /\ limit = HeardLimit /\ t1 <= t
        BY <2>2, <2>3, <3>3
      <4>2. ASSUME ~isPingOutstanding' PROVE since' + ToLook' + MaxDelay <= HeardLimit
        <5>1. since + t + MaxDelay <= limit /\ t1 <= t
          BY <2>4, <3>1, <3>3, <4>1, <4>2
        <5>2. since + t1 + MaxDelay <= limit
          BY <2>2, <5>1
        <5> QED BY <3>1, <4>1, <5>2
      <4>3. ASSUME NEW j \in Answers'
            PROVE  since' + ToRead(j)' + keepAliveInterval + LookGap + MaxDelay <= HeardLimit
        <5>1. /\ since + ToRead(j + 1) + keepAliveInterval + LookGap + MaxDelay <= HeardLimit
              /\ ToRead(j)' \in Int /\ ToRead(j)' <= ToRead(j + 1) /\ ToRead(j + 1) \in Nat
          BY <2>2, <2>4, <3>1, <3>3
        <5> QED BY <2>2, <2>3, <3>1, <5>1
      <4> QED BY <2>1, <2>4, <3>1, <4>2, <4>3
    <3> QED BY <2>10, <3>1, <3>2, <3>3, TimesRead
  <2>11. CASE KeepAlive
    <3>1. pc = "keep_alive" /\ pc' = "loop" /\ gap' = 0 /\ failed' = 0 /\ Connected
      BY <2>11, KeepAliveCases
    <3>2. CASE pingTimer > 0 /\ UNCHANGED <<clientState, ping, net_vars, silent, since>>
      <4>1. /\ UNCHANGED <<isPingOutstanding, alive, pingreq, since>> /\ alive
            /\ ToLook' = ToLook /\ Answers' = Answers
            /\ \A j \in Answers : ToRead(j)' \in Int /\ ToRead(j)' <= ToRead(j)
        BY <3>1, <3>2, TimesSkip DEF ping, net_vars
      <4>2. ASSUME NEW j \in Answers'
            PROVE  since' + ToRead(j)' + keepAliveInterval + LookGap + MaxDelay <= HeardLimit
        BY <2>2, <2>3, <2>4, <4>1
      <4> QED BY <2>1, <2>4, <4>1, <4>2
    <3>3. CASE /\ pingTimer = 0 /\ ~isPingOutstanding /\ Answers = {} /\ Answers' = {}
               /\ isPingOutstanding' /\ pingTimer' = PingTimeout
               /\ alive => pingreq' = 0
               /\ UNCHANGED <<clientState, alive, ended, silent, since>>
      <4>1. since + ToLook + MaxDelay <= HeardLimit /\ pingreq' = 0
        BY <2>4, <3>3
      <4>2. PICK t \in Nat, limit \in Nat : t = ToLook /\ limit = HeardLimit
        BY <2>2, <2>3
      <4>3. since + t + MaxDelay <= limit
        BY <4>1, <4>2
      <4>4. since + MaxDelay - 0 <= limit
        BY <2>2, <4>3
      <4> QED BY <2>1, <3>3, <4>1, <4>2, <4>4
    <3> QED BY <2>1, <2>11, <3>2, <3>3, KeepAliveCases
  <2>12. CASE \/ NetworkReturns \/ AttemptFails \/ UNCHANGED vars
              \/ \E state \in {"DISCONNECTED_ERROR", "PENDING_RECONNECT"} : ConnectFails(state)
    BY <2>6, <2>12 DEF NetworkReturns, AttemptFails, ConnectFails, vars, params, ping, net_vars, clocks
  <2>13. CASE ConnectionDies \/ ConnectionEnds
    BY <2>13 DEF ConnectionDies, ConnectionEnds
  <2> QED BY <2>5, <2>7, <2>8, <2>9, <2>10, <2>11, <2>12, <2>13
          DEF Next, Yield, Connect, Reconnected, ResubscribeFails, MayAttempt, Connected
<1> QED BY <1>1, <1>2, TypeCorrect, LinkInductive, PTL DEF Spec

\* The broker hears of a connected client in time, for every interval, gap, delay, length of the
\* queue and number of reads that fail.
THEOREM BrokersAreSatisfied == Spec => []BrokerSatisfied
<1>1. TypeOK /\ LinkInv /\ HeardInv => BrokerSatisfied
  <2> SUFFICES ASSUME TypeOK, LinkInv, HeardInv, keepAliveInterval # 0
               PROVE  since <= keepAliveInterval + MaxDelay + Latency + (MaxFailures + 2) * MaxGap
    BY DEF BrokerSatisfied
  <2> DEFINE QG == MaxQueue * MaxGap
  <2> HIDE DEF QG
  <2>1. /\ keepAliveInterval \in Nat /\ MaxDelay \in Nat /\ MaxGap \in Nat \ {0} /\ QG \in Nat
        /\ HeardLimit = keepAliveInterval + 2 * MaxDelay + QG + MaxGap + LookGap
        /\ Latency = MaxDelay + QG /\ LookGap \in Nat
        /\ (MaxFailures + 2) * MaxGap = MaxGap + LookGap
        /\ since \in Nat /\ pingreq \in 0..NoPing /\ ToLook \in Nat
        /\ \A j \in Answers : ToRead(j) \in Nat
    BY TimesType, Iterations3 DEF HeardLimit, Latency, QG
  <2>2. since <= HeardLimit
    <3>1. CASE since = 0
      BY <2>1, <3>1
    <3>2. CASE alive /\ ~isPingOutstanding
      <4>1. since + ToLook + MaxDelay <= HeardLimit
        BY <3>2 DEF HeardInv
      <4> QED BY <2>1, <4>1
    <3>3. CASE alive /\ pingreq # NoPing
      <4>1. since + MaxDelay - pingreq <= HeardLimit
        BY <3>3 DEF HeardInv
      <4>2. pingreq \in 0..MaxDelay
        BY <2>1, <3>3 DEF NoPing
      <4> QED BY <2>1, <4>1, <4>2
    <3>4. CASE alive /\ Answers # {}
      <4>1. PICK j \in Answers :
                   since + ToRead(j) + keepAliveInterval + LookGap + MaxDelay <= HeardLimit
        BY <3>4 DEF HeardInv
      <4> QED BY <2>1, <4>1
    <3> QED BY <3>1, <3>2, <3>3, <3>4 DEF LinkInv
  <2> QED BY <2>1, <2>2
<1> QED BY <1>1, TypeCorrect, LinkInductive, HeardInductive, PTL

-----------------------------------------------------------------------------
(* A live connection is not given up.                                      *)

\* The ping timer of a live connection lasts until the answer is read, when half the interval
\* is longer than the time that takes.
LEMMA AlarmInductive == Spec => []AlarmInv
<1>1. Init => AlarmInv
  BY DEF Init, AlarmInv
<1>2. TypeOK /\ LinkInv /\ AlarmInv /\ [Next]_vars => AlarmInv'
  <2> DEFINE Timely(j) == IF pc = "loop" THEN j = 1 \/ pingTimer > j * MaxGap - MaxGap - gap
                          ELSE pingTimer > j * MaxGap - gap
  <2> SUFFICES ASSUME TypeOK, LinkInv, AlarmInv, [Next]_vars, alive', PingTimeout' > Latency
               PROVE  /\ pingreq' # NoPing => pingTimer' + pingreq' >= PingTimeout'
                      /\ \A j \in Answers' : Timely(j)'
    BY DEF AlarmInv, NoPing, Latency
  <2>1. PingTimeout' = PingTimeout /\ keepAliveInterval' = keepAliveInterval
    BY IntervalFixed
  <2> DEFINE QG == MaxQueue * MaxGap
  <2> HIDE DEF QG
  <2>2. /\ keepAliveInterval \in Nat /\ PingTimeout \in Nat
        /\ MaxGap \in Nat \ {0} /\ MaxDelay \in Nat /\ QG \in Nat
        /\ PingTimeout > MaxDelay + QG
        /\ pingTimer \in Nat /\ gap \in 0..MaxGap /\ pingreq \in 0..NoPing
    BY <2>1, TimesType DEF Latency, QG
  <2>3. ASSUME alive
        PROVE  /\ pingreq # NoPing => pingTimer + pingreq >= PingTimeout
               /\ \A j \in Answers : Timely(j)
    BY <2>1, <2>3 DEF AlarmInv
  <2>4. \A j \in Answers : j \in Nat \ {0} /\ j * MaxGap \in Nat
    BY TimesType, Iterations
  <2>5. CASE Tick
    <3>1. /\ alive /\ Connected /\ gap' = gap + 1 /\ pingTimer' = Remaining(pingTimer)
          /\ Answers' = Answers /\ pc' = pc
      BY <2>5 DEF Tick, LinkInv, Answers
    <3>2. ASSUME pingreq' # NoPing PROVE pingTimer' + pingreq' >= PingTimeout
      <4>1. pingreq # NoPing /\ pingreq' = pingreq + 1
        BY <2>5, <3>2 DEF Tick
      <4>2. pingTimer + pingreq >= PingTimeout
        BY <2>3, <3>1, <4>1
      <4> QED BY <2>2, <3>1, <4>1, <4>2 DEF Remaining
    <3>3. ASSUME NEW j \in Answers' PROVE Timely(j)'
      <4>1. Timely(j) /\ j * MaxGap \in Nat
        BY <2>3, <2>4, <3>1
      <4> QED BY <2>2, <3>1, <4>1 DEF Remaining
    <3> QED BY <2>1, <3>2, <3>3
  <2>6. CASE UNCHANGED <<pc, ping, alive, pingreq, inbound, gap>>
    <3>1. UNCHANGED <<Answers, pingreq, pingTimer, pc, gap>> /\ alive
      BY <2>6 DEF Answers, ping
    <3> QED BY <2>1, <2>3, <3>1
  <2>7. CASE BrokerAnswers
    <3>1. alive /\ Answers = {} /\ Len(inbound) < MaxQueue /\ pingreq # NoPing
      BY <2>7 DEF BrokerAnswers, LinkInv
    <3>2. /\ Answers' = {Len(inbound) + 1} /\ pingreq' = NoPing
          /\ UNCHANGED <<pc, gap, pingTimer>>
      BY <2>7, <3>1, AnswersAppend DEF BrokerAnswers, ping
    <3>3. ASSUME NEW j \in Answers' PROVE Timely(j)'
      <4>1. j \in Nat \ {0} /\ j <= MaxQueue
        BY <3>1, <3>2, AnswersType, KeepAliveAssumption
      <4>2. j * MaxGap \in Nat /\ j * MaxGap <= QG
        BY <4>1, Iterations DEF QG
      <4>3. pingTimer + pingreq >= PingTimeout /\ pingreq \in 0..MaxDelay
        BY <2>2, <2>3, <3>1 DEF NoPing
      <4>4. pingTimer > QG
        BY <2>2, <4>3
      <4>5. pingTimer > j * MaxGap - MaxGap - gap /\ pingTimer > j * MaxGap - gap
        BY <2>2, <4>2, <4>4
      <4> QED BY <3>2, <4>5
    <3> QED BY <2>1, <3>2, <3>3
  <2>8. CASE BrokerPublishes
    <3>1. Answers' = Answers /\ UNCHANGED <<pingreq, pingTimer, pc, gap>> /\ alive
      BY <2>8, AnswersAppend DEF BrokerPublishes, ping, clocks
    <3> QED BY <2>1, <2>3, <3>1
  <2>9. CASE ConnectSucceeds /\ ~Connected
    BY <2>9, AnswersEmpty DEF ConnectSucceeds, LinkInv, Answers
  <2>10. CASE CycleRead
    <3>1. /\ UNCHANGED <<alive, pingreq>> /\ alive /\ ~ended /\ pc = "loop"
          /\ (pc' = "keep_alive" /\ gap' = gap) \/ (pc' = "loop" /\ gap' = 0)
      BY <2>10, ReadCases DEF LinkInv
    <3>2. CASE Answers' = {} /\ pingreq' = NoPing
      BY <3>2
    <3>3. \A j \in Answers' : j \in Nat \ {0}
      <4>1. inbound \in Seq({"PINGRESP", "PUBLISH"})
        BY DEF TypeOK
      <4>2. inbound' = inbound \/ (inbound # <<>> /\ inbound' = Tail(inbound))
        BY <2>10, ReadCases
      <4>3. Len(inbound') \in Nat
        BY <4>1, <4>2
      <4> QED BY <4>3 DEF Answers
    <3>4. CASE /\ UNCHANGED <<isPingOutstanding, pingTimer>>
               /\ \A j \in Answers' : j + 1 \in Answers
      <4>1. ASSUME NEW j \in Answers' PROVE Timely(j)'
        <5>1. j + 1 \in Answers /\ Timely(j + 1)
          BY <2>3, <3>1, <3>4
        <5>2. j \in Nat \ {0}
          BY <3>3
        <5>3. pingTimer > (j + 1) * MaxGap - MaxGap - gap
          BY <3>1, <5>1, <5>2
        <5>4. (j + 1) * MaxGap = j * MaxGap + MaxGap /\ j * MaxGap \in Nat
          BY <5>2, Iterations
        <5>5. pingTimer > j * MaxGap - gap /\ pingTimer > j * MaxGap - MaxGap - 0
          BY <2>2, <5>3, <5>4
        <5> QED BY <3>1, <3>4, <5>5
      <4> QED BY <2>1, <2>3, <3>1, <3>4, <4>1
    <3> QED BY <2>10, <3>1, <3>2, <3>4, TimesRead
  <2>11. CASE KeepAlive
    <3>1. pc = "keep_alive" /\ pc' = "loop" /\ gap' = 0 /\ failed' = 0 /\ Connected
      BY <2>11, KeepAliveCases
    <3>2. CASE pingTimer > 0 /\ UNCHANGED <<clientState, ping, net_vars, silent, since>>
      <4>1. UNCHANGED <<pingTimer, alive, pingreq>> /\ alive /\ Answers' = Answers
        BY <3>1, <3>2, TimesSkip DEF ping, net_vars
      <4>2. ASSUME NEW j \in Answers' PROVE Timely(j)'
        <5>1. pingTimer > j * MaxGap - gap /\ j * MaxGap \in Nat
          BY <2>3, <2>4, <3>1, <4>1
        <5>2. pingTimer > j * MaxGap - MaxGap - 0
          BY <2>2, <5>1
        <5> QED BY <3>1, <4>1, <5>2
      <4> QED BY <2>1, <2>3, <4>1, <4>2
    <3>3. CASE /\ Answers' = {} /\ pingTimer' = PingTimeout
               /\ alive => pingreq' = 0
               /\ UNCHANGED <<clientState, alive, ended, silent, since>>
      BY <2>1, <2>2, <3>3
    <3>4. keepAliveInterval # 0
      BY <2>2 DEF PingTimeout
    <3> QED BY <2>11, <3>2, <3>3, <3>4, KeepAliveCases
  <2>12. CASE \/ NetworkReturns \/ AttemptFails \/ UNCHANGED vars
              \/ \E state \in {"DISCONNECTED_ERROR", "PENDING_RECONNECT"} : ConnectFails(state)
    BY <2>6, <2>12 DEF NetworkReturns, AttemptFails, ConnectFails, vars, params, ping, net_vars, clocks
  <2>13. CASE ConnectionDies \/ ConnectionEnds
    BY <2>13 DEF ConnectionDies, ConnectionEnds
  <2> QED BY <2>5, <2>7, <2>8, <2>9, <2>10, <2>11, <2>12, <2>13
          DEF Next, Yield, Connect, Reconnected, ResubscribeFails, MayAttempt, Connected
<1> QED BY <1>1, <1>2, TypeCorrect, LinkInductive, PTL DEF Spec

\* A live connection is given up only if half the interval is no longer than an answer may take
\* to arrive and to be read, for every interval, gap, delay and length of the queue.
THEOREM NoAlarmIsFalse == Spec => NoFalseAlarm
<1>1. TypeOK /\ LinkInv /\ AlarmInv /\ [Next]_vars
        => [Connected /\ ~Connected' => ~alive \/ PingTimeout <= Latency]_vars
  <2> SUFFICES ASSUME TypeOK, LinkInv, AlarmInv, [Next]_vars, Connected, ~Connected', alive
               PROVE  PingTimeout <= Latency
    OBVIOUS
  <2>0. PingTimeout \in Nat /\ Latency \in Nat
    BY TimesType DEF Latency
  <2> SUFFICES ASSUME PingTimeout > Latency PROVE FALSE
    BY <2>0
  <2>1. KeepAlive
    BY DEF Next, Yield, Tick, ConnectionDies, ConnectionEnds, NetworkReturns, BrokerAnswers, BrokerPublishes,
           Connect, ConnectFails, CycleRead, Reconnected, ResubscribeFails, AttemptFails, MayAttempt,
           Connected, vars
  <2>2. pc = "keep_alive" /\ pingTimer = 0 /\ isPingOutstanding
    BY <2>1, KeepAliveCases DEF Connected
  <2>3. /\ PingTimeout \in Nat /\ MaxDelay \in Nat /\ MaxQueue * MaxGap \in Nat
        /\ MaxGap \in Nat \ {0} /\ gap \in 0..MaxGap /\ pingreq \in 0..NoPing
    BY TimesType
  <2>4. PingTimeout > MaxDelay
    BY <2>3 DEF Latency
  <2>5. CASE pingreq # NoPing
    <3>1. 0 + pingreq >= PingTimeout
      BY <2>2, <2>5 DEF AlarmInv
    <3> QED BY <2>3, <2>4, <2>5, <3>1 DEF NoPing
  <2>6. CASE Answers # {}
    <3>1. PICK j \in Answers : 0 > j * MaxGap - gap
      BY <2>2, <2>6 DEF AlarmInv
    <3>2. j * MaxGap \in Nat /\ j * MaxGap >= MaxGap
      BY TimesType, Iterations
    <3> QED BY <2>3, <3>1, <3>2
  <2> QED BY <2>2, <2>5, <2>6 DEF LinkInv
<1> QED BY <1>1, TypeCorrect, LinkInductive, AlarmInductive, PTL DEF Spec, NoFalseAlarm
=============================================================================
