# A TLA+ model of the AWS IoT device SDK for embedded C

This directory holds a formal model of the MQTT client in `src/src` (the SDK, version
2.0.1), checked with TLC and, for its main safety properties, proved with TLAPS.
`PROJECT.json` is the index: which definition models which lines, which run checks which
property, which hazard of the code each property is aimed at.

## The system

The SDK is a library. An application owns an `AWS_IoT_Client` and calls its functions from
one or several threads; there is no thread of the SDK's own. Everything the client does
happens inside a call.

| component | state | operations | talks to |
|---|---|---|---|
| client state machine (`aws_iot_mqtt_client.c`) | `clientStatus.clientState`, `state_change_mutex`, auto-reconnect flag | `set_client_state` (compare-and-swap), `init`, `autoreconnect_set_status` | every API function |
| connect (`_connect.c`) | TLS context, `isPingOutstanding`, ping timer | `connect`, `disconnect`, `attempt_reconnect` | network layer, `resubscribe` |
| yield (`_yield.c`) | `currentReconnectWaitInterval`, reconnect delay timer | `yield`: read a packet, keep-alive, lost connection, reconnect | `disconnect`, `attempt_reconnect`, disconnect handler |
| publish (`_publish.c`), subscribe and unsubscribe (`_subscribe.c`, `_unsubscribe.c`) | `nextPacketId`, `messageHandlers` | send a packet, read until its acknowledgement | `wait_for_read` |
| packet layer (`_common_internal.c`) | `readBuf`, `writeBuf` | `send_packet`, `read_packet`, `cycle_read`, `deliver_message`, `is_topic_matched` | network layer, message callbacks |
| device shadow (`aws_iot_shadow*.c`) | `AckWaitList`, `SubscriptionList`, delta tokens, version | `get`, `update`, `delete`, `register_delta`, `yield` | MQTT client |
| platform (`platform/linux`) | TLS context, timers, mutexes | read, write, connect, destroy; countdown; lock, trylock | mbedTLS, pthread |

What makes it hard:

- **Nesting.** A message callback runs inside the read loop of whichever call received the
  message, and may call the API again; the disconnect handler runs inside `yield`. One
  thread can so have a `publish` in a callback in a `subscribe` in a reconnect in a `yield`.
  Each of these calls saves the client state on entry and writes it back on exit.
- **Threads.** Threads exclude each other by the client state alone. It changes by
  compare-and-swap under a mutex in most places, and by plain assignment in four.
- **Failures.** Any send or read may fail or time out, the connection may be found lost at
  any of these points, and the TLS context must be freed exactly when the client gives up.
- **Timers.** Command timers, the ping timer, the reconnect delay.

What makes it correct, per component:

- state machine: an in-progress state always belongs to a call that will end it; two
  requests never share the buffers;
- connect, yield: the state reported agrees with the TLS context; a manual disconnect is
  final; reconnecting backs off; every call returns;
- subscriptions: after a reconnect the broker delivers what the table of handlers promises;
- packet layer: what is encoded is decoded, and a lost byte never shifts packet boundaries;
- shadow: each request gets one response, and the tables do not leak.

## Modules

`MqttClient` models the client state machine with all the API functions that move it.

- Shared state: `clientState`, `stateMutex`, `tls` (does the TLS context exist?),
  `isPingOutstanding`, `isAutoReconnectEnabled`, `currentReconnectWaitInterval`.
- Every thread has a call stack: `frame[t][1..depth[t]]`. A frame is one activation of an
  API function (`fn`), with its place (`pc`), the client state it saved (`saved`), its
  return code (`rc`), the outcome of the comparison inside `set_client_state` (`match`) and
  the packets still to be sent (`left`). A return removes the frame and lets the caller go
  on with the return code (`Resume`).
- One step is one access to shared state. `set_client_state` is two steps (compare, assign)
  under the mutex, because four assignments elsewhere bypass the mutex; the places of a
  frame that stand inside it are `CasPcs`, and `Expected`, `NewState`, `AfterCas` and
  `RcAfterCas` are the table of what each call site passes and does with the answer.
- Return codes are kept as far as a caller tells them apart.
- A timer is an observation: `has_timer_expired` may answer either way, and "yes" leaves
  the loop. Packets are what the read loops tell apart: the awaited acknowledgement, a
  PUBLISH (which pushes a `handle_publish` frame), a PINGRESP, anything else.
- The application is nondeterministic: which calls the threads, the message callbacks and
  the disconnect handler make are the constants `AppCalls`, `CallbackCalls`, `HandlerCalls`.

The correspondence of actions and code:

| code | actions |
|---|---|
| `aws_iot_mqtt_set_client_state`, `client_lock_mutex` | `LockAndCompare`, `SwapAndUnlock`, `TryLockFails` |
| entry checks of publish, subscribe, unsubscribe, resubscribe, connect, yield, deliver_message | `Enter` |
| `_aws_iot_mqtt_internal_{publish,subscribe,unsubscribe,resubscribe}` | `Send`, `ReceiveAck`, `WaitTimeout` |
| `cycle_read`, `handle_publish`, `deliver_message` | `ReceivePublish`, `ReceivePingresp`, `CallbackDone`, `SendPuback` |
| `connect` | `ConnectTls`, `ConnectMqtt`, `ConnectCleanup` |
| `disconnect` | `DisconnectEnter`, `DisconnectCheck`, `DisconnectSend`, `DisconnectClose`, `DisconnectAssign` |
| `attempt_reconnect` | `ReconnectEnter`, `ReconnectCheck`, `Resume` |
| `yield` and its helpers | `YieldIterate`, `YieldRead`, `KeepAlive`, `KeepAliveLost`, `ForceState`, `ForceDestroy`, `HandlerDone`, `ArmReconnect`, `HandleReconnect`, `Backoff`, `YieldLeave` |

`MCMqttClient` adds the model values and the symmetry for TLC. `MqttClientProofs`
holds the theorems; those of the other modules are in `SessionProofs`, `ShadowProofs`,
`SendingProofs`, `FramingProofs`, `KeepAliveProofs`, `TopicMatchProofs` and `ShadowJsonProofs`.

`Session` models what the requests carry: packet identifiers (`nextPacketId`, which wraps),
the table `messageHandlers`, the acknowledgement loops, and the broker's session at the
other end of two ordered channels. One thread; a call stack of requests and deliveries.

| code | actions |
|---|---|
| `publish` (QoS 1), `subscribe`, `unsubscribe`, `resubscribe` up to the read loop | `Publish`, `Subscribe`, `Unsubscribe`, `Resubscribe`, `ResubscribeSend` |
| `wait_for_read`, `cycle_read`, what follows the acknowledgement | `ReceiveAck`, `ReceiveOther`, `DeliverMessage`, `WaitTimeout`, `Return` |
| `connect`, `attempt_reconnect`, a connection found lost | `ConnectOnly`, `Reconnect`, `Disconnect` |
| the network and the broker (external) | `LinkDown`, `BrokerAnswer`, `BrokerPublish` |

`MqttClient` decides which call may start in which state; `Session` takes that as given
(`Admitted`) and asks what the calls do to the table and to the broker.

`Shadow` models the device shadow on top of the client: `AckWaitList`, the
reference-counted `SubscriptionList`, delta tokens and the document version. An MQTT call is
a step that succeeds or fails (`Faults`); while a subscribe or an unsubscribe waits,
responses and deltas may be handled (`Reading`), so a stack of activations is kept here too.
`handlers` is the set of list slots that the client's handlers point to: the client keeps a
pointer to the topic buffer of the slot, and a slot that is reused changes what its handler
listens to. The counts are `uint8_t`: they wrap (`Counted`, `MaxCount`), and an action that is
counted into a wrapped count, or into none, goes on `uncovered`.

| code | actions |
|---|---|
| `internal_action` for `get`, `update`, `delete` | `Increment` or `SubscribeAcks`, `Subscribed`, `SubscribeFailed`, `CleanedUp`, `PublishAction` |
| `AckStatusCallback`, `HandleExpiredResponseCallbacks` | `AckStatusCallback`, `Expire`, `CallbackReturns` |
| `unsubscribeFromAcceptedAndRejected` | `Release`, `Unsubscribed` |
| `register_delta`, `shadow_delta_callback`, version functions | `RegisterDelta`, `DeltaSubscribed`, `ShadowDelta`, `ResetLastReceivedVersion`, `DiscardOldDeltaMsgs` |

The history variables `tracked`, `calls` and `lastDelta` record what the application was
promised and told. Of the broker only its answers are modelled here: a failed unsubscribe
leaves the topic subscribed. Callbacks do not call `shadow_yield`.

`KeepAlive` models the loop of `yield` once more, in discrete time and with one thread: what
the timers do. A timer is the time that is left; `Tick` lets time pass, as long as nothing
takes longer than its bound (`MaxGap` for the client and the application, `MaxDelay` for the
broker). An iteration reaches `keep_alive` only when its read succeeds (`ReadSucceeds`); a packet
that is too long or that its handler refuses ends the call of yield before it (`ReadFails`), at
most `MaxFailures` times in a row. The connection may die silently (`alive`), with the network
(`net`) or alone, or the peer closes it (`ended`): then `mbedtls_ssl_read` returns 0, `iot_tls_read`
asks until its timer ends, and every read fails, save one that leaves its loop in the last
millisecond: that has read no bytes with success, and what the buffer and a local without a value
hold is taken for a packet. The
history variables are clocks: how long the connection has been dead (`silent`), when the
broker last heard of the client (`since`), when the last attempt to reconnect was
(`waited`), and the spacing that is due (`spacing`: the minimum, doubled for every attempt
that has failed) since yield started to back off (`armed`).

| code | actions |
|---|---|
| `cycle_read` and its failure in `yield`, `keep_alive`, the lost connection | `CycleRead` (`ReadSucceeds` or `ReadFails`), `KeepAlive` with `SendPing`, `Lost` |
| `handle_reconnect` | `Reconnected`, `ResubscribeFails`, `AttemptFails` with `Backoff` |
| `connect`, `attempt_reconnect` called by the application | `Connect`, `ConnectFails` |
| time, network, broker (external) | `Tick`, `ConnectionDies`, `ConnectionEnds`, `NetworkReturns`, `BrokerAnswers`, `BrokerPublishes` |

`Codec` is a module of operators: the remaining length in both directions, the fields, the
serializers of all packets that the client sends, the deserializers of PUBLISH and of
acknowledgements. The header byte is the record of its bit fields. The base of the length's
digits is the constant `Radix` (128 in the code), so that all boundaries of the encoding are
within reach of small packets. It is used by:

- `Sending`: a request is serialized and written by `send_packet` over `iot_tls_write`. Each
  look at the timer is a step of its own (`SendLoop`, `ForLoop`, `WriteLoopExpired`...), and
  `Expire` may come between any two; `mbedtls_ssl_write` takes a fragment, asks to be called
  again or fails. `ret` of `iot_tls_write` starts uninitialised (`Garbage`). `onWire` is the
  history of what was taken.
- `Framing`: `read_packet` over `iot_tls_read` over TLS records. One step is one
  `mbedtls_ssl_read` (`SslReadBytes`, `SslReadFails`, `SslReadAgain`) with everything
  the code does up to the next one; `HeaderRead`, `LengthRead`, `DropRead` and `BodyRead`
  are the places of `read_packet`. A byte is known by its packet and its place in it, and
  `Offset` is where in the read buffer it goes. The end of file looks like a read that is
  interrupted (`SslReadAgain`): no bytes, no error, and another round.
- `PacketStream`: what the packet layer promises to the read loops above it, a queue of
  packets that are handed over one by one, or dropped when they are too long. `Framing`
  implements it (`InOrderOnce`: `INSTANCE PacketStream WITH` the packets that have not been
  returned as the queue), as long as the transport keeps every packet in one piece
  (`reliable`).

`ShadowJson` models how a shadow document is built in the caller's buffer. The text is a
sequence of symbols; names, keys, values and the client token are so many symbols, because
only their number matters to `snprintf` and its limit. Room is a `size_t`: it wraps. The index
of the loops over the fields is an `int8_t`: with `IndexLimit` fields or more (128) a loop does
not come to its end. The application stops at the first error.

| code | actions |
|---|---|
| `init_json_document`, `finalize_json_document` | `InitDocument`, `Finalize` |
| `add_desired`, `add_reported`: up to the loop, one round of it, behind it | `BeginSection`, `AddField` or `MissingField` or `MissingData`, `EndSection` |

`TopicMatch` is `is_topic_matched` with its two pointers, one step per round of the loop,
against `MqttMatch`, the matching of MQTT defined by levels.

## Runs

Properties that hold:

| run | instance | property | what it shows |
|---|---|---|---|
| `single` | 1 thread, 6 frames, callbacks may connect, disconnect, reconnect, publish, yield | `TypeOK`, `NoGhost`, `SingleThreadInv`, `ConnectionAgrees` | no call leaves an in-progress state behind; the inductive invariant of the proof holds; the reported state agrees with the TLS context |
| `liveness` | 1 thread, 5 frames, callbacks that publish, disconnect or yield, a reconnecting disconnect handler | `CallsReturn`, `YieldNotInCallback` | every call returns; the promise of `deliver_message` about yield |
| `threads` | 3 threads that connect, publish and subscribe, trylock | `RequestExclusion`, `ExclusionInv` | requests of different threads never overlap |
| `session` | 1 thread, 2 topics, 3 slots, 4 packet identifiers, callbacks that publish and unsubscribe, a connection that breaks and is restored | `TypeOK`, `AcksAnswer`, `ResubscribeRestoresPacked`, `ResubscribeNotNull` | success means that the broker has processed the request; resubscribe restores a table without holes, and never comes to a slot that was emptied under it |
| `shadow` | 3 updates, persistent or not, 2 places in `AckWaitList`, 3 topic slots, counts up to 2, every MQTT call may fail, 3 document versions, fair yields | `TypeOK`, `NotForgotten`, `CallbackOnce`, `StaysListening`, `DeltasIncrease`, `Answered` | an action keeps its place and its topics until it is answered, is answered once, and is answered or timed out in the end; no old delta is handed over |
| `sending` | 149 packets of all kinds, `Radix` 4, five buffer sizes, fragments of 40 bytes | `TypeOK`, `LengthExact`, `RoundTrip`, `OnWirePrefix`, `ReturnTrue`, `SendEnds` | the announced length is exact and the packet ends in the buffer; only packets that fill the buffer are refused; what is written can be read; the wire carries a prefix of the packet; the return code is true of the wire; a send ends |
| `framing` | 2 packets of 0 to 5 bytes, `Radix` 2, a buffer of 3 bytes, 2 records, one cut | `TypeOK`, `InStep`, `InOrderOnce` | a read starts at a packet's header, and packets come in order, complete and once |
| `topicmatch` | filters and names of up to 3 levels, empty levels included | `TypeOK`, `Sound`, `Complete` | no message reaches a handler whose filter does not match; the exceptions to the converse are at most those below |
| `keepalive` | keep-alive of 0, 1, 11 and 12 ticks, gap 2, delay 1, queue 2, one read that fails in a row, intervals 1 to 4 | `TypeOK`, `DeadLinkDetected`, `BrokerSatisfied`, `NoFalseAlarm`, `BackoffSpacing`, `PendingEnds` | a connection that died silently is found out, a live one is kept, the broker hears of the client; attempts to reconnect are spaced, bounded and come to an end |
| `json` | up to 2 sections and 4 fields of three shapes, an index of 3 values, 40 buffer sizes from 1 to 44 | `TypeOK`, `DocumentExact`, `EnoughIsEnough` | a document finalized with success is the one asked for; a buffer that holds it is enough for every call |

Properties that a comment or a document of the repository states and the code does not keep; each
run ends with a counterexample, and `PROJECT.json` quotes the line:

| run | property | what happens |
|---|---|---|
| `v_unsubscribe` | `RequestExclusion` | an unsubscribe that lost the race to start undoes the state of the one that won it |
| `v_ended` | `EndedLinkDetected` | the peer has closed the connection: every read times out and every yield leaves before its ping check; the client stays connected, and the application only sees the error of each yield |

Further consequences of the code that the models have and no run is spent on:

- state machine: a disconnect handler that reconnects, like the sample's, ends with
  `DISCONNECTED_ERROR` over a live connection (`HandlerCalls` = {"attempt_reconnect"} breaks
  `ConnectionAgrees`); a publish of another thread, admitted because yield's callback is
  running, writes `WAIT_FOR_CB_RETURN` back after the callback has ended (two threads break
  `NoGhost`); with trylock (the default: the flag is false) the swap that ends a request may
  fail, and its state then stays; a callback inside yield that disconnects is followed by
  the keep-alive of the same iteration, which turns the manual disconnect into a connection
  error; a callback that disconnects and reconnects may then yield; `attempt_reconnect` sets
  pending-reconnect without auto-reconnect, and when its resubscribe fails it returns an
  error and leaves the client connected and idle.
- subscriptions: resubscribe, which is documented to restore the active subscriptions, stops
  at the first free slot of the table, leaves the handlers behind it without a subscription
  and succeeds (`ResubscribeRestores`, of which `ResubscribeRestoresPacked` is the part that
  holds).
- subscribe and callbacks: a callback that subscribes while a subscribe waits for its SUBACK chooses
  the same free slot of the table (`subscribe.c:227`), and the outer subscribe writes over its
  handler (`:258`); both succeed (`HandlersKept`, with callbacks that subscribe).
- resubscribe and callbacks: `ResubscribeNotNull` needs answers that come before the command timer
  and requests that wait for different types of answer. Then a callback that unsubscribes has read
  the SUBACK that resubscribe waits for before its own UNSUBACK, and resubscribe gives up on its
  timer. A stale UNSUBACK (`LateAnswers`) lets the callback empty a slot and leaves the SUBACK where
  it is.
- acknowledgements: the late PUBACK of a publish that timed out is taken for that of the
  next one (`LateAnswers` breaks `AcksAnswer`).
- shadow: a callback's action takes the place in `AckWaitList` that an action in the middle
  of its subscribe has chosen, and is overwritten (`NotForgotten`, with callbacks that start
  actions); a failed subscribe of a rejected topic leaves its slot of `SubscriptionList`
  taken, and an action that finds fewer than two free slots goes on with SUCCESS without
  being counted: in both cases the counts no longer cover every waiting action, and the
  release of one may take the topic from another (hence the condition `~uncovered` of
  `StaysListening`); an action whose publish fails leaves its count behind, and after 255 of these
  the count wraps to 0, with the same consequence; a callback that starts an action while the UNSUBACK of the same topic is
  awaited raises a count that was read before, and its topic is taken away (`StaysListening`,
  with callbacks that start actions); the version of update/accepted raises
  `shadowJsonVersionNum`, although the header says it is ignored.
- sending: when the timer expires between the two looks of `iot_tls_write`, the left-over
  `ret` is added to the bytes written, and if that happens to make the length, success is
  reported for a packet that was cut (hence the condition on the timer in `ReturnTrue`). The
  estimate of a packet's size is one byte too high just below each boundary of the encoding;
  `send_packet`, which does not accept a packet that fills the buffer, would refuse the same
  packets.
- framing: a TLS record that ends inside a packet, or a header read that is interrupted, or meets
  the end of file, just as its time is up, can lose the packet boundary, and a later fragment of a read overwrites
  the first (the disturbed states of `Framing`); the limit of four bytes for the length has
  no effect on the socket, because the counter it looks at is overwritten by the read. A packet
  whose remaining length is just below the size of the read buffer is taken, though with its header
  byte and length it is longer, and its end is stored beyond the buffer (`BodyFits`).
- topics: "a/#" does not match "a", and a wildcard does not match an empty level ("a//b").
- documents: a value is written with the room that was left before its key, so that in a
  buffer too small for the document it may end behind the buffer, with success; the room of
  the next call is then negative, taken for a very large number, and limits nothing. An
  empty section, or a document without one, loses its opening brace, and a field of type OBJECT, which writes no value,
  the colon behind its key (`Proper` excludes them). A section with 128 fields or more does not end:
  its loop reads on behind the arguments.
- keep-alive: only answers to pings restart the ping timer, so that an active connection is
  pinged like an idle one, and the pause between two pings is the interval plus a round
  trip; an interval of 1 gives the broker no time to answer; `init` leaves
  `currentReconnectWaitInterval` unassigned, so that a yield after a manual
  `attempt_reconnect` that failed may reconnect without delay and without end (0), or give
  up at once (beyond the maximum): hence `armed` in the properties.

Hazards that no module reaches: `SubscriptionList[-1]` is read when the list is full
(`shadow_records.c:377`); an action that a callback starts during the unsubscribe of its
topic counts on a slot that is then freed (`:264`); a topic in the read buffer is not
terminated, and `strstr` goes on into the payload (`:214`); `shadowRxBuf` and `readBuf` are overwritten under a callback that
makes requests (`:196`, `common_internal.c:473`); a SUBACK that refuses (0x80) enters the
handler all the same (`subscribe.c:258`).

### Bounds

- `MaxDepth` bounds the call stack. The longest chain the code makes by itself is yield,
  attempt_reconnect, resubscribe, handle_publish (4 frames); 6 leaves room for two calls of
  a callback inside it, 5 (the liveness run) for one. A call is admitted only if the frames it needs for itself fit, so
  that the bound cuts nesting by the application and never a call in the middle.
- `MinInterval` and `MaxInterval` are 1 and 2, one doubling below the limit;
  `StaleIntervals` holds 0 and a value above the limit, because `init` does not assign
  `currentReconnectWaitInterval`.
- `NumHandlers` = 1: resubscribe sends zero packets or one. More change only how often the
  acknowledgement loop runs.
- Three threads: one request in progress, one that lost the race and one that starts next
  (the case `v_unsubscribe` needs). The symmetry permutes threads; the property is the same
  for all of them and no fairness is involved.
- `Session`: `MaxPacketId` = 4 identifiers, few enough to wrap in every long run; `TakeId` waits until the next one is out of use, as
  65535 of them always are. Three slots: two topics and a hole. `MaxChannel` = 2 packets in
  each direction: an acknowledgement and a message or another acknowledgement before it.
  `MaxDepth` = 3 is a request, the delivery inside its wait and the request of the callback. The
  callbacks unsubscribe, so that tables have holes, and the application does not, nor does it
  publish: requests under way wait for different types of answer, as `CallsDiffer` asks.
- `Shadow`: three actions let one be started, one answered and one time out around the same
  topic; two places for three actions fill `AckWaitList`. They are all updates, persistent or not, so
  that they share their pair of topics; that pairs do not get into each other's way is left to the
  proofs. Three topic slots are enough until failures leave two behind, and then the list overflows.
  `MaxCount` = 2 lets three actions wrap a count. `MaxDepth` = 3: a response inside the release of
  another response inside an action. `MaxVersion` = 3: a delta handed over, an older and a newer one.
  The callbacks of the run start no actions (see above for what happens when they do).
- `Sending`: `Radix` 4 puts the boundaries of the length at 4, 16 and 64 bytes; payloads and
  names are chosen around all three, buffer sizes on both sides of a packet just below the
  second and the third. `MaxFragment` cuts the longest packets in two. `Garbage` holds a
  negative value, 0, and a value that can make up the length of a packet.
- `Framing`: `Radix` 2, a buffer of 3 bytes and lengths 0, 2, 3, 5 give an empty packet, one
  that fits, one as long as the buffer (too long by one) and one that takes two pieces to
  drop, with lengths of one to three digits. Two packets: one to go wrong and one to be
  found. After the transport has been disturbed (one cut, one interruption) the call that is
  in progress is the last, since nothing is promised after it.
- `KeepAlive`: `MaxFailures` = 1 is one call of yield that ends before its ping check, at each of
  the places where that costs an iteration. Intervals 11 and 12 are the last for which an answer may come too late and
  the first for which it may not (`Latency` = 5); `MaxTime` = 40 is above every bound that
  a property states, so that no clock stops before it could break one. Intervals 1 to 4
  allow three attempts.
- `ShadowJson`: a field with key and value of one symbol, a longer one, one without a value;
  with up to four of them documents are shorter and longer than most of the buffers, which end at
  every place between. `IndexLimit` = 3 below `MaxFields` = 4 has sections of 0, 1 and 2 fields that
  end and one of 3 or 4 that does not. `SizeT` is far above every length.
- `TopicMatch`: three levels are enough for a level before, at and behind a wildcard; levels
  are empty, one or two characters.

### Fairness

`FairSpec` assumes weak fairness of the steps of each thread (the operating system
schedules it, and callbacks return) and strong fairness of leaving a loop, per activation:
the timer of `wait_for_read` and of yield is started before the loop and not restarted in
it, so after finitely many rounds its answer is "expired" for good; and a callback makes
finitely many calls. Nothing is assumed of the network or the broker. `FairSpec` of
`Shadow` assumes that a call in progress goes on (what `CallsReturn` says of the calls
below it) and that each waiting entry is looked at after its timer has expired: the
application calls `shadow_yield` again and again, and each call visits every entry. The
shadow service may stay silent. `FairSpec` of `Sending` assumes that the thread goes on and
that time does; `ssl_write` may ask to be called again for ever. `FairSpec` of `KeepAlive`
assumes that time goes on and that the application calls yield; the network may stay away.

## Proofs

Every theorem holds for every value of the constants that satisfies the module's assumption:
any number of threads, topics, slots, actions, any stack depth, intervals, lengths. Where a
condition on the application is needed it is the theorem's hypothesis, and the sections above
say what happens without it. In each case the property is not inductive as it stands; what is
proved of `Init` and of every step is the stronger invariant named here.

**The client (`MqttClientProofs`).**

- `TypeCorrect`: `Spec => []TypeOK`, without any condition.
- `RequestsInductive`, `RequestsExclude`: any number of threads that connect, publish,
  subscribe and resubscribe (`OnlyRequests`), blocking or not, never have two requests in
  progress. `ExclusionInv` adds that the client state names the request in progress and that
  a successful comparison stays true until the assignment. Unsubscribe, disconnect and yield
  have to be left out: `v_unsubscribe` shows why for the first, and the other two assign
  without the mutex.
- `SingleThreadInductive`, `SingleThreadNoGhost`: with one thread, `NoGhost`, whatever
  callbacks and handler call. `SingleThreadInv` adds that an in-progress state a frame has
  *saved* is answered for by a frame below it (`SavedAnswered`), so that writing it back is
  safe; that the mutex holder's comparison is still true (`MutexOK`); what a frame may have
  computed at its place (`FramesOK`); that a disconnect about to return success left
  `DISCONNECTED_MANUALLY` (`DisconnectOK`), which is what lets handle_disconnect skip the
  forced disconnect; and that keep-alive waits only for disconnect (`CallersOK`). A yield and
  a publish in two threads break `NoGhost`.
- `SingleThreadConnectionAgrees`: with one thread and a disconnect handler that neither
  connects nor reconnects, `ConnectionAgrees`. Here the whole stack matters, because a call
  relies on what the calls above it do to the state that it set. `StackInv` says that every
  frame stands at a place of its own function, that one below the top waits for exactly the
  call above it, and that the client state is the one that the frame in progress has set or
  saved; the invariant on the connection adds what each place knows of the TLS context. The
  lemma `StepShape` sorts all steps into moving on, calling, and returning, so that each
  invariant is shown once for each of these.
- `SingleThreadYield`: with one thread whose callbacks neither connect nor reconnect,
  `YieldNotInCallback`, by way of `CallbackInv`: while a callback is running the client is in
  a state in which yield and resubscribe are refused (`Busy`), and so is every state that the
  calls inside it have saved and will write back.

**Requests and their answers (`SessionProofs`).**

- `AnswersAreOwn`: if timers do not expire before an answer that is still to come
  (`~LateAnswers`), and no two requests under way wait for the same type of answer
  (`AloneAll`), then `AcksAnswer`: a success means that the broker has processed this very
  request, although no read loop compares packet identifiers. `OwnInv` says that a packet or
  an acknowledgement in flight belongs to a request that is waiting for it. It rests on
  `UniqueInv`, identifiers in flight being distinct, and on `LinkInv`.
- `AnswersReachTheirRequest`: the same from a condition on the program, `CallsDiffer`: no
  callback makes a request, or callbacks do not nest and theirs wait for other answers than
  those of the application and of resubscribe.
- `NoNullTopic`, `CallbacksMayUnsubscribe`: under the conditions of the two theorems before,
  `ResubscribeNotNull`, whatever callbacks do to the table. A callback that empties a slot has
  read an UNSUBACK. `NullInv` says that as long as the SUBACK that resubscribe waits for may
  still come, the slots that it has to visit are occupied (`SlotsAhead`) and that this SUBACK will be
  read before every UNSUBACK (`BeforeUnsubacks`, kept by `BeforeStep` because the channels are
  ordered): whoever reads an UNSUBACK has dropped the SUBACK before, and resubscribe never sends
  again.
- `SessionTypes`: no packet carries a null topic, if no callback unsubscribes
  (`NobodyUnsubscribes`, from `FrameInv`, what each activation knows of its topic and its slots),
  or under the conditions of `CallbacksMayUnsubscribe`; `TypesOfNames` draws the types from
  either.
- `ResubscribeRestoresAll`: with `~LateAnswers` and callbacks that only publish,
  `ResubscribeRestoresPacked`. `RestoreInv` follows resubscribe from slot to slot: the topics
  behind it are in the broker's session, what is in flight is about the slot it is at.

**The shadow (`ShadowProofs`).**

- `ShadowTypes`: all indices stay within their lists, whatever callbacks start and whichever
  MQTT call fails. The reference counts stay within their width because they wrap.
- `DeltasNeverGoBack`: `DeltasIncrease`, from `VersionInv`: the version is never behind the
  newest delta that was handed over.
- `CalledOnce`, `NeverForgotten`: if callbacks start no actions, `CallbackOnce` and
  `NotForgotten`. `OnceInv` says that an entry of `AckWaitList` is that of one action whose
  callback has not been called unless a response or a timeout is at work on it (`EntryInv`),
  that at most one is, and that no second response to it can come (`HeldInv`), and that the
  place an action chose before its subscribes is still free after them (`ActionInv`).
- `TopicsShared`: under the same condition, `StaysListening`. `Owes(k, ack)` is the set of places
  of `AckWaitList` whose action still has to release a topic: taken ones, those a timeout has
  freed and not released yet, and those of actions that have subscribed and not been entered
  yet. `ListenInv` says that the count of every ready slot of the topic is at least the number
  of these (`CoverInv`), so that a slot with count 1 is released by the last; that there is such
  a slot as long as anybody owes (`ThereInv`); that handlers belong to ready slots
  (`HandlerInv`); that a topic that is listened to has a slot with a handler before every free or
  left-over slot with the same topic (`FirstInv`), for FindTopic takes the first it finds and a
  failed unsubscribe leaves a second behind; what an action at its subscribes (`OpeningInv`) and
  a release that waits for its UNSUBACK (`LeavingInv`) may rely on while responses are handled
  under them; and which activations there are (`FramesInv`). It holds until `uncovered`: after
  a failed subscribe, an action without slots or a count that has wrapped, the counts are too low
  for good. Nothing is assumed of the number of actions. That the cover is kept when one place is added or
  removed is shown with the cardinalities of `FiniteSetTheorems`.

**Sending (`SendingProofs`).** `SendingTypes`, `WireIsPrefix` and `ReturnsAreTrue`, without
condition, from `SendInv`: what `written_so_far`, the counter of `send_packet` and the wire
have to do with each other at every place of the two loops, before and after the timer has
expired: `written_so_far` stays within the packet before, and may be any integer after it, when a
left-over `ret` is added once more. What is in the buffer is proved from `CodeInv`, which only says that it is what
`Serialize` made of the request, and that a refused request was too long; the rest is about the
operators of `Codec`, for every base of the digits above 2:

- `LengthsAreExact`: `LengthExact`. `Counts` gives the number of digits of a length by the
  powers of the base, `Estimate` shows the estimate of `get_final_packet_length` never too low
  and at most one byte too high, `Decodes` that up to four digits are read as what they were
  written for, whatever follows them (`DigitsWorth`). `AllShaped`, one lemma for each serializer,
  shows that the fields have together the length that is computed beforehand; for the lists
  of topics, of the will and of the credentials this is `FieldsLength`.
- `ReadsBack`: `RoundTrip` (`PublishBack`, `AckBack`), which cut the packet at the places where
  its parts were joined.

The functions that write the digits and the fields are recursive. That their equations have
solutions (`CodesExists`, `Iterates`), and what these are, is shown by least counterexample. The
lemmas on `write_len` stand in `FramingProofs` too: `Framing` and `Sending` use the same names
for their states, so that no module can extend both.

**Framing (`FramingProofs`).** For packets of every length, a read buffer of every size, and
TLS records that end anywhere.

- `Types`, `TypesOK`: `TypeOK` in every state, after a record that was cut too: a read asks for no
  more than `readBufSize` bytes and counts no more than it asked for. That they end in the buffer does
  not follow, and is not true (`BodyFits`). `TypeInv` adds that the bytes on the way are bytes of
  packets that were sent.
- `Streams`: `StreamInv`, as long as no record is cut and no read gives up inside a packet.
  `ChainOK` says that the records on the way and the outbox of the broker, joined, are the
  bytes of the packets in order, each packet whole, and where it starts; `PlaceInv` says, for each place
  of `read_packet`, which packet it is in and how far: the header byte, a digit of its
  length (the digits read so far, and what `multiplier` is), its body, the rest of a packet that
  is dropped.
- `StaysInStep`: `InStep`, from the two.
- `Refines`: `Spec => InOrderOnce`, that is, `Framing` implements `PacketStream`. `ClientStep`
  sorts the steps: the client sees nothing, starts to read, found nothing, got a packet or
  dropped one, or the broker sent one; each is a step of `PacketStream` or none. The packet that comes
  out is the image of the one at the head of the queue because the length that the digits give
  is the one that was written. A step that disturbs the transport is `Disturb`.

What the recursive functions compute is shown by least counterexample: `write_len` gives a
number below the radix itself, any other its lowest digit, with the top bit set, and behind it
the digits of the quotient (`Digits`); `AtDigit` keeps `rem` plus that quotient times
`multiplier` equal to the length. The first byte of `Unread` is that of its first piece
(`UnreadFirst`).

**Keep-alive (`KeepAliveProofs`).** `TypeCorrect`, `AttemptsAreSpaced`, `DeadLinksAreFound`,
`BrokersAreSatisfied`, `NoAlarmIsFalse`, without condition on the application; `DeadLinkDetected` is
about connections that the peer has not closed (`v_ended` shows why). `LinkInv` says that of a ping and
its answer exactly one is under way, and that the queue keeps room for the answer. `DeadInv`,
`HeardInv` and `AlarmInv` are budgets: the time that has passed, plus the most that may pass
until the next thing happens (`ToLook`, `ToRead`), stays within the limit; `Failures` and `Iterations`
count the iterations that end before `keep_alive`. `BackoffInv` says
that the delay timer and the time waited make up the spacing. The proof found the limit of
`DeadLinkDetected` one gap too low (TLC shows it with `MaxGap` = 3): an answer that joins the
queue just after yield has read waits one iteration more. The limit is now
(`MaxQueue` + 2 * `MaxFailures` + 3) gaps; that of `BrokerSatisfied` counts the broker's time for the
CONNECT as well, and `MaxFailures` + 2 gaps.

**Topics (`TopicMatchProofs`).** For filters and names of any number of levels of any length.

- `TopicTypes`: the two pointers of `is_topic_matched` stay inside their strings.
- `OnlyMatches`, `AllMatches`: `Sound` and `Complete`. The code compares characters, MQTT
  compares levels. `Laid` says where in a string each level lies, and `LoopInv` says at which
  level the two pointers are when a round of the loop begins: both are in the same level with
  the same characters before them (`Inside`) or behind one that `+` has matched (`Behind`),
  and the levels before it match (`Before`); or `#` has taken the rest of the name (`Over`). `InsideStep` and `BehindStep` show that a round keeps this or
  ends with the right answer; `EndsMatch` and `MatchEnds` relate the ends of the two strings
  to `MqttMatch`. The comment of the code, "assume topic filter and name is in correct
  format", is `FormatAssumption`.

That the recursive definition of a string has a solution, that it is a sequence, and where its
levels lie are shown by least counterexample (`JoinsExists`, `CharactersType`, `LaidOut`).

**Shadow documents (`ShadowJsonProofs`).** For keys, values, tokens and buffers of every length,
and any number of fields that the loops come to an end with: fewer than `IndexLimit` in a section
(a document with more is never finalized, and `EnoughIsEnough` leaves it out).

- `TypesOfBuilder`: `TypeOK`.
- `BuildsDocument`: `DocumentExact`. Between two calls the text is `Opened(sections)`, each
  section with a comma behind it (`Between`); inside one it is `Building(c, l)`: the sections
  `c` before it, its opening, and the fields `l` so far, each with its comma (`Inside`). A key
  and a value are a field with its comma (`FieldExact`); the end of a section goes over the
  comma of its last field (`EndExact`), and that of the state over the comma of the last
  section (`FinalExact`), which is where an empty section would lose a brace.
- `BufferIsEnough`: `EnoughIsEnough`. The same invariant says that empty sections and fields
  without a value can only make the text shorter than `Opened` and `Building`, and that in a
  buffer that holds the document the limit of the last field, with which the end of the
  section is written, is at least 3. `Measure` counts the symbols.

`BuildInv` is all of this together. `Joined`, with which a document is defined, is recursive;
what one more piece adds to it (`JoinedAppend`) is shown by least counterexample.

The assumptions on constants are those of the modules: numbers are natural numbers, `MaxDepth`
of `MqttClient` and of `Shadow` and `MaxGap` and `MaxQueue` of `KeepAlive` are at least 1, the
history clocks of `KeepAlive` reach as far as the intervals they measure (`MaxInterval <=
MaxTime`), what `Sending` serializes has the types of the code's parameters, bytes, `uint16_t`
and strings whose length is one (`RequestsAssumption`), a write buffer holds at least an
acknowledgement and is no longer than a length of four digits can say (`BuffersAssumption`; the
code has 512 bytes), levels are sequences of characters (`TopicAssumption`) without separators, and wildcards stand alone
and only in filters (`FormatAssumption`), a buffer is smaller than `SizeT` (`JsonAssumption`).
`MaxCount` is at least 1 (`ShadowAssumption`); `MaxFailures`, `IndexLimit` and the bounds on what is
explored (`MaxActions`, `MaxFields`) are any natural numbers. TLC evaluates them in every run.

Only model-checked: the liveness properties `CallsReturn`, `Answered`, `SendEnds` and
`PendingEnds`; fairness and ENABLED stay with TLC.

## Plan

Done: `MqttClient`, `Session`, `Shadow`, `Sending`, `Framing`, `KeepAlive`, `TopicMatch` and
`ShadowJson` with proofs, those of `Codec` within `Sending` and `Framing`. What is left, in this order:

1. `NoGhost` for many threads that only make requests under a blocking lock.
2. `Shadow`: `initializeRecords` on a reconnect. `Session`: the read buffer, which a nested
   request overwrites under a callback.

## Not modelled

- mbedTLS and jsmn, third-party code kept in the tree. They are nineteen twentieths of its
  lines of C, so that the share of all lines that the map covers stays small; of the SDK's
  own `src/src` and `platform/linux` it covers 65%
  of the lines of code. The rest is logging, argument checks, certificate and socket set-up,
  and the parts named here.
- Received JSON documents: taken apart by jsmn and `sscanf`; what they yield, the version and
  the client token, is part of `Shadow`. The format of a number or a string in a document
  (`ShadowJson` has only its length).
- The TI-RTOS port, a second implementation of the interface that `platform/linux`
  implements, over the vendor's network stack; samples and tests, which use the API.
- The deserializers of CONNACK, SUBACK and UNSUBACK (two or three fixed fields), logging,
  certificate handling, jumps of the wall clock.
