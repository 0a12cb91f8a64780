------------------------------- MODULE Framing -------------------------------
(***************************************************************************)
(* read_packet over iot_tls_read over a TLS connection.  The broker's      *)
(* packets travel as bytes in TLS records; ssl_read hands out at most one  *)
(* record, gives up after IOT_SSL_READ_TIMEOUT when nothing has come, asks *)
(* to be called again when a signal interrupts it, and returns 0 when the  *)
(* peer has closed the connection (external).  The timer of the call that  *)
(* reads runs on meanwhile.  A byte is known by its packet and its place   *)
(* in it; what a stray byte means as a digit of a length is left open.     *)
(***************************************************************************)
EXTENDS Codec

CONSTANTS
  RemLens,      \* the remaining lengths of the broker's packets
  ReadBufSize,  \* readBufSize
  MaxPackets,   \* bound: packets sent
  MaxRecords,   \* bound: TLS records under way
  CanCut        \* may a TLS record end inside a packet?

ASSUME FramingAssumption ==
  /\ RemLens \subseteq Nat
  /\ ReadBufSize \in Nat \ {0}
  /\ MaxPackets \in Nat
  /\ MaxRecords \in Nat
  /\ CanCut \in BOOLEAN

VARIABLES
  packets,      \* history: the remaining length of every packet sent
  outbox,       \* the broker's bytes that are not in a record yet
  wire,         \* the records under way, the first one partly read
  cut,          \* history: a record has ended inside a packet
  interrupted,  \* history: a read had neither bytes nor an error when its time was up
  pc,           \* what read_packet reads: "idle" outside it
  timer,        \* "running", "ending" (less than a millisecond left), "expired"
  want, got, buf,             \* iot_tls_read: len, rxLen, pMsg
  header, rem, multiplier, total, \* read_packet: the header byte, rem_len, multiplier, total_bytes_read
  result,       \* what read_packet returned
  next          \* history: the first packet that has not been returned or dropped

transport == <<packets, outbox, wire, cut>>
locals    == <<header, rem, multiplier, total>>
vars      == <<transport, interrupted, pc, timer, want, got, buf, locals, result, next>>

NoByte  == <<0, 0>>
Idle    == [kind |-> "IDLE"]
Nothing == [kind |-> "MQTT_NOTHING_TO_READ"]
Failed  == [kind |-> "FAILURE"]
Dropped == [kind |-> "MQTT_RX_BUFFER_TOO_SHORT_ERROR"]

\* A packet as read_packet leaves it in the buffer.
InBuffer(head, length, body) == [kind |-> "SUCCESS", header |-> head, length |-> length, body |-> body]

-----------------------------------------------------------------------------
(* The broker and the connection (external).                               *)

FixedLength(k) == 1 + Len(WriteLen(packets[k]))      \* header byte and remaining length
TotalLength(k) == FixedLength(k) + packets[k]

\* Packet k as the broker sent it.
Image(k) ==
  InBuffer(<<k, 1>>, packets[k], [i \in 1..packets[k] |-> <<k, FixedLength(k) + i>>])

Undisturbed == ~cut /\ ~interrupted

BrokerSend(length) ==
  /\ Len(packets) < MaxPackets /\ Undisturbed
  /\ packets' = Append(packets, length)
  /\ outbox' = outbox \o [i \in 1..(1 + Len(WriteLen(length)) + length) |-> <<Len(packets'), i>>]
  /\ UNCHANGED <<wire, cut, interrupted, pc, timer, want, got, buf, locals, result, next>>

\* The first n bytes of the outbox become a record.  Bound: one cut.
RecordArrives(n) ==
  LET whole == outbox[n][2] = TotalLength(outbox[n][1])
  IN /\ Len(wire) < MaxRecords
     /\ ~whole => CanCut /\ ~cut
     /\ wire' = Append(wire, SubSeq(outbox, 1, n))
     /\ outbox' = From(outbox, n + 1)
     /\ cut' = (cut \/ ~whole)
     /\ UNCHANGED <<packets, interrupted, pc, timer, want, got, buf, locals, result, next>>

-----------------------------------------------------------------------------
(* read_packet, by what each of its calls of iot_tls_read returns: rc, the *)
(* number of bytes n, the bytes, and the timer t.                          *)

Read(length) == want' = length /\ got' = 0 /\ buf' = <<>>

Return(value) ==
  /\ pc' = "idle"
  /\ result' = value
  /\ next' = IF value \in {Nothing, Failed} \/ next > MaxPackets THEN next ELSE next + 1
  /\ timer' = "expired"                       \* not looked at until the next call
  /\ Read(0)
  /\ header' = NoByte /\ rem' = 0 /\ multiplier' = 1 /\ total' = 0

\* Any error but NOTHING_TO_READ is passed over.
HeaderRead(rc, bytes, t) ==
  IF rc = "NOTHING" THEN Return(Nothing)
  ELSE /\ pc' = "length"
       /\ header' = IF bytes = <<>> THEN NoByte ELSE bytes[1]
       /\ Read(1)
       /\ timer' = t
       /\ UNCHANGED <<rem, multiplier, total, result, next>>

\* What the byte means as a digit.  Bound: a stray byte does not make a length longer than
\* four digits.
DigitValues(bytes) ==
  LET place == bytes[1][2]
      k     == bytes[1][1]
  IN IF bytes # <<>> /\ place \in 2..FixedLength(k)
     THEN {WriteLen(packets[k])[place - 1]}
     ELSE {d \in 0..(ByteValues - 1) : d < Radix \/ multiplier < Radix * Radix * Radix}

\* Mutant: a packet as long as the buffer is taken.
TooLongOffByOne(length) == length > ReadBufSize

TooLong(length) == length >= ReadBufSize

\* One round of decode_packet_remaining_len, and what read_packet does after the last.  The
\* limit on the number of digits is without effect: the counter it looks at is overwritten
\* with the number of bytes read.  The size of the buffer is compared with the length alone,
\* although the body will be stored behind the header byte and the digits (Offset).
LengthRead(rc, bytes, t) ==
  IF rc # "SUCCESS" THEN Return(Failed)
  ELSE \E d \in DigitValues(bytes) :
         LET length == rem + (d % Radix) * multiplier
         IN IF d < Radix /\ length = 0 THEN Return(InBuffer(header, 0, <<>>))
            ELSE /\ rem' = length
                 /\ timer' = t
                 /\ IF d >= Radix THEN pc' = "length" /\ multiplier' = multiplier * Radix /\ Read(1)
                    ELSE /\ multiplier' = 1          \* the local is gone
                         /\ IF TooLong(length) THEN pc' = "drop" /\ Read(ReadBufSize)
                            ELSE pc' = "body" /\ Read(length)
                 /\ UNCHANGED <<header, total, result, next>>

\* Mutant: a whole buffer is read every time.
DropReadWhole(rc, n, t) ==
  IF rc # "SUCCESS" \/ total + n >= rem THEN Return(Dropped)
  ELSE /\ total' = total + n
       /\ timer' = t
       /\ Read(ReadBufSize)
       /\ UNCHANGED <<pc, header, rem, multiplier, result, next>>

\* Mutant: the end is missed when more than the length has been read.
DropReadExact(rc, n, t) ==
  IF rc # "SUCCESS" \/ total + n = rem THEN Return(Dropped)
  ELSE /\ total' = total + n
       /\ timer' = t
       /\ Read(IF rem - total' >= ReadBufSize THEN ReadBufSize ELSE rem - total')
       /\ UNCHANGED <<pc, header, rem, multiplier, result, next>>

\* A packet that is too long is read in pieces and dropped.
DropRead(rc, n, t) ==
  IF rc # "SUCCESS" \/ total + n >= rem THEN Return(Dropped)
  ELSE /\ total' = total + n
       /\ timer' = t
       /\ Read(IF rem - total' >= ReadBufSize THEN ReadBufSize ELSE rem - total')
       /\ UNCHANGED <<pc, header, rem, multiplier, result, next>>

BodyRead(rc, n, bytes) ==
  Return(IF rc # "SUCCESS" \/ n # rem THEN Failed ELSE InBuffer(header, rem, bytes))

TlsReturns(rc, n, bytes, t) ==
  CASE pc = "header" -> HeaderRead(rc, bytes, t)
    [] pc = "length" -> LengthRead(rc, bytes, t)
    [] pc = "drop"   -> DropRead(rc, n, t)
    [] OTHER         -> BodyRead(rc, n, bytes)

\* Where in readBuf the bytes go: a body behind the header byte and its length, written anew.
Offset == IF pc = "body" THEN 1 + Len(WriteLen(rem)) ELSE 0

-----------------------------------------------------------------------------
(* iot_tls_read: its loop ends when the bytes are there, on an error, or   *)
(* when the timer has less than a millisecond left.                        *)

Later == CASE timer = "running" -> {"running", "ending", "expired"}
           [] timer = "ending"  -> {"ending", "expired"}
           [] OTHER             -> {"expired"}

\* The fragment is written to the start of the buffer, whatever has been read before.
Overwrite(bytes) == bytes \o From(buf, Len(bytes) + 1)

Rc(error, n, t) ==
  IF n = 0 /\ error THEN "NOTHING"
  ELSE IF t = "expired" /\ n < want THEN "TIMEOUT"
  ELSE "SUCCESS"

\* After an ssl_read: another round, or the end.
AfterSslRead(error, bytes, t) ==
  LET n == got + Len(bytes)
  IN IF ~error /\ n < want /\ t = "running"
     THEN /\ got' = n /\ buf' = Overwrite(bytes) /\ timer' = t
          /\ UNCHANGED <<pc, want, locals, result, next>>
     ELSE TlsReturns(Rc(error, n, t), n, Overwrite(bytes), t)

SslReadBytes ==
  /\ pc # "idle" /\ wire # <<>>
  /\ LET r == IF want < Len(wire[1]) THEN want ELSE Len(wire[1])
     IN /\ wire' = IF r = Len(wire[1]) THEN Tail(wire) ELSE [wire EXCEPT ![1] = From(wire[1], r + 1)]
        /\ \E t \in Later : AfterSslRead(FALSE, SubSeq(wire[1], 1, r), t)
  /\ UNCHANGED <<packets, outbox, cut, interrupted>>

\* Nothing has come for IOT_SSL_READ_TIMEOUT, or the connection was reset.
SslReadFails ==
  /\ pc # "idle" /\ wire = <<>>
  /\ \E t \in Later : AfterSslRead(TRUE, <<>>, t)
  /\ UNCHANGED <<transport, interrupted>>

\* MBEDTLS_ERR_SSL_WANT_READ, or 0 at the end of file: neither bytes nor an error.  The loop
\* asks again until its time is up.
SslReadAgain ==
  /\ pc # "idle" /\ wire = <<>>
  /\ \E t \in Later : /\ interrupted' = (interrupted \/ t # "running")
                       /\ AfterSslRead(FALSE, <<>>, t)
  /\ UNCHANGED transport

\* cycle_read is called, by a loop that has just found its timer running.  Bound: the call
\* that is in progress when the transport disturbs it is the last one.
ReadPacket ==
  /\ pc = "idle" /\ Undisturbed
  /\ pc' = "header"
  /\ timer' = "running"
  /\ result' = Idle
  /\ Read(1)
  /\ UNCHANGED <<transport, interrupted, locals, next>>

-----------------------------------------------------------------------------

Init ==
  /\ packets = <<>> /\ outbox = <<>> /\ wire = <<>>
  /\ cut = FALSE /\ interrupted = FALSE
  /\ pc = "idle" /\ timer = "expired"
  /\ want = 0 /\ got = 0 /\ buf = <<>>
  /\ header = NoByte /\ rem = 0 /\ multiplier = 1 /\ total = 0
  /\ result = Idle
  /\ next = 1

Next ==
  \/ \E length \in RemLens : BrokerSend(length)
  \/ \E n \in DOMAIN outbox : RecordArrives(n)
  \/ ReadPacket
  \/ SslReadBytes
  \/ SslReadFails
  \/ SslReadAgain

Spec == Init /\ [][Next]_vars

-----------------------------------------------------------------------------
(* Properties.                                                             *)

TypeOK ==
  /\ packets \in Seq(RemLens)
  /\ cut \in BOOLEAN /\ interrupted \in BOOLEAN
  /\ pc \in {"idle", "header", "length", "drop", "body"}
  /\ timer \in {"running", "ending", "expired"}
  /\ want \in 0..ReadBufSize /\ got \in 0..want
  /\ rem \in Nat /\ multiplier \in Nat /\ total \in 0..rem
  /\ next \in 1..(MaxPackets + 1)

\* "If a received message is bigger than this buffer size the message will be dropped": what
\* is read ends in the buffer.  The remaining length leaves the first bytes out, and a body just
\* shorter than the buffer goes beyond its end, in the best of circumstances.
BodyFits == Undisturbed => Offset + want <= ReadBufSize

\* The bytes that read_packet has not taken, in order.
Unread ==
  LET joined[i \in 0..Len(wire)] == IF i = 0 THEN <<>> ELSE joined[i - 1] \o wire[i]
  IN joined[Len(wire)] \o outbox

\* As long as every packet comes in one piece, read_packet starts at the first byte of a
\* packet: at whatever point the timer expires, no byte of a packet stays behind and none of
\* the next one is taken, packets that are dropped in pieces included.
InStep ==
  Undisturbed /\ pc \in {"idle", "header"} /\ Unread # <<>> => Unread[1] = <<next, 1>>

\* What the broker may send: a packet of length n as the k-th one.
PacketOf(k, n) == InBuffer(<<k, 1>>, n, [i \in 1..n |-> <<k, 1 + Len(WriteLen(n)) + i>>])
Sendable       == {PacketOf(k, n) : k \in 1..MaxPackets, n \in RemLens}

\* What read_packet takes for a packet that fits.
FitsBuffer(p) == p.length < ReadBufSize

Stream == INSTANCE PacketStream WITH
  Fits     <- FitsBuffer,
  Packets  <- Sendable,
  queue    <- [i \in 1..(Len(packets) + 1 - next) |-> Image(next + i - 1)],
  reliable <- Undisturbed

\* The packets are returned in order, complete and unaltered, or dropped because of their
\* length, and none is lost or returned twice.
InOrderOnce == Stream!Spec
=============================================================================
