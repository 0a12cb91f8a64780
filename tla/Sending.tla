------------------------------- MODULE Sending -------------------------------
(***************************************************************************)
(* One packet after the other is serialized into writeBuf and written to   *)
(* the TLS connection: send_packet and, inside it, iot_tls_write.  The     *)
(* timer may expire between any two looks at it.  ssl_write is external:   *)
(* it takes some of the bytes, asks to be called again, or fails.  One     *)
(* thread: tls_write_mutex, which keeps two sends apart, is left out.      *)
(***************************************************************************)
EXTENDS Codec, Integers

CONSTANTS
  TxBufLens,   \* the sizes of the write buffer to consider
  Requests,    \* the packets to be sent, as the parameters of their serializer
  MaxFragment, \* what one ssl_write takes at most
  Garbage      \* values that the uninitialized ret of iot_tls_write may have

ASSUME SendingAssumption ==
  /\ TxBufLens \subseteq Nat
  /\ MaxFragment \in Nat \ {0}
  /\ Garbage \subseteq Int

\* A buffer holds an acknowledgement, and no packet too long for MQTT; 2 is one digit.
ASSUME BuffersAssumption ==
  /\ Radix > 2
  /\ \A n \in TxBufLens : 4 <= n /\ n <= Radix * Radix * Radix * Radix

\* unsigned char, uint16_t, a string whose length is one, and what the serializers are called
\* with.  There is no identifier without a quality of service.
Byte    == 0..(ByteValues - 1)
Uint16  == 0..(ByteValues * ByteValues - 1)
Strings == {s \in Seq(Byte) : Len(s) \in Uint16}

AllRequests ==
  {p \in [type : {"PUBLISH"}, qos : {0, 1}, dup : {0, 1}, retain : {0, 1}, topic : Strings,
          id : Uint16, payload : Seq(Byte)] : p.qos = 0 => p.id = 0}
    \union [type : {"SUBSCRIBE", "UNSUBSCRIBE"}, id : Uint16, topics : Seq(Strings), qos : {0, 1}]
    \union [type : {"CONNECT"}, keepAlive : Uint16, clientID : Strings, will : Seq(Strings),
            username : Seq(Strings), password : Seq(Strings)]
    \union [type : {"PUBACK"}, dup : {0, 1}, id : Uint16]
    \union [type : {"PINGREQ", "DISCONNECT"}]

ASSUME RequestsAssumption == Requests \subseteq AllRequests

VARIABLES
  writeBufSize,
  pc,        \* "idle", or the place in send_packet or iot_tls_write
  request,   \* the packet that is sent, or was sent last
  writeBuf,  \* the serialized bytes
  expired,   \* has_timer_expired
  sent,      \* of send_packet
  written,   \* written_so_far of iot_tls_write
  ret,       \* of iot_tls_write
  isErrorFlag,
  rc,        \* what the last send returned
  onWire     \* history: the bytes of this packet that ssl_write has taken

vars == <<writeBufSize, pc, request, writeBuf, expired, sent, written, ret, isErrorFlag, rc, onWire>>

WANT_WRITE == -1    \* any negative value: it never makes written_so_far equal len
Stale      == -2    \* a byte of the buffer behind the packet

Places == {"idle", "send", "for", "while", "advance", "written", "sent"}

length == Len(writeBuf)

\* The locals have their types.  send_packet counts nothing or the whole packet;
\* written_so_far stays within the packet as long as the timer runs (then a left-over ret may be
\* added to it once more).
TypeOK ==
  /\ writeBufSize \in TxBufLens
  /\ pc \in Places
  /\ request \in Requests
  /\ expired \in BOOLEAN
  /\ sent \in {0, length}
  /\ written \in Int /\ (~expired => written \in 0..length)
  /\ ret \in Int
  /\ isErrorFlag \in BOOLEAN
  /\ rc \in {"NONE", "SUCCESS", "FAILURE", "TOO_SHORT"}
  /\ Len(onWire) <= length

Init ==
  /\ writeBufSize \in TxBufLens
  /\ pc = "idle"
  /\ request \in Requests
  /\ writeBuf = <<>>
  /\ expired = FALSE
  /\ sent = 0 /\ written = 0 /\ ret = 0
  /\ isErrorFlag = FALSE
  /\ rc = "NONE"
  /\ onWire = <<>>

\* Time passes.
Expire ==
  /\ pc # "idle" /\ ~expired
  /\ expired' = TRUE
  /\ UNCHANGED <<writeBufSize, pc, request, writeBuf, sent, written, ret, isErrorFlag, rc, onWire>>

\* A call serializes its packet; send_packet does not accept one that fills the buffer.
Start(p) ==
  /\ pc = "idle"
  /\ request' = p
  /\ writeBuf' = Serialize(p, writeBufSize)
  /\ expired' = FALSE
  /\ sent' = 0
  /\ onWire' = <<>>
  /\ IF writeBuf' = TooShort \/ Len(writeBuf') >= writeBufSize
     THEN pc' = "idle" /\ rc' = "TOO_SHORT"
     ELSE pc' = "send" /\ rc' = "NONE"
  /\ UNCHANGED <<writeBufSize, written, ret, isErrorFlag>>

\* The loop of send_packet: the whole length is handed to the network again.
SendLoop ==
  /\ pc = "send"
  /\ IF sent < length /\ ~expired
     THEN /\ pc' = "for"
          /\ written' = 0
          /\ isErrorFlag' = FALSE
          /\ ret' \in Garbage
     ELSE pc' = "sent" /\ UNCHANGED <<writeBufSize, written, ret, isErrorFlag>>
  /\ UNCHANGED <<writeBufSize, request, writeBuf, expired, sent, rc, onWire>>

\* The condition of iot_tls_write's for loop.
ForLoop ==
  /\ pc = "for"
  /\ pc' = IF written < length /\ ~expired THEN "while" ELSE "written"
  /\ UNCHANGED <<writeBufSize, request, writeBuf, expired, sent, written, ret, isErrorFlag, rc, onWire>>

\* The n bytes at pMsg + written_so_far; pMsg is writeBuf + sent.
Bytes(n) ==
  [i \in 1..n |-> LET at == sent + written + i IN IF at <= length THEN writeBuf[at] ELSE Stale]

\* Mutant: the inner loop goes on until something is written, whatever the timer says.
WriteLoopUntimed ==
  /\ pc = "while" /\ expired
  /\ ret' \in {WANT_WRITE, WANT_WRITE - 1} \ {ret}
  /\ UNCHANGED <<writeBufSize, pc, request, writeBuf, expired, sent, written, isErrorFlag, rc, onWire>>

\* The while loop: look at the timer, call ssl_write, again if it took nothing.
WriteLoopExpired ==
  /\ pc = "while" /\ expired
  /\ pc' = "advance"
  /\ UNCHANGED <<writeBufSize, request, writeBuf, expired, sent, written, ret, isErrorFlag, rc, onWire>>

WriteLoopTakes ==
  /\ pc = "while" /\ ~expired
  /\ ret' = IF length - written > MaxFragment THEN MaxFragment ELSE length - written
  /\ onWire' = onWire \o Bytes(ret')
  /\ pc' = "advance"
  /\ UNCHANGED <<writeBufSize, request, writeBuf, expired, sent, written, isErrorFlag, rc>>

WriteLoopAgain ==
  /\ pc = "while" /\ ~expired
  /\ ret' = WANT_WRITE
  /\ UNCHANGED <<writeBufSize, pc, request, writeBuf, expired, sent, written, isErrorFlag, rc, onWire>>

WriteLoopFails ==
  /\ pc = "while" /\ ~expired
  /\ isErrorFlag' = TRUE
  /\ pc' = "written"
  /\ UNCHANGED <<writeBufSize, request, writeBuf, expired, sent, written, ret, rc, onWire>>

\* Mutant: the bytes written are not added up.
AdvanceReset ==
  /\ pc = "advance"
  /\ written' = ret
  /\ pc' = "for"
  /\ UNCHANGED <<writeBufSize, request, writeBuf, expired, sent, ret, isErrorFlag, rc, onWire>>

\* written_so_far += ret: with the timer expired, ret is what an earlier round left there.
Advance ==
  /\ pc = "advance"
  /\ written' = written + ret
  /\ pc' = "for"
  /\ UNCHANGED <<writeBufSize, request, writeBuf, expired, sent, ret, isErrorFlag, rc, onWire>>

\* Mutant: an error is taken for the end of the packet.
WriteReturnsNoError ==
  /\ pc = "written"
  /\ sent' = sent + length
  /\ pc' = "send"
  /\ UNCHANGED <<writeBufSize, request, writeBuf, expired, written, ret, isErrorFlag, rc, onWire>>

\* Mutant: what was written counts although the call has failed.
WriteReturnsCounts ==
  /\ pc = "written"
  /\ sent' = sent + written
  /\ pc' = IF isErrorFlag \/ (expired /\ written # length) THEN "sent" ELSE "send"
  /\ UNCHANGED <<writeBufSize, request, writeBuf, expired, written, ret, isErrorFlag, rc, onWire>>

\* iot_tls_write returns; after an error send_packet leaves its loop, and does not count.
WriteReturns ==
  /\ pc = "written"
  /\ IF isErrorFlag \/ (expired /\ written # length)
     THEN pc' = "sent" /\ UNCHANGED sent
     ELSE pc' = "send" /\ sent' = sent + written
  /\ UNCHANGED <<writeBufSize, request, writeBuf, expired, written, ret, isErrorFlag, rc, onWire>>

SendReturns ==
  /\ pc = "sent"
  /\ rc' = IF sent = length THEN "SUCCESS" ELSE "FAILURE"
  /\ pc' = "idle"
  /\ sent' = 0 /\ written' = 0 /\ ret' = 0 /\ isErrorFlag' = FALSE     \* the locals are gone
  /\ UNCHANGED <<writeBufSize, request, writeBuf, expired, onWire>>

WriteStep ==
  \/ SendLoop \/ ForLoop \/ Advance \/ WriteReturns \/ SendReturns
  \/ WriteLoopExpired \/ WriteLoopTakes \/ WriteLoopAgain \/ WriteLoopFails

Next ==
  \/ \E p \in Requests : Start(p)
  \/ WriteStep
  \/ Expire

Spec == Init /\ [][Next]_vars

\* The thread goes on, and time does.
FairSpec == Spec /\ WF_vars(WriteStep) /\ WF_vars(Expire)
-----------------------------------------------------------------------------
(* Properties.                                                             *)

\* The length that a packet announces is the number of bytes behind it, for every serializer
\* (each computes the length in one place and writes the fields in another), and the packet
\* ends inside the buffer (the serializers check an estimate of its size).  A request is refused
\* only when its packet would fill the buffer: the estimate of get_final_packet_length is one
\* byte too high just below the boundaries of the encoding, and the packets it refuses for that
\* are those that send_packet would not take either.
LengthExact ==
  /\ writeBuf # TooShort =>
       LET decoded == DecodeRemainingLength(Tail(writeBuf))
       IN /\ decoded.ok
          /\ length = 1 + decoded.bytes + decoded.length
          /\ length <= writeBufSize
  /\ rc = "TOO_SHORT" => Len(Serialize(request, 2 * writeBufSize)) \notin 1..(writeBufSize - 1)

\* What the serializers of PUBLISH and PUBACK write, the deserializers read back.
RoundTrip ==
  writeBuf # TooShort =>
    /\ request.type = "PUBLISH" => DeserializePublish(writeBuf) = request
    /\ request.type = "PUBACK"  => DeserializeAck(writeBuf) = request

\* The bytes on the wire are always a prefix of the packet: no byte is skipped or written
\* twice and none from behind the packet, although send_packet passes the whole length again
\* on every round of its loop.
OnWirePrefix ==
  /\ Len(onWire) <= length
  /\ onWire = SubSeq(writeBuf, 1, Len(onWire))

\* What send_packet returns is true of the wire: a packet that failed did not go out as a
\* whole (the caller may send it again), and one that succeeded before its timer expired did.
\* With the timer expired between the two looks at it in iot_tls_write, ret is a left-over,
\* and success may be reported for a packet that was cut.
ReturnTrue ==
  /\ rc = "FAILURE" => Len(onWire) < length
  /\ rc = "SUCCESS" /\ ~expired => Len(onWire) = length

\* A send ends, whatever ssl_write answers: every loop looks at the timer.
SendEnds == pc = "send" ~> pc = "idle"
=============================================================================
