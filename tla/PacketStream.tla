---------------------------- MODULE PacketStream ----------------------------
(***************************************************************************)
(* What the packet layer promises to the read loops of the client: the     *)
(* broker's packets one by one, in order, each complete or, when it does   *)
(* not fit in the read buffer, not at all.  Once the transport has not     *)
(* kept to its side (see Framing), nothing is promised.                    *)
(***************************************************************************)
EXTENDS Naturals, Sequences

CONSTANTS
  Fits(_),    \* does the packet fit in the read buffer?
  Packets,    \* what the broker may send
  Idle,       \* no read_packet has ended since the last one began
  Nothing,    \* read_packet found nothing to read
  Dropped     \* read_packet dropped a packet that is too long

VARIABLES
  queue,      \* the packets sent and not yet read
  result,     \* what read_packet returned last
  reliable

vars == <<queue, result, reliable>>

Init == queue = <<>> /\ result = Idle /\ reliable = TRUE

Send(p) == queue' = Append(queue, p) /\ UNCHANGED <<result, reliable>>

Begin == result' = Idle /\ UNCHANGED <<queue, reliable>>

FindNothing == result' = Nothing /\ UNCHANGED <<queue, reliable>>

Deliver ==
  /\ queue # <<>> /\ Fits(Head(queue))
  /\ result' = Head(queue)
  /\ queue' = Tail(queue)
  /\ UNCHANGED reliable

Drop ==
  /\ queue # <<>> /\ ~Fits(Head(queue))
  /\ result' = Dropped
  /\ queue' = Tail(queue)
  /\ UNCHANGED reliable

\* The transport breaks its promise, and with it this one.
Disturb == ~reliable'

Next ==
  \/ \E p \in Packets : Send(p)
  \/ Begin \/ FindNothing \/ Deliver \/ Drop
  \/ Disturb

Spec == Init /\ [][Next]_vars
=============================================================================
