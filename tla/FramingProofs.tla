---------------------------- MODULE FramingProofs ----------------------------
(***************************************************************************)
(* The packet layer implements PacketStream: for all packets, lengths,     *)
(* buffers and records, and for every base of the length's digits.         *)
(***************************************************************************)
EXTENDS Framing, WellFoundedInduction, SequenceTheorems, TLAPS

-----------------------------------------------------------------------------
(* The remaining length.                                                   *)

\* Every set of numbers that is not empty has a least element.
LEMMA LeastNumber ==
  ASSUME NEW S, S \subseteq Nat, S # {}
  PROVE  \E m \in S : \A k \in S : m <= k
<1> DEFINE R == OpToRel(<, Nat)
<1>1. \A x, y \in Nat : y < x => <<y, x>> \in R
  BY DEF OpToRel
<1>2. IsWellFoundedOn(R, Nat)
  BY NatLessThanWellFounded
<1> HIDE DEF R
<1>3. \E m \in S : \A k \in S : <<k, m>> \notin R
  BY <1>2, WFMin
<1>4. \E m \in S : \A k \in S : ~(k < m)
  BY <1>1, <1>3
<1> QED BY <1>4

\* Quotient and remainder.
LEMMA Quotient ==
  ASSUME NEW n \in Nat
  PROVE  /\ n \div Radix \in Nat
         /\ n % Radix \in 0..(Radix - 1)
         /\ n = Radix * (n \div Radix) + (n % Radix)
         /\ n >= Radix => n \div Radix < n /\ n \div Radix > 0
BY RadixAssumption

\* The digits of m, if f has those of smaller numbers.
DigitsOf(f, m) == IF m < Radix THEN <<m>> ELSE <<Radix + (m % Radix)>> \o f[m \div Radix]

\* f has the digits of all numbers up to n.
Codes(f, n) == f = [m \in 0..n |-> DigitsOf(f, m)]

\* The recursive definition of write_len has a solution up to every number.
LEMMA CodesExists ==
  ASSUME NEW n \in Nat
  PROVE  \E f : Codes(f, n)
<1> DEFINE Bad == {m \in Nat : ~\E f : Codes(f, m)}
<1> SUFFICES ASSUME Bad # {} PROVE FALSE
  OBVIOUS
<1>1. PICK m \in Bad : \A k \in Bad : m <= k
  <2>1. Bad \subseteq Nat
    OBVIOUS
  <2> HIDE DEF Bad
  <2> QED BY <2>1, LeastNumber
<1>2. m \in Nat /\ ~\E f : Codes(f, m)
  BY <1>1
<1>3. CASE m = 0
  <2>1. PICK f : f = [i \in 0..0 |-> <<0>>]
    OBVIOUS
  <2>2. \A i \in 0..0 : DigitsOf(f, i) = <<0>>
    BY RadixAssumption DEF DigitsOf
  <2>3. Codes(f, 0)
    BY <2>1, <2>2 DEF Codes
  <2> QED BY <1>2, <1>3, <2>3
<1>4. CASE m > 0
  <2>1. m - 1 \in Nat /\ m - 1 \notin Bad
    BY <1>1, <1>2, <1>4
  <2>2. PICK f : Codes(f, m - 1)
    BY <2>1
  <2>3. PICK g : g = [i \in 0..m |-> IF i = m THEN DigitsOf(f, m) ELSE f[i]]
    OBVIOUS
  <2>4. \A i \in 0..(m - 1) : g[i] = f[i] /\ f[i] = DigitsOf(f, i)
    BY SMTT(30), <1>2, <1>4, <2>2, <2>3 DEF Codes
  <2>5. ASSUME NEW i \in 0..m PROVE DigitsOf(g, i) = DigitsOf(f, i)
    <3>1. CASE i < Radix
      BY <3>1 DEF DigitsOf
    <3>2. CASE ~(i < Radix)
      <4>1. i \div Radix \in 0..(m - 1)
        <5>1. i \in Nat /\ i >= Radix
          BY <1>2, <3>2, RadixAssumption
        <5>2. i \div Radix \in Nat /\ i \div Radix < i
          BY <5>1, Quotient
        <5> QED BY <1>2, <5>2
      <4>2. g[i \div Radix] = f[i \div Radix]
        BY <2>4, <4>1
      <4> QED BY <4>2 DEF DigitsOf
    <3> QED BY <3>1, <3>2
  <2>6. ASSUME NEW i \in 0..m PROVE g[i] = DigitsOf(g, i)
    <3>1. CASE i = m
      BY <2>3, <2>5, <3>1
    <3>2. CASE i # m
      <4>1. i \in 0..(m - 1)
        BY <1>2, <3>2
      <4> QED BY <2>4, <2>5, <4>1
    <3> QED BY <3>1, <3>2
  <2>7. Codes(g, m)
    <3>1. g = [i \in 0..m |-> g[i]]
      BY <2>3
    <3> QED BY <2>6, <3>1 DEF Codes
  <2> QED BY <1>2, <2>7
<1> QED BY <1>2, <1>3, <1>4

\* Two such solutions agree.
LEMMA CodesAgree ==
  ASSUME NEW n \in Nat, NEW m \in Nat, NEW f, NEW g, Codes(f, n), Codes(g, m),
         NEW k \in Nat, k <= n, k <= m
  PROVE  f[k] = g[k]
<1> DEFINE Bad == {i \in Nat : i <= n /\ i <= m /\ f[i] # g[i]}
<1> SUFFICES ASSUME Bad # {} PROVE FALSE
  OBVIOUS
<1>1. PICK i \in Bad : \A j \in Bad : i <= j
  <2>1. Bad \subseteq Nat
    OBVIOUS
  <2> HIDE DEF Bad
  <2> QED BY <2>1, LeastNumber
<1>2. i \in Nat /\ i <= n /\ i <= m /\ f[i] # g[i]
  BY <1>1
<1>3. f[i] = DigitsOf(f, i) /\ g[i] = DigitsOf(g, i)
  <2>1. i \in 0..n /\ i \in 0..m
    BY <1>2
  <2>2. \A j \in 0..n : f[j] = DigitsOf(f, j)
    BY DEF Codes
  <2>3. \A j \in 0..m : g[j] = DigitsOf(g, j)
    BY DEF Codes
  <2> QED BY <2>1, <2>2, <2>3
<1>4. CASE i < Radix
  BY <1>2, <1>3, <1>4 DEF DigitsOf
<1>5. CASE ~(i < Radix)
  <2>1. i \div Radix \in Nat /\ i \div Radix < i
    BY <1>2, <1>5, Quotient, RadixAssumption
  <2>2. i \div Radix \notin Bad
    BY <1>1, <1>2, <2>1
  <2>3. f[i \div Radix] = g[i \div Radix]
    BY <1>2, <2>1, <2>2
  <2> QED BY <1>2, <1>3, <2>3 DEF DigitsOf
<1> QED BY <1>4, <1>5

\* What write_len does: the digits of a number, the lowest first.
LEMMA WriteLenRecursion ==
  ASSUME NEW n \in Nat
  PROVE  WriteLen(n) = IF n < Radix THEN <<n>> ELSE <<Radix + (n % Radix)>> \o WriteLen(n \div Radix)
<1> DEFINE Solves(f) == f = [m \in Nat |-> DigitsOf(f, m)]
<1>1. PICK g : g = [m \in Nat |-> (CHOOSE f : Codes(f, m))[m]]
  OBVIOUS
<1>2. ASSUME NEW m \in Nat, NEW f, Codes(f, m), NEW k \in 0..m
      PROVE  g[k] = f[k]
  <2>1. k \in Nat /\ k <= m
    OBVIOUS
  <2>2. PICK h : h = CHOOSE e : Codes(e, k)
    OBVIOUS
  <2>3. Codes(h, k)
    BY <2>1, <2>2, CodesExists
  <2>4. g[k] = h[k]
    BY <1>1, <2>1, <2>2
  <2>5. h[k] = f[k]
    BY <1>2, <2>1, <2>3, CodesAgree
  <2> QED BY <2>4, <2>5
<1>3. ASSUME NEW m \in Nat PROVE g[m] = DigitsOf(g, m)
  <2>1. PICK f : Codes(f, m)
    BY CodesExists
  <2>2. g[m] = DigitsOf(f, m)
    <3>1. m \in 0..m
      OBVIOUS
    <3>2. g[m] = f[m]
      BY <1>2, <2>1, <3>1
    <3> QED BY <2>1, <3>1, <3>2 DEF Codes
  <2>3. CASE m < Radix
    BY <2>2, <2>3 DEF DigitsOf
  <2>4. CASE ~(m < Radix)
    <3>1. m \div Radix \in 0..m
      BY <2>4, Quotient, RadixAssumption
    <3>2. g[m \div Radix] = f[m \div Radix]
      BY <1>2, <2>1, <3>1
    <3> QED BY <2>2, <3>2 DEF DigitsOf
  <2> QED BY <2>3, <2>4
<1>4. Solves(g)
  <2>1. g = [m \in Nat |-> g[m]]
    BY <1>1
  <2> QED BY <1>3, <2>1
<1>5. write_len = CHOOSE f : Solves(f)
  BY DEF write_len, DigitsOf
<1>6. Solves(write_len)
  <2> HIDE DEF Solves
  <2> QED BY <1>4, <1>5
<1>7. write_len[n] = DigitsOf(write_len, n)
  BY <1>6
<1> QED BY <1>7 DEF WriteLen, DigitsOf

\* The first digit, and the others, which are those of the quotient.
LEMMA WriteLenFirst ==
  ASSUME NEW n \in Nat, WriteLen(n \div Radix) \in Seq(0..(ByteValues - 1))
  PROVE  /\ WriteLen(n) \in Seq(0..(ByteValues - 1))
         /\ n < Radix => Len(WriteLen(n)) = 1 /\ WriteLen(n)[1] = n
         /\ n >= Radix => /\ Len(WriteLen(n)) = 1 + Len(WriteLen(n \div Radix))
                          /\ WriteLen(n)[1] = Radix + (n % Radix)
                          /\ \A i \in 1..Len(WriteLen(n \div Radix)) :
                               WriteLen(n)[i + 1] = WriteLen(n \div Radix)[i]
<1>1. PICK w \in Seq(0..(ByteValues - 1)) : w = WriteLen(n \div Radix)
  OBVIOUS
<1>2. CASE n < Radix
  <2>1. WriteLen(n) = <<n>>
    BY <1>2, WriteLenRecursion
  <2>2. n \in 0..(ByteValues - 1)
    BY <1>2, RadixAssumption DEF ByteValues
  <2> QED BY <1>2, <2>1, <2>2, RadixAssumption
<1>3. CASE n >= Radix
  <2>1. PICK d \in 0..(ByteValues - 1) : d = Radix + (n % Radix)
    <3>1. PICK r \in 0..(Radix - 1) : r = n % Radix
      BY Quotient
    <3>2. Radix + r \in 0..(ByteValues - 1)
      BY RadixAssumption DEF ByteValues
    <3> QED BY <3>1, <3>2
  <2>2. WriteLen(n) = <<d>> \o w
    <3>1. ~(n < Radix)
      BY <1>3, RadixAssumption
    <3> QED BY <1>1, <2>1, <3>1, WriteLenRecursion
  <2>3. <<d>> \in Seq(0..(ByteValues - 1)) /\ Len(<<d>>) = 1 /\ <<d>>[1] = d
    OBVIOUS
  <2>4. /\ <<d>> \o w \in Seq(0..(ByteValues - 1)) /\ Len(<<d>> \o w) = 1 + Len(w)
        /\ \A i \in 1..(1 + Len(w)) : (<<d>> \o w)[i] = IF i <= 1 THEN <<d>>[i] ELSE w[i - 1]
    BY <1>1, <2>3, ConcatProperties
  <2>5. Len(w) \in Nat
    BY <1>1
  <2>6. (<<d>> \o w)[1] = d /\ \A i \in 1..Len(w) : (<<d>> \o w)[i + 1] = w[i]
    BY <2>3, <2>4, <2>5
  <2> QED BY <1>1, <1>3, <2>1, <2>2, <2>4, <2>6, RadixAssumption
<1> QED BY <1>2, <1>3, RadixAssumption

\* The digits are bytes.
LEMMA WriteLenBytes ==
  ASSUME NEW n \in Nat
  PROVE  WriteLen(n) \in Seq(0..(ByteValues - 1))
<1> DEFINE Bad == {m \in Nat : WriteLen(m) \notin Seq(0..(ByteValues - 1))}
<1> SUFFICES ASSUME Bad # {} PROVE FALSE
  OBVIOUS
<1>1. PICK m \in Bad : \A k \in Bad : m <= k
  <2>1. Bad \subseteq Nat
    OBVIOUS
  <2> HIDE DEF Bad
  <2> QED BY <2>1, LeastNumber
<1>2. m \in Nat /\ WriteLen(m) \notin Seq(0..(ByteValues - 1))
  BY <1>1
<1>3. CASE m < Radix
  <2>1. WriteLen(m) = <<m>>
    BY <1>2, <1>3, WriteLenRecursion
  <2>2. m \in 0..(ByteValues - 1)
    BY <1>2, <1>3, RadixAssumption DEF ByteValues
  <2> QED BY <1>2, <2>1, <2>2
<1>4. CASE ~(m < Radix)
  <2>1. m \div Radix \in Nat /\ m \div Radix < m
    BY <1>2, <1>4, Quotient, RadixAssumption
  <2>2. m \div Radix \notin Bad
    BY <1>1, <1>2, <2>1
  <2> QED BY <1>2, <2>1, <2>2, WriteLenFirst
<1> QED BY <1>3, <1>4

\* The digits of a number: one if it is small, else one and those of the quotient.
LEMMA Digits ==
  ASSUME NEW n \in Nat
  PROVE  /\ WriteLen(n) \in Seq(0..(ByteValues - 1))
         /\ Len(WriteLen(n)) \in Nat \ {0}
         /\ n < Radix => Len(WriteLen(n)) = 1 /\ WriteLen(n)[1] = n
         /\ n >= Radix => /\ Len(WriteLen(n)) = 1 + Len(WriteLen(n \div Radix))
                          /\ Len(WriteLen(n \div Radix)) \in Nat
                          /\ WriteLen(n)[1] = Radix + (n % Radix)
                          /\ \A i \in 1..Len(WriteLen(n \div Radix)) :
                               WriteLen(n)[i + 1] = WriteLen(n \div Radix)[i]
<1>1. n \div Radix \in Nat
  BY Quotient
<1>2. WriteLen(n \div Radix) \in Seq(0..(ByteValues - 1))
  BY <1>1, WriteLenBytes
<1>3. Len(WriteLen(n \div Radix)) \in Nat
  BY <1>2
<1>4. WriteLen(n) \in Seq(0..(ByteValues - 1))
  BY <1>2, WriteLenFirst
<1>5. CASE n < Radix
  <2>1. ~(n >= Radix)
    BY <1>5, RadixAssumption
  <2> QED BY <1>2, <1>4, <1>5, <2>1, WriteLenFirst
<1>6. CASE n >= Radix
  <2>1. ~(n < Radix)
    BY <1>6, RadixAssumption
  <2>2. Len(WriteLen(n)) = 1 + Len(WriteLen(n \div Radix))
    BY <1>2, <1>6, WriteLenFirst
  <2>3. Len(WriteLen(n)) \in Nat \ {0}
    BY <1>3, <2>2
  <2> QED BY <1>2, <1>3, <1>4, <1>6, <2>1, <2>2, <2>3, WriteLenFirst
<1> QED BY <1>5, <1>6, RadixAssumption

-----------------------------------------------------------------------------
(* What the connection carries.                                            *)

\* The lengths of the packets sent, and the bytes of packets of these lengths.
Totals     == [k \in 1..Len(packets) |-> TotalLength(k)]
BytesOf(T) == {b \in Nat \X Nat : b[1] \in 1..Len(T) /\ b[2] \in 1..T[b[1]]}

\* From each of its bytes on s has the rest of a packet, and behind it the next packet.
Whole(s, T) ==
  /\ \A i \in 1..Len(s) : \A m \in 0..(T[s[i][1]] - s[i][2]) :
       i + m <= Len(s) /\ s[i + m] = <<s[i][1], s[i][2] + m>>
  /\ \A i \in 1..(Len(s) - 1) : s[i][2] = T[s[i][1]] => s[i + 1] = <<s[i][1] + 1, 1>>

\* The packet of the last byte.
EndOf(s) == s[Len(s)][1]

\* The records w and, behind them, the outbox o hold whole packets, in order, up to the last.
ChainOK(T, w, o) ==
  /\ \A i \in 1..Len(w) : w[i] # <<>> /\ Whole(w[i], T)
  /\ Whole(o, T)
  /\ \A i \in 1..(Len(w) - 1) : w[i + 1][1] = <<EndOf(w[i]) + 1, 1>>
  /\ w # <<>> /\ o # <<>> => o[1] = <<EndOf(w[Len(w)]) + 1, 1>>
  /\ w # <<>> /\ o = <<>> => EndOf(w[Len(w)]) = Len(T)
  /\ o # <<>> => EndOf(o) = Len(T)

\* The first byte that is still to be read is b; behind the last packet, that of the next one.
Starts(T, w, o, b) ==
  IF w # <<>> THEN w[1][1] = b
  ELSE IF o # <<>> THEN o[1] = b
  ELSE b = <<Len(T) + 1, 1>>

-----------------------------------------------------------------------------
(* The invariants.                                                         *)

\* Types, of the bytes too.
TypeInv ==
  /\ TypeOK
  /\ Len(packets) <= MaxPackets
  /\ outbox \in Seq(BytesOf(Totals))
  /\ wire \in Seq(Seq(BytesOf(Totals)))
  /\ buf \in Seq(BytesOf(Totals))

\* While the length is read: the digit at place p and those behind it are those of q, which is
\* what is missing in rem.
AtDigit(q, p) ==
  /\ wire[1][1] = <<next, p>>
  /\ rem + q * multiplier = packets[next]
  /\ Len(WriteLen(q)) = FixedLength(next) - p + 1
  /\ \A i \in 1..Len(WriteLen(q)) : WriteLen(packets[next])[p - 2 + i] = WriteLen(q)[i]

\* Where read_packet is: at the first byte of packet `next', at a digit of its length, at its
\* body, or at the rest of a body that does not fit in the buffer.
PlaceInv ==
  /\ next \in 1..(Len(packets) + 1)
  /\ got = 0 /\ buf = <<>>
  /\ pc \in {"idle", "header"} => /\ Starts(Totals, wire, outbox, <<next, 1>>)
                                  /\ rem = 0 /\ multiplier = 1 /\ total = 0
  /\ pc \notin {"idle", "header"} => next <= Len(packets) /\ wire # <<>> /\ header = <<next, 1>>
  /\ pc \in {"header", "length"} => want = 1 /\ total = 0
  /\ pc = "length" => \E q \in Nat, p \in 2..FixedLength(next) : AtDigit(q, p)
  /\ pc = "body" => /\ wire[1][1] = <<next, FixedLength(next) + 1>>
                    /\ rem = packets[next] /\ rem \in 1..(ReadBufSize - 1) /\ want = rem
  /\ pc = "drop" => /\ wire[1][1] = <<next, FixedLength(next) + 1 + total>>
                    /\ rem = packets[next] /\ ReadBufSize <= rem /\ total < rem
                    /\ want = IF rem - total >= ReadBufSize THEN ReadBufSize ELSE rem - total

StreamInv == Undisturbed => ChainOK(Totals, wire, outbox) /\ PlaceInv

-----------------------------------------------------------------------------
(* Sequences of bytes.                                                     *)

\* The first and the last element.
LEMMA NotEmpty ==
  ASSUME NEW S, NEW s \in Seq(S), s # <<>>
  PROVE  Len(s) \in Nat \ {0} /\ 1 \in 1..Len(s) /\ Len(s) \in 1..Len(s) /\ s[1] \in S /\ s[Len(s)] \in S
<1>1. Len(s) \in Nat \ {0}
  OBVIOUS
<1>2. 1 \in 1..Len(s) /\ Len(s) \in 1..Len(s)
  BY <1>1
<1> QED BY <1>1, <1>2

\* What is behind the first n elements.
LEMMA FromSeq ==
  ASSUME NEW S, NEW s \in Seq(S), NEW n \in Nat, n <= Len(s)
  PROVE  /\ From(s, n + 1) \in Seq(S)
         /\ Len(From(s, n + 1)) = Len(s) - n
         /\ \A i \in 1..(Len(s) - n) : From(s, n + 1)[i] = s[n + i]
<1>1. PICK l \in Nat : l = Len(s)
  OBVIOUS
<1>2. \A i \in (n + 1)..l : s[i] \in S
  BY <1>1
<1>3. n + 1 \in Int /\ l \in Int
  OBVIOUS
<1>4. PICK t : t = SubSeq(s, n + 1, l)
  OBVIOUS
<1>5. /\ t \in Seq(S)
      /\ Len(t) = IF n + 1 <= l THEN l - (n + 1) + 1 ELSE 0
      /\ \A i \in 1..(l - (n + 1) + 1) : t[i] = s[(n + 1) + i - 1]
  BY <1>2, <1>3, <1>4, SubSeqProperties
<1>6. n <= l
  BY <1>1
<1>7. Len(t) = l - n /\ \A i \in 1..(l - n) : t[i] = s[n + i]
  BY <1>5, <1>6
<1> QED BY <1>1, <1>4, <1>5, <1>7 DEF From

\* The first n elements.
LEMMA PrefixSeq ==
  ASSUME NEW S, NEW s \in Seq(S), NEW n \in Nat, n <= Len(s)
  PROVE  /\ SubSeq(s, 1, n) \in Seq(S)
         /\ Len(SubSeq(s, 1, n)) = n
         /\ \A i \in 1..n : SubSeq(s, 1, n)[i] = s[i]
<1>1. \A i \in 1..n : s[i] \in S
  OBVIOUS
<1>2. n \in Int /\ 1 \in Int
  OBVIOUS
<1>3. PICK t : t = SubSeq(s, 1, n)
  OBVIOUS
<1>4. /\ t \in Seq(S)
      /\ Len(t) = IF 1 <= n THEN n - 1 + 1 ELSE 0
      /\ \A i \in 1..(n - 1 + 1) : t[i] = s[1 + i - 1]
  BY <1>1, <1>2, <1>3, SubSeqProperties
<1>5. Len(t) = n /\ \A i \in 1..n : t[i] = s[i]
  BY <1>4
<1> QED BY <1>3, <1>4, <1>5

\* A byte is a packet and a place in it.
LEMMA ByteFields ==
  ASSUME NEW T \in Seq(Nat \ {0}), NEW b \in BytesOf(T)
  PROVE  /\ b = <<b[1], b[2]>> /\ b[1] \in Nat /\ b[2] \in Nat
         /\ b[1] \in 1..Len(T) /\ T[b[1]] \in Nat /\ b[2] \in 1..T[b[1]]
<1>1. b \in Nat \X Nat /\ b[1] \in 1..Len(T) /\ b[2] \in 1..T[b[1]]
  BY DEF BytesOf
<1>2. T[b[1]] \in Nat
  BY <1>1
<1> QED BY <1>1, <1>2

\* s begins with the rest of packet k, from place p on.
Begins(s, T, k, p) ==
  /\ k \in 1..Len(T) /\ T[k] \in Nat /\ p \in 1..T[k] /\ k \in Nat /\ p \in Nat
  /\ T[k] - p + 1 <= Len(s)
  /\ \A i \in 1..(T[k] - p + 1) : s[i] = <<k, p + i - 1>>

\* The rest of a packet is there.
LEMMA WholeHead ==
  ASSUME NEW T \in Seq(Nat \ {0}), NEW s \in Seq(BytesOf(T)), Whole(s, T), s # <<>>,
         NEW k, NEW p, s[1] = <<k, p>>
  PROVE  Begins(s, T, k, p)
<1>1. Len(s) \in Nat /\ 1 \in 1..Len(s) /\ s[1] \in BytesOf(T)
  BY NotEmpty
<1>2. s[1][1] = k /\ s[1][2] = p
  OBVIOUS
<1>3. k \in 1..Len(T) /\ T[k] \in Nat /\ p \in 1..T[k] /\ k \in Nat /\ p \in Nat
  BY <1>1, <1>2, ByteFields
<1>4. \A m \in 0..(T[k] - p) : 1 + m <= Len(s) /\ s[1 + m] = <<k, p + m>>
  BY <1>1, <1>2 DEF Whole
<1>5. T[k] - p + 1 <= Len(s)
  <2>1. T[k] - p \in 0..(T[k] - p)
    BY <1>3
  <2> QED BY <1>1, <1>3, <1>4, <2>1
<1>6. ASSUME NEW i \in 1..(T[k] - p + 1) PROVE s[i] = <<k, p + i - 1>>
  <2>1. i - 1 \in 0..(T[k] - p) /\ 1 + (i - 1) = i /\ p + (i - 1) = p + i - 1
    BY <1>3
  <2> QED BY <1>4, <2>1
<1> QED BY <1>3, <1>5, <1>6 DEF Begins

\* The last byte is the last one of its packet.
LEMMA WholeEnd ==
  ASSUME NEW T \in Seq(Nat \ {0}), NEW s \in Seq(BytesOf(T)), Whole(s, T), s # <<>>
  PROVE  /\ Len(s) \in Nat \ {0} /\ s[Len(s)] \in BytesOf(T)
         /\ EndOf(s) \in 1..Len(T) /\ s[Len(s)] = <<EndOf(s), T[EndOf(s)]>>
<1>1. Len(s) \in Nat \ {0} /\ Len(s) \in 1..Len(s) /\ s[Len(s)] \in BytesOf(T)
  OBVIOUS
<1>2. PICK k \in 1..Len(T), p \in Nat : s[Len(s)] = <<k, p>> /\ T[k] \in Nat /\ p \in 1..T[k] /\ s[Len(s)][1] = k /\ s[Len(s)][2] = p
  BY <1>1, ByteFields
<1>3. \A m \in 0..(T[k] - p) : Len(s) + m <= Len(s)
  BY <1>1, <1>2 DEF Whole
<1>4. p = T[k]
  <2> SUFFICES ASSUME p # T[k] PROVE FALSE
    OBVIOUS
  <2>1. 1 \in 0..(T[k] - p)
    BY <1>2
  <2> QED BY <1>1, <1>3, <2>1
<1> QED BY <1>1, <1>2, <1>4 DEF EndOf

\* Reading takes bytes from the front.
LEMMA WholeFrom ==
  ASSUME NEW T \in Seq(Nat \ {0}), NEW s \in Seq(BytesOf(T)), Whole(s, T), NEW n \in Nat, n <= Len(s)
  PROVE  Whole(From(s, n + 1), T)
<1>1. PICK l \in Nat : l = Len(s)
  OBVIOUS
<1>2. PICK t : t = From(s, n + 1)
  OBVIOUS
<1>3. Len(t) = l - n /\ \A i \in 1..(l - n) : t[i] = s[n + i]
  BY <1>1, <1>2, FromSeq
<1>4. ASSUME NEW i \in 1..Len(t), NEW m \in 0..(T[t[i][1]] - t[i][2])
      PROVE  i + m <= Len(t) /\ t[i + m] = <<t[i][1], t[i][2] + m>>
  <2>1. n + i \in 1..l /\ t[i] = s[n + i] /\ i \in Nat /\ m \in Nat
    <3>1. s[n + i] \in BytesOf(T) /\ t[i] = s[n + i]
      BY <1>1, <1>3
    <3>2. m \in Nat
      BY <3>1, ByteFields
    <3> QED BY SMTT(30), <1>3, <3>1, <3>2
  <2>2. n + i + m <= l /\ s[n + i + m] = <<t[i][1], t[i][2] + m>>
    BY <1>1, <2>1 DEF Whole
  <2>3. PICK j \in 1..(l - n) : j = i + m /\ n + j = n + i + m
    <3>1. i >= 1
      BY <1>3
    <3>2. i + m \in 1..(l - n) /\ n + (i + m) = n + i + m
      BY <2>1, <2>2, <3>1
    <3> QED BY <3>2
  <2>4. t[j] = s[n + j]
    BY <1>3
  <2> QED BY <1>3, <2>2, <2>3, <2>4
<1>5. ASSUME NEW i \in 1..(Len(t) - 1), t[i][2] = T[t[i][1]] PROVE t[i + 1] = <<t[i][1] + 1, 1>>
  <2>1. PICK j \in 1..(l - n) : j = i + 1 /\ n + j = n + i + 1
    BY <1>3
  <2>2. i \in 1..(l - n) /\ n + i \in 1..(l - 1)
    BY <1>3
  <2>3. t[i] = s[n + i] /\ t[i + 1] = s[n + i + 1]
    <3>1. t[i] = s[n + i] /\ t[j] = s[n + j]
      BY <1>3, <2>2
    <3> QED BY <2>1, <3>1
  <2> QED BY <1>1, <1>5, <2>2, <2>3 DEF Whole
<1>6. Whole(t, T)
  BY <1>4, <1>5 DEF Whole
<1> QED BY <1>2, <1>6

\* A record that ends with a packet takes whole packets from the outbox.
LEMMA WholePrefix ==
  ASSUME NEW T \in Seq(Nat \ {0}), NEW s \in Seq(BytesOf(T)), Whole(s, T),
         NEW n \in 1..Len(s), s[n][2] = T[s[n][1]]
  PROVE  Whole(SubSeq(s, 1, n), T)
<1>1. PICK l \in Nat : l = Len(s)
  OBVIOUS
<1>2. PICK t : t = SubSeq(s, 1, n)
  OBVIOUS
<1>3. n \in Nat /\ n <= l
  BY <1>1
<1>4. Len(t) = n /\ \A i \in 1..n : t[i] = s[i]
  BY <1>1, <1>2, <1>3, PrefixSeq
<1>5. ASSUME NEW i \in 1..n, NEW m \in 0..(T[t[i][1]] - t[i][2])
      PROVE  i + m <= n /\ t[i + m] = <<t[i][1], t[i][2] + m>>
  <2>1. s[i] \in BytesOf(T) /\ t[i] = s[i] /\ i \in 1..l /\ i \in Nat
    BY <1>1, <1>3, <1>4
  <2>2. PICK k \in Nat, p \in Nat : s[i][1] = k /\ s[i][2] = p /\ T[k] \in Nat /\ p \in 1..T[k]
    BY <2>1, ByteFields
  <2>3. PICK x \in Nat : s[i][1] = k /\ s[i][2] = p /\ T[k] = x /\ p <= x
    BY <2>2
  <2>4. m \in Nat /\ m <= x - p
    BY <2>1, <2>3
  <2>5. \A j \in 0..(x - p) : i + j <= l /\ s[i + j] = <<k, p + j>>
    BY <1>1, <2>1, <2>3 DEF Whole
  <2>6. i + m <= n
    <3> SUFFICES ASSUME i + m > n PROVE FALSE
      BY <1>3, <2>1, <2>4
    <3>1. n - i \in 0..(x - p) /\ i + (n - i) = n /\ p + (n - i) < x
      BY <1>3, <2>1, <2>3, <2>4
    <3>2. s[n] = <<k, p + (n - i)>>
      BY <2>5, <3>1
    <3>3. s[n][1] = k /\ s[n][2] = p + (n - i)
      BY <3>2
    <3>4. p + (n - i) = x
      BY <2>3, <3>3
    <3> QED BY <3>1, <3>4, <2>3
  <2>7. s[i + m] = <<k, p + m>>
    <3>1. m \in 0..(x - p)
      BY <2>3, <2>4
    <3> QED BY <2>5, <3>1
  <2>8. t[i + m] = s[i + m]
    <3>1. i + m \in 1..n
      BY <1>3, <2>1, <2>4, <2>6
    <3> QED BY <1>4, <3>1
  <2> QED BY <2>1, <2>3, <2>6, <2>7, <2>8
<1>6. ASSUME NEW i \in 1..(n - 1), t[i][2] = T[t[i][1]] PROVE t[i + 1] = <<t[i][1] + 1, 1>>
  <2>1. i \in 1..n /\ i + 1 \in 1..n /\ i \in 1..(l - 1)
    BY <1>3
  <2>2. t[i] = s[i] /\ t[i + 1] = s[i + 1]
    BY <1>4, <2>1
  <2> QED BY <1>1, <1>6, <2>1, <2>2 DEF Whole
<1>7. Whole(t, T)
  BY <1>4, <1>5, <1>6 DEF Whole
<1> QED BY <1>2, <1>7

\* What is sent joins the outbox.
LEMMA WholeConcat ==
  ASSUME NEW T \in Seq(Nat \ {0}), NEW s \in Seq(BytesOf(T)), Whole(s, T), NEW t \in Seq(BytesOf(T)), Whole(t, T),
         s # <<>> /\ t # <<>> => t[1] = <<EndOf(s) + 1, 1>>
  PROVE  Whole(s \o t, T)
<1>1. PICK l \in Nat, e \in Nat : l = Len(s) /\ e = Len(t)
  OBVIOUS
<1>2. PICK u : u = s \o t
  OBVIOUS
<1>3. u \in Seq(BytesOf(T)) /\ Len(u) = l + e /\ \A i \in 1..(l + e) : u[i] = IF i <= l THEN s[i] ELSE t[i - l]
  BY <1>1, <1>2, ConcatProperties
<1>4. \A i \in 1..l : i \in 1..(l + e) /\ u[i] = s[i]
  BY <1>3
<1>5. \A i \in 1..e : l + i \in 1..(l + e) /\ u[l + i] = t[i]
  <2> TAKE i \in 1..e
  <2>1. l + i \in 1..(l + e) /\ ~(l + i <= l) /\ (l + i) - l = i
    OBVIOUS
  <2> QED BY <1>3, <2>1
<1>6. ASSUME NEW i \in 1..(l + e), NEW m \in 0..(T[u[i][1]] - u[i][2])
      PROVE  i + m <= l + e /\ u[i + m] = <<u[i][1], u[i][2] + m>>
  <2>1. m \in Nat
    <3>1. u[i] \in BytesOf(T)
      BY <1>3
    <3> QED BY <3>1, ByteFields
  <2>2. CASE i <= l
    <3>1. i \in 1..l /\ u[i] = s[i]
      BY <1>4, <2>2
    <3>2. i + m <= l /\ s[i + m] = <<s[i][1], s[i][2] + m>>
      BY <1>1, <3>1 DEF Whole
    <3>3. i + m \in 1..l
      BY <2>1, <3>1, <3>2
    <3> QED BY <1>4, <3>1, <3>2, <3>3
  <2>3. CASE ~(i <= l)
    <3>1. PICK j \in 1..e : i = l + j
      <4>1. i - l \in 1..e /\ i = l + (i - l)
        BY <2>3
      <4> QED BY <4>1
    <3>2. u[i] = t[j]
      BY <1>5, <3>1
    <3>3. j + m <= e /\ t[j + m] = <<t[j][1], t[j][2] + m>>
      BY <1>1, <3>2 DEF Whole
    <3>4. PICK h \in 1..e : h = j + m /\ l + h = i + m
      <4>1. j \in Nat /\ j >= 1 /\ j + m <= e
        BY <3>3
      <4>2. j + m \in 1..e /\ l + (j + m) = i + m
        BY <2>1, <3>1, <4>1
      <4> QED BY <4>2
    <3>5. u[l + h] = t[h]
      BY <1>5
    <3>6. u[i + m] = <<u[i][1], u[i][2] + m>>
      BY <3>2, <3>3, <3>4, <3>5
    <3>7. i + m <= l + e
      <4>1. l + h <= l + e
        OBVIOUS
      <4> QED BY <3>4, <4>1
    <3> QED BY <3>6, <3>7
  <2> QED BY <2>2, <2>3
<1>7. ASSUME NEW i \in 1..((l + e) - 1), u[i][2] = T[u[i][1]] PROVE u[i + 1] = <<u[i][1] + 1, 1>>
  <2>1. CASE i < l
    <3>1. i \in 1..(l - 1) /\ i \in 1..l /\ i + 1 \in 1..l
      BY <2>1
    <3>2. u[i] = s[i] /\ u[i + 1] = s[i + 1]
      BY <1>4, <3>1
    <3> QED BY <1>1, <1>7, <3>1, <3>2 DEF Whole
  <2>2. CASE i = l
    <3>1. l \in 1..l /\ 1 \in 1..e /\ s # <<>> /\ t # <<>>
      BY <1>1, <2>2
    <3>2. u[i] = s[l] /\ u[l + 1] = t[1]
      BY <1>4, <1>5, <2>2, <3>1
    <3> QED BY <1>1, <2>2, <3>1, <3>2 DEF EndOf
  <2>3. CASE i > l
    <3>1. PICK j \in 1..(e - 1) : i = l + j
      <4>1. i - l \in 1..(e - 1) /\ i = l + (i - l)
        BY <2>3
      <4> QED BY <4>1
    <3>2. PICK h \in 1..e : h = j + 1 /\ l + h = i + 1
      <4>1. j + 1 \in 1..e /\ l + (j + 1) = i + 1
        BY <3>1
      <4> QED BY <4>1
    <3>3. j \in 1..e /\ u[l + j] = t[j] /\ u[l + h] = t[h]
      BY <1>5
    <3>4. t[j + 1] = <<t[j][1] + 1, 1>>
      BY <1>1, <1>7, <3>1, <3>3 DEF Whole
    <3> QED BY <3>1, <3>2, <3>3, <3>4
  <2> QED BY <2>1, <2>2, <2>3
<1>8. Whole(u, T)
  BY <1>3, <1>6, <1>7 DEF Whole
<1> QED BY <1>2, <1>8

\* Earlier bytes do not change when a packet is sent.
LEMMA BytesGrow ==
  ASSUME NEW T \in Seq(Nat \ {0}), NEW x \in Nat \ {0}
  PROVE  /\ Append(T, x) \in Seq(Nat \ {0})
         /\ BytesOf(T) \subseteq BytesOf(Append(T, x))
         /\ \A b \in BytesOf(T) : Append(T, x)[b[1]] = T[b[1]]
<1>1. PICK U : U = Append(T, x)
  OBVIOUS
<1>2. U \in Seq(Nat \ {0}) /\ Len(U) = Len(T) + 1 /\ \A i \in 1..Len(T) : U[i] = T[i]
  BY <1>1, AppendProperties
<1>3. ASSUME NEW b \in BytesOf(T) PROVE b \in BytesOf(U) /\ U[b[1]] = T[b[1]]
  <2>1. b \in Nat \X Nat /\ b[1] \in 1..Len(T) /\ b[2] \in 1..T[b[1]]
    BY DEF BytesOf
  <2>2. U[b[1]] = T[b[1]] /\ b[1] \in 1..Len(U)
    BY <1>2, <2>1
  <2> QED BY <2>1, <2>2 DEF BytesOf
<1> QED BY <1>1, <1>2, <1>3

\* Whole packets stay whole.
LEMMA WholeGrow ==
  ASSUME NEW T \in Seq(Nat \ {0}), NEW x \in Nat \ {0}, NEW s \in Seq(BytesOf(T)), Whole(s, T)
  PROVE  Whole(s, Append(T, x))
<1>1. PICK U : U = Append(T, x)
  OBVIOUS
<1>2. \A i \in 1..Len(s) : U[s[i][1]] = T[s[i][1]]
  <2>1. \A b \in BytesOf(T) : U[b[1]] = T[b[1]]
    BY <1>1, BytesGrow
  <2>2. \A i \in 1..Len(s) : s[i] \in BytesOf(T)
    OBVIOUS
  <2> QED BY <2>1, <2>2
<1>3. \A i \in 1..(Len(s) - 1) : U[s[i][1]] = T[s[i][1]]
  <2>1. \A i \in 1..(Len(s) - 1) : i \in 1..Len(s)
    OBVIOUS
  <2> QED BY <1>2, <2>1
<1>4. Whole(s, U)
  BY <1>2, <1>3 DEF Whole
<1> QED BY <1>1, <1>4

-----------------------------------------------------------------------------
(* The records and the outbox.                                             *)

\* What ssl_read leaves of the records after r bytes.
AfterRead(w, r) == IF r = Len(w[1]) THEN Tail(w) ELSE [w EXCEPT ![1] = From(w[1], r + 1)]

\* v is w without the first r bytes of its first record.
Shortened(v, w, r) ==
  /\ r = Len(w[1]) => Len(v) = Len(w) - 1 /\ \A i \in 1..(Len(w) - 1) : v[i] = w[i + 1]
  /\ r # Len(w[1]) => Len(v) = Len(w) /\ v[1] = From(w[1], r + 1) /\ \A i \in 2..Len(w) : v[i] = w[i]

\* Reading r bytes leaves records of bytes.
LEMMA AfterReadType ==
  ASSUME NEW S, NEW w \in Seq(Seq(S)), w # <<>>, NEW r \in Nat, r <= Len(w[1])
  PROVE  AfterRead(w, r) \in Seq(Seq(S)) /\ Shortened(AfterRead(w, r), w, r)
<1>1. Len(w) \in Nat \ {0} /\ 1 \in 1..Len(w) /\ w[1] \in Seq(S)
  BY NotEmpty
<1>2. CASE r = Len(w[1])
  <2>1. AfterRead(w, r) = Tail(w)
    BY <1>2 DEF AfterRead
  <2>2. /\ Tail(w) \in Seq(Seq(S)) /\ Len(Tail(w)) = Len(w) - 1
        /\ \A i \in 1..Len(Tail(w)) : Tail(w)[i] = w[i + 1]
    BY HeadTailProperties
  <2>3. Shortened(Tail(w), w, r)
    BY <1>2, <2>2 DEF Shortened
  <2> QED BY <2>1, <2>2, <2>3
<1>3. CASE r # Len(w[1])
  <2>1. PICK t \in Seq(S) : t = From(w[1], r + 1)
    BY <1>1, FromSeq
  <2>2. AfterRead(w, r) = [w EXCEPT ![1] = t]
    BY <1>3, <2>1 DEF AfterRead
  <2>3. /\ [w EXCEPT ![1] = t] \in Seq(Seq(S)) /\ Len([w EXCEPT ![1] = t]) = Len(w)
        /\ [w EXCEPT ![1] = t][1] = t /\ \A i \in 2..Len(w) : [w EXCEPT ![1] = t][i] = w[i]
    BY <1>1, <2>1
  <2>4. Shortened([w EXCEPT ![1] = t], w, r)
    BY <1>3, <2>1, <2>3 DEF Shortened
  <2> QED BY <2>2, <2>3, <2>4
<1> QED BY <1>2, <1>3

\* Reading from a packet whose rest is in the first record: the bytes are those of the packet,
\* and what is left is in order.
LEMMA ChainRead ==
  ASSUME NEW T \in Seq(Nat \ {0}), NEW w \in Seq(Seq(BytesOf(T))), NEW o \in Seq(BytesOf(T)),
         ChainOK(T, w, o), w # <<>>, NEW k, NEW p, w[1][1] = <<k, p>>,
         NEW r \in Nat, r > 0, r <= T[k] - p + 1
  PROVE  /\ r <= Len(w[1])
         /\ \A i \in 1..r : w[1][i] = <<k, p + i - 1>>
         /\ ChainOK(T, AfterRead(w, r), o)
         /\ r < T[k] - p + 1 => AfterRead(w, r) # <<>> /\ AfterRead(w, r)[1][1] = <<k, p + r>>
         /\ r = T[k] - p + 1 => Starts(T, AfterRead(w, r), o, <<k + 1, 1>>)
<1>1. Len(w) \in Nat \ {0} /\ 1 \in 1..Len(w) /\ w[1] \in Seq(BytesOf(T))
  BY NotEmpty
<1>2. PICK s \in Seq(BytesOf(T)) : s = w[1]
  BY <1>1
<1>3. s # <<>> /\ Whole(s, T)
  BY <1>1, <1>2 DEF ChainOK
<1>a. s[1] = <<k, p>>
  BY <1>2
<1>4. /\ k \in 1..Len(T) /\ T[k] \in Nat /\ p \in 1..T[k] /\ k \in Nat /\ p \in Nat
      /\ T[k] - p + 1 <= Len(s)
      /\ \A i \in 1..(T[k] - p + 1) : s[i] = <<k, p + i - 1>>
  <2>1. Begins(s, T, k, p)
    BY <1>3, <1>a, WholeHead, Zenon
  <2> QED BY <2>1 DEF Begins
<1>b. PICK x \in Nat, l \in Nat : x = T[k] /\ l = Len(s)
  <2>1. T[k] \in Nat
    BY <1>4
  <2>2. Len(s) \in Nat
    OBVIOUS
  <2> QED BY <2>1, <2>2
<1>c. \A i \in 1..(x - p + 1) : s[i] = <<k, p + i - 1>>
  BY <1>4, <1>b
<1>5. p \in Nat /\ p >= 1 /\ p <= x /\ x - p + 1 <= l /\ r <= x - p + 1 /\ r <= l
  <2>1. p \in Nat /\ p >= 1 /\ p <= x /\ x - p + 1 <= l /\ r <= x - p + 1
    BY <1>4, <1>b
  <2> QED BY <2>1
<1>6. \A i \in 1..r : s[i] = <<k, p + i - 1>>
  <2>1. \A i \in 1..r : i \in 1..(x - p + 1)
    BY <1>5
  <2> QED BY <1>c, <2>1
<1>7. \A i \in 1..Len(w) : w[i] # <<>> /\ Whole(w[i], T)
  BY DEF ChainOK
<1>8. PICK v : v = AfterRead(w, r)
  OBVIOUS
<1>9. CASE r = l
  <2>1. v \in Seq(Seq(BytesOf(T))) /\ Len(v) = Len(w) - 1 /\ \A i \in 1..(Len(w) - 1) : v[i] = w[i + 1]
    <3>1. r = Len(w[1]) /\ r <= Len(w[1])
      BY <1>2, <1>b, <1>9
    <3>2. v \in Seq(Seq(BytesOf(T))) /\ Shortened(v, w, r)
      BY <1>8, <3>1, AfterReadType, Zenon
    <3> QED BY <3>1, <3>2 DEF Shortened
  <2>2. PICK n \in Nat : n = Len(v) /\ Len(w) = n + 1
    BY <1>1, <2>1
  <2>3. \A i \in 1..n : v[i] = w[i + 1] /\ i + 1 \in 1..Len(w)
    BY <2>1, <2>2
  <2>4. n > 0 => v[n] = w[Len(w)]
    <3>1. n > 0 => n \in 1..n
      OBVIOUS
    <3> QED BY <2>2, <2>3, <3>1
  <2>5. r = x - p + 1
    BY <1>5, <1>9
  <2>6. EndOf(s) = k
    <3>1. l \in 1..r
      BY <1>9
    <3>2. s[Len(s)] = <<k, p + l - 1>>
      BY <1>b, <1>6, <3>1
    <3> QED BY <3>2 DEF EndOf
  <2>7. ChainOK(T, v, o)
    <3>1. \A i \in 1..n : v[i] # <<>> /\ Whole(v[i], T)
      BY <1>7, <2>3
    <3>2. ASSUME NEW i \in 1..(n - 1) PROVE v[i + 1][1] = <<EndOf(v[i]) + 1, 1>>
      <4>1. i \in 1..n /\ i + 1 \in 1..n /\ i + 1 \in 1..(Len(w) - 1)
        BY <2>2
      <4>2. v[i] = w[i + 1] /\ v[i + 1] = w[(i + 1) + 1]
        BY <2>3, <4>1
      <4> QED BY <4>1, <4>2 DEF ChainOK
    <3>3. v # <<>> => n > 0
      BY <2>1, <2>2
    <3> QED BY <2>2, <2>4, <3>1, <3>2, <3>3 DEF ChainOK
  <2>8. Starts(T, v, o, <<k + 1, 1>>)
    <3>1. CASE n > 0
      <4>1. v # <<>> /\ 1 \in 1..n /\ 1 \in 1..(Len(w) - 1)
        BY <2>1, <2>2, <3>1
      <4>2. v # <<>> /\ v[1] = w[1 + 1]
        BY <2>3, <4>1
      <4>3. w[1 + 1][1] = <<k + 1, 1>>
        BY <1>2, <2>6, <4>1 DEF ChainOK
      <4> QED BY <4>2, <4>3 DEF Starts
    <3>2. CASE n = 0
      <4>1. v = <<>> /\ Len(w) = 1
        <5>1. Len(v) = 0 /\ Len(w) = 1
          BY <2>2, <3>2
        <5> QED BY <2>1, <5>1, EmptySeq
      <4>2. EndOf(w[Len(w)]) = k
        BY <1>2, <2>6, <4>1
      <4>3. CASE o = <<>>
        <5>1. k = Len(T)
          BY <4>2, <4>3 DEF ChainOK
        <5> QED BY <4>1, <4>3, <5>1 DEF Starts
      <4>4. CASE o # <<>>
        BY <4>1, <4>2, <4>4 DEF Starts, ChainOK
      <4> QED BY <4>3, <4>4
    <3> QED BY <3>1, <3>2
  <2>9. r <= Len(w[1]) /\ ~(r < T[k] - p + 1)
    <3>1. r <= l /\ ~(r < x - p + 1)
      BY <1>5, <2>5
    <3> QED BY <1>2, <1>b, <3>1
  <2> QED BY <1>2, <1>6, <1>8, <2>7, <2>8, <2>9
<1>10. CASE r # l
  <2>1. /\ v \in Seq(Seq(BytesOf(T))) /\ Len(v) = Len(w) /\ v[1] = From(s, r + 1)
        /\ \A i \in 2..Len(w) : v[i] = w[i]
    <3>1. r # Len(w[1]) /\ r <= Len(w[1])
      BY <1>2, <1>b, <1>5, <1>10
    <3>2. v \in Seq(Seq(BytesOf(T))) /\ Shortened(v, w, r)
      BY <1>8, <3>1, AfterReadType, Zenon
    <3> QED BY <1>2, <3>1, <3>2 DEF Shortened
  <2>2. PICK t : t = From(s, r + 1)
    OBVIOUS
  <2>3. /\ t \in Seq(BytesOf(T)) /\ Len(t) = l - r /\ \A i \in 1..(l - r) : t[i] = s[r + i]
    <3>1. r <= Len(s)
      BY <1>b, <1>5
    <3>2. /\ From(s, r + 1) \in Seq(BytesOf(T)) /\ Len(From(s, r + 1)) = Len(s) - r
          /\ \A i \in 1..(Len(s) - r) : From(s, r + 1)[i] = s[r + i]
      BY <3>1, FromSeq
    <3> QED BY <1>b, <2>2, <3>2
  <2>4. Whole(t, T)
    BY <1>3, <1>b, <1>5, <2>2, WholeFrom
  <2>5. 1 \in 1..(l - r) /\ l - r \in 1..(l - r) /\ r + (l - r) = l
    BY <1>5, <1>10
  <2>6. t # <<>> /\ t[1] = s[r + 1] /\ EndOf(t) = EndOf(s)
    <3>1. t[l - r] = s[r + (l - r)]
      BY <2>3, <2>5
    <3>2. t[Len(t)] = s[Len(s)]
      BY <1>b, <2>3, <2>5, <3>1
    <3>3. t # <<>>
      BY <2>3, <2>5
    <3> QED BY <2>3, <2>5, <3>2, <3>3 DEF EndOf
  <2>7. v # <<>> /\ v[1] = t
    BY <1>1, <2>1, <2>2
  <2>8. \A i \in 1..Len(w) : v[i] # <<>> /\ Whole(v[i], T) /\ EndOf(v[i]) = EndOf(w[i])
    <3> TAKE i \in 1..Len(w)
    <3>1. CASE i = 1
      BY <1>2, <2>4, <2>6, <2>7, <3>1
    <3>2. CASE i # 1
      <4>1. i \in 2..Len(w)
        BY <1>1, <3>2
      <4> QED BY <1>7, <2>1, <4>1
    <3> QED BY <3>1, <3>2
  <2>9. ASSUME NEW i \in 1..(Len(w) - 1) PROVE v[i + 1][1] = <<EndOf(v[i]) + 1, 1>>
    <3>1. i \in 1..Len(w) /\ i + 1 \in 2..Len(w)
      BY <1>1
    <3>2. v[i + 1] = w[i + 1] /\ EndOf(v[i]) = EndOf(w[i])
      BY <2>1, <2>8, <3>1
    <3> QED BY <3>2 DEF ChainOK
  <2>10. ChainOK(T, v, o)
    <3>1. Len(w) \in 1..Len(w)
      BY <1>1
    <3>2. EndOf(v[Len(v)]) = EndOf(w[Len(w)]) /\ Len(v) = Len(w)
      BY <2>1, <2>8, <3>1
    <3> QED BY <2>7, <2>8, <2>9, <3>2 DEF ChainOK
  <2>11. r < x - p + 1 => v[1][1] = <<k, p + r>>
    <3> HAVE r < x - p + 1
    <3>1. PICK j \in 1..(x - p + 1) : j = r + 1 /\ p + j - 1 = p + r
      <4>1. r + 1 \in 1..(x - p + 1) /\ p + (r + 1) - 1 = p + r
        BY <1>5
      <4> QED BY <4>1
    <3>2. s[j] = <<k, p + j - 1>>
      BY <1>c
    <3>3. s[r + 1] = <<k, p + r>>
      BY <3>1, <3>2
    <3> QED BY <2>6, <2>7, <3>3
  <2>12. r = x - p + 1 => Starts(T, v, o, <<k + 1, 1>>)
    <3> HAVE r = x - p + 1
    <3>1. r \in 1..(l - 1) /\ r \in 1..r /\ p + r - 1 = x
      BY <1>5, <1>10
    <3>2. s[r] = <<k, p + r - 1>>
      BY <1>6, <3>1
    <3>3. s[r][1] = k /\ s[r][2] = x
      BY <3>1, <3>2
    <3>4. s[r + 1] = <<k + 1, 1>>
      <4>1. s[r][2] = T[s[r][1]] /\ r \in 1..(Len(s) - 1)
        BY <1>b, <3>1, <3>3
      <4> QED BY <1>3, <3>3, <4>1 DEF Whole
    <3> QED BY <2>6, <2>7, <3>4 DEF Starts
  <2>13. r <= Len(w[1])
    BY <1>2, <1>b, <1>5
  <2> QED BY <1>2, <1>b, <1>6, <1>8, <2>7, <2>10, <2>11, <2>12, <2>13
<1> QED BY <1>9, <1>10

\* The bytes of the packet that is sent.
LEMMA NewPacket ==
  ASSUME NEW T \in Seq(Nat \ {0}), NEW x \in Nat \ {0}, NEW z, z = [i \in 1..x |-> <<Len(T) + 1, i>>]
  PROVE  /\ z \in Seq(BytesOf(Append(T, x))) /\ Whole(z, Append(T, x))
         /\ z # <<>> /\ z[1] = <<Len(T) + 1, 1>> /\ EndOf(z) = Len(T) + 1
<1>1. PICK U : U = Append(T, x)
  OBVIOUS
<1>2. PICK k \in Nat : k = Len(T) + 1
  OBVIOUS
<1>3. U \in Seq(Nat \ {0}) /\ Len(U) = k /\ U[k] = x /\ k \in 1..Len(U)
  BY <1>1, <1>2, AppendProperties
<1>4. z = [i \in 1..x |-> <<k, i>>]
  BY <1>2
<1>5. \A i \in 1..x : z[i] = <<k, i>>
  BY <1>4
<1>6. \A i \in 1..x : <<k, i>> \in BytesOf(U)
  <2> TAKE i \in 1..x
  <2>1. <<k, i>> \in Nat \X Nat /\ <<k, i>>[1] = k /\ <<k, i>>[2] = i
    OBVIOUS
  <2> QED BY <1>3, <2>1 DEF BytesOf
<1>7. z \in Seq(BytesOf(U)) /\ Len(z) = x
  <2>1. z \in [1..x -> BytesOf(U)]
    BY <1>4, <1>6
  <2> QED BY <2>1
<1>8. ASSUME NEW i \in 1..Len(z), NEW m \in 0..(U[z[i][1]] - z[i][2])
      PROVE  i + m <= Len(z) /\ z[i + m] = <<z[i][1], z[i][2] + m>>
  <2>1. i \in 1..x
    BY <1>7
  <2>2. z[i][1] = k /\ z[i][2] = i
    BY <1>5, <2>1
  <2>3. m \in Nat /\ m <= x - i
    BY <1>3, <2>2
  <2>4. i + m \in 1..x
    BY <2>1, <2>3
  <2> QED BY <1>5, <1>7, <2>2, <2>4
<1>9. ASSUME NEW i \in 1..(x - 1) PROVE z[i][2] # U[z[i][1]]
  <2>1. i \in 1..x /\ i # x
    OBVIOUS
  <2>2. z[i][1] = k /\ z[i][2] = i
    BY <1>5, <2>1
  <2> QED BY <1>3, <2>1, <2>2
<1>10. Whole(z, U)
  <2>1. \A i \in 1..Len(z) : \A m \in 0..(U[z[i][1]] - z[i][2]) :
          i + m <= Len(z) /\ z[i + m] = <<z[i][1], z[i][2] + m>>
    BY <1>8
  <2>2. \A i \in 1..(Len(z) - 1) : z[i][2] # U[z[i][1]]
    BY <1>7, <1>9
  <2> QED BY <2>1, <2>2 DEF Whole
<1>11. 1 \in 1..x /\ x \in 1..x
  OBVIOUS
<1>12. z # <<>>
  BY <1>7
<1>13. z[1] = <<k, 1>> /\ z[x][1] = k
  BY <1>5, <1>11
<1> QED BY <1>1, <1>2, <1>7, <1>10, <1>12, <1>13 DEF EndOf

\* Sequences over a larger set.
LEMMA SeqGrow ==
  ASSUME NEW S, NEW R, S \subseteq R
  PROVE  Seq(S) \subseteq Seq(R) /\ Seq(Seq(S)) \subseteq Seq(Seq(R))
<1>1. Seq(S) \subseteq Seq(R)
  OBVIOUS
<1>2. ASSUME NEW A, NEW B, A \subseteq B PROVE Seq(A) \subseteq Seq(B)
  BY <1>2
<1> QED BY <1>1, <1>2

\* u is a sequence with the first element of s, if there is one, and the last of z.
Joined(u, s, z, S) ==
  /\ u \in Seq(S) /\ u # <<>> /\ u[Len(u)] = z[Len(z)]
  /\ u[1] = IF s = <<>> THEN z[1] ELSE s[1]

\* The first and the last element of two sequences in a row.
LEMMA ConcatEnds ==
  ASSUME NEW S, NEW s \in Seq(S), NEW z \in Seq(S), z # <<>>
  PROVE  Joined(s \o z, s, z, S)
<1>1. PICK l \in Nat, e \in Nat \ {0} : l = Len(s) /\ e = Len(z)
  BY NotEmpty
<1>2. PICK u : u = s \o z
  OBVIOUS
<1>3. u \in Seq(S) /\ Len(u) = l + e /\ \A i \in 1..(l + e) : u[i] = IF i <= l THEN s[i] ELSE z[i - l]
  BY <1>1, <1>2, ConcatProperties
<1>4. u # <<>>
  <2>1. Len(u) # 0
    BY <1>3
  <2> QED BY <2>1
<1>5. u[l + e] = z[e]
  <2>1. l + e \in 1..(l + e) /\ ~(l + e <= l) /\ (l + e) - l = e
    OBVIOUS
  <2> QED BY <1>3, <2>1
<1>6. s = <<>> => u[1] = z[1]
  BY <1>2
<1>7. s # <<>> => u[1] = s[1]
  <2> HAVE s # <<>>
  <2>1. l # 0
    BY <1>1
  <2>2. 1 \in 1..(l + e) /\ 1 <= l
    BY <2>1
  <2> QED BY <1>3, <2>2
<1> QED BY <1>1, <1>2, <1>3, <1>4, <1>5, <1>6, <1>7 DEF Joined

\* A packet is sent.
LEMMA ChainGrow ==
  ASSUME NEW T \in Seq(Nat \ {0}), NEW w \in Seq(Seq(BytesOf(T))), NEW o \in Seq(BytesOf(T)),
         ChainOK(T, w, o), NEW x \in Nat \ {0}, NEW z, z = [i \in 1..x |-> <<Len(T) + 1, i>>]
  PROVE  /\ o \o z \in Seq(BytesOf(Append(T, x)))
         /\ ChainOK(Append(T, x), w, o \o z)
         /\ \A b : Starts(T, w, o, b) => Starts(Append(T, x), w, o \o z, b)
<1>1. PICK U : U = Append(T, x)
  OBVIOUS
<1>2. U \in Seq(Nat \ {0}) /\ Len(U) = Len(T) + 1 /\ BytesOf(T) \subseteq BytesOf(U)
  BY <1>1, BytesGrow, AppendProperties
<1>3. /\ z \in Seq(BytesOf(U)) /\ Whole(z, U) /\ z # <<>>
      /\ z[1] = <<Len(T) + 1, 1>> /\ EndOf(z) = Len(T) + 1
  BY <1>1, NewPacket
<1>4. o \in Seq(BytesOf(U))
  BY <1>2, SeqGrow
<1>5. PICK u : u = o \o z
  OBVIOUS
<1>6. /\ u \in Seq(BytesOf(U)) /\ u # <<>> /\ u[Len(u)] = z[Len(z)]
      /\ u[1] = IF o = <<>> THEN z[1] ELSE o[1]
  <2>1. Joined(o \o z, o, z, BytesOf(U))
    BY <1>3, <1>4, ConcatEnds, Zenon
  <2> QED BY <1>5, <2>1 DEF Joined
<1>7. Whole(u, U)
  <2>1. Whole(o, U)
    BY <1>1, WholeGrow DEF ChainOK
  <2>2. o # <<>> => z[1] = <<EndOf(o) + 1, 1>>
    BY <1>3 DEF ChainOK
  <2> QED BY <1>2, <1>3, <1>4, <1>5, <2>1, <2>2, WholeConcat
<1>8. \A i \in 1..Len(w) : w[i] # <<>> /\ Whole(w[i], U)
  <2> TAKE i \in 1..Len(w)
  <2>1. w[i] # <<>> /\ Whole(w[i], T) /\ w[i] \in Seq(BytesOf(T))
    BY SMTT(30) DEF ChainOK
  <2> QED BY <1>1, <2>1, WholeGrow
<1>9. w # <<>> => u[1] = <<EndOf(w[Len(w)]) + 1, 1>>
  BY <1>3, <1>6 DEF ChainOK
<1>10. EndOf(u) = Len(U)
  BY <1>2, <1>3, <1>6 DEF EndOf
<1>11. ChainOK(U, w, u)
  BY <1>6, <1>7, <1>8, <1>9, <1>10 DEF ChainOK
<1>12. ASSUME NEW b, Starts(T, w, o, b) PROVE Starts(U, w, u, b)
  BY <1>3, <1>6, <1>12 DEF Starts
<1> QED BY <1>1, <1>5, <1>6, <1>11, <1>12

\* The bytes of whole packets become a record.
LEMMA ChainRecord ==
  ASSUME NEW T \in Seq(Nat \ {0}), NEW w \in Seq(Seq(BytesOf(T))), NEW o \in Seq(BytesOf(T)),
         ChainOK(T, w, o), NEW n \in 1..Len(o), o[n][2] = T[o[n][1]]
  PROVE  /\ ChainOK(T, Append(w, SubSeq(o, 1, n)), From(o, n + 1))
         /\ \A b : Starts(T, w, o, b) => Starts(T, Append(w, SubSeq(o, 1, n)), From(o, n + 1), b)
<1>1. PICK l \in Nat, e \in Nat : l = Len(o) /\ e = Len(w)
  OBVIOUS
<1>2. n \in Nat /\ 1 <= n /\ n <= l
  BY <1>1
<1>3. PICK s, u, v : s = SubSeq(o, 1, n) /\ u = From(o, n + 1) /\ v = Append(w, s)
  OBVIOUS
<1>4. s \in Seq(BytesOf(T)) /\ Len(s) = n /\ \A i \in 1..n : s[i] = o[i]
  BY <1>1, <1>2, <1>3, PrefixSeq
<1>5. u \in Seq(BytesOf(T)) /\ Len(u) = Len(o) - n /\ \A i \in 1..(Len(o) - n) : u[i] = o[n + i]
  <2>1. n <= Len(o)
    BY <1>1, <1>2
  <2> QED BY <1>2, <1>3, <2>1, FromSeq
<1>6. Len(v) = e + 1 /\ v[e + 1] = s /\ \A i \in 1..e : v[i] = w[i]
  BY <1>1, <1>3, <1>4, AppendProperties
<1>7. s # <<>> /\ s[1] = o[1] /\ EndOf(s) = o[n][1] /\ o # <<>>
  <2>1. 1 \in 1..n /\ n \in 1..n
    BY <1>2
  <2>2. s # <<>> /\ o # <<>>
    BY <1>1, <1>2, <1>4
  <2> QED BY <1>4, <2>1, <2>2 DEF EndOf
<1>8. v # <<>>
  <2>1. Len(v) # 0
    BY <1>6
  <2> QED BY <2>1
<1>9. Whole(s, T)
  BY <1>3, WholePrefix DEF ChainOK
<1>10. Whole(u, T)
  <2>1. n <= Len(o)
    BY <1>1, <1>2
  <2> QED BY <1>2, <1>3, <2>1, WholeFrom DEF ChainOK
<1>11. ASSUME NEW i \in 1..(e + 1) PROVE v[i] # <<>> /\ Whole(v[i], T)
  <2>1. CASE i = e + 1
    BY <1>6, <1>7, <1>9, <2>1
  <2>2. CASE i # e + 1
    <3>1. i \in 1..e
      BY <2>2
    <3> QED BY <1>1, <1>6, <3>1 DEF ChainOK
  <2> QED BY <2>1, <2>2
<1>12. ASSUME NEW i \in 1..e PROVE v[i + 1][1] = <<EndOf(v[i]) + 1, 1>>
  <2>1. CASE i = e
    <3>1. w # <<>>
      BY <1>1, <2>1
    <3>2. o[1] = <<EndOf(w[e]) + 1, 1>>
      BY <1>1, <1>7, <3>1 DEF ChainOK
    <3>3. v[i] = w[e] /\ v[i + 1] = s
      BY <1>6, <2>1
    <3> QED BY <1>7, <3>2, <3>3
  <2>2. CASE i # e
    <3>1. i \in 1..(e - 1) /\ i \in 1..e /\ i + 1 \in 1..e
      BY <2>2
    <3>2. v[i] = w[i] /\ v[i + 1] = w[i + 1]
      BY <1>6, <3>1
    <3> QED BY <1>1, <3>1, <3>2 DEF ChainOK
  <2> QED BY <2>1, <2>2
<1>13. ASSUME NEW b, Starts(T, w, o, b) PROVE Starts(T, v, u, b)
  <2>1. CASE w = <<>>
    <3>1. e = 0
      BY <1>1, <2>1
    <3>2. v[1] = s
      BY <1>6, <3>1
    <3> QED BY <1>7, <1>8, <1>13, <2>1, <3>2 DEF Starts
  <2>2. CASE w # <<>>
    <3>1. 1 \in 1..e
      BY <1>1, <2>2
    <3>2. v[1] = w[1]
      BY <1>6, <3>1
    <3> QED BY <1>8, <1>13, <2>2, <3>2 DEF Starts
  <2> QED BY <2>1, <2>2
<1>14. CASE n = l
  <2>1. Len(u) = 0
    BY <1>1, <1>5, <1>14
  <2>2. u = <<>>
    BY <1>5, <2>1, EmptySeq
  <2>3. EndOf(s) = Len(T)
    BY <1>1, <1>7, <1>14 DEF ChainOK, EndOf
  <2>4. EndOf(v[Len(v)]) = Len(T)
    BY <1>6, <2>3
  <2>5. ChainOK(T, v, u)
    <3>1. \A i \in 1..Len(v) : v[i] # <<>> /\ Whole(v[i], T)
      BY <1>6, <1>11
    <3>2. \A i \in 1..(Len(v) - 1) : v[i + 1][1] = <<EndOf(v[i]) + 1, 1>>
      <4>1. Len(v) - 1 = e
        BY <1>6
      <4> QED BY <1>12, <4>1
    <3> QED BY <1>10, <2>2, <2>4, <3>1, <3>2 DEF ChainOK
  <2> QED BY <1>3, <1>13, <2>5
<1>15. CASE n # l
  <2>1. n \in 1..(l - 1) /\ 1 \in 1..(l - n) /\ l - n \in 1..(l - n) /\ n + (l - n) = l
    BY <1>2, <1>15
  <2>2. Len(u) = l - n /\ \A i \in 1..(l - n) : u[i] = o[n + i]
    BY <1>1, <1>5
  <2>3. u[1] = o[n + 1] /\ u[Len(u)] = o[l]
    <3>1. u[1] = o[n + 1] /\ u[l - n] = o[n + (l - n)]
      BY <2>1, <2>2
    <3> QED BY <2>1, <2>2, <3>1
  <2>4. u # <<>>
    <3>1. Len(u) # 0
      BY <2>1, <2>2
    <3> QED BY <3>1
  <2>5. o[n + 1] = <<o[n][1] + 1, 1>>
    BY <1>1, <2>1 DEF ChainOK, Whole
  <2>6. EndOf(u) = Len(T)
    BY <1>1, <1>7, <2>3 DEF ChainOK, EndOf
  <2>7. u[1] = <<EndOf(v[Len(v)]) + 1, 1>>
    BY <1>6, <1>7, <2>3, <2>5
  <2>8. ChainOK(T, v, u)
    <3>1. \A i \in 1..Len(v) : v[i] # <<>> /\ Whole(v[i], T)
      BY <1>6, <1>11
    <3>2. \A i \in 1..(Len(v) - 1) : v[i + 1][1] = <<EndOf(v[i]) + 1, 1>>
      <4>1. Len(v) - 1 = e
        BY <1>6
      <4> QED BY <1>12, <4>1
    <3> QED BY <1>10, <2>4, <2>6, <2>7, <3>1, <3>2 DEF ChainOK
  <2> QED BY <1>3, <1>13, <2>8
<1> QED BY <1>14, <1>15

-----------------------------------------------------------------------------
(* The unread bytes.                                                       *)

\* The first n records of w one behind the other, as Unread puts them together.
Joins(f, w, n) == f = [i \in 0..n |-> IF i = 0 THEN <<>> ELSE f[i - 1] \o w[i]]

\* The recursive definition in Unread has a solution for every number of records.
LEMMA JoinsExists ==
  ASSUME NEW w, NEW n \in Nat
  PROVE  \E f : Joins(f, w, n)
<1> DEFINE Bad == {m \in Nat : ~\E f : Joins(f, w, m)}
<1> SUFFICES ASSUME Bad # {} PROVE FALSE
  OBVIOUS
<1>1. PICK m \in Bad : \A k \in Bad : m <= k
  <2>1. Bad \subseteq Nat
    OBVIOUS
  <2> HIDE DEF Bad
  <2> QED BY <2>1, LeastNumber
<1>2. m \in Nat /\ ~\E f : Joins(f, w, m)
  BY <1>1
<1>3. CASE m = 0
  <2>1. PICK f : f = [i \in 0..0 |-> <<>>]
    OBVIOUS
  <2>2. Joins(f, w, 0)
    BY <2>1 DEF Joins
  <2> QED BY <1>2, <1>3, <2>2
<1>4. CASE m > 0
  <2>1. m - 1 \in Nat /\ m - 1 \notin Bad
    BY <1>1, <1>2, <1>4
  <2>2. PICK f : Joins(f, w, m - 1)
    BY <2>1
  <2>3. PICK g : g = [i \in 0..m |-> IF i = m THEN f[m - 1] \o w[m] ELSE f[i]]
    OBVIOUS
  <2>4. ASSUME NEW i \in 0..m
        PROVE  g[i] = IF i = 0 THEN <<>> ELSE g[i - 1] \o w[i]
    <3>1. CASE i = m
      <4>1. i # 0 /\ i - 1 \in 0..m /\ i - 1 # m
        BY <1>2, <1>4, <3>1
      <4>2. g[i] = f[m - 1] \o w[m] /\ g[i - 1] = f[m - 1]
        BY <2>3, <3>1, <4>1
      <4> QED BY <3>1, <4>1, <4>2
    <3>2. CASE i # m
      <4>1. i \in 0..(m - 1) /\ (i # 0 => i - 1 \in 0..m /\ i - 1 # m)
        BY <1>2, <1>4, <3>2
      <4>2. g[i] = f[i] /\ (i # 0 => g[i - 1] = f[i - 1])
        BY <2>3, <3>2, <4>1
      <4>3. f[i] = IF i = 0 THEN <<>> ELSE f[i - 1] \o w[i]
        BY <2>2, <4>1 DEF Joins
      <4> QED BY <4>2, <4>3
    <3> QED BY <3>1, <3>2
  <2>5. Joins(g, w, m)
    <3>1. g = [i \in 0..m |-> g[i]]
      BY <2>3
    <3> QED BY <2>4, <3>1 DEF Joins
  <2> QED BY <1>2, <2>5
<1> QED BY <1>2, <1>3, <1>4

\* s begins with b.
FirstIs(s, b, S) == s \in Seq(S) /\ s # <<>> /\ s[1] = b

\* The first byte of the records is that of the first record.
LEMMA JoinsFirst ==
  ASSUME NEW S, NEW w \in Seq(Seq(S)), NEW f, Joins(f, w, Len(w)), \A i \in 1..Len(w) : w[i] # <<>>
  PROVE  \A i \in 1..Len(w) : FirstIs(f[i], w[1][1], S)
<1>1. PICK n \in Nat : n = Len(w)
  OBVIOUS
<1>2. f[0] = <<>> /\ \A i \in 1..n : f[i] = f[i - 1] \o w[i]
  BY <1>1 DEF Joins
<1>3. \A i \in 1..n : w[i] \in Seq(S) /\ w[i] # <<>>
  BY <1>1
<1> DEFINE Bad == {i \in 1..n : ~FirstIs(f[i], w[1][1], S)}
<1>4. Bad = {}
  <2> SUFFICES ASSUME Bad # {} PROVE FALSE
    OBVIOUS
  <2>1. PICK m \in Bad : \A k \in Bad : m <= k
    <3>1. Bad \subseteq Nat
      OBVIOUS
    <3> HIDE DEF Bad
    <3> QED BY <3>1, LeastNumber
  <2>2. m \in 1..n /\ ~FirstIs(f[m], w[1][1], S)
    BY <2>1
  <2>3. f[m] = f[m - 1] \o w[m] /\ w[m] \in Seq(S) /\ w[m] # <<>>
    BY <1>2, <1>3, <2>2
  <2>4. CASE m = 1
    <3>1. f[m - 1] = <<>>
      <4>1. m - 1 = 0
        BY <2>4
      <4> QED BY <1>2, <4>1
    <3>2. f[m] = <<>> \o w[m]
      BY <2>3, <3>1
    <3>3. f[m] = w[1]
      <4>1. PICK s \in Seq(S) : s = w[m]
        BY <2>3
      <4>2. <<>> \o s = s
        OBVIOUS
      <4> QED BY <2>4, <3>2, <4>1, <4>2
    <3> QED BY <2>2, <2>3, <2>4, <3>3 DEF FirstIs
  <2>5. CASE m # 1
    <3>1. m - 1 \in 1..n /\ m - 1 \notin Bad
      BY <2>1, <2>2, <2>5
    <3>2. FirstIs(f[m - 1], w[1][1], S)
      BY <3>1
    <3>3. f[m - 1] \in Seq(S) /\ f[m - 1] # <<>> /\ f[m - 1][1] = w[1][1]
      BY <3>2 DEF FirstIs
    <3>4. Joined(f[m - 1] \o w[m], f[m - 1], w[m], S)
      BY <2>3, <3>3, ConcatEnds
    <3>5. FirstIs(f[m], w[1][1], S)
      BY <2>3, <3>3, <3>4 DEF FirstIs, Joined
    <3> QED BY <2>2, <3>5
  <2> QED BY <2>4, <2>5
<1> QED BY <1>1, <1>4

\* The first unread byte.
LEMMA UnreadFirst ==
  ASSUME NEW S, wire \in Seq(Seq(S)), outbox \in Seq(S), \A i \in 1..Len(wire) : wire[i] # <<>>,
         Unread # <<>>
  PROVE  /\ wire # <<>> => Unread[1] = wire[1][1]
         /\ wire = <<>> => outbox # <<>> /\ Unread[1] = outbox[1]
<1>1. PICK n \in Nat : n = Len(wire)
  OBVIOUS
<1>2. Unread = (CHOOSE f : Joins(f, wire, n))[n] \o outbox
  BY <1>1 DEF Unread, Joins
<1>3. PICK f : f = CHOOSE g : Joins(g, wire, n)
  OBVIOUS
<1>4. Joins(f, wire, n)
  BY <1>3, JoinsExists
<1>5. Unread = f[n] \o outbox
  BY <1>2, <1>3
<1>6. CASE wire = <<>>
  <2>1. n = 0
    BY <1>1, <1>6
  <2>2. f[n] = <<>>
    BY <1>4, <2>1 DEF Joins
  <2>3. Unread = outbox
    BY <1>5, <2>2
  <2> QED BY <1>6, <2>3
<1>7. CASE wire # <<>>
  <2>1. n \in 1..n
    BY <1>1, <1>7
  <2>2. FirstIs(f[n], wire[1][1], S)
    BY <1>1, <1>4, <2>1, JoinsFirst
  <2>3. f[n] \in Seq(S) /\ f[n] # <<>> /\ f[n][1] = wire[1][1]
    BY <2>2 DEF FirstIs
  <2>4. CASE outbox = <<>>
    <3>1. Unread = f[n]
      BY <1>5, <2>3, <2>4, ConcatEmptySeq
    <3> QED BY <1>7, <2>3, <3>1
  <2>5. CASE outbox # <<>>
    <3>1. Joined(f[n] \o outbox, f[n], outbox, S)
      BY <2>3, <2>5, ConcatEnds
    <3> QED BY <1>5, <1>7, <2>3, <3>1 DEF Joined
  <2> QED BY <2>4, <2>5
<1> QED BY <1>6, <1>7

\* At the start of a packet the first unread byte is its first one.
LEMMA StartsUnread ==
  ASSUME wire \in Seq(Seq(BytesOf(Totals))), outbox \in Seq(BytesOf(Totals)),
         ChainOK(Totals, wire, outbox), NEW b, Starts(Totals, wire, outbox, b), Unread # <<>>
  PROVE  Unread[1] = b
<1>1. \A i \in 1..Len(wire) : wire[i] # <<>>
  BY DEF ChainOK
<1>2. /\ wire # <<>> => Unread[1] = wire[1][1]
      /\ wire = <<>> => outbox # <<>> /\ Unread[1] = outbox[1]
  BY <1>1, UnreadFirst
<1> QED BY <1>2 DEF Starts

-----------------------------------------------------------------------------
(* Types.                                                                  *)

\* Totals, for any packets.
TotalsOf(P) == [k \in 1..Len(P) |-> (1 + Len(WriteLen(P[k]))) + P[k]]

\* The length of a packet in bytes.
LEMMA TotalNat ==
  ASSUME NEW l \in RemLens
  PROVE  l \in Nat /\ Len(WriteLen(l)) \in Nat \ {0} /\ (1 + Len(WriteLen(l))) + l \in Nat \ {0}
<1>1. l \in Nat
  BY FramingAssumption
<1>2. Len(WriteLen(l)) \in Nat \ {0}
  BY <1>1, Digits
<1> QED BY <1>1, <1>2

\* The lengths of the packets in bytes.
LEMMA TotalsType ==
  ASSUME NEW P \in Seq(RemLens)
  PROVE  /\ TotalsOf(P) \in Seq(Nat \ {0}) /\ Len(TotalsOf(P)) = Len(P)
         /\ \A k \in 1..Len(P) : TotalsOf(P)[k] = (1 + Len(WriteLen(P[k]))) + P[k]
<1>1. \A k \in 1..Len(P) : (1 + Len(WriteLen(P[k]))) + P[k] \in Nat \ {0}
  <2> TAKE k \in 1..Len(P)
  <2>1. P[k] \in RemLens
    OBVIOUS
  <2> QED BY <2>1, TotalNat
<1>2. Len(P) \in Nat
  OBVIOUS
<1>3. TotalsOf(P) \in [1..Len(P) -> Nat \ {0}]
  BY <1>1 DEF TotalsOf
<1>4. TotalsOf(P) \in Seq(Nat \ {0}) /\ Len(TotalsOf(P)) = Len(P)
  BY <1>2, <1>3
<1> QED BY <1>4 DEF TotalsOf

\* A packet more.
LEMMA TotalsGrow ==
  ASSUME NEW P \in Seq(RemLens), NEW l \in RemLens
  PROVE  TotalsOf(Append(P, l)) = Append(TotalsOf(P), (1 + Len(WriteLen(l))) + l)
<1>1. PICK Q, T, x : Q = Append(P, l) /\ T = TotalsOf(P) /\ x = (1 + Len(WriteLen(l))) + l
  OBVIOUS
<1>2. PICK n \in Nat : n = Len(P)
  OBVIOUS
<1>3. Q \in Seq(RemLens) /\ Len(Q) = n + 1 /\ Q[n + 1] = l /\ \A i \in 1..n : Q[i] = P[i]
  BY <1>1, <1>2, AppendProperties
<1>4. T \in Seq(Nat \ {0}) /\ Len(T) = n /\ \A k \in 1..n : T[k] = (1 + Len(WriteLen(P[k]))) + P[k]
  BY <1>1, <1>2, TotalsType
<1>5. x \in Nat \ {0}
  BY <1>1, TotalNat
<1>6. /\ Append(T, x) \in Seq(Nat \ {0}) /\ Len(Append(T, x)) = n + 1 /\ Append(T, x)[n + 1] = x
      /\ \A i \in 1..n : Append(T, x)[i] = T[i]
  BY <1>4, <1>5, AppendProperties
<1>7. /\ TotalsOf(Q) \in Seq(Nat \ {0}) /\ Len(TotalsOf(Q)) = n + 1
      /\ \A k \in 1..(n + 1) : TotalsOf(Q)[k] = (1 + Len(WriteLen(Q[k]))) + Q[k]
  BY <1>3, TotalsType
<1>8. ASSUME NEW k \in 1..(n + 1) PROVE TotalsOf(Q)[k] = Append(T, x)[k]
  <2>1. CASE k = n + 1
    BY <1>1, <1>3, <1>6, <1>7, <2>1
  <2>2. CASE k # n + 1
    <3>1. k \in 1..n
      BY <2>2
    <3>2. TotalsOf(Q)[k] = (1 + Len(WriteLen(P[k]))) + P[k]
      BY <1>3, <1>7, <3>1
    <3> QED BY <1>4, <1>6, <3>1, <3>2
  <2> QED BY <2>1, <2>2
<1>9. TotalsOf(Q) = Append(T, x)
  <2>1. PICK A \in Seq(Nat \ {0}), B \in Seq(Nat \ {0}) : A = TotalsOf(Q) /\ B = Append(T, x)
    BY <1>6, <1>7
  <2>2. Len(A) = Len(B) /\ \A k \in 1..Len(A) : A[k] = B[k]
    BY <1>6, <1>7, <1>8, <2>1
  <2>3. A = B
    BY <2>2, SeqEqual
  <2> QED BY <2>1, <2>3
<1> QED BY <1>1, <1>9

\* The packets on the way.
LEMMA TotalsNow ==
  ASSUME packets \in Seq(RemLens)
  PROVE  /\ Totals = TotalsOf(packets) /\ Totals \in Seq(Nat \ {0}) /\ Len(Totals) = Len(packets)
         /\ \A k \in 1..Len(packets) :
              /\ packets[k] \in Nat
              /\ FixedLength(k) = 1 + Len(WriteLen(packets[k])) /\ FixedLength(k) \in Nat /\ FixedLength(k) >= 2
              /\ Totals[k] = FixedLength(k) + packets[k]
<1>1. Totals = TotalsOf(packets)
  BY DEF Totals, TotalsOf, TotalLength, FixedLength
<1>2. /\ TotalsOf(packets) \in Seq(Nat \ {0}) /\ Len(TotalsOf(packets)) = Len(packets)
      /\ \A k \in 1..Len(packets) : TotalsOf(packets)[k] = (1 + Len(WriteLen(packets[k]))) + packets[k]
  BY TotalsType
<1>3. ASSUME NEW k \in 1..Len(packets)
      PROVE  /\ packets[k] \in Nat
             /\ FixedLength(k) = 1 + Len(WriteLen(packets[k])) /\ FixedLength(k) \in Nat /\ FixedLength(k) >= 2
  <2>1. packets[k] \in RemLens
    OBVIOUS
  <2>2. packets[k] \in Nat /\ Len(WriteLen(packets[k])) \in Nat \ {0}
    BY <2>1, TotalNat
  <2>3. 1 + Len(WriteLen(packets[k])) \in Nat /\ 1 + Len(WriteLen(packets[k])) >= 2
    BY <2>2
  <2> QED BY <2>2, <2>3 DEF FixedLength
<1>4. \A k \in 1..Len(packets) : Totals[k] = FixedLength(k) + packets[k]
  BY <1>1, <1>2 DEF FixedLength
<1> QED BY <1>1, <1>2, <1>3, <1>4

\* What is behind some elements, however many there are.
LEMMA FromType ==
  ASSUME NEW S, NEW s \in Seq(S), NEW n \in Nat
  PROVE  From(s, n + 1) \in Seq(S)
<1>1. PICK l \in Nat : l = Len(s)
  OBVIOUS
<1>2. \A i \in (n + 1)..l : s[i] \in S
  BY <1>1
<1>3. n + 1 \in Int /\ l \in Int
  OBVIOUS
<1>4. SubSeq(s, n + 1, l) \in Seq(S)
  BY <1>2, <1>3, SubSeqProperties
<1> QED BY <1>1, <1>4 DEF From

\* The reader's variables.
ReaderType ==
  /\ pc \in {"idle", "header", "length", "drop", "body"}
  /\ timer \in {"running", "ending", "expired"}
  /\ want \in 0..ReadBufSize /\ got \in 0..want
  /\ rem \in Nat /\ multiplier \in Nat /\ total \in 0..rem
  /\ next \in 1..(MaxPackets + 1)

\* read_packet returns.
LEMMA ReturnType ==
  ASSUME ReaderType, NEW v, Return(v)
  PROVE  ReaderType' /\ buf' = <<>>
<1>1. next' \in 1..(MaxPackets + 1)
  <2>1. next' = IF v \in {Nothing, Failed} \/ next > MaxPackets THEN next ELSE next + 1
    BY DEF Return
  <2>2. next \in 1..(MaxPackets + 1) /\ MaxPackets \in Nat
    BY FramingAssumption DEF ReaderType
  <2>3. CASE next > MaxPackets
    BY <2>1, <2>2, <2>3
  <2>4. CASE ~(next > MaxPackets)
    <3>1. next + 1 \in 1..(MaxPackets + 1)
      BY <2>2, <2>4
    <3> QED BY <2>1, <2>2, <3>1
  <2> QED BY <2>3, <2>4
<1>2. pc' = "idle" /\ timer' = "expired" /\ want' = 0 /\ got' = 0 /\ buf' = <<>>
  BY DEF Return, Read
<1>3. rem' = 0 /\ multiplier' = 1 /\ total' = 0
  BY DEF Return
<1>4. 0 \in 0..ReadBufSize /\ 0 \in 0..0
  BY FramingAssumption
<1> QED BY <1>1, <1>2, <1>3, <1>4 DEF ReaderType

\* A byte may be read, and nothing of it has been.
LEMMA OneByte == 1 \in 0..ReadBufSize /\ 0 \in 0..1
  BY FramingAssumption

\* The header byte is read.
LEMMA HeaderReadType ==
  ASSUME ReaderType, NEW rc, NEW bytes, NEW t \in {"running", "ending", "expired"}, HeaderRead(rc, bytes, t)
  PROVE  ReaderType' /\ buf' = <<>>
<1>1. CASE rc = "NOTHING"
  BY <1>1, ReturnType DEF HeaderRead
<1>2. CASE rc # "NOTHING"
  <2>1. pc' = "length" /\ timer' = t /\ want' = 1 /\ got' = 0 /\ buf' = <<>>
    BY <1>2 DEF HeaderRead, Read
  <2>2. rem' = rem /\ multiplier' = multiplier /\ total' = total /\ next' = next
    BY <1>2 DEF HeaderRead
  <2> QED BY <2>1, <2>2, OneByte DEF ReaderType
<1> QED BY <1>1, <1>2

\* A digit is a byte.
LEMMA DigitType ==
  ASSUME packets \in Seq(RemLens), NEW bytes \in Seq(BytesOf(Totals)), NEW d \in DigitValues(bytes)
  PROVE  d \in 0..(ByteValues - 1)
<1>1. CASE bytes # <<>> /\ bytes[1][2] \in 2..FixedLength(bytes[1][1])
  <2>1. PICK k, place : k = bytes[1][1] /\ place = bytes[1][2]
    OBVIOUS
  <2>2. d = WriteLen(packets[k])[place - 1]
    BY <1>1, <2>1 DEF DigitValues
  <2>3. bytes[1] \in BytesOf(Totals)
    BY <1>1, NotEmpty
  <2>4. k \in 1..Len(packets)
    BY <2>1, <2>3, TotalsNow, ByteFields
  <2>5. packets[k] \in Nat /\ FixedLength(k) = 1 + Len(WriteLen(packets[k]))
    BY <2>4, TotalsNow
  <2>6. PICK w \in Seq(0..(ByteValues - 1)) : w = WriteLen(packets[k])
    BY <2>5, Digits
  <2>7. place \in 2..(1 + Len(w))
    BY <1>1, <2>1, <2>5, <2>6
  <2>8. place - 1 \in 1..Len(w)
    BY <2>7
  <2>9. w[place - 1] \in 0..(ByteValues - 1)
    BY <2>8, ElementOfSeq
  <2> QED BY <2>2, <2>6, <2>9
<1>2. CASE ~(bytes # <<>> /\ bytes[1][2] \in 2..FixedLength(bytes[1][1]))
  BY <1>2 DEF DigitValues
<1> QED BY <1>1, <1>2

\* One round of decode_packet_remaining_len, for the digit d.
Round(d, t) ==
  LET length == rem + (d % Radix) * multiplier
  IN IF d < Radix /\ length = 0 THEN Return(InBuffer(header, 0, <<>>))
     ELSE /\ rem' = length
          /\ timer' = t
          /\ IF d >= Radix THEN pc' = "length" /\ multiplier' = multiplier * Radix /\ Read(1)
             ELSE /\ multiplier' = 1
                  /\ IF TooLong(length) THEN pc' = "drop" /\ Read(ReadBufSize)
                     ELSE pc' = "body" /\ Read(length)
          /\ UNCHANGED <<header, total, result, next>>

\* A digit of the length is read.
LEMMA LengthReadType ==
  ASSUME ReaderType, packets \in Seq(RemLens), NEW bytes \in Seq(BytesOf(Totals)),
         NEW rc, NEW t \in {"running", "ending", "expired"}, LengthRead(rc, bytes, t)
  PROVE  ReaderType' /\ buf' = <<>>
<1>1. CASE rc # "SUCCESS"
  BY <1>1, ReturnType DEF LengthRead
<1>2. CASE rc = "SUCCESS"
  <2>1. PICK d \in DigitValues(bytes) : Round(d, t)
    BY <1>2 DEF LengthRead, Round
  <2>2. PICK length :
          /\ length = rem + (d % Radix) * multiplier
          /\ IF d < Radix /\ length = 0 THEN Return(InBuffer(header, 0, <<>>))
             ELSE /\ rem' = length
                  /\ timer' = t
                  /\ IF d >= Radix THEN pc' = "length" /\ multiplier' = multiplier * Radix /\ Read(1)
                     ELSE /\ multiplier' = 1
                          /\ IF TooLong(length) THEN pc' = "drop" /\ Read(ReadBufSize)
                             ELSE pc' = "body" /\ Read(length)
                  /\ UNCHANGED <<header, total, result, next>>
    BY <2>1 DEF Round
  <2>3. CASE d < Radix /\ length = 0
    BY <2>2, <2>3, ReturnType
  <2>4. CASE ~(d < Radix /\ length = 0)
    <3>1. length \in Nat /\ rem <= length
      <4>1. d \in Nat
        BY DigitType DEF ByteValues
      <4>2. rem \in Nat /\ multiplier \in Nat
        BY DEF ReaderType
      <4>3. PICK a \in Nat : a = d % Radix
        BY <4>1, Quotient
      <4>4. a * multiplier \in Nat
        BY <4>2
      <4> QED BY <2>2, <4>2, <4>3, <4>4
    <3>2. rem' = length /\ timer' = t /\ total' = total /\ next' = next
      BY <2>2, <2>4
    <3>c. total' \in 0..rem'
      BY <3>1, <3>2 DEF ReaderType
    <3>3. CASE d >= Radix
      <4>1. pc' = "length" /\ multiplier' = multiplier * Radix /\ want' = 1 /\ got' = 0 /\ buf' = <<>>
        BY <2>2, <2>4, <3>3 DEF Read
      <4>2. multiplier' \in Nat
        BY <4>1, RadixAssumption DEF ReaderType
      <4> QED BY <3>1, <3>2, <3>c, <4>1, <4>2, OneByte DEF ReaderType
    <3>4. CASE ~(d >= Radix)
      <4>1. /\ multiplier' = 1 /\ pc' \in {"drop", "body"} /\ got' = 0 /\ buf' = <<>>
            /\ want' = IF length >= ReadBufSize THEN ReadBufSize ELSE length
        BY <2>2, <2>4, <3>4 DEF Read, TooLong
      <4>2. want' \in 0..ReadBufSize /\ got' \in 0..want'
        BY <3>1, <4>1, FramingAssumption
      <4>3. multiplier' \in Nat
        BY <4>1
      <4> QED BY <3>1, <3>2, <3>c, <4>1, <4>2, <4>3 DEF ReaderType
    <3> QED BY <3>3, <3>4
  <2> QED BY <2>3, <2>4
<1> QED BY <1>1, <1>2

\* A piece of a packet that is dropped is read.
LEMMA DropReadType ==
  ASSUME ReaderType, pc = "drop", NEW n \in Nat,
         NEW rc, NEW t \in {"running", "ending", "expired"}, DropRead(rc, n, t)
  PROVE  ReaderType' /\ buf' = <<>>
<1>1. CASE rc # "SUCCESS" \/ total + n >= rem
  BY <1>1, ReturnType DEF DropRead
<1>2. CASE ~(rc # "SUCCESS" \/ total + n >= rem)
  <2>1. /\ total' = total + n /\ timer' = t /\ pc' = pc /\ rem' = rem /\ multiplier' = multiplier /\ next' = next
        /\ want' = IF rem - total' >= ReadBufSize THEN ReadBufSize ELSE rem - total'
        /\ got' = 0 /\ buf' = <<>>
    BY <1>2 DEF DropRead, Read
  <2>2. total \in Nat /\ rem \in Nat /\ ~(total + n >= rem)
    BY <1>2 DEF ReaderType
  <2>3. total' \in 0..rem' /\ rem - total' \in Nat
    BY <2>1, <2>2
  <2>4. want' \in 0..ReadBufSize /\ got' \in 0..want'
    BY <2>1, <2>3, FramingAssumption
  <2> QED BY <2>1, <2>3, <2>4 DEF ReaderType
<1> QED BY <1>1, <1>2

\* iot_tls_read returns to read_packet.
LEMMA TlsReturnsType ==
  ASSUME ReaderType, packets \in Seq(RemLens), NEW bytes \in Seq(BytesOf(Totals)), NEW n \in Nat,
         NEW rc, NEW t \in {"running", "ending", "expired"}, TlsReturns(rc, n, bytes, t)
  PROVE  ReaderType' /\ buf' = <<>>
<1>1. CASE pc = "header"
  BY <1>1, HeaderReadType DEF TlsReturns
<1>2. CASE pc = "length"
  BY <1>2, LengthReadType DEF TlsReturns
<1>3. CASE pc = "drop"
  BY <1>3, DropReadType DEF TlsReturns
<1>4. CASE pc \notin {"header", "length", "drop"}
  <2>1. BodyRead(rc, n, bytes)
    BY <1>4 DEF TlsReturns
  <2> QED BY <2>1, ReturnType DEF BodyRead
<1> QED BY <1>1, <1>2, <1>3, <1>4

\* An ssl_read returns to iot_tls_read.
LEMMA AfterSslReadType ==
  ASSUME ReaderType, packets \in Seq(RemLens), buf \in Seq(BytesOf(Totals)), NEW bytes \in Seq(BytesOf(Totals)),
         NEW error \in BOOLEAN, NEW t \in Later, AfterSslRead(error, bytes, t)
  PROVE  ReaderType' /\ buf' \in Seq(BytesOf(Totals))
<1>1. t \in {"running", "ending", "expired"}
  BY DEF Later
<1>2. PICK n \in Nat : n = got + Len(bytes)
  <2>1. Len(bytes) \in Nat /\ got \in Nat
    BY DEF ReaderType
  <2> QED BY <2>1
<1>3. PICK b \in Seq(BytesOf(Totals)) : b = Overwrite(bytes)
  <2>1. From(buf, Len(bytes) + 1) \in Seq(BytesOf(Totals))
    <3>1. Len(bytes) \in Nat
      OBVIOUS
    <3> QED BY <3>1, FromType
  <2> QED BY <2>1, ConcatProperties DEF Overwrite
<1>4. CASE ~error /\ n < want /\ t = "running"
  <2>1. /\ got' = n /\ buf' = b /\ timer' = t /\ pc' = pc /\ want' = want
        /\ rem' = rem /\ multiplier' = multiplier /\ total' = total /\ next' = next
    BY <1>2, <1>3, <1>4 DEF AfterSslRead, locals
  <2>2. got' \in 0..want'
    <3>1. want \in Nat /\ n < want
      BY <1>4 DEF ReaderType
    <3> QED BY <1>2, <2>1, <3>1
  <2> QED BY <1>1, <2>1, <2>2 DEF ReaderType
<1>5. CASE ~(~error /\ n < want /\ t = "running")
  <2>1. TlsReturns(Rc(error, n, t), n, b, t)
    BY <1>2, <1>3, <1>5 DEF AfterSslRead
  <2>2. ReaderType' /\ buf' = <<>>
    BY <1>1, <2>1, TlsReturnsType
  <2> QED BY <2>2
<1> QED BY <1>4, <1>5

\* The types hold at the start.
LEMMA TypeInit == Init => TypeInv
<1> SUFFICES ASSUME Init PROVE TypeInv
  OBVIOUS
<1>1. <<>> \in Seq(RemLens) /\ <<>> \in Seq(BytesOf(Totals)) /\ <<>> \in Seq(Seq(BytesOf(Totals)))
  OBVIOUS
<1>2. 1 \in 1..(MaxPackets + 1) /\ Len(<<>>) <= MaxPackets /\ 0 \in 0..ReadBufSize /\ 0 \in 0..0
  BY FramingAssumption
<1> QED BY <1>1, <1>2 DEF Init, TypeInv, TypeOK

\* The bytes of the packet that the broker sends.
LEMMA SendBytes ==
  ASSUME TypeInv, NEW length \in RemLens, BrokerSend(length)
  PROVE  \E x \in Nat \ {0} : /\ Totals' = Append(Totals, x)
                              /\ outbox' = outbox \o [i \in 1..x |-> <<Len(Totals) + 1, i>>]
<1>1. packets \in Seq(RemLens)
  BY DEF TypeInv, TypeOK
<1>2. PICK x \in Nat \ {0} : x = (1 + Len(WriteLen(length))) + length
  BY TotalNat
<1>3. packets' = Append(packets, length) /\ Len(packets') = Len(packets) + 1
  BY <1>1, AppendProperties DEF BrokerSend
<1>4. Len(Totals) = Len(packets) /\ Totals = TotalsOf(packets)
  BY <1>1, TotalsNow
<1>5. Totals' = Append(Totals, x)
  <2>1. Totals' = TotalsOf(packets')
    BY DEF Totals, TotalsOf, TotalLength, FixedLength
  <2> QED BY <1>1, <1>2, <1>3, <1>4, <2>1, TotalsGrow
<1>6. PICK z : z = [i \in 1..x |-> <<Len(Totals) + 1, i>>]
  OBVIOUS
<1>7. outbox' = outbox \o z
  <2>1. outbox' = outbox \o [i \in 1..((1 + Len(WriteLen(length))) + length) |-> <<Len(packets'), i>>]
    BY DEF BrokerSend
  <2> QED BY <1>2, <1>3, <1>4, <1>6, <2>1
<1> QED BY <1>5, <1>6, <1>7

\* The broker sends a packet.
LEMMA BrokerSendType ==
  ASSUME TypeInv, NEW length \in RemLens, BrokerSend(length)
  PROVE  TypeInv'
<1>1. /\ packets \in Seq(RemLens) /\ outbox \in Seq(BytesOf(Totals))
      /\ wire \in Seq(Seq(BytesOf(Totals))) /\ buf \in Seq(BytesOf(Totals))
      /\ Len(packets) < MaxPackets
  BY DEF TypeInv, TypeOK, BrokerSend
<1>a. PICK x \in Nat \ {0} : /\ Totals' = Append(Totals, x)
                             /\ outbox' = outbox \o [i \in 1..x |-> <<Len(Totals) + 1, i>>]
  BY SendBytes
<1>2. PICK z : /\ Totals' = Append(Totals, x) /\ outbox' = outbox \o z
               /\ z = [i \in 1..x |-> <<Len(Totals) + 1, i>>]
  BY <1>a
<1>3. packets' = Append(packets, length) /\ packets' \in Seq(RemLens) /\ Len(packets') = Len(packets) + 1
  BY <1>1, AppendProperties DEF BrokerSend
<1>4. Totals \in Seq(Nat \ {0})
  BY <1>1, TotalsNow
<1>5. BytesOf(Totals) \subseteq BytesOf(Append(Totals, x))
  BY <1>4, BytesGrow
<1>6. z \in Seq(BytesOf(Append(Totals, x)))
  BY <1>2, <1>4, NewPacket
<1>7. outbox' \in Seq(BytesOf(Append(Totals, x)))
  <2>1. outbox \in Seq(BytesOf(Append(Totals, x)))
    BY <1>1, <1>5, SeqGrow
  <2> QED BY <1>2, <1>6, <2>1, ConcatProperties
<1>8. wire' \in Seq(Seq(BytesOf(Append(Totals, x)))) /\ buf' \in Seq(BytesOf(Append(Totals, x)))
  <2>1. wire' = wire /\ buf' = buf
    BY DEF BrokerSend
  <2> QED BY <1>1, <1>5, <2>1, SeqGrow
<1>9. Len(packets') <= MaxPackets
  <2>1. Len(packets) \in Nat
    BY <1>1
  <2> QED BY <1>1, <1>3, <2>1, FramingAssumption
<1>10. TypeOK'
  BY <1>3 DEF TypeInv, TypeOK, BrokerSend, locals
<1> QED BY <1>2, <1>7, <1>8, <1>9, <1>10 DEF TypeInv

\* A record is sent.
LEMMA RecordArrivesType ==
  ASSUME TypeInv, NEW n \in DOMAIN outbox, RecordArrives(n)
  PROVE  TypeInv'
<1>1. /\ outbox \in Seq(BytesOf(Totals)) /\ wire \in Seq(Seq(BytesOf(Totals)))
      /\ wire' = Append(wire, SubSeq(outbox, 1, n)) /\ outbox' = From(outbox, n + 1)
  BY DEF TypeInv, RecordArrives
<1>2. n \in Nat /\ n <= Len(outbox)
  BY <1>1
<1>3. SubSeq(outbox, 1, n) \in Seq(BytesOf(Totals)) /\ outbox' \in Seq(BytesOf(Totals))
  BY <1>1, <1>2, PrefixSeq, FromType
<1>4. wire' \in Seq(Seq(BytesOf(Totals)))
  BY <1>1, <1>3, AppendProperties
<1>5. packets' = packets /\ buf' = buf /\ cut' \in BOOLEAN /\ TypeOK'
  BY DEF TypeInv, TypeOK, RecordArrives, locals
<1>6. Totals' = Totals
  BY <1>5 DEF Totals, TotalLength, FixedLength
<1> QED BY <1>3, <1>4, <1>5, <1>6 DEF TypeInv

\* A step of the reader alone.
LEMMA ReaderStepType ==
  ASSUME TypeInv, ReaderType', packets' = packets, outbox' = outbox, cut' = cut, interrupted' \in BOOLEAN,
         wire' \in Seq(Seq(BytesOf(Totals))), buf' \in Seq(BytesOf(Totals))
  PROVE  TypeInv'
<1>1. Totals' = Totals
  BY DEF Totals, TotalLength, FixedLength
<1>2. TypeOK'
  BY DEF TypeInv, TypeOK, ReaderType
<1> QED BY <1>1, <1>2 DEF TypeInv

\* What the types say of the reader.
LEMMA TypeReader ==
  ASSUME TypeInv
  PROVE  /\ ReaderType /\ packets \in Seq(RemLens) /\ Totals \in Seq(Nat \ {0})
         /\ buf \in Seq(BytesOf(Totals)) /\ outbox \in Seq(BytesOf(Totals)) /\ wire \in Seq(Seq(BytesOf(Totals)))
<1>1. packets \in Seq(RemLens)
  BY DEF TypeInv, TypeOK
<1> QED BY <1>1, TotalsNow DEF TypeInv, TypeOK, ReaderType

\* The length of what an ssl_read takes.
Taken == IF want < Len(wire[1]) THEN want ELSE Len(wire[1])

\* ssl_read takes bytes from the first record.
LEMMA TakenType ==
  ASSUME TypeInv, wire # <<>>
  PROVE  /\ wire[1] \in Seq(BytesOf(Totals)) /\ Taken \in Nat /\ Taken <= Len(wire[1])
         /\ SubSeq(wire[1], 1, Taken) \in Seq(BytesOf(Totals))
         /\ Len(SubSeq(wire[1], 1, Taken)) = Taken
         /\ AfterRead(wire, Taken) \in Seq(Seq(BytesOf(Totals)))
<1>1. wire \in Seq(Seq(BytesOf(Totals))) /\ want \in Nat
  BY DEF TypeInv, TypeOK
<1>2. wire[1] \in Seq(BytesOf(Totals))
  BY <1>1, NotEmpty
<1>3. Taken \in Nat /\ Taken <= Len(wire[1])
  <2>1. Len(wire[1]) \in Nat
    BY <1>2
  <2> QED BY <1>1, <2>1 DEF Taken
<1>4. SubSeq(wire[1], 1, Taken) \in Seq(BytesOf(Totals)) /\ Len(SubSeq(wire[1], 1, Taken)) = Taken
  BY <1>2, <1>3, PrefixSeq
<1>5. AfterRead(wire, Taken) \in Seq(Seq(BytesOf(Totals)))
  BY <1>1, <1>3, AfterReadType
<1> QED BY <1>2, <1>3, <1>4, <1>5

\* Every step keeps the types.
LEMMA TypeStep ==
  ASSUME TypeInv, [Next]_vars
  PROVE  TypeInv'
<1> USE DEF transport, locals
<1>1. /\ ReaderType /\ packets \in Seq(RemLens) /\ buf \in Seq(BytesOf(Totals))
      /\ outbox \in Seq(BytesOf(Totals)) /\ wire \in Seq(Seq(BytesOf(Totals)))
  BY TypeReader
<1>2. ASSUME NEW length \in RemLens, BrokerSend(length) PROVE TypeInv'
  BY <1>2, BrokerSendType
<1>3. ASSUME NEW n \in DOMAIN outbox, RecordArrives(n) PROVE TypeInv'
  BY <1>3, RecordArrivesType
<1>4. CASE ReadPacket
  <2>1. /\ packets' = packets /\ outbox' = outbox /\ wire' = wire /\ cut' = cut /\ interrupted' = interrupted
        /\ pc' = "header" /\ timer' = "running" /\ want' = 1 /\ got' = 0 /\ buf' = <<>>
        /\ rem' = rem /\ multiplier' = multiplier /\ total' = total /\ next' = next
    BY <1>4 DEF ReadPacket, Read
  <2>2. ReaderType'
    BY <1>1, <2>1, OneByte DEF ReaderType
  <2>3. interrupted' \in BOOLEAN /\ buf' \in Seq(BytesOf(Totals))
    BY <2>1 DEF TypeInv, TypeOK
  <2> QED BY <1>1, <2>1, <2>2, <2>3, ReaderStepType
<1>5. CASE SslReadBytes
  <2>1. /\ packets' = packets /\ outbox' = outbox /\ cut' = cut /\ interrupted' = interrupted
        /\ wire # <<>> /\ wire' = AfterRead(wire, Taken)
    BY <1>5 DEF SslReadBytes, AfterRead, Taken
  <2>2. PICK t \in Later : AfterSslRead(FALSE, SubSeq(wire[1], 1, Taken), t)
    BY <1>5 DEF SslReadBytes, Taken
  <2>3. SubSeq(wire[1], 1, Taken) \in Seq(BytesOf(Totals)) /\ wire' \in Seq(Seq(BytesOf(Totals)))
    BY <2>1, TakenType
  <2>4. ReaderType' /\ buf' \in Seq(BytesOf(Totals))
    BY <1>1, <2>2, <2>3, AfterSslReadType
  <2>5. interrupted' \in BOOLEAN
    BY <2>1 DEF TypeInv, TypeOK
  <2> QED BY <2>1, <2>3, <2>4, <2>5, ReaderStepType
<1>6. CASE SslReadFails
  <2>1. /\ packets' = packets /\ outbox' = outbox /\ wire' = wire /\ cut' = cut /\ interrupted' = interrupted
    BY <1>6 DEF SslReadFails
  <2>2. PICK t \in Later : AfterSslRead(TRUE, <<>>, t)
    BY <1>6 DEF SslReadFails
  <2>3. <<>> \in Seq(BytesOf(Totals)) /\ TRUE \in BOOLEAN /\ FALSE \in BOOLEAN
    OBVIOUS
  <2>4. ReaderType' /\ buf' \in Seq(BytesOf(Totals))
    BY <1>1, <2>2, <2>3, AfterSslReadType
  <2>5. interrupted' \in BOOLEAN
    BY <2>1 DEF TypeInv, TypeOK
  <2> QED BY <1>1, <2>1, <2>4, <2>5, ReaderStepType
<1>7. CASE SslReadAgain
  <2>1. /\ packets' = packets /\ outbox' = outbox /\ wire' = wire /\ cut' = cut
    BY <1>7 DEF SslReadAgain
  <2>2. PICK t \in Later : interrupted' = (interrupted \/ t # "running") /\ AfterSslRead(FALSE, <<>>, t)
    BY <1>7 DEF SslReadAgain
  <2>3. <<>> \in Seq(BytesOf(Totals)) /\ TRUE \in BOOLEAN /\ FALSE \in BOOLEAN
    OBVIOUS
  <2>4. ReaderType' /\ buf' \in Seq(BytesOf(Totals))
    BY <1>1, <2>2, <2>3, AfterSslReadType
  <2>5. interrupted' \in BOOLEAN
    BY <2>2 DEF TypeInv, TypeOK
  <2> QED BY <1>1, <2>1, <2>4, <2>5, ReaderStepType
<1>8. CASE UNCHANGED vars
  <2>1. Totals' = Totals
    BY <1>8 DEF Totals, TotalLength, FixedLength, vars
  <2> QED BY <1>8, <2>1 DEF TypeInv, TypeOK, vars
<1> QED BY <1>2, <1>3, <1>4, <1>5, <1>6, <1>7, <1>8 DEF Next

\* The types of the packet layer, and of the bytes on the way, in every state, disturbed or not.
THEOREM Types == Spec => []TypeInv
<1>1. Init => TypeInv
  BY TypeInit
<1>2. TypeInv /\ [Next]_vars => TypeInv'
  BY TypeStep
<1> QED BY <1>1, <1>2, PTL DEF Spec

\* TypeOK, in every state: what a stray byte means as a digit included.
THEOREM TypesOK == Spec => []TypeOK
<1>1. TypeInv => TypeOK
  BY DEF TypeInv
<1> QED BY <1>1, Types, PTL

-----------------------------------------------------------------------------
(* What a step does, seen from the client.                                 *)

Same         == packets' = packets /\ next' = next /\ result' = result
Starting     == packets' = packets /\ next' = next /\ result' = Idle
FoundNothing == packets' = packets /\ next' = next /\ result' = Nothing

Delivered ==
  /\ packets' = packets /\ next' = next + 1
  /\ next <= Len(packets) /\ packets[next] < ReadBufSize
  /\ result' = Image(next)

DroppedOne ==
  /\ packets' = packets /\ next' = next + 1
  /\ next <= Len(packets) /\ ~(packets[next] < ReadBufSize)
  /\ result' = Dropped

\* What is known where a step is taken that nothing disturbs.
InOrder == TypeInv /\ ChainOK(Totals, wire, outbox) /\ PlaceInv

\* The next packet is one of those sent: its lengths.
LEMMA NextPacket ==
  ASSUME InOrder, next <= Len(packets)
  PROVE  /\ next \in Nat /\ next \in 1..Len(packets) /\ next \in 1..Len(Totals)
         /\ packets[next] \in Nat /\ FixedLength(next) \in Nat /\ FixedLength(next) >= 2
         /\ FixedLength(next) = 1 + Len(WriteLen(packets[next]))
         /\ Totals[next] = FixedLength(next) + packets[next]
         /\ ~(next > MaxPackets)
<1>1. packets \in Seq(RemLens) /\ next \in 1..(MaxPackets + 1) /\ Len(packets) <= MaxPackets
  BY DEF InOrder, TypeInv, TypeOK
<1>2. Len(packets) \in Nat /\ MaxPackets \in Nat
  BY <1>1, FramingAssumption
<1>3. next \in Nat /\ next \in 1..Len(packets) /\ ~(next > MaxPackets)
  BY <1>1, <1>2
<1> QED BY <1>1, <1>3, TotalsNow

\* read_packet returns, at the start of the next packet.
LEMMA ReturnPlace ==
  ASSUME NEW v, Return(v), packets' = packets, outbox' = outbox,
         Starts(Totals, wire', outbox, <<next', 1>>), next' \in 1..(Len(packets) + 1)
  PROVE  PlaceInv'
<1>1. Totals' = Totals
  BY DEF Totals, TotalLength, FixedLength
<1>2. /\ pc' = "idle" /\ got' = 0 /\ buf' = <<>> /\ rem' = 0 /\ multiplier' = 1 /\ total' = 0
  BY DEF Return, Read
<1>3. Starts(Totals, wire, outbox, <<next, 1>>)'
  BY <1>1
<1> QED BY <1>2, <1>3 DEF PlaceInv

\* iot_tls_read has what it wants, from place p of packet k on.
Obtained(bytes, k, p, t) ==
  /\ bytes \in Seq(BytesOf(Totals)) /\ Len(bytes) = want
  /\ \A i \in 1..want : bytes[i] = <<k, p + i - 1>>
  /\ TlsReturns("SUCCESS", want, bytes, t)
  /\ ChainOK(Totals, wire', outbox)
  /\ want < Totals[k] - p + 1 => wire' # <<>> /\ wire'[1][1] = <<k, p + want>>
  /\ want = Totals[k] - p + 1 => Starts(Totals, wire', outbox, <<k + 1, 1>>)

\* The bytes are there: iot_tls_read needs one ssl_read, whenever its timer expires.
LEMMA ReadWhole ==
  ASSUME InOrder, SslReadBytes, NEW k, NEW p, wire[1][1] = <<k, p>>, want > 0, want <= Totals[k] - p + 1
  PROVE  \E t \in Later, bytes \in Seq(BytesOf(Totals)) : Obtained(bytes, k, p, t)
<1>1. /\ wire # <<>> /\ wire' = AfterRead(wire, Taken) /\ got = 0 /\ buf = <<>> /\ want \in Nat
      /\ wire \in Seq(Seq(BytesOf(Totals))) /\ outbox \in Seq(BytesOf(Totals)) /\ Totals \in Seq(Nat \ {0})
      /\ ChainOK(Totals, wire, outbox) /\ TypeInv
  <2>1. wire # <<>> /\ wire' = AfterRead(wire, Taken)
    BY DEF SslReadBytes, AfterRead, Taken
  <2>2. TypeInv /\ ChainOK(Totals, wire, outbox) /\ got = 0 /\ buf = <<>> /\ want \in Nat
    BY DEF InOrder, PlaceInv, TypeInv, TypeOK
  <2> QED BY <2>1, <2>2, TypeReader
<1>2. PICK t \in Later : AfterSslRead(FALSE, SubSeq(wire[1], 1, Taken), t)
  BY DEF SslReadBytes, Taken
<1>3. /\ want <= Len(wire[1])
      /\ \A i \in 1..want : wire[1][i] = <<k, p + i - 1>>
      /\ ChainOK(Totals, AfterRead(wire, want), outbox)
      /\ want < Totals[k] - p + 1 => AfterRead(wire, want) # <<>> /\ AfterRead(wire, want)[1][1] = <<k, p + want>>
      /\ want = Totals[k] - p + 1 => Starts(Totals, AfterRead(wire, want), outbox, <<k + 1, 1>>)
  BY <1>1, ChainRead
<1>4. Taken = want
  <2>1. Len(wire[1]) \in Nat
    BY <1>1, TakenType
  <2> QED BY <1>1, <1>3, <2>1 DEF Taken
<1>5. PICK bytes : bytes = SubSeq(wire[1], 1, want)
  OBVIOUS
<1>6. bytes \in Seq(BytesOf(Totals)) /\ Len(bytes) = want /\ \A i \in 1..want : bytes[i] = wire[1][i]
  <2>1. wire[1] \in Seq(BytesOf(Totals))
    BY <1>1, TakenType
  <2> QED BY <1>1, <1>3, <1>5, <2>1, PrefixSeq
<1>7. Overwrite(bytes) = bytes
  <2>1. From(<<>>, Len(bytes) + 1) = <<>>
    <3>1. Len(bytes) + 1 > 0 /\ Len(bytes) + 1 \in Nat
      BY <1>1, <1>6
    <3> QED BY <3>1 DEF From
  <2>2. bytes \o <<>> = bytes
    BY <1>6, ConcatEmptySeq
  <2> QED BY <1>1, <2>1, <2>2 DEF Overwrite
<1>8. TlsReturns("SUCCESS", want, bytes, t)
  <2>1. got + Len(bytes) = want /\ ~(want < want) /\ want # 0
    BY <1>1, <1>6
  <2>2. Rc(FALSE, want, t) = "SUCCESS"
    BY <2>1 DEF Rc
  <2>3. AfterSslRead(FALSE, bytes, t)
    BY <1>2, <1>4, <1>5
  <2>4. TlsReturns(Rc(FALSE, want, t), want, Overwrite(bytes), t)
    BY <2>1, <2>3 DEF AfterSslRead
  <2> QED BY <1>7, <2>2, <2>4
<1>9. \A i \in 1..want : bytes[i] = <<k, p + i - 1>>
  BY <1>3, <1>6
<1>10. Obtained(bytes, k, p, t)
  BY <1>1, <1>3, <1>4, <1>6, <1>8, <1>9 DEF Obtained
<1> QED BY <1>6, <1>10

\* Reading the header byte of the next packet.
LEMMA HeaderPlace ==
  ASSUME InOrder, SslReadBytes, pc = "header"
  PROVE  ChainOK(Totals, wire', outbox) /\ PlaceInv' /\ Same
<1>1. /\ wire # <<>> /\ packets' = packets /\ outbox' = outbox
  BY DEF SslReadBytes
<1>2. /\ wire[1][1] = <<next, 1>> /\ want = 1 /\ rem = 0 /\ multiplier = 1 /\ total = 0
      /\ next \in 1..(Len(packets) + 1)
  BY <1>1 DEF InOrder, PlaceInv, Starts
<1>3. next <= Len(packets)
  <2>1. wire[1] # <<>> /\ wire[1] \in Seq(BytesOf(Totals)) /\ Totals \in Seq(Nat \ {0}) /\ packets \in Seq(RemLens)
    <3>1. wire \in Seq(Seq(BytesOf(Totals))) /\ Totals \in Seq(Nat \ {0}) /\ packets \in Seq(RemLens)
      BY TypeReader DEF InOrder
    <3>2. 1 \in 1..Len(wire) /\ wire[1] \in Seq(BytesOf(Totals))
      BY <1>1, <3>1, NotEmpty
    <3> QED BY <3>1, <3>2 DEF InOrder, ChainOK
  <2>2. wire[1][1] \in BytesOf(Totals)
    BY <2>1, NotEmpty
  <2>3. next \in 1..Len(Totals)
    BY <1>2, <2>1, <2>2, ByteFields
  <2> QED BY <2>1, <2>3, TotalsNow
<1>4. PICK x \in Nat, f \in Nat, m \in Nat : x = Totals[next] /\ f = FixedLength(next) /\ m = packets[next] /\ x = f + m /\ f >= 2
  BY <1>3, NextPacket
<1>5. PICK t \in Later, bytes \in Seq(BytesOf(Totals)) : Obtained(bytes, next, 1, t)
  <2>1. 1 <= x - 1 + 1
    BY <1>4
  <2>2. want > 0 /\ want <= Totals[next] - 1 + 1
    BY <1>2, <1>4, <2>1
  <2> QED BY <1>2, <2>2, ReadWhole
<1>6. /\ ChainOK(Totals, wire', outbox) /\ wire' # <<>> /\ wire'[1][1] = <<next, 2>> /\ bytes # <<>> /\ bytes[1] = <<next, 1>>
      /\ TlsReturns("SUCCESS", want, bytes, t)
  <2>1. 1 < x - 1 + 1
    BY <1>4
  <2>2. want < Totals[next] - 1 + 1 /\ 1 + want = 2
    BY <1>2, <1>4, <2>1
  <2>3. wire' # <<>> /\ wire'[1][1] = <<next, 1 + want>> /\ TlsReturns("SUCCESS", want, bytes, t) /\ ChainOK(Totals, wire', outbox)
    BY <1>5, <2>2 DEF Obtained
  <2>4. bytes[1] = <<next, 1 + 1 - 1>> /\ Len(bytes) = 1
    BY <1>2, <1>5 DEF Obtained
  <2>5. bytes # <<>>
    BY <2>4
  <2>6. 1 + 1 - 1 = 1
    OBVIOUS
  <2> QED BY <2>2, <2>3, <2>4, <2>5, <2>6
<1>7. /\ pc' = "length" /\ header' = <<next, 1>> /\ want' = 1 /\ got' = 0 /\ buf' = <<>>
      /\ rem' = 0 /\ multiplier' = 1 /\ total' = 0 /\ result' = result /\ next' = next
  BY <1>2, <1>6 DEF TlsReturns, HeaderRead, Read
<1>8. PICK q \in Nat, n \in Nat : q = packets[next] /\ n = Len(WriteLen(q)) /\ f = 1 + n
  <2>1. packets[next] \in Nat /\ FixedLength(next) = 1 + Len(WriteLen(packets[next]))
    BY <1>3, NextPacket
  <2>2. Len(WriteLen(packets[next])) \in Nat
    BY <2>1, Digits
  <2> QED BY <1>4, <2>1, <2>2
<1>9. AtDigit(q, 2)'
  <2>1. (rem + q * multiplier = packets[next])'
    <3>1. 0 + q * 1 = q
      OBVIOUS
    <3> QED BY <1>1, <1>7, <1>8, <3>1
  <2>2. (Len(WriteLen(q)) = FixedLength(next) - 2 + 1)'
    <3>1. n = f - 2 + 1
      BY <1>8
    <3>2. FixedLength(next)' = f
      BY <1>1, <1>4, <1>7 DEF FixedLength
    <3> QED BY <1>8, <3>1, <3>2
  <2>3. (\A i \in 1..Len(WriteLen(q)) : WriteLen(packets[next])[2 - 2 + i] = WriteLen(q)[i])'
    <3>1. \A i \in 1..n : 2 - 2 + i = i
      OBVIOUS
    <3> QED BY <1>1, <1>7, <1>8, <3>1
  <2> QED BY <1>6, <1>7, <2>1, <2>2, <2>3 DEF AtDigit
<1>10. (\E a \in Nat, b \in 2..FixedLength(next) : AtDigit(a, b))'
  <2>1. 2 \in 2..FixedLength(next)'
    <3>1. FixedLength(next)' = f
      BY <1>1, <1>4, <1>7 DEF FixedLength
    <3> QED BY <1>4, <3>1
  <2> QED BY <1>9, <2>1
<1>11. PlaceInv'
  <2>1. next' \in 1..(Len(packets') + 1) /\ next' <= Len(packets')
    BY <1>1, <1>2, <1>3, <1>7
  <2> QED BY <1>6, <1>7, <1>10, <2>1 DEF PlaceInv
<1> QED BY <1>1, <1>6, <1>7, <1>11 DEF Same

\* Nothing has come.
LEMMA NothingPlace ==
  ASSUME InOrder, SslReadFails
  PROVE  ChainOK(Totals, wire', outbox) /\ PlaceInv' /\ FoundNothing
<1>1. wire = <<>> /\ pc # "idle" /\ packets' = packets /\ outbox' = outbox /\ wire' = wire
  BY DEF SslReadFails, transport
<1>2. /\ pc = "header" /\ got = 0 /\ Starts(Totals, wire, outbox, <<next, 1>>)
      /\ next \in 1..(Len(packets) + 1) /\ ChainOK(Totals, wire, outbox)
  BY <1>1 DEF InOrder, PlaceInv, TypeInv, TypeOK
<1>3. PICK t \in Later : AfterSslRead(TRUE, <<>>, t)
  BY DEF SslReadFails
<1>4. TlsReturns(Rc(TRUE, got + Len(<<>>), t), got + Len(<<>>), Overwrite(<<>>), t)
  BY <1>3 DEF AfterSslRead
<1>5. Rc(TRUE, got + Len(<<>>), t) = "NOTHING"
  BY <1>2 DEF Rc
<1>6. Return(Nothing)
  BY <1>2, <1>4, <1>5 DEF TlsReturns, HeaderRead
<1>7. next' = next /\ result' = Nothing
  BY <1>6 DEF Return
<1>8. PlaceInv'
  BY <1>1, <1>2, <1>6, <1>7, ReturnPlace
<1> QED BY <1>1, <1>2, <1>7, <1>8 DEF FoundNothing

\* A read is interrupted, with time left: it is taken up again.
LEMMA InterruptedPlace ==
  ASSUME InOrder, SslReadAgain, ~interrupted'
  PROVE  ChainOK(Totals, wire', outbox) /\ PlaceInv' /\ Same
<1>1. wire = <<>> /\ pc # "idle" /\ packets' = packets /\ outbox' = outbox /\ wire' = wire
  BY DEF SslReadAgain, transport
<1>2. /\ pc = "header" /\ got = 0 /\ buf = <<>> /\ want = 1
  BY <1>1 DEF InOrder, PlaceInv, TypeInv, TypeOK
<1>3. AfterSslRead(FALSE, <<>>, "running")
  BY DEF SslReadAgain
<1>4. got + Len(<<>>) = 0 /\ got + Len(<<>>) < want
  BY <1>2
<1>5. Overwrite(<<>>) = <<>>
  <2>1. From(<<>>, Len(<<>>) + 1) = <<>>
    BY DEF From
  <2> QED BY <1>2, <2>1 DEF Overwrite
<1>6. /\ got' = 0 /\ buf' = <<>> /\ pc' = pc /\ want' = want /\ result' = result /\ next' = next
      /\ header' = header /\ rem' = rem /\ multiplier' = multiplier /\ total' = total
  BY <1>3, <1>4, <1>5 DEF AfterSslRead, locals
<1>7. Totals' = Totals
  BY <1>1 DEF Totals, TotalLength, FixedLength
<1>8. Starts(Totals, wire, outbox, <<next, 1>>)'
  BY <1>1, <1>2, <1>6, <1>7 DEF InOrder, PlaceInv
<1>9. PlaceInv'
  BY <1>1, <1>2, <1>6, <1>8 DEF InOrder, PlaceInv
<1> QED BY <1>1, <1>6, <1>9 DEF Same, InOrder

\* read_packet is called.
LEMMA ReadPacketPlace ==
  ASSUME InOrder, ReadPacket
  PROVE  ChainOK(Totals, wire', outbox) /\ PlaceInv' /\ Starting
<1>1. /\ packets' = packets /\ outbox' = outbox /\ wire' = wire /\ pc = "idle" /\ pc' = "header"
      /\ result' = Idle /\ next' = next /\ want' = 1 /\ got' = 0 /\ buf' = <<>>
      /\ header' = header /\ rem' = rem /\ multiplier' = multiplier /\ total' = total
  BY DEF ReadPacket, Read, transport, locals
<1>2. Totals' = Totals
  BY <1>1 DEF Totals, TotalLength, FixedLength
<1>3. Starts(Totals, wire, outbox, <<next, 1>>)'
  BY <1>1, <1>2 DEF InOrder, PlaceInv
<1>4. PlaceInv'
  BY <1>1, <1>3 DEF InOrder, PlaceInv
<1> QED BY <1>1, <1>4 DEF Starting, InOrder

\* A packet is not an error.
LEMMA NotAnError ==
  ASSUME NEW h, NEW l, NEW b
  PROVE  InBuffer(h, l, b) \notin {Nothing, Failed} /\ Dropped \notin {Nothing, Failed}
<1>1. PICK v : v = InBuffer(h, l, b)
  OBVIOUS
<1>2. v.kind = "SUCCESS" /\ Dropped.kind = "MQTT_RX_BUFFER_TOO_SHORT_ERROR"
  BY <1>1 DEF InBuffer, Dropped
<1>3. Nothing.kind = "MQTT_NOTHING_TO_READ" /\ Failed.kind = "FAILURE"
  BY DEF Nothing, Failed
<1>4. v # Nothing /\ v # Failed /\ Dropped # Nothing /\ Dropped # Failed
  BY <1>2, <1>3
<1> QED BY <1>1, <1>4

\* read_packet returns the next packet, or drops it.
LEMMA ReturnPacket ==
  ASSUME InOrder, next <= Len(packets), NEW v, v \notin {Nothing, Failed}, Return(v),
         packets' = packets, outbox' = outbox, Starts(Totals, wire', outbox, <<next + 1, 1>>)
  PROVE  PlaceInv' /\ next' = next + 1 /\ result' = v
<1>1. next' = next + 1 /\ result' = v
  <2>1. ~(next > MaxPackets)
    BY NextPacket
  <2> QED BY <2>1 DEF Return
<1>2. next' \in 1..(Len(packets) + 1)
  <2>1. next \in 1..Len(packets) /\ next \in Nat
    BY NextPacket
  <2>2. Len(packets) \in Nat
    BY DEF InOrder, TypeInv, TypeOK
  <2> QED BY <1>1, <2>1, <2>2
<1>3. Starts(Totals, wire', outbox, <<next', 1>>)
  BY <1>1
<1> QED BY <1>1, <1>2, <1>3, ReturnPlace

\* Reading the body of a packet that fits.
LEMMA BodyPlace ==
  ASSUME InOrder, SslReadBytes, pc = "body"
  PROVE  ChainOK(Totals, wire', outbox) /\ PlaceInv' /\ Delivered
<1>1. wire # <<>> /\ packets' = packets /\ outbox' = outbox
  BY DEF SslReadBytes
<1>2. /\ wire[1][1] = <<next, FixedLength(next) + 1>> /\ rem = packets[next] /\ rem \in 1..(ReadBufSize - 1)
      /\ want = rem /\ next <= Len(packets) /\ header = <<next, 1>>
  BY DEF InOrder, PlaceInv
<1>3. PICK x \in Nat, f \in Nat, m \in Nat : x = Totals[next] /\ f = FixedLength(next) /\ m = packets[next] /\ x = f + m
  BY <1>2, NextPacket
<1>4. want = m /\ rem = m /\ m > 0 /\ m < ReadBufSize
  BY <1>2, <1>3, FramingAssumption
<1>5. PICK t \in Later, bytes \in Seq(BytesOf(Totals)) : Obtained(bytes, next, f + 1, t)
  <2>1. m <= x - (f + 1) + 1
    BY <1>3
  <2>2. want > 0 /\ want <= Totals[next] - (f + 1) + 1
    BY <1>3, <1>4, <2>1
  <2> QED BY <1>2, <1>3, <2>2, ReadWhole
<1>6. /\ ChainOK(Totals, wire', outbox) /\ Starts(Totals, wire', outbox, <<next + 1, 1>>)
      /\ TlsReturns("SUCCESS", want, bytes, t)
  <2>1. m = x - (f + 1) + 1
    BY SMTT(30), <1>3
  <2>2. want = Totals[next] - (f + 1) + 1
    BY <1>3, <1>4, <2>1
  <2> QED BY <1>5, <2>2 DEF Obtained
<1>7. bytes = [i \in 1..m |-> <<next, f + i>>]
  <2>1. bytes \in Seq(BytesOf(Totals)) /\ Len(bytes) = m /\ \A i \in 1..m : bytes[i] = <<next, (f + 1) + i - 1>>
    BY <1>4, <1>5 DEF Obtained
  <2>2. \A i \in 1..m : (f + 1) + i - 1 = f + i
    OBVIOUS
  <2>3. \A i \in 1..m : bytes[i] = <<next, f + i>>
    BY <2>1, <2>2
  <2>4. bytes = [i \in 1..m |-> bytes[i]]
    BY <2>1
  <2> QED BY <2>3, <2>4
<1>8. Return(InBuffer(header, rem, bytes))
  BY <1>2, <1>4, <1>6 DEF TlsReturns, BodyRead
<1>9. InBuffer(header, rem, bytes) = Image(next)
  BY <1>2, <1>3, <1>7 DEF Image, InBuffer
<1>10. PlaceInv' /\ next' = next + 1 /\ result' = Image(next)
  BY <1>1, <1>2, <1>6, <1>8, <1>9, ReturnPacket, NotAnError
<1> QED BY <1>1, <1>2, <1>3, <1>4, <1>6, <1>10 DEF Delivered

\* Reading a piece of a packet that does not fit.
LEMMA DropPlace ==
  ASSUME InOrder, SslReadBytes, pc = "drop"
  PROVE  ChainOK(Totals, wire', outbox) /\ PlaceInv' /\ (Same \/ DroppedOne)
<1>1. wire # <<>> /\ packets' = packets /\ outbox' = outbox
  BY DEF SslReadBytes
<1>2. /\ wire[1][1] = <<next, FixedLength(next) + 1 + total>> /\ rem = packets[next] /\ ReadBufSize <= rem /\ total < rem
      /\ want = (IF rem - total >= ReadBufSize THEN ReadBufSize ELSE rem - total)
      /\ next <= Len(packets) /\ header = <<next, 1>>
  BY DEF InOrder, PlaceInv
<1>3. PICK x \in Nat, f \in Nat, m \in Nat : x = Totals[next] /\ f = FixedLength(next) /\ m = packets[next] /\ x = f + m
  BY <1>2, NextPacket
<1>4. /\ rem = m /\ total \in Nat /\ total < m /\ ReadBufSize <= m /\ ReadBufSize \in Nat /\ want \in Nat
      /\ want > 0 /\ want <= m - total
  <2>1. total \in Nat /\ ReadBufSize \in Nat /\ ReadBufSize > 0 /\ rem = m
    BY <1>2, <1>3, FramingAssumption DEF InOrder, TypeInv, TypeOK
  <2>2. total < m /\ ReadBufSize <= m /\ want = (IF m - total >= ReadBufSize THEN ReadBufSize ELSE m - total)
    BY <1>2, <2>1
  <2> QED BY <2>1, <2>2
<1>5. PICK t \in Later, bytes \in Seq(BytesOf(Totals)) : Obtained(bytes, next, f + 1 + total, t)
  <2>1. want <= x - (f + 1 + total) + 1
    BY <1>3, <1>4
  <2>2. want > 0 /\ want <= Totals[next] - (f + 1 + total) + 1
    BY <1>3, <1>4, <2>1
  <2> QED BY <1>2, <1>3, <2>2, ReadWhole
<1>6. /\ ChainOK(Totals, wire', outbox) /\ DropRead("SUCCESS", want, t)
      /\ want < m - total => wire' # <<>> /\ wire'[1][1] = <<next, (f + 1 + total) + want>>
      /\ want = m - total => Starts(Totals, wire', outbox, <<next + 1, 1>>)
  <2>1. total \in Nat /\ x = f + m
    BY <1>3, <1>4
  <2>2. m - total = x - (f + 1 + total) + 1
    BY <2>1
  <2>3. m - total = Totals[next] - (f + 1 + total) + 1
    BY <1>3, <2>2
  <2>4. DropRead("SUCCESS", want, t)
    BY <1>5 DEF Obtained, TlsReturns
  <2> QED BY <1>5, <2>3, <2>4 DEF Obtained
<1>7. CASE total + want >= m
  <2>1. Return(Dropped)
    BY <1>4, <1>6, <1>7 DEF DropRead
  <2>2. want = m - total
    BY <1>4, <1>7
  <2>3. PlaceInv' /\ next' = next + 1 /\ result' = Dropped
    BY <1>1, <1>2, <1>6, <2>1, <2>2, ReturnPacket, NotAnError
  <2>4. ~(packets[next] < ReadBufSize)
    BY <1>3, <1>4
  <2> QED BY <1>1, <1>2, <1>6, <2>3, <2>4 DEF DroppedOne
<1>8. CASE ~(total + want >= m)
  <2>1. /\ total' = total + want /\ pc' = "drop" /\ header' = header /\ rem' = rem /\ multiplier' = multiplier
        /\ result' = result /\ next' = next /\ got' = 0 /\ buf' = <<>>
        /\ want' = IF rem - total' >= ReadBufSize THEN ReadBufSize ELSE rem - total'
    <3>1. ~("SUCCESS" # "SUCCESS" \/ total + want >= rem)
      BY <1>4, <1>8
    <3> QED BY <1>6, <3>1 DEF DropRead, Read
  <2>2. total' < m /\ want < m - total
    BY <1>4, <1>8, <2>1
  <2>3. FixedLength(next)' = f /\ packets'[next'] = m /\ rem' = m
    BY <1>1, <1>3, <1>4, <2>1 DEF FixedLength
  <2>4. (f + 1 + total) + want = f + 1 + total'
    BY <1>4, <2>1
  <2>5. wire' # <<>> /\ wire'[1][1] = <<next', FixedLength(next)' + 1 + total'>>
    BY <1>6, <2>1, <2>2, <2>3, <2>4
  <2>6. next' \in 1..(Len(packets') + 1) /\ next' <= Len(packets')
    BY <1>1, <1>2, <2>1 DEF InOrder, PlaceInv
  <2>7. ReadBufSize <= rem' /\ total' < rem' /\ rem' = packets'[next'] /\ header' = <<next', 1>>
    BY <1>2, <1>4, <2>1, <2>2, <2>3
  <2>8. PlaceInv'
    BY <2>1, <2>5, <2>6, <2>7 DEF PlaceInv
  <2> QED BY <1>1, <1>6, <2>1, <2>8 DEF Same
<1> QED BY <1>7, <1>8

\* The digit that is read at place p is the first one of what is missing.
LEMMA DigitPlace ==
  ASSUME InOrder, SslReadBytes, pc = "length", NEW q \in Nat, NEW p \in Nat, p \in 2..FixedLength(next),
         AtDigit(q, p)
  PROVE  \E t \in Later :
           /\ Round(WriteLen(q)[1], t)
           /\ ChainOK(Totals, wire', outbox)
           /\ 1 < Totals[next] - p + 1 => wire' # <<>> /\ wire'[1][1] = <<next, p + 1>>
           /\ 1 = Totals[next] - p + 1 => Starts(Totals, wire', outbox, <<next + 1, 1>>)
<1>1. want = 1 /\ next <= Len(packets) /\ wire[1][1] = <<next, p>>
  BY DEF InOrder, PlaceInv, AtDigit
<1>2. PICK x \in Nat, f \in Nat, m \in Nat : x = Totals[next] /\ f = FixedLength(next) /\ m = packets[next] /\ x = f + m
  <2>1. /\ packets[next] \in Nat /\ FixedLength(next) \in Nat
        /\ Totals[next] = FixedLength(next) + packets[next] /\ Totals[next] \in Nat
    <3>1. packets[next] \in Nat /\ FixedLength(next) \in Nat /\ Totals[next] = FixedLength(next) + packets[next]
      BY <1>1, NextPacket, Zenon
    <3>2. FixedLength(next) + packets[next] \in Nat
      BY <3>1
    <3> QED BY <3>1, <3>2
  <2> QED BY <2>1
<1>3. p \in Nat /\ p >= 2 /\ p <= f
  BY <1>2
<1>4. PICK t \in Later, bytes \in Seq(BytesOf(Totals)) : Obtained(bytes, next, p, t)
  <2>1. 1 <= x - p + 1
    BY <1>2, <1>3
  <2>2. want > 0 /\ want <= Totals[next] - p + 1
    BY <1>1, <1>2, <2>1
  <2> QED BY <1>1, <2>2, ReadWhole
<1>5. /\ bytes[1] = <<next, p>> /\ bytes # <<>>
      /\ LengthRead("SUCCESS", bytes, t) /\ ChainOK(Totals, wire', outbox)
      /\ 1 < Totals[next] - p + 1 => wire' # <<>> /\ wire'[1][1] = <<next, p + 1>>
      /\ 1 = Totals[next] - p + 1 => Starts(Totals, wire', outbox, <<next + 1, 1>>)
  <2>1. bytes[1] = <<next, p + 1 - 1>> /\ Len(bytes) = 1
    BY <1>1, <1>4 DEF Obtained
  <2>2. p + 1 - 1 = p
    BY <1>3
  <2>3. bytes # <<>>
    <3>1. Len(<<>>) # 1
      OBVIOUS
    <3> QED BY <2>1, <3>1
  <2>4. LengthRead("SUCCESS", bytes, t)
    BY <1>4 DEF Obtained, TlsReturns
  <2> QED BY <1>1, <1>4, <2>1, <2>2, <2>3, <2>4 DEF Obtained
<1>6. DigitValues(bytes) = {WriteLen(packets[next])[p - 1]}
  <2>1. bytes[1][1] = next /\ bytes[1][2] = p
    BY <1>5
  <2> QED BY <1>5, <2>1 DEF DigitValues
<1>7. WriteLen(packets[next])[p - 1] = WriteLen(q)[1]
  <2>1. Len(WriteLen(q)) \in Nat \ {0}
    BY Digits
  <2>2. 1 \in 1..Len(WriteLen(q)) /\ p - 2 + 1 = p - 1
    BY <1>3, <2>1
  <2> QED BY <2>2 DEF AtDigit
<1>8. Round(WriteLen(q)[1], t)
  BY <1>5, <1>6, <1>7 DEF LengthRead, Round
<1> QED BY <1>5, <1>8

\* The arithmetic of a digit that is not the last.
LEMMA HigherDigits ==
  ASSUME NEW r \in Nat, NEW k \in Nat, NEW q \in Nat
  PROVE  (r + ((Radix + (q % Radix)) % Radix) * k) + (q \div Radix) * (k * Radix) = r + q * k
<1>1. PICK a \in Nat, b \in Nat : a = q % Radix /\ b = q \div Radix /\ a < Radix /\ q = Radix * b + a
  BY SMTT(30), Quotient, RadixAssumption
<1>2. Radix \in Nat /\ Radix > 0
  BY RadixAssumption
<1>3. (Radix + a) % Radix = a
  BY <1>1, <1>2
<1>4. (r + a * k) + b * (k * Radix) = r + (Radix * b + a) * k
  BY <1>2
<1> QED BY <1>1, <1>3, <1>4

\* Reading a digit of the length: another follows, or the length is known.
LEMMA LengthPlace ==
  ASSUME InOrder, SslReadBytes, pc = "length"
  PROVE  ChainOK(Totals, wire', outbox) /\ PlaceInv' /\ (Same \/ Delivered)
<1>1. packets' = packets /\ outbox' = outbox
  BY DEF SslReadBytes
<1>2. next <= Len(packets) /\ header = <<next, 1>> /\ total = 0 /\ rem \in Nat /\ multiplier \in Nat
  BY DEF InOrder, PlaceInv, TypeInv, TypeOK
<1>3. PICK q \in Nat, p \in Nat : p \in 2..FixedLength(next) /\ AtDigit(q, p)
  <2>1. PICK q \in Nat, p \in 2..FixedLength(next) : AtDigit(q, p)
    BY DEF InOrder, PlaceInv
  <2>2. p \in Nat
    <3>1. FixedLength(next) \in Nat
      BY <1>2, NextPacket
    <3> QED BY <3>1
  <2> QED BY <2>1, <2>2
<1>4. PICK x \in Nat, f \in Nat, m \in Nat : x = Totals[next] /\ f = FixedLength(next) /\ m = packets[next] /\ x = f + m
  BY <1>2, NextPacket
<1>5. p \in Nat /\ p >= 2 /\ p <= f
  BY <1>3, <1>4
<1>6. PICK n \in Nat : n = Len(WriteLen(q)) /\ n >= 1 /\ n = f - p + 1
  <2>1. Len(WriteLen(q)) \in Nat \ {0}
    BY Digits
  <2>2. Len(WriteLen(q)) = f - p + 1
    BY <1>3, <1>4 DEF AtDigit
  <2> QED BY <2>1, <2>2
<1>7. rem + q * multiplier = m
  BY <1>3, <1>4 DEF AtDigit
<1>8. PICK t \in Later :
        /\ Round(WriteLen(q)[1], t)
        /\ ChainOK(Totals, wire', outbox)
        /\ 1 < Totals[next] - p + 1 => wire' # <<>> /\ wire'[1][1] = <<next, p + 1>>
        /\ 1 = Totals[next] - p + 1 => Starts(Totals, wire', outbox, <<next + 1, 1>>)
  BY <1>3, DigitPlace
<1>9. Radix \in Nat /\ Radix > 0 /\ ReadBufSize \in Nat /\ ReadBufSize > 0
  BY RadixAssumption, FramingAssumption
<1>10. CASE q < Radix
  <2>1. WriteLen(q)[1] = q /\ n = 1 /\ p = f
    <3>1. WriteLen(q)[1] = q /\ Len(WriteLen(q)) = 1
      BY <1>10, Digits
    <3>2. n = 1
      BY <1>6, <3>1
    <3>3. p = f
      BY <1>5, <1>6, <3>2
    <3> QED BY <3>1, <3>2, <3>3
  <2>2. rem + (q % Radix) * multiplier = m
    <3>1. q % Radix = q
      BY <1>9, <1>10
    <3> QED BY <1>7, <3>1
  <2>3. Round(q, t)
    BY <1>8, <2>1
  <2>4. CASE m = 0
    <3>1. Return(InBuffer(header, 0, <<>>))
      BY <1>10, <2>2, <2>3, <2>4 DEF Round
    <3>2. 1 = Totals[next] - p + 1
      BY <1>4, <1>5, <2>1, <2>4
    <3>3. InBuffer(header, 0, <<>>) = Image(next)
      <4>1. [i \in 1..0 |-> <<next, FixedLength(next) + i>>] = <<>>
        OBVIOUS
      <4>2. packets[next] = 0
        BY <1>4, <2>4
      <4> QED BY <1>2, <4>1, <4>2 DEF Image, InBuffer
    <3>4. PlaceInv' /\ next' = next + 1 /\ result' = Image(next)
      BY <1>1, <1>2, <1>8, <3>1, <3>2, <3>3, ReturnPacket, NotAnError
    <3>5. packets[next] < ReadBufSize
      BY <1>4, <1>9, <2>4
    <3> QED BY <1>1, <1>2, <1>8, <3>4, <3>5 DEF Delivered
  <2>5. CASE m # 0
    <3>1. /\ rem' = m /\ multiplier' = 1 /\ header' = header /\ total' = total /\ result' = result /\ next' = next
          /\ IF TooLong(m) THEN pc' = "drop" /\ Read(ReadBufSize) ELSE pc' = "body" /\ Read(m)
      <4>1. ~(q >= Radix)
        BY <1>9, <1>10
      <4> QED BY <1>10, <2>2, <2>3, <2>5, <4>1 DEF Round
    <3>2. 1 < Totals[next] - p + 1 /\ p + 1 = f + 1
      BY <1>4, <1>5, <2>1, <2>5
    <3>3. wire' # <<>> /\ wire'[1][1] = <<next', f + 1>>
      BY <1>8, <3>1, <3>2
    <3>4. FixedLength(next)' = f /\ packets'[next'] = m
      BY <1>1, <1>4, <3>1 DEF FixedLength
    <3>5. next' \in 1..(Len(packets') + 1) /\ next' <= Len(packets') /\ header' = <<next', 1>> /\ total' = 0
      BY <1>1, <1>2, <3>1 DEF InOrder, PlaceInv
    <3>6. CASE TooLong(m)
      <4>1. pc' = "drop" /\ want' = ReadBufSize /\ got' = 0 /\ buf' = <<>>
        BY <3>1, <3>6 DEF Read
      <4>2. ReadBufSize <= m /\ 0 < m /\ m - 0 >= ReadBufSize /\ f + 1 + 0 = f + 1
        BY <1>9, <2>5, <3>6 DEF TooLong
      <4>3. /\ wire'[1][1] = <<next', FixedLength(next)' + 1 + total'>> /\ rem' = packets'[next']
            /\ ReadBufSize <= rem' /\ total' < rem'
            /\ want' = IF rem' - total' >= ReadBufSize THEN ReadBufSize ELSE rem' - total'
        BY <3>1, <3>3, <3>4, <3>5, <4>1, <4>2
      <4>4. PlaceInv'
        BY <3>3, <3>5, <4>1, <4>3 DEF PlaceInv
      <4> QED BY <1>1, <1>8, <3>1, <4>4 DEF Same
    <3>7. CASE ~TooLong(m)
      <4>1. pc' = "body" /\ want' = m /\ got' = 0 /\ buf' = <<>>
        BY <3>1, <3>7 DEF Read
      <4>2. m \in 1..(ReadBufSize - 1)
        BY <1>9, <2>5, <3>7 DEF TooLong
      <4>3. /\ wire'[1][1] = <<next', FixedLength(next)' + 1>> /\ rem' = packets'[next']
            /\ rem' \in 1..(ReadBufSize - 1) /\ want' = rem'
        BY <3>1, <3>3, <3>4, <4>1, <4>2
      <4>4. PlaceInv'
        BY <3>3, <3>5, <4>1, <4>3 DEF PlaceInv
      <4> QED BY <1>1, <1>8, <3>1, <4>4 DEF Same
    <3> QED BY <3>6, <3>7
  <2> QED BY <2>4, <2>5
<1>11. CASE ~(q < Radix)
  <2>1. PICK c \in Nat, n2 \in Nat : c = q \div Radix /\ n2 = Len(WriteLen(c)) /\ n = 1 + n2 /\ n2 >= 1
    <3>1. q >= Radix
      BY <1>9, <1>11
    <3>2. q \div Radix \in Nat
      BY Quotient
    <3>3. Len(WriteLen(q \div Radix)) \in Nat \ {0}
      BY <3>2, Digits
    <3>4. Len(WriteLen(q)) = 1 + Len(WriteLen(q \div Radix))
      BY <3>1, Digits
    <3>5. PICK c \in Nat, n2 \in Nat : c = q \div Radix /\ n2 = Len(WriteLen(c)) /\ n2 # 0
      BY <3>2, <3>3
    <3>6. n = 1 + n2
      BY <1>6, <3>4, <3>5
    <3>7. n2 >= 1
      BY <3>5
    <3> QED BY <3>5, <3>6, <3>7
  <2>2. /\ WriteLen(q)[1] = Radix + (q % Radix) /\ \A i \in 1..n2 : WriteLen(q)[i + 1] = WriteLen(c)[i]
    <3>1. q >= Radix
      BY <1>9, <1>11
    <3>2. /\ WriteLen(q)[1] = Radix + (q % Radix)
          /\ \A i \in 1..Len(WriteLen(q \div Radix)) : WriteLen(q)[i + 1] = WriteLen(q \div Radix)[i]
      BY <3>1, Digits
    <3> QED BY <2>1, <3>2
  <2>3. PICK d \in Nat : d = Radix + (q % Radix) /\ d >= Radix
    <3>1. PICK a \in Nat : a = q % Radix
      BY Quotient
    <3>2. Radix + a \in Nat /\ Radix + a >= Radix
      BY <1>9
    <3> QED BY <3>1, <3>2
  <2>4. /\ rem' = rem + (d % Radix) * multiplier /\ multiplier' = multiplier * Radix
        /\ pc' = "length" /\ want' = 1 /\ got' = 0 /\ buf' = <<>>
        /\ header' = header /\ total' = total /\ result' = result /\ next' = next
    <3>1. Round(d, t) /\ ~(d < Radix)
      BY <1>8, <1>9, <2>2, <2>3
    <3> QED BY <2>3, <3>1 DEF Round, Read
  <2>5. p + 1 <= f /\ 1 < x - p + 1 /\ p + 1 \in Nat /\ p + 1 >= 2
    <3>1. p \in Nat /\ p >= 2
      BY <1>5
    <3>2. 1 + n2 = f - p + 1 /\ n2 >= 1
      BY <1>6, <2>1
    <3>3. p + 1 <= f
      BY <3>1, <3>2
    <3>4. x = f + m
      BY <1>4
    <3> QED BY <3>1, <3>3, <3>4
  <2>6. wire' # <<>> /\ wire'[1][1] = <<next', p + 1>>
    BY <1>4, <1>8, <2>4, <2>5
  <2>7. FixedLength(next)' = f /\ packets'[next'] = m
    BY <1>1, <1>4, <2>4 DEF FixedLength
  <2>8. rem' + c * multiplier' = m
    <3>1. (rem + (d % Radix) * multiplier) + c * (multiplier * Radix) = rem + q * multiplier
      BY <1>2, <2>1, <2>3, HigherDigits
    <3> QED BY <1>7, <2>4, <3>1
  <2>9. n2 = f - (p + 1) + 1
    BY <1>5, <1>6, <2>1
  <2>10. \A i \in 1..n2 : WriteLen(packets[next])[(p + 1) - 2 + i] = WriteLen(c)[i]
    <3> TAKE i \in 1..n2
    <3>1. PICK j \in 1..n : j = i + 1 /\ p - 2 + j = (p + 1) - 2 + i
      <4>1. i + 1 \in 1..n /\ p - 2 + (i + 1) = (p + 1) - 2 + i
        BY <1>5, <2>1
      <4> QED BY <4>1
    <3>2. WriteLen(packets[next])[p - 2 + j] = WriteLen(q)[j]
      BY <1>3, <1>6 DEF AtDigit
    <3>3. WriteLen(q)[j] = WriteLen(c)[i]
      BY <2>2, <3>1
    <3> QED BY <3>1, <3>2, <3>3
  <2>11. AtDigit(c, p + 1)'
    <3>1. (\A i \in 1..Len(WriteLen(c)) : WriteLen(packets[next])[(p + 1) - 2 + i] = WriteLen(c)[i])'
      BY <1>1, <2>1, <2>4, <2>10
    <3> QED BY <2>1, <2>6, <2>7, <2>8, <2>9, <3>1 DEF AtDigit
  <2>12. (\E a \in Nat, b \in 2..FixedLength(next) : AtDigit(a, b))'
    <3>1. p + 1 \in 2..FixedLength(next)'
      BY <2>5, <2>7, <1>4
    <3> QED BY <2>11, <3>1
  <2>13. next' \in 1..(Len(packets') + 1) /\ next' <= Len(packets') /\ header' = <<next', 1>> /\ total' = 0
    BY <1>1, <1>2, <2>4 DEF InOrder, PlaceInv
  <2>14. PlaceInv'
    BY <2>4, <2>6, <2>12, <2>13 DEF PlaceInv
  <2> QED BY <1>1, <1>8, <2>4, <2>14 DEF Same
<1> QED BY <1>10, <1>11

\* The broker sends a packet, whatever read_packet is doing.
LEMMA SendPlace ==
  ASSUME InOrder, NEW length \in RemLens, BrokerSend(length)
  PROVE  ChainOK(Totals, wire, outbox)' /\ PlaceInv'
<1>1. /\ wire' = wire /\ pc' = pc /\ want' = want /\ got' = got /\ buf' = buf /\ next' = next
      /\ header' = header /\ rem' = rem /\ multiplier' = multiplier /\ total' = total
      /\ packets' = Append(packets, length)
  BY DEF BrokerSend, locals
<1>2. /\ packets \in Seq(RemLens) /\ Totals \in Seq(Nat \ {0}) /\ wire \in Seq(Seq(BytesOf(Totals)))
      /\ outbox \in Seq(BytesOf(Totals)) /\ TypeInv /\ ChainOK(Totals, wire, outbox) /\ PlaceInv
  BY TypeReader DEF InOrder
<1>a. PICK x \in Nat \ {0} : /\ Totals' = Append(Totals, x)
                             /\ outbox' = outbox \o [i \in 1..x |-> <<Len(Totals) + 1, i>>]
  BY <1>2, SendBytes
<1>3. PICK z : /\ Totals' = Append(Totals, x) /\ outbox' = outbox \o z
               /\ z = [i \in 1..x |-> <<Len(Totals) + 1, i>>]
  BY <1>a
<1>4. /\ ChainOK(Append(Totals, x), wire, outbox \o z)
      /\ \A b : Starts(Totals, wire, outbox, b) => Starts(Append(Totals, x), wire, outbox \o z, b)
  BY <1>2, <1>3, ChainGrow
<1>5. ChainOK(Totals, wire, outbox)' /\ (Starts(Totals, wire, outbox, <<next, 1>>) => Starts(Totals, wire, outbox, <<next, 1>>)')
  BY <1>1, <1>3, <1>4
<1>6. Len(packets') = Len(packets) + 1 /\ \A i \in 1..Len(packets) : packets'[i] = packets[i]
  BY <1>1, <1>2, AppendProperties
<1>7. next \in 1..(Len(packets) + 1) /\ Len(packets) \in Nat
  BY <1>2 DEF PlaceInv
<1>8. next' \in 1..(Len(packets') + 1) /\ (next <= Len(packets) => next' <= Len(packets'))
  BY <1>1, <1>6, <1>7
<1>9. CASE pc \in {"idle", "header"}
  <2>1. pc' \in {"idle", "header"} /\ pc' # "length" /\ pc' # "body" /\ pc' # "drop"
    BY <1>1, <1>9
  <2> QED BY <1>1, <1>2, <1>5, <1>8, <1>9, <2>1 DEF PlaceInv
<1>10. CASE pc \notin {"idle", "header"}
  <2>1. next <= Len(packets) /\ wire # <<>>
    BY <1>2, <1>10 DEF PlaceInv
  <2>2. packets'[next'] = packets[next]
    <3>1. next \in 1..Len(packets)
      BY <1>7, <2>1
    <3> QED BY <1>1, <1>6, <3>1
  <2>3. FixedLength(next)' = FixedLength(next)
    BY <2>2 DEF FixedLength
  <2>4. pc = "length" => (\E q \in Nat, p \in 2..FixedLength(next) : AtDigit(q, p))'
    <3> HAVE pc = "length"
    <3>1. PICK q \in Nat, p \in 2..FixedLength(next) : AtDigit(q, p)
      BY <1>2 DEF PlaceInv
    <3>2. AtDigit(q, p)'
      BY <1>1, <2>2, <2>3, <3>1 DEF AtDigit
    <3> QED BY <2>3, <3>2
  <2>5. pc = "body" => (/\ wire[1][1] = <<next, FixedLength(next) + 1>>
                        /\ rem = packets[next] /\ rem \in 1..(ReadBufSize - 1) /\ want = rem)'
    BY <1>1, <1>2, <2>2, <2>3 DEF PlaceInv
  <2>6. pc = "drop" => (/\ wire[1][1] = <<next, FixedLength(next) + 1 + total>>
                        /\ rem = packets[next] /\ ReadBufSize <= rem /\ total < rem
                        /\ want = IF rem - total >= ReadBufSize THEN ReadBufSize ELSE rem - total)'
    BY <1>1, <1>2, <2>2, <2>3 DEF PlaceInv
  <2>7. /\ got' = 0 /\ buf' = <<>> /\ header' = <<next', 1>>
        /\ (pc' \in {"header", "length"} => want' = 1 /\ total' = 0) /\ pc' \notin {"idle", "header"}
        /\ next' <= Len(packets') /\ wire' # <<>>
    BY <1>1, <1>2, <1>8, <1>10, <2>1 DEF PlaceInv
  <2>8. PlaceInv'
    BY <1>1, <1>8, <2>4, <2>5, <2>6, <2>7 DEF PlaceInv
  <2> QED BY <1>5, <2>8
<1> QED BY <1>9, <1>10

\* A record arrives, whatever read_packet is doing.
LEMMA RecordPlace ==
  ASSUME InOrder, NEW n \in DOMAIN outbox, RecordArrives(n), ~cut'
  PROVE  ChainOK(Totals, wire, outbox)' /\ PlaceInv'
<1>1. /\ packets' = packets /\ pc' = pc /\ want' = want /\ got' = got /\ buf' = buf /\ next' = next
      /\ header' = header /\ rem' = rem /\ multiplier' = multiplier /\ total' = total
      /\ wire' = Append(wire, SubSeq(outbox, 1, n)) /\ outbox' = From(outbox, n + 1)
  BY DEF RecordArrives, locals
<1>2. /\ packets \in Seq(RemLens) /\ Totals \in Seq(Nat \ {0}) /\ wire \in Seq(Seq(BytesOf(Totals)))
      /\ outbox \in Seq(BytesOf(Totals)) /\ ChainOK(Totals, wire, outbox) /\ PlaceInv
  BY TypeReader DEF InOrder
<1>3. n \in 1..Len(outbox)
  BY <1>2
<1>4. outbox[n][2] = Totals[outbox[n][1]]
  <2>1. outbox[n][2] = TotalLength(outbox[n][1])
    BY DEF RecordArrives
  <2>2. outbox[n] \in BytesOf(Totals)
    BY <1>2, <1>3
  <2>3. outbox[n][1] \in 1..Len(packets)
    BY <1>2, <2>2, ByteFields, TotalsNow
  <2> QED BY <2>1, <2>3 DEF Totals
<1>5. /\ ChainOK(Totals, wire', outbox')
      /\ \A b : Starts(Totals, wire, outbox, b) => Starts(Totals, wire', outbox', b)
  BY <1>1, <1>2, <1>3, <1>4, ChainRecord
<1>6. Totals' = Totals
  BY <1>1 DEF Totals, TotalLength, FixedLength
<1>7. ChainOK(Totals, wire, outbox)' /\ (Starts(Totals, wire, outbox, <<next, 1>>) => Starts(Totals, wire, outbox, <<next, 1>>)')
  BY <1>1, <1>5, <1>6
<1>8. wire # <<>> => wire' # <<>> /\ wire'[1] = wire[1]
  <2> HAVE wire # <<>>
  <2>1. SubSeq(outbox, 1, n) \in Seq(BytesOf(Totals))
    <3>1. n \in Nat /\ n <= Len(outbox)
      BY <1>2, <1>3
    <3> QED BY <1>2, <3>1, PrefixSeq
  <2>2. 1 \in 1..Len(wire) /\ Len(wire) \in Nat
    BY <1>2, NotEmpty
  <2>3. Len(wire') = Len(wire) + 1 /\ wire'[1] = wire[1]
    BY <1>1, <1>2, <2>1, <2>2, AppendProperties
  <2>4. Len(wire') # 0
    BY <2>2, <2>3
  <2> QED BY <2>3, <2>4
<1>9. CASE pc \in {"idle", "header"}
  <2>1. pc' \in {"idle", "header"} /\ pc' # "length" /\ pc' # "body" /\ pc' # "drop"
    BY <1>1, <1>9
  <2> QED BY <1>1, <1>2, <1>7, <1>9, <2>1 DEF PlaceInv
<1>10. CASE pc \notin {"idle", "header"}
  <2>1. next <= Len(packets) /\ wire # <<>> /\ wire' # <<>> /\ wire'[1] = wire[1]
    BY <1>2, <1>8, <1>10 DEF PlaceInv
  <2>2. FixedLength(next)' = FixedLength(next)
    BY <1>1 DEF FixedLength
  <2>3. pc = "length" => (\E q \in Nat, p \in 2..FixedLength(next) : AtDigit(q, p))'
    <3> HAVE pc = "length"
    <3>1. PICK q \in Nat, p \in 2..FixedLength(next) : AtDigit(q, p)
      BY <1>2 DEF PlaceInv
    <3>2. AtDigit(q, p)'
      BY <1>1, <2>1, <2>2, <3>1 DEF AtDigit
    <3> QED BY <2>2, <3>2
  <2>4. PlaceInv'
    BY <1>1, <1>2, <1>10, <2>1, <2>2, <2>3 DEF PlaceInv
  <2> QED BY <1>7, <2>4
<1> QED BY <1>9, <1>10

-----------------------------------------------------------------------------
(* The packet layer in step.                                               *)

Sent(length) ==
  /\ packets' = Append(packets, length) /\ Len(packets) < MaxPackets
  /\ next' = next /\ result' = result

\* What a step that nothing disturbs does, seen from the client.
ClientStep ==
  \/ Same \/ Starting \/ FoundNothing \/ Delivered \/ DroppedOne
  \/ \E length \in RemLens : Sent(length)

\* A disturbed transport stays disturbed.
LEMMA DisturbedStays ==
  ASSUME [Next]_vars, Undisturbed'
  PROVE  Undisturbed
<1> USE DEF Undisturbed, transport
<1>1. ASSUME NEW length \in RemLens, BrokerSend(length) PROVE Undisturbed
  BY <1>1 DEF BrokerSend
<1>2. ASSUME NEW n \in DOMAIN outbox, RecordArrives(n) PROVE Undisturbed
  BY <1>2 DEF RecordArrives
<1>3. CASE ReadPacket
  BY <1>3 DEF ReadPacket
<1>4. CASE SslReadBytes
  BY <1>4 DEF SslReadBytes
<1>5. CASE SslReadFails
  BY <1>5 DEF SslReadFails
<1>6. CASE SslReadAgain
  BY <1>6 DEF SslReadAgain
<1>7. CASE UNCHANGED vars
  BY <1>7 DEF vars
<1> QED BY <1>1, <1>2, <1>3, <1>4, <1>5, <1>6, <1>7 DEF Next

\* Each step keeps the packets in order and is one of those the client may see.
LEMMA OrderStep ==
  ASSUME InOrder, [Next]_vars, Undisturbed'
  PROVE  ChainOK(Totals, wire, outbox)' /\ PlaceInv' /\ ClientStep
<1>1. ASSUME NEW length \in RemLens, BrokerSend(length)
      PROVE  ChainOK(Totals, wire, outbox)' /\ PlaceInv' /\ ClientStep
  <2>1. Sent(length)
    BY <1>1 DEF BrokerSend, Sent
  <2> QED BY <1>1, <2>1, SendPlace DEF ClientStep
<1>2. ASSUME NEW n \in DOMAIN outbox, RecordArrives(n)
      PROVE  ChainOK(Totals, wire, outbox)' /\ PlaceInv' /\ ClientStep
  <2>1. Same /\ ~cut'
    BY <1>2 DEF RecordArrives, Same, Undisturbed
  <2> QED BY <1>2, <2>1, RecordPlace DEF ClientStep
<1>3. ASSUME packets' = packets, outbox' = outbox, ChainOK(Totals, wire', outbox)
      PROVE  ChainOK(Totals, wire, outbox)'
  <2>1. Totals' = Totals
    BY <1>3 DEF Totals, TotalLength, FixedLength
  <2> QED BY <1>3, <2>1
<1>4. CASE ReadPacket
  <2>1. packets' = packets /\ outbox' = outbox
    BY <1>4 DEF ReadPacket, transport
  <2> QED BY <1>3, <1>4, <2>1, ReadPacketPlace DEF ClientStep
<1>5. CASE SslReadBytes
  <2>1. packets' = packets /\ outbox' = outbox /\ pc # "idle"
    BY <1>5 DEF SslReadBytes
  <2>2. pc \in {"header", "length", "drop", "body"}
    BY <2>1 DEF InOrder, TypeInv, TypeOK
  <2>3. ChainOK(Totals, wire', outbox) /\ PlaceInv' /\ ClientStep
    BY <1>5, <2>2, HeaderPlace, LengthPlace, DropPlace, BodyPlace DEF ClientStep
  <2> QED BY <1>3, <2>1, <2>3
<1>6. CASE SslReadFails
  <2>1. packets' = packets /\ outbox' = outbox
    BY <1>6 DEF SslReadFails, transport
  <2> QED BY <1>3, <1>6, <2>1, NothingPlace DEF ClientStep
<1>7. CASE SslReadAgain
  <2>1. packets' = packets /\ outbox' = outbox /\ ~interrupted'
    BY <1>7 DEF SslReadAgain, transport, Undisturbed
  <2> QED BY <1>3, <1>7, <2>1, InterruptedPlace DEF ClientStep
<1>8. CASE UNCHANGED vars
  <2>1. /\ packets' = packets /\ outbox' = outbox /\ wire' = wire /\ pc' = pc /\ want' = want /\ got' = got
        /\ buf' = buf /\ header' = header /\ rem' = rem /\ multiplier' = multiplier /\ total' = total
        /\ result' = result /\ next' = next
    BY <1>8 DEF vars, transport, locals
  <2>2. Totals' = Totals /\ FixedLength(next)' = FixedLength(next)
    BY <2>1 DEF Totals, TotalLength, FixedLength
  <2>3. ChainOK(Totals, wire, outbox)'
    BY <2>1, <2>2 DEF InOrder
  <2>4. (\E q \in Nat, p \in 2..FixedLength(next) : AtDigit(q, p)) => (\E q \in Nat, p \in 2..FixedLength(next) : AtDigit(q, p))'
    BY <2>1, <2>2 DEF AtDigit
  <2>5. PlaceInv'
    BY <2>1, <2>2, <2>4 DEF InOrder, PlaceInv
  <2> QED BY <2>1, <2>3, <2>5 DEF ClientStep, Same
<1> QED BY <1>1, <1>2, <1>4, <1>5, <1>6, <1>7, <1>8 DEF Next

\* At the start nothing is on the way.
LEMMA StreamInit == Init => StreamInv
<1> SUFFICES ASSUME Init PROVE ChainOK(Totals, wire, outbox) /\ PlaceInv
  BY DEF StreamInv
<1>1. packets = <<>> /\ wire = <<>> /\ outbox = <<>> /\ pc = "idle" /\ next = 1 /\ got = 0 /\ buf = <<>>
      /\ rem = 0 /\ multiplier = 1 /\ total = 0
  BY DEF Init
<1>2. Len(Totals) = 0
  BY <1>1, TotalsNow
<1>3. ChainOK(Totals, wire, outbox)
  BY <1>1 DEF ChainOK, Whole
<1>4. Starts(Totals, wire, outbox, <<next, 1>>)
  BY <1>1, <1>2 DEF Starts
<1> QED BY <1>1, <1>3, <1>4 DEF PlaceInv

\* The packets stay in order, and read_packet in step with them.
LEMMA StreamStep ==
  ASSUME TypeInv, StreamInv, [Next]_vars
  PROVE  StreamInv' /\ (Undisturbed' => Undisturbed /\ InOrder /\ ClientStep)
<1> SUFFICES ASSUME Undisturbed'
             PROVE  ChainOK(Totals, wire, outbox)' /\ PlaceInv' /\ Undisturbed /\ InOrder /\ ClientStep
  BY DEF StreamInv
<1>1. Undisturbed
  BY DisturbedStays
<1>2. InOrder
  BY <1>1 DEF StreamInv, InOrder
<1> QED BY <1>1, <1>2, OrderStep

\* As long as nothing disturbs the transport, the packets are on the way in order and
\* read_packet knows where it is in them.
THEOREM Streams == Spec => []StreamInv
<1>1. TypeInv /\ StreamInv /\ [Next]_vars => StreamInv'
  BY StreamStep
<1> QED BY <1>1, StreamInit, Types, PTL DEF Spec

\* read_packet starts at the first byte of a packet.
THEOREM StaysInStep == Spec => []InStep
<1>1. TypeInv /\ StreamInv => InStep
  <2> SUFFICES ASSUME TypeInv, StreamInv, Undisturbed, pc \in {"idle", "header"}, Unread # <<>>
               PROVE  Unread[1] = <<next, 1>>
    BY DEF InStep
  <2>1. ChainOK(Totals, wire, outbox) /\ Starts(Totals, wire, outbox, <<next, 1>>)
    BY DEF StreamInv, PlaceInv
  <2>2. wire \in Seq(Seq(BytesOf(Totals))) /\ outbox \in Seq(BytesOf(Totals))
    BY DEF TypeInv
  <2> QED BY <2>1, <2>2, StartsUnread
<1> QED BY <1>1, Types, Streams, PTL

-----------------------------------------------------------------------------
(* The packet layer implements PacketStream.                               *)

\* Image and the queue of the refinement, for any packets.
ImageOf(P, k) == InBuffer(<<k, 1>>, P[k], [i \in 1..P[k] |-> <<k, 1 + Len(WriteLen(P[k])) + i>>])
QueueOf(P, n) == [i \in 1..(Len(P) + 1 - n) |-> ImageOf(P, n + i - 1)]

\* The packet that is read is the first of the queue.
LEMMA QueueHead ==
  ASSUME NEW P \in Seq(RemLens), NEW n \in 1..Len(P)
  PROVE  /\ QueueOf(P, n) # <<>> /\ Head(QueueOf(P, n)) = ImageOf(P, n)
         /\ Tail(QueueOf(P, n)) = QueueOf(P, n + 1)
<1>1. PICK l \in Nat : l = Len(P)
  OBVIOUS
<1>2. n \in Nat /\ n >= 1 /\ n <= l
  BY <1>1
<1>3. PICK e \in Nat : e = l + 1 - n /\ e >= 1 /\ l + 1 - (n + 1) = e - 1
  <2>1. l + 1 - n \in Nat /\ l + 1 - n >= 1 /\ l + 1 - (n + 1) = (l + 1 - n) - 1
    BY <1>2
  <2> QED BY <2>1
<1>4. PICK Q, R : Q = QueueOf(P, n) /\ R = QueueOf(P, n + 1)
  OBVIOUS
<1>5. Q = [i \in 1..e |-> ImageOf(P, n + i - 1)] /\ R = [i \in 1..(e - 1) |-> ImageOf(P, (n + 1) + i - 1)]
  BY <1>1, <1>3, <1>4 DEF QueueOf
<1> DEFINE S == {ImageOf(P, i) : i \in Nat}
<1>6. \A i \in Nat : ImageOf(P, i) \in S
  OBVIOUS
<1> HIDE DEF S
<1>7. \A i \in 1..e : n + i - 1 \in Nat
  BY <1>2
<1>8. \A i \in 1..(e - 1) : (n + 1) + i - 1 \in Nat
  BY <1>2
<1>9. Q \in [1..e -> S]
  BY <1>5, <1>6, <1>7
<1>10. R \in [1..(e - 1) -> S]
  BY <1>5, <1>6, <1>8
<1>11. Q \in Seq(S) /\ Len(Q) = e
  BY <1>9
<1>12. R \in Seq(S) /\ Len(R) = e - 1
  <2>1. e - 1 \in Nat
    BY <1>3
  <2> QED BY <1>10, <2>1
<1>13. Q # <<>>
  <2>1. e # 0
    BY <1>3
  <2> QED BY <1>11, <2>1
<1>14. Head(Q) = ImageOf(P, n)
  <2>1. 1 \in 1..e /\ n + 1 - 1 = n
    BY <1>2, <1>3
  <2>2. Q[1] = ImageOf(P, n)
    BY <1>5, <2>1
  <2> QED BY <1>11, <1>13, <2>2, HeadTailProperties
<1>15. Tail(Q) \in Seq(S) /\ Len(Tail(Q)) = e - 1 /\ \A i \in 1..(e - 1) : Tail(Q)[i] = Q[i + 1]
  BY <1>11, <1>13, HeadTailProperties
<1>16. \A i \in 1..(e - 1) : Q[i + 1] = R[i]
  <2> TAKE i \in 1..(e - 1)
  <2>1. PICK j \in 1..e : j = i + 1 /\ n + j - 1 = (n + 1) + i - 1
    <3>1. i + 1 \in 1..e /\ n + (i + 1) - 1 = (n + 1) + i - 1
      BY <1>2
    <3> QED BY <3>1
  <2>2. Q[j] = ImageOf(P, n + j - 1) /\ R[i] = ImageOf(P, (n + 1) + i - 1)
    BY <1>5
  <2> QED BY <2>1, <2>2
<1>17. Tail(Q) = R
  <2>1. PICK A \in Seq(S) : A = Tail(Q) /\ Len(A) = Len(R) /\ \A i \in 1..Len(A) : A[i] = R[i]
    BY <1>12, <1>15, <1>16
  <2>2. A = R
    BY <1>12, <2>1, SeqEqual
  <2> QED BY <2>1, <2>2
<1> QED BY <1>4, <1>13, <1>14, <1>17

\* The packet that is sent becomes the last of the queue.
LEMMA QueueAppend ==
  ASSUME NEW P \in Seq(RemLens), NEW length \in RemLens, NEW n \in 1..(Len(P) + 1)
  PROVE  QueueOf(Append(P, length), n) = Append(QueueOf(P, n), ImageOf(Append(P, length), Len(P) + 1))
<1>a. PICK l \in Nat : l = Len(P)
  OBVIOUS
<1>1. PICK P2 : l = Len(P) /\ P2 = Append(P, length)
  BY <1>a
<1>2. Len(P2) = l + 1 /\ \A i \in 1..l : P2[i] = P[i]
  BY <1>1, AppendProperties
<1>3. n \in Nat /\ n >= 1 /\ n <= l + 1
  BY <1>1
<1>4. PICK e \in Nat : e = l + 1 - n /\ (l + 1) + 1 - n = e + 1 /\ n + (e + 1) - 1 = l + 1
  <2>1. l + 1 - n \in Nat /\ (l + 1) + 1 - n = (l + 1 - n) + 1 /\ n + ((l + 1 - n) + 1) - 1 = l + 1
    BY <1>3
  <2> QED BY <2>1
<1>5. PICK Q, R, v : Q = QueueOf(P, n) /\ R = QueueOf(P2, n) /\ v = ImageOf(P2, l + 1)
  OBVIOUS
<1>6. Q = [i \in 1..e |-> ImageOf(P, n + i - 1)] /\ R = [i \in 1..(e + 1) |-> ImageOf(P2, n + i - 1)]
  BY <1>1, <1>2, <1>4, <1>5 DEF QueueOf
<1>7. \A i \in 1..e : ImageOf(P, n + i - 1) = ImageOf(P2, n + i - 1)
  <2> TAKE i \in 1..e
  <2>1. n + i - 1 \in 1..l
    BY <1>3, <1>4
  <2>2. P2[n + i - 1] = P[n + i - 1]
    BY <1>2, <2>1
  <2> QED BY <2>2 DEF ImageOf
<1> DEFINE S == {ImageOf(P2, i) : i \in Nat}
<1>8. \A i \in Nat : ImageOf(P2, i) \in S
  OBVIOUS
<1> HIDE DEF S
<1>9. \A i \in 1..(e + 1) : n + i - 1 \in Nat
  BY <1>3
<1>10. \A i \in 1..e : n + i - 1 \in Nat
  BY <1>3
<1>11. Q \in [1..e -> S]
  BY <1>6, <1>7, <1>8, <1>10
<1>12. R \in [1..(e + 1) -> S]
  BY <1>6, <1>8, <1>9
<1>13. Q \in Seq(S) /\ Len(Q) = e /\ R \in Seq(S) /\ Len(R) = e + 1 /\ v \in S
  <2>1. Q \in Seq(S) /\ Len(Q) = e
    BY <1>11
  <2>2. R \in Seq(S) /\ Len(R) = e + 1
    <3>1. e + 1 \in Nat
      OBVIOUS
    <3> QED BY <1>12, <3>1
  <2>3. v \in S
    <3>1. l + 1 \in Nat
      OBVIOUS
    <3> QED BY <1>5, <1>8, <3>1
  <2> QED BY <2>1, <2>2, <2>3
<1>14. /\ Append(Q, v) \in Seq(S) /\ Len(Append(Q, v)) = e + 1 /\ Append(Q, v)[e + 1] = v
       /\ \A i \in 1..e : Append(Q, v)[i] = Q[i]
  BY <1>13, AppendProperties
<1>15. ASSUME NEW i \in 1..(e + 1) PROVE R[i] = Append(Q, v)[i]
  <2>1. CASE i = e + 1
    <3>1. R[i] = ImageOf(P2, n + (e + 1) - 1)
      BY <1>6, <2>1
    <3> QED BY <1>4, <1>5, <1>14, <2>1, <3>1
  <2>2. CASE i # e + 1
    <3>1. i \in 1..e
      BY <2>2
    <3>2. R[i] = ImageOf(P2, n + i - 1) /\ Q[i] = ImageOf(P, n + i - 1)
      BY <1>6, <3>1
    <3> QED BY <1>7, <1>14, <3>1, <3>2
  <2> QED BY <2>1, <2>2
<1>16. R = Append(Q, v)
  <2>1. PICK A \in Seq(S) : A = Append(Q, v) /\ Len(A) = Len(R) /\ \A i \in 1..Len(R) : R[i] = A[i]
    BY <1>13, <1>14, <1>15
  <2>2. R = A
    BY <1>13, <2>1, SeqEqual
  <2> QED BY <2>1, <2>2
<1> QED BY <1>1, <1>5, <1>16

\* The queue of the refinement.
Queue == [i \in 1..(Len(packets) + 1 - next) |-> Image(next + i - 1)]

\* It is the queue of the packets and the place of the reader, before and after a step.
LEMMA QueueNow == Queue = QueueOf(packets, next) /\ Queue' = QueueOf(packets', next')
<1>1. Queue = QueueOf(packets, next)
  BY DEF Queue, QueueOf, Image, ImageOf, FixedLength
<1>2. Queue' = QueueOf(packets', next')
  BY DEF Queue, QueueOf, Image, ImageOf, FixedLength
<1> QED BY <1>1, <1>2

\* A step that the client may see is a step of PacketStream.
LEMMA StepRefines ==
  ASSUME InOrder, ClientStep, Undisturbed, Undisturbed'
  PROVE  [Stream!Next]_(Stream!vars)
<1>1. packets \in Seq(RemLens) /\ next \in 1..(Len(packets) + 1) /\ Len(packets) \in Nat /\ MaxPackets \in Nat
  BY FramingAssumption DEF InOrder, TypeInv, TypeOK, PlaceInv
<1>2. Undisturbed' = Undisturbed
  BY DEF Undisturbed
<1>3. ASSUME packets' = packets, next' = next PROVE Queue' = Queue
  BY <1>3, QueueNow
<1>4. CASE Same
  <2>1. Queue' = Queue /\ result' = result
    BY <1>3, <1>4 DEF Same
  <2>2. UNCHANGED Stream!vars
    BY <1>2, <2>1 DEF Stream!vars, Queue
  <2> QED BY <2>2
<1>5. CASE Starting
  <2>1. Queue' = Queue /\ result' = Idle
    BY <1>3, <1>5 DEF Starting
  <2>2. Stream!Begin
    BY <1>2, <2>1 DEF Stream!Begin, Queue
  <2> QED BY <2>2 DEF Stream!Next
<1>6. CASE FoundNothing
  <2>1. Queue' = Queue /\ result' = Nothing
    BY <1>3, <1>6 DEF FoundNothing
  <2>2. Stream!FindNothing
    BY <1>2, <2>1 DEF Stream!FindNothing, Queue
  <2> QED BY <2>2 DEF Stream!Next
<1>7. ASSUME packets' = packets, next' = next + 1, next <= Len(packets)
      PROVE  Queue # <<>> /\ Head(Queue) = Image(next) /\ Tail(Queue) = Queue' /\ Image(next).length = packets[next]
  <2>1. next \in 1..Len(packets)
    BY <1>1, <1>7
  <2>2. Image(next) = ImageOf(packets, next)
    BY DEF Image, ImageOf, FixedLength
  <2>3. Image(next).length = packets[next]
    BY DEF Image, InBuffer
  <2> QED BY <1>1, <1>7, <2>1, <2>2, <2>3, QueueHead, QueueNow
<1>8. CASE Delivered
  <2>1. /\ Queue # <<>> /\ Head(Queue) = Image(next) /\ Tail(Queue) = Queue' /\ FitsBuffer(Head(Queue))
        /\ result' = Head(Queue)
    BY <1>7, <1>8 DEF Delivered, FitsBuffer
  <2>2. Stream!Deliver
    BY <1>2, <2>1 DEF Stream!Deliver, Queue
  <2> QED BY <2>2 DEF Stream!Next
<1>9. CASE DroppedOne
  <2>1. /\ Queue # <<>> /\ Head(Queue) = Image(next) /\ Tail(Queue) = Queue' /\ ~FitsBuffer(Head(Queue))
        /\ result' = Dropped
    BY <1>7, <1>9 DEF DroppedOne, FitsBuffer
  <2>2. Stream!Drop
    BY <1>2, <2>1 DEF Stream!Drop, Queue
  <2> QED BY <2>2 DEF Stream!Next
<1>10. ASSUME NEW length \in RemLens, Sent(length) PROVE Stream!Next
  <2>1. packets' = Append(packets, length) /\ Len(packets) < MaxPackets /\ next' = next /\ result' = result
    BY <1>10 DEF Sent
  <2>2. PICK k \in 1..MaxPackets : k = Len(packets) + 1
    BY <1>1, <2>1
  <2>3. PICK v : v = ImageOf(packets', k)
    OBVIOUS
  <2>4. Queue' = Append(Queue, v)
    BY <1>1, <2>1, <2>2, <2>3, QueueAppend, QueueNow
  <2>5. packets'[k] = length
    BY <1>1, <2>1, <2>2, AppendProperties
  <2>6. v \in Sendable
    <3>1. v = PacketOf(k, length)
      BY <2>3, <2>5 DEF ImageOf, PacketOf
    <3> QED BY <3>1 DEF Sendable
  <2>7. Stream!Send(v)
    BY <1>2, <2>1, <2>4 DEF Stream!Send, Queue
  <2>8. \E u \in Sendable : Stream!Send(u)
    BY <2>6, <2>7
  <2> QED BY <2>8 DEF Stream!Next
<1> QED BY <1>4, <1>5, <1>6, <1>8, <1>9, <1>10 DEF ClientStep

\* The packets are returned in order, complete and unaltered, or dropped because of their
\* length, and none is lost or returned twice, for any packets, buffer and records: read_packet
\* over iot_tls_read implements PacketStream.
THEOREM Refines == Spec => InOrderOnce
<1>1. Init => Stream!Init
  <2> SUFFICES ASSUME Init PROVE Stream!Init
    OBVIOUS
  <2>1. packets = <<>> /\ next = 1 /\ result = Idle /\ Undisturbed = TRUE
    BY DEF Init, Undisturbed
  <2>2. Queue = <<>>
    <3>1. Len(packets) + 1 - next = 0
      BY <2>1
    <3> QED BY <3>1 DEF Queue
  <2> QED BY <2>1, <2>2 DEF Stream!Init, Queue
<1>2. TypeInv /\ StreamInv /\ [Next]_vars => [Stream!Next]_(Stream!vars)
  <2> SUFFICES ASSUME TypeInv, StreamInv, [Next]_vars PROVE [Stream!Next]_(Stream!vars)
    OBVIOUS
  <2>1. CASE Undisturbed'
    <3>1. Undisturbed /\ InOrder /\ ClientStep
      BY <2>1, StreamStep
    <3> QED BY <2>1, <3>1, StepRefines
  <2>2. CASE ~Undisturbed'
    <3>1. Stream!Disturb
      BY <2>2 DEF Stream!Disturb
    <3> QED BY <3>1 DEF Stream!Next
  <2> QED BY <2>1, <2>2
<1> QED BY <1>1, <1>2, Types, Streams, PTL DEF Spec, InOrderOnce, Stream!Spec
=============================================================================
