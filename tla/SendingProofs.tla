---------------------------- MODULE SendingProofs ----------------------------
(***************************************************************************)
(* What send_packet and iot_tls_write do with a packet, for every set of   *)
(* requests, every size of the buffer, every size of a fragment and every  *)
(* value that the uninitialized ret may have; and what the serializers     *)
(* write, for every base of the digits of the remaining length.            *)
(***************************************************************************)
EXTENDS Sending, WellFoundedInduction, SequenceTheorems, TLAPS

-----------------------------------------------------------------------------
(* The digits of the remaining length.                                     *)

\* Every set of numbers that is not empty has a least element.
LEMMA LeastNumber ==
  ASSUME NEW S, S \subseteq Nat, S # {}
  PROVE  \E m \in S : \A k \in S : m <= k
<1> DEFINE R == OpToRel(<, Nat)
<1>1. \A x, y \in Nat : y < x => <<y, x>> \in R
  BY DEF OpToRel
<1>2. IsWellFoundedOn(R, Nat)
  BY NatLessThanWellFounded
<1> HIDE DEF R
<1>3. \E m \in S : \A k \in S : <<k, m>> \notin R
  BY <1>2, WFMin
<1>4. \E m \in S : \A k \in S : ~(k < m)
  BY <1>1, <1>3
<1> QED BY <1>4

\* Quotient and remainder.
LEMMA Quotient ==
  ASSUME NEW n \in Nat
  PROVE  /\ n \div Radix \in Nat
         /\ n % Radix \in 0..(Radix - 1)
         /\ n = Radix * (n \div Radix) + (n % Radix)
         /\ n >= Radix => n \div Radix < n /\ n \div Radix > 0
BY RadixAssumption

\* The digits of m, if f has those of smaller numbers.
DigitsOf(f, m) == IF m < Radix THEN <<m>> ELSE <<Radix + (m % Radix)>> \o f[m \div Radix]

\* f has the digits of all numbers up to n.
Codes(f, n) == f = [m \in 0..n |-> DigitsOf(f, m)]

\* The recursive definition of write_len has a solution up to every number.
LEMMA CodesExists ==
  ASSUME NEW n \in Nat
  PROVE  \E f : Codes(f, n)
<1> DEFINE Bad == {m \in Nat : ~\E f : Codes(f, m)}
<1> SUFFICES ASSUME Bad # {} PROVE FALSE
  OBVIOUS
<1>1. PICK m \in Bad : \A k \in Bad : m <= k
  <2>1. Bad \subseteq Nat
    OBVIOUS
  <2> HIDE DEF Bad
  <2> QED BY <2>1, LeastNumber
<1>2. m \in Nat /\ ~\E f : Codes(f, m)
  BY <1>1
<1>3. CASE m = 0
  <2>1. PICK f : f = [i \in 0..0 |-> <<0>>]
    OBVIOUS
  <2>2. \A i \in 0..0 : DigitsOf(f, i) = <<0>>
    BY RadixAssumption DEF DigitsOf
  <2>3. Codes(f, 0)
    BY <2>1, <2>2 DEF Codes
  <2> QED BY <1>2, <1>3, <2>3
<1>4. CASE m > 0
  <2>1. m - 1 \in Nat /\ m - 1 \notin Bad
    BY <1>1, <1>2, <1>4
  <2>2. PICK f : Codes(f, m - 1)
    BY <2>1
  <2>3. PICK g : g = [i \in 0..m |-> IF i = m THEN DigitsOf(f, m) ELSE f[i]]
    OBVIOUS
  <2>4. \A i \in 0..(m - 1) : g[i] = f[i] /\ f[i] = DigitsOf(f, i)
    BY SMTT(30), <1>2, <1>4, <2>2, <2>3 DEF Codes
  <2>5. ASSUME NEW i \in 0..m PROVE DigitsOf(g, i) = DigitsOf(f, i)
    <3>1. CASE i < Radix
      BY <3>1 DEF DigitsOf
    <3>2. CASE ~(i < Radix)
      <4>1. i \div Radix \in 0..(m - 1)
        <5>1. i \in Nat /\ i >= Radix
          BY <1>2, <3>2, RadixAssumption
        <5>2. i \div Radix \in Nat /\ i \div Radix < i
          BY <5>1, Quotient
        <5> QED BY <1>2, <5>2
      <4>2. g[i \div Radix] = f[i \div Radix]
        BY <2>4, <4>1
      <4> QED BY <4>2 DEF DigitsOf
    <3> QED BY <3>1, <3>2
  <2>6. ASSUME NEW i \in 0..m PROVE g[i] = DigitsOf(g, i)
    <3>1. CASE i = m
      BY <2>3, <2>5, <3>1
    <3>2. CASE i # m
      <4>1. i \in 0..(m - 1)
        BY <1>2, <3>2
      <4> QED BY <2>4, <2>5, <4>1
    <3> QED BY <3>1, <3>2
  <2>7. Codes(g, m)
    <3>1. g = [i \in 0..m |-> g[i]]
      BY <2>3
    <3> QED BY <2>6, <3>1 DEF Codes
  <2> QED BY <1>2, <2>7
<1> QED BY <1>2, <1>3, <1>4

\* Two such solutions agree.
LEMMA CodesAgree ==
  ASSUME NEW n \in Nat, NEW m \in Nat, NEW f, NEW g, Codes(f, n), Codes(g, m),
         NEW k \in Nat, k <= n, k <= m
  PROVE  f[k] = g[k]
<1> DEFINE Bad == {i \in Nat : i <= n /\ i <= m /\ f[i] # g[i]}
<1> SUFFICES ASSUME Bad # {} PROVE FALSE
  OBVIOUS
<1>1. PICK i \in Bad : \A j \in Bad : i <= j
  <2>1. Bad \subseteq Nat
    OBVIOUS
  <2> HIDE DEF Bad
  <2> QED BY <2>1, LeastNumber
<1>2. i \in Nat /\ i <= n /\ i <= m /\ f[i] # g[i]
  BY <1>1
<1>3. f[i] = DigitsOf(f, i) /\ g[i] = DigitsOf(g, i)
  <2>1. i \in 0..n /\ i \in 0..m
    BY <1>2
  <2>2. \A j \in 0..n : f[j] = DigitsOf(f, j)
    BY DEF Codes
  <2>3. \A j \in 0..m : g[j] = DigitsOf(g, j)
    BY DEF Codes
  <2> QED BY <2>1, <2>2, <2>3
<1>4. CASE i < Radix
  BY <1>2, <1>3, <1>4 DEF DigitsOf
<1>5. CASE ~(i < Radix)
  <2>1. i \div Radix \in Nat /\ i \div Radix < i
    BY <1>2, <1>5, Quotient, RadixAssumption
  <2>2. i \div Radix \notin Bad
    BY <1>1, <1>2, <2>1
  <2>3. f[i \div Radix] = g[i \div Radix]
    BY <1>2, <2>1, <2>2
  <2> QED BY <1>2, <1>3, <2>3 DEF DigitsOf
<1> QED BY <1>4, <1>5

\* What write_len does: the digits of a number, the lowest first.
LEMMA WriteLenRecursion ==
  ASSUME NEW n \in Nat
  PROVE  WriteLen(n) = IF n < Radix THEN <<n>> ELSE <<Radix + (n % Radix)>> \o WriteLen(n \div Radix)
<1> DEFINE Solves(f) == f = [m \in Nat |-> DigitsOf(f, m)]
<1>1. PICK g : g = [m \in Nat |-> (CHOOSE f : Codes(f, m))[m]]
  OBVIOUS
<1>2. ASSUME NEW m \in Nat, NEW f, Codes(f, m), NEW k \in 0..m
      PROVE  g[k] = f[k]
  <2>1. k \in Nat /\ k <= m
    OBVIOUS
  <2>2. PICK h : h = CHOOSE e : Codes(e, k)
    OBVIOUS
  <2>3. Codes(h, k)
    BY <2>1, <2>2, CodesExists
  <2>4. g[k] = h[k]
    BY <1>1, <2>1, <2>2
  <2>5. h[k] = f[k]
    BY <1>2, <2>1, <2>3, CodesAgree
  <2> QED BY <2>4, <2>5
<1>3. ASSUME NEW m \in Nat PROVE g[m] = DigitsOf(g, m)
  <2>1. PICK f : Codes(f, m)
    BY CodesExists
  <2>2. g[m] = DigitsOf(f, m)
    <3>1. m \in 0..m
      OBVIOUS
    <3>2. g[m] = f[m]
      BY <1>2, <2>1, <3>1
    <3> QED BY <2>1, <3>1, <3>2 DEF Codes
  <2>3. CASE m < Radix
    BY <2>2, <2>3 DEF DigitsOf
  <2>4. CASE ~(m < Radix)
    <3>1. m \div Radix \in 0..m
      BY <2>4, Quotient, RadixAssumption
    <3>2. g[m \div Radix] = f[m \div Radix]
      BY <1>2, <2>1, <3>1
    <3> QED BY <2>2, <3>2 DEF DigitsOf
  <2> QED BY <2>3, <2>4
<1>4. Solves(g)
  <2>1. g = [m \in Nat |-> g[m]]
    BY <1>1
  <2> QED BY <1>3, <2>1
<1>5. write_len = CHOOSE f : Solves(f)
  BY DEF write_len, DigitsOf
<1>6. Solves(write_len)
  <2> HIDE DEF Solves
  <2> QED BY <1>4, <1>5
<1>7. write_len[n] = DigitsOf(write_len, n)
  BY <1>6
<1> QED BY <1>7 DEF WriteLen, DigitsOf

\* The first digit, and the others, which are those of the quotient.
LEMMA WriteLenFirst ==
  ASSUME NEW n \in Nat, WriteLen(n \div Radix) \in Seq(0..(ByteValues - 1))
  PROVE  /\ WriteLen(n) \in Seq(0..(ByteValues - 1))
         /\ n < Radix => Len(WriteLen(n)) = 1 /\ WriteLen(n)[1] = n
         /\ n >= Radix => /\ Len(WriteLen(n)) = 1 + Len(WriteLen(n \div Radix))
                          /\ WriteLen(n)[1] = Radix + (n % Radix)
                          /\ \A i \in 1..Len(WriteLen(n \div Radix)) :
                               WriteLen(n)[i + 1] = WriteLen(n \div Radix)[i]
<1>1. PICK w \in Seq(0..(ByteValues - 1)) : w = WriteLen(n \div Radix)
  OBVIOUS
<1>2. CASE n < Radix
  <2>1. WriteLen(n) = <<n>>
    BY <1>2, WriteLenRecursion
  <2>2. n \in 0..(ByteValues - 1)
    BY <1>2, RadixAssumption DEF ByteValues
  <2> QED BY <1>2, <2>1, <2>2, RadixAssumption
<1>3. CASE n >= Radix
  <2>1. PICK d \in 0..(ByteValues - 1) : d = Radix + (n % Radix)
    <3>1. PICK r \in 0..(Radix - 1) : r = n % Radix
      BY Quotient
    <3>2. Radix + r \in 0..(ByteValues - 1)
      BY RadixAssumption DEF ByteValues
    <3> QED BY <3>1, <3>2
  <2>2. WriteLen(n) = <<d>> \o w
    <3>1. ~(n < Radix)
      BY <1>3, RadixAssumption
    <3> QED BY <1>1, <2>1, <3>1, WriteLenRecursion
  <2>3. <<d>> \in Seq(0..(ByteValues - 1)) /\ Len(<<d>>) = 1 /\ <<d>>[1] = d
    OBVIOUS
  <2>4. /\ <<d>> \o w \in Seq(0..(ByteValues - 1)) /\ Len(<<d>> \o w) = 1 + Len(w)
        /\ \A i \in 1..(1 + Len(w)) : (<<d>> \o w)[i] = IF i <= 1 THEN <<d>>[i] ELSE w[i - 1]
    BY <1>1, <2>3, ConcatProperties
  <2>5. Len(w) \in Nat
    BY <1>1
  <2>6. (<<d>> \o w)[1] = d /\ \A i \in 1..Len(w) : (<<d>> \o w)[i + 1] = w[i]
    BY <2>3, <2>4, <2>5
  <2> QED BY <1>1, <1>3, <2>1, <2>2, <2>4, <2>6, RadixAssumption
<1> QED BY <1>2, <1>3, RadixAssumption

\* The digits are bytes.
LEMMA WriteLenBytes ==
  ASSUME NEW n \in Nat
  PROVE  WriteLen(n) \in Seq(0..(ByteValues - 1))
<1> DEFINE Bad == {m \in Nat : WriteLen(m) \notin Seq(0..(ByteValues - 1))}
<1> SUFFICES ASSUME Bad # {} PROVE FALSE
  OBVIOUS
<1>1. PICK m \in Bad : \A k \in Bad : m <= k
  <2>1. Bad \subseteq Nat
    OBVIOUS
  <2> HIDE DEF Bad
  <2> QED BY <2>1, LeastNumber
<1>2. m \in Nat /\ WriteLen(m) \notin Seq(0..(ByteValues - 1))
  BY <1>1
<1>3. CASE m < Radix
  <2>1. WriteLen(m) = <<m>>
    BY <1>2, <1>3, WriteLenRecursion
  <2>2. m \in 0..(ByteValues - 1)
    BY <1>2, <1>3, RadixAssumption DEF ByteValues
  <2> QED BY <1>2, <2>1, <2>2
<1>4. CASE ~(m < Radix)
  <2>1. m \div Radix \in Nat /\ m \div Radix < m
    BY <1>2, <1>4, Quotient, RadixAssumption
  <2>2. m \div Radix \notin Bad
    BY <1>1, <1>2, <2>1
  <2> QED BY <1>2, <2>1, <2>2, WriteLenFirst
<1> QED BY <1>3, <1>4

\* The digits of a number: one if it is small, else one and those of the quotient.
LEMMA Digits ==
  ASSUME NEW n \in Nat
  PROVE  /\ WriteLen(n) \in Seq(0..(ByteValues - 1))
         /\ Len(WriteLen(n)) \in Nat \ {0}
         /\ n < Radix => Len(WriteLen(n)) = 1 /\ WriteLen(n)[1] = n
         /\ n >= Radix => /\ Len(WriteLen(n)) = 1 + Len(WriteLen(n \div Radix))
                          /\ Len(WriteLen(n \div Radix)) \in Nat
                          /\ WriteLen(n)[1] = Radix + (n % Radix)
                          /\ \A i \in 1..Len(WriteLen(n \div Radix)) :
                               WriteLen(n)[i + 1] = WriteLen(n \div Radix)[i]
<1>1. n \div Radix \in Nat
  BY Quotient
<1>2. WriteLen(n \div Radix) \in Seq(0..(ByteValues - 1))
  BY <1>1, WriteLenBytes
<1>3. Len(WriteLen(n \div Radix)) \in Nat
  BY <1>2
<1>4. WriteLen(n) \in Seq(0..(ByteValues - 1))
  BY <1>2, WriteLenFirst
<1>5. CASE n < Radix
  <2>1. ~(n >= Radix)
    BY <1>5, RadixAssumption
  <2> QED BY <1>2, <1>4, <1>5, <2>1, WriteLenFirst
<1>6. CASE n >= Radix
  <2>1. ~(n < Radix)
    BY <1>6, RadixAssumption
  <2>2. Len(WriteLen(n)) = 1 + Len(WriteLen(n \div Radix))
    BY <1>2, <1>6, WriteLenFirst
  <2>3. Len(WriteLen(n)) \in Nat \ {0}
    BY <1>3, <2>2
  <2> QED BY <1>2, <1>3, <1>4, <1>6, <2>1, <2>2, <2>3, WriteLenFirst
<1> QED BY <1>5, <1>6, RadixAssumption

\* Multiplying by the base keeps the order.
LEMMA Scaling ==
  ASSUME NEW q \in Nat, NEW r \in 0..(Radix - 1), NEW m \in Nat
  PROVE  Radix * q + r < Radix * m <=> q < m
<1>1. Radix \in Nat /\ Radix > 0 /\ r < Radix /\ r >= 0
  BY RadixAssumption
<1>2. ASSUME q < m PROVE Radix * q + r < Radix * m
  <2>1. PICK k \in Nat : m = q + 1 + k
    <3>1. m - q - 1 \in Nat /\ m = q + 1 + (m - q - 1)
      BY <1>2
    <3> QED BY <3>1
  <2>2. Radix * m = Radix * q + Radix + Radix * k
    BY <1>1, <2>1
  <2>3. Radix * k \in Nat /\ Radix * q \in Nat
    BY <1>1
  <2> QED BY <1>1, <2>2, <2>3
<1>3. ASSUME ~(q < m) PROVE ~(Radix * q + r < Radix * m)
  <2>1. PICK k \in Nat : q = m + k
    <3>1. q - m \in Nat /\ q = m + (q - m)
      BY <1>3
    <3> QED BY <3>1
  <2>2. Radix * q = Radix * m + Radix * k
    BY <1>1, <2>1
  <2>3. Radix * k \in Nat /\ Radix * m \in Nat
    BY <1>1
  <2> QED BY <1>1, <2>2, <2>3
<1> QED BY <1>2, <1>3

\* A quotient is below m if the number is below Radix * m.
LEMMA QuotientBelow ==
  ASSUME NEW n \in Nat, NEW m \in Nat
  PROVE  n < Radix * m <=> n \div Radix < m
<1>1. PICK q \in Nat, r \in 0..(Radix - 1) : q = n \div Radix /\ n = Radix * q + r
  BY Quotient
<1>2. Radix * q + r < Radix * m <=> q < m
  BY Scaling
<1> QED BY <1>1, <1>2

\* The number of digits.
Count(n) == Len(WriteLen(n))

\* One digit up to the base, and one more for each power of it.
LEMMA Counts ==
  ASSUME NEW n \in Nat
  PROVE  /\ Count(n) \in Nat /\ Count(n) >= 1
         /\ n < Radix <=> Count(n) <= 1
         /\ n < Radix * Radix <=> Count(n) <= 2
         /\ n < Radix * Radix * Radix <=> Count(n) <= 3
         /\ n < Radix * Radix * Radix * Radix <=> Count(n) <= 4
<1>1. Radix \in Nat /\ Radix > 0
  BY RadixAssumption
<1>2. PICK R2 \in Nat, R3 \in Nat, R4 \in Nat :
        /\ R2 = Radix * Radix /\ R3 = Radix * Radix * Radix /\ R4 = Radix * Radix * Radix * Radix
        /\ R3 = Radix * R2 /\ R4 = Radix * R3
  <2>1. PICK a \in Nat : a = Radix * Radix
    BY <1>1
  <2>2. PICK b \in Nat : b = Radix * a
    BY <1>1
  <2>3. PICK c \in Nat : c = Radix * b
    BY <1>1
  <2>4. Radix * Radix * Radix = b
    BY <1>1, <2>1, <2>2
  <2>5. Radix * Radix * Radix * Radix = c
    BY <1>1, <2>3, <2>4
  <2> QED BY <2>1, <2>2, <2>3, <2>4, <2>5
<1>3. ASSUME NEW m \in Nat
      PROVE  /\ Count(m) \in Nat /\ Count(m) >= 1
             /\ m \div Radix \in Nat
             /\ m < Radix => Count(m) = 1
             /\ ~(m < Radix) => Count(m) = 1 + Count(m \div Radix)
  <2>1. Count(m) \in Nat \ {0} /\ m \div Radix \in Nat
    BY Digits, Quotient DEF Count
  <2>2. m < Radix => Count(m) = 1
    BY Digits DEF Count
  <2>3. ~(m < Radix) => m >= Radix
    BY <1>1
  <2>4. m >= Radix => Count(m) = 1 + Count(m \div Radix)
    BY Digits DEF Count
  <2> QED BY <2>1, <2>2, <2>3, <2>4
<1>4. ASSUME NEW m \in Nat PROVE m < Radix <=> Count(m) <= 1
  <2>1. Count(m \div Radix) \in Nat /\ Count(m \div Radix) >= 1
    BY <1>3
  <2> QED BY <1>3, <2>1
<1>5. ASSUME NEW m \in Nat, NEW k \in Nat, NEW P \in Nat, Radix <= Radix * P, k >= 1,
             \A j \in Nat : j < P <=> Count(j) <= k
      PROVE  m < Radix * P <=> Count(m) <= k + 1
  <2>1. CASE m < Radix
    <3>1. m < Radix * P
      <4>1. PICK b \in Nat : b = Radix * P
        BY <1>1
      <4> QED BY <1>1, <1>5, <2>1, <4>1
    <3>2. Count(m) = 1
      BY <1>3, <2>1
    <3> QED BY <1>5, <3>1, <3>2
  <2>2. CASE ~(m < Radix)
    <3>1. PICK q \in Nat : q = m \div Radix
      BY <1>3
    <3>2. m < Radix * P <=> q < P
      BY <3>1, QuotientBelow
    <3>3. q < P <=> Count(q) <= k
      BY <1>5
    <3>4. Count(m) = 1 + Count(q) /\ Count(q) \in Nat
      BY <1>3, <2>2, <3>1
    <3>5. Count(q) <= k <=> Count(m) <= k + 1
      BY <3>4
    <3> QED BY <3>2, <3>3, <3>5
  <2> QED BY <2>1, <2>2
<1>6. Radix <= R2 /\ Radix <= R3 /\ Radix <= R4
  <2>1. \A a \in Nat : a > 0 => Radix <= Radix * a /\ Radix * a > 0
    BY <1>1
  <2>2. Radix <= R2 /\ R2 > 0
    BY <1>1, <1>2, <2>1
  <2>3. Radix <= R3 /\ R3 > 0
    BY <1>2, <2>1, <2>2
  <2> QED BY <1>2, <2>1, <2>2, <2>3
<1>7. \A m \in Nat : m < R2 <=> Count(m) <= 2
  <2>1. \A m \in Nat : m < Radix * Radix <=> Count(m) <= 1 + 1
    BY <1>1, <1>2, <1>4, <1>5, <1>6
  <2> QED BY <1>2, <2>1
<1>8. \A m \in Nat : m < R3 <=> Count(m) <= 3
  <2>1. \A m \in Nat : m < Radix * R2 <=> Count(m) <= 2 + 1
    BY <1>2, <1>5, <1>6, <1>7
  <2> QED BY <1>2, <2>1
<1>9. \A m \in Nat : m < R4 <=> Count(m) <= 4
  <2>1. \A m \in Nat : m < Radix * R3 <=> Count(m) <= 3 + 1
    BY <1>2, <1>5, <1>6, <1>8
  <2> QED BY <1>2, <2>1
<1> QED BY <1>2, <1>3, <1>4, <1>7, <1>8, <1>9

\* The estimate of get_final_packet_length: at most one byte too high, and never too low for a
\* length of four digits.
LEMMA Estimate ==
  ASSUME NEW n \in Nat
  PROVE  /\ FinalLength(n) \in Nat /\ n + 2 <= FinalLength(n)
         /\ FinalLength(n) <= 2 + Count(n) + n
         /\ n < Radix * Radix * Radix * Radix => 1 + Count(n) + n <= FinalLength(n)
<1>1. Radix \in Nat /\ Radix > 1
  BY RadixAssumption
<1>2. PICK R2 \in Nat, R3 \in Nat, R4 \in Nat :
        /\ R2 = Radix * Radix /\ R3 = Radix * Radix * Radix /\ R4 = Radix * Radix * Radix * Radix
        /\ Radix < R2 /\ R2 < R3
  <2>1. PICK a \in Nat : a = Radix * Radix /\ Radix < a
    BY <1>1
  <2>2. PICK b \in Nat : b = Radix * Radix * Radix /\ a < b
    <3>1. PICK b \in Nat : b = a * Radix
      BY <1>1
    <3>2. a < b
      BY <1>1, <2>1, <3>1
    <3> QED BY <2>1, <3>1, <3>2
  <2>3. PICK c \in Nat : c = Radix * Radix * Radix * Radix
    <3>1. b * Radix \in Nat
      BY <1>1
    <3> QED BY <2>2, <3>1
  <2> QED BY <2>1, <2>2, <2>3
<1>3. PICK c \in Nat : /\ c = Count(n) /\ c >= 1
                       /\ n < Radix <=> c <= 1
                       /\ n < R2 <=> c <= 2
                       /\ n < R3 <=> c <= 3
                       /\ n < R4 <=> c <= 4
  BY <1>2, Counts
<1>4. PICK k \in Nat : /\ FinalLength(n) = n + 1 + k
                       /\ k = IF n + 1 < Radix THEN 1 ELSE IF n + 1 < R2 THEN 2 ELSE IF n + 1 < R3 THEN 3 ELSE 4
  BY <1>2 DEF FinalLength
<1>5. k >= 1 /\ k <= c + 1 /\ (c <= 4 => c <= k)
  BY <1>1, <1>2, <1>3, <1>4
<1>6. FinalLength(n) \in Nat /\ n + 2 <= FinalLength(n) /\ FinalLength(n) <= 2 + c + n
  BY <1>4, <1>5
<1>7. n < R4 => 1 + c + n <= FinalLength(n)
  BY <1>3, <1>4, <1>5
<1> QED BY <1>2, <1>3, <1>6, <1>7

\* The top bit does not count.
LEMMA TopBit ==
  ASSUME NEW r \in 0..(Radix - 1)
  PROVE  r % Radix = r /\ (Radix + r) % Radix = r
<1>1. Radix \in Nat /\ Radix > 0 /\ r \in Nat /\ r < Radix
  BY RadixAssumption
<1>2. ASSUME NEW x \in Nat, NEW b \in {0, 1}, x = Radix * b + r PROVE x % Radix = r
  <2>1. PICK q \in Nat, s \in 0..(Radix - 1) : q = x \div Radix /\ s = x % Radix /\ x = Radix * q + s
    BY Quotient
  <2>2. q < b + 1
    <3>1. PICK m \in Nat : m = b + 1
      OBVIOUS
    <3>2. Radix * b + r < Radix * m
      BY <3>1, Scaling
    <3> QED BY <1>2, <2>1, <3>1, <3>2, Scaling
  <2>3. ~(q < b)
    <3>1. b \in Nat /\ ~(Radix * b + r < Radix * b)
      BY Scaling
    <3> QED BY <1>2, <2>1, <3>1, Scaling
  <2>4. q = b
    BY <2>2, <2>3
  <2>5. PICK a \in Nat : a = Radix * b
    BY <1>1
  <2>6. x = a + s /\ x = a + r
    BY <1>2, <2>1, <2>4, <2>5
  <2> QED BY <1>1, <2>1, <2>5, <2>6
<1>3. r % Radix = r
  BY <1>1, <1>2
<1>4. (Radix + r) % Radix = r
  BY <1>1, <1>2
<1> QED BY <1>3, <1>4

\* The last digit, and no other, is below the base.
Marked(n) == \A i \in 1..Count(n) : WriteLen(n)[i] \in Nat /\ (WriteLen(n)[i] < Radix <=> i = Count(n))

\* write_len marks the digits so.
LEMMA Marks ==
  ASSUME NEW n \in Nat
  PROVE  Marked(n)
<1> DEFINE Bad == {m \in Nat : ~Marked(m)}
<1> SUFFICES ASSUME Bad # {} PROVE FALSE
  OBVIOUS
<1>1. PICK m \in Bad : \A k \in Bad : m <= k
  <2>1. Bad \subseteq Nat
    OBVIOUS
  <2> HIDE DEF Bad
  <2> QED BY <2>1, LeastNumber
<1>2. m \in Nat /\ ~Marked(m)
  BY <1>1
<1>3. CASE m < Radix
  <2>1. Count(m) = 1 /\ WriteLen(m)[1] = m
    BY <1>2, <1>3, Digits DEF Count
  <2> QED BY <1>2, <1>3, <2>1 DEF Marked
<1>4. CASE ~(m < Radix)
  <2>1. m \div Radix \in Nat /\ m \div Radix < m /\ m >= Radix
    BY <1>2, <1>4, Quotient, RadixAssumption
  <2>2. m \div Radix \notin Bad
    BY <1>1, <1>2, <2>1
  <2>3. Marked(m \div Radix)
    BY <2>1, <2>2
  <2>4. PICK c \in Nat : c = Count(m \div Radix) /\ Count(m) = 1 + c /\ c >= 1
    BY <1>2, <2>1, Digits, Counts DEF Count
  <2>5. WriteLen(m)[1] = Radix + (m % Radix) /\ \A i \in 1..c : WriteLen(m)[i + 1] = WriteLen(m \div Radix)[i]
    BY <1>2, <2>1, <2>4, Digits DEF Count
  <2>6. ASSUME NEW i \in 1..Count(m)
        PROVE  WriteLen(m)[i] \in Nat /\ (WriteLen(m)[i] < Radix <=> i = Count(m))
    <3>1. CASE i = 1
      <4>1. PICK r \in 0..(Radix - 1) : r = m % Radix
        BY <1>2, Quotient
      <4>2. Radix + r \in Nat /\ ~(Radix + r < Radix)
        BY RadixAssumption
      <4> QED BY <2>4, <2>5, <3>1, <4>1, <4>2
    <3>2. CASE i # 1
      <4>1. PICK j \in 1..c : i = j + 1
        <5>1. i - 1 \in 1..c /\ i = (i - 1) + 1
          BY <2>4, <3>2
        <5> QED BY <5>1
      <4>2. WriteLen(m)[i] = WriteLen(m \div Radix)[j]
        BY <2>5, <4>1
      <4>3. WriteLen(m \div Radix)[j] \in Nat /\ (WriteLen(m \div Radix)[j] < Radix <=> j = c)
        BY <2>3, <2>4 DEF Marked
      <4>4. j = c <=> i = Count(m)
        BY <2>4, <4>1
      <4> QED BY <4>2, <4>3, <4>4
    <3> QED BY <3>1, <3>2
  <2> QED BY <1>2, <2>6 DEF Marked
<1> QED BY <1>3, <1>4

\* What the i-th digit is multiplied with.
Power(i) == IF i = 1 THEN 1 ELSE IF i = 2 THEN Radix ELSE IF i = 3 THEN Radix * Radix ELSE Radix * Radix * Radix

\* The functions that decoding computes have the values that their equations give.
LEMMA DigitsUnrolled ==
  ASSUME NEW buf, NEW d \in 1..4, NEW e, e[0] = 0,
         \A i \in 1..d : e[i] = e[i - 1] + (buf[i] % Radix) * Power(i)
  PROVE  DigitsValue(buf, d) = e[d]
<1> DEFINE Multiplies(f) == f = [i \in 1..d |-> IF i = 1 THEN 1 ELSE f[i - 1] * Radix]
<1> DEFINE multiplier == CHOOSE f : Multiplies(f)
<1> DEFINE Values(f) == f = [i \in 0..d |-> IF i = 0 THEN 0 ELSE f[i - 1] + (buf[i] % Radix) * multiplier[i]]
<1> DEFINE value == CHOOSE f : Values(f)
<1>1. DigitsValue(buf, d) = value[d]
  BY DEF DigitsValue
<1>2. \A i \in 1..d : multiplier[i] = Power(i)
  <2>1. PICK f : f = [i \in 1..d |-> Power(i)]
    OBVIOUS
  <2>2. ASSUME NEW i \in 1..d PROVE Power(i) = IF i = 1 THEN 1 ELSE f[i - 1] * Radix
    <3>1. i = 1 \/ i = 2 \/ i = 3 \/ i = 4
      OBVIOUS
    <3>2. CASE i = 1
      BY <3>2 DEF Power
    <3>3. CASE i = 2
      <4>1. f[i - 1] = 1 /\ 1 * Radix = Radix
        BY <2>1, <3>3, RadixAssumption DEF Power
      <4> QED BY <3>3, <4>1 DEF Power
    <3>4. CASE i = 3
      <4>1. f[i - 1] = Radix
        BY <2>1, <3>4 DEF Power
      <4> QED BY <3>4, <4>1 DEF Power
    <3>5. CASE i = 4
      <4>1. f[i - 1] = Radix * Radix
        BY <2>1, <3>5 DEF Power
      <4> QED BY <3>5, <4>1 DEF Power
    <3> QED BY <3>1, <3>2, <3>3, <3>4, <3>5
  <2>3. Multiplies(f)
    BY <2>1, <2>2
  <2>4. Multiplies(multiplier)
    <3> HIDE DEF Multiplies
    <3> QED BY <2>3
  <2> HIDE DEF multiplier
  <2>5. ASSUME NEW i \in 1..d PROVE multiplier[i] = IF i = 1 THEN 1 ELSE multiplier[i - 1] * Radix
    BY <2>4
  <2>6. multiplier[1] = 1
    BY <2>5
  <2>7. d >= 2 => multiplier[2] = Radix
    <3>1. 1 * Radix = Radix
      BY RadixAssumption
    <3> QED BY <2>5, <2>6, <3>1
  <2>8. d >= 3 => multiplier[3] = Radix * Radix
    BY <2>5, <2>7
  <2>9. d >= 4 => multiplier[4] = Radix * Radix * Radix
    BY <2>5, <2>8
  <2> QED BY <2>6, <2>7, <2>8, <2>9 DEF Power
<1> HIDE DEF multiplier
<1>3. \A i \in 0..d : value[i] = e[i]
  <2>1. PICK f : f = [i \in 0..d |-> e[i]]
    OBVIOUS
  <2>2. \A i \in 0..d : e[i] = IF i = 0 THEN 0 ELSE f[i - 1] + (buf[i] % Radix) * multiplier[i]
    <3> TAKE i \in 0..d
    <3>1. CASE i = 0
      BY <3>1
    <3>2. CASE i # 0
      <4>1. i \in 1..d /\ i - 1 \in 0..d
        BY <3>2
      <4> QED BY <1>2, <2>1, <3>2, <4>1
    <3> QED BY <3>1, <3>2
  <2>3. Values(f)
    BY <2>1, <2>2
  <2>4. Values(value)
    <3> HIDE DEF Values
    <3> QED BY <2>3
  <2> HIDE DEF value
  <2>5. ASSUME NEW i \in 0..d PROVE value[i] = IF i = 0 THEN 0 ELSE value[i - 1] + (buf[i] % Radix) * multiplier[i]
    BY <2>4
  <2>6. value[0] = e[0]
    BY <2>5
  <2>7. ASSUME NEW i \in 1..d, value[i - 1] = e[i - 1] PROVE value[i] = e[i]
    <3>1. i \in 0..d /\ i # 0
      OBVIOUS
    <3>2. value[i] = value[i - 1] + (buf[i] % Radix) * multiplier[i]
      BY <2>5, <3>1
    <3> QED BY <1>2, <2>7, <3>2
  <2>8. value[1] = e[1]
    <3>1. 1 \in 1..d /\ 1 - 1 = 0
      OBVIOUS
    <3> QED BY <2>6, <2>7, <3>1
  <2>9. d >= 2 => value[2] = e[2]
    <3>1. d >= 2 => 2 \in 1..d /\ 2 - 1 = 1
      OBVIOUS
    <3> QED BY <2>7, <2>8, <3>1
  <2>10. d >= 3 => value[3] = e[3]
    <3>1. d >= 3 => 3 \in 1..d /\ 3 - 1 = 2 /\ d >= 2
      OBVIOUS
    <3> QED BY <2>7, <2>9, <3>1
  <2>11. d >= 4 => value[4] = e[4]
    <3>1. d >= 4 => 4 \in 1..d /\ 4 - 1 = 3 /\ d >= 3
      OBVIOUS
    <3> QED BY <2>7, <2>10, <3>1
  <2>12. \A i \in 0..d : i = 0 \/ i = 1 \/ (i = 2 /\ d >= 2) \/ (i = 3 /\ d >= 3) \/ (i = 4 /\ d >= 4)
    OBVIOUS
  <2> QED BY <2>6, <2>8, <2>9, <2>10, <2>11, <2>12
<1> HIDE DEF value
<1> QED BY <1>1, <1>3

\* The first digit without its top bit is the remainder, and what is left when it is taken away
\* are the digits of the quotient.
LEMMA FirstDigit ==
  ASSUME NEW n \in Nat
  PROVE  \E q \in Nat, r \in 0..(Radix - 1) :
           /\ n = Radix * q + r
           /\ WriteLen(n)[1] % Radix = r
           /\ Count(n) <= 1 => q = 0
           /\ Count(n) > 1 => /\ Count(n) = 1 + Count(q) /\ Count(q) \in Nat
                              /\ \A i \in 1..Count(q) : WriteLen(n)[i + 1] = WriteLen(q)[i]
<1>1. PICK q \in Nat, r \in 0..(Radix - 1) : q = n \div Radix /\ r = n % Radix /\ n = Radix * q + r
  BY Quotient
<1>2. Radix \in Nat /\ Radix > 0
  BY RadixAssumption
<1>3. CASE n < Radix
  <2>1. n \in 0..(Radix - 1)
    BY <1>2, <1>3
  <2>2. n % Radix = n
    BY <2>1, TopBit
  <2>3. r = n /\ WriteLen(n)[1] = n /\ Count(n) = 1
    BY <1>1, <1>3, <2>2, Digits DEF Count
  <2>4. 0 \in Nat /\ n = Radix * 0 + n
    BY <1>2
  <2>5. WriteLen(n)[1] % Radix = n
    BY <2>2, <2>3
  <2>6. ~(Count(n) > 1)
    BY <2>3
  <2> QED BY <2>1, <2>4, <2>5, <2>6
<1>4. CASE ~(n < Radix)
  <2>1. n >= Radix
    BY <1>2, <1>4
  <2>2. /\ Count(n) = 1 + Count(q) /\ Count(q) \in Nat /\ WriteLen(n)[1] = Radix + r
        /\ \A i \in 1..Count(q) : WriteLen(n)[i + 1] = WriteLen(q)[i]
    BY ZenonT(60), <1>1, <2>1, Digits DEF Count
  <2>3. WriteLen(n)[1] % Radix = r
    BY <2>2, TopBit
  <2>4. ~(Count(n) <= 1)
    BY <1>4, Counts
  <2> QED BY <1>1, <2>2, <2>3, <2>4
<1> QED BY <1>3, <1>4

\* Up to four digits are worth the number that they were written for.
LEMMA DigitsWorth ==
  ASSUME NEW n \in Nat, Count(n) <= 4, NEW buf, \A i \in 1..Count(n) : buf[i] = WriteLen(n)[i]
  PROVE  DigitsValue(buf, Count(n)) = n
<1>1. PICK q1 \in Nat, r1 \in 0..(Radix - 1) :
           /\ n = Radix * q1 + r1
           /\ WriteLen(n)[1] % Radix = r1
           /\ Count(n) <= 1 => q1 = 0
           /\ Count(n) > 1 => /\ Count(n) = 1 + Count(q1) /\ Count(q1) \in Nat
                              /\ \A i \in 1..Count(q1) : WriteLen(n)[i + 1] = WriteLen(q1)[i]
  BY FirstDigit
<1>2. PICK q2 \in Nat, r2 \in 0..(Radix - 1) :
           /\ q1 = Radix * q2 + r2
           /\ WriteLen(q1)[1] % Radix = r2
           /\ Count(q1) <= 1 => q2 = 0
           /\ Count(q1) > 1 => /\ Count(q1) = 1 + Count(q2) /\ Count(q2) \in Nat
                               /\ \A i \in 1..Count(q2) : WriteLen(q1)[i + 1] = WriteLen(q2)[i]
  BY FirstDigit
<1>3. PICK q3 \in Nat, r3 \in 0..(Radix - 1) :
           /\ q2 = Radix * q3 + r3
           /\ WriteLen(q2)[1] % Radix = r3
           /\ Count(q2) <= 1 => q3 = 0
           /\ Count(q2) > 1 => /\ Count(q2) = 1 + Count(q3) /\ Count(q3) \in Nat
                               /\ \A i \in 1..Count(q3) : WriteLen(q2)[i + 1] = WriteLen(q3)[i]
  BY FirstDigit
<1>4. PICK q4 \in Nat, r4 \in 0..(Radix - 1) :
           /\ q3 = Radix * q4 + r4
           /\ WriteLen(q3)[1] % Radix = r4
           /\ Count(q3) <= 1 => q4 = 0
  <2>1. \E q \in Nat, r \in 0..(Radix - 1) :
           /\ q3 = Radix * q + r
           /\ WriteLen(q3)[1] % Radix = r
           /\ Count(q3) <= 1 => q = 0
           /\ Count(q3) > 1 => /\ Count(q3) = 1 + Count(q) /\ Count(q) \in Nat
                               /\ \A i \in 1..Count(q) : WriteLen(q3)[i + 1] = WriteLen(q)[i]
    BY FirstDigit
  <2> QED BY <2>1
<1>5. Radix \in Nat /\ r1 \in Nat /\ r2 \in Nat /\ r3 \in Nat /\ r4 \in Nat
  BY RadixAssumption
<1>6. PICK c \in 1..4 : c = Count(n)
  <2>1. Count(n) \in Nat /\ Count(n) >= 1
    BY Counts
  <2>2. Count(n) \in 1..4
    BY <2>1
  <2> QED BY <2>2
<1>7. PICK c1 \in Nat, c2 \in Nat, c3 \in Nat :
        /\ c1 = Count(q1) /\ c1 >= 1 /\ c2 = Count(q2) /\ c2 >= 1 /\ c3 = Count(q3) /\ c3 >= 1
        /\ c > 1 => c = 1 + c1
        /\ c1 > 1 => c1 = 1 + c2
        /\ c2 > 1 => c2 = 1 + c3
  <2>1. Count(q1) \in Nat /\ Count(q1) >= 1
    BY Counts
  <2>2. Count(q2) \in Nat /\ Count(q2) >= 1
    BY Counts
  <2>3. Count(q3) \in Nat /\ Count(q3) >= 1
    BY Counts
  <2> QED BY <1>1, <1>2, <1>3, <1>6, <2>1, <2>2, <2>3
<1>8. buf[1] % Radix = r1
  BY <1>1, <1>6
<1>9. c >= 2 => buf[2] % Radix = r2
  <2> SUFFICES ASSUME c >= 2 PROVE buf[2] % Radix = r2
    OBVIOUS
  <2>1. buf[2] = WriteLen(n)[2]
    BY <1>6
  <2>2. 1 \in 1..c1 /\ 1 + 1 = 2 /\ c > 1
    BY <1>7
  <2>3. WriteLen(n)[2] = WriteLen(q1)[1]
    BY <1>1, <1>6, <1>7, <2>2
  <2> QED BY <1>2, <2>1, <2>3
<1>10. c >= 3 => buf[3] % Radix = r3
  <2> SUFFICES ASSUME c >= 3 PROVE buf[3] % Radix = r3
    OBVIOUS
  <2>1. buf[3] = WriteLen(n)[3]
    BY <1>6
  <2>2. 2 \in 1..c1 /\ 2 + 1 = 3 /\ c > 1 /\ c1 > 1 /\ 1 \in 1..c2 /\ 1 + 1 = 2
    BY <1>7
  <2>3. WriteLen(n)[3] = WriteLen(q1)[2]
    BY <1>1, <1>6, <1>7, <2>2
  <2>4. WriteLen(q1)[2] = WriteLen(q2)[1]
    BY <1>2, <1>7, <2>2
  <2> QED BY <1>3, <2>1, <2>3, <2>4
<1>11. c >= 4 => buf[4] % Radix = r4
  <2> SUFFICES ASSUME c >= 4 PROVE buf[4] % Radix = r4
    OBVIOUS
  <2>1. buf[4] = WriteLen(n)[4]
    BY <1>6
  <2>2. /\ 3 \in 1..c1 /\ 3 + 1 = 4 /\ c > 1 /\ c1 > 1 /\ 2 \in 1..c2 /\ 2 + 1 = 3
        /\ c2 > 1 /\ 1 \in 1..c3 /\ 1 + 1 = 2
    BY <1>7
  <2>3. WriteLen(n)[4] = WriteLen(q1)[3]
    BY <1>1, <1>6, <1>7, <2>2
  <2>4. WriteLen(q1)[3] = WriteLen(q2)[2]
    BY <1>2, <1>7, <2>2
  <2>5. WriteLen(q2)[2] = WriteLen(q3)[1]
    BY <1>3, <1>7, <2>2
  <2> QED BY <1>4, <2>1, <2>3, <2>4, <2>5
<1>12. PICK e1 \in Nat, e2 \in Nat, e3 \in Nat, e4 \in Nat :
         /\ e1 = 0 + r1 * 1 /\ e2 = e1 + r2 * Radix /\ e3 = e2 + r3 * (Radix * Radix)
         /\ e4 = e3 + r4 * (Radix * Radix * Radix)
  <2>1. PICK a \in Nat, b \in Nat : a = Radix * Radix /\ b = Radix * Radix * Radix
    <3>1. PICK a \in Nat : a = Radix * Radix
      BY <1>5
    <3>2. a * Radix \in Nat
      BY <1>5
    <3> QED BY <3>1, <3>2
  <2>2. r1 = 0 + r1 * 1
    BY <1>5
  <2>3. PICK x \in Nat, y \in Nat, z \in Nat : x = r2 * Radix /\ y = r3 * a /\ z = r4 * b
    BY <1>5
  <2>4. r1 + x \in Nat /\ (r1 + x) + y \in Nat /\ ((r1 + x) + y) + z \in Nat
    BY <1>5
  <2> QED BY <1>5, <2>1, <2>2, <2>3, <2>4
<1>13. PICK e : e = [i \in 0..4 |-> IF i = 0 THEN 0 ELSE IF i = 1 THEN e1 ELSE IF i = 2 THEN e2
                                    ELSE IF i = 3 THEN e3 ELSE e4]
  OBVIOUS
<1>14. ASSUME NEW i \in 1..c PROVE e[i] = e[i - 1] + (buf[i] % Radix) * Power(i)
  <2>1. i = 1 \/ (i = 2 /\ c >= 2) \/ (i = 3 /\ c >= 3) \/ (i = 4 /\ c >= 4)
    OBVIOUS
  <2>2. e[0] = 0 /\ e[1] = e1 /\ e[2] = e2 /\ e[3] = e3 /\ e[4] = e4
    BY <1>13
  <2>3. Power(1) = 1 /\ Power(2) = Radix /\ Power(3) = Radix * Radix /\ Power(4) = Radix * Radix * Radix
    BY DEF Power
  <2>4. CASE i = 1
    BY <1>8, <1>12, <2>2, <2>3, <2>4
  <2>5. CASE i = 2 /\ c >= 2
    BY <1>9, <1>12, <2>2, <2>3, <2>5
  <2>6. CASE i = 3 /\ c >= 3
    BY <1>10, <1>12, <2>2, <2>3, <2>6
  <2>7. CASE i = 4 /\ c >= 4
    BY <1>11, <1>12, <2>2, <2>3, <2>7
  <2> QED BY <2>1, <2>4, <2>5, <2>6, <2>7
<1>15. e[0] = 0
  BY <1>13
<1>16. DigitsValue(buf, c) = e[c]
  BY <1>14, <1>15, DigitsUnrolled
<1>17. e[c] = n
  <2>1. CASE c = 1
    <3>1. q1 = 0
      BY <1>1, <1>6, <2>1
    <3>2. n = r1 /\ e1 = r1
      BY <1>1, <1>5, <1>12, <3>1
    <3> QED BY <1>13, <2>1, <3>2
  <2>2. CASE c = 2
    <3>1. q2 = 0
      BY <1>2, <1>7, <2>2
    <3>2. q1 = r2
      BY <1>2, <1>5, <3>1
    <3>3. n = e2
      BY <1>1, <1>5, <1>12, <3>2
    <3> QED BY <1>13, <2>2, <3>3
  <2>3. CASE c = 3
    <3>1. q3 = 0
      BY <1>3, <1>7, <2>3
    <3>2. q2 = r3
      BY <1>3, <1>5, <3>1
    <3>3. q1 = Radix * r3 + r2
      BY <1>2, <3>2
    <3>4. n = e3
      BY <1>1, <1>5, <1>12, <3>3
    <3> QED BY <1>13, <2>3, <3>4
  <2>4. CASE c = 4
    <3>1. q4 = 0
      BY <1>4, <1>7, <2>4
    <3>2. q3 = r4
      BY <1>4, <1>5, <3>1
    <3>3. q2 = Radix * r4 + r3
      BY <1>3, <3>2
    <3>4. q1 = Radix * (Radix * r4 + r3) + r2
      BY <1>2, <3>3
    <3>5. n = e4
      BY <1>1, <1>5, <1>12, <3>4
    <3> QED BY <1>13, <2>4, <3>5
  <2> QED BY <2>1, <2>2, <2>3, <2>4
<1> QED BY <1>6, <1>16, <1>17

\* Decoding up to four digits, whatever follows them.
LEMMA Decodes ==
  ASSUME NEW n \in Nat, Count(n) <= 4, NEW buf, Len(buf) \in Nat, Count(n) <= Len(buf),
         \A i \in 1..Count(n) : buf[i] = WriteLen(n)[i]
  PROVE  DecodeRemainingLength(buf) = [ok |-> TRUE, length |-> n, bytes |-> Count(n)]
<1>1. PICK c \in 1..4 : c = Count(n)
  <2>1. Count(n) \in Nat /\ Count(n) >= 1
    BY Counts
  <2>2. Count(n) \in 1..4
    BY <2>1
  <2> QED BY <2>2
<1>2. PICK last : last = {i \in 1..4 : i <= Len(buf) /\ buf[i] < Radix}
  OBVIOUS
<1>3. \A i \in 1..c : buf[i] < Radix <=> i = c
  BY <1>1, Marks DEF Marked
<1>4. c \in last
  BY <1>1, <1>2, <1>3
<1>5. \A j \in last : c <= j
  <2> SUFFICES ASSUME NEW j \in last, j < c PROVE FALSE
    BY <1>1, <1>2
  <2>1. j \in 1..c /\ j # c /\ buf[j] < Radix
    BY <1>1, <1>2
  <2> QED BY <1>3, <2>1
<1>6. (CHOOSE i \in last : \A j \in last : i <= j) = c
  <2>1. \A i \in last : i \in Nat
    BY <1>2
  <2>2. \A i \in last : (\A j \in last : i <= j) => i = c
    BY <1>4, <1>5, <2>1
  <2> QED BY <1>4, <1>5, <2>2
<1>7. DigitsValue(buf, c) = n
  BY <1>1, DigitsWorth
<1> QED BY <1>1, <1>2, <1>4, <1>6, <1>7 DEF DecodeRemainingLength, MaxLengthBytes

-----------------------------------------------------------------------------
(* The packets that the serializers write.                                 *)

\* The header bytes, the connect flags, and what else a packet consists of.
Headers == [type : {"PUBLISH", "SUBSCRIBE", "UNSUBSCRIBE", "CONNECT", "PUBACK", "PINGREQ", "DISCONNECT"},
            qos : {0, 1}, dup : {0, 1}, retain : {0, 1}]
Flags   == [will : BOOLEAN, username : BOOLEAN, password : BOOLEAN]
Symbols == Nat \union {"M", "Q", "T"} \union Headers \union Flags

\* A text of n symbols.
Text(s, n) == s \in Seq(Symbols) /\ Len(s) = n

\* u is s and then t.
Joined(u, s, t, m, n) ==
  /\ Text(u, m + n)
  /\ \A i \in 1..m : u[i] = s[i]
  /\ \A i \in 1..n : u[m + i] = t[i]

\* The lengths of two texts add up.
LEMMA TextConcat ==
  ASSUME NEW s, NEW t, NEW m \in Nat, NEW n \in Nat, Text(s, m), Text(t, n)
  PROVE  Joined(s \o t, s, t, m, n)
<1>1. s \in Seq(Symbols) /\ Len(s) = m /\ t \in Seq(Symbols) /\ Len(t) = n
  BY DEF Text
<1>2. s \o t \in Seq(Symbols)
  BY <1>1, ConcatProperties
<1>3. Len(s \o t) = m + n
  BY <1>1, ConcatProperties
<1>4. \A i \in 1..(m + n) : (s \o t)[i] = IF i <= m THEN s[i] ELSE t[i - m]
  BY <1>1, ConcatProperties
<1>5. PICK u : u = s \o t
  OBVIOUS
<1>6. \A i \in 1..(m + n) : u[i] = IF i <= m THEN s[i] ELSE t[i - m]
  BY Zenon, <1>4, <1>5
<1>7. \A i \in 1..m : u[i] = s[i]
  BY <1>6
<1>8. ASSUME NEW i \in 1..n PROVE u[m + i] = t[i]
  <2>1. m + i \in 1..(m + n) /\ ~(m + i <= m) /\ m + i - m = i
    OBVIOUS
  <2> QED BY <1>6, <2>1
<1> QED BY Zenon, <1>2, <1>3, <1>5, <1>7, <1>8 DEF Text, Joined

\* What follows the first text is the second.
LEMMA TextFrom ==
  ASSUME NEW s, NEW t, NEW m \in Nat, NEW n \in Nat, Text(s, m), Text(t, n)
  PROVE  SubSeq(s \o t, m + 1, m + n) = t /\ SubSeq(s \o t, 1, m) = s
<1>1. s \in Seq(Symbols) /\ Len(s) = m /\ t \in Seq(Symbols) /\ Len(t) = n
  BY DEF Text
<1>2. PICK u : u = s \o t
  OBVIOUS
<1>3. (\A i \in 1..m : u[i] = s[i]) /\ (\A i \in 1..n : u[m + i] = t[i])
  <2>1. Joined(s \o t, s, t, m, n)
    BY TextConcat
  <2>2. Joined(u, s, t, m, n)
    BY <1>2, <2>1
  <2> QED BY <2>2 DEF Joined
<1>4. \A i \in 1..m : u[i] \in Symbols /\ u[i] = s[i]
  <2>1. \A i \in 1..m : s[i] \in Symbols
    BY <1>1, ElementOfSeq
  <2> QED BY <1>3, <2>1
<1>5. SubSeq(u, 1, m) = s
  <2>1. 1 \in Int /\ m \in Int
    OBVIOUS
  <2>2. /\ SubSeq(u, 1, m) \in Seq(Symbols) /\ Len(SubSeq(u, 1, m)) = (IF 1 <= m THEN m - 1 + 1 ELSE 0)
        /\ \A i \in 1..(m - 1 + 1) : SubSeq(u, 1, m)[i] = u[1 + i - 1]
    BY <1>4, <2>1, SubSeqProperties
  <2>3. Len(SubSeq(u, 1, m)) = m /\ \A i \in 1..m : SubSeq(u, 1, m)[i] = u[i]
    BY <2>2
  <2> QED BY <1>1, <1>4, <2>2, <2>3, SeqEqual
<1>6. SubSeq(u, m + 1, m + n) = t
  <2>1. m + 1 \in Int /\ m + n \in Int
    OBVIOUS
  <2>2. ASSUME NEW i \in (m + 1)..(m + n) PROVE u[i] \in Symbols
    <3>1. i - m \in 1..n /\ m + (i - m) = i
      OBVIOUS
    <3>2. u[i] = t[i - m]
      BY <1>3, <3>1
    <3> QED BY <1>1, <3>1, <3>2, ElementOfSeq
  <2>3. PICK v : v = SubSeq(u, m + 1, m + n)
    OBVIOUS
  <2>4. /\ v \in Seq(Symbols) /\ Len(v) = (IF m + 1 <= m + n THEN m + n - (m + 1) + 1 ELSE 0)
        /\ \A i \in 1..(m + n - (m + 1) + 1) : v[i] = u[m + 1 + i - 1]
    BY <2>1, <2>2, <2>3, SubSeqProperties
  <2>5. Len(v) = n /\ \A i \in 1..n : v[i] = u[m + 1 + i - 1]
    BY <2>4
  <2>6. \A i \in 1..n : m + 1 + i - 1 = m + i
    OBVIOUS
  <2>7. \A i \in 1..n : v[i] = t[i]
    BY <1>3, <2>5, <2>6
  <2> QED BY <1>1, <2>3, <2>4, <2>5, <2>7, SeqEqual
<1> QED BY <1>2, <1>5, <1>6

\* Texts of one and two symbols, and of none.
LEMMA ShortTexts ==
  /\ Text(<<>>, 0)
  /\ \A x \in Symbols : Text(<<x>>, 1) /\ <<x>>[1] = x
  /\ \A x, y \in Symbols : Text(<<x, y>>, 2) /\ <<x, y>>[1] = x /\ <<x, y>>[2] = y
BY DEF Text

\* w is the packet of header h and a body of n symbols: it can be taken apart again.
PacketOK(w, h, body, n) ==
  /\ Text(w, 1 + Count(n) + n)
  /\ w[1] = h
  /\ SubSeq(w, 2 + Count(n), 1 + Count(n) + n) = body
  /\ Count(n) <= 4 => DecodeRemainingLength(Tail(w)) = [ok |-> TRUE, length |-> n, bytes |-> Count(n)]

\* Every packet has this shape.
LEMMA PacketShape ==
  ASSUME NEW h \in Symbols, NEW body, NEW n \in Nat, Text(body, n)
  PROVE  PacketOK(<<h>> \o WriteLen(n) \o body, h, body, n)
<1>1. PICK c \in Nat : c = Count(n) /\ c >= 1
  BY Counts
<1>2. PICK digits : digits = WriteLen(n)
  OBVIOUS
<1>3. Text(digits, c)
  <2>1. digits \in Seq(0..(ByteValues - 1)) /\ Len(digits) = c
    BY <1>1, <1>2, Digits DEF Count
  <2>2. 0..(ByteValues - 1) \subseteq Symbols
    BY RadixAssumption DEF Symbols, ByteValues
  <2>3. digits \in Seq(Symbols)
    BY <2>1, <2>2, SeqMonotonic
  <2> QED BY <2>1, <2>3 DEF Text
<1>4. Text(<<h>>, 1) /\ <<h>>[1] = h
  BY ShortTexts
<1>5. PICK v : v = <<h>> \o digits
  OBVIOUS
<1>6. Joined(v, <<h>>, digits, 1, c)
  <2>1. 1 \in Nat
    OBVIOUS
  <2>2. Joined(<<h>> \o digits, <<h>>, digits, 1, c)
    BY <1>3, <1>4, <2>1, TextConcat
  <2> QED BY <1>5, <2>2
<1>7. PICK w : w = v \o body
  OBVIOUS
<1>8. PICK k \in Nat : k = 1 + c
  OBVIOUS
<1>9. Text(v, k) /\ v[1] = h /\ \A i \in 1..c : v[1 + i] = digits[i]
  <2>1. 1 \in 1..1
    OBVIOUS
  <2> QED BY <1>4, <1>6, <1>8, <2>1 DEF Joined
<1>10. Joined(w, v, body, k, n)
  <2>1. Joined(v \o body, v, body, k, n)
    BY <1>9, TextConcat
  <2> QED BY <1>7, <2>1
<1>11. Text(w, k + n) /\ \A i \in 1..k : w[i] = v[i]
  BY <1>10 DEF Joined
<1>12. SubSeq(w, k + 1, k + n) = body
  <2>1. SubSeq(v \o body, k + 1, k + n) = body
    BY SMTT(30), <1>9, TextFrom
  <2> QED BY <1>7, <2>1
<1>13. w[1] = h
  <2>1. 1 \in 1..k
    BY <1>8
  <2> QED BY <1>9, <1>11, <2>1
<1>14. ASSUME c <= 4
       PROVE  DecodeRemainingLength(Tail(w)) = [ok |-> TRUE, length |-> n, bytes |-> c]
  <2>1. w \in Seq(Symbols) /\ Len(w) = k + n
    BY <1>11 DEF Text
  <2>2. w # <<>>
    <3>1. Len(w) # 0
      BY <1>8, <2>1
    <3> QED BY <3>1
  <2>3. /\ Tail(w) \in Seq(Symbols) /\ Len(Tail(w)) = Len(w) - 1
        /\ \A i \in 1..Len(Tail(w)) : Tail(w)[i] = w[i + 1]
    BY <2>1, <2>2, HeadTailProperties
  <2>4. PICK t : t = Tail(w)
    OBVIOUS
  <2>5. Len(t) \in Nat /\ Len(t) = c + n
    <3>1. k + n - 1 = c + n
      BY <1>8
    <3> QED BY <2>1, <2>3, <2>4, <3>1
  <2>6. ASSUME NEW i \in 1..c PROVE t[i] = WriteLen(n)[i]
    <3>1. i \in 1..Len(t)
      BY <2>5
    <3>2. t[i] = w[i + 1]
      BY <2>3, <2>4, <3>1
    <3>3. i + 1 \in 1..k /\ i + 1 = 1 + i
      BY <1>8
    <3>4. w[i + 1] = v[1 + i]
      BY <1>11, <3>3
    <3> QED BY <1>2, <1>9, <3>2, <3>4
  <2>7. Count(n) <= Len(t) /\ Count(n) <= 4
    BY <1>1, <1>14, <2>5
  <2>8. \A i \in 1..Count(n) : t[i] = WriteLen(n)[i]
    BY <1>1, <2>6
  <2>9. DecodeRemainingLength(t) = [ok |-> TRUE, length |-> n, bytes |-> Count(n)]
    BY <2>5, <2>7, <2>8, Decodes
  <2> QED BY <1>1, <2>4, <2>9
<1>15. 2 + c = k + 1 /\ 1 + c + n = k + n
  BY <1>8
<1>16. PacketOK(w, h, body, n)
  BY <1>1, <1>11, <1>12, <1>13, <1>14, <1>15 DEF PacketOK
<1> QED BY <1>2, <1>5, <1>7, <1>16

\* Two bytes for a number, and the number again.
LEMMA Uint16Text ==
  ASSUME NEW n \in Nat
  PROVE  /\ Text(WriteUint16(n), 2)
         /\ \A buf : buf[1] = WriteUint16(n)[1] /\ buf[2] = WriteUint16(n)[2] => ReadUint16(buf) = n
<1>1. ByteValues \in Nat /\ ByteValues > 0
  BY RadixAssumption DEF ByteValues
<1>2. PICK q \in Nat, r \in Nat : q = n \div ByteValues /\ r = n % ByteValues /\ n = ByteValues * q + r
  BY <1>1
<1>3. WriteUint16(n) = <<q, r>>
  BY <1>2 DEF WriteUint16
<1>4. Text(<<q, r>>, 2) /\ <<q, r>>[1] = q /\ <<q, r>>[2] = r
  BY ShortTexts DEF Symbols
<1>5. r + ByteValues * q = n
  <2>1. ByteValues * q \in Nat
    BY <1>1
  <2> QED BY <1>2, <2>1
<1>6. ASSUME NEW buf, buf[1] = WriteUint16(n)[1], buf[2] = WriteUint16(n)[2] PROVE ReadUint16(buf) = n
  BY <1>3, <1>4, <1>5, <1>6 DEF ReadUint16
<1> QED BY <1>3, <1>4, <1>6

\* A string of bytes as a text.
LEMMA StringText ==
  ASSUME NEW s \in Seq(Byte)
  PROVE  Text(s, Len(s)) /\ Len(s) \in Nat
<1>1. Byte \subseteq Symbols
  BY RadixAssumption DEF Byte, ByteValues, Symbols
<1> QED BY <1>1, SeqMonotonic DEF Text

\* A string in a packet has its length before it.
LEMMA WriteStringText ==
  ASSUME NEW s \in Seq(Symbols)
  PROVE  Text(WriteString(s), 2 + Len(s)) /\ Joined(WriteString(s), WriteUint16(Len(s)), s, 2, Len(s))
<1>1. PICK n \in Nat : n = Len(s)
  OBVIOUS
<1>2. Text(s, n) /\ Text(WriteUint16(n), 2)
  BY <1>1, Uint16Text DEF Text
<1>3. 2 \in Nat
  OBVIOUS
<1>4. Joined(WriteUint16(n) \o s, WriteUint16(n), s, 2, n)
  BY <1>2, <1>3, TextConcat
<1>5. Text(WriteUint16(n) \o s, 2 + n)
  BY <1>4 DEF Joined
<1> QED BY <1>1, <1>4, <1>5 DEF WriteString

\* f[i] is what the first i functions of step make of a.
Iterated(f, T, a, n, step) ==
  /\ f \in [0..n -> T]
  /\ f[0] = a
  /\ \A i \in 1..n : f[i] = step[i][f[i - 1]]

\* Applying one function after the other.
LEMMA Iterates ==
  ASSUME NEW T, NEW a \in T, NEW n \in Nat, NEW step \in [1..n -> [T -> T]]
  PROVE  \E f : Iterated(f, T, a, n, step)
<1> DEFINE Bad == {m \in 0..n : ~\E f : Iterated(f, T, a, m, step)}
<1> SUFFICES ASSUME Bad # {} PROVE FALSE
  <2>1. n \in 0..n
    OBVIOUS
  <2> QED BY <2>1
<1>1. PICK m \in Bad : \A k \in Bad : m <= k
  <2>1. Bad \subseteq Nat
    OBVIOUS
  <2> HIDE DEF Bad
  <2> QED BY <2>1, LeastNumber
<1>2. m \in 0..n /\ m \in Nat /\ ~\E f : Iterated(f, T, a, m, step)
  BY <1>1
<1>3. CASE m = 0
  <2>1. PICK f : f = [i \in 0..0 |-> a]
    OBVIOUS
  <2>2. Iterated(f, T, a, 0, step)
    BY <2>1 DEF Iterated
  <2> QED BY <1>2, <1>3, <2>2
<1>4. CASE m # 0
  <2>1. m - 1 \in 0..n /\ m - 1 \in Nat /\ m - 1 \notin Bad
    BY <1>1, <1>2, <1>4
  <2>2. PICK f : Iterated(f, T, a, m - 1, step)
    BY <2>1
  <2>3. PICK b \in T : b = step[m][f[m - 1]]
    <3>1. m \in 1..n /\ m - 1 \in 0..(m - 1)
      BY <1>2, <1>4
    <3>2. step[m] \in [T -> T] /\ f[m - 1] \in T
      BY <2>2, <3>1 DEF Iterated
    <3> QED BY <3>2
  <2>4. PICK g : g = [i \in 0..m |-> IF i = m THEN b ELSE f[i]]
    OBVIOUS
  <2>5. \A i \in 0..m : i # m => i \in 0..(m - 1)
    BY <1>2, <1>4
  <2>6. g \in [0..m -> T]
    BY <2>2, <2>4, <2>5 DEF Iterated
  <2>7. \A i \in 0..(m - 1) : g[i] = f[i]
    <3>1. \A i \in 0..(m - 1) : i \in 0..m /\ i # m
      BY <1>2, <1>4
    <3> QED BY <2>4, <3>1
  <2>8. ASSUME NEW i \in 1..m PROVE g[i] = step[i][g[i - 1]]
    <3>1. i - 1 \in 0..(m - 1)
      BY <1>2
    <3>2. g[i - 1] = f[i - 1]
      BY <2>7, <3>1
    <3>3. CASE i = m
      <4>1. g[m] = b
        BY <1>2, <2>4
      <4> QED BY <2>3, <3>2, <3>3, <4>1
    <3>4. CASE i # m
      <4>1. i \in 1..(m - 1) /\ i \in 0..(m - 1)
        BY <1>2, <3>4
      <4>2. f[i] = step[i][f[i - 1]]
        BY <2>2, <4>1 DEF Iterated
      <4> QED BY <2>7, <3>2, <4>1, <4>2
    <3> QED BY <3>3, <3>4
  <2>9. g[0] = a
    <3>1. 0 \in 0..(m - 1)
      BY <1>2, <1>4
    <3> QED BY <2>2, <2>7, <3>1 DEF Iterated
  <2>10. Iterated(g, T, a, m, step)
    BY <2>6, <2>8, <2>9 DEF Iterated
  <2> QED BY <1>2, <2>10
<1> QED BY <1>3, <1>4

\* Sum(f) and Write(f) are the equations that define SumLengths and Fields.
SumTo(f, strings, extra) ==
  f = [i \in 0..Len(strings) |-> IF i = 0 THEN 0 ELSE f[i - 1] + Len(strings[i]) + extra]

FieldsTo(f, strings, end) ==
  f = [i \in 0..Len(strings) |-> IF i = 0 THEN <<>> ELSE f[i - 1] \o (WriteString(strings[i]) \o end)]

\* The equation of SumLengths has a solution.
LEMMA SumSolved ==
  ASSUME NEW strings \in Seq(Strings), NEW extra \in Nat
  PROVE  \E f : SumTo(f, strings, extra) /\ SumLengths(strings, extra) = f[Len(strings)]
<1>1. PICK n \in Nat : n = Len(strings)
  OBVIOUS
<1>2. \A i \in 1..n : Len(strings[i]) \in Nat
  BY <1>1, ElementOfSeq DEF Strings
<1>3. PICK step : step = [i \in 1..n |-> [x \in Nat |-> x + Len(strings[i]) + extra]]
  OBVIOUS
<1>4. step \in [1..n -> [Nat -> Nat]]
  <2>1. ASSUME NEW i \in 1..n PROVE [x \in Nat |-> x + Len(strings[i]) + extra] \in [Nat -> Nat]
    <3>1. PICK l \in Nat : l = Len(strings[i])
      BY <1>2
    <3>2. \A x \in Nat : x + l + extra \in Nat
      OBVIOUS
    <3> QED BY <3>1, <3>2
  <2> QED BY <1>3, <2>1
<1>5. PICK f \in [0..n -> Nat] : f[0] = 0 /\ \A i \in 1..n : f[i] = step[i][f[i - 1]]
  <2>1. 0 \in Nat
    OBVIOUS
  <2>2. \E f : Iterated(f, Nat, 0, n, step)
    BY <1>4, <2>1, Iterates
  <2> QED BY <2>2 DEF Iterated
<1>6. ASSUME NEW i \in 0..n PROVE f[i] = IF i = 0 THEN 0 ELSE f[i - 1] + Len(strings[i]) + extra
  <2>1. CASE i = 0
    BY <1>5, <2>1
  <2>2. CASE i # 0
    <3>1. i \in 1..n /\ i - 1 \in 0..n
      BY <2>2
    <3>2. PICK x \in Nat : x = f[i - 1]
      BY <1>5, <3>1
    <3>3. f[i] = step[i][x]
      BY <1>5, <3>1, <3>2
    <3>4. step[i][x] = x + Len(strings[i]) + extra
      BY <1>3, <3>1
    <3> QED BY <2>2, <3>2, <3>3, <3>4
  <2> QED BY <2>1, <2>2
<1>7. SumTo(f, strings, extra)
  <2>1. f = [i \in 0..n |-> f[i]]
    OBVIOUS
  <2>2. f = [i \in 0..n |-> IF i = 0 THEN 0 ELSE f[i - 1] + Len(strings[i]) + extra]
    BY <1>6, <2>1
  <2> QED BY <1>1, <2>2 DEF SumTo
<1>8. PICK g : g = CHOOSE e : SumTo(e, strings, extra)
  OBVIOUS
<1>9. SumTo(g, strings, extra)
  BY <1>7, <1>8
<1>10. SumLengths(strings, extra) = g[Len(strings)]
  BY <1>8 DEF SumLengths, SumTo
<1> QED BY <1>9, <1>10

\* The equation of Fields has a solution.
LEMMA FieldsSolved ==
  ASSUME NEW strings \in Seq(Strings), NEW end \in Seq(Symbols)
  PROVE  \E f : FieldsTo(f, strings, end) /\ Fields(strings, end) = f[Len(strings)]
<1>1. PICK n \in Nat : n = Len(strings)
  OBVIOUS
<1>2. PICK field : field = [i \in 1..n |-> WriteString(strings[i]) \o end]
  OBVIOUS
<1>3. ASSUME NEW i \in 1..n PROVE field[i] \in Seq(Symbols)
  <2>1. PICK s \in Seq(Byte) : s = strings[i]
    BY <1>1, ElementOfSeq DEF Strings
  <2>2. s \in Seq(Symbols)
    BY StringText DEF Text
  <2>3. WriteString(s) \in Seq(Symbols)
    BY <2>2, WriteStringText DEF Text
  <2>4. WriteString(s) \o end \in Seq(Symbols)
    BY <2>3, ConcatProperties
  <2> QED BY <1>2, <2>1, <2>4
<1>4. PICK step : step = [i \in 1..n |-> [x \in Seq(Symbols) |-> x \o field[i]]]
  OBVIOUS
<1>5. step \in [1..n -> [Seq(Symbols) -> Seq(Symbols)]]
  <2>1. ASSUME NEW i \in 1..n PROVE [x \in Seq(Symbols) |-> x \o field[i]] \in [Seq(Symbols) -> Seq(Symbols)]
    <3>1. ASSUME NEW x \in Seq(Symbols) PROVE x \o field[i] \in Seq(Symbols)
      BY <1>3, ConcatProperties
    <3> QED BY <3>1
  <2> QED BY <1>4, <2>1
<1>6. PICK f \in [0..n -> Seq(Symbols)] : f[0] = <<>> /\ \A i \in 1..n : f[i] = step[i][f[i - 1]]
  <2>1. <<>> \in Seq(Symbols)
    OBVIOUS
  <2>2. \E f : Iterated(f, Seq(Symbols), <<>>, n, step)
    BY <1>5, <2>1, Iterates
  <2> QED BY <2>2 DEF Iterated
<1>7. ASSUME NEW i \in 0..n
      PROVE  f[i] = IF i = 0 THEN <<>> ELSE f[i - 1] \o (WriteString(strings[i]) \o end)
  <2>1. CASE i = 0
    BY <1>6, <2>1
  <2>2. CASE i # 0
    <3>1. i \in 1..n /\ i - 1 \in 0..n
      BY <2>2
    <3>2. PICK x \in Seq(Symbols) : x = f[i - 1]
      BY <1>6, <3>1
    <3>3. f[i] = step[i][x]
      BY <1>6, <3>1, <3>2
    <3>4. step[i][x] = x \o field[i]
      BY <1>4, <3>1
    <3>5. field[i] = WriteString(strings[i]) \o end
      BY <1>2, <3>1
    <3> QED BY <2>2, <3>2, <3>3, <3>4, <3>5
  <2> QED BY <2>1, <2>2
<1>8. FieldsTo(f, strings, end)
  <2>1. f = [i \in 0..n |-> f[i]]
    OBVIOUS
  <2>2. f = [i \in 0..n |-> IF i = 0 THEN <<>> ELSE f[i - 1] \o (WriteString(strings[i]) \o end)]
    BY <1>7, <2>1
  <2> QED BY <1>1, <2>2 DEF FieldsTo
<1>9. PICK g : g = CHOOSE e : FieldsTo(e, strings, end)
  OBVIOUS
<1>10. FieldsTo(g, strings, end)
  BY <1>8, <1>9
<1>11. Fields(strings, end) = g[Len(strings)]
  BY <1>9 DEF Fields, FieldsTo
<1> QED BY <1>10, <1>11

\* The fields have the length that is computed for them beforehand.
LEMMA FieldsLength ==
  ASSUME NEW strings \in Seq(Strings), NEW end, NEW e \in Nat, Text(end, e)
  PROVE  SumLengths(strings, 2 + e) \in Nat /\ Text(Fields(strings, end), SumLengths(strings, 2 + e))
<1>1. PICK n \in Nat : n = Len(strings)
  OBVIOUS
<1>2. end \in Seq(Symbols) /\ 2 + e \in Nat
  BY DEF Text
<1>3. PICK f : FieldsTo(f, strings, end) /\ Fields(strings, end) = f[n]
  BY <1>1, <1>2, FieldsSolved
<1>4. PICK g : SumTo(g, strings, 2 + e) /\ SumLengths(strings, 2 + e) = g[n]
  BY <1>1, <1>2, SumSolved
<1>5. ASSUME NEW i \in 0..n
      PROVE  /\ f[i] = IF i = 0 THEN <<>> ELSE f[i - 1] \o (WriteString(strings[i]) \o end)
             /\ g[i] = IF i = 0 THEN 0 ELSE g[i - 1] + Len(strings[i]) + (2 + e)
  <2>1. f[i] = IF i = 0 THEN <<>> ELSE f[i - 1] \o (WriteString(strings[i]) \o end)
    BY <1>1, <1>3 DEF FieldsTo
  <2>2. g[i] = IF i = 0 THEN 0 ELSE g[i - 1] + Len(strings[i]) + (2 + e)
    BY <1>1, <1>4 DEF SumTo
  <2> QED BY <2>1, <2>2
<1> DEFINE Bad == {i \in 0..n : ~(g[i] \in Nat /\ Text(f[i], g[i]))}
<1>6. ASSUME Bad # {} PROVE FALSE
  <2>1. PICK i \in Bad : \A j \in Bad : i <= j
    <3>1. Bad \subseteq Nat
      OBVIOUS
    <3> HIDE DEF Bad
    <3> QED BY <1>6, <3>1, LeastNumber
  <2>2. i \in 0..n /\ ~(g[i] \in Nat /\ Text(f[i], g[i]))
    BY <2>1
  <2>3. CASE i = 0
    <3>1. f[i] = <<>> /\ g[i] = 0
      BY <1>5, <2>2, <2>3
    <3> QED BY <2>2, <3>1, ShortTexts
  <2>4. CASE i # 0
    <3>1. i \in 1..n /\ i - 1 \in 0..n /\ i - 1 < i
      BY <2>2, <2>4
    <3>2. i - 1 \notin Bad
      BY <2>1, <3>1
    <3>3. g[i - 1] \in Nat /\ Text(f[i - 1], g[i - 1])
      BY <3>1, <3>2
    <3>4. PICK s \in Seq(Byte) : s = strings[i]
      BY <1>1, <3>1, ElementOfSeq DEF Strings
    <3>5. PICK l \in Nat : l = Len(s)
      BY StringText
    <3>6. Text(WriteString(s), 2 + l) /\ 2 + l \in Nat
      <4>1. s \in Seq(Symbols)
        BY StringText DEF Text
      <4> QED BY <3>5, <4>1, WriteStringText
    <3>7. Text(WriteString(s) \o end, (2 + l) + e) /\ (2 + l) + e \in Nat
      BY <3>6, TextConcat DEF Joined
    <3>8. PICK m \in Nat : m = g[i - 1]
      BY <3>3
    <3>9. Text(f[i - 1] \o (WriteString(s) \o end), m + ((2 + l) + e))
      BY <3>3, <3>7, <3>8, TextConcat DEF Joined
    <3>10. f[i] = f[i - 1] \o (WriteString(s) \o end) /\ g[i] = m + l + (2 + e)
      BY <1>5, <2>2, <2>4, <3>4, <3>5, <3>8
    <3>11. m + ((2 + l) + e) = m + l + (2 + e) /\ m + l + (2 + e) \in Nat
      OBVIOUS
    <3> QED BY <2>2, <3>9, <3>10, <3>11
  <2> QED BY <2>3, <2>4
<1>7. n \in 0..n
  OBVIOUS
<1>8. g[n] \in Nat /\ Text(f[n], g[n])
  BY <1>6, <1>7
<1> QED BY <1>3, <1>4, <1>8

\* A serializer writes a packet of this header and body if the estimate of its length fits, or,
\* if the packet is one of two or four bytes, into every buffer.
Shaped(p, h, body, n) ==
  /\ h \in Headers
  /\ Text(body, n)
  /\ \/ \A size \in Nat : Serialize(p, size) = Packet(h, n, body, size)
     \/ n <= 2 /\ \A size \in Nat : size >= 4 => Serialize(p, size) = <<h>> \o WriteLen(n) \o body

\* What the parameters of a serializer are.
LEMMA RequestCases ==
  ASSUME NEW p \in Requests
  PROVE  \/ /\ p \in [type : {"PUBLISH"}, qos : {0, 1}, dup : {0, 1}, retain : {0, 1}, topic : Strings,
                      id : Uint16, payload : Seq(Byte)]
            /\ p.qos = 0 => p.id = 0
         \/ p \in [type : {"SUBSCRIBE", "UNSUBSCRIBE"}, id : Uint16, topics : Seq(Strings), qos : {0, 1}]
         \/ p \in [type : {"CONNECT"}, keepAlive : Uint16, clientID : Strings, will : Seq(Strings),
                   username : Seq(Strings), password : Seq(Strings)]
         \/ p \in [type : {"PUBACK"}, dup : {0, 1}, id : Uint16]
         \/ p \in [type : {"PINGREQ", "DISCONNECT"}]
BY RequestsAssumption DEF AllRequests

\* The body of a PUBLISH: the topic, the identifier if there is one, and the payload.
PublishBody(p) ==
  WriteString(p.topic) \o (IF p.qos > 0 THEN WriteUint16(p.id) ELSE <<>>) \o p.payload

\* A PUBLISH.
LEMMA PublishShaped ==
  ASSUME NEW p \in [type : {"PUBLISH"}, qos : {0, 1}, dup : {0, 1}, retain : {0, 1}, topic : Strings,
                    id : Uint16, payload : Seq(Byte)]
  PROVE  \E n \in Nat : Shaped(p, Header("PUBLISH", p.qos, p.dup, p.retain), PublishBody(p), n)
<1>1. PICK h : h = Header("PUBLISH", p.qos, p.dup, p.retain)
  OBVIOUS
<1>2. h \in Headers
  BY <1>1 DEF Header, Headers
<1>3. PICK t \in Nat, l \in Nat : t = Len(p.topic) /\ l = Len(p.payload) /\ Text(p.topic, t) /\ Text(p.payload, l)
  BY StringText DEF Strings
<1>4. PICK k \in {0, 2} : k = IF p.qos > 0 THEN 2 ELSE 0
  OBVIOUS
<1>5. PICK id : id = IF p.qos > 0 THEN WriteUint16(p.id) ELSE <<>>
  OBVIOUS
<1>6. Text(id, k) /\ k \in Nat
  <2>1. p.id \in Nat
    BY RadixAssumption DEF Uint16, ByteValues
  <2>2. Text(WriteUint16(p.id), 2)
    BY <2>1, Uint16Text
  <2> QED BY <1>4, <1>5, <2>2, ShortTexts
<1>7. Text(WriteString(p.topic), 2 + t) /\ 2 + t \in Nat
  BY <1>3, WriteStringText DEF Text
<1>8. Text(WriteString(p.topic) \o id, (2 + t) + k) /\ (2 + t) + k \in Nat
  BY <1>6, <1>7, TextConcat DEF Joined
<1>9. Text(WriteString(p.topic) \o id \o p.payload, ((2 + t) + k) + l)
  BY <1>3, <1>8, TextConcat DEF Joined
<1>10. PICK n \in Nat : n = t + l + 2 + k
  BY <1>4
<1>11. Text(PublishBody(p), n)
  <2>1. ((2 + t) + k) + l = n
    BY <1>4, <1>10
  <2> QED BY <1>5, <1>9, <2>1 DEF PublishBody
<1>12. \A size \in Nat : Serialize(p, size) = Packet(h, n, PublishBody(p), size)
  <2>1. n = Len(p.topic) + Len(p.payload) + 2 + (IF p.qos > 0 THEN 2 ELSE 0)
    BY <1>3, <1>4, <1>10
  <2>2. p.type = "PUBLISH"
    OBVIOUS
  <2> QED BY <1>1, <2>1, <2>2 DEF Serialize, SerializePublish, PublishBody
<1> QED BY <1>1, <1>2, <1>11, <1>12 DEF Shaped

\* A SUBSCRIBE or an UNSUBSCRIBE.
LEMMA SubscribeShaped ==
  ASSUME NEW p \in [type : {"SUBSCRIBE", "UNSUBSCRIBE"}, id : Uint16, topics : Seq(Strings), qos : {0, 1}]
  PROVE  \E h, body : \E n \in Nat : Shaped(p, h, body, n)
<1>1. PICK h : h = Header(p.type, 1, 0, 0)
  OBVIOUS
<1>2. h \in Headers
  BY <1>1 DEF Header, Headers
<1>3. Text(WriteUint16(p.id), 2)
  <2>1. p.id \in Nat
    BY RadixAssumption DEF Uint16, ByteValues
  <2> QED BY <2>1, Uint16Text
<1>4. PICK end, e : /\ end = IF p.type = "SUBSCRIBE" THEN <<p.qos>> ELSE <<>>
                    /\ e = IF p.type = "SUBSCRIBE" THEN 1 ELSE 0
  OBVIOUS
<1>5. Text(end, e) /\ e \in Nat
  <2>1. p.qos \in Symbols
    BY DEF Symbols
  <2>2. Text(<<p.qos>>, 1)
    BY <2>1, ShortTexts
  <2> QED BY <1>4, <2>2, ShortTexts
<1>6. PICK l \in Nat : l = SumLengths(p.topics, 2 + e) /\ Text(Fields(p.topics, end), l)
  BY <1>5, FieldsLength
<1>7. PICK body : body = WriteUint16(p.id) \o Fields(p.topics, end)
  OBVIOUS
<1>8. Text(body, 2 + l) /\ 2 + l \in Nat
  <2>1. 2 \in Nat
    OBVIOUS
  <2>2. Joined(body, WriteUint16(p.id), Fields(p.topics, end), 2, l)
    BY <1>3, <1>6, <1>7, <2>1, TextConcat
  <2> QED BY <2>2 DEF Joined
<1>9. ASSUME NEW size \in Nat PROVE Serialize(p, size) = Packet(h, 2 + l, body, size)
  <2>1. CASE p.type = "SUBSCRIBE"
    <3>1. end = <<p.qos>> /\ l = SumLengths(p.topics, 2 + 1) /\ h = Header("SUBSCRIBE", 1, 0, 0)
      BY <1>1, <1>4, <1>6, <2>1
    <3>2. Serialize(p, size) = SerializeSubscribe(p, size)
      BY <2>1 DEF Serialize
    <3> QED BY <1>7, <3>1, <3>2 DEF SerializeSubscribe
  <2>2. CASE p.type = "UNSUBSCRIBE"
    <3>1. 2 + 0 = 2
      OBVIOUS
    <3>2. end = <<>> /\ l = SumLengths(p.topics, 2) /\ h = Header("UNSUBSCRIBE", 1, 0, 0)
      BY <1>1, <1>4, <1>6, <2>2, <3>1
    <3>3. Serialize(p, size) = SerializeUnsubscribe(p, size)
      BY <2>2 DEF Serialize
    <3> QED BY <1>7, <3>2, <3>3 DEF SerializeUnsubscribe
  <2> QED BY <2>1, <2>2
<1>10. Shaped(p, h, body, 2 + l)
  BY <1>2, <1>8, <1>9 DEF Shaped
<1> QED BY <1>8, <1>10

\* A CONNECT.
LEMMA ConnectShaped ==
  ASSUME NEW p \in [type : {"CONNECT"}, keepAlive : Uint16, clientID : Strings, will : Seq(Strings),
                    username : Seq(Strings), password : Seq(Strings)]
  PROVE  \E h, body : \E n \in Nat : Shaped(p, h, body, n)
<1>1. PICK h : h = Header("CONNECT", 0, 0, 0)
  OBVIOUS
<1>2. h \in Headers
  BY <1>1 DEF Header, Headers
<1>3. PICK flags \in Symbols :
        flags = [will |-> p.will # <<>>, username |-> p.username # <<>>, password |-> p.password # <<>>]
  BY DEF Flags, Symbols
<1>4. PICK a : a = WriteString(<<"M", "Q", "T", "T">>)
  OBVIOUS
<1>5. Text(a, 6)
  <2>1. <<"M", "Q", "T", "T">> \in Seq(Symbols) /\ Len(<<"M", "Q", "T", "T">>) = 4
    BY DEF Symbols
  <2>2. Text(a, 2 + 4)
    BY <1>4, <2>1, WriteStringText
  <2> QED BY <2>2
<1>6. PICK b : b = a \o <<4, flags>>
  OBVIOUS
<1>7. Text(b, 8)
  <2>1. 4 \in Symbols
    BY DEF Symbols
  <2>2. Text(<<4, flags>>, 2)
    BY <2>1, ShortTexts
  <2>3. Text(a \o <<4, flags>>, 6 + 2)
    BY <1>5, <2>2, TextConcat DEF Joined
  <2> QED BY <1>6, <2>3
<1>8. PICK c : c = b \o WriteUint16(p.keepAlive)
  OBVIOUS
<1>9. Text(c, 10)
  <2>1. p.keepAlive \in Nat
    BY RadixAssumption DEF Uint16, ByteValues
  <2>2. Text(WriteUint16(p.keepAlive), 2)
    BY <2>1, Uint16Text
  <2>3. Text(b \o WriteUint16(p.keepAlive), 8 + 2)
    BY <1>7, <2>2, TextConcat DEF Joined
  <2> QED BY <1>8, <2>3
<1>10. PICK l \in Nat : l = Len(p.clientID) /\ Text(WriteString(p.clientID), 2 + l)
  <2>1. Text(p.clientID, Len(p.clientID)) /\ Len(p.clientID) \in Nat
    BY StringText DEF Strings
  <2> QED BY <2>1, WriteStringText DEF Text
<1>11. PICK d : d = c \o WriteString(p.clientID)
  OBVIOUS
<1>12. Text(d, 12 + l) /\ 12 + l \in Nat
  <2>1. 10 \in Nat /\ 2 + l \in Nat /\ 10 + (2 + l) = 12 + l
    OBVIOUS
  <2>2. Text(c \o WriteString(p.clientID), 10 + (2 + l))
    BY <1>9, <1>10, <2>1, TextConcat DEF Joined
  <2> QED BY <1>11, <2>1, <2>2
<1>13. PICK x \in Nat, y \in Nat, z \in Nat :
         /\ x = SumLengths(p.will, 2) /\ Text(Fields(p.will, <<>>), x)
         /\ y = SumLengths(p.username, 2) /\ Text(Fields(p.username, <<>>), y)
         /\ z = SumLengths(p.password, 2) /\ Text(Fields(p.password, <<>>), z)
  <2>1. Text(<<>>, 0) /\ 0 \in Nat /\ 2 + 0 = 2
    BY ShortTexts
  <2>2. ASSUME NEW ss \in Seq(Strings) PROVE SumLengths(ss, 2) \in Nat /\ Text(Fields(ss, <<>>), SumLengths(ss, 2))
    <3>1. SumLengths(ss, 2 + 0) \in Nat /\ Text(Fields(ss, <<>>), SumLengths(ss, 2 + 0))
      BY <2>1, FieldsLength
    <3> QED BY <2>1, <3>1
  <2>3. p.will \in Seq(Strings) /\ p.username \in Seq(Strings) /\ p.password \in Seq(Strings)
    OBVIOUS
  <2> QED BY <2>2, <2>3
<1>14. PICK e : e = d \o Fields(p.will, <<>>)
  OBVIOUS
<1>15. Text(e, (12 + l) + x) /\ (12 + l) + x \in Nat
  BY <1>12, <1>13, <1>14, TextConcat DEF Joined
<1>16. PICK f : f = e \o Fields(p.username, <<>>)
  OBVIOUS
<1>17. Text(f, ((12 + l) + x) + y) /\ ((12 + l) + x) + y \in Nat
  BY <1>13, <1>15, <1>16, TextConcat DEF Joined
<1>18. PICK body : body = f \o Fields(p.password, <<>>)
  OBVIOUS
<1>19. Text(body, (((12 + l) + x) + y) + z)
  BY <1>13, <1>17, <1>18, TextConcat DEF Joined
<1>20. PICK n \in Nat : n = 10 + l + 2 + x + y + z
  OBVIOUS
<1>21. Text(body, n)
  <2>1. (((12 + l) + x) + y) + z = n
    BY <1>20
  <2> QED BY <1>19, <2>1
<1>22. n = ConnectLength(p)
  BY <1>10, <1>13, <1>20 DEF ConnectLength
<1>23. ASSUME NEW size \in Nat PROVE Serialize(p, size) = Packet(h, n, body, size)
  <2>1. p.type = "CONNECT"
    OBVIOUS
  <2>2. Serialize(p, size) = SerializeConnect(p, size)
    BY <2>1 DEF Serialize
  <2>3. body = a \o <<4, flags>> \o WriteUint16(p.keepAlive) \o WriteString(p.clientID) \o Fields(p.will, <<>>)
                 \o Fields(p.username, <<>>) \o Fields(p.password, <<>>)
    BY <1>6, <1>8, <1>11, <1>14, <1>16, <1>18
  <2> QED BY <1>1, <1>3, <1>4, <1>22, <2>2, <2>3 DEF SerializeConnect
<1>24. Shaped(p, h, body, n)
  BY <1>2, <1>21, <1>23 DEF Shaped
<1> QED BY <1>24

\* A PUBACK, for which four bytes are asked.
LEMMA AckShaped ==
  ASSUME NEW p \in [type : {"PUBACK"}, dup : {0, 1}, id : Uint16]
  PROVE  Shaped(p, Header("PUBACK", 0, p.dup, 0), WriteUint16(p.id), 2)
<1>1. PICK h : h = Header("PUBACK", 0, p.dup, 0)
  OBVIOUS
<1>2. h \in Headers
  BY <1>1 DEF Header, Headers
<1>3. Text(WriteUint16(p.id), 2)
  <2>1. p.id \in Nat
    BY RadixAssumption DEF Uint16, ByteValues
  <2> QED BY <2>1, Uint16Text
<1>4. ASSUME NEW size \in Nat, size >= 4 PROVE Serialize(p, size) = <<h>> \o WriteLen(2) \o WriteUint16(p.id)
  <2>1. p.type = "PUBACK" /\ ~(size < 4)
    BY <1>4
  <2>2. Serialize(p, size) = SerializeAck(p, size)
    BY <2>1 DEF Serialize
  <2> QED BY <1>1, <2>1, <2>2 DEF SerializeAck
<1> QED BY <1>1, <1>2, <1>3, <1>4 DEF Shaped

\* A PINGREQ or a DISCONNECT, which is only a header.
LEMMA ZeroShaped ==
  ASSUME NEW p \in [type : {"PINGREQ", "DISCONNECT"}]
  PROVE  Shaped(p, Header(p.type, 0, 0, 0), <<>>, 0)
<1>1. PICK h : h = Header(p.type, 0, 0, 0)
  OBVIOUS
<1>2. h \in Headers
  BY <1>1 DEF Header, Headers
<1>3. Text(<<>>, 0)
  BY ShortTexts
<1>4. ASSUME NEW size \in Nat, size >= 4 PROVE Serialize(p, size) = <<h>> \o WriteLen(0) \o <<>>
  <2>1. (p.type = "PINGREQ" \/ p.type = "DISCONNECT") /\ ~(size < 4)
    BY <1>4
  <2>2. Serialize(p, size) = SerializeZero(p, size)
    BY <2>1 DEF Serialize
  <2>3. <<h>> \o WriteLen(0) \in Seq(Symbols)
    <3>1. <<h>> \in Seq(Symbols)
      BY <1>2 DEF Symbols
    <3>2. WriteLen(0) \in Seq(0..(ByteValues - 1))
      BY Digits
    <3>3. 0..(ByteValues - 1) \subseteq Symbols
      BY RadixAssumption DEF Symbols, ByteValues
    <3>4. WriteLen(0) \in Seq(Symbols)
      BY <3>2, <3>3, SeqMonotonic
    <3> QED BY <3>1, <3>4, ConcatProperties
  <2>4. <<h>> \o WriteLen(0) \o <<>> = <<h>> \o WriteLen(0)
    BY <2>3, ConcatEmptySeq
  <2> QED BY <1>1, <2>1, <2>2, <2>4 DEF SerializeZero
<1> QED BY <1>1, <1>2, <1>3, <1>4 DEF Shaped

\* Every request is written as a header, the length of its body and its body.
LEMMA AllShaped ==
  ASSUME NEW p \in Requests
  PROVE  \E h, body : \E n \in Nat : Shaped(p, h, body, n)
<1>1. CASE p \in [type : {"PUBLISH"}, qos : {0, 1}, dup : {0, 1}, retain : {0, 1}, topic : Strings,
                  id : Uint16, payload : Seq(Byte)]
  BY <1>1, PublishShaped
<1>2. CASE p \in [type : {"SUBSCRIBE", "UNSUBSCRIBE"}, id : Uint16, topics : Seq(Strings), qos : {0, 1}]
  BY <1>2, SubscribeShaped
<1>3. CASE p \in [type : {"CONNECT"}, keepAlive : Uint16, clientID : Strings, will : Seq(Strings),
                  username : Seq(Strings), password : Seq(Strings)]
  BY <1>3, ConnectShaped
<1>4. CASE p \in [type : {"PUBACK"}, dup : {0, 1}, id : Uint16]
  <2>1. 2 \in Nat
    OBVIOUS
  <2> QED BY <1>4, <2>1, AckShaped
<1>5. CASE p \in [type : {"PINGREQ", "DISCONNECT"}]
  <2>1. 0 \in Nat
    OBVIOUS
  <2> QED BY <1>5, <2>1, ZeroShaped
<1> QED BY <1>1, <1>2, <1>3, <1>4, <1>5, RequestCases

\* The sizes of the buffers.
LEMMA BufferSizes ==
  ASSUME NEW size \in TxBufLens
  PROVE  size \in Nat /\ size >= 4 /\ size <= Radix * Radix * Radix * Radix
BY SendingAssumption, BuffersAssumption

\* A packet that is written is complete, and has a length of at most four digits.
LEMMA WrittenWhole ==
  ASSUME NEW p, NEW h, NEW body, NEW n \in Nat, Shaped(p, h, body, n),
         NEW size \in TxBufLens, Serialize(p, size) # <<>>
  PROVE  PacketOK(Serialize(p, size), h, body, n) /\ Count(n) <= 4 /\ 1 + Count(n) + n <= size
<1>1. PICK v : v = <<h>> \o WriteLen(n) \o body
  OBVIOUS
<1>2. PacketOK(v, h, body, n)
  <2>1. h \in Symbols /\ Text(body, n)
    BY DEF Shaped, Symbols
  <2> QED BY <1>1, <2>1, PacketShape
<1>3. PICK c \in Nat : c = Count(n)
  BY Counts
<1>4. PICK R4 : R4 = Radix * Radix * Radix * Radix
  OBVIOUS
<1>5. R4 \in Nat
  <2>1. PICK a \in Nat : a = Radix * Radix
    BY RadixAssumption
  <2>2. PICK b \in Nat : b = a * Radix
    BY RadixAssumption
  <2>3. b * Radix \in Nat
    BY RadixAssumption
  <2> QED BY <1>4, <2>1, <2>2, <2>3
<1>6. size \in Nat /\ size >= 4 /\ size <= R4
  BY <1>4, BufferSizes
<1>7. n < R4 => c <= 4
  BY <1>3, <1>4, Counts
<1>8. CASE \A k \in Nat : Serialize(p, k) = Packet(h, n, body, k)
  <2>1. PICK f \in Nat : f = FinalLength(n) /\ n + 2 <= f /\ (n < R4 => 1 + c + n <= f)
    BY <1>3, <1>4, Estimate
  <2>2. Serialize(p, size) = IF f > size THEN <<>> ELSE v
    BY <1>1, <1>6, <1>8, <2>1 DEF Packet, TooShort
  <2>3. Serialize(p, size) = v /\ f <= size
    BY <1>6, <2>2
  <2>4. n < R4 /\ 1 + c + n <= size
    BY <1>3, <1>5, <1>6, <2>1, <2>3
  <2> QED BY <1>2, <1>3, <1>7, <2>3, <2>4
<1>9. CASE n <= 2 /\ \A k \in Nat : k >= 4 => Serialize(p, k) = <<h>> \o WriteLen(n) \o body
  <2>1. Serialize(p, size) = v
    BY <1>1, <1>6, <1>9
  <2>2. Radix \in Nat /\ Radix > 2
    BY RadixAssumption, BuffersAssumption
  <2>3. n < Radix
    BY <1>9, <2>2
  <2>4. c <= 1
    BY <1>3, <2>3, Counts
  <2>5. c <= 4 /\ 1 + c + n <= size
    BY <1>3, <1>6, <1>9, <2>4
  <2> QED BY <1>2, <1>3, <2>1, <2>5
<1> QED BY <1>8, <1>9 DEF Shaped

\* The bytes of a request, and what a refusal means.
LEMMA SerializeExact ==
  ASSUME NEW p \in Requests, NEW size \in TxBufLens
  PROVE  /\ Serialize(p, size) \in Seq(Symbols)
         /\ Serialize(p, size) # <<>> =>
              \E n \in Nat, c \in Nat :
                /\ DecodeRemainingLength(Tail(Serialize(p, size))) = [ok |-> TRUE, length |-> n, bytes |-> c]
                /\ Len(Serialize(p, size)) = 1 + c + n
                /\ Len(Serialize(p, size)) <= size
         /\ Serialize(p, size) = <<>> \/ Len(Serialize(p, size)) >= size =>
              Len(Serialize(p, 2 * size)) \notin 1..(size - 1)
<1>1. PICK h, body : \E n \in Nat : Shaped(p, h, body, n)
  BY AllShaped
<1>2. PICK n \in Nat : Shaped(p, h, body, n)
  BY <1>1
<1>3. PICK w : w = Serialize(p, size)
  OBVIOUS
<1>4. PICK c \in Nat : c = Count(n)
  BY Counts
<1>5. ASSUME w # <<>> PROVE PacketOK(w, h, body, n) /\ c <= 4 /\ 1 + c + n <= size
  BY <1>2, <1>3, <1>4, <1>5, WrittenWhole
<1>6. PacketOK(w, h, body, n) => w \in Seq(Symbols) /\ Len(w) = 1 + c + n
  BY <1>4 DEF PacketOK, Text
<1>7. w \in Seq(Symbols)
  <2>1. w = <<>> => w \in Seq(Symbols)
    OBVIOUS
  <2>2. w # <<>> => w \in Seq(Symbols)
    BY <1>5, <1>6
  <2> QED BY <2>1, <2>2
<1>8. ASSUME w # <<>>
      PROVE  \E m \in Nat, k \in Nat :
                /\ DecodeRemainingLength(Tail(w)) = [ok |-> TRUE, length |-> m, bytes |-> k]
                /\ Len(w) = 1 + k + m
                /\ Len(w) <= size
  <2>1. DecodeRemainingLength(Tail(w)) = [ok |-> TRUE, length |-> n, bytes |-> c]
    BY <1>4, <1>5, <1>8 DEF PacketOK
  <2>2. Len(w) = 1 + c + n /\ Len(w) <= size
    BY <1>5, <1>6, <1>8
  <2> QED BY <2>1, <2>2
<1>9. ASSUME w = <<>> \/ Len(w) >= size PROVE Len(Serialize(p, 2 * size)) \notin 1..(size - 1)
  <2>1. size \in Nat /\ size >= 4 /\ 2 * size \in Nat /\ 2 * size >= 4
    <3>1. size \in Nat /\ size >= 4
      BY BufferSizes
    <3> QED BY <3>1
  <2>2. PICK u : u = Serialize(p, 2 * size)
    OBVIOUS
  <2>3. PICK v : v = <<h>> \o WriteLen(n) \o body
    OBVIOUS
  <2>4. v \in Seq(Symbols) /\ Len(v) = 1 + c + n
    <3>1. h \in Symbols /\ Text(body, n)
      BY <1>2 DEF Shaped, Symbols
    <3>2. PacketOK(v, h, body, n)
      BY <2>3, <3>1, PacketShape
    <3> QED BY <1>4, <3>2 DEF PacketOK, Text
  <2>5. v # <<>>
    <3>1. Len(v) # 0
      BY <2>4
    <3> QED BY <3>1
  <2>6. CASE \A k \in Nat : Serialize(p, k) = Packet(h, n, body, k)
    <3>1. PICK f \in Nat : f = FinalLength(n) /\ f <= 2 + c + n
      BY <1>4, Estimate
    <3>2. w = IF f > size THEN <<>> ELSE v
      BY <1>3, <2>1, <2>3, <2>6, <3>1 DEF Packet, TooShort
    <3>3. u = <<>> \/ u = v
      BY <2>1, <2>2, <2>3, <2>6 DEF Packet, TooShort
    <3>4. 1 + c + n >= size
      <4>1. CASE f > size
        BY <2>1, <3>1, <4>1
      <4>2. CASE ~(f > size)
        BY <1>9, <2>4, <2>5, <3>2, <4>2
      <4> QED BY <4>1, <4>2
    <3>5. CASE u = <<>>
      BY <2>2, <3>5
    <3>6. CASE u = v
      BY <2>1, <2>2, <2>4, <3>4, <3>6
    <3> QED BY <3>3, <3>5, <3>6
  <2>7. CASE n <= 2 /\ \A k \in Nat : k >= 4 => Serialize(p, k) = <<h>> \o WriteLen(n) \o body
    <3>1. w = v /\ u = v
      BY <1>3, <2>1, <2>2, <2>3, <2>7
    <3>2. Len(v) >= size
      BY <1>9, <2>5, <3>1
    <3> QED BY <2>1, <2>2, <2>4, <3>1, <3>2
  <2> QED BY <1>2, <2>6, <2>7 DEF Shaped
<1> QED BY <1>3, <1>7, <1>8, <1>9

\* The n symbols behind the first m.
Middle(w, m, n) == SubSeq(w, m + 1, m + n)

\* The text in the middle.
LEMMA TextMiddle ==
  ASSUME NEW s, NEW t, NEW u, NEW m \in Nat, NEW n \in Nat, NEW k \in Nat,
         Text(s, m), Text(t, n), Text(u, k)
  PROVE  Middle((s \o t) \o u, m, n) = t
<1>1. PICK v : v = s \o t
  OBVIOUS
<1>2. Joined(v, s, t, m, n)
  BY <1>1, TextConcat
<1>3. Text(v, m + n) /\ m + n \in Nat /\ \A i \in 1..n : v[m + i] = t[i]
  BY <1>2 DEF Joined
<1>4. PICK w : w = v \o u
  OBVIOUS
<1>5. Joined(w, v, u, m + n, k)
  BY <1>3, <1>4, TextConcat
<1>6. \A i \in 1..(m + n) : w[i] = v[i]
  BY <1>5 DEF Joined
<1>7. t \in Seq(Symbols) /\ Len(t) = n
  BY DEF Text
<1>8. \A i \in 1..n : t[i] \in Symbols
  BY <1>7, ElementOfSeq
<1>9. ASSUME NEW i \in 1..n PROVE w[m + i] = t[i]
  <2>1. m + i \in 1..(m + n)
    OBVIOUS
  <2> QED BY <1>3, <1>6, <2>1
<1>10. ASSUME NEW i \in (m + 1)..(m + n) PROVE w[i] \in Symbols
  <2>1. i - m \in 1..n /\ m + (i - m) = i
    OBVIOUS
  <2> QED BY <1>8, <1>9, <2>1
<1>11. m + 1 \in Int /\ m + n \in Int
  OBVIOUS
<1>12. PICK x : x = SubSeq(w, m + 1, m + n)
  OBVIOUS
<1>13. /\ x \in Seq(Symbols) /\ Len(x) = (IF m + 1 <= m + n THEN m + n - (m + 1) + 1 ELSE 0)
       /\ \A i \in 1..(m + n - (m + 1) + 1) : x[i] = w[m + 1 + i - 1]
  BY <1>10, <1>11, <1>12, SubSeqProperties
<1>14. Len(x) = n /\ \A i \in 1..n : x[i] = w[m + 1 + i - 1]
  BY <1>13
<1>15. \A i \in 1..n : m + 1 + i - 1 = m + i
  OBVIOUS
<1>16. \A i \in 1..n : x[i] = t[i]
  BY <1>9, <1>14, <1>15
<1>17. x = t
  BY <1>7, <1>13, <1>14, <1>16, SeqEqual
<1> QED BY <1>1, <1>4, <1>12, <1>17 DEF Middle

\* A PUBLISH is read as it was written.
LEMMA PublishBack ==
  ASSUME NEW p \in [type : {"PUBLISH"}, qos : {0, 1}, dup : {0, 1}, retain : {0, 1}, topic : Strings,
                    id : Uint16, payload : Seq(Byte)],
         p.qos = 0 => p.id = 0,
         NEW size \in TxBufLens, Serialize(p, size) # <<>>
  PROVE  DeserializePublish(Serialize(p, size)) = p
<1>1. PICK w : w = Serialize(p, size)
  OBVIOUS
<1>2. PICK h : h = Header("PUBLISH", p.qos, p.dup, p.retain)
  OBVIOUS
<1>3. PICK body : body = PublishBody(p)
  OBVIOUS
<1>4. PICK n \in Nat : Shaped(p, h, body, n)
  BY <1>2, <1>3, PublishShaped
<1>5. PICK c \in Nat : c = Count(n)
  BY Counts
<1>6. PacketOK(w, h, body, n) /\ c <= 4
  BY <1>1, <1>4, <1>5, WrittenWhole
<1>7. /\ w[1] = h /\ SubSeq(w, 2 + c, 1 + c + n) = body
      /\ DecodeRemainingLength(Tail(w)) = [ok |-> TRUE, length |-> n, bytes |-> c]
  BY <1>5, <1>6 DEF PacketOK
<1>8. Text(body, n)
  BY <1>4 DEF Shaped
<1>9. Text(p.topic, Len(p.topic)) /\ Len(p.topic) \in Nat /\ Text(p.payload, Len(p.payload)) /\ Len(p.payload) \in Nat
  BY StringText DEF Strings
<1>10. PICK t \in Nat, l \in Nat : t = Len(p.topic) /\ l = Len(p.payload)
  BY <1>9
<1>11. Text(p.topic, t) /\ Text(p.payload, l)
  BY <1>9, <1>10
<1>12. p.id \in Nat
  BY RadixAssumption DEF Uint16, ByteValues
<1>13. PICK id : id = IF p.qos > 0 THEN WriteUint16(p.id) ELSE <<>>
  OBVIOUS
<1>14. PICK k \in Nat : k = IF p.qos > 0 THEN 2 ELSE 0
  OBVIOUS
<1>15. Text(id, k)
  BY <1>12, <1>13, <1>14, Uint16Text, ShortTexts
<1>16. PICK s : s = WriteString(p.topic)
  OBVIOUS
<1>17. Text(s, 2 + t) /\ 2 + t \in Nat /\ Joined(s, WriteUint16(t), p.topic, 2, t)
  BY <1>10, <1>11, <1>16, WriteStringText DEF Text
<1>18. PICK rest : rest = id \o p.payload
  OBVIOUS
<1>19. Joined(rest, id, p.payload, k, l)
  BY <1>11, <1>15, <1>18, TextConcat
<1>20. Text(rest, k + l) /\ k + l \in Nat
  BY <1>19 DEF Joined
<1>21. body = s \o rest
  <2>1. body = s \o id \o p.payload
    BY <1>3, <1>13, <1>16 DEF PublishBody
  <2>2. s \in Seq(Symbols) /\ id \in Seq(Symbols) /\ p.payload \in Seq(Symbols)
    BY <1>11, <1>15, <1>17 DEF Text
  <2>3. (s \o id) \o p.payload = s \o (id \o p.payload)
    BY <2>2, ConcatAssociative
  <2> QED BY <1>18, <2>1, <2>3
<1>22. Joined(body, s, rest, 2 + t, k + l)
  BY <1>17, <1>20, <1>21, TextConcat
<1>23. n = (2 + t) + (k + l) /\ Len(body) = n
  BY <1>8, <1>22 DEF Joined, Text
<1>24. ReadUint16(body) = t
  <2>1. 1 \in 1..(2 + t) /\ 2 \in 1..(2 + t) /\ 1 \in 1..2 /\ 2 \in 1..2
    OBVIOUS
  <2>2. body[1] = s[1] /\ body[2] = s[2]
    BY <1>22, <2>1 DEF Joined
  <2>3. s[1] = WriteUint16(t)[1] /\ s[2] = WriteUint16(t)[2]
    BY <1>17, <2>1 DEF Joined
  <2> QED BY <2>2, <2>3, Uint16Text
<1>25. SubSeq(body, 3 + t, n) = rest
  <2>1. SubSeq(s \o rest, (2 + t) + 1, (2 + t) + (k + l)) = rest
    BY <1>17, <1>20, TextFrom
  <2>2. (2 + t) + 1 = 3 + t
    OBVIOUS
  <2> QED BY <1>21, <1>23, <2>1, <2>2
<1>26. SubSeq(body, 3, 2 + t) = p.topic
  <2>1. PICK two \in Nat : two = 2
    OBVIOUS
  <2>2. PICK a : a = WriteUint16(t)
    OBVIOUS
  <2>3. Text(a, two)
    BY <2>1, <2>2, Uint16Text
  <2>4. SubSeq((a \o p.topic) \o rest, two + 1, two + t) = p.topic
    <3>1. PICK j \in Nat : j = k + l
      BY <1>20
    <3>2. Text(p.topic, t) /\ Text(rest, j)
      BY <1>11, <1>20, <3>1
    <3>3. Middle((a \o p.topic) \o rest, two, t) = p.topic
      BY <2>3, <3>2, TextMiddle
    <3> QED BY <3>3 DEF Middle
  <2>5. s = a \o p.topic
    BY <1>10, <1>16, <2>2 DEF WriteString
  <2>6. two + 1 = 3 /\ two + t = 2 + t
    BY <2>1
  <2> QED BY <1>21, <2>4, <2>5, <2>6
<1>27. h.qos = p.qos /\ h.dup = p.dup /\ h.retain = p.retain
  BY <1>2 DEF Header
<1>28. p.id = IF h.qos # 0 THEN ReadUint16(rest) ELSE 0
  <2>1. CASE p.qos = 1
    <3>1. id = WriteUint16(p.id) /\ k = 2
      BY <1>13, <1>14, <2>1
    <3>2. 1 \in 1..k /\ 2 \in 1..k
      BY <3>1
    <3>3. rest[1] = WriteUint16(p.id)[1] /\ rest[2] = WriteUint16(p.id)[2]
      BY <1>19, <3>1, <3>2 DEF Joined
    <3>4. ReadUint16(rest) = p.id
      BY <1>12, <3>3, Uint16Text
    <3> QED BY <1>27, <2>1, <3>4
  <2>2. CASE p.qos = 0
    BY <1>27, <2>2
  <2> QED BY <2>1, <2>2
<1>29. p.payload = IF h.qos # 0 THEN SubSeq(rest, 3, Len(rest)) ELSE rest
  <2>1. CASE p.qos = 1
    <3>1. k = 2 /\ 2 + 1 = 3
      BY <1>14, <2>1
    <3>2. SubSeq(id \o p.payload, k + 1, k + l) = p.payload
      BY <1>11, <1>15, TextFrom
    <3>3. Len(rest) = k + l
      BY <1>20 DEF Text
    <3> QED BY <1>18, <1>27, <2>1, <3>1, <3>2, <3>3
  <2>2. CASE p.qos = 0
    <3>1. id = <<>>
      BY <1>13, <2>2
    <3>2. p.payload \in Seq(Symbols)
      BY <1>11 DEF Text
    <3>3. <<>> \o p.payload = p.payload
      BY <3>2, ConcatEmptySeq
    <3> QED BY <1>18, <1>27, <2>2, <3>1, <3>3
  <2> QED BY <2>1, <2>2
<1>30. ~(Len(body) < 2) /\ ~(2 + t > Len(body))
  BY <1>23
<1>31. DeserializePublish(w) =
         [type |-> "PUBLISH", qos |-> h.qos, dup |-> h.dup, retain |-> h.retain,
          topic |-> SubSeq(body, 3, 2 + t),
          id |-> IF h.qos # 0 THEN ReadUint16(rest) ELSE 0,
          payload |-> IF h.qos # 0 THEN SubSeq(rest, 3, Len(rest)) ELSE rest]
  <2>1. PICK decoded : decoded = DecodeRemainingLength(Tail(w))
    OBVIOUS
  <2>2. decoded.ok = TRUE /\ decoded.length = n /\ decoded.bytes = c
    BY <1>7, <2>1
  <2>3. SubSeq(w, 2 + decoded.bytes, 1 + decoded.bytes + decoded.length) = body
    BY <1>7, <2>2
  <2>4. From(body, 3 + ReadUint16(body)) = rest /\ From(rest, 3) = SubSeq(rest, 3, Len(rest))
    BY <1>23, <1>24, <1>25 DEF From
  <2> QED BY <1>7, <1>24, <1>30, <2>1, <2>2, <2>3, <2>4 DEF DeserializePublish
<1>32. DeserializePublish(w) =
         [type |-> "PUBLISH", qos |-> p.qos, dup |-> p.dup, retain |-> p.retain, topic |-> p.topic,
          id |-> p.id, payload |-> p.payload]
  BY <1>26, <1>27, <1>28, <1>29, <1>31
<1>33. p = [type |-> "PUBLISH", qos |-> p.qos, dup |-> p.dup, retain |-> p.retain, topic |-> p.topic,
            id |-> p.id, payload |-> p.payload]
  OBVIOUS
<1> QED BY <1>1, <1>32, <1>33

\* So is a PUBACK.
LEMMA AckBack ==
  ASSUME NEW p \in [type : {"PUBACK"}, dup : {0, 1}, id : Uint16],
         NEW size \in TxBufLens, Serialize(p, size) # <<>>
  PROVE  DeserializeAck(Serialize(p, size)) = p
<1>1. PICK w : w = Serialize(p, size)
  OBVIOUS
<1>2. PICK h : h = Header("PUBACK", 0, p.dup, 0)
  OBVIOUS
<1>3. PICK body : body = WriteUint16(p.id)
  OBVIOUS
<1>4. PICK n \in Nat : n = 2
  OBVIOUS
<1>5. Shaped(p, h, body, n)
  BY <1>2, <1>3, <1>4, AckShaped
<1>6. PICK c \in Nat : c = Count(n)
  BY Counts
<1>7. PacketOK(w, h, body, n) /\ c <= 4
  BY <1>1, <1>5, <1>6, WrittenWhole
<1>8. /\ w[1] = h /\ SubSeq(w, 2 + c, 1 + c + n) = body /\ Len(w) = 1 + c + n
      /\ DecodeRemainingLength(Tail(w)) = [ok |-> TRUE, length |-> n, bytes |-> c]
  BY <1>6, <1>7 DEF PacketOK, Text
<1>9. p.id \in Nat
  BY RadixAssumption DEF Uint16, ByteValues
<1>10. ReadUint16(body) = p.id
  BY <1>3, <1>9, Uint16Text
<1>11. DeserializeAck(w) = [type |-> h.type, dup |-> h.dup, id |-> p.id]
  <2>1. PICK decoded : decoded = DecodeRemainingLength(Tail(w))
    OBVIOUS
  <2>2. decoded.ok = TRUE /\ decoded.length = n /\ decoded.bytes = c
    BY <1>8, <2>1
  <2>3. ~(decoded.length < 2) /\ From(w, 2 + decoded.bytes) = body
    BY <1>4, <1>8, <2>2 DEF From
  <2> QED BY <1>8, <1>10, <2>1, <2>2, <2>3 DEF DeserializeAck
<1>12. h.type = "PUBACK" /\ h.dup = p.dup
  BY <1>2 DEF Header
<1>13. p = [type |-> "PUBACK", dup |-> p.dup, id |-> p.id]
  OBVIOUS
<1> QED BY <1>1, <1>11, <1>12, <1>13

-----------------------------------------------------------------------------
(* The loops.                                                              *)

\* The bytes of the packet.
Content == {writeBuf[i] : i \in 1..Len(writeBuf)}

\* The types of the scalars.
ScalarsOK ==
  /\ writeBufSize \in TxBufLens
  /\ pc \in Places
  /\ request \in Requests
  /\ expired \in BOOLEAN
  /\ sent \in Nat
  /\ written \in Int
  /\ ret \in Int
  /\ isErrorFlag \in BOOLEAN
  /\ rc \in {"NONE", "SUCCESS", "FAILURE", "TOO_SHORT"}

\* What is on the wire is the start of the packet.
WireInv ==
  /\ writeBuf \in Seq(Content)
  /\ onWire \in Seq(Content)
  /\ Len(onWire) <= Len(writeBuf)
  /\ \A i \in 1..Len(onWire) : onWire[i] = writeBuf[i]

\* How far the packet is, n of its len bytes being on the wire, at each place of the code: while
\* the timer runs, written_so_far is what is on the wire; afterwards it may be anything, but a
\* packet that is out as a whole is known to be.
Progress(n, len) ==
  /\ sent = 0 \/ sent = len
  /\ ~expired => 0 <= written /\ written <= len
  /\ pc = "idle" => written = 0
  /\ pc # "idle" => rc = "NONE" /\ len # 0
  /\ pc \in {"for", "while", "advance", "written"} => sent = 0
  /\ pc = "send" => \/ sent = 0 /\ n = 0
                    \/ sent = len /\ (expired \/ n = len)
  /\ pc = "for" => /\ expired \/ written = n
                   /\ n = len => written = len
                   /\ ~isErrorFlag
  /\ pc = "while" => written = n /\ n < len /\ ~isErrorFlag
  /\ pc = "advance" => /\ expired \/ written + ret = n
                       /\ n = len => written + ret = len
                       /\ ~isErrorFlag
  /\ pc = "written" => /\ n = len => written = len /\ ~isErrorFlag
                       /\ expired \/ isErrorFlag \/ (written = len /\ n = len)
  /\ pc = "sent" => /\ sent = len \/ n < len
                    /\ sent = len => expired \/ n = len
  /\ rc = "FAILURE" => n < len
  /\ rc = "SUCCESS" /\ ~expired => n = len

ProgressInv == Progress(Len(onWire), Len(writeBuf))

SendInv == ScalarsOK /\ WireInv /\ ProgressInv

-----------------------------------------------------------------------------

\* The constants, one by one.
LEMMA Constants ==
  TxBufLens \subseteq Nat /\ MaxFragment \in Nat \ {0} /\ Garbage \subseteq Int
BY SendingAssumption

\* The two lengths are numbers.
LEMMA Lengths ==
  ASSUME WireInv
  PROVE  Len(onWire) \in Nat /\ Len(writeBuf) \in Nat /\ Len(onWire) <= Len(writeBuf)
BY DEF WireInv

\* Nothing happens on the wire.
LEMMA WireKeeps ==
  ASSUME WireInv, UNCHANGED <<writeBuf, onWire>>
  PROVE  WireInv'
<1>1. Content' = Content
  BY DEF Content
<1> QED BY <1>1 DEF WireInv

\* No packet yet.
LEMMA SendInit == Init => SendInv
<1> SUFFICES ASSUME Init PROVE SendInv
  OBVIOUS
<1>1. ScalarsOK
  <2>1. sent \in Nat /\ written \in Int /\ ret \in Int
    BY DEF Init
  <2> QED BY <2>1 DEF Init, ScalarsOK, Places
<1>2. WireInv
  <2>1. writeBuf = <<>> /\ onWire = <<>>
    BY DEF Init
  <2>2. <<>> \in Seq(Content) /\ Len(<<>>) = 0
    OBVIOUS
  <2> QED BY <2>1, <2>2 DEF WireInv
<1>3. ProgressInv
  BY DEF Init, ProgressInv, Progress
<1> QED BY <1>1, <1>2, <1>3 DEF SendInv

\* A packet is serialized.
LEMMA SendStart ==
  ASSUME SendInv, NEW p \in Requests, Start(p)
  PROVE  SendInv'
<1>1. /\ request' = p /\ writeBuf' = Serialize(p, writeBufSize) /\ expired' = FALSE /\ sent' = 0 /\ onWire' = <<>>
      /\ UNCHANGED <<writeBufSize, written, ret, isErrorFlag>>
  BY DEF Start
<1>2. \/ pc' = "idle" /\ rc' = "TOO_SHORT"
      \/ pc' = "send" /\ rc' = "NONE" /\ writeBuf' # <<>>
  BY DEF Start, TooShort
<1>3. ScalarsOK'
  BY <1>1, <1>2 DEF SendInv, ScalarsOK, Places
<1>4. WireInv'
  <2>1. PICK bytes : bytes = Serialize(p, writeBufSize)
    OBVIOUS
  <2>2. bytes \in Seq({bytes[i] : i \in 1..Len(bytes)})
    <3>1. writeBufSize \in TxBufLens
      BY DEF SendInv, ScalarsOK
    <3>2. Len(bytes) \in Nat /\ bytes = [i \in 1..Len(bytes) |-> bytes[i]]
      <4>1. bytes \in Seq(Symbols)
        BY <2>1, <3>1, SerializeExact
      <4> QED BY <4>1
    <3>3. PICK n \in Nat : n = Len(bytes)
      BY <3>2
    <3>4. bytes \in [1..n -> {bytes[i] : i \in 1..n}]
      BY <3>2, <3>3
    <3>5. bytes \in Seq({bytes[i] : i \in 1..n})
      BY <3>4, SeqDef
    <3> QED BY <3>3, <3>5
  <2>3. writeBuf' = bytes
    BY <1>1, <2>1
  <2>4. writeBuf' \in Seq(Content')
    BY <2>2, <2>3 DEF Content
  <2>5. onWire' \in Seq(Content') /\ Len(onWire') = 0
    BY <1>1
  <2>6. Len(writeBuf') \in Nat
    BY <2>4
  <2> QED BY <2>4, <2>5, <2>6 DEF WireInv
<1>5. ProgressInv'
  <2>1. Len(onWire') = 0 /\ Len(writeBuf') \in Nat
    BY <1>1, <1>4, Lengths DEF WireInv
  <2>2. pc' # "idle" => Len(writeBuf') # 0
    <3>1. writeBuf' \in Seq(Content')
      BY <1>4 DEF WireInv
    <3> QED BY <1>2, <3>1
  <2>3. written' = 0
    <3>1. pc = "idle"
      BY DEF Start
    <3> QED BY <1>1, <3>1 DEF SendInv, ProgressInv, Progress
  <2>4. 0 <= written' /\ written' <= Len(writeBuf')
    BY <2>1, <2>3
  <2> QED BY <1>1, <1>2, <2>1, <2>2, <2>3, <2>4 DEF ProgressInv, Progress
<1> QED BY <1>3, <1>4, <1>5 DEF SendInv

\* A fragment goes out: the next bytes of the packet, as nothing else was counted.
LEMMA SendTakes ==
  ASSUME SendInv, WriteLoopTakes
  PROVE  SendInv'
<1>1. /\ pc = "while" /\ ~expired /\ pc' = "advance"
      /\ ret' = IF Len(writeBuf) - written > MaxFragment THEN MaxFragment ELSE Len(writeBuf) - written
      /\ UNCHANGED <<writeBufSize, request, writeBuf, expired, sent, written, isErrorFlag, rc>>
      /\ onWire' = onWire \o Bytes(ret')
  BY DEF WriteLoopTakes, length
<1>2. sent = 0 /\ written = Len(onWire) /\ written < Len(writeBuf) /\ ~isErrorFlag /\ rc = "NONE" /\ Len(writeBuf) # 0
  BY <1>1 DEF SendInv, ProgressInv, Progress
<1>3. PICK n \in Nat, len \in Nat : n = Len(onWire) /\ len = Len(writeBuf)
  BY Lengths DEF SendInv
<1>4. PICK k \in Nat : k = ret' /\ n + k <= len
  <2>1. n < len
    BY <1>2, <1>3
  <2>2. ret' = IF len - n > MaxFragment THEN MaxFragment ELSE len - n
    BY <1>1, <1>2, <1>3
  <2>3. len - n \in Nat
    BY <2>1
  <2>4. ASSUME NEW k, k = IF len - n > MaxFragment THEN MaxFragment ELSE len - n
        PROVE  k \in Nat /\ n + k <= len
    BY <2>1, <2>3, <2>4, Constants
  <2> QED BY <2>2, <2>4
<1>5. PICK b : b = Bytes(k)
  OBVIOUS
<1>6. /\ b \in Seq(Content) /\ Len(b) = k
      /\ \A i \in 1..k : b[i] = writeBuf[n + i]
  <2>1. b = [i \in 1..k |-> IF n + i <= len THEN writeBuf[n + i] ELSE Stale]
    <3>1. \A i \in 1..k : sent + written + i = n + i
      BY <1>2, <1>3
    <3>2. b = [i \in 1..k |-> IF sent + written + i <= Len(writeBuf) THEN writeBuf[sent + written + i] ELSE Stale]
      BY <1>5 DEF Bytes, length
    <3> QED BY <1>3, <3>1, <3>2
  <2>2. \A i \in 1..k : n + i <= len /\ n + i \in 1..len
    <3>1. n + k <= len
      BY <1>4
    <3>2. \A m \in Nat, j \in Nat, l \in Nat : m + j <= l => \A i \in 1..j : m + i <= l /\ m + i \in 1..l
      OBVIOUS
    <3> QED BY <3>1, <3>2
  <2>3. \A i \in 1..k : b[i] = writeBuf[n + i] /\ b[i] \in Content
    BY <1>3, <2>1, <2>2 DEF Content
  <2>4. b \in [1..k -> Content]
    BY <2>1, <2>3
  <2> QED BY <2>3, <2>4
<1>7. /\ onWire' \in Seq(Content) /\ Len(onWire') = n + k
      /\ \A i \in 1..(n + k) : onWire'[i] = IF i <= n THEN onWire[i] ELSE b[i - n]
  <2>1. onWire' = onWire \o b /\ onWire \in Seq(Content)
    BY <1>1, <1>4, <1>5 DEF SendInv, WireInv
  <2>2. b \in Seq(Content) /\ Len(b) = k /\ Len(onWire) = n
    BY <1>3, <1>6
  <2>3. /\ onWire \o b \in Seq(Content) /\ Len(onWire \o b) = Len(onWire) + Len(b)
        /\ \A i \in 1..(Len(onWire) + Len(b)) :
             (onWire \o b)[i] = IF i <= Len(onWire) THEN onWire[i] ELSE b[i - Len(onWire)]
    BY <2>1, <2>2, ConcatProperties
  <2> QED BY <2>1, <2>2, <2>3
<1>8. WireInv'
  <2>1. \A i \in 1..(n + k) : onWire'[i] = writeBuf[i]
    <3> TAKE i \in 1..(n + k)
    <3>1. CASE i <= n
      BY <1>3, <1>7, <3>1 DEF SendInv, WireInv
    <3>2. CASE ~(i <= n)
      <4>1. i - n \in 1..k /\ n + (i - n) = i
        BY <3>2
      <4> QED BY <1>6, <1>7, <3>2, <4>1
    <3> QED BY <3>1, <3>2
  <2>2. Content' = Content /\ writeBuf' = writeBuf
    BY <1>1 DEF Content
  <2> QED BY <1>3, <1>4, <1>7, <2>1, <2>2 DEF SendInv, WireInv
<1>9. ProgressInv'
  <2>1. written' = n /\ ret' = k /\ Len(onWire') = n + k /\ Len(writeBuf') = len
    BY <1>1, <1>2, <1>3, <1>4, <1>7
  <2>2. written' + ret' = Len(onWire')
    BY <2>1
  <2> QED BY <1>1, <1>2, <2>2 DEF ProgressInv, Progress
<1>10. ScalarsOK'
  BY <1>1, <1>4 DEF SendInv, ScalarsOK, Places
<1> QED BY <1>8, <1>9, <1>10 DEF SendInv

\* The steps that put nothing on the wire: what they do to Progress, in numbers.
LEMMA SendQuiet ==
  ASSUME SendInv, UNCHANGED <<writeBufSize, request, writeBuf, onWire>>,
         SendLoop \/ ForLoop \/ Advance \/ WriteReturns \/ SendReturns \/ WriteLoopExpired \/ WriteLoopAgain
           \/ WriteLoopFails \/ Expire \/ UNCHANGED vars
  PROVE  SendInv'
<1>1. PICK n \in Nat, len \in Nat : n = Len(onWire) /\ len = Len(writeBuf) /\ n <= len
  BY Lengths DEF SendInv
<1>2. Progress(n, len)
  BY <1>1 DEF SendInv, ProgressInv
<1>3. WireInv'
  BY WireKeeps DEF SendInv
<1>4. n = Len(onWire') /\ len = Len(writeBuf')
  BY <1>1
<1>5. SUFFICES ScalarsOK' /\ Progress(n, len)'
  BY <1>3, <1>4 DEF SendInv, ProgressInv
<1>6. sent \in Nat /\ written \in Int /\ ret \in Int
  BY DEF SendInv, ScalarsOK
<1>7. CASE SendLoop
  <2>1. sent = 0 \/ sent = len
    BY <1>2, <1>7 DEF SendLoop, Progress
  <2>2. /\ pc = "send" /\ UNCHANGED <<expired, sent, rc>>
        /\ \/ sent < len /\ pc' = "for" /\ written' = 0 /\ isErrorFlag' = FALSE /\ ret' \in Garbage
           \/ ~(sent < len /\ ~expired) /\ pc' = "sent" /\ UNCHANGED <<written, ret, isErrorFlag>>
    BY <1>1, <1>7 DEF SendLoop, length
  <2>3. ScalarsOK'
    <3>1. written' \in Int /\ ret' \in Int
      <4>1. 0 \in Int /\ \A g \in Garbage : g \in Int
        BY Constants
      <4>2. (written' = 0 \/ written' = written) /\ (ret' \in Garbage \/ ret' = ret)
        BY <2>2
      <4> QED BY <1>6, <4>1, <4>2
    <3> QED BY <2>2, <3>1 DEF SendInv, ScalarsOK, Places
  <2>4. len # 0
    BY <1>2, <2>2 DEF Progress
  <2>5. sent < len => sent = 0
    BY <2>1
  <2>6. ~(sent < len) => sent = len
    BY <2>1, <2>4
  <2>7. n = 0 => n < len
    BY <2>4
  <2> QED BY <1>2, <2>2, <2>3, <2>4, <2>5, <2>6, <2>7 DEF Progress
<1>8. CASE ForLoop
  <2>1. /\ pc = "for" /\ UNCHANGED <<expired, sent, written, ret, isErrorFlag, rc>>
        /\ pc' = IF written < len /\ ~expired THEN "while" ELSE "written"
    BY <1>1, <1>8 DEF ForLoop, length
  <2>2. ScalarsOK'
    BY <2>1 DEF SendInv, ScalarsOK, Places
  <2>3. written = n => (~(written < len) => n = len)
    BY <1>1
  <2> QED BY <1>2, <2>1, <2>2, <2>3 DEF Progress
<1>9. CASE Advance
  <2>1. /\ pc = "advance" /\ pc' = "for" /\ written' = written + ret
        /\ UNCHANGED <<expired, sent, ret, isErrorFlag, rc>>
    BY <1>9 DEF Advance
  <2>2. ScalarsOK'
    <3>1. written' \in Int
      BY <1>6, <2>1
    <3> QED BY <2>1, <3>1 DEF SendInv, ScalarsOK, Places
  <2>3. ~expired => 0 <= written' /\ written' <= len
    <3>1. ~expired => written' = n
      BY <1>2, <2>1 DEF Progress
    <3> QED BY <1>1, <3>1
  <2> QED BY <1>2, <2>1, <2>2, <2>3 DEF Progress
<1>10. CASE WriteReturns
  <2>1. /\ pc = "written" /\ UNCHANGED <<expired, written, ret, isErrorFlag, rc>>
        /\ \/ (isErrorFlag \/ written # len) /\ pc' = "sent" /\ sent' = sent
           \/ ~isErrorFlag /\ (~expired \/ written = len) /\ pc' = "send" /\ sent' = sent + written
    BY <1>1, <1>10 DEF WriteReturns, length
  <2>2. sent = 0 /\ len # 0
    BY <1>2, <2>1 DEF Progress
  <2>3. CASE (isErrorFlag \/ written # len) /\ pc' = "sent" /\ sent' = sent
    <3>1. n # len
      BY <1>2, <2>1, <2>3 DEF Progress
    <3>2. n < len
      BY <1>1, <3>1
    <3>3. ScalarsOK'
      BY <2>1, <2>3 DEF SendInv, ScalarsOK, Places
    <3> QED BY <1>2, <2>1, <2>2, <2>3, <3>2, <3>3 DEF Progress
  <2>4. CASE ~isErrorFlag /\ (~expired \/ written = len) /\ pc' = "send" /\ sent' = sent + written
    <3>1. written = len /\ (expired \/ n = len)
      BY <1>2, <2>1, <2>4 DEF Progress
    <3>2. sent' = len
      BY <2>2, <2>4, <3>1
    <3>3. ScalarsOK'
      BY <2>1, <2>4, <3>2 DEF SendInv, ScalarsOK, Places
    <3> QED BY <1>2, <2>1, <2>2, <2>4, <3>1, <3>2, <3>3 DEF Progress
  <2> QED BY <2>1, <2>3, <2>4
<1>11. CASE SendReturns
  <2>1. /\ pc = "sent" /\ pc' = "idle" /\ UNCHANGED expired
        /\ rc' = IF sent = len THEN "SUCCESS" ELSE "FAILURE"
        /\ sent' = 0 /\ written' = 0 /\ ret' = 0 /\ isErrorFlag' = FALSE
    BY <1>1, <1>11 DEF SendReturns, length
  <2>2. ScalarsOK'
    <3>1. sent' \in Nat /\ written' \in Int /\ ret' \in Int
      BY <2>1
    <3> QED BY <2>1, <3>1 DEF SendInv, ScalarsOK, Places
  <2> QED BY <1>2, <2>1, <2>2 DEF Progress
<1>12. CASE WriteLoopExpired
  <2>1. /\ pc = "while" /\ expired /\ pc' = "advance"
        /\ UNCHANGED <<expired, sent, written, ret, isErrorFlag, rc>>
    BY <1>12 DEF WriteLoopExpired
  <2>2. n # len
    BY <1>1, <1>2, <2>1 DEF Progress
  <2>3. ScalarsOK'
    BY <2>1 DEF SendInv, ScalarsOK, Places
  <2> QED BY <1>2, <2>1, <2>2, <2>3 DEF Progress
<1>13. CASE WriteLoopAgain
  <2>1. pc = "while" /\ ret' = WANT_WRITE /\ UNCHANGED <<pc, expired, sent, written, isErrorFlag, rc>>
    BY <1>13 DEF WriteLoopAgain
  <2>2. ScalarsOK'
    <3>1. ret' \in Int
      BY <2>1 DEF WANT_WRITE
    <3> QED BY <2>1, <3>1 DEF SendInv, ScalarsOK
  <2> QED BY <1>2, <2>1, <2>2 DEF Progress
<1>14. CASE WriteLoopFails
  <2>1. /\ pc = "while" /\ isErrorFlag' = TRUE /\ pc' = "written"
        /\ UNCHANGED <<expired, sent, written, ret, rc>>
    BY <1>14 DEF WriteLoopFails
  <2>2. n # len
    BY <1>1, <1>2, <2>1 DEF Progress
  <2>3. ScalarsOK'
    BY <2>1 DEF SendInv, ScalarsOK, Places
  <2> QED BY <1>2, <2>1, <2>2, <2>3 DEF Progress
<1>15. CASE Expire
  <2>1. expired' = TRUE /\ UNCHANGED <<pc, sent, written, ret, isErrorFlag, rc>>
    BY <1>15 DEF Expire
  <2>2. ScalarsOK'
    BY <2>1 DEF SendInv, ScalarsOK
  <2> QED BY <1>2, <2>1, <2>2 DEF Progress
<1>16. CASE UNCHANGED vars
  <2>1. UNCHANGED <<writeBufSize, pc, request, expired, sent, written, ret, isErrorFlag, rc>>
    BY <1>16 DEF vars
  <2>2. ScalarsOK'
    BY <2>1 DEF SendInv, ScalarsOK
  <2> QED BY <1>2, <2>1, <2>2 DEF Progress
<1> QED BY <1>7, <1>8, <1>9, <1>10, <1>11, <1>12, <1>13, <1>14, <1>15, <1>16

\* SendInv is inductive.
LEMMA SendNext == SendInv /\ [Next]_vars => SendInv'
<1> SUFFICES ASSUME SendInv, [Next]_vars PROVE SendInv'
  OBVIOUS
<1>1. ASSUME NEW p \in Requests, Start(p) PROVE SendInv'
  BY <1>1, SendStart
<1>2. ASSUME WriteLoopTakes PROVE SendInv'
  BY <1>2, SendTakes
<1>3. ASSUME SendLoop \/ ForLoop \/ Advance \/ WriteReturns \/ SendReturns \/ WriteLoopExpired \/ WriteLoopAgain
               \/ WriteLoopFails \/ Expire \/ UNCHANGED vars
      PROVE  SendInv'
  <2>1. UNCHANGED <<writeBufSize, request, writeBuf, onWire>>
    BY <1>3 DEF SendLoop, ForLoop, Advance, WriteReturns, SendReturns, WriteLoopExpired, WriteLoopAgain,
       WriteLoopFails, Expire, vars
  <2> QED BY <1>3, <2>1, SendQuiet
<1> QED BY <1>1, <1>2, <1>3 DEF Next, WriteStep

\* SendInv holds in every reachable state.
LEMMA SendAlways == Spec => []SendInv
BY SendInit, SendNext, PTL DEF Spec

-----------------------------------------------------------------------------

\* Whatever ssl_write, the timer and the uninitialized ret do, send_packet counts nothing or the
\* whole packet, written_so_far does not go past the packet before the timer has expired, and no
\* more bytes are on the wire than the packet has.  (After the timer has expired a left-over ret
\* may take written_so_far beyond the length, or below 0: for that case it is only an integer.)
THEOREM SendingTypes == Spec => []TypeOK
<1>1. SendInv => TypeOK
  <2> SUFFICES ASSUME SendInv PROVE TypeOK
    OBVIOUS
  <2>1. PICK n \in Nat, len \in Nat : n = Len(onWire) /\ len = Len(writeBuf) /\ n <= len
    BY Lengths DEF SendInv
  <2>2. (sent = 0 \/ sent = len) /\ (~expired => 0 <= written /\ written <= len)
    BY <2>1 DEF SendInv, ProgressInv, Progress
  <2>3. written \in Int /\ (~expired => written \in 0..len)
    <3>1. written \in Int
      BY DEF SendInv, ScalarsOK
    <3> QED BY <2>2, <3>1
  <2>4. sent \in {0, length} /\ written \in Int /\ (~expired => written \in 0..length) /\ Len(onWire) <= length
    BY <2>1, <2>2, <2>3 DEF length
  <2> QED BY <2>4 DEF SendInv, ScalarsOK, TypeOK
<1> QED BY <1>1, SendAlways, PTL

\* The bytes on the wire are always a prefix of the packet: although send_packet hands over the
\* whole length on every round and iot_tls_write adds a left-over ret to written_so_far once the
\* timer has expired, no byte is written twice, none is skipped and none from behind the packet
\* goes out.
THEOREM WireIsPrefix == Spec => []OnWirePrefix
<1>1. SendInv => OnWirePrefix
  <2> SUFFICES ASSUME SendInv PROVE OnWirePrefix
    OBVIOUS
  <2>1. PICK n \in Nat, len \in Nat : n = Len(onWire) /\ len = Len(writeBuf) /\ n <= len
    BY Lengths DEF SendInv
  <2>2. writeBuf \in Seq(Content) /\ onWire \in Seq(Content) /\ \A i \in 1..n : onWire[i] = writeBuf[i]
    BY <2>1 DEF SendInv, WireInv
  <2>3. PICK s : s = SubSeq(writeBuf, 1, n)
    OBVIOUS
  <2>4. n \in Int /\ 1 \in Int /\ \A i \in 1..n : writeBuf[i] \in Content
    BY <2>1, <2>2
  <2>5. /\ s \in Seq(Content) /\ Len(s) = (IF 1 <= n THEN n - 1 + 1 ELSE 0)
        /\ \A i \in 1..(n - 1 + 1) : s[i] = writeBuf[1 + i - 1]
    BY <2>3, <2>4, SubSeqProperties
  <2>6. Len(s) = n /\ \A i \in 1..n : s[i] = writeBuf[i]
    BY <2>1, <2>5
  <2>7. onWire = s
    BY <2>1, <2>2, <2>5, <2>6, SeqEqual
  <2> QED BY <2>1, <2>3, <2>7 DEF OnWirePrefix, length
<1> QED BY <1>1, SendAlways, PTL

\* What send_packet returns is true of the wire: after FAILURE the packet is not out as a whole,
\* and after a SUCCESS that came before the timer expired it is, whatever the uninitialized ret
\* of iot_tls_write was and however ssl_write cut the packet up.
THEOREM ReturnsAreTrue == Spec => []ReturnTrue
<1>1. SendInv => ReturnTrue
  BY DEF SendInv, ProgressInv, Progress, ReturnTrue, length
<1> QED BY <1>1, SendAlways, PTL

-----------------------------------------------------------------------------
(* What the buffer holds.                                                  *)

\* The buffer holds the bytes of the request, and a refused request is one that was too long.
CodeInv ==
  /\ writeBufSize \in TxBufLens
  /\ request \in Requests
  /\ writeBuf # <<>> => writeBuf = Serialize(request, writeBufSize)
  /\ rc = "TOO_SHORT" => \/ Serialize(request, writeBufSize) = <<>>
                         \/ Len(Serialize(request, writeBufSize)) >= writeBufSize

\* CodeInv is inductive: only the start of a call changes the buffer.
LEMMA CodeNext == CodeInv /\ [Next]_vars => CodeInv'
<1> SUFFICES ASSUME CodeInv, [Next]_vars PROVE CodeInv'
  OBVIOUS
<1>1. ASSUME NEW p \in Requests, Start(p) PROVE CodeInv'
  <2>1. request' = p /\ writeBuf' = Serialize(p, writeBufSize) /\ writeBufSize' = writeBufSize
    BY <1>1 DEF Start
  <2>2. rc' = "TOO_SHORT" => writeBuf' = <<>> \/ Len(writeBuf') >= writeBufSize
    BY <1>1 DEF Start, TooShort
  <2> QED BY <2>1, <2>2 DEF CodeInv
<1>2. ASSUME UNCHANGED <<writeBufSize, request, writeBuf>>, rc' # "TOO_SHORT" \/ UNCHANGED rc PROVE CodeInv'
  BY <1>2 DEF CodeInv
<1>3. ASSUME WriteStep \/ Expire \/ UNCHANGED vars
      PROVE  UNCHANGED <<writeBufSize, request, writeBuf>> /\ (rc' # "TOO_SHORT" \/ UNCHANGED rc)
  <2>1. SendReturns => UNCHANGED <<writeBufSize, request, writeBuf>> /\ rc' # "TOO_SHORT"
    BY DEF SendReturns
  <2>2. SendLoop \/ ForLoop \/ Advance \/ WriteReturns \/ WriteLoopExpired \/ WriteLoopTakes \/ WriteLoopAgain
          \/ WriteLoopFails \/ Expire \/ UNCHANGED vars => UNCHANGED <<writeBufSize, request, writeBuf, rc>>
    BY DEF SendLoop, ForLoop, Advance, WriteReturns, WriteLoopExpired, WriteLoopTakes, WriteLoopAgain,
       WriteLoopFails, Expire, vars
  <2> QED BY <1>3, <2>1, <2>2 DEF WriteStep
<1> QED BY <1>1, <1>2, <1>3 DEF Next

\* CodeInv holds in every reachable state.
LEMMA CodeAlways == Spec => []CodeInv
<1>1. Init => CodeInv
  BY DEF Init, CodeInv
<1> QED BY <1>1, CodeNext, PTL DEF Spec

\* For every request, base of the digits and size of the buffer, the packet in the buffer announces
\* exactly the bytes behind its length, it ends inside the buffer, and a request is refused only if
\* its packet would fill the buffer: the estimate of get_final_packet_length is too high only where
\* send_packet would have refused the packet too.
THEOREM LengthsAreExact == Spec => []LengthExact
<1>1. CodeInv => LengthExact
  <2> SUFFICES ASSUME CodeInv PROVE LengthExact
    OBVIOUS
  <2>1. PICK size \in TxBufLens, p \in Requests : size = writeBufSize /\ p = request
    BY DEF CodeInv
  <2>2. PICK w : w = Serialize(p, size)
    OBVIOUS
  <2>3. ASSUME writeBuf # <<>>
        PROVE  LET decoded == DecodeRemainingLength(Tail(writeBuf))
               IN /\ decoded.ok
                  /\ length = 1 + decoded.bytes + decoded.length
                  /\ length <= writeBufSize
    <3>1. writeBuf = w
      BY <2>1, <2>2, <2>3 DEF CodeInv
    <3>2. PICK n \in Nat, c \in Nat :
            /\ DecodeRemainingLength(Tail(w)) = [ok |-> TRUE, length |-> n, bytes |-> c]
            /\ Len(w) = 1 + c + n
            /\ Len(w) <= size
      BY <2>2, <2>3, <3>1, SerializeExact
    <3>3. PICK decoded : decoded = DecodeRemainingLength(Tail(w))
      OBVIOUS
    <3>4. decoded.ok = TRUE /\ decoded.length = n /\ decoded.bytes = c
      BY <3>2, <3>3
    <3> QED BY <2>1, <3>1, <3>2, <3>3, <3>4 DEF length
  <2>4. ASSUME rc = "TOO_SHORT" PROVE Len(Serialize(request, 2 * writeBufSize)) \notin 1..(writeBufSize - 1)
    <3>1. w = <<>> \/ Len(w) >= size
      BY <2>1, <2>2, <2>4 DEF CodeInv
    <3> QED BY <2>1, <2>2, <3>1, SerializeExact
  <2> QED BY <2>3, <2>4 DEF LengthExact, TooShort
<1> QED BY <1>1, CodeAlways, PTL

\* What the serializers of PUBLISH and PUBACK put into the buffer, the deserializers read back: the
\* same topic, payload, identifier and flags, for every request and every base of the digits.
THEOREM ReadsBack == Spec => []RoundTrip
<1>1. CodeInv => RoundTrip
  <2> SUFFICES ASSUME CodeInv, writeBuf # <<>>
               PROVE  /\ request.type = "PUBLISH" => DeserializePublish(writeBuf) = request
                      /\ request.type = "PUBACK"  => DeserializeAck(writeBuf) = request
    BY DEF RoundTrip, TooShort
  <2>1. PICK size \in TxBufLens, p \in Requests : size = writeBufSize /\ p = request
    BY DEF CodeInv
  <2>2. writeBuf = Serialize(p, size) /\ Serialize(p, size) # <<>>
    BY <2>1 DEF CodeInv
  <2>3. ASSUME p.type = "PUBLISH" PROVE DeserializePublish(Serialize(p, size)) = p
    <3>1. /\ p \in [type : {"PUBLISH"}, qos : {0, 1}, dup : {0, 1}, retain : {0, 1}, topic : Strings,
                    id : Uint16, payload : Seq(Byte)]
          /\ p.qos = 0 => p.id = 0
      BY <2>3, RequestCases
    <3> QED BY <2>2, <3>1, PublishBack
  <2>4. ASSUME p.type = "PUBACK" PROVE DeserializeAck(Serialize(p, size)) = p
    <3>1. p \in [type : {"PUBACK"}, dup : {0, 1}, id : Uint16]
      BY <2>4, RequestCases
    <3> QED BY <2>2, <3>1, AckBack
  <2> QED BY <2>1, <2>2, <2>3, <2>4
<1> QED BY <1>1, CodeAlways, PTL
=============================================================================
