-------------------------- MODULE ShadowJsonProofs --------------------------
(***************************************************************************)
(* Theorems about the builder of shadow documents: a document that was     *)
(* finalized with success is the JSON document of its fields, and a buffer *)
(* that holds the document is enough, for fields, tokens and buffers of    *)
(* every length.  A section has fewer than IndexLimit fields, 127 at most: *)
(* with more, the call that adds it does not come to its end.              *)
(***************************************************************************)
EXTENDS ShadowJson, WellFoundedInduction, SequenceTheorems, TLAPS

\* The symbols of a document.
Sym == {"{", "}", ":", ",", "state", "section", "key", "value", "clientToken", "quote", "token"}

\* A text of n symbols.
Text(s, n) == n \in Nat /\ s \in Seq(Sym) /\ Len(s) = n

\* The format strings are texts.
LEMMA FormatTypes ==
  /\ Text(StateText, 4) /\ Text(SectionText, 3) /\ Text(EndText, 2)
  /\ Text(TokenNameText, 5) /\ Text(FinalText, 2)
  /\ Text(<<",">>, 1) /\ Text(<<":">>, 1) /\ Text(<<"}">>, 1) /\ Text(<<>>, 0)
  /\ Text(<<",", "clientToken", ":", "quote">>, 4)
<1>1. Text(StateText, 4)
  BY DEF Text, StateText, Sym
<1>2. Text(SectionText, 3)
  BY DEF Text, SectionText, Sym
<1>3. Text(EndText, 2)
  BY DEF Text, EndText, Sym
<1>4. Text(TokenNameText, 5)
  BY DEF Text, TokenNameText, Sym
<1>5. Text(FinalText, 2)
  BY DEF Text, FinalText, Sym
<1>6. Text(<<",">>, 1) /\ Text(<<":">>, 1) /\ Text(<<"}">>, 1)
  BY DEF Text, Sym
<1>7. Text(<<>>, 0)
  BY DEF Text
<1>8. Text(<<",", "clientToken", ":", "quote">>, 4)
  BY DEF Text, Sym
<1> QED BY <1>1, <1>2, <1>3, <1>4, <1>5, <1>6, <1>7, <1>8

\* So many times the same symbol.
LEMMA SymbolsType ==
  ASSUME NEW s \in Sym, NEW n \in Nat
  PROVE  Text(Symbols(s, n), n)
BY DEF Symbols, Text

\* Two texts, one after the other.
LEMMA TextConcat ==
  ASSUME NEW s, NEW n, NEW t, NEW m, Text(s, n), Text(t, m)
  PROVE  Text(s \o t, n + m)
<1>1. s \in Seq(Sym) /\ t \in Seq(Sym) /\ n \in Nat /\ m \in Nat /\ Len(s) = n /\ Len(t) = m
  BY DEF Text
<1>2. s \o t \in Seq(Sym) /\ Len(s \o t) = Len(s) + Len(t)
  BY <1>1, ConcatProperties
<1> QED BY <1>1, <1>2 DEF Text

Associative(s, t, u) == (s \o t) \o u = s \o (t \o u)

\* Three texts, one after the other.
LEMMA TextAssociative ==
  ASSUME NEW s \in Seq(Sym), NEW t \in Seq(Sym), NEW u \in Seq(Sym)
  PROVE  Associative(s, t, u)
BY ConcatAssociative DEF Associative

\* Nothing before or behind a text.
LEMMA TextEmpty ==
  ASSUME NEW s, NEW n, Text(s, n)
  PROVE  s \o <<>> = s /\ <<>> \o s = s
<1>1. s \in Seq(Sym)
  BY DEF Text
<1> QED BY <1>1, ConcatEmptySeq

\* Every text has its length.
LEMMA TextLen ==
  ASSUME NEW s \in Seq(Sym)
  PROVE  Text(s, Len(s))
BY DEF Text

\* Every set of numbers that is not empty has a least element.
LEMMA LeastNumber ==
  ASSUME NEW S, S \subseteq Nat, S # {}
  PROVE  \E m \in S : \A k \in S : m <= k
<1> DEFINE R == OpToRel(<, Nat)
<1>1. \A x, y \in Nat : y < x => <<y, x>> \in R
  BY DEF OpToRel
<1>2. IsWellFoundedOn(R, Nat)
  BY NatLessThanWellFounded
<1> HIDE DEF R
<1>3. \E m \in S : \A k \in S : <<k, m>> \notin R
  BY <1>2, WFMin
<1>4. \E m \in S : \A k \in S : ~(k < m)
  BY <1>1, <1>3
<1> QED BY <1>4

-----------------------------------------------------------------------------
(* Pieces with a comma between them.                                       *)

\* The texts of the first pieces, as Joined joins them.
Comma(i) == IF i = 1 THEN <<>> ELSE <<",">>
JoinAt(f, pieces, i) == IF i = 0 THEN <<>> ELSE f[i - 1] \o Comma(i) \o pieces[i]
Joins(f, pieces, n) == f = [i \in 0..n |-> JoinAt(f, pieces, i)]

\* The recursive definition in Joined has a solution for every number of pieces.
LEMMA JoinsExists ==
  ASSUME NEW pieces, NEW n \in Nat
  PROVE  \E f : Joins(f, pieces, n)
<1> DEFINE Good(m) == \E f : Joins(f, pieces, m)
           Bad == {m \in Nat : ~Good(m)}
<1> SUFFICES ASSUME Bad # {} PROVE FALSE
  OBVIOUS
<1>1. PICK m \in Bad : \A k \in Bad : m <= k
  <2>1. Bad \subseteq Nat
    OBVIOUS
  <2> HIDE DEF Bad
  <2> QED BY <2>1, LeastNumber
<1>2. m \in Nat /\ ~Good(m)
  BY <1>1
<1>3. CASE m = 0
  <2>1. PICK f : f = [i \in 0..0 |-> <<>>]
    OBVIOUS
  <2>2. \A i \in 0..0 : i = 0
    OBVIOUS
  <2>3. Joins(f, pieces, 0)
    BY <2>1, <2>2 DEF Joins, JoinAt
  <2> QED BY <1>2, <1>3, <2>3
<1>4. CASE m # 0
  <2>1. PICK p \in Nat : p = m - 1 /\ m = p + 1 /\ p < m
    BY <1>2, <1>4
  <2>2. Good(p)
    <3>1. p \notin Bad
      <4> HIDE DEF Bad
      <4> QED BY <1>1, <1>2, <2>1
    <3> HIDE DEF Good
    <3> QED BY <2>1, <3>1
  <2>3. PICK f : Joins(f, pieces, p)
    BY <2>2
  <2>4. PICK g : g = [i \in 0..m |-> IF i = m THEN f[p] \o Comma(m) \o pieces[m] ELSE f[i]]
    OBVIOUS
  <2>5. ASSUME NEW i \in 0..m PROVE g[i] = JoinAt(g, pieces, i)
    <3>1. CASE i = m
      <4>1. g[i] = f[p] \o Comma(m) \o pieces[m]
        BY <2>4, <3>1
      <4>2. i # 0 /\ i - 1 = p /\ p \in 0..m /\ p # m
        BY <1>2, <1>4, <2>1, <3>1
      <4>3. g[p] = f[p]
        BY <2>4, <4>2
      <4> QED BY <3>1, <4>1, <4>2, <4>3 DEF JoinAt
    <3>2. CASE i # m
      <4>1. i \in 0..p
        BY <2>1, <3>2
      <4>2. g[i] = f[i] /\ f[i] = JoinAt(f, pieces, i)
        BY <2>3, <2>4, <3>2, <4>1 DEF Joins
      <4>3. i # 0 => i - 1 \in 0..m /\ i - 1 # m
        BY <2>1, <4>1
      <4>4. i # 0 => g[i - 1] = f[i - 1]
        BY <2>4, <4>3
      <4> QED BY <4>2, <4>4 DEF JoinAt
    <3> QED BY <3>1, <3>2
  <2>6. DOMAIN g = 0..m /\ g = [i \in 0..m |-> g[i]]
    BY <2>4
  <2>7. Joins(g, pieces, m)
    BY <2>5, <2>6 DEF Joins
  <2> QED BY <1>2, <2>7
<1> QED BY <1>3, <1>4

\* Two solutions agree as far as their pieces do.
LEMMA JoinsAgree ==
  ASSUME NEW f, NEW g, NEW p, NEW q, NEW n \in Nat, NEW m \in Nat, Joins(f, p, n), Joins(g, q, m),
         NEW k \in Nat, k <= n, k <= m, \A i \in 1..k : p[i] = q[i]
  PROVE  f[k] = g[k]
<1> DEFINE Bad == {i \in 0..k : f[i] # g[i]}
<1>1. Bad = {}
  <2> SUFFICES ASSUME Bad # {} PROVE FALSE
    OBVIOUS
  <2>1. PICK b \in Bad : \A i \in Bad : b <= i
    <3>1. Bad \subseteq Nat
      OBVIOUS
    <3> HIDE DEF Bad
    <3> QED BY <3>1, LeastNumber
  <2>2. b \in 0..k /\ f[b] # g[b]
    BY <2>1
  <2>3. b \in 0..n /\ b \in 0..m
    BY <2>2
  <2>4. f[b] = JoinAt(f, p, b) /\ g[b] = JoinAt(g, q, b)
    BY <2>3 DEF Joins
  <2>5. b # 0
    BY <2>2, <2>4 DEF JoinAt
  <2>6. b \in 1..k /\ b - 1 \in 0..k /\ ~(b <= b - 1)
    BY <2>2, <2>5
  <2>7. b - 1 \notin Bad
    <3> HIDE DEF Bad
    <3> QED BY <2>1, <2>6
  <2>8. f[b - 1] = g[b - 1] /\ p[b] = q[b]
    BY <2>6, <2>7
  <2> QED BY <2>2, <2>4, <2>8 DEF JoinAt
<1>2. k \in 0..k
  OBVIOUS
<1> QED BY <1>1, <1>2

\* Joined is the last value of a solution.
LEMMA JoinedIs ==
  ASSUME NEW pieces, NEW n \in Nat, n = Len(pieces)
  PROVE  \E f : Joins(f, pieces, n) /\ Joined(pieces) = f[n]
<1>1. PICK f : f = CHOOSE g : Joins(g, pieces, n)
  OBVIOUS
<1>2. Joins(f, pieces, n)
  BY <1>1, JoinsExists
<1>3. Joined(pieces) = f[n]
  BY <1>1 DEF Joined, Joins, JoinAt, Comma
<1> QED BY <1>2, <1>3

\* What separates a piece that follows the pieces of s.
Sep(s) == IF s = <<>> THEN <<>> ELSE <<",">>

\* No pieces.
LEMMA JoinedEmpty == Joined(<<>>) = <<>>
<1>1. 0 \in Nat /\ 0 = Len(<<>>) /\ 0 \in 0..0
  OBVIOUS
<1>2. PICK f : Joins(f, <<>>, 0) /\ Joined(<<>>) = f[0]
  BY <1>1, JoinedIs
<1>3. f[0] = JoinAt(f, <<>>, 0)
  BY <1>1, <1>2 DEF Joins
<1> QED BY <1>2, <1>3 DEF JoinAt

\* One more piece.
LEMMA JoinedAppend ==
  ASSUME NEW S, NEW p \in Seq(S), NEW x \in S
  PROVE  Joined(Append(p, x)) = Joined(p) \o Sep(p) \o x
<1>1. PICK q \in Seq(S) : q = Append(p, x)
  BY AppendProperties
<1>2. PICK n \in Nat : n = Len(p)
  OBVIOUS
<1>3. n + 1 = Len(q) /\ (\A i \in 1..n : q[i] = p[i]) /\ q[n + 1] = x
  BY <1>1, <1>2, AppendProperties
<1>4. n + 1 \in Nat /\ n <= n + 1 /\ n <= n
  OBVIOUS
<1>5. PICK f : Joins(f, p, n) /\ Joined(p) = f[n]
  BY <1>2, JoinedIs
<1>6. PICK g : Joins(g, q, n + 1) /\ Joined(q) = g[n + 1]
  BY <1>3, <1>4, JoinedIs
<1>7. g[n] = f[n]
  BY <1>3, <1>4, <1>5, <1>6, JoinsAgree
<1>8. n + 1 \in 0..(n + 1) /\ n + 1 # 0 /\ n + 1 - 1 = n
  OBVIOUS
<1>9. g[n + 1] = JoinAt(g, q, n + 1)
  BY <1>6, <1>8 DEF Joins
<1>10. g[n + 1] = g[n] \o Comma(n + 1) \o x
  <2>1. PICK j : j = n + 1 /\ j # 0
    BY <1>8
  <2>2. JoinAt(g, q, j) = g[j - 1] \o Comma(j) \o q[j]
    BY <2>1 DEF JoinAt
  <2>3. j - 1 = n /\ q[j] = x /\ g[j] = JoinAt(g, q, j)
    BY <1>3, <1>8, <1>9, <2>1
  <2>4. g[j] = g[n] \o Comma(j) \o x
    BY <2>2, <2>3
  <2> QED BY <2>1, <2>4
<1>11. Comma(n + 1) = Sep(p)
  <2>1. p = <<>> <=> n = 0
    BY <1>2, EmptySeq
  <2>2. n + 1 = 1 <=> n = 0
    OBVIOUS
  <2> QED BY <2>1, <2>2 DEF Comma, Sep
<1> QED BY <1>1, <1>5, <1>6, <1>7, <1>10, <1>11

\* A comma or nothing.
LEMMA SepType ==
  ASSUME NEW s
  PROVE  Text(Sep(s), IF s = <<>> THEN 0 ELSE 1)
<1>1. CASE s = <<>>
  BY <1>1, FormatTypes DEF Sep
<1>2. CASE s # <<>>
  BY <1>2, FormatTypes DEF Sep
<1> QED BY <1>1, <1>2

\* What is joined is a text.
LEMMA JoinedType ==
  ASSUME NEW p \in Seq(Seq(Sym))
  PROVE  Joined(p) \in Seq(Sym)
<1>1. PICK n \in Nat : n = Len(p)
  OBVIOUS
<1>2. PICK f : Joins(f, p, n) /\ Joined(p) = f[n]
  BY <1>1, JoinedIs
<1> DEFINE Bad == {i \in 0..n : f[i] \notin Seq(Sym)}
<1>3. Bad = {}
  <2> SUFFICES ASSUME Bad # {} PROVE FALSE
    OBVIOUS
  <2>1. PICK b \in Bad : \A i \in Bad : b <= i
    <3>1. Bad \subseteq Nat
      OBVIOUS
    <3> HIDE DEF Bad
    <3> QED BY <3>1, LeastNumber
  <2>2. b \in 0..n /\ f[b] \notin Seq(Sym)
    BY <2>1
  <2>3. f[b] = JoinAt(f, p, b)
    BY <1>2, <2>2 DEF Joins
  <2>4. b # 0
    BY <2>2, <2>3, FormatTypes DEF JoinAt, Text
  <2>5. b \in 1..n /\ b - 1 \in 0..n /\ ~(b <= b - 1)
    BY <2>2, <2>4
  <2>6. b - 1 \notin Bad
    <3> HIDE DEF Bad
    <3> QED BY <2>1, <2>5
  <2>7. f[b - 1] \in Seq(Sym)
    BY <2>5, <2>6
  <2>8. p[b] \in Seq(Sym)
    BY <1>1, <2>5, ElementOfSeq
  <2>9. Comma(b) \in Seq(Sym)
    BY FormatTypes DEF Comma, Text
  <2>10. f[b - 1] \o Comma(b) \in Seq(Sym)
    BY <2>7, <2>9, ConcatProperties
  <2>11. f[b - 1] \o Comma(b) \o p[b] \in Seq(Sym)
    BY <2>8, <2>10, ConcatProperties
  <2> QED BY <2>2, <2>3, <2>4, <2>11 DEF JoinAt
<1>4. n \in 0..n
  OBVIOUS
<1> QED BY <1>2, <1>3, <1>4

-----------------------------------------------------------------------------
(* The text of the sections, and of a document that is being built.        *)

FieldText(f) == Symbols("key", f.key) \o <<":">> \o Symbols("value", f.value)
Body(s)      == Joined([i \in DOMAIN s |-> FieldText(s[i])])
Section(s)   == SectionText \o Body(s) \o <<"}">>
Secs(c)      == Joined([i \in DOMAIN c |-> Section(c[i])])
Opened(c)    == StateText \o Secs(c) \o Sep(c)
Building(c, l) == (Opened(c) \o SectionText) \o (Body(l) \o Sep(l))

\* What is known of a field.
FieldFacts(f) ==
  /\ f.key \in Nat /\ f.value \in Nat
  /\ Text(FieldText(f), f.key + 1 + f.value)
  /\ Text(KeyText(f), f.key + 1)
  /\ Text(ValueText(f), IF f.value = 0 THEN 0 ELSE f.value + 1)
  /\ f.value # 0 => KeyText(f) \o ValueText(f) = FieldText(f) \o <<",">>

\* A key, a value and a field are texts.
LEMMA FieldType ==
  ASSUME NEW f \in Fields
  PROVE  FieldFacts(f)
<1>1. PICK a \in Nat, b \in Nat : a = f.key /\ b = f.value
  BY JsonAssumption
<1>2. "key" \in Sym /\ "value" \in Sym
  BY DEF Sym
<1>3. PICK k, v : k = Symbols("key", a) /\ v = Symbols("value", b)
  OBVIOUS
<1>4. Text(k, a) /\ Text(v, b)
  BY <1>2, <1>3, SymbolsType
<1>5. PICK c, d : c = <<":">> /\ d = <<",">>
  OBVIOUS
<1>6. Text(c, 1) /\ Text(d, 1)
  BY <1>5, FormatTypes
<1>7. KeyText(f) = k \o c /\ FieldText(f) = (k \o c) \o v
  BY <1>1, <1>3, <1>5 DEF KeyText, FieldText
<1>8. Text(k \o c, a + 1)
  BY <1>4, <1>6, TextConcat
<1>9. Text((k \o c) \o v, a + 1 + b)
  BY <1>4, <1>8, TextConcat
<1>10. ValueText(f) = IF b = 0 THEN <<>> ELSE v \o d
  BY <1>1, <1>3, <1>5 DEF ValueText
<1>11. Text(v \o d, b + 1)
  BY <1>4, <1>6, TextConcat
<1>12. Text(<<>>, 0)
  BY FormatTypes
<1>13. Text(ValueText(f), IF b = 0 THEN 0 ELSE b + 1)
  <2>1. CASE b = 0
    BY <1>10, <1>12, <2>1, Zenon
  <2>2. CASE b # 0
    BY <1>10, <1>11, <2>2, Zenon
  <2> QED BY <2>1, <2>2
<1>14. ((k \o c) \o v) \o d = (k \o c) \o (v \o d)
  <2>1. PICK x : x = k \o c
    OBVIOUS
  <2>2. x \in Seq(Sym) /\ v \in Seq(Sym) /\ d \in Seq(Sym)
    BY <1>4, <1>6, <1>8, <2>1 DEF Text
  <2>3. Associative(x, v, d)
    BY <2>2, TextAssociative
  <2> QED BY <2>1, <2>3 DEF Associative
<1>15. b # 0 => KeyText(f) \o ValueText(f) = FieldText(f) \o <<",">>
  BY <1>5, <1>7, <1>10, <1>14
<1>16. Text(FieldText(f), f.key + 1 + f.value) /\ Text(KeyText(f), f.key + 1)
  BY <1>1, <1>7, <1>8, <1>9
<1>17. Text(ValueText(f), IF f.value = 0 THEN 0 ELSE f.value + 1)
  BY <1>1, <1>13
<1>18. f.key \in Nat /\ f.value \in Nat /\ (f.value # 0 => KeyText(f) \o ValueText(f) = FieldText(f) \o <<",">>)
  BY <1>1, <1>15
<1> QED BY <1>16, <1>17, <1>18 DEF FieldFacts

\* The texts of the fields of a section, one more included.
LEMMA FieldsAppend ==
  ASSUME NEW s \in Seq(Fields), NEW f \in Fields
  PROVE  /\ [i \in DOMAIN s |-> FieldText(s[i])] \in Seq(Seq(Sym))
         /\ [i \in DOMAIN Append(s, f) |-> FieldText(Append(s, f)[i])]
              = Append([i \in DOMAIN s |-> FieldText(s[i])], FieldText(f))
         /\ [i \in DOMAIN s |-> FieldText(s[i])] = <<>> <=> s = <<>>
<1>1. PICK n \in Nat : n = Len(s) /\ DOMAIN s = 1..n
  OBVIOUS
<1>2. \A g \in Fields : FieldText(g) \in Seq(Sym)
  BY FieldType DEF FieldFacts, Text
<1>3. \A i \in 1..n : s[i] \in Fields
  BY <1>1, ElementOfSeq
<1>4. PICK p : p = [i \in 1..n |-> FieldText(s[i])]
  OBVIOUS
<1>5. p \in Seq(Seq(Sym)) /\ Len(p) = n
  BY <1>2, <1>3, <1>4
<1>6. PICK t \in Seq(Fields) : t = Append(s, f)
  BY AppendProperties
<1>7. Len(t) = n + 1 /\ (\A i \in 1..n : t[i] = s[i]) /\ t[n + 1] = f /\ DOMAIN t = 1..(n + 1)
  BY <1>1, <1>6, AppendProperties
<1>8. PICK q : q = [i \in 1..(n + 1) |-> FieldText(t[i])]
  OBVIOUS
<1>9. \A i \in 1..(n + 1) : t[i] \in Fields
  BY <1>6, <1>7, ElementOfSeq
<1>10. q \in Seq(Seq(Sym)) /\ Len(q) = n + 1
  BY <1>2, <1>8, <1>9
<1>11. PICK u \in Seq(Seq(Sym)) : u = Append(p, FieldText(f))
  BY <1>2, <1>5, AppendProperties
<1>12. Len(u) = n + 1 /\ (\A i \in 1..n : u[i] = p[i]) /\ u[n + 1] = FieldText(f)
  BY <1>2, <1>5, <1>11, AppendProperties
<1>13. ASSUME NEW i \in 1..(n + 1) PROVE q[i] = u[i]
  <2>1. CASE i = n + 1
    BY <1>7, <1>8, <1>12, <2>1
  <2>2. CASE i # n + 1
    <3>1. i \in 1..n
      BY <2>2
    <3> QED BY <1>4, <1>7, <1>8, <1>12, <3>1
  <2> QED BY <2>1, <2>2
<1>14. q = u
  BY <1>10, <1>12, <1>13, SeqEqual
<1>15. p = <<>> <=> s = <<>>
  BY <1>1, <1>5, EmptySeq
<1> QED BY <1>1, <1>4, <1>5, <1>6, <1>7, <1>8, <1>11, <1>14, <1>15

\* The body of a section, one more field included.
LEMMA BodyAppend ==
  ASSUME NEW s \in Seq(Fields), NEW f \in Fields
  PROVE  Body(Append(s, f)) = Body(s) \o Sep(s) \o FieldText(f)
<1>1. PICK p \in Seq(Seq(Sym)) : p = [i \in DOMAIN s |-> FieldText(s[i])]
  BY FieldsAppend
<1>2. Body(Append(s, f)) = Joined(Append(p, FieldText(f)))
  BY <1>1, FieldsAppend DEF Body
<1>3. FieldText(f) \in Seq(Sym)
  BY FieldType DEF FieldFacts, Text
<1>4. Joined(Append(p, FieldText(f))) = Joined(p) \o Sep(p) \o FieldText(f)
  BY <1>3, JoinedAppend
<1>5. Sep(p) = Sep(s)
  BY <1>1, FieldsAppend DEF Sep
<1> QED BY <1>1, <1>2, <1>4, <1>5 DEF Body

\* The body of a section is a text.
LEMMA BodyType ==
  ASSUME NEW s \in Seq(Fields)
  PROVE  \E n \in Nat : Text(Body(s), n)
<1>1. PICK n \in Nat : n = Len(s) /\ DOMAIN s = 1..n
  OBVIOUS
<1>2. \A g \in Fields : FieldText(g) \in Seq(Sym)
  BY FieldType DEF FieldFacts, Text
<1>3. \A i \in 1..n : s[i] \in Fields
  BY <1>1, ElementOfSeq
<1>4. PICK p : p = [i \in 1..n |-> FieldText(s[i])]
  OBVIOUS
<1>5. p \in Seq(Seq(Sym))
  BY <1>2, <1>3, <1>4
<1>6. Joined(p) \in Seq(Sym)
  BY <1>5, JoinedType
<1>7. Body(s) = Joined(p)
  BY <1>1, <1>4 DEF Body
<1>8. Text(Body(s), Len(Body(s)))
  BY <1>6, <1>7, TextLen
<1> QED BY <1>8 DEF Text

\* A section is a text.
LEMMA SectionType ==
  ASSUME NEW s \in Seq(Fields)
  PROVE  \E n \in Nat : Text(Body(s), n) /\ Text(SectionText \o Body(s), 3 + n) /\ Text(Section(s), 3 + n + 1)
<1>1. PICK n \in Nat : Text(Body(s), n)
  BY BodyType
<1>2. Text(SectionText, 3) /\ Text(<<"}">>, 1)
  BY FormatTypes
<1>3. Text(SectionText \o Body(s), 3 + n)
  BY <1>1, <1>2, TextConcat
<1>4. Text((SectionText \o Body(s)) \o <<"}">>, 3 + n + 1)
  BY <1>2, <1>3, TextConcat
<1> QED BY <1>1, <1>3, <1>4 DEF Section

\* The texts of the sections of a document, one more included.
LEMMA SectionsAppend ==
  ASSUME NEW c \in Seq(Seq(Fields)), NEW l \in Seq(Fields)
  PROVE  /\ [i \in DOMAIN c |-> Section(c[i])] \in Seq(Seq(Sym))
         /\ [i \in DOMAIN Append(c, l) |-> Section(Append(c, l)[i])]
              = Append([i \in DOMAIN c |-> Section(c[i])], Section(l))
         /\ [i \in DOMAIN c |-> Section(c[i])] = <<>> <=> c = <<>>
<1>1. PICK n \in Nat : n = Len(c) /\ DOMAIN c = 1..n
  OBVIOUS
<1>2. \A g \in Seq(Fields) : Section(g) \in Seq(Sym)
  BY SectionType DEF Text
<1>3. \A i \in 1..n : c[i] \in Seq(Fields)
  BY <1>1, ElementOfSeq
<1>4. PICK p : p = [i \in 1..n |-> Section(c[i])]
  OBVIOUS
<1>5. p \in Seq(Seq(Sym)) /\ Len(p) = n
  BY <1>2, <1>3, <1>4
<1>6. PICK t \in Seq(Seq(Fields)) : t = Append(c, l)
  BY AppendProperties
<1>7. Len(t) = n + 1 /\ (\A i \in 1..n : t[i] = c[i]) /\ t[n + 1] = l /\ DOMAIN t = 1..(n + 1)
  BY <1>1, <1>6, AppendProperties
<1>8. PICK q : q = [i \in 1..(n + 1) |-> Section(t[i])]
  OBVIOUS
<1>9. \A i \in 1..(n + 1) : t[i] \in Seq(Fields)
  BY <1>6, <1>7, ElementOfSeq
<1>10. q \in Seq(Seq(Sym)) /\ Len(q) = n + 1
  BY <1>2, <1>8, <1>9
<1>11. PICK u \in Seq(Seq(Sym)) : u = Append(p, Section(l))
  BY <1>2, <1>5, AppendProperties
<1>12. Len(u) = n + 1 /\ (\A i \in 1..n : u[i] = p[i]) /\ u[n + 1] = Section(l)
  BY <1>2, <1>5, <1>11, AppendProperties
<1>13. ASSUME NEW i \in 1..(n + 1) PROVE q[i] = u[i]
  <2>1. CASE i = n + 1
    BY <1>7, <1>8, <1>12, <2>1
  <2>2. CASE i # n + 1
    <3>1. i \in 1..n
      BY <2>2
    <3> QED BY <1>4, <1>7, <1>8, <1>12, <3>1
  <2> QED BY <2>1, <2>2
<1>14. q = u
  BY <1>10, <1>12, <1>13, SeqEqual
<1>15. p = <<>> <=> c = <<>>
  BY <1>1, <1>5, EmptySeq
<1> QED BY <1>1, <1>4, <1>5, <1>6, <1>7, <1>8, <1>11, <1>14, <1>15

\* The sections of a document, one more included.
LEMMA SecsAppend ==
  ASSUME NEW c \in Seq(Seq(Fields)), NEW l \in Seq(Fields)
  PROVE  Secs(Append(c, l)) = Secs(c) \o Sep(c) \o Section(l)
<1>1. PICK p \in Seq(Seq(Sym)) : p = [i \in DOMAIN c |-> Section(c[i])]
  BY SectionsAppend
<1>2. Secs(Append(c, l)) = Joined(Append(p, Section(l)))
  BY <1>1, SectionsAppend DEF Secs
<1>3. Section(l) \in Seq(Sym)
  BY SectionType DEF Text
<1>4. Joined(Append(p, Section(l))) = Joined(p) \o Sep(p) \o Section(l)
  BY <1>3, JoinedAppend
<1>5. Sep(p) = Sep(c)
  BY <1>1, SectionsAppend DEF Sep
<1> QED BY <1>1, <1>2, <1>4, <1>5 DEF Secs

\* The sections of a document are a text.
LEMMA SecsType ==
  ASSUME NEW c \in Seq(Seq(Fields))
  PROVE  \E n \in Nat : Text(Secs(c), n)
<1>1. PICK n \in Nat : n = Len(c) /\ DOMAIN c = 1..n
  OBVIOUS
<1>2. \A g \in Seq(Fields) : Section(g) \in Seq(Sym)
  BY SectionType DEF Text
<1>3. \A i \in 1..n : c[i] \in Seq(Fields)
  BY <1>1, ElementOfSeq
<1>4. PICK p : p = [i \in 1..n |-> Section(c[i])]
  OBVIOUS
<1>5. p \in Seq(Seq(Sym))
  BY <1>2, <1>3, <1>4
<1>6. Joined(p) \in Seq(Sym)
  BY <1>5, JoinedType
<1>7. Secs(c) = Joined(p)
  BY <1>1, <1>4 DEF Secs
<1>8. Text(Secs(c), Len(Secs(c)))
  BY <1>6, <1>7, TextLen
<1> QED BY <1>8 DEF Text

\* No fields, no sections.
LEMMA NothingYet == Body(<<>>) = <<>> /\ Secs(<<>>) = <<>> /\ Opened(<<>>) = StateText
<1>1. DOMAIN <<>> = {}
  OBVIOUS
<1>2. [i \in DOMAIN <<>> |-> FieldText((<<>>)[i])] = <<>>
  OBVIOUS
<1>3. [i \in DOMAIN <<>> |-> Section((<<>>)[i])] = <<>>
  OBVIOUS
<1>4. Body(<<>>) = <<>> /\ Secs(<<>>) = <<>>
  BY <1>2, <1>3, JoinedEmpty DEF Body, Secs
<1>5. Text(StateText, 4)
  BY FormatTypes
<1>6. (StateText \o <<>>) \o <<>> = StateText
  BY <1>5, TextEmpty
<1> QED BY <1>4, <1>6 DEF Opened, Sep

\* The lengths of the sections so far: w symbols, with a comma behind them if there are any.
Width(c, w) == Text(StateText \o Secs(c), w) /\ Text(Opened(c), w + (IF c = <<>> THEN 0 ELSE 1))

\* The text of the sections has a length.
LEMMA WidthExists ==
  ASSUME NEW c \in Seq(Seq(Fields))
  PROVE  \E w \in Nat : w >= 4 /\ Width(c, w)
<1>1. PICK n \in Nat : Text(Secs(c), n)
  BY SecsType
<1>2. Text(StateText, 4)
  BY FormatTypes
<1>3. PICK w \in Nat : w = 4 + n /\ w >= 4
  OBVIOUS
<1>4. Text(StateText \o Secs(c), w)
  BY <1>1, <1>2, <1>3, TextConcat
<1>5. PICK e : e = IF c = <<>> THEN 0 ELSE 1
  OBVIOUS
<1>6. Text(Sep(c), e)
  BY <1>5, SepType
<1>7. Text((StateText \o Secs(c)) \o Sep(c), w + e)
  BY <1>4, <1>6, TextConcat
<1> QED BY <1>3, <1>4, <1>5, <1>7 DEF Width, Opened

\* The brace that ends a section or the state, and what follows it.
LEMMA EndIs ==
  /\ <<"}">> \o <<",">> = EndText
  /\ <<"}">> \o <<",", "clientToken", ":", "quote">> = TokenNameText
<1>1. PICK a, b, c, d, e : a = "}" /\ b = "," /\ c = "clientToken" /\ d = ":" /\ e = "quote"
  OBVIOUS
<1>2. <<a>> \o <<b>> = <<a, b>>
  <2>1. PICK S : a \in S /\ b \in S
    <3>1. a \in {a, b} /\ b \in {a, b}
      OBVIOUS
    <3> QED BY <3>1
  <2>2. PICK p, q, r : p = <<a>> /\ q = <<b>> /\ r = <<a, b>>
    OBVIOUS
  <2> p \in Seq(S) /\ q \in Seq(S) /\ r \in Seq(S)
    BY <2>1, <2>2
  <2>3. Len(p) = 1 /\ Len(q) = 1 /\ Len(r) = 2 /\ p[1] = a /\ q[1] = b /\ r[1] = a /\ r[2] = b
    BY <2>2
  <2>4. p \o q \in Seq(S) /\ Len(p \o q) = 2
    BY <2>3, ConcatProperties
  <2>5. ASSUME NEW i \in 1..2 PROVE (p \o q)[i] = r[i]
    BY <2>3, ConcatProperties
  <2>6. p \o q = r
    BY <2>3, <2>4, <2>5, SeqEqual
  <2> QED BY <2>2, <2>6
<1>3. <<a>> \o <<b, c, d, e>> = <<a, b, c, d, e>>
  <2>1. PICK S : a \in S /\ b \in S /\ c \in S /\ d \in S /\ e \in S
    <3>1. a \in {a, b, c, d, e} /\ b \in {a, b, c, d, e} /\ c \in {a, b, c, d, e}
          /\ d \in {a, b, c, d, e} /\ e \in {a, b, c, d, e}
      OBVIOUS
    <3> QED BY <3>1
  <2>2. PICK p, q, r : p = <<a>> /\ q = <<b, c, d, e>> /\ r = <<a, b, c, d, e>>
    OBVIOUS
  <2> p \in Seq(S) /\ q \in Seq(S) /\ r \in Seq(S)
    BY <2>1, <2>2
  <2>3. Len(p) = 1 /\ Len(q) = 4 /\ Len(r) = 5
    BY <2>2
  <2>4. /\ p[1] = a /\ q[1] = b /\ q[2] = c /\ q[3] = d /\ q[4] = e
        /\ r[1] = a /\ r[2] = b /\ r[3] = c /\ r[4] = d /\ r[5] = e
    BY <2>2
  <2> DEFINE pq == p \o q
  <2>5. /\ pq \in Seq(S) /\ Len(pq) = Len(p) + Len(q)
        /\ \A i \in 1..(Len(p) + Len(q)) : pq[i] = IF i <= Len(p) THEN p[i] ELSE q[i - Len(p)]
    BY ConcatProperties
  <2> HIDE DEF pq
  <2>6. Len(pq) = 5 /\ \A i \in 1..5 : pq[i] = IF i <= 1 THEN p[i] ELSE q[i - 1]
    BY <2>3, <2>5
  <2>7. pq[1] = p[1] /\ pq[2] = q[1] /\ pq[3] = q[2] /\ pq[4] = q[3] /\ pq[5] = q[4]
    BY <2>6
  <2>8. ASSUME NEW i \in 1..5 PROVE pq[i] = r[i]
    <3>1. i = 1 \/ i = 2 \/ i = 3 \/ i = 4 \/ i = 5
      OBVIOUS
    <3> QED BY <2>4, <2>7, <3>1
  <2>9. pq = r
    BY <2>3, <2>5, <2>8, <2>6, SeqEqual
  <2> QED BY <2>2, <2>9 DEF pq
<1> QED BY <1>1, <1>2, <1>3 DEF EndText, TokenNameText

\* A sequence with one more element is not empty.
LEMMA AppendNotEmpty ==
  ASSUME NEW S, NEW s \in Seq(S), NEW x \in S
  PROVE  Append(s, x) # <<>>
<1>1. Len(Append(s, x)) = Len(s) + 1 /\ Len(s) \in Nat
  BY AppendProperties
<1>2. Len(Append(s, x)) # 0
  BY <1>1
<1>3. Len(<<>>) = 0
  OBVIOUS
<1> QED BY <1>2, <1>3, Zenon

\* One more section: its text is behind that of the others.
LEMMA OpenedAppend ==
  ASSUME NEW c \in Seq(Seq(Fields)), NEW l \in Seq(Fields)
  PROVE  /\ StateText \o Secs(Append(c, l)) = Opened(c) \o Section(l)
         /\ Opened(Append(c, l)) = ((Opened(c) \o SectionText) \o Body(l)) \o EndText
<1>1. PICK a, b, e, s, y, x : a = StateText /\ b = Secs(c) /\ e = Sep(c) /\ s = SectionText /\ y = Body(l) /\ x = <<"}">>
  OBVIOUS
<1>2. a \in Seq(Sym) /\ b \in Seq(Sym) /\ e \in Seq(Sym) /\ s \in Seq(Sym) /\ y \in Seq(Sym) /\ x \in Seq(Sym)
  BY <1>1, FormatTypes, SecsType, SepType, BodyType DEF Text
<1>3. PICK d : d = <<",">>
  OBVIOUS
<1>4. d \in Seq(Sym)
  BY <1>3, FormatTypes DEF Text
<1>5. Section(l) = (s \o y) \o x
  BY <1>1 DEF Section
<1>6. Opened(c) = (a \o b) \o e
  BY <1>1 DEF Opened
<1>7. PICK o \in Seq(Sym), z \in Seq(Sym), g \in Seq(Sym) :
        o = (a \o b) \o e /\ z = (s \o y) \o x /\ g = b \o e
  <2>1. a \o b \in Seq(Sym) /\ s \o y \in Seq(Sym) /\ b \o e \in Seq(Sym)
    BY <1>2, ConcatProperties
  <2>2. (a \o b) \o e \in Seq(Sym) /\ (s \o y) \o x \in Seq(Sym)
    BY <1>2, <2>1, ConcatProperties
  <2> QED BY <2>1, <2>2
<1>8. Secs(Append(c, l)) = g \o z
  BY <1>1, <1>5, <1>7, SecsAppend
<1>9. a \o (g \o z) = o \o z
  <2>1. Associative(a, g, z) /\ Associative(a, b, e)
    BY <1>2, TextAssociative
  <2>2. a \o g = o
    BY <1>7, <2>1, Zenon DEF Associative
  <2> QED BY <2>1, <2>2, Zenon DEF Associative
<1>10. StateText \o Secs(Append(c, l)) = Opened(c) \o Section(l)
  BY <1>1, <1>5, <1>6, <1>7, <1>8, <1>9
<1>11. Append(c, l) # <<>>
  BY AppendNotEmpty
<1>12. Opened(Append(c, l)) = (o \o z) \o d
  BY <1>3, <1>5, <1>6, <1>7, <1>10, <1>11 DEF Opened, Sep
<1>13. EndText = x \o d
  BY <1>1, <1>3, EndIs
<1>14. (o \o z) \o d = ((o \o s) \o y) \o (x \o d)
  <2>1. PICK q \in Seq(Sym), r \in Seq(Sym), t \in Seq(Sym) : q = s \o y /\ r = o \o q /\ t = o \o s
    <3>1. s \o y \in Seq(Sym) /\ o \o s \in Seq(Sym)
      BY <1>2, <1>7, ConcatProperties
    <3>2. o \o (s \o y) \in Seq(Sym)
      BY <1>7, <3>1, ConcatProperties
    <3> QED BY <3>1, <3>2
  <2>2. Associative(o, q, x) /\ Associative(r, x, d) /\ Associative(o, s, y)
    BY <1>2, <1>4, TextAssociative
  <2>3. r \o x = o \o z /\ t \o y = r
    BY <1>7, <2>1, <2>2, Zenon DEF Associative
  <2> QED BY <2>1, <2>2, <2>3, Zenon DEF Associative
<1> QED BY <1>1, <1>6, <1>7, <1>10, <1>12, <1>13, <1>14

\* The document of its sections.
LEMMA DocumentIs ==
  ASSUME NEW c \in Seq(Seq(Fields))
  PROVE  Document(c) = (((StateText \o Secs(c)) \o TokenNameText) \o TokenText) \o FinalText
<1>1. PICK a, x, y : a = StateText \o Secs(c) /\ x = <<"}">> /\ y = <<",", "clientToken", ":", "quote">>
  OBVIOUS
<1>2. Document(c) = (((a \o x) \o y) \o TokenText) \o FinalText
  BY <1>1 DEF Document, StateText, Secs, Section, SectionText, Body, FieldText, FinalText
<1>3. TokenNameText = x \o y
  BY <1>1, EndIs
<1>4. a \in Seq(Sym) /\ x \in Seq(Sym) /\ y \in Seq(Sym)
  <2>1. x \in Seq(Sym) /\ y \in Seq(Sym)
    BY <1>1, FormatTypes DEF Text
  <2>2. a \in Seq(Sym)
    BY <1>1, WidthExists DEF Width, Text
  <2> QED BY <2>1, <2>2
<1>5. Associative(a, x, y)
  BY <1>4, TextAssociative
<1> QED BY <1>1, <1>2, <1>3, <1>5, Zenon DEF Associative

\* The token is a text.
LEMMA TokenType == Text(TokenText, TokenLen)
<1>1. "token" \in Sym
  BY DEF Sym
<1> QED BY <1>1, SymbolsType, JsonAssumption DEF TokenText

\* The length of a document.
LEMMA DocumentLen ==
  ASSUME NEW c \in Seq(Seq(Fields)), NEW w \in Nat, Width(c, w)
  PROVE  Len(Document(c)) = w + 7 + TokenLen
<1>1. Text(StateText \o Secs(c), w) /\ Text(TokenNameText, 5) /\ Text(TokenText, TokenLen) /\ Text(FinalText, 2)
  BY FormatTypes, TokenType DEF Width
<1>2. Text((StateText \o Secs(c)) \o TokenNameText, w + 5)
  BY <1>1, TextConcat
<1>3. Text(((StateText \o Secs(c)) \o TokenNameText) \o TokenText, w + 5 + TokenLen)
  BY <1>1, <1>2, TextConcat
<1>4. Text((((StateText \o Secs(c)) \o TokenNameText) \o TokenText) \o FinalText, w + 5 + TokenLen + 2)
  BY <1>1, <1>3, TextConcat
<1>5. Len(Document(c)) = w + 5 + TokenLen + 2
  BY <1>4, DocumentIs DEF Text
<1> QED BY <1>5, JsonAssumption

-----------------------------------------------------------------------------
(* What snprintf writes.                                                   *)

\* The number of symbols that are written is at most the length of the text, and all of them are
\* there when the call succeeds.
WrittenFacts(w, t, n, s, max) ==
  /\ w \in Seq(Sym) /\ Len(w) <= n + Len(s) /\ n <= Len(w)
  /\ Check(s, max) = "SUCCESS" => w = SubSeq(t, 1, n) \o s /\ Len(w) = n + Len(s)

\* snprintf writes a text behind the first symbols of another, with a limit.
LEMMA WrittenIs ==
  ASSUME NEW t \in Seq(Sym), NEW n \in 0..Len(t), NEW s \in Seq(Sym), NEW max \in Nat, max # 0
  PROVE  WrittenFacts(Written(t, n, s, max), t, n, s, max)
<1>1. PICK k \in Nat, l \in Nat : k = Len(s) /\ l = Len(t) /\ n <= l
  OBVIOUS
<1>2. PICK m \in Nat : m = (IF k < max THEN k ELSE max - 1) /\ m <= k
  OBVIOUS
<1>3. PICK p \in Seq(Sym) : p = SubSeq(t, 1, n) /\ Len(p) = n
  <2>1. SubSeq(t, 1, n) \in Seq(Sym) /\ Len(SubSeq(t, 1, n)) = n
    BY <1>1, SubSeqProperties
  <2> QED BY <2>1
<1>4. PICK q \in Seq(Sym) : q = SubSeq(s, 1, m) /\ Len(q) = m
  <2>1. SubSeq(s, 1, m) \in Seq(Sym) /\ Len(SubSeq(s, 1, m)) = m
    BY <1>1, <1>2, SubSeqProperties
  <2> QED BY <2>1
<1>5. Written(t, n, s, max) = p \o q
  BY <1>1, <1>2, <1>3, <1>4 DEF Written
<1>6. p \o q \in Seq(Sym) /\ Len(p \o q) = n + m
  BY <1>3, <1>4, ConcatProperties
<1>7. ASSUME Check(s, max) = "SUCCESS" PROVE q = s
  <2>1. m = k
    BY <1>1, <1>2, <1>7 DEF Check
  <2>2. \A i \in 1..k : q[i] = s[i]
    BY <1>1, <1>4, <2>1, SubSeqProperties
  <2> QED BY <1>1, <1>4, <2>1, <2>2, SeqEqual
<1>8. n \in Nat /\ n + m <= n + k /\ n <= n + m
  BY <1>2
<1>9. Len(Written(t, n, s, max)) <= n + Len(s) /\ n <= Len(Written(t, n, s, max))
  BY <1>1, <1>5, <1>6, <1>8
<1>10. Check(s, max) = "SUCCESS" => Len(Written(t, n, s, max)) = n + Len(s)
  BY <1>4, <1>5, <1>6, <1>7
<1> QED BY <1>3, <1>5, <1>6, <1>7, <1>9, <1>10 DEF WrittenFacts

\* All but the last symbol of a text.
LEMMA DropLast ==
  ASSUME NEW p \in Seq(Sym), NEW d \in Seq(Sym), Len(d) = 1
  PROVE  p \o d \in Seq(Sym) /\ Len(p \o d) = Len(p) + 1 /\ SubSeq(p \o d, 1, Len(p \o d) - 1) = p
<1>1. PICK n \in Nat : n = Len(p)
  OBVIOUS
<1>2. PICK t : t = p \o d
  OBVIOUS
<1>3. t \in Seq(Sym) /\ Len(t) = n + 1 /\ \A i \in 1..n : t[i] = p[i]
  <2>1. p \o d \in Seq(Sym)
    BY ConcatProperties
  <2>2. Len(p \o d) = Len(p) + Len(d)
    BY ConcatProperties
  <2>3. \A i \in 1..Len(p) : (p \o d)[i] = p[i]
    BY ConcatProperties
  <2> QED BY <1>1, <1>2, <2>1, <2>2, <2>3
<1>4. \A i \in 1..n : t[i] \in Sym
  BY <1>3, ElementOfSeq
<1>5. SubSeq(t, 1, n) \in Seq(Sym) /\ Len(SubSeq(t, 1, n)) = n
  BY <1>4, SubSeqProperties
<1>6. \A i \in 1..n : SubSeq(t, 1, n)[i] = t[i]
  BY <1>4, SubSeqProperties
<1>7. SubSeq(t, 1, n) = p
  BY <1>1, <1>3, <1>5, <1>6, SeqEqual
<1>8. Len(t) - 1 = n
  BY <1>3
<1> QED BY <1>1, <1>2, <1>3, <1>7, <1>8

\* A number below the number of values of a size_t is itself.
LEMMA Modulo ==
  ASSUME NEW x \in Int, NEW m \in Nat, m # 0
  PROVE  x % m \in 0..(m - 1) /\ (x \in 0..(m - 1) => x % m = x)
OBVIOUS

-----------------------------------------------------------------------------
(* The lengths of a document that is being built.                          *)

\* The sections c are o symbols long, the fields of l, in the section behind them, are b.
Measure(c, l, o, b, e) ==
  /\ e = (IF l = <<>> THEN 0 ELSE 1)
  /\ Len(Opened(c)) = o /\ Len(Body(l)) = b /\ Len(Building(c, l)) = o + 3 + b + e
  /\ Len(Opened(Append(c, l))) = o + 3 + b + 2
  /\ Len(Document(Append(c, l))) = o + 3 + b + 1 + 7 + TokenLen

\* A section that has been opened is a text.
LEMMA BuildingType ==
  ASSUME NEW c \in Seq(Seq(Fields)), NEW l \in Seq(Fields)
  PROVE  /\ Opened(c) \in Seq(Sym) /\ Opened(c) \o SectionText \in Seq(Sym)
         /\ Body(l) \in Seq(Sym) /\ Sep(l) \in Seq(Sym) /\ Body(l) \o Sep(l) \in Seq(Sym)
         /\ Building(c, l) \in Seq(Sym)
<1>1. PICK o, s, b, e : o = Opened(c) /\ s = SectionText /\ b = Body(l) /\ e = Sep(l)
  OBVIOUS
<1>2. o \in Seq(Sym)
  BY <1>1, WidthExists DEF Width, Text
<1>3. s \in Seq(Sym) /\ b \in Seq(Sym) /\ e \in Seq(Sym)
  BY <1>1, FormatTypes, BodyType, SepType DEF Text
<1>4. o \o s \in Seq(Sym) /\ b \o e \in Seq(Sym)
  BY <1>2, <1>3, ConcatProperties
<1>5. (o \o s) \o (b \o e) \in Seq(Sym)
  BY <1>4, ConcatProperties
<1> QED BY <1>1, <1>2, <1>3, <1>4, <1>5 DEF Building

\* Every document that is being built has its lengths.
LEMMA Measured ==
  ASSUME NEW c \in Seq(Seq(Fields)), NEW l \in Seq(Fields)
  PROVE  \E o \in Nat, b \in Nat, e \in Nat : Measure(c, l, o, b, e)
<1>1. PICK o \in Nat : Text(Opened(c), o)
  BY WidthExists DEF Width, Text
<1>2. PICK b \in Nat : Text(Body(l), b)
  BY BodyType
<1>3. PICK e \in Nat : e = IF l = <<>> THEN 0 ELSE 1
  OBVIOUS
<1>4. Text(SectionText, 3) /\ Text(EndText, 2) /\ Text(Sep(l), e) /\ Text(<<"}">>, 1)
  BY <1>3, FormatTypes, SepType
<1>5. Text(Opened(c) \o SectionText, o + 3)
  BY <1>1, <1>4, TextConcat
<1>6. Text(Body(l) \o Sep(l), b + e)
  BY <1>2, <1>4, TextConcat
<1>7. Text(Building(c, l), (o + 3) + (b + e))
  BY <1>5, <1>6, TextConcat DEF Building
<1>8. Text((Opened(c) \o SectionText) \o Body(l), o + 3 + b)
  BY <1>2, <1>5, TextConcat
<1>9. Text(Opened(Append(c, l)), o + 3 + b + 2)
  BY <1>4, <1>8, TextConcat, OpenedAppend
<1>10. Text(SectionText \o Body(l), 3 + b)
  BY <1>2, <1>4, TextConcat
<1>11. Text(Section(l), 3 + b + 1)
  BY <1>4, <1>10, TextConcat DEF Section
<1>12. Text(StateText \o Secs(Append(c, l)), o + (3 + b + 1))
  BY <1>1, <1>11, TextConcat, OpenedAppend
<1>13. Append(c, l) \in Seq(Seq(Fields))
  BY AppendProperties
<1>14. PICK w \in Nat : Width(Append(c, l), w)
  BY <1>13, WidthExists
<1>15. w = o + (3 + b + 1)
  BY <1>12, <1>14 DEF Width, Text
<1>16. Len(Document(Append(c, l))) = w + 7 + TokenLen
  BY <1>13, <1>14, DocumentLen
<1>17. TokenLen \in Nat
  BY JsonAssumption
<1>18. Len(Document(Append(c, l))) = o + 3 + b + 1 + 7 + TokenLen
  BY <1>15, <1>16, <1>17
<1>19. Len(Building(c, l)) = o + 3 + b + e
  BY <1>7 DEF Text
<1> QED BY <1>1, <1>2, <1>3, <1>9, <1>18, <1>19 DEF Measure, Text

\* One more field makes the body longer by its comma and its text.
LEMMA MeasuredField ==
  ASSUME NEW c \in Seq(Seq(Fields)), NEW l \in Seq(Fields), NEW f \in Fields,
         NEW o \in Nat, NEW b \in Nat, NEW e \in Nat, Measure(c, l, o, b, e)
  PROVE  Measure(c, Append(l, f), o, b + e + f.key + 1 + f.value, 1)
<1>1. PICK k \in Nat, v \in Nat : k = f.key /\ v = f.value /\ Text(FieldText(f), k + 1 + v)
  BY FieldType DEF FieldFacts
<1>2. Text(Body(l), b)
  BY BodyType DEF Measure, Text
<1>3. Text(Sep(l), e)
  BY SepType DEF Measure
<1>4. Text(Body(l) \o Sep(l), b + e)
  BY <1>2, <1>3, TextConcat
<1>5. Text(Body(Append(l, f)), b + e + (k + 1 + v))
  BY <1>1, <1>4, TextConcat, BodyAppend
<1>6. Append(l, f) \in Seq(Fields) /\ Append(l, f) # <<>>
  BY AppendProperties
<1>7. PICK p \in Nat, q \in Nat, r \in Nat : Measure(c, Append(l, f), p, q, r)
  BY <1>6, Measured
<1>8. p = o /\ q = b + e + (k + 1 + v) /\ r = 1
  BY <1>5, <1>6, <1>7 DEF Measure, Text
<1>9. q = b + e + f.key + 1 + f.value
  BY <1>1, <1>8
<1> QED BY <1>7, <1>8, <1>9

\* The field goes to the last section.
LEMMA InSectionIs ==
  ASSUME NEW c \in Seq(Seq(Fields)), NEW l \in Seq(Fields), NEW f \in Fields
  PROVE  [Append(c, l) EXCEPT ![Len(Append(c, l))] = Append(@, f)] = Append(c, Append(l, f))
<1>1. PICK m \in Seq(Fields) : m = Append(l, f)
  BY AppendProperties
<1>2. PICK n \in Nat : n = Len(c)
  OBVIOUS
<1>3. PICK s \in Seq(Seq(Fields)) : s = Append(c, l)
  BY AppendProperties
<1>4. PICK t \in Seq(Seq(Fields)) : t = Append(c, m)
  BY AppendProperties
<1>5. Len(s) = n + 1 /\ s[n + 1] = l /\ \A i \in 1..n : s[i] = c[i]
  BY <1>2, <1>3, AppendProperties
<1>6. Len(t) = n + 1 /\ t[n + 1] = m /\ \A i \in 1..n : t[i] = c[i]
  BY <1>2, <1>4, AppendProperties
<1>7. n + 1 \in 1..Len(s)
  BY <1>5
<1>8. PICK u : u = [s EXCEPT ![n + 1] = m]
  OBVIOUS
<1>9. /\ u \in Seq(Seq(Fields)) /\ Len(u) = Len(s)
      /\ \A i \in 1..Len(s) : u[i] = IF i = n + 1 THEN m ELSE s[i]
  BY <1>7, <1>8, ExceptSeq
<1>10. ASSUME NEW i \in 1..(n + 1) PROVE u[i] = t[i]
  <2>1. u[i] = IF i = n + 1 THEN m ELSE s[i]
    BY <1>5, <1>9
  <2>2. CASE i = n + 1
    BY <1>6, <2>1, <2>2
  <2>3. CASE i # n + 1
    <3>1. i \in 1..n
      BY <2>3
    <3> QED BY <1>5, <1>6, <2>1, <2>3, <3>1
  <2> QED BY <2>2, <2>3
<1>11. u = t
  BY <1>5, <1>6, <1>9, <1>10, SeqEqual
<1>12. [s EXCEPT ![Len(s)] = Append(@, f)] = [s EXCEPT ![n + 1] = m]
  BY <1>1, <1>5
<1> QED BY <1>1, <1>3, <1>4, <1>8, <1>11, <1>12

-----------------------------------------------------------------------------
(* What each call adds to the text.                                        *)

\* The section is opened.
LEMMA BeginExact ==
  ASSUME NEW c \in Seq(Seq(Fields))
  PROVE  Building(c, <<>>) = Opened(c) \o SectionText
<1>1. PICK x : x = Opened(c) \o SectionText /\ x \in Seq(Sym)
  <2>1. <<>> \in Seq(Fields)
    OBVIOUS
  <2> QED BY <2>1, BuildingType
<1>2. Body(<<>>) = <<>> /\ Sep(<<>>) = <<>>
  BY NothingYet DEF Sep
<1>3. <<>> \o <<>> = <<>> /\ x \o <<>> = x
  BY <1>1, FormatTypes, TextEmpty, TextLen
<1> QED BY <1>1, <1>2, <1>3, Zenon DEF Building

\* A key and a value with its comma are a field with its comma.
LEMMA FieldExact ==
  ASSUME NEW c \in Seq(Seq(Fields)), NEW l \in Seq(Fields), NEW f \in Fields, f.value # 0
  PROVE  (Building(c, l) \o KeyText(f)) \o ValueText(f) = Building(c, Append(l, f))
<1>1. PICK x \in Seq(Sym), y \in Seq(Sym), z \in Seq(Sym) :
        x = Opened(c) \o SectionText /\ y = Body(l) \o Sep(l) /\ z = Building(c, l)
  BY BuildingType
<1>2. z = x \o y
  BY <1>1 DEF Building
<1>3. PICK k \in Seq(Sym), v \in Seq(Sym), g \in Seq(Sym), d \in Seq(Sym) :
        k = KeyText(f) /\ v = ValueText(f) /\ g = FieldText(f) /\ d = <<",">>
  <2>1. KeyText(f) \in Seq(Sym) /\ ValueText(f) \in Seq(Sym) /\ FieldText(f) \in Seq(Sym)
    BY FieldType DEF FieldFacts, Text
  <2>2. <<",">> \in Seq(Sym)
    BY FormatTypes DEF Text
  <2> QED BY <2>1, <2>2
<1>4. k \o v = g \o d
  BY <1>3, FieldType DEF FieldFacts
<1>5. PICK h \in Seq(Sym), i \in Seq(Sym) : h = g \o d /\ i = y \o g
  <2>1. g \o d \in Seq(Sym) /\ y \o g \in Seq(Sym)
    BY ConcatProperties
  <2> QED BY <2>1
<1>6. Associative(z, k, v) /\ Associative(x, y, h) /\ Associative(y, g, d)
  BY TextAssociative
<1>7. (z \o k) \o v = x \o (y \o h)
  BY <1>2, <1>4, <1>5, <1>6, Zenon DEF Associative
<1>8. y \o h = i \o d
  BY <1>5, <1>6, Zenon DEF Associative
<1>9. Append(l, f) # <<>>
  BY AppendProperties
<1>10. Sep(Append(l, f)) = d
  BY <1>3, <1>9 DEF Sep
<1>11. Body(Append(l, f)) = i
  BY <1>1, <1>3, <1>5, BodyAppend
<1>12. Building(c, Append(l, f)) = x \o (i \o d)
  BY <1>1, <1>10, <1>11, Zenon DEF Building
<1> QED BY <1>1, <1>3, <1>7, <1>8, <1>12, Zenon

\* The end of a section goes over the comma of its last field.
LEMMA EndExact ==
  ASSUME NEW c \in Seq(Seq(Fields)), NEW l \in Seq(Fields), l # <<>>
  PROVE  SubSeq(Building(c, l), 1, Len(Building(c, l)) - 1) \o EndText = Opened(Append(c, l))
<1>1. PICK x \in Seq(Sym), y \in Seq(Sym), d \in Seq(Sym) :
        x = Opened(c) \o SectionText /\ y = Body(l) /\ d = <<",">>
  <2>1. <<",">> \in Seq(Sym)
    BY FormatTypes DEF Text
  <2> QED BY <2>1, BuildingType
<1>2. Sep(l) = d /\ Len(d) = 1
  BY <1>1, FormatTypes DEF Sep, Text
<1>3. Building(c, l) = x \o (y \o d)
  BY <1>1, <1>2, Zenon DEF Building
<1>4. Associative(x, y, d)
  BY TextAssociative
<1>5. PICK p \in Seq(Sym) : p = x \o y
  BY ConcatProperties
<1>6. Building(c, l) = p \o d
  BY <1>3, <1>4, <1>5, Zenon DEF Associative
<1>7. SubSeq(p \o d, 1, Len(p \o d) - 1) = p
  BY <1>2, DropLast
<1>8. Opened(Append(c, l)) = p \o EndText
  BY <1>1, <1>5, OpenedAppend
<1> QED BY <1>6, <1>7, <1>8, Zenon

\* The end of the state goes over the comma of the last section.
LEMMA FinalExact ==
  ASSUME NEW c \in Seq(Seq(Fields)), c # <<>>
  PROVE  ((SubSeq(Opened(c), 1, Len(Opened(c)) - 1) \o TokenNameText) \o TokenText) \o FinalText = Document(c)
<1>1. PICK p \in Seq(Sym), d \in Seq(Sym) : p = StateText \o Secs(c) /\ d = <<",">>
  <2>1. <<",">> \in Seq(Sym)
    BY FormatTypes DEF Text
  <2>2. StateText \o Secs(c) \in Seq(Sym)
    BY WidthExists DEF Width, Text
  <2> QED BY <2>1, <2>2
<1>2. Sep(c) = d /\ Len(d) = 1
  BY <1>1, FormatTypes DEF Sep, Text
<1>3. Opened(c) = p \o d
  BY <1>1, <1>2, Zenon DEF Opened
<1>4. SubSeq(p \o d, 1, Len(p \o d) - 1) = p
  BY <1>2, DropLast
<1>5. SubSeq(Opened(c), 1, Len(Opened(c)) - 1) = StateText \o Secs(c)
  BY <1>1, <1>3, <1>4, Zenon
<1> QED BY <1>5, DocumentIs, Zenon

-----------------------------------------------------------------------------
(* The inductive invariant.                                                *)

\* Every field of a section has a value, and no section is empty.
Valued(l) == \A j \in DOMAIN l : l[j].value # 0
Closed(c) == \A i \in DOMAIN c : c[i] # <<>> /\ Valued(c[i])

\* Between two calls the text is that of the sections, with a comma behind each.  Empty sections
\* and fields without a value can only make it shorter.
Between(secs, t) ==
  /\ Closed(secs) => t = Opened(secs)
  /\ Len(t) <= Len(Opened(secs))

\* Inside a call, l is the section that is being written, behind c.  When the document fits, the
\* limit of the last field is enough for the end of the section.
Inside(secs, t, sz, r, c, l) ==
  /\ secs = Append(c, l)
  /\ Closed(c) /\ Valued(l) => t = Building(c, l)
  /\ Len(t) <= Len(Building(c, l))
  /\ Len(Document(secs)) < sz => r >= 3

\* The buffer holds a text; between two calls it is not empty, the document is not yet final,
\* and a section is written with a limit of two symbols at least.
TextInv ==
  /\ text \in Seq(Sym)
  /\ pc # "idle" => final = FALSE /\ Len(text) >= 1
  /\ pc = "section" => rem >= 2

BuildInv ==
  /\ TypeOK
  /\ TextInv
  /\ pc = "document" => Between(sections, text)
  /\ pc = "section" =>
       \E c \in Seq(Seq(Fields)), l \in Seq(Fields) : Inside(sections, text, size, rem, c, l)
  /\ DocumentExact
  /\ EnoughIsEnough

\* The sections of a document with one more section.
LEMMA ClosedAppend ==
  ASSUME NEW c \in Seq(Seq(Fields)), NEW l \in Seq(Fields), Closed(Append(c, l))
  PROVE  Closed(c) /\ l # <<>> /\ Valued(l)
<1>1. PICK n \in Nat : n = Len(c) /\ DOMAIN c = 1..n
  OBVIOUS
<1>2. PICK s \in Seq(Seq(Fields)) : s = Append(c, l)
  BY AppendProperties
<1>3. Len(s) = n + 1 /\ s[n + 1] = l /\ \A i \in 1..n : s[i] = c[i]
  BY <1>1, <1>2, AppendProperties
<1>4. DOMAIN s = 1..(n + 1) /\ n + 1 \in 1..(n + 1) /\ \A i \in 1..n : i \in 1..(n + 1)
  BY <1>3
<1>5. \A i \in 1..(n + 1) : s[i] # <<>> /\ Valued(s[i])
  BY <1>2, <1>4 DEF Closed
<1>6. l # <<>> /\ Valued(l)
  BY <1>3, <1>4, <1>5
<1>7. \A i \in 1..n : c[i] # <<>> /\ Valued(c[i])
  BY <1>3, <1>4, <1>5
<1> QED BY <1>1, <1>6, <1>7 DEF Closed

\* The fields of a section with one more field.
LEMMA ValuedAppend ==
  ASSUME NEW l \in Seq(Fields), NEW f \in Fields, Valued(Append(l, f))
  PROVE  Valued(l) /\ f.value # 0
<1>1. PICK n \in Nat : n = Len(l) /\ DOMAIN l = 1..n
  OBVIOUS
<1>2. PICK s \in Seq(Fields) : s = Append(l, f)
  BY AppendProperties
<1>3. Len(s) = n + 1 /\ s[n + 1] = f /\ \A i \in 1..n : s[i] = l[i]
  BY <1>1, <1>2, AppendProperties
<1>4. DOMAIN s = 1..(n + 1) /\ n + 1 \in 1..(n + 1) /\ \A i \in 1..n : i \in 1..(n + 1)
  BY <1>3
<1>5. \A i \in 1..(n + 1) : s[i].value # 0
  BY <1>2, <1>4 DEF Valued
<1>6. f.value # 0
  BY <1>3, <1>4, <1>5
<1>7. \A i \in 1..n : l[i].value # 0
  BY <1>3, <1>4, <1>5
<1> QED BY <1>1, <1>6, <1>7 DEF Valued

\* What is left of the buffer, as long as the text does not run over its end.
LEMMA RoomIs ==
  ASSUME size \in Sizes, NEW t \in Seq(Sym)
  PROVE  Room(t) \in 0..(SizeT - 1) /\ (Len(t) <= size => Room(t) = size - Len(t))
<1>1. PICK m \in Nat : m = SizeT /\ m # 0 /\ size \in 1..(m - 1)
  BY JsonAssumption
<1>2. PICK x \in Int : x = size - Len(t)
  BY <1>1
<1>3. x % m \in 0..(m - 1) /\ (x \in 0..(m - 1) => x % m = x)
  BY <1>1, Modulo
<1>4. Len(t) <= size => x \in 0..(m - 1)
  BY <1>1, <1>2
<1> QED BY <1>1, <1>2, <1>3, <1>4 DEF Room

\* A new document.
LEMMA InitStep ==
  ASSUME InitDocument
  PROVE  BuildInv'
<1>1. PICK z \in Nat : z = size' /\ z \in Sizes /\ z # 0 /\ 0 \in 0..(SizeT - 1)
  BY JsonAssumption DEF InitDocument
<1>2. StateText \in Seq(Sym) /\ Len(StateText) = 4 /\ <<>> \in Seq(Sym) /\ 0 \in 0..Len(<<>>)
  <2>1. Text(StateText, 4) /\ Text(<<>>, 0)
    BY FormatTypes
  <2>2. 0 \in 0..0
    OBVIOUS
  <2> QED BY <2>1, <2>2 DEF Text
<1>3. PICK w : w = Written(<<>>, 0, StateText, z)
  OBVIOUS
<1>4. WrittenFacts(w, <<>>, 0, StateText, z)
  BY <1>1, <1>2, <1>3, WrittenIs
<1>5. SubSeq(<<>>, 1, 0) \o StateText = StateText
  <2>1. SubSeq(<<>>, 1, 0) = <<>>
    BY SubSeqEmpty
  <2>2. <<>> \o StateText = StateText
    BY FormatTypes, TextEmpty
  <2> QED BY <2>1, <2>2
<1>6. w \in Seq(Sym) /\ Len(w) <= 4 /\ (Check(StateText, z) = "SUCCESS" => w = StateText)
  BY <1>2, <1>4, <1>5 DEF WrittenFacts
<1>7. /\ text' = w /\ rc' = Check(StateText, z) /\ rem' = 0 /\ sections' = <<>> /\ final' = FALSE
      /\ pc' = IF rc' = "SUCCESS" THEN "document" ELSE "idle"
  BY <1>1, <1>3 DEF InitDocument
<1>8. rc' = IF 4 >= z THEN "TRUNCATED" ELSE "SUCCESS"
  BY <1>2, <1>7 DEF Check
<1>9. TypeOK'
  <2>1. sections' \in Seq(Seq(Fields))
    BY <1>7
  <2> QED BY <1>1, <1>7, <1>8, <2>1 DEF TypeOK
<1>10. TextInv'
  BY SMTT(30), <1>2, <1>6, <1>7 DEF TextInv
<1>11. pc' = "document" => Between(sections', text')
  <2>1. pc' = "document" => text' = Opened(<<>>)
    BY <1>6, <1>7, NothingYet
  <2>2. Len(Opened(<<>>)) <= Len(Opened(<<>>))
    BY <1>2, NothingYet
  <2> QED BY <1>7, <2>1, <2>2 DEF Between
<1>12. pc' # "section"
  BY <1>7
<1>13. DocumentExact'
  BY <1>7 DEF DocumentExact
<1>14. Len(Document(<<>>)) = 11 + TokenLen
  <2>1. <<>> \in Seq(Seq(Fields))
    OBVIOUS
  <2>2. PICK c \in Seq(Seq(Fields)) : c = <<>>
    BY <2>1
  <2>3. PICK v \in Nat : Width(c, v)
    BY WidthExists
  <2>4. v = 4
    <3>1. StateText \o <<>> = StateText
      BY <1>2, TextEmpty, TextLen
    <3>2. Text(StateText, v)
      BY <2>3, <2>2, <3>1, NothingYet DEF Width
    <3> QED BY <1>2, <3>2 DEF Text
  <2>5. Len(Document(<<>>)) = v + 7 + TokenLen
    BY <2>3, <2>2, DocumentLen
  <2> QED BY <2>4, <2>5, JsonAssumption
<1>15. EnoughIsEnough'
  <2>1. 11 + TokenLen < z => rc' = "SUCCESS" /\ Len(w) < z
    BY <1>1, <1>6, <1>8, JsonAssumption
  <2> QED BY <1>1, <1>7, <1>14, <2>1 DEF EnoughIsEnough
<1> QED BY <1>9, <1>10, <1>11, <1>12, <1>13, <1>15 DEF BuildInv

\* A buffer with more than k symbols left behind the first m has more than k left behind the text.
LEMMA RoomEnough ==
  ASSUME size \in Sizes, NEW t \in Seq(Sym), NEW m \in Nat, NEW k \in Nat, Len(t) <= m, m + k < size
  PROVE  Room(t) > k /\ Len(t) < size
<1>1. size \in Nat /\ Len(t) \in Nat
  BY JsonAssumption
<1>2. Len(t) <= size
  BY <1>1
<1>3. Room(t) = size - Len(t)
  BY <1>2, RoomIs
<1> QED BY <1>1, <1>3

\* A text is written with what is left of the buffer for its limit.
LEMMA WrittenBehind ==
  ASSUME NEW t \in Seq(Sym), NEW s \in Seq(Sym), NEW max \in Nat, max # 0
  PROVE  /\ Written(t, Len(t), s, max) \in Seq(Sym)
         /\ Len(Written(t, Len(t), s, max)) <= Len(t) + Len(s)
         /\ Len(t) <= Len(Written(t, Len(t), s, max))
         /\ Check(s, max) = "SUCCESS" => Written(t, Len(t), s, max) = t \o s
<1>1. Len(t) \in 0..Len(t)
  OBVIOUS
<1>2. WrittenFacts(Written(t, Len(t), s, max), t, Len(t), s, max)
  BY <1>1, WrittenIs
<1>3. SubSeq(t, 1, Len(t)) = t
  BY SubSeqFull
<1> QED BY <1>2, <1>3 DEF WrittenFacts

\* A call begins a section.
LEMMA BeginStep ==
  ASSUME BuildInv, BeginSection
  PROVE  BuildInv'
<1>1. /\ size \in Sizes /\ text \in Seq(Sym) /\ sections \in Seq(Seq(Fields)) /\ rem \in 0..(SizeT - 1)
      /\ pc = "document" /\ final = FALSE /\ Len(text) >= 1
  BY DEF BuildInv, TypeOK, TextInv, BeginSection
<1>2. Between(sections, text)
  BY <1>1 DEF BuildInv
<1>3. PICK c \in Seq(Seq(Fields)), l \in Seq(Fields) : c = sections /\ l = <<>>
  <2>1. <<>> \in Seq(Fields)
    OBVIOUS
  <2> QED BY <1>1, <2>1
<1>4. PICK o \in Nat, b \in Nat, e \in Nat : Measure(c, l, o, b, e)
  BY Measured
<1>5. b = 0 /\ e = 0
  <2>1. Len(<<>>) = 0
    OBVIOUS
  <2> QED BY <1>3, <1>4, <2>1, NothingYet DEF Measure
<1>6. Len(text) <= o /\ Len(Building(c, l)) = o + 3 /\ Len(Document(Append(c, l))) = o + 11 + TokenLen
  <2>1. TokenLen \in Nat
    BY JsonAssumption
  <2> QED BY <1>2, <1>3, <1>4, <1>5, <2>1 DEF Between, Measure
<1>7. sections' = Append(c, l) /\ size' = size /\ final' = FALSE
  BY <1>1, <1>3 DEF BeginSection
<1>8. sections' \in Seq(Seq(Fields))
  BY <1>7, AppendProperties
<1>9. o + (11 + TokenLen) < size => Room(text) > 11 + TokenLen /\ Len(text) < size
  <2>1. 11 + TokenLen \in Nat
    BY JsonAssumption
  <2> QED BY <1>1, <1>6, <2>1, RoomEnough
<1>10. PICK r \in Nat : r = Room(text) /\ r \in 0..(SizeT - 1)
  <2>1. Room(text) \in 0..(SizeT - 1)
    BY <1>1, RoomIs
  <2> QED BY <2>1, JsonAssumption
<1>11. size \in Nat /\ TokenLen \in Nat /\ Len(text) \in Nat
  BY <1>1, JsonAssumption
<1>12. DocumentExact'
  BY <1>7 DEF DocumentExact
<1>13. CASE Full
  <2>1. rc' = "ERROR" /\ pc' = "idle" /\ text' = text /\ rem' = rem
    BY <1>13 DEF BeginSection, Fail
  <2>2. TypeOK' /\ TextInv'
    BY <1>1, <1>7, <1>8, <2>1 DEF TypeOK, TextInv
  <2>3. ~(o + (11 + TokenLen) < size)
    BY <1>9, <1>10, <1>11, <1>13 DEF Full
  <2>4. EnoughIsEnough'
    <3>1. ~(Len(Document(sections')) < size')
      BY <1>6, <1>7, <1>11, <2>3
    <3> QED BY <3>1 DEF EnoughIsEnough
  <2> QED BY <1>12, <2>1, <2>2, <2>4 DEF BuildInv
<1>14. CASE ~Full
  <2>1. r >= 2 /\ r # 0
    BY <1>10, <1>14 DEF Full
  <2>2. PICK w : w = Written(text, Len(text), SectionText, r)
    OBVIOUS
  <2>3. rem' = r /\ text' = w /\ rc' = Check(SectionText, r) /\ pc' = IF rc' = "SUCCESS" THEN "section" ELSE "idle"
    BY <1>10, <1>14, <2>2 DEF BeginSection
  <2>4. SectionText \in Seq(Sym) /\ Len(SectionText) = 3
    BY FormatTypes DEF Text
  <2>5. /\ w \in Seq(Sym) /\ Len(w) <= Len(text) + 3 /\ Len(text) <= Len(w)
        /\ rc' = "SUCCESS" => w = text \o SectionText
    BY <1>1, <2>1, <2>2, <2>3, <2>4, WrittenBehind
  <2>6. rc' = IF 3 >= r THEN "TRUNCATED" ELSE "SUCCESS"
    BY <2>3, <2>4 DEF Check
  <2>7. Len(w) \in Nat
    BY <2>5
  <2>8. TypeOK'
    BY <1>1, <1>7, <1>8, <1>10, <2>3, <2>6 DEF TypeOK
  <2>9. TextInv'
    BY <1>1, <1>7, <1>11, <2>1, <2>3, <2>5, <2>7 DEF TextInv
  <2>10. pc' # "document"
    BY <2>3
  <2>11. ASSUME pc' = "section" PROVE Inside(sections', text', size', rem', c, l)
    <3>1. Closed(c) => text' = Building(c, l)
      BY <1>2, <1>3, <2>3, <2>5, <2>11, BeginExact DEF Between
    <3>2. Len(text') <= Len(Building(c, l))
      BY <1>6, <1>11, <2>3, <2>5, <2>7
    <3>3. rem' >= 3
      BY <2>3, <2>6, <2>11
    <3> QED BY <1>7, <3>1, <3>2, <3>3 DEF Inside
  <2>12. EnoughIsEnough'
    <3>1. ASSUME Len(Document(sections')) < size' PROVE rc' = "SUCCESS" /\ Len(text') < size'
      <4>1. o + (11 + TokenLen) < size
        BY <1>6, <1>7, <1>11, <3>1
      <4>2. r > 11 + TokenLen
        BY <1>9, <1>10, <4>1
      <4>3. Len(w) < size
        BY <1>6, <1>11, <2>5, <2>7, <4>1
      <4> QED BY <1>7, <1>11, <2>3, <2>6, <4>2, <4>3
    <3> QED BY <3>1 DEF EnoughIsEnough
  <2> QED BY <1>12, <2>8, <2>9, <2>10, <2>11, <2>12 DEF BuildInv
<1> QED BY <1>13, <1>14

\* The section that is being written, with n symbols, and the same one with the field f.
Grows(c, l, f, n) ==
  /\ Inside(sections, text, size, rem, c, l)
  /\ Len(Building(c, l)) = n
  /\ InSection(f) = Append(c, Append(l, f)) /\ InSection(f) \in Seq(Seq(Fields))
  /\ Len(Building(c, Append(l, f))) = n + f.key + f.value + 2
  /\ Len(Document(InSection(f))) = n + f.key + f.value + 9 + TokenLen

\* A field makes the document longer by its own text and a comma.
LEMMA FieldGrows ==
  ASSUME BuildInv, pc = "section", NEW f \in Fields
  PROVE  \E c \in Seq(Seq(Fields)), l \in Seq(Fields), n \in Nat : Grows(c, l, f, n)
<1>1. PICK c \in Seq(Seq(Fields)), l \in Seq(Fields) : Inside(sections, text, size, rem, c, l)
  BY DEF BuildInv
<1>2. sections = Append(c, l)
  BY <1>1 DEF Inside
<1>3. InSection(f) = Append(c, Append(l, f))
  BY <1>2, InSectionIs DEF InSection
<1>4. Append(l, f) \in Seq(Fields)
  BY AppendProperties
<1>5. InSection(f) \in Seq(Seq(Fields))
  BY <1>3, <1>4, AppendProperties
<1>6. PICK o \in Nat, b \in Nat, e \in Nat : Measure(c, l, o, b, e)
  BY Measured
<1>7. PICK k \in Nat, v \in Nat : k = f.key /\ v = f.value
  BY FieldType DEF FieldFacts
<1>8. Measure(c, Append(l, f), o, b + e + k + 1 + v, 1)
  BY <1>6, <1>7, MeasuredField
<1>9. PICK n \in Nat : n = o + 3 + b + e
  OBVIOUS
<1>10. TokenLen \in Nat
  BY JsonAssumption
<1>11. Len(Building(c, l)) = n
  BY <1>6, <1>9 DEF Measure
<1>12. Len(Building(c, Append(l, f))) = o + 3 + (b + e + k + 1 + v) + 1
  BY <1>8 DEF Measure
<1>13. Len(Document(Append(c, Append(l, f)))) = o + 3 + (b + e + k + 1 + v) + 1 + 7 + TokenLen
  BY <1>8 DEF Measure
<1>14. Len(Building(c, Append(l, f))) = n + k + v + 2
  BY <1>9, <1>12
<1>15. Len(Document(InSection(f))) = n + k + v + 9 + TokenLen
  BY <1>3, <1>9, <1>10, <1>13
<1>16. Grows(c, l, f, n)
  BY <1>1, <1>3, <1>5, <1>7, <1>11, <1>14, <1>15 DEF Grows
<1> QED BY <1>16

\* A field is added to the section.
LEMMA AddStep ==
  ASSUME BuildInv, NEW f \in Fields, AddField(f)
  PROVE  BuildInv'
<1>1. /\ size \in Sizes /\ text \in Seq(Sym) /\ rem \in 0..(SizeT - 1)
      /\ pc = "section" /\ final = FALSE /\ Len(text) >= 1
  BY DEF BuildInv, TypeOK, TextInv, AddField
<1>2. PICK c \in Seq(Seq(Fields)), l \in Seq(Fields), n \in Nat : Grows(c, l, f, n)
  BY <1>1, FieldGrows
<1>3. PICK m \in Seq(Fields) : m = Append(l, f)
  BY AppendProperties
<1>4. PICK k \in Nat, v \in Nat : k = f.key /\ v = f.value
  BY FieldType DEF FieldFacts
<1>5. sections' = InSection(f) /\ size' = size /\ final' = FALSE
  BY <1>1 DEF AddField
<1>6. /\ sections' = Append(c, m) /\ sections' \in Seq(Seq(Fields))
      /\ Len(Building(c, m)) = n + k + v + 2
      /\ Len(Document(sections')) = n + k + v + 9 + TokenLen
  BY <1>2, <1>3, <1>4, <1>5 DEF Grows
<1>7. Len(text) <= n /\ (Closed(c) /\ Valued(l) => text = Building(c, l))
  BY <1>2 DEF Grows, Inside
<1>8. size \in Nat /\ TokenLen \in Nat /\ Len(text) \in Nat
  BY <1>1, JsonAssumption
<1>9. n + (k + v + 9 + TokenLen) < size => Room(text) > k + v + 9 + TokenLen /\ Len(text) < size
  <2>1. k + v + 9 + TokenLen \in Nat
    BY <1>8
  <2> QED BY <1>1, <1>7, <2>1, RoomEnough
<1>10. PICK r \in Nat : r = Room(text) /\ r \in 0..(SizeT - 1)
  <2>1. Room(text) \in 0..(SizeT - 1)
    BY <1>1, RoomIs
  <2> QED BY <2>1, JsonAssumption
<1>11. DocumentExact'
  BY <1>5 DEF DocumentExact
<1>12. Len(Document(sections')) < size' => r > k + v + 9 + TokenLen /\ n + k + v + 9 + TokenLen < size
  <2>1. n + k + v + 9 + TokenLen = n + (k + v + 9 + TokenLen)
    BY <1>8
  <2> QED BY <1>5, <1>6, <1>9, <1>10, <2>1
<1>13. CASE Full
  <2>1. rc' = "ERROR" /\ pc' = "idle" /\ text' = text /\ rem' = rem
    BY <1>13 DEF AddField, Fail
  <2>2. TypeOK' /\ TextInv'
    BY <1>1, <1>5, <1>6, <2>1 DEF TypeOK, TextInv
  <2>3. ~(Len(Document(sections')) < size')
    BY <1>8, <1>10, <1>12, <1>13 DEF Full
  <2>4. EnoughIsEnough'
    BY <2>3 DEF EnoughIsEnough
  <2> QED BY <1>11, <2>1, <2>2, <2>4 DEF BuildInv
<1>14. CASE ~Full
  <2>1. r >= 2 /\ r # 0
    BY <1>10, <1>14 DEF Full
  <2>2. PICK y, z : y = KeyText(f) /\ z = ValueText(f)
    OBVIOUS
  <2>3. y \in Seq(Sym) /\ Len(y) = k + 1 /\ z \in Seq(Sym) /\ Len(z) = IF v = 0 THEN 0 ELSE v + 1
    BY <1>4, <2>2, FieldType DEF FieldFacts, Text
  <2>4. PICK w : w = Written(text, Len(text), y, r)
    OBVIOUS
  <2>5. /\ w \in Seq(Sym) /\ Len(w) <= Len(text) + (k + 1) /\ Len(text) <= Len(w)
        /\ Check(y, r) = "SUCCESS" => w = text \o y
    BY <1>1, <2>1, <2>3, <2>4, WrittenBehind
  <2>6. PICK u : u = Written(w, Len(w), z, r)
    OBVIOUS
  <2>7. /\ u \in Seq(Sym) /\ Len(u) <= Len(w) + Len(z) /\ Len(w) <= Len(u)
        /\ Check(z, r) = "SUCCESS" => u = w \o z
    BY <2>1, <2>3, <2>5, <2>6, WrittenBehind
  <2>8. Len(w) \in Nat /\ Len(u) \in Nat /\ Len(z) \in Nat /\ Len(z) <= v + 1
    BY <2>3, <2>5, <2>7
  <2>9. Check(y, r) = (IF k + 1 >= r THEN "TRUNCATED" ELSE "SUCCESS") /\ Check(z, r) = IF Len(z) >= r THEN "TRUNCATED" ELSE "SUCCESS"
    BY <2>3 DEF Check
  <2>10. /\ rem' = r
         /\ IF Check(y, r) # "SUCCESS" THEN text' = w /\ rc' = "TRUNCATED" /\ pc' = "idle"
            ELSE /\ text' = u
                 /\ rc' = Check(z, r)
                 /\ pc' = IF rc' = "SUCCESS" THEN "section" ELSE "idle"
    BY <1>10, <1>14, <2>2, <2>4, <2>6 DEF AddField, Fail
  <2>11. text' \in Seq(Sym) /\ Len(text') <= Len(text) + k + v + 2 /\ Len(text) <= Len(text') /\ Len(text') \in Nat
    <3>1. CASE Check(y, r) # "SUCCESS"
      <4>1. text' = w
        BY <2>10, <3>1
      <4> QED BY <1>8, <2>5, <2>8, <4>1
    <3>2. CASE Check(y, r) = "SUCCESS"
      <4>1. text' = u
        BY <2>10, <3>2
      <4> QED BY <1>8, <2>5, <2>7, <2>8, <4>1
    <3> QED BY <3>1, <3>2
  <2>12. rc' \in {"SUCCESS", "TRUNCATED"} /\ pc' \in {"section", "idle"} /\ (pc' # "idle" => rc' = "SUCCESS")
    BY <2>9, <2>10
  <2>13. TypeOK'
    BY <1>1, <1>5, <1>6, <1>10, <2>10, <2>12 DEF TypeOK
  <2>14. TextInv'
    BY <1>1, <1>5, <1>8, <2>1, <2>10, <2>11 DEF TextInv
  <2>15. pc' # "document"
    BY <2>12
  <2>16. ASSUME pc' = "section" PROVE Inside(sections', text', size', rem', c, m)
    <3>1. Check(y, r) = "SUCCESS" /\ text' = u /\ Check(z, r) = "SUCCESS"
      BY <2>10, <2>16
    <3>2. text' = (text \o y) \o z
      BY <2>5, <2>7, <3>1
    <3>3. ASSUME Closed(c), Valued(m) PROVE text' = Building(c, m)
      <4>1. Valued(l) /\ f.value # 0
        BY <1>3, <3>3, ValuedAppend
      <4>2. text = Building(c, l)
        BY <1>7, <3>3, <4>1
      <4>3. (Building(c, l) \o y) \o z = Building(c, m)
        BY <1>3, <2>2, <4>1, FieldExact
      <4> QED BY <3>2, <4>2, <4>3
    <3>4. Len(text') <= Len(Building(c, m))
      BY <1>6, <1>7, <1>8, <2>11
    <3>5. Len(Document(sections')) < size' => rem' >= 3
      BY <1>8, <1>12, <2>10
    <3> QED BY <1>6, <3>3, <3>4, <3>5 DEF Inside
  <2>17. EnoughIsEnough'
    <3>1. ASSUME Len(Document(sections')) < size' PROVE rc' = "SUCCESS" /\ Len(text') < size'
      <4>1. k + 1 < r /\ Len(z) < r
        BY <1>8, <1>12, <2>8, <3>1
      <4>2. rc' = "SUCCESS"
        BY <2>8, <2>9, <2>10, <4>1
      <4>3. Len(text') < size
        BY <1>7, <1>8, <1>12, <2>11, <3>1
      <4> QED BY <1>5, <4>2, <4>3
    <3> QED BY <3>1 DEF EnoughIsEnough
  <2> QED BY <1>11, <2>13, <2>14, <2>15, <2>16, <2>17 DEF BuildInv
<1> QED BY <1>13, <1>14

\* The key of a field without data is written, and the call fails.
LEMMA MissingDataStep ==
  ASSUME BuildInv, NEW f \in Fields, MissingData(f)
  PROVE  BuildInv'
<1>1. /\ size \in Sizes /\ text \in Seq(Sym) /\ rem \in 0..(SizeT - 1)
      /\ pc = "section" /\ final = FALSE
  BY DEF BuildInv, TypeOK, TextInv, MissingData
<1>2. PICK c \in Seq(Seq(Fields)), l \in Seq(Fields), n \in Nat : Grows(c, l, f, n)
  BY <1>1, FieldGrows
<1>3. PICK k \in Nat, v \in Nat : k = f.key /\ v = f.value
  BY FieldType DEF FieldFacts
<1>4. sections' = InSection(f) /\ size' = size /\ final' = FALSE /\ pc' = "idle"
  BY <1>1 DEF MissingData, Fail
<1>5. sections' \in Seq(Seq(Fields)) /\ Len(Document(sections')) = n + k + v + 9 + TokenLen /\ Len(text) <= n
  BY <1>2, <1>3, <1>4 DEF Grows, Inside
<1>6. size \in Nat /\ TokenLen \in Nat /\ Len(text) \in Nat
  BY <1>1, JsonAssumption
<1>7. n + (k + v + 9 + TokenLen) < size => Room(text) > k + v + 9 + TokenLen /\ Len(text) < size
  <2>1. k + v + 9 + TokenLen \in Nat
    BY <1>6
  <2> QED BY <1>1, <1>5, <2>1, RoomEnough
<1>8. PICK r \in Nat : r = Room(text) /\ r \in 0..(SizeT - 1)
  <2>1. Room(text) \in 0..(SizeT - 1)
    BY <1>1, RoomIs
  <2> QED BY <2>1, JsonAssumption
<1>9. Len(Document(sections')) < size' => r > k + v + 9 + TokenLen /\ n + k + v + 9 + TokenLen < size
  <2>1. n + k + v + 9 + TokenLen = n + (k + v + 9 + TokenLen)
    BY <1>6
  <2> QED BY <1>4, <1>5, <1>7, <1>8, <2>1
<1>10. DocumentExact'
  BY <1>4 DEF DocumentExact
<1>11. CASE Full
  <2>1. rc' = "ERROR" /\ text' = text /\ rem' = rem
    BY <1>11 DEF MissingData, Fail
  <2>2. TypeOK' /\ TextInv'
    BY <1>1, <1>4, <1>5, <2>1 DEF TypeOK, TextInv
  <2>3. ~(Len(Document(sections')) < size')
    BY <1>6, <1>8, <1>9, <1>11 DEF Full
  <2>4. EnoughIsEnough'
    BY <2>3 DEF EnoughIsEnough
  <2> QED BY <1>4, <1>10, <2>2, <2>4 DEF BuildInv
<1>12. CASE ~Full
  <2>1. r # 0
    BY <1>8, <1>12 DEF Full
  <2>2. KeyText(f) \in Seq(Sym) /\ Len(KeyText(f)) = k + 1
    BY <1>3, FieldType DEF FieldFacts, Text
  <2>3. PICK w : w = Written(text, Len(text), KeyText(f), r)
    OBVIOUS
  <2>4. w \in Seq(Sym) /\ Len(w) <= Len(text) + (k + 1)
    BY <1>1, <2>1, <2>2, <2>3, WrittenBehind
  <2>5. rem' = r /\ text' = w /\ rc' = IF Check(KeyText(f), r) = "SUCCESS" THEN "NULL_VALUE" ELSE "TRUNCATED"
    BY <1>8, <1>12, <2>3 DEF MissingData, Fail
  <2>6. TypeOK' /\ TextInv'
    BY <1>1, <1>4, <1>5, <1>8, <2>4, <2>5 DEF TypeOK, TextInv
  <2>7. EnoughIsEnough'
    <3>1. ASSUME Len(Document(sections')) < size' PROVE rc' = "NULL_VALUE" /\ Len(text') < size'
      <4>1. Check(KeyText(f), r) = "SUCCESS"
        BY <1>6, <1>9, <2>2, <3>1 DEF Check
      <4>2. Len(w) \in Nat
        BY <2>4
      <4>3. Len(w) < size
        BY <1>5, <1>6, <1>9, <2>4, <3>1, <4>2
      <4> QED BY <1>4, <2>5, <4>1, <4>3
    <3> QED BY <3>1 DEF EnoughIsEnough
  <2> QED BY <1>4, <1>10, <2>6, <2>7 DEF BuildInv
<1> QED BY <1>11, <1>12

\* The list of fields has a hole, and the call fails.
LEMMA MissingFieldStep ==
  ASSUME BuildInv, MissingField
  PROVE  BuildInv'
<1>1. /\ size \in Sizes /\ text \in Seq(Sym) /\ rem \in 0..(SizeT - 1) /\ sections \in Seq(Seq(Fields))
      /\ pc = "section" /\ final = FALSE /\ EnoughIsEnough /\ rc = "SUCCESS"
  BY DEF BuildInv, TypeOK, TextInv, MissingField
<1>2. /\ size' = size /\ text' = text /\ sections' = sections /\ final' = FALSE /\ pc' = "idle"
      /\ rem' = (IF Full THEN rem ELSE Room(text))
      /\ rc' = (IF Full THEN "ERROR" ELSE "NULL_VALUE")
  BY <1>1 DEF MissingField, Fail
<1>3. Room(text) \in 0..(SizeT - 1)
  BY <1>1, RoomIs
<1>4. rem' \in 0..(SizeT - 1) /\ rc' \in {"ERROR", "NULL_VALUE"}
  BY <1>1, <1>2, <1>3
<1>5. TypeOK' /\ TextInv'
  BY <1>1, <1>2, <1>4 DEF TypeOK, TextInv
<1>6. DocumentExact'
  BY <1>2 DEF DocumentExact
<1>7. PICK c \in Seq(Seq(Fields)), l \in Seq(Fields) : Inside(sections, text, size, rem, c, l)
  BY <1>1 DEF BuildInv
<1>8. PICK o \in Nat, b \in Nat, e \in Nat : Measure(c, l, o, b, e) /\ e <= 1
  <2>1. PICK o \in Nat, b \in Nat, e \in Nat : Measure(c, l, o, b, e)
    BY Measured
  <2>2. e <= 1
    BY <2>1 DEF Measure
  <2> QED BY <2>1, <2>2
<1>9. TokenLen \in Nat /\ size \in Nat
  BY <1>1, JsonAssumption
<1>10. Len(text) <= o + 3 + b + e /\ Len(Document(sections)) = o + 3 + b + 1 + 7 + TokenLen
  BY <1>7, <1>8 DEF Inside, Measure
<1>11. ASSUME Len(Document(sections)) < size PROVE ~Full /\ Len(text) < size
  <2>1. PICK m \in Nat : m = o + 3 + b + e
    OBVIOUS
  <2>2. m + 7 < size
    BY <1>8, <1>9, <1>10, <1>11, <2>1
  <2>3. Room(text) > 7 /\ Len(text) < size
    BY <1>1, <1>10, <2>1, <2>2, RoomEnough
  <2>4. Room(text) \in Int
    BY <1>3
  <2> QED BY <2>3, <2>4 DEF Full
<1>12. EnoughIsEnough'
  BY <1>2, <1>11 DEF EnoughIsEnough
<1> QED BY <1>2, <1>5, <1>6, <1>12 DEF BuildInv

\* The call ends its section.
LEMMA EndStep ==
  ASSUME BuildInv, EndSection
  PROVE  BuildInv'
<1>1. /\ size \in Sizes /\ text \in Seq(Sym) /\ rem \in 0..(SizeT - 1) /\ sections \in Seq(Seq(Fields))
      /\ pc = "section" /\ final = FALSE /\ Len(text) >= 1 /\ rem >= 2
  BY DEF BuildInv, TypeOK, TextInv, EndSection
<1>2. /\ size' = size /\ sections' = sections /\ final' = FALSE /\ rem' = rem
      /\ text' = Written(text, Len(text) - 1, EndText, rem) /\ rc' = Check(EndText, rem)
      /\ pc' = IF rc' = "SUCCESS" THEN "document" ELSE "idle"
  BY <1>1 DEF EndSection
<1>3. EndText \in Seq(Sym) /\ Len(EndText) = 2
  BY FormatTypes DEF Text
<1>4. PICK n \in Nat : n = Len(text) - 1 /\ n \in 0..Len(text) /\ Len(text) = n + 1
  <2>1. PICK k \in Nat : k = Len(text) /\ k >= 1
    BY <1>1
  <2>2. k - 1 \in Nat /\ k - 1 \in 0..k /\ k = k - 1 + 1
    BY <2>1
  <2> QED BY <2>1, <2>2
<1>5. rem \in Nat /\ rem # 0
  BY <1>1, JsonAssumption
<1>6. WrittenFacts(text', text, n, EndText, rem)
  BY <1>1, <1>2, <1>3, <1>4, <1>5, WrittenIs
<1>7. /\ text' \in Seq(Sym) /\ Len(text') <= n + 2 /\ n <= Len(text')
      /\ rc' = "SUCCESS" => text' = SubSeq(text, 1, n) \o EndText /\ Len(text') = n + 2
  BY <1>2, <1>3, <1>6 DEF WrittenFacts
<1>8. rc' = IF 2 >= rem THEN "TRUNCATED" ELSE "SUCCESS"
  BY <1>2, <1>3 DEF Check
<1>9. Len(text') \in Nat
  BY <1>7
<1>10. TypeOK'
  BY <1>1, <1>2, <1>8 DEF TypeOK
<1>11. TextInv'
  <2>1. ASSUME rc' = "SUCCESS" PROVE Len(text') >= 1
    BY <1>7, <2>1
  <2> QED BY <1>2, <1>7, <2>1 DEF TextInv
<1>12. PICK c \in Seq(Seq(Fields)), l \in Seq(Fields) : Inside(sections, text, size, rem, c, l)
  BY <1>1 DEF BuildInv
<1>13. PICK o \in Nat, b \in Nat, e \in Nat : Measure(c, l, o, b, e) /\ e <= 1
  <2>1. PICK o \in Nat, b \in Nat, e \in Nat : Measure(c, l, o, b, e)
    BY Measured
  <2>2. e <= 1
    BY <2>1 DEF Measure
  <2> QED BY <2>1, <2>2
<1>14. /\ Len(text) <= o + 3 + b + e /\ Len(Document(sections)) = o + 3 + b + 1 + 7 + TokenLen
       /\ Len(Opened(sections)) = o + 3 + b + 2
  BY <1>12, <1>13 DEF Inside, Measure
<1>15. pc' = "document" => Between(sections', text')
  <2>1. ASSUME rc' = "SUCCESS", Closed(sections) PROVE text' = Opened(sections)
    <3>1. sections = Append(c, l)
      BY <1>12 DEF Inside
    <3>2. Closed(c) /\ l # <<>> /\ Valued(l)
      BY <2>1, <3>1, ClosedAppend
    <3>3. text = Building(c, l)
      BY <1>12, <3>2 DEF Inside
    <3>4. SubSeq(Building(c, l), 1, Len(Building(c, l)) - 1) \o EndText = Opened(Append(c, l))
      BY <3>2, EndExact
    <3> QED BY <1>4, <1>7, <2>1, <3>1, <3>3, <3>4
  <2>2. Len(text') <= Len(Opened(sections))
    BY <1>4, <1>7, <1>9, <1>13, <1>14
  <2> QED BY <1>2, <2>1, <2>2 DEF Between
<1>16. pc' # "section"
  BY <1>2
<1>17. DocumentExact'
  BY <1>2 DEF DocumentExact
<1>18. EnoughIsEnough'
  <2>1. ASSUME Len(Document(sections)) < size PROVE rc' = "SUCCESS" /\ Len(text') < size
    <3>1. rem >= 3
      BY <1>12, <2>1 DEF Inside
    <3>2. TokenLen \in Nat /\ size \in Nat
      BY <1>1, JsonAssumption
    <3>3. Len(text') < size
      BY <1>4, <1>7, <1>9, <1>13, <1>14, <2>1, <3>2
    <3> QED BY <1>5, <1>8, <3>1, <3>3
  <2> QED BY <1>2, <2>1 DEF EnoughIsEnough
<1> QED BY <1>10, <1>11, <1>15, <1>16, <1>17, <1>18 DEF BuildInv

\* What the write of s behind n symbols of t has done, with r symbols left, when the writes before
\* it gave code.
Codes == {"SUCCESS", "ERROR", "TRUNCATED"}
Wrote(w, t, code, n, s, r) ==
  /\ w = [text |-> w.text, rc |-> w.rc] /\ w.text \in Seq(Sym) /\ w.rc \in Codes
  /\ w.rc = "SUCCESS" => code = "SUCCESS" /\ w.text = SubSeq(t, 1, n) \o s
  /\ code = "SUCCESS" /\ r > 1 /\ r > Len(s) => w.rc = "SUCCESS" /\ Len(w.text) = n + Len(s)

\* A write of finalize succeeds when it has the room it needs, and adds its text.
LEMMA ThenIs ==
  ASSUME size \in Sizes, NEW t \in Seq(Sym), NEW code \in Codes,
         NEW n \in 0..Len(t), NEW s \in Seq(Sym), NEW w, w = Then([text |-> t, rc |-> code], n, s)
  PROVE  Wrote(w, t, code, n, s, Room(t))
<1>1. PICK r \in Nat : r = Room(t)
  BY RoomIs, JsonAssumption
<1>2. PICK v : v = [text |-> t, rc |-> code]
  OBVIOUS
<1>3. v.text = t /\ v.rc = code /\ w = Then(v, n, s)
  BY <1>2
<1>4. CASE code # "SUCCESS"
  <2>1. w = v
    BY <1>3, <1>4 DEF Then
  <2> QED BY <1>2, <1>3, <1>4, <2>1 DEF Wrote
<1>5. CASE code = "SUCCESS" /\ r <= 1
  <2>1. w = [v EXCEPT !.rc = "ERROR"]
    BY <1>1, <1>3, <1>5 DEF Then
  <2>2. w = [text |-> t, rc |-> "ERROR"]
    BY <1>2, <2>1
  <2>3. "ERROR" \in Codes /\ w.text = t /\ w.rc = "ERROR" /\ w = [text |-> w.text, rc |-> w.rc]
    BY <2>2 DEF Codes
  <2> QED BY <1>1, <1>5, <2>3 DEF Wrote
<1>6. CASE code = "SUCCESS" /\ ~(r <= 1)
  <2>1. PICK u : u = Written(t, n, s, r)
    OBVIOUS
  <2>2. w = [text |-> u, rc |-> Check(s, r)]
    BY <1>1, <1>3, <1>6, <2>1 DEF Then
  <2>3. r # 0
    BY <1>6
  <2>4. WrittenFacts(u, t, n, s, r)
    BY <2>1, <2>3, WrittenIs
  <2>5. Check(s, r) \in Codes /\ (r > Len(s) => Check(s, r) = "SUCCESS")
    BY DEF Check, Codes
  <2>6. w.text = u /\ w.rc = Check(s, r) /\ w = [text |-> w.text, rc |-> w.rc]
    BY <2>2
  <2> QED BY <1>1, <1>6, <2>4, <2>5, <2>6 DEF WrittenFacts, Wrote
<1> QED BY <1>4, <1>5, <1>6

\* The document is finalized.
LEMMA FinalStep ==
  ASSUME BuildInv, Finalize
  PROVE  BuildInv'
<1>1. /\ size \in Sizes /\ text \in Seq(Sym) /\ rem \in 0..(SizeT - 1) /\ sections \in Seq(Seq(Fields))
      /\ pc = "document" /\ final = FALSE /\ Len(text) >= 1
  BY DEF BuildInv, TypeOK, TextInv, Finalize
<1>2. Between(sections, text)
  BY <1>1 DEF BuildInv
<1>3. PICK n \in Nat : n = Len(text) - 1 /\ n \in 0..Len(text) /\ Len(text) = n + 1
  <2>1. PICK k \in Nat : k = Len(text) /\ k >= 1
    BY <1>1
  <2>2. k - 1 \in Nat /\ k - 1 \in 0..k /\ k = k - 1 + 1
    BY <2>1
  <2> QED BY <2>1, <2>2
<1>4. PICK named : named = Then([text |-> text, rc |-> "SUCCESS"], n, TokenNameText)
  OBVIOUS
<1>5. PICK filled : filled = Then(named, Len(named.text), TokenText)
  OBVIOUS
<1>6. PICK closed : closed = Then(filled, Len(filled.text), FinalText)
  OBVIOUS
<1>7. /\ text' = closed.text /\ rc' = closed.rc /\ pc' = "idle" /\ final' = TRUE
      /\ size' = size /\ rem' = rem /\ sections' = sections
  BY <1>3, <1>4, <1>5, <1>6 DEF Finalize
<1>8. /\ TokenNameText \in Seq(Sym) /\ Len(TokenNameText) = 5
      /\ TokenText \in Seq(Sym) /\ Len(TokenText) = TokenLen
      /\ FinalText \in Seq(Sym) /\ Len(FinalText) = 2
  BY FormatTypes, TokenType DEF Text
<1>9. "SUCCESS" \in Codes
  BY DEF Codes
<1>10. Wrote(named, text, "SUCCESS", n, TokenNameText, Room(text))
  BY <1>1, <1>3, <1>4, <1>8, <1>9, ThenIs
<1>11. /\ named = [text |-> named.text, rc |-> named.rc] /\ named.text \in Seq(Sym) /\ named.rc \in Codes
       /\ named.rc = "SUCCESS" => named.text = SubSeq(text, 1, n) \o TokenNameText
       /\ Room(text) > 1 /\ Room(text) > 5 => named.rc = "SUCCESS" /\ Len(named.text) = n + 5
  BY <1>8, <1>10 DEF Wrote
<1>12. PICK t \in Seq(Sym), x \in Codes : t = named.text /\ x = named.rc /\ named = [text |-> t, rc |-> x]
  BY <1>11
<1>13. Len(t) \in 0..Len(t) /\ filled = Then([text |-> t, rc |-> x], Len(t), TokenText)
  BY <1>5, <1>12
<1>14. Wrote(filled, t, x, Len(t), TokenText, Room(t))
  BY <1>1, <1>8, <1>13, ThenIs
<1>15. /\ filled = [text |-> filled.text, rc |-> filled.rc] /\ filled.text \in Seq(Sym) /\ filled.rc \in Codes
       /\ filled.rc = "SUCCESS" => x = "SUCCESS" /\ filled.text = SubSeq(t, 1, Len(t)) \o TokenText
       /\ x = "SUCCESS" /\ Room(t) > 1 /\ Room(t) > TokenLen
            => filled.rc = "SUCCESS" /\ Len(filled.text) = Len(t) + TokenLen
  BY <1>8, <1>14 DEF Wrote
<1>16. PICK u \in Seq(Sym), y \in Codes : u = filled.text /\ y = filled.rc /\ filled = [text |-> u, rc |-> y]
  BY <1>15
<1>17. Len(u) \in 0..Len(u) /\ closed = Then([text |-> u, rc |-> y], Len(u), FinalText)
  BY <1>6, <1>16
<1>18. Wrote(closed, u, y, Len(u), FinalText, Room(u))
  BY <1>1, <1>8, <1>17, ThenIs
<1>19. /\ closed.text \in Seq(Sym) /\ closed.rc \in Codes
       /\ closed.rc = "SUCCESS" => y = "SUCCESS" /\ closed.text = SubSeq(u, 1, Len(u)) \o FinalText
       /\ y = "SUCCESS" /\ Room(u) > 1 /\ Room(u) > 2 => closed.rc = "SUCCESS" /\ Len(closed.text) = Len(u) + 2
  BY <1>8, <1>18 DEF Wrote
<1>20. TypeOK' /\ TextInv'
  BY <1>1, <1>7, <1>19 DEF TypeOK, TextInv, Codes
<1>21. SubSeq(t, 1, Len(t)) = t /\ SubSeq(u, 1, Len(u)) = u
  BY SubSeqFull
<1>22. DocumentExact'
  <2>1. ASSUME rc' = "SUCCESS", Proper PROVE text' = Document(sections)
    <3>1. sections # <<>> /\ Closed(sections)
      BY <2>1 DEF Proper, Closed, Valued
    <3>2. text = Opened(sections)
      BY <1>2, <3>1 DEF Between
    <3>3. y = "SUCCESS" /\ text' = u \o FinalText
      BY <1>7, <1>19, <1>21, <2>1
    <3>4. x = "SUCCESS" /\ u = t \o TokenText
      BY <1>15, <1>16, <1>21, <3>3
    <3>5. t = SubSeq(text, 1, Len(text) - 1) \o TokenNameText
      BY <1>3, <1>11, <1>12, <3>4
    <3>6. ((SubSeq(text, 1, Len(text) - 1) \o TokenNameText) \o TokenText) \o FinalText = Document(sections)
      BY <1>1, <3>1, <3>2, FinalExact
    <3> QED BY <3>3, <3>4, <3>5, <3>6
  <2> QED BY <1>7, <2>1 DEF DocumentExact, Proper
<1>23. EnoughIsEnough'
  <2>1. ASSUME Len(Document(sections)) < size PROVE rc' = "SUCCESS" /\ Len(text') < size
    <3>1. PICK w \in Nat : Width(sections, w)
      BY <1>1, WidthExists
    <3>2. Len(Document(sections)) = w + 7 + TokenLen
      BY <1>1, <3>1, DocumentLen
    <3>3. Len(Opened(sections)) <= w + 1
      BY <3>1 DEF Width, Text
    <3>4. TokenLen \in Nat /\ size \in Nat /\ Len(Opened(sections)) \in Nat
      BY <1>1, <3>1, JsonAssumption DEF Width, Text
    <3>5. n <= w /\ Len(text) <= w + 1
      BY <1>2, <1>3, <3>3, <3>4 DEF Between
    <3>6. w + 7 + TokenLen < size
      BY <2>1, <3>2
    <3>7. Room(text) > 6 + TokenLen
      <4>1. w + 1 \in Nat /\ 6 + TokenLen \in Nat /\ (w + 1) + (6 + TokenLen) < size
        BY <3>4, <3>6
      <4> QED BY <1>1, <3>5, <4>1, RoomEnough
    <3>8. \A z \in Seq(Sym) : Room(z) \in Int
      BY <1>1, RoomIs
    <3>9. x = "SUCCESS" /\ Len(t) = n + 5
      <4>1. Room(text) > 1 /\ Room(text) > 5
        BY <1>1, <3>4, <3>7, <3>8
      <4> QED BY <1>11, <1>12, <4>1
    <3>10. Room(t) > 2 + TokenLen
      <4>1. w + 5 \in Nat /\ 2 + TokenLen \in Nat /\ (w + 5) + (2 + TokenLen) < size /\ Len(t) <= w + 5
        BY <3>4, <3>5, <3>6, <3>9
      <4> QED BY <1>1, <4>1, RoomEnough
    <3>11. y = "SUCCESS" /\ Len(u) = n + 5 + TokenLen
      <4>1. Room(t) > 1 /\ Room(t) > TokenLen
        BY <3>4, <3>8, <3>10
      <4> QED BY <1>15, <1>16, <3>9, <4>1
    <3>12. Room(u) > 2
      <4>1. w + 5 + TokenLen \in Nat /\ 2 \in Nat /\ (w + 5 + TokenLen) + 2 < size /\ Len(u) <= w + 5 + TokenLen
        BY <3>4, <3>5, <3>6, <3>11
      <4> QED BY <1>1, <4>1, RoomEnough
    <3>13. closed.rc = "SUCCESS" /\ Len(closed.text) = n + 5 + TokenLen + 2
      <4>1. Room(u) > 1 /\ Room(u) > 2
        BY <3>8, <3>12
      <4> QED BY <1>19, <3>11, <4>1
    <3> QED BY <1>7, <3>4, <3>5, <3>6, <3>13
  <2> QED BY <1>7, <2>1 DEF EnoughIsEnough
<1> QED BY <1>7, <1>20, <1>22, <1>23 DEF BuildInv

-----------------------------------------------------------------------------
(* The theorems.                                                           *)

\* The invariant holds of every document, whatever the application asks for.
THEOREM Builds == Spec => []BuildInv
<1>1. Init => BuildInv
  <2> SUFFICES ASSUME Init PROVE BuildInv
    OBVIOUS
  <2>1. size \in Sizes /\ text = <<>> /\ pc = "idle" /\ rem = 0 /\ rc = "NONE" /\ sections = <<>> /\ final = FALSE
    BY DEF Init
  <2>2. size \in Nat /\ size >= 1 /\ 0 \in 0..(SizeT - 1)
    BY <2>1, JsonAssumption
  <2>3. text \in Seq(Sym) /\ Len(text) = 0 /\ sections \in Seq(Seq(Fields))
    BY <2>1
  <2>4. TypeOK /\ TextInv
    BY <2>1, <2>2, <2>3 DEF TypeOK, TextInv
  <2>5. DocumentExact
    BY <2>1 DEF DocumentExact
  <2>6. EnoughIsEnough
    BY <2>1, <2>2, <2>3 DEF EnoughIsEnough
  <2> QED BY <2>1, <2>4, <2>5, <2>6 DEF BuildInv
<1>2. BuildInv /\ [Next]_vars => BuildInv'
  <2> SUFFICES ASSUME BuildInv, [Next]_vars PROVE BuildInv'
    OBVIOUS
  <2>1. CASE InitDocument
    BY <2>1, InitStep
  <2>2. CASE BeginSection
    BY <2>2, BeginStep
  <2>3. ASSUME NEW f \in Fields, AddField(f) PROVE BuildInv'
    BY <2>3, AddStep
  <2>4. ASSUME NEW f \in Fields, MissingData(f) PROVE BuildInv'
    BY <2>4, MissingDataStep
  <2>5. CASE MissingField
    BY <2>5, MissingFieldStep
  <2>6. CASE EndSection
    BY <2>6, EndStep
  <2>7. CASE Finalize
    BY <2>7, FinalStep
  <2>8. CASE UNCHANGED vars
    BY <2>8 DEF vars, BuildInv, TypeOK, TextInv, DocumentExact, Proper, EnoughIsEnough
  <2> QED BY <2>1, <2>2, <2>3, <2>4, <2>5, <2>6, <2>7, <2>8 DEF Next
<1> QED BY <1>1, <1>2, PTL DEF Spec

\* The builder's state keeps its types: its limits stay below the number of values of a size_t,
\* and a call goes on only after success.
THEOREM TypesOfBuilder == Spec => []TypeOK
<1>1. BuildInv => TypeOK
  BY DEF BuildInv
<1> QED BY <1>1, Builds, PTL

\* A document that init, add_desired, add_reported and finalize built with success is the JSON
\* document of its fields.  (None of its sections has more than 127 fields: the call does not end.)
THEOREM BuildsDocument == Spec => []DocumentExact
<1>1. BuildInv => DocumentExact
  BY DEF BuildInv
<1> QED BY <1>1, Builds, PTL

\* In a buffer that holds the document and its end, none of the calls fails for want of room,
\* and none writes beyond the end, as long as no section has more fields than the int8_t index of
\* add_desired and add_reported can count (127, although count is a uint8_t).
THEOREM BufferIsEnough == Spec => []EnoughIsEnough
<1>1. BuildInv => EnoughIsEnough
  BY DEF BuildInv
<1> QED BY <1>1, Builds, PTL
=============================================================================
