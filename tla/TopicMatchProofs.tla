-------------------------- MODULE TopicMatchProofs --------------------------
(***************************************************************************)
(* is_topic_matched stays inside its two strings, and its answer is that   *)
(* of MQTT.  The loop invariant relates the two pointers to the levels;    *)
(* that the recursive definition of a string by its levels has a solution, *)
(* and where it puts the levels, is shown by least counterexample.         *)
(***************************************************************************)
EXTENDS TopicMatch, WellFoundedInduction, SequenceTheorems, TLAPS

\* Every set of numbers that is not empty has a least element.
LEMMA LeastNumber ==
  ASSUME NEW S, S \subseteq Nat, S # {}
  PROVE  \E m \in S : \A k \in S : m <= k
<1> DEFINE R == OpToRel(<, Nat)
<1>1. \A x, y \in Nat : y < x => <<y, x>> \in R
  BY DEF OpToRel
<1>2. IsWellFoundedOn(R, Nat)
  BY NatLessThanWellFounded
<1> HIDE DEF R
<1>3. \E m \in S : \A k \in S : <<k, m>> \notin R
  BY <1>2, WFMin
<1>4. \E m \in S : \A k \in S : ~(k < m)
  BY <1>1, <1>3
<1> QED BY <1>4

\* The strings of the first n levels, as Characters joins them.
Joins(f, levels, n) ==
  f = [i \in 1..n |-> IF i = 1 THEN levels[1] ELSE f[i - 1] \o <<"/">> \o levels[i]]

\* The recursive definition in Characters has a solution for every number of levels.
LEMMA JoinsExists ==
  ASSUME NEW levels, NEW n \in Nat \ {0}
  PROVE  \E f : Joins(f, levels, n)
<1> DEFINE Bad == {m \in Nat : m > 0 /\ ~\E f : Joins(f, levels, m)}
<1> SUFFICES ASSUME Bad # {} PROVE FALSE
  OBVIOUS
<1>1. PICK m \in Bad : \A k \in Bad : m <= k
  <2>1. Bad \subseteq Nat
    OBVIOUS
  <2> HIDE DEF Bad
  <2> QED BY <2>1, LeastNumber
<1>2. m \in Nat /\ m > 0 /\ ~\E f : Joins(f, levels, m)
  BY <1>1
<1>3. CASE m = 1
  <2>1. PICK f : f = [i \in 1..1 |-> levels[1]]
    OBVIOUS
  <2>2. Joins(f, levels, 1)
    BY <2>1 DEF Joins
  <2> QED BY <1>2, <1>3, <2>2
<1>4. CASE m > 1
  <2>1. m - 1 \in Nat /\ m - 1 > 0 /\ m - 1 \notin Bad
    BY <1>1, <1>2, <1>4
  <2>2. PICK f : Joins(f, levels, m - 1)
    BY <2>1
  <2>3. PICK g : g = [i \in 1..m |-> IF i = m THEN f[m - 1] \o <<"/">> \o levels[m] ELSE f[i]]
    OBVIOUS
  <2>4. ASSUME NEW i \in 1..m
        PROVE  g[i] = IF i = 1 THEN levels[1] ELSE g[i - 1] \o <<"/">> \o levels[i]
    <3>1. CASE i = m
      <4>1. i # 1 /\ i - 1 \in 1..m /\ i - 1 # m
        BY <1>2, <1>4, <3>1
      <4>2. g[i] = f[m - 1] \o <<"/">> \o levels[m] /\ g[i - 1] = f[m - 1]
        BY <2>3, <3>1, <4>1
      <4> QED BY <3>1, <4>1, <4>2
    <3>2. CASE i # m
      <4>1. i \in 1..(m - 1) /\ (i # 1 => i - 1 \in 1..m /\ i - 1 # m)
        BY <1>2, <1>4, <3>2
      <4>2. g[i] = f[i] /\ (i # 1 => g[i - 1] = f[i - 1])
        BY <2>3, <3>2, <4>1
      <4>3. f[i] = IF i = 1 THEN levels[1] ELSE f[i - 1] \o <<"/">> \o levels[i]
        BY <2>2, <4>1 DEF Joins
      <4> QED BY <4>2, <4>3
    <3> QED BY <3>1, <3>2
  <2>5. Joins(g, levels, m)
    <3>1. g = [i \in 1..m |-> g[i]]
      BY <2>3
    <3> QED BY <2>4, <3>1 DEF Joins
  <2> QED BY <1>2, <2>5
<1> QED BY <1>2, <1>3, <1>4

\* The characters of a string.  That a literal is a string is not known to the provers.
Chars == STRING \union {"/", "#"}

\* Levels are made of characters.
LEMMA LevelChars == FilterLevels \subseteq Seq(Chars) /\ NameLevels \subseteq Seq(Chars)
<1>1. STRING \subseteq Chars
  BY DEF Chars
<1> HIDE DEF Chars
<1>2. Seq(STRING) \subseteq Seq(Chars)
  BY <1>1, SeqMonotonic
<1> QED BY <1>2, TopicAssumption

\* A string of one character.
LEMMA OneCharacter ==
  ASSUME NEW S, NEW c \in S
  PROVE  <<c>> \in Seq(S)
OBVIOUS

\* The string of a filter or of a name is a sequence of characters.
LEMMA CharactersType ==
  ASSUME NEW n \in Nat \ {0}, NEW levels \in [1..n -> Seq(Chars)]
  PROVE  Characters(levels) \in Seq(Chars)
<1>1. Len(levels) = n
  OBVIOUS
<1>2. Characters(levels) = (CHOOSE f : Joins(f, levels, n))[n]
  BY <1>1 DEF Characters, Joins
<1>3. PICK f : f = CHOOSE g : Joins(g, levels, n)
  OBVIOUS
<1>4. Joins(f, levels, n)
  BY <1>3, JoinsExists
<1> DEFINE Bad == {i \in 1..n : f[i] \notin Seq(Chars)}
<1>5. Bad = {}
  <2> SUFFICES ASSUME Bad # {} PROVE FALSE
    OBVIOUS
  <2>1. PICK m \in Bad : \A k \in Bad : m <= k
    <3>1. Bad \subseteq Nat
      OBVIOUS
    <3> HIDE DEF Bad
    <3> QED BY <3>1, LeastNumber
  <2>2. m \in 1..n /\ f[m] \notin Seq(Chars)
    BY <2>1
  <2>3. f[m] = IF m = 1 THEN levels[1] ELSE f[m - 1] \o <<"/">> \o levels[m]
    BY <1>4, <2>2 DEF Joins
  <2>4. CASE m = 1
    BY <2>2, <2>3, <2>4
  <2>5. CASE m # 1
    <3>1. m - 1 \in 1..n /\ m - 1 \notin Bad
      BY <2>1, <2>2, <2>5
    <3>2. f[m - 1] \in Seq(Chars) /\ levels[m] \in Seq(Chars) /\ <<"/">> \in Seq(Chars)
      <4>1. "/" \in Chars
        BY DEF Chars
      <4> QED BY <2>2, <3>1, <4>1, OneCharacter
    <3>3. f[m - 1] \o <<"/">> \in Seq(Chars)
      BY <3>2, ConcatProperties
    <3>4. (f[m - 1] \o <<"/">>) \o levels[m] \in Seq(Chars)
      BY <3>2, <3>3, ConcatProperties
    <3> QED BY <2>2, <2>3, <2>5, <3>4
  <2> QED BY <2>4, <2>5
<1>6. f[n] \in Seq(Chars)
  BY <1>5
<1> QED BY <1>2, <1>3, <1>6

\* Levels is made of functions on an interval that starts at 1.
LEMMA LevelsType ==
  ASSUME NEW S, NEW f \in Levels(S)
  PROVE  \E n \in Nat \ {0} : f \in [1..n -> S]
<1>1. PICK n \in 1..MaxLevels : f \in [1..n -> S]
  BY DEF Levels
<1> QED BY <1>1, TopicAssumption

\* The string of a filter is a sequence of characters, the last '#' included.
LEMMA FilterCharacters ==
  ASSUME NEW f \in Filters
  PROVE  Characters(f) \in Seq(Chars)
<1>1. Hash \in Seq(Chars)
  <2>1. "#" \in Chars
    BY DEF Chars
  <2> QED BY <2>1, OneCharacter DEF Hash
<1>2. CASE f \in Levels(FilterLevels)
  <2>1. PICK n \in Nat \ {0} : f \in [1..n -> FilterLevels]
    BY <1>2, LevelsType
  <2>2. f \in [1..n -> Seq(Chars)]
    BY <2>1, LevelChars
  <2> QED BY <2>2, CharactersType
<1>3. CASE f \in {Append(g, Hash) : g \in Levels(FilterLevels)}
  <2>1. PICK g \in Levels(FilterLevels) : f = Append(g, Hash)
    BY <1>3
  <2>2. PICK n \in Nat \ {0} : g \in [1..n -> FilterLevels]
    BY LevelsType
  <2>3. g \in Seq(Seq(Chars)) /\ Len(g) = n
    BY <2>2, LevelChars
  <2>4. f \in Seq(Seq(Chars)) /\ Len(f) = n + 1
    BY <1>1, <2>1, <2>3, AppendProperties
  <2>5. n + 1 \in Nat \ {0} /\ f \in [1..(n + 1) -> Seq(Chars)]
    BY <2>2, <2>4
  <2> QED BY <2>5, CharactersType
<1>4. CASE f = <<Hash>>
  <2>1. f \in [1..1 -> Seq(Chars)]
    BY <1>1, <1>4
  <2>2. 1 \in Nat \ {0}
    OBVIOUS
  <2> QED BY <2>1, <2>2, CharactersType
<1> QED BY <1>2, <1>3, <1>4 DEF Filters

\* The string of a topic name is a sequence of characters.
LEMMA NameCharacters ==
  ASSUME NEW m \in Names
  PROVE  Characters(m) \in Seq(Chars)
<1>1. PICK n \in Nat \ {0} : m \in [1..n -> NameLevels]
  BY LevelsType DEF Names
<1>2. m \in [1..n -> Seq(Chars)]
  BY <1>1, LevelChars
<1> QED BY <1>2, CharactersType

\* '+' finds the end of its level: a character of the name, not before the one it started at.
LEMMA EndOfLevelFound ==
  ASSUME N \in Seq(Chars), curn \in 1..Len(N)
  PROVE  EndOfLevel \in curn..Len(N)
<1> DEFINE Ends(i) == i = Len(N) \/ N[i + 1] = "/"
           S       == {i \in curn..Len(N) : Ends(i)}
           Found(i) == Ends(i) /\ \A j \in curn..(i - 1) : N[j + 1] # "/"
<1>1. Len(N) \in Nat
  OBVIOUS
<1>2. S \subseteq Nat /\ S # {}
  <2>1. Len(N) \in S
    BY <1>1
  <2> QED BY <1>1, <2>1
<1>3. PICK m \in S : \A k \in S : m <= k
  <2> HIDE DEF S
  <2> QED BY <1>2, LeastNumber
<1>4. m \in curn..Len(N) /\ Found(m)
  <2>1. m \in curn..Len(N) /\ Ends(m)
    BY <1>3
  <2>2. ASSUME NEW j \in curn..(m - 1) PROVE N[j + 1] # "/"
    <3>1. PICK l \in Nat : l = Len(N)
      BY <1>1
    <3>2. PICK c \in Nat : c = curn /\ l = Len(N)
      <4>1. curn \in 1..l
        BY <3>1
      <4>2. curn \in Nat
        BY <4>1
      <4> QED BY <3>1, <4>2
    <3>3. m \in Nat /\ j \in Nat /\ j \in c..l /\ j < m
      BY <2>1, <3>2
    <3>4. j \notin S
      <4> HIDE DEF S
      <4> QED BY <1>3, <3>3
    <3> QED BY <3>2, <3>3, <3>4
  <2> QED BY <2>1, <2>2
<1>5. EndOfLevel = CHOOSE i \in curn..Len(N) : Found(i)
  BY DEF EndOfLevel
<1> HIDE DEF Found
<1> QED BY <1>4, <1>5

\* is_topic_matched never leaves its two strings: both pointers stay on a character or on the
\* end of their string, whatever the levels of the filter and of the name, however many there
\* are, and however '+' and '#' move them.
THEOREM TopicTypes == Spec => []TypeOK
<1>1. Init => TypeOK
  <2> SUFFICES ASSUME Init PROVE TypeOK
    OBVIOUS
  <2>1. F \in Seq(Chars) /\ N \in Seq(Chars)
    BY FilterCharacters, NameCharacters DEF Init, F, N
  <2>2. PICK f \in Nat, n \in Nat : f = Len(F) /\ n = Len(N)
    BY <2>1
  <2>3. 1 \in 1..(f + 1) /\ 1 \in 1..(n + 1)
    OBVIOUS
  <2> QED BY <2>2, <2>3 DEF Init, TypeOK
<1>2. TypeOK /\ [Next]_vars => TypeOK'
  <2> SUFFICES ASSUME TypeOK, [Next]_vars PROVE TypeOK'
    OBVIOUS
  <2>1. F \in Seq(Chars) /\ N \in Seq(Chars)
    BY FilterCharacters, NameCharacters DEF TypeOK, F, N
  <2>2. PICK f \in Nat, n \in Nat : f = Len(F) /\ n = Len(N)
    BY <2>1
  <2>3. filter' = filter /\ name' = name /\ F' = F /\ N' = N
    BY DEF Next, Step, Answer, vars, F, N
  <2>4. CASE Step
    <3>1. curf \in 1..f /\ curn \in 1..n
      <4>1. curf \in 1..(f + 1) /\ curn \in 1..(n + 1) /\ curf <= f /\ curn <= n
        BY <2>2, <2>4 DEF Step, Looping, TypeOK
      <4> QED BY <4>1
    <3>2. Skipped \in curn..n
      <4>1. EndOfLevel \in curn..n
        BY <2>1, <2>2, <3>1, EndOfLevelFound
      <4>2. CASE F[curf] = "+"
        BY <4>1, <4>2 DEF Skipped
      <4>3. CASE F[curf] = "#"
        <5>1. Skipped = n
          BY <2>2, <4>3 DEF Skipped
        <5> QED BY <3>1, <5>1
      <4>4. CASE F[curf] \notin {"+", "#"}
        <5>1. Skipped = curn
          BY <4>4 DEF Skipped
        <5> QED BY <3>1, <5>1
      <4> QED BY <4>2, <4>3, <4>4
    <3>3. curf' \in 1..(f + 1) /\ curn' \in 1..(n + 1)
      <4>1. curf' = curf + 1 /\ curn' = Skipped + 1
        BY <2>4 DEF Step
      <4> QED BY <3>1, <3>2, <4>1
    <3> QED BY <2>2, <2>3, <2>4, <3>3 DEF Step, TypeOK
  <2>5. CASE Answer
    BY <2>3, <2>5 DEF Answer, TypeOK
  <2>6. CASE UNCHANGED vars
    BY <2>3, <2>6 DEF vars, TypeOK
  <2> QED BY <2>4, <2>5, <2>6 DEF Next
<1> QED BY <1>1, <1>2, PTL DEF Spec

-----------------------------------------------------------------------------
(* Where the levels are in a string.                                       *)

\* B[i] is the place behind level i of the n levels: that of a separator, or of the end of s.
Laid(s, levels, n, B) ==
  /\ B \in [0..n -> Nat]
  /\ B[0] = 0
  /\ \A i \in 1..n : B[i] = B[i - 1] + Len(levels[i]) + 1
  /\ \A i \in 0..n, j \in 0..n : i < j => B[i] < B[j]
  /\ \A i \in 1..n : \A k \in 1..Len(levels[i]) : s[B[i - 1] + k] = levels[i][k]
  /\ \A i \in 1..(n - 1) : s[B[i]] = "/"
  /\ Len(s) + 1 = B[n]

\* The first level alone.
LEMMA LaidOne ==
  ASSUME NEW levels, levels[1] \in Seq(Chars)
  PROVE  \E B : Laid(levels[1], levels, 1, B)
<1>1. PICK l \in Nat : l = Len(levels[1])
  OBVIOUS
<1>2. PICK B : B = [i \in 0..1 |-> IF i = 0 THEN 0 ELSE l + 1]
  OBVIOUS
<1>3. B \in [0..1 -> Nat] /\ B[0] = 0 /\ B[1] = l + 1
  BY <1>2
<1>4. \A i \in 1..1 : i = 1 /\ i - 1 = 0
  OBVIOUS
<1>5. \A i \in 0..1, j \in 0..1 : i < j => i = 0 /\ j = 1
  OBVIOUS
<1>6. \A k \in 1..l : B[0] + k = k
  BY <1>3
<1> QED BY <1>1, <1>3, <1>4, <1>5, <1>6 DEF Laid

\* u has the a elements of s and, behind them, the b elements of t.
Follows(u, s, a, t, b) ==
  Len(u) = a + b /\ (\A k \in 1..a : u[k] = s[k]) /\ (\A k \in 1..b : u[a + k] = t[k])

\* The elements of a concatenation.
LEMMA Concatenated ==
  ASSUME NEW S, NEW s \in Seq(S), NEW t \in Seq(S), NEW a \in Nat, NEW b \in Nat, a = Len(s), b = Len(t)
  PROVE  Follows(s \o t, s, a, t, b)
<1>1. s \o t \in Seq(S) /\ Len(s \o t) = a + b
  BY ConcatProperties
<1>2. \A i \in 1..(a + b) : (s \o t)[i] = IF i <= a THEN s[i] ELSE t[i - a]
  BY ConcatProperties
<1>3. ASSUME NEW k \in 1..a PROVE (s \o t)[k] = s[k]
  <2>1. k \in 1..(a + b) /\ k <= a
    OBVIOUS
  <2> QED BY <1>2, <2>1
<1>4. ASSUME NEW k \in 1..b PROVE (s \o t)[a + k] = t[k]
  <2>1. PICK j \in 1..(a + b) : j = a + k /\ ~(j <= a) /\ j - a = k
    OBVIOUS
  <2> QED BY <1>2, <2>1
<1> QED BY <1>1, <1>3, <1>4 DEF Follows

\* One more level.
LEMMA LaidNext ==
  ASSUME NEW levels, NEW m \in Nat \ {0}, NEW s \in Seq(Chars),
         \A i \in 1..(m + 1) : levels[i] \in Seq(Chars), NEW B, Laid(s, levels, m, B)
  PROVE  \E C : Laid((s \o <<"/">>) \o levels[m + 1], levels, m + 1, C)
<1>1. m + 1 \in 1..(m + 1) /\ levels[m + 1] \in Seq(Chars)
  OBVIOUS
<1>2. PICK a \in Nat, l \in Nat : a = Len(s) /\ l = Len(levels[m + 1])
  BY <1>1
<1>3. PICK t : t = s \o <<"/">>
  OBVIOUS
<1>4. t \in Seq(Chars) /\ Len(t) = a + 1 /\ (\A k \in 1..a : t[k] = s[k]) /\ t[a + 1] = "/"
  <2>1. "/" \in Chars
    BY DEF Chars
  <2>2. <<"/">> \in Seq(Chars) /\ Len(<<"/">>) = 1
    BY <2>1, OneCharacter
  <2> QED BY <1>2, <1>3, <2>2, ConcatProperties
<1>5. PICK u : u = t \o levels[m + 1]
  OBVIOUS
<1>6. /\ Len(u) = a + 1 + l
      /\ \A k \in 1..a : u[k] = s[k]
      /\ u[a + 1] = "/"
      /\ \A k \in 1..l : u[(a + 1) + k] = levels[m + 1][k]
  <2>1. PICK c \in Nat : c = a + 1 /\ c = Len(t)
    BY <1>4
  <2>2. PICK v \in Seq(Chars) : v = levels[m + 1] /\ l = Len(v)
    BY <1>1, <1>2
  <2>3. Len(u) = c + l /\ (\A k \in 1..c : u[k] = t[k]) /\ (\A k \in 1..l : u[c + k] = v[k])
    <3>1. u = t \o v
      BY <1>5, <2>2
    <3>2. t \in Seq(Chars)
      BY <1>4
    <3>3. c = Len(t)
      BY <2>1
    <3>4. l = Len(v)
      BY <2>2
    <3>5. Follows(t \o v, t, c, v, l)
      BY <3>2, <3>3, <3>4, Concatenated
    <3> QED BY <3>1, <3>5 DEF Follows
  <2>4. a + 1 \in 1..c /\ \A k \in 1..a : k \in 1..c
    BY <2>1
  <2> QED BY <1>4, <2>1, <2>2, <2>3, <2>4
<1>7. /\ B \in [0..m -> Nat] /\ B[0] = 0
      /\ \A i \in 1..m : B[i] = B[i - 1] + Len(levels[i]) + 1
      /\ \A i \in 0..m, j \in 0..m : i < j => B[i] < B[j]
      /\ \A i \in 1..m : \A k \in 1..Len(levels[i]) : s[B[i - 1] + k] = levels[i][k]
      /\ \A i \in 1..(m - 1) : s[B[i]] = "/"
      /\ a + 1 = B[m]
  BY <1>2 DEF Laid
<1>8. PICK C : C = [i \in 0..(m + 1) |-> IF i = m + 1 THEN (a + 1) + (l + 1) ELSE B[i]]
  OBVIOUS
<1>9. C \in [0..(m + 1) -> Nat] /\ C[m + 1] = (a + 1) + (l + 1) /\ \A i \in 0..m : C[i] = B[i]
  BY <1>7, <1>8
<1>10. C[0] = 0
  BY <1>7, <1>9
<1>11. ASSUME NEW i \in 1..(m + 1) PROVE C[i] = C[i - 1] + Len(levels[i]) + 1
  <2>1. CASE i = m + 1
    <3>1. i - 1 = m /\ C[m] = a + 1
      BY <1>7, <1>9, <2>1
    <3>2. C[i] = (a + 1) + (l + 1)
      BY <1>9, <2>1
    <3>3. C[i - 1] = a + 1 /\ Len(levels[i]) = l
      BY <1>2, <2>1, <3>1
    <3> QED BY <3>2, <3>3
  <2>2. CASE i # m + 1
    <3>1. i \in 1..m /\ i \in 0..m /\ i - 1 \in 0..m
      BY <2>2
    <3> QED BY <1>7, <1>9, <3>1
  <2> QED BY <2>1, <2>2
<1>12. ASSUME NEW i \in 0..(m + 1), NEW j \in 0..(m + 1), i < j PROVE C[i] < C[j]
  <2>1. i \in 0..m /\ C[i] = B[i] /\ B[i] \in Nat
    BY <1>7, <1>9, <1>12
  <2>2. CASE j = m + 1
    <3>1. B[i] <= a + 1
      <4>1. CASE i = m
        BY <1>7, <2>1, <4>1
      <4>2. CASE i # m
        <5>1. m \in 0..m /\ i < m
          BY <2>1, <4>2
        <5>2. B[i] < B[m]
          BY <1>7, <2>1, <5>1
        <5> QED BY <1>7, <2>1, <5>2
      <4> QED BY <4>1, <4>2
    <3> QED BY <1>9, <2>1, <2>2, <3>1
  <2>3. CASE j # m + 1
    <3>1. j \in 0..m
      BY <2>3
    <3> QED BY <1>7, <1>9, <1>12, <2>1, <3>1
  <2> QED BY <2>2, <2>3
<1>13. ASSUME NEW i \in 1..(m + 1), NEW k \in 1..Len(levels[i]) PROVE u[C[i - 1] + k] = levels[i][k]
  <2>1. CASE i = m + 1
    <3>1. i - 1 = m /\ C[m] = a + 1
      BY <1>7, <1>9, <2>1
    <3> QED BY <1>2, <1>6, <2>1, <3>1
  <2>2. CASE i # m + 1
    <3>1. i \in 1..m /\ i \in 0..m /\ i - 1 \in 0..m
      BY <2>2
    <3>2. PICK b \in Nat, c \in Nat : b = B[i - 1] /\ c = B[i]
      BY <1>7, <3>1
    <3>3. c <= a + 1
      <4>1. CASE i = m
        BY <1>7, <3>2, <4>1
      <4>2. CASE i # m
        <5>1. m \in 0..m /\ i < m
          BY <3>1, <4>2
        <5>2. B[i] < B[m]
          BY <1>7, <3>1, <5>1
        <5> QED BY <1>7, <3>2, <5>2
      <4> QED BY <4>1, <4>2
    <3>4. c = b + Len(levels[i]) + 1
      BY <1>7, <3>1, <3>2
    <3>5. PICK h \in Nat : h = Len(levels[i])
      OBVIOUS
    <3>6. k \in 1..h /\ c = b + h + 1
      BY <3>4, <3>5
    <3>7. b + k \in 1..a
      BY <3>3, <3>6
    <3>8. s[b + k] = levels[i][k]
      BY <1>7, <3>1, <3>2
    <3> QED BY <1>6, <1>9, <3>1, <3>2, <3>7, <3>8
  <2> QED BY <2>1, <2>2
<1>14. ASSUME NEW i \in 1..m PROVE u[C[i]] = "/"
  <2>1. CASE i = m
    BY <1>6, <1>7, <1>9, <2>1
  <2>2. CASE i # m
    <3>1. i \in 1..(m - 1) /\ i \in 0..m /\ m \in 0..m /\ 0 \in 0..m /\ 0 < i /\ i < m
      BY <2>2
    <3>2. B[i] \in Nat /\ 0 < B[i] /\ B[i] < a + 1
      <4>1. B[0] < B[i] /\ B[i] < B[m]
        BY <1>7, <3>1
      <4>2. B[i] \in Nat
        BY <1>7, <3>1
      <4> QED BY <1>7, <4>1, <4>2
    <3>3. B[i] \in 1..a
      BY <3>2
    <3>4. s[B[i]] = "/"
      BY <1>7, <3>1
    <3> QED BY <1>6, <1>9, <3>1, <3>3, <3>4
  <2> QED BY <2>1, <2>2
<1>15. m + 1 - 1 = m /\ Len(u) + 1 = C[m + 1]
  BY <1>6, <1>9
<1>16. Laid(u, levels, m + 1, C)
  BY <1>9, <1>10, <1>11, <1>12, <1>13, <1>14, <1>15 DEF Laid
<1> QED BY <1>3, <1>5, <1>16

\* Where the levels are in the string that Characters makes of them.
LEMMA LaidOut ==
  ASSUME NEW n \in Nat \ {0}, NEW levels \in [1..n -> Seq(Chars)]
  PROVE  \E B : Laid(Characters(levels), levels, n, B)
<1>1. Len(levels) = n
  OBVIOUS
<1>2. Characters(levels) = (CHOOSE f : Joins(f, levels, n))[n]
  BY <1>1 DEF Characters, Joins
<1>3. PICK f : f = CHOOSE g : Joins(g, levels, n)
  OBVIOUS
<1>4. Joins(f, levels, n)
  BY <1>3, JoinsExists
<1> DEFINE Good(i) == f[i] \in Seq(Chars) /\ \E B : Laid(f[i], levels, i, B)
           Bad     == {i \in 1..n : ~Good(i)}
<1>5. Bad = {}
  <2> SUFFICES ASSUME Bad # {} PROVE FALSE
    OBVIOUS
  <2>1. PICK m \in Bad : \A k \in Bad : m <= k
    <3>1. Bad \subseteq Nat
      OBVIOUS
    <3> HIDE DEF Bad
    <3> QED BY <3>1, LeastNumber
  <2>2. m \in 1..n /\ ~Good(m)
    BY <2>1
  <2>3. f[m] = IF m = 1 THEN levels[1] ELSE f[m - 1] \o <<"/">> \o levels[m]
    BY <1>4, <2>2 DEF Joins
  <2>4. CASE m = 1
    <3>1. f[m] = levels[1] /\ levels[1] \in Seq(Chars)
      BY <2>2, <2>3, <2>4
    <3>2. Good(m)
      BY <2>4, <3>1, LaidOne
    <3> QED BY <2>2, <3>2
  <2>5. CASE m # 1
    <3>1. PICK p \in Nat \ {0} : p = m - 1 /\ p + 1 = m /\ p \in 1..n /\ p < m
      BY <2>2, <2>5
    <3>2. Good(p)
      <4>1. p \notin Bad
        <5> HIDE DEF Bad
        <5>1. m \in Nat
          BY <3>1
        <5> QED BY <2>1, <3>1, <5>1
      <4> HIDE DEF Good
      <4> QED BY <3>1, <4>1
    <3>3. PICK t \in Seq(Chars) : t = f[p]
      BY <3>2
    <3>4. PICK B : Laid(t, levels, p, B)
      BY <3>2, <3>3
    <3>5. \A i \in 1..(p + 1) : levels[i] \in Seq(Chars)
      BY <2>2, <3>1
    <3>6. f[m] = (t \o <<"/">>) \o levels[p + 1]
      BY <2>3, <2>5, <3>1, <3>3
    <3> HIDE DEF Bad
    <3>7. \E C : Laid(f[m], levels, m, C)
      <4>1. \E C : Laid((t \o <<"/">>) \o levels[p + 1], levels, p + 1, C)
        BY <3>4, <3>5, LaidNext
      <4> QED BY <3>1, <3>6, <4>1
    <3>8. f[m] \in Seq(Chars)
      <4>1. "/" \in Chars
        BY DEF Chars
      <4>2. <<"/">> \in Seq(Chars)
        BY <4>1, OneCharacter
      <4>3. t \o <<"/">> \in Seq(Chars)
        BY <4>2, ConcatProperties
      <4>4. levels[p + 1] \in Seq(Chars)
        BY <3>1, <3>5
      <4> QED BY <3>6, <4>3, <4>4, ConcatProperties
    <3> QED BY <2>2, <3>7, <3>8
  <2> QED BY <2>4, <2>5
<1>6. Good(n)
  <2> HIDE DEF Good
  <2>1. n \in 1..n
    OBVIOUS
  <2> QED BY <1>5, <2>1
<1> QED BY <1>2, <1>3, <1>6

\* The places behind the levels.
Bounds(levels) == CHOOSE B : Laid(Characters(levels), levels, Len(levels), B)

\* The levels of a filter: '#' may be the last one, and only the last one.
LEMMA FilterShape ==
  ASSUME NEW f \in Filters
  PROVE  \E n \in Nat \ {0} :
           /\ n = Len(f) /\ f \in [1..n -> Seq(Chars)]
           /\ \A i \in 1..n : f[i] \in FilterLevels \/ (i = n /\ f[i] = Hash)
<1>1. Hash \in Seq(Chars)
  <2>1. "#" \in Chars
    BY DEF Chars
  <2> QED BY <2>1, OneCharacter DEF Hash
<1>2. CASE f \in Levels(FilterLevels)
  <2>1. PICK n \in Nat \ {0} : f \in [1..n -> FilterLevels]
    BY <1>2, LevelsType
  <2>2. f \in [1..n -> Seq(Chars)]
    BY <2>1, LevelChars
  <2>3. n = Len(f)
    BY <2>2
  <2> QED BY <2>1, <2>2, <2>3
<1>3. CASE f \in {Append(g, Hash) : g \in Levels(FilterLevels)}
  <2>1. PICK g \in Levels(FilterLevels) : f = Append(g, Hash)
    BY <1>3
  <2>2. PICK n \in Nat \ {0} : g \in [1..n -> FilterLevels]
    BY LevelsType
  <2>3. g \in Seq(Seq(Chars)) /\ Len(g) = n
    BY <2>2, LevelChars
  <2>4. f \in Seq(Seq(Chars)) /\ Len(f) = n + 1 /\ f[n + 1] = Hash /\ \A i \in 1..n : f[i] = g[i]
    BY <1>1, <2>1, <2>3, AppendProperties
  <2>5. n + 1 \in Nat \ {0} /\ f \in [1..(n + 1) -> Seq(Chars)]
    BY <2>2, <2>4
  <2>6. ASSUME NEW i \in 1..(n + 1) PROVE f[i] \in FilterLevels \/ (i = n + 1 /\ f[i] = Hash)
    <3>1. i = n + 1 \/ i \in 1..n
      OBVIOUS
    <3> QED BY <2>2, <2>4, <3>1
  <2> QED BY <2>4, <2>5, <2>6
<1>4. CASE f = <<Hash>>
  <2>1. f \in [1..1 -> Seq(Chars)] /\ Len(f) = 1
    BY <1>1, <1>4
  <2>2. 1 \in Nat \ {0} /\ f[1] = Hash /\ \A i \in 1..1 : i = 1
    BY SMTT(30), <1>4
  <2> QED BY <2>1, <2>2
<1> QED BY SMTT(30), <1>2, <1>3, <1>4 DEF Filters

\* The levels of a name.
LEMMA NameShape ==
  ASSUME NEW m \in Names
  PROVE  \E n \in Nat \ {0} :
           n = Len(m) /\ m \in [1..n -> Seq(Chars)] /\ \A i \in 1..n : m[i] \in NameLevels
<1>1. PICK n \in Nat \ {0} : m \in [1..n -> NameLevels]
  BY LevelsType DEF Names
<1>2. m \in [1..n -> Seq(Chars)]
  BY <1>1, LevelChars
<1>3. n = Len(m)
  BY <1>2
<1> QED BY <1>1, <1>2, <1>3

\* The string s is that of these n levels.
Side(s, levels, n, B) ==
  n = Len(levels) /\ levels \in [1..n -> Seq(Chars)] /\ s \in Seq(Chars) /\ Laid(s, levels, n, B)

\* Place k of level i, which has l characters: a character of the level, the separator behind
\* it, or the end of s.
At(s, levels, n, B, i, l, k) ==
  /\ B[i - 1] \in Nat /\ B[i] \in Nat /\ B[i - 1] + (l + 1) = B[i]
  /\ \/ k <= l /\ B[i - 1] + k <= Len(s) /\ s[B[i - 1] + k] = levels[i][k]
     \/ k = l + 1 /\ i < n /\ B[i] <= Len(s) /\ s[B[i]] = "/"
     \/ k = l + 1 /\ i = n /\ B[i] = Len(s) + 1

\* The levels and their lengths.
LEMMA SideTypes ==
  ASSUME NEW s, NEW levels, NEW n \in Nat \ {0}, NEW B, Side(s, levels, n, B)
  PROVE  /\ n = Len(levels) /\ DOMAIN levels = 1..n /\ Len(s) \in Nat
         /\ \A i \in 1..n : levels[i] \in Seq(Chars) /\ Len(levels[i]) \in Nat
<1>1. n = Len(levels) /\ levels \in [1..n -> Seq(Chars)] /\ s \in Seq(Chars)
  BY DEF Side
<1> QED BY <1>1

\* Every place of a level is one of these.
LEMMA AtPlace ==
  ASSUME NEW s, NEW levels, NEW n \in Nat \ {0}, NEW B, Side(s, levels, n, B),
         NEW i \in 1..n, NEW l \in Nat, l = Len(levels[i]), NEW k \in 1..(l + 1)
  PROVE  At(s, levels, n, B, i, l, k)
<1>1. s \in Seq(Chars) /\ Laid(s, levels, n, B)
  BY DEF Side
<1>2. /\ B \in [0..n -> Nat]
      /\ \A j \in 1..n : B[j] = B[j - 1] + Len(levels[j]) + 1
      /\ \A h \in 0..n, j \in 0..n : h < j => B[h] < B[j]
      /\ \A j \in 1..n : \A h \in 1..Len(levels[j]) : s[B[j - 1] + h] = levels[j][h]
      /\ \A j \in 1..(n - 1) : s[B[j]] = "/"
      /\ Len(s) + 1 = B[n]
  BY <1>1 DEF Laid
<1>3. i \in 0..n /\ i - 1 \in 0..n /\ n \in 0..n
  OBVIOUS
<1>4. PICK a \in Nat, b \in Nat, c \in Nat : a = B[i - 1] /\ b = B[i] /\ c = B[n]
  BY <1>2, <1>3
<1>5. b = a + l + 1
  <2>1. B[i] = B[i - 1] + Len(levels[i]) + 1
    BY <1>2
  <2> QED BY <1>4, <2>1
<1>6. b <= c /\ (i < n => b < c)
  <2>1. i < n => B[i] < B[n]
    BY <1>2, <1>3
  <2> QED BY <1>4, <2>1
<1>7. PICK z \in Nat : z = Len(s) /\ z + 1 = c
  <2>1. Len(s) \in Nat
    BY <1>1
  <2> QED BY <1>2, <1>4, <2>1
<1>8. B[i - 1] \in Nat /\ B[i] \in Nat /\ B[i - 1] + (l + 1) = B[i]
  BY SMTT(30), <1>4, <1>5
<1>9. CASE k <= l
  <2>1. k \in 1..Len(levels[i])
    BY <1>9
  <2>2. s[B[i - 1] + k] = levels[i][k]
    BY <1>2, <2>1
  <2>3. a + k <= z
    BY <1>5, <1>6, <1>7, <1>9
  <2>4. B[i - 1] + k <= Len(s)
    BY <1>4, <1>7, <2>3
  <2> QED BY <1>8, <1>9, <2>2, <2>4 DEF At
<1>10. CASE k = l + 1 /\ i < n
  <2>1. i \in 1..(n - 1)
    BY <1>10
  <2>2. s[B[i]] = "/"
    BY <1>2, <2>1
  <2>3. b <= z
    BY <1>6, <1>7, <1>10
  <2>4. B[i] <= Len(s)
    BY <1>4, <1>7, <2>3
  <2> QED BY <1>8, <1>10, <2>2, <2>4 DEF At
<1>11. CASE k = l + 1 /\ i = n
  <2>1. B[i] = Len(s) + 1
    BY <1>4, <1>7, <1>11
  <2> QED BY <1>8, <1>11, <2>1 DEF At
<1>12. k <= l \/ k = l + 1
  OBVIOUS
<1>13. i < n \/ i = n
  OBVIOUS
<1> QED BY <1>9, <1>10, <1>11, <1>12, <1>13

-----------------------------------------------------------------------------
(* The loop.                                                               *)

FB == Bounds(filter)
NB == Bounds(name)

\* The characters of the levels of a filter and of a name.
FilterFormat(n) ==
  \A i \in 1..n : \A k \in 1..Len(filter[i]) :
    /\ filter[i][k] # "/"
    /\ filter[i][k] = "#" => i = n /\ filter[i] = Hash
    /\ filter[i][k] = "+" => filter[i] = Plus
NameFormat(m) ==
  \A i \in 1..m : \A k \in 1..Len(name[i]) : name[i][k] \notin {"/", "#", "+"}

\* The two strings, by their levels, n and m of them.
Setting(n, m) ==
  Side(F, filter, n, FB) /\ Side(N, name, m, NB) /\ FilterFormat(n) /\ NameFormat(m)

\* What the format of filters and names gives.
LEMMA SettingHolds ==
  ASSUME filter \in Filters, name \in Names
  PROVE  \E n \in Nat \ {0}, m \in Nat \ {0} : Setting(n, m)
<1>1. PICK n \in Nat \ {0} :
           /\ n = Len(filter) /\ filter \in [1..n -> Seq(Chars)]
           /\ \A i \in 1..n : filter[i] \in FilterLevels \/ (i = n /\ filter[i] = Hash)
  BY FilterShape
<1>2. PICK m \in Nat \ {0} :
           m = Len(name) /\ name \in [1..m -> Seq(Chars)] /\ \A i \in 1..m : name[i] \in NameLevels
  BY NameShape
<1>3. Laid(F, filter, n, FB)
  <2>1. \E B : Laid(F, filter, n, B)
    BY <1>1, LaidOut DEF F
  <2> QED BY ZenonT(60), <1>1, <2>1 DEF FB, Bounds, F
<1>4. Laid(N, name, m, NB)
  <2>1. \E B : Laid(N, name, m, B)
    BY SMTT(30), <1>2, LaidOut DEF N
  <2> QED BY <1>2, <2>1 DEF NB, Bounds, N
<1>5. F \in Seq(Chars) /\ N \in Seq(Chars)
  BY FilterCharacters, NameCharacters DEF F, N
<1>6. ASSUME NEW i \in 1..n, NEW k \in 1..Len(filter[i])
      PROVE  /\ filter[i][k] # "/"
             /\ filter[i][k] = "#" => i = n /\ filter[i] = Hash
             /\ filter[i][k] = "+" => filter[i] = Plus
  <2>1. CASE filter[i] \in FilterLevels
    BY <2>1, FormatAssumption DEF Plus
  <2>2. CASE i = n /\ filter[i] = Hash
    <3>1. Len(Hash) = 1 /\ Hash[1] = "#"
      BY DEF Hash
    <3>2. k = 1 /\ filter[i][k] = "#"
      BY <2>2, <3>1
    <3> QED BY <2>2, <3>2
  <2> QED BY <1>1, <2>1, <2>2
<1>7. ASSUME NEW i \in 1..m, NEW k \in 1..Len(name[i]) PROVE name[i][k] \notin {"/", "#", "+"}
  <2>1. name[i] \in NameLevels /\ name[i] \in FilterLevels
    BY <1>2, TopicAssumption
  <2> QED BY <2>1, FormatAssumption
<1> QED BY <1>1, <1>2, <1>3, <1>4, <1>5, <1>6, <1>7 DEF Setting, Side, FilterFormat, NameFormat

\* '+' leads to the place behind its level.
LEMMA EndOfLevelIs ==
  ASSUME NEW n \in Nat \ {0}, NEW m \in Nat \ {0}, Setting(n, m), NEW i \in 1..m,
         NEW l \in Nat \ {0}, l = Len(name[i]), curn = NB[i - 1] + 1
  PROVE  EndOfLevel + 1 = NB[i]
<1>1. Side(N, name, m, NB) /\ NameFormat(m)
  BY DEF Setting
<1>2. ASSUME NEW k \in 1..(l + 1) PROVE At(N, name, m, NB, i, l, k)
  <2>1. l \in Nat
    OBVIOUS
  <2> QED BY <1>1, <2>1, AtPlace
<1>3. l + 1 \in 1..(l + 1) /\ ~(l + 1 <= l)
  OBVIOUS
<1>4. At(N, name, m, NB, i, l, l + 1)
  BY <1>2, <1>3
<1>5. NB[i - 1] \in Nat /\ NB[i] \in Nat /\ NB[i - 1] + (l + 1) = NB[i]
  BY <1>4 DEF At
<1>6. PICK a \in Nat, z \in Nat, c \in Nat : a = NB[i - 1] /\ z = Len(N) /\ c = NB[i]
  BY <1>1, <1>5, SideTypes
<1>7. PICK e \in Nat : e = a + l /\ e + 1 = NB[i]
  <2>1. a + (l + 1) = c
    BY <1>6, <1>5
  <2>2. a + l \in Nat /\ (a + l) + 1 = c
    BY <2>1
  <2> QED BY <1>6, <2>2
<1>8. ASSUME NEW k \in 1..l PROVE a + k <= z /\ N[a + k] # "/"
  <2>1. k \in 1..(l + 1) /\ k <= l /\ k # l + 1 /\ k \in 1..Len(name[i])
    OBVIOUS
  <2>2. At(N, name, m, NB, i, l, k)
    BY <1>2, <2>1
  <2>3. NB[i - 1] + k <= Len(N) /\ N[NB[i - 1] + k] = name[i][k]
    BY <2>1, <2>2 DEF At
  <2>4. name[i][k] # "/"
    BY <1>1, <2>1 DEF NameFormat
  <2> QED BY <1>6, <2>3, <2>4
<1>9. e = z \/ (e + 1 <= z /\ N[e + 1] = "/")
  <2>1. (NB[i] <= Len(N) /\ N[NB[i]] = "/") \/ NB[i] = Len(N) + 1
    BY <1>3, <1>4 DEF At
  <2> QED BY SMTT(30), <1>6, <1>7, <2>1
<1> DEFINE Found(j) == (j = Len(N) \/ N[j + 1] = "/") /\ \A h \in curn..(j - 1) : N[h + 1] # "/"
<1>10. e \in curn..Len(N) /\ Found(e)
  <2>1. curn = a + 1 /\ a + l <= z
    <3>1. l \in 1..l
      OBVIOUS
    <3> QED BY <1>6, <1>8, <3>1
  <2>2. e \in curn..Len(N)
    BY <1>6, <1>7, <2>1
  <2>3. ASSUME NEW h \in curn..(e - 1) PROVE N[h + 1] # "/"
    <3>1. PICK k \in 1..l : h + 1 = a + k
      <4>1. h \in (a + 1)..(a + l - 1)
        BY <1>7, <2>1
      <4>2. h + 1 - a \in 1..l /\ h + 1 = a + (h + 1 - a)
        BY <4>1
      <4> QED BY <4>2
    <3> QED BY <1>8, <3>1
  <2> QED BY <1>6, <1>9, <2>2, <2>3
<1>11. ASSUME NEW j \in curn..Len(N), Found(j) PROVE j = e
  <2>1. curn \in Nat /\ curn = a + 1 /\ j \in Nat /\ j \in curn..z
    BY <1>6, <1>11
  <2>2. CASE j < e
    <3>1. j \in curn..(e - 1)
      BY <2>1, <2>2
    <3>2. N[j + 1] # "/"
      BY <1>10, <3>1
    <3>3. j # z
      BY <1>6, <1>10, <2>2
    <3> QED BY <1>6, <1>11, <3>2, <3>3
  <2>3. CASE e < j
    <3>1. e \in curn..(j - 1)
      BY <1>6, <1>10, <2>1, <2>3
    <3>2. N[e + 1] # "/"
      BY <1>11, <3>1
    <3>3. e # z
      BY <2>1, <2>3
    <3> QED BY <1>9, <3>2, <3>3
  <2> QED BY <2>1, <2>2, <2>3
<1>12. EndOfLevel = CHOOSE j \in curn..Len(N) : Found(j)
  BY DEF EndOfLevel
<1> HIDE DEF Found
<1>13. EndOfLevel = e
  BY <1>10, <1>11, <1>12
<1> QED BY <1>7, <1>13

\* The levels before i match.
Before(i) == \A j \in 1..(i - 1) : filter[j] \in {Plus, name[j]}

\* Both pointers are at place k of level i, and the characters before it agree.
Inside(i, k) ==
  /\ curf = FB[i - 1] + k /\ curn = NB[i - 1] + k
  /\ k <= Len(filter[i]) + 1 /\ k <= Len(name[i]) + 1
  /\ \A j \in 1..(k - 1) : filter[i][j] = name[i][j]

\* Both pointers are behind level i, which '+' has matched.
Behind(i) == filter[i] = Plus /\ curf = FB[i] /\ curn = NB[i]

\* '#' has matched the rest.
Over ==
  /\ filter[Len(filter)] = Hash /\ Len(filter) <= Len(name) /\ Before(Len(filter))
  /\ curf = Len(F) + 1 /\ curn = Len(N) + 1

\* The invariant of the loop.
LoopInv ==
  \/ \E i \in 1..Len(filter) : i <= Len(name) /\ Before(i) /\ (Behind(i) \/ \E k \in Nat \ {0} : Inside(i, k))
  \/ Over

\* The pointers go from one level to the next over a separator in both strings.
LEMMA NextLevel ==
  ASSUME NEW n \in Nat \ {0}, NEW m \in Nat \ {0}, Setting(n, m), NEW i \in 1..n, i < n, i < m, Before(i),
         filter[i] \in {Plus, name[i]}, UNCHANGED <<filter, name>>, curf' = FB[i] + 1, curn' = NB[i] + 1
  PROVE  LoopInv'
<1>1. FB' = FB /\ NB' = NB
  BY DEF FB, NB
<1>2. PICK h \in 1..n : h = i + 1 /\ h - 1 = i /\ h <= m
  OBVIOUS
<1>3. Before(h)'
  BY <1>2 DEF Before
<1>4. Len(filter[h]) \in Nat /\ Len(name[h]) \in Nat
  <2>1. h \in 1..m
    BY <1>2
  <2> QED BY <2>1, SideTypes DEF Setting
<1>5. Inside(h, 1)'
  <2>1. \A j \in 1..(1 - 1) : FALSE
    OBVIOUS
  <2> QED BY <1>1, <1>2, <1>4, <2>1 DEF Inside
<1>6. n = Len(filter') /\ m = Len(name')
  BY SideTypes DEF Setting
<1>7. 1 \in Nat \ {0}
  OBVIOUS
<1> QED BY <1>2, <1>3, <1>5, <1>6, <1>7 DEF LoopInv

\* A round of the loop from inside a level.
LEMMA InsideStep ==
  ASSUME NEW n \in Nat \ {0}, NEW m \in Nat \ {0}, Setting(n, m), NEW i \in 1..n, i <= m, Before(i),
         NEW k \in Nat \ {0}, Inside(i, k), Step
  PROVE  LoopInv'
<1>1. UNCHANGED <<filter, name>> /\ curf' = curf + 1 /\ curn' = Skipped + 1
  BY DEF Step
<1>2. FB' = FB /\ NB' = NB /\ F' = F /\ N' = N /\ Before(i)' /\ n = Len(filter') /\ m = Len(name')
  <2>1. n = Len(filter) /\ m = Len(name)
    BY SideTypes DEF Setting
  <2> QED BY <1>1, <2>1 DEF FB, NB, F, N, Before
<1>3. curf <= Len(F) /\ curn <= Len(N) /\ ~Breaks
  BY DEF Step, Looping
<1>4. Side(F, filter, n, FB) /\ Side(N, name, m, NB) /\ FilterFormat(n) /\ NameFormat(m) /\ i \in 1..m
  BY DEF Setting
<1>5. PICK a \in Nat, b \in Nat : a = Len(filter[i]) /\ b = Len(name[i])
  BY <1>4, SideTypes
<1>6. k \in 1..(a + 1) /\ k \in 1..(b + 1)
  BY <1>5 DEF Inside
<1>7. At(F, filter, n, FB, i, a, k) /\ At(N, name, m, NB, i, b, k)
  BY <1>4, <1>5, <1>6, AtPlace
<1>8. PICK p \in Nat, q \in Nat : p = FB[i - 1] /\ q = NB[i - 1] /\ curf = p + k /\ curn = q + k
  BY <1>7 DEF Inside, At
<1>9. FB[i] = p + (a + 1) /\ NB[i] = q + (b + 1)
  BY <1>8, <1>7 DEF At
<1>10. PICK y \in Nat, z \in Nat : y = Len(F) /\ z = Len(N)
  BY <1>4, SideTypes
<1>11. \/ k <= a /\ F[curf] = filter[i][k]
       \/ k = a + 1 /\ i < n /\ F[curf] = "/"
  <2>1. \/ k <= a /\ F[p + k] = filter[i][k]
        \/ k = a + 1 /\ i < n /\ F[FB[i]] = "/"
        \/ k = a + 1 /\ FB[i] = y + 1
    BY <1>8, <1>10, <1>7 DEF At
  <2>2. p + k <= y
    BY <1>3, <1>8, <1>10
  <2>3. CASE k <= a
    BY <1>8, <2>1, <2>3
  <2>4. CASE k = a + 1
    <3>1. FB[i] = curf /\ FB[i] # y + 1
      BY <1>8, <1>9, <2>2, <2>4
    <3> QED BY <2>1, <2>4, <3>1
  <2> QED BY <1>6, <2>3, <2>4
<1>12. \/ k <= b /\ N[curn] = name[i][k] /\ N[curn] \notin {"/", "#", "+"}
       \/ k = b + 1 /\ i < m /\ N[curn] = "/"
  <2>1. \/ k <= b /\ N[q + k] = name[i][k]
        \/ k = b + 1 /\ i < m /\ N[NB[i]] = "/"
        \/ k = b + 1 /\ NB[i] = z + 1
    BY <1>8, <1>10, <1>7 DEF At
  <2>2. q + k <= z
    BY <1>3, <1>8, <1>10
  <2>3. CASE k <= b
    <3>1. k \in 1..Len(name[i])
      BY <1>5, <1>6, <2>3
    <3>2. name[i][k] \notin {"/", "#", "+"}
      BY <1>4, <3>1 DEF NameFormat
    <3>3. k # b + 1
      BY <2>3
    <3> QED BY <1>8, <2>1, <2>3, <3>2, <3>3
  <2>4. CASE k = b + 1
    <3>1. NB[i] = curn /\ NB[i] # z + 1 /\ ~(k <= b)
      BY <1>8, <1>9, <2>2, <2>4
    <3> QED BY <2>1, <2>4, <3>1
  <2> QED BY <1>6, <2>3, <2>4
<1>13. CASE k <= a
  <2>1. k \in 1..Len(filter[i]) /\ k # a + 1
    BY <1>5, <1>6, <1>13
  <2>2. F[curf] = filter[i][k] /\ filter[i][k] # "/"
    BY <1>4, <1>11, <2>1 DEF FilterFormat
  <2>3. k <= b /\ N[curn] = name[i][k] /\ N[curn] \notin {"/", "#", "+"}
    BY <1>3, <1>12, <2>2 DEF Breaks
  <2>4. CASE F[curf] = "+"
    <3>1. filter[i] = Plus
      BY <1>4, <2>1, <2>2, <2>4 DEF FilterFormat
    <3>2. a = 1 /\ k = 1
      <4>1. Len(Plus) = 1
        BY DEF Plus
      <4> QED BY <1>5, <1>13, <3>1, <4>1
    <3>3. b \in Nat \ {0} /\ curn = NB[i - 1] + 1
      BY <1>8, <2>3, <3>2
    <3>4. EndOfLevel + 1 = NB[i]
      BY <1>5, <1>6, <3>3, EndOfLevelIs
    <3>5. curf' = FB[i] /\ curn' = NB[i]
      BY <1>1, <1>8, <1>9, <2>4, <3>2, <3>4 DEF Skipped
    <3>6. Behind(i)'
      BY <1>1, <1>2, <3>1, <3>5 DEF Behind
    <3> QED BY <1>1, <1>2, <3>6 DEF LoopInv
  <2>5. CASE F[curf] = "#"
    <3>1. i = n /\ filter[i] = Hash
      BY <1>4, <2>1, <2>2, <2>5 DEF FilterFormat
    <3>2. a = 1 /\ k = 1
      <4>1. Len(Hash) = 1
        BY DEF Hash
      <4> QED BY <1>5, <1>13, <3>1, <4>1
    <3>3. curf' = FB[n] /\ FB[n] = Len(F) + 1
      <4>1. FB[i] = p + 2 /\ curf' = p + 2
        BY <1>1, <1>8, <1>9, <3>2
      <4>2. 2 \in 1..(a + 1) /\ ~(2 <= a) /\ ~(i < n)
        BY <3>1, <3>2
      <4>3. At(F, filter, n, FB, i, a, 2)
        BY <1>4, <1>5, <4>2, AtPlace
      <4>4. FB[i] = Len(F) + 1
        BY <4>2, <4>3 DEF At
      <4> QED BY <3>1, <4>1, <4>4
    <3>4. curn' = Len(N) + 1
      BY <1>1, <2>5 DEF Skipped
    <3>5. Over'
      BY <1>1, <1>2, <3>1, <3>3, <3>4 DEF Over
    <3> QED BY <3>5 DEF LoopInv
  <2>6. CASE F[curf] \notin {"+", "#"}
    <3>1. F[curf] = N[curn] /\ filter[i][k] = name[i][k]
      BY <1>3, <2>2, <2>3, <2>6 DEF Breaks
    <3>2. curn' = curn + 1
      BY <1>1, <2>6 DEF Skipped
    <3>3. PICK h \in Nat \ {0} : h = k + 1 /\ h <= a + 1 /\ h <= b + 1 /\ curf' = p + h /\ curn' = q + h
      BY <1>1, <1>8, <1>13, <2>3, <3>2
    <3>4. ASSUME NEW j \in 1..(h - 1) PROVE filter[i][j] = name[i][j]
      <4>1. j = k \/ j \in 1..(k - 1)
        BY <3>3
      <4> QED BY <3>1, <4>1 DEF Inside
    <3>5. Inside(i, h)'
      BY <1>1, <1>2, <1>5, <1>8, <3>3, <3>4 DEF Inside
    <3> QED BY <1>1, <1>2, <3>5 DEF LoopInv
  <2> QED BY <2>4, <2>5, <2>6
<1>14. CASE k = a + 1
  <2>1. i < n /\ F[curf] = "/"
    BY <1>11, <1>14
  <2>2. N[curn] = "/" /\ k = b + 1 /\ i < m
    BY <1>3, <1>12, <2>1 DEF Breaks
  <2>3. filter[i] = name[i]
    <3>1. a = b /\ \A j \in 1..a : filter[i][j] = name[i][j]
      <4>1. a = b /\ k - 1 = a
        BY <1>14, <2>2
      <4> QED BY <4>1 DEF Inside
    <3>2. PICK v \in Seq(Chars), w \in Seq(Chars) : v = filter[i] /\ w = name[i]
      BY <1>4, SideTypes
    <3>3. v = w
      BY <1>5, <3>1, <3>2, SeqEqual
    <3> QED BY <3>2, <3>3
  <2>4. curn' = curn + 1
    BY <1>1, <2>1 DEF Skipped
  <2>5. curf' = FB[i] + 1 /\ curn' = NB[i] + 1
    BY <1>1, <1>8, <1>9, <1>14, <2>2, <2>4
  <2> QED BY <1>1, <2>1, <2>2, <2>3, <2>5, NextLevel
<1> QED BY <1>6, <1>13, <1>14

\* A round of the loop from behind a level that '+' has matched.
LEMMA BehindStep ==
  ASSUME NEW n \in Nat \ {0}, NEW m \in Nat \ {0}, Setting(n, m), NEW i \in 1..n, i <= m, Before(i), Behind(i), Step
  PROVE  LoopInv'
<1>1. UNCHANGED <<filter, name>> /\ curf' = curf + 1 /\ curn' = Skipped + 1
  BY DEF Step
<1>2. curf <= Len(F) /\ curn <= Len(N) /\ ~Breaks
  BY DEF Step, Looping
<1>3. Side(F, filter, n, FB) /\ Side(N, name, m, NB) /\ i \in 1..m
  BY DEF Setting
<1>4. PICK a \in Nat, b \in Nat : a = Len(filter[i]) /\ b = Len(name[i])
  BY <1>3, SideTypes
<1>5. a + 1 \in 1..(a + 1) /\ b + 1 \in 1..(b + 1) /\ ~(a + 1 <= a) /\ ~(b + 1 <= b)
  OBVIOUS
<1>6. Len(F) \in Nat /\ Len(N) \in Nat
  BY <1>3, SideTypes
<1>7. At(F, filter, n, FB, i, a, a + 1) /\ At(N, name, m, NB, i, b, b + 1)
  BY <1>3, <1>4, <1>5, AtPlace
<1>8. i < n /\ F[curf] = "/"
  <2>1. (i < n /\ F[FB[i]] = "/") \/ FB[i] = Len(F) + 1
    BY <1>5, <1>7 DEF At
  <2> QED BY <1>2, <1>6, <2>1 DEF Behind
<1>9. i < m /\ N[curn] = "/"
  <2>1. (i < m /\ N[NB[i]] = "/") \/ NB[i] = Len(N) + 1
    BY <1>5, <1>7 DEF At
  <2> QED BY <1>2, <1>6, <2>1 DEF Behind
<1>10. curf' = FB[i] + 1 /\ curn' = NB[i] + 1
  BY <1>1, <1>8 DEF Skipped, Behind
<1>11. filter[i] \in {Plus, name[i]}
  BY DEF Behind
<1> QED BY <1>1, <1>8, <1>9, <1>10, <1>11, NextLevel

\* Every round of the loop.
LEMMA LoopStep ==
  ASSUME TypeOK, LoopInv, Step
  PROVE  LoopInv'
<1>1. PICK n \in Nat \ {0}, m \in Nat \ {0} : Setting(n, m)
  BY SettingHolds DEF TypeOK
<1>2. n = Len(filter) /\ m = Len(name) /\ Len(F) \in Nat
  BY <1>1, SideTypes DEF Setting
<1>3. ~Over
  <2>1. curf <= Len(F) /\ Len(F) \in Nat
    BY <1>2 DEF Step, Looping
  <2> QED BY <2>1 DEF Over
<1>4. PICK i \in 1..n : i <= m /\ Before(i) /\ (Behind(i) \/ \E k \in Nat \ {0} : Inside(i, k))
  BY <1>2, <1>3 DEF LoopInv
<1>5. CASE Behind(i)
  BY <1>1, <1>4, <1>5, BehindStep
<1>6. CASE \E k \in Nat \ {0} : Inside(i, k)
  BY <1>1, <1>4, <1>6, InsideStep
<1> QED BY <1>4, <1>5, <1>6

-----------------------------------------------------------------------------
(* The answer.                                                             *)

\* MqttMatch by the number of levels.
LEMMA MatchIs ==
  ASSUME NEW n \in Nat \ {0}, NEW m \in Nat \ {0}, Setting(n, m)
  PROVE  /\ filter[n] = Hash => (MqttMatch <=> n <= m + 1 /\ Before(n))
         /\ filter[n] # Hash => (MqttMatch <=> m = n /\ Before(n) /\ filter[n] \in {Plus, name[n]})
<1>1. n = Len(filter) /\ m = Len(name)
  BY SideTypes DEF Setting
<1>2. CASE filter[n] = Hash
  <2>1. MqttMatch <=> m >= n - 1 /\ \A i \in 1..(n - 1) : filter[i] \in {Plus, name[i]}
    BY <1>1, <1>2 DEF MqttMatch
  <2> QED BY <1>2, <2>1 DEF Before
<1>3. CASE filter[n] # Hash
  <2>1. MqttMatch <=> m = n /\ \A i \in 1..n : filter[i] \in {Plus, name[i]}
    BY <1>1, <1>3 DEF MqttMatch
  <2>2. \A i \in 1..n : i = n \/ i \in 1..(n - 1)
    OBVIOUS
  <2>3. n \in 1..n /\ \A i \in 1..(n - 1) : i \in 1..n
    OBVIOUS
  <2> QED BY <1>3, <2>1, <2>2, <2>3 DEF Before
<1> QED BY <1>2, <1>3

\* No level of a name is a wildcard.
LEMMA NoWildcard ==
  ASSUME NEW n, NEW m \in Nat \ {0}, Setting(n, m), NEW i \in 1..m
  PROVE  name[i] # Plus /\ name[i] # Hash
<1>1. Len(Plus) = 1 /\ Plus[1] = "+" /\ Len(Hash) = 1 /\ Hash[1] = "#" /\ 1 \in 1..1
  BY DEF Plus, Hash
<1>2. \A k \in 1..Len(name[i]) : name[i][k] \notin {"/", "#", "+"}
  BY DEF Setting, NameFormat
<1>3. name[i] # Plus
  BY <1>1, <1>2
<1>4. name[i] # Hash
  BY <1>1, <1>2
<1> QED BY <1>3, <1>4

\* Both pointers at the end of their strings: the filter matches.
LEMMA EndsMatch ==
  ASSUME NEW n \in Nat \ {0}, NEW m \in Nat \ {0}, Setting(n, m), LoopInv,
         curf = Len(F) + 1, curn = Len(N) + 1
  PROVE  MqttMatch
<1>1. Side(F, filter, n, FB) /\ Side(N, name, m, NB) /\ FilterFormat(n) /\ NameFormat(m)
  BY DEF Setting
<1>2. n = Len(filter) /\ m = Len(name) /\ Len(F) \in Nat /\ Len(N) \in Nat
  BY <1>1, SideTypes
<1>3. CASE Over
  <2>1. filter[n] = Hash /\ n <= m /\ Before(n)
    BY <1>2, <1>3 DEF Over
  <2> QED BY <2>1, MatchIs
<1>4. CASE ~Over
  <2>1. PICK i \in 1..n : i <= m /\ Before(i) /\ (Behind(i) \/ \E k \in Nat \ {0} : Inside(i, k))
    BY <1>2, <1>4 DEF LoopInv
  <2>2. i \in 1..m
    BY <2>1
  <2>3. PICK a \in Nat, b \in Nat : a = Len(filter[i]) /\ b = Len(name[i])
    BY <1>1, <2>2, SideTypes
  <2>4. ASSUME NEW k \in 1..(a + 1), curf = FB[i - 1] + k PROVE i = n /\ k = a + 1
    <3>1. At(F, filter, n, FB, i, a, k)
      BY <1>1, <2>3, AtPlace
    <3>2. ~(FB[i - 1] + k <= Len(F))
      BY <1>2, <2>4
    <3>3. k = a + 1 => FB[i] = FB[i - 1] + k
      BY <3>1 DEF At
    <3> QED BY <3>1, <3>2, <3>3 DEF At
  <2>5. ASSUME NEW k \in 1..(b + 1), curn = NB[i - 1] + k PROVE i = m /\ k = b + 1
    <3>1. At(N, name, m, NB, i, b, k)
      BY <1>1, <2>3, <2>2, AtPlace
    <3>2. ~(NB[i - 1] + k <= Len(N))
      BY <1>2, <2>5
    <3>3. k = b + 1 => NB[i] = NB[i - 1] + k
      BY <3>1 DEF At
    <3> QED BY <3>1, <3>2, <3>3 DEF At
  <2>6. i = n /\ i = m /\ filter[n] \in {Plus, name[n]}
    <3>1. CASE Behind(i)
      <4>1. a + 1 \in 1..(a + 1) /\ b + 1 \in 1..(b + 1)
        OBVIOUS
      <4>2. At(F, filter, n, FB, i, a, a + 1) /\ At(N, name, m, NB, i, b, b + 1)
        BY <1>1, <2>3, <2>2, <4>1, AtPlace
      <4>3. FB[i] = FB[i - 1] + (a + 1) /\ NB[i] = NB[i - 1] + (b + 1)
        BY <4>2 DEF At
      <4> QED BY <2>4, <2>5, <3>1, <4>1, <4>3 DEF Behind
    <3>2. CASE \E k \in Nat \ {0} : Inside(i, k)
      <4>1. PICK k \in Nat \ {0} : Inside(i, k)
        BY <3>2
      <4>2. k \in 1..(a + 1) /\ k \in 1..(b + 1)
        BY <2>3, <4>1 DEF Inside
      <4>3. i = n /\ i = m /\ k = a + 1 /\ k = b + 1
        BY <2>4, <2>5, <4>1, <4>2 DEF Inside
      <4>4. a = b /\ \A j \in 1..a : filter[i][j] = name[i][j]
        <5>1. a = b /\ k - 1 = a
          BY <4>3
        <5> QED BY <4>1, <5>1 DEF Inside
      <4>5. PICK x \in Seq(Chars), y \in Seq(Chars) : x = filter[i] /\ y = name[i]
        BY <1>1, <2>2, SideTypes
      <4>6. x = y
        BY <2>3, <4>4, <4>5, SeqEqual
      <4> QED BY <4>3, <4>5, <4>6
    <3> QED BY <2>1, <3>1, <3>2
  <2>7. filter[n] # Hash
    <3>1. Plus # Hash
      <4>1. Plus[1] = "+" /\ Hash[1] = "#"
        BY DEF Plus, Hash
      <4> QED BY <4>1
    <3> QED BY <2>2, <2>6, <3>1, NoWildcard
  <2> QED BY <2>1, <2>6, <2>7, MatchIs
<1> QED BY <1>3, <1>4

\* Behind level i, with more of it to come in both strings or in none.
LEMMA BehindGoesOn ==
  ASSUME NEW n \in Nat \ {0}, NEW m \in Nat \ {0}, Setting(n, m), NEW i \in 1..n, i <= m,
         curf = FB[i], curn = NB[i], i < n => i < m, i < m => i < n, matched = "none"
  PROVE  Looping \/ (curf = Len(F) + 1 /\ curn = Len(N) + 1)
<1>1. Side(F, filter, n, FB) /\ Side(N, name, m, NB) /\ i \in 1..m
  BY DEF Setting
<1>2. PICK a \in Nat, b \in Nat : a = Len(filter[i]) /\ b = Len(name[i])
  BY <1>1, SideTypes
<1>3. a + 1 \in 1..(a + 1) /\ b + 1 \in 1..(b + 1) /\ ~(a + 1 <= a) /\ ~(b + 1 <= b)
  OBVIOUS
<1>4. (i < n /\ FB[i] <= Len(F) /\ F[FB[i]] = "/") \/ (i = n /\ FB[i] = Len(F) + 1)
  <2>1. At(F, filter, n, FB, i, a, a + 1)
    BY <1>1, <1>2, <1>3, AtPlace
  <2> QED BY <1>3, <2>1 DEF At
<1>5. (i < m /\ NB[i] <= Len(N) /\ N[NB[i]] = "/") \/ (i = m /\ NB[i] = Len(N) + 1)
  <2>1. At(N, name, m, NB, i, b, b + 1)
    BY <1>1, <1>2, <1>3, AtPlace
  <2> QED BY <1>3, <2>1 DEF At
<1>6. CASE i < n
  <2>1. curf <= Len(F) /\ F[curf] = "/" /\ curn <= Len(N) /\ N[curn] = "/"
    BY <1>4, <1>5, <1>6
  <2> QED BY <2>1 DEF Looping, Breaks
<1>7. CASE ~(i < n)
  BY <1>4, <1>5, <1>7
<1> QED BY <1>6, <1>7

\* The loop does not end before the strings do if the filter matches.
LEMMA MatchEnds ==
  ASSUME NEW n \in Nat \ {0}, NEW m \in Nat \ {0}, Setting(n, m), LoopInv, MqttMatch,
         \A i \in 1..m : name[i] # <<>>, filter[n] = Hash => m >= n, matched = "none"
  PROVE  Looping \/ (curf = Len(F) + 1 /\ curn = Len(N) + 1)
<1>1. Side(F, filter, n, FB) /\ Side(N, name, m, NB) /\ FilterFormat(n) /\ NameFormat(m)
  BY DEF Setting
<1>2. n = Len(filter) /\ m = Len(name) /\ Len(F) \in Nat /\ Len(N) \in Nat
  BY <1>1, SideTypes
<1>3. CASE Over
  BY <1>3 DEF Over
<1>4. CASE ~Over
  <2>1. PICK i \in 1..n : i <= m /\ Before(i) /\ (Behind(i) \/ \E k \in Nat \ {0} : Inside(i, k))
    BY <1>2, <1>4 DEF LoopInv
  <2>2. PICK a \in Nat, b \in Nat \ {0} : a = Len(filter[i]) /\ b = Len(name[i])
    <3>1. i \in 1..m
      BY <2>1
    <3>2. PICK y \in Seq(Chars) : y = name[i]
      BY <1>1, <3>1, SideTypes
    <3>3. y # <<>>
      BY <3>1, <3>2
    <3>4. Len(y) \in Nat \ {0}
      BY <3>3, EmptySeq
    <3>5. Len(filter[i]) \in Nat
      BY <1>1, SideTypes
    <3> QED BY <3>2, <3>4, <3>5
  <2>3. i \in 1..m
    BY <2>1
  <2>4. Plus # Hash /\ Len(Plus) = 1 /\ Plus[1] = "+" /\ Len(Hash) = 1 /\ Hash[1] = "#"
    <3>1. Plus[1] = "+" /\ Hash[1] = "#" /\ Len(Plus) = 1 /\ Len(Hash) = 1
      BY DEF Plus, Hash
    <3> QED BY <3>1
  <2>5. \/ i = n /\ filter[i] = Hash
        \/ filter[i] \in {Plus, name[i]} /\ filter[i] # Hash /\ (i < n => i < m) /\ (i < m => i < n)
    <3>1. CASE filter[n] = Hash
      <4>1. Before(n) /\ n <= m
        BY <3>1, MatchIs
      <4>2. CASE i # n
        <5>1. i \in 1..(n - 1)
          BY <4>2
        <5>2. filter[i] \in {Plus, name[i]}
          BY <4>1, <5>1 DEF Before
        <5> QED BY <2>3, <2>4, <4>1, <5>1, <5>2, NoWildcard
      <4> QED BY <3>1, <4>2
    <3>2. CASE filter[n] # Hash
      <4>1. Before(n) /\ m = n /\ filter[n] \in {Plus, name[n]}
        BY <3>2, MatchIs
      <4>2. i = n \/ i \in 1..(n - 1)
        OBVIOUS
      <4>3. filter[i] \in {Plus, name[i]}
        BY <4>1, <4>2 DEF Before
      <4> QED BY <2>3, <2>4, <4>1, <4>3, NoWildcard
    <3> QED BY <3>1, <3>2
  <2>6. CASE Behind(i)
    <3>1. (i < n => i < m) /\ (i < m => i < n)
      BY <2>4, <2>5, <2>6 DEF Behind
    <3> QED BY <2>1, <2>6, <3>1, BehindGoesOn DEF Behind
  <2>7. CASE \E k \in Nat \ {0} : Inside(i, k)
    <3>1. PICK k \in Nat \ {0} : Inside(i, k)
      BY <2>7
    <3>2. k \in 1..(a + 1) /\ k \in 1..(b + 1)
      BY <2>2, <3>1 DEF Inside
    <3>3. At(F, filter, n, FB, i, a, k) /\ At(N, name, m, NB, i, b, k)
      <4>1. b \in Nat
        OBVIOUS
      <4> QED BY <1>1, <2>2, <2>3, <3>2, <4>1, AtPlace
    <3>4. curf = FB[i - 1] + k /\ curn = NB[i - 1] + k
      BY <3>1 DEF Inside
    <3>5. ASSUME k <= a PROVE curf <= Len(F) /\ F[curf] = filter[i][k]
      <4>1. k # a + 1
        BY <3>5
      <4> QED BY <3>3, <3>4, <4>1 DEF At
    <3>6. ASSUME k <= b PROVE curn <= Len(N) /\ N[curn] = name[i][k] /\ name[i][k] \notin {"/", "#", "+"}
      <4>1. curn <= Len(N) /\ N[curn] = name[i][k]
        <5>1. k # b + 1
          BY <3>6
        <5> QED BY <3>3, <3>4, <5>1 DEF At
      <4>2. k \in 1..Len(name[i])
        BY <2>2, <3>2, <3>6
      <4> QED BY <1>1, <2>3, <4>1, <4>2 DEF NameFormat
    <3>7. CASE filter[i] \in {Plus, Hash}
      <4>1. a = 1 /\ filter[i][1] \in {"+", "#"}
        BY <2>2, <2>4, <3>7
      <4>2. k = 1
        <5> SUFFICES ASSUME k # 1 PROVE FALSE
          OBVIOUS
        <5>1. 1 \in 1..(k - 1) /\ 1 \in 1..b
          BY <3>2
        <5>2. filter[i][1] = name[i][1]
          BY <3>1, <5>1 DEF Inside
        <5>3. name[i][1] \notin {"/", "#", "+"}
          BY <1>1, <2>2, <2>3, <5>1 DEF NameFormat
        <5> QED BY <4>1, <5>2, <5>3
      <4>3. F[curf] \in {"+", "#"} /\ curf <= Len(F) /\ curn <= Len(N) /\ N[curn] # "/"
        BY <3>2, <3>5, <3>6, <4>1, <4>2
      <4> QED BY <4>3 DEF Looping, Breaks
    <3>8. CASE filter[i] \notin {Plus, Hash}
      <4>1. filter[i] = name[i] /\ (i < n => i < m) /\ (i < m => i < n) /\ a = b
        BY <2>2, <2>5, <3>8
      <4>2. CASE k <= a
        <5>1. curf <= Len(F) /\ curn <= Len(N) /\ F[curf] = N[curn] /\ N[curn] # "/"
          BY <3>5, <3>6, <4>1, <4>2
        <5> QED BY <5>1 DEF Looping, Breaks
      <4>3. CASE k = a + 1
        <5>1. FB[i - 1] + (a + 1) = FB[i] /\ NB[i - 1] + (b + 1) = NB[i]
          BY <3>3 DEF At
        <5>2. curf = FB[i] /\ curn = NB[i]
          BY <3>4, <4>1, <4>3, <5>1
        <5> QED BY <2>1, <4>1, <5>2, BehindGoesOn
      <4> QED BY <3>2, <4>2, <4>3
    <3> QED BY <3>7, <3>8
  <2> QED BY <2>1, <2>6, <2>7
<1> QED BY <1>3, <1>4

\* Before the answer the loop keeps its invariant; the answer is right.
MatchInv == TypeOK /\ (matched = "none" => LoopInv) /\ Sound /\ Complete

\* The first state.
LEMMA MatchInit ==
  ASSUME Init, TypeOK
  PROVE  MatchInv
<1>1. PICK n \in Nat \ {0}, m \in Nat \ {0} : Setting(n, m)
  BY SettingHolds DEF TypeOK
<1>2. n = Len(filter) /\ m = Len(name) /\ 1 \in 1..n /\ 1 \in 1..m /\ 1 - 1 = 0
  BY <1>1, SideTypes DEF Setting
<1>3. FB[0] = 0 /\ NB[0] = 0 /\ Len(filter[1]) \in Nat /\ Len(name[1]) \in Nat
  <2>1. FB[0] = 0 /\ NB[0] = 0
    BY <1>1 DEF Setting, Side, Laid
  <2> QED BY <1>1, <1>2, <2>1, SideTypes DEF Setting
<1>4. \A j \in 1..(1 - 1) : FALSE
  OBVIOUS
<1>5. Inside(1, 1) /\ Before(1)
  BY <1>2, <1>3, <1>4 DEF Inside, Before, Init
<1>6. LoopInv
  <2>1. 1 \in Nat \ {0} /\ 1 <= m
    OBVIOUS
  <2> QED BY <1>2, <1>5, <2>1 DEF LoopInv
<1> QED BY <1>6 DEF MatchInv, Sound, Complete, Init

\* Every step.
LEMMA MatchStep ==
  ASSUME MatchInv, TypeOK', [Next]_vars
  PROVE  MatchInv'
<1>1. PICK n \in Nat \ {0}, m \in Nat \ {0} : Setting(n, m)
  BY SettingHolds DEF TypeOK, MatchInv
<1>2. n = Len(filter) /\ m = Len(name) /\ DOMAIN name = 1..m
  BY <1>1, SideTypes DEF Setting
<1>3. CASE Step
  <2>1. matched = "none" /\ matched' = matched
    BY <1>3 DEF Step, Looping
  <2>2. LoopInv'
    BY <1>3, <2>1, LoopStep DEF MatchInv
  <2> QED BY <2>1, <2>2 DEF MatchInv, Sound, Complete
<1>4. CASE Answer
  <2>1. /\ matched = "none" /\ ~Looping /\ LoopInv
        /\ matched' = IF curn = Len(N) + 1 /\ curf = Len(F) + 1 THEN "yes" ELSE "no"
        /\ UNCHANGED <<filter, name, curf, curn>>
    BY <1>4 DEF Answer, MatchInv
  <2>2. MqttMatch' = MqttMatch
    BY <2>1 DEF MqttMatch
  <2>3. Sound'
    <3>1. curn = Len(N) + 1 /\ curf = Len(F) + 1 => MqttMatch
      BY <1>1, <2>1, EndsMatch
    <3> QED BY <2>1, <2>2, <3>1 DEF Sound
  <2>4. Complete'
    <3> SUFFICES ASSUME matched' = "no", \A i \in DOMAIN name : name[i] # <<>>,
                        filter[Len(filter)] = Hash => Len(name) >= Len(filter), MqttMatch
                 PROVE  FALSE
      BY <2>1, <2>2 DEF Complete
    <3>1. curn = Len(N) + 1 /\ curf = Len(F) + 1
      BY <1>1, <1>2, <2>1, MatchEnds
    <3> QED BY <2>1, <3>1
  <2>5. matched' # "none"
    BY <2>1
  <2> QED BY <2>3, <2>4, <2>5 DEF MatchInv
<1>5. CASE UNCHANGED vars
  <2>1. UNCHANGED <<filter, name, curf, curn, matched, F, N, FB, NB>>
    BY <1>5 DEF vars, F, N, FB, NB
  <2>2. LoopInv' = LoopInv /\ MqttMatch' = MqttMatch
    BY <2>1 DEF LoopInv, Before, Behind, Inside, Over, MqttMatch
  <2> QED BY <2>1, <2>2 DEF MatchInv, Sound, Complete
<1> QED BY <1>3, <1>4, <1>5 DEF Next

\* The loop invariant and the right answer, in every state.
THEOREM Matches == Spec => []MatchInv
<1>1. Init /\ TypeOK => MatchInv
  BY MatchInit
<1>2. MatchInv /\ TypeOK' /\ [Next]_vars => MatchInv'
  BY MatchStep
<1> QED BY <1>1, <1>2, TopicTypes, PTL DEF Spec

\* is_topic_matched says yes only if the filter matches the name as MQTT defines it: a message
\* is never handed to a handler whose filter does not match, for any number of levels of any
\* length.
THEOREM OnlyMatches == Spec => []Sound
<1>1. MatchInv => Sound
  BY DEF MatchInv
<1> QED BY <1>1, Matches, PTL

\* is_topic_matched says no to a name without empty levels only if the filter does not match
\* it, '#' for no level at all excepted.
THEOREM AllMatches == Spec => []Complete
<1>1. MatchInv => Complete
  BY DEF MatchInv
<1> QED BY <1>1, Matches, PTL
=============================================================================
