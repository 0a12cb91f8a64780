----------------------------- MODULE TopicMatch -----------------------------
(***************************************************************************)
(* is_topic_matched: one pass over the characters of a filter and of a     *)
(* topic name, with two pointers, against the matching of MQTT, which is   *)
(* defined by the levels between the separators.                           *)
(***************************************************************************)
EXTENDS Naturals, Sequences

CONSTANTS
  FilterLevels,   \* levels of filters, sequences of characters, <<"+">> among them
  NameLevels,     \* levels of topic names
  MaxLevels       \* bound: levels of a filter or a name

ASSUME TopicAssumption ==
  /\ MaxLevels \in Nat
  /\ FilterLevels \subseteq Seq(STRING)
  /\ NameLevels \subseteq FilterLevels

\* "assume topic filter and name is in correct format": a separator is in no level, '+' is
\* alone in its level, and a name has no wildcards.
ASSUME FormatAssumption ==
  /\ \A l \in FilterLevels : \A k \in 1..Len(l) : l[k] \notin {"/", "#"} /\ (l[k] = "+" => l = <<"+">>)
  /\ \A l \in NameLevels : \A k \in 1..Len(l) : l[k] # "+"

VARIABLES
  filter, name,   \* the levels of the topic filter and of the topic name
  curf, curn,     \* places in their characters
  matched         \* what has been returned

vars == <<filter, name, curf, curn, matched>>

Levels(S) == UNION {[1..n -> S] : n \in 1..MaxLevels}

\* '#' stands at the end, alone in its level ("assume topic filter and name is in correct
\* format").  A filter or a name has at least one character.
Hash    == <<"#">>
Plus    == <<"+">>
Filters == (Levels(FilterLevels) \union {Append(f, Hash) : f \in Levels(FilterLevels)} \union {<<Hash>>})
             \ {<< <<>> >>}
Names   == Levels(NameLevels) \ {<< <<>> >>}

\* The string of the levels, with '/' between them.
Characters(levels) ==
  LET joined[i \in 1..Len(levels)] ==
        IF i = 1 THEN levels[1] ELSE joined[i - 1] \o <<"/">> \o levels[i]
  IN joined[Len(levels)]

F == Characters(filter)
N == Characters(name)

-----------------------------------------------------------------------------
(* The loop of is_topic_matched.  A string ends behind its last character. *)

Breaks ==
  \/ N[curn] = "/" /\ F[curf] # "/"
  \/ F[curf] \notin {"+", "#"} /\ F[curf] # N[curn]

\* Where curn stands after '+': on the last character before the next separator.
EndOfLevel ==
  CHOOSE i \in curn..Len(N) :
    /\ i = Len(N) \/ N[i + 1] = "/"
    /\ \A j \in curn..(i - 1) : N[j + 1] # "/"

\* Mutant: '+' stands for one character.
SkippedOne == IF F[curf] = "#" THEN Len(N) ELSE curn

\* Mutant: '#' runs over the end of the name.
SkippedBeyond == CASE F[curf] = "+" -> EndOfLevel
                   [] F[curf] = "#" -> Len(N) + 1
                   [] OTHER         -> curn

Skipped == CASE F[curf] = "+" -> EndOfLevel
             [] F[curf] = "#" -> Len(N)
             [] OTHER         -> curn

Looping == matched = "none" /\ curf <= Len(F) /\ curn <= Len(N) /\ ~Breaks

Step ==
  /\ Looping
  /\ curf' = curf + 1
  /\ curn' = Skipped + 1
  /\ UNCHANGED <<filter, name, matched>>

\* Mutant: the end of the name is enough.
AnswerNameOnly ==
  /\ matched = "none" /\ ~Looping
  /\ matched' = IF curn = Len(N) + 1 THEN "yes" ELSE "no"
  /\ UNCHANGED <<filter, name, curf, curn>>

Answer ==
  /\ matched = "none" /\ ~Looping
  /\ matched' = IF curn = Len(N) + 1 /\ curf = Len(F) + 1 THEN "yes" ELSE "no"
  /\ UNCHANGED <<filter, name, curf, curn>>

Init ==
  /\ filter \in Filters
  /\ name \in Names
  /\ curf = 1 /\ curn = 1
  /\ matched = "none"

Next == Step \/ Answer

Spec == Init /\ [][Next]_vars

-----------------------------------------------------------------------------
(* Properties.                                                             *)

TypeOK ==
  /\ filter \in Filters
  /\ name \in Names
  /\ curf \in 1..(Len(F) + 1)
  /\ curn \in 1..(Len(N) + 1)
  /\ matched \in {"none", "yes", "no"}

\* MQTT: '#' stands for any number of levels, its parent included, '+' for one.
MqttMatch ==
  LET hash  == filter[Len(filter)] = Hash
      fixed == IF hash THEN Len(filter) - 1 ELSE Len(filter)
  IN /\ IF hash THEN Len(name) >= fixed ELSE Len(name) = fixed
     /\ \A i \in 1..fixed : filter[i] \in {Plus, name[i]}

\* A message is never handed to a handler whose filter does not match its topic.
Sound == matched = "yes" => MqttMatch

\* A name without empty levels that a filter matches is found, except by a filter that ends
\* in '#' when '#' would have to stand for no level at all ("a/#" and "a").  A name with an
\* empty level, "a//b", is not matched by a wildcard at that level.
Complete ==
  /\ matched = "no"
  /\ \A i \in DOMAIN name : name[i] # <<>>
  /\ filter[Len(filter)] = Hash => Len(name) >= Len(filter)
  => ~MqttMatch
=============================================================================
