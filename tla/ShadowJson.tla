----------------------------- MODULE ShadowJson -----------------------------
(***************************************************************************)
(* The builder of shadow documents: init_json_document, add_desired or     *)
(* add_reported for each section, finalize_json_document, all of them with *)
(* snprintf into the caller's buffer.  What counts is which symbols are    *)
(* written where and with which limit; names, keys, values and the client  *)
(* token are so many symbols.  The application builds one document after   *)
(* the other and stops at the first error.                                 *)
(***************************************************************************)
EXTENDS Integers, Sequences

CONSTANTS
  Sizes,      \* maxSizeOfJsonDocument
  Fields,     \* key-value pairs, as the lengths of their key and their value
  TokenLen,   \* the length of the client token
  IndexLimit, \* the number of values from 0 on of an int8_t, the index of the loops
  MaxFields,  \* bound: fields of a document
  SizeT       \* the number of values of a size_t

ASSUME JsonAssumption ==
  /\ Sizes \subseteq 1..(SizeT - 1)
  /\ Fields \subseteq [key : Nat, value : Nat]
  /\ {TokenLen, IndexLimit, MaxFields, SizeT} \subseteq Nat

VARIABLES
  size,      \* the size of the buffer
  text,      \* the string in the buffer, beyond its end if need be
  pc,        \* "idle", "document" between two calls, "section" inside add_desired or add_reported
  rem,       \* remSizeOfJsonBuffer
  rc,        \* what the last call returned
  sections,  \* history: the fields that have been asked for, by section
  final      \* history: has the document been finalized?

vars == <<size, text, pc, rem, rc, sections, final>>

\* The format strings.  A field of type SHADOW_JSON_OBJECT has no value and writes none.
Symbols(s, n)  == [i \in 1..n |-> s]
StateText      == <<"{", "state", ":", "{">>
SectionText    == <<"section", ":", "{">>
KeyText(f)     == Symbols("key", f.key) \o <<":">>
ValueText(f)   == IF f.value = 0 THEN <<>> ELSE Symbols("value", f.value) \o <<",">>
EndText        == <<"}", ",">>
TokenNameText  == <<"}", ",", "clientToken", ":", "quote">>
TokenText      == Symbols("token", TokenLen)
FinalText      == <<"quote", "}">>

-----------------------------------------------------------------------------
(* snprintf.                                                               *)

\* s is written over t behind its first n symbols, with the limit max for s and its end.
Written(t, n, s, max) == SubSeq(t, 1, n) \o SubSeq(s, 1, IF Len(s) < max THEN Len(s) ELSE max - 1)

\* Mutant: a string that just fits is taken for a truncated one.
CheckLate(s, max) == IF Len(s) + 1 >= max THEN "TRUNCATED" ELSE "SUCCESS"

\* checkReturnValueOfSnPrintf
Check(s, max) == IF Len(s) >= max THEN "TRUNCATED" ELSE "SUCCESS"

\* maxSizeOfJsonDocument - strlen(pJsonDocument), without a sign.
Room(t) == (size - Len(t)) % SizeT

Full == Room(text) <= 1

-----------------------------------------------------------------------------
(* The calls.                                                              *)

Fail(code) == rc' = code /\ pc' = "idle"

\* Mutant: the caller goes on with a document that does not fit.
InitDocumentUnchecked ==
  /\ pc = "idle"
  /\ size' \in Sizes
  /\ text' = Written(<<>>, 0, StateText, size')
  /\ rc' = Check(StateText, size')
  /\ pc' = "document"
  /\ rem' = 0
  /\ sections' = <<>> /\ final' = FALSE

InitDocument ==
  /\ pc = "idle"
  /\ size' \in Sizes
  /\ text' = Written(<<>>, 0, StateText, size')
  /\ rc' = Check(StateText, size')
  /\ pc' = IF rc' = "SUCCESS" THEN "document" ELSE "idle"
  /\ rem' = 0
  /\ sections' = <<>> /\ final' = FALSE

\* add_desired or add_reported is called.
BeginSection ==
  /\ pc = "document"
  /\ sections' = Append(sections, <<>>)
  /\ IF Full THEN Fail("ERROR") /\ UNCHANGED <<text, rem>>
     ELSE /\ rem' = Room(text)
          /\ text' = Written(text, Len(text), SectionText, rem')
          /\ rc' = Check(SectionText, rem')
          /\ pc' = IF rc' = "SUCCESS" THEN "section" ELSE "idle"
  /\ UNCHANGED <<size, final>>

InSection(f) == [sections EXCEPT ![Len(sections)] = Append(@, f)]

\* Its loop: the key and the value are both written with the limit taken before the key.  With
\* IndexLimit fields or more the loop does not come to its end, and takes for further fields
\* what va_arg finds behind the arguments.
AddField(f) ==
  /\ pc = "section"
  /\ sections' = InSection(f)
  /\ IF Full THEN Fail("ERROR") /\ UNCHANGED <<text, rem>>
     ELSE LET keyed == Written(text, Len(text), KeyText(f), Room(text))
          IN /\ rem' = Room(text)
             /\ IF Check(KeyText(f), rem') # "SUCCESS"
                THEN text' = keyed /\ Fail("TRUNCATED")
                ELSE /\ text' = Written(keyed, Len(keyed), ValueText(f), rem')
                     /\ rc' = Check(ValueText(f), rem')
                     /\ pc' = IF rc' = "SUCCESS" THEN "section" ELSE "idle"
  /\ UNCHANGED <<size, final>>

\* The next argument is no jsonStruct_t.
MissingField ==
  /\ pc = "section"
  /\ Fail(IF Full THEN "ERROR" ELSE "NULL_VALUE")
  /\ rem' = IF Full THEN rem ELSE Room(text)
  /\ UNCHANGED <<size, text, sections, final>>

\* It has no data, which is found out behind the key.
MissingData(f) ==
  /\ pc = "section"
  /\ sections' = InSection(f)
  /\ IF Full THEN Fail("ERROR") /\ UNCHANGED <<text, rem>>
     ELSE /\ rem' = Room(text)
          /\ text' = Written(text, Len(text), KeyText(f), rem')
          /\ Fail(IF Check(KeyText(f), rem') = "SUCCESS" THEN "NULL_VALUE" ELSE "TRUNCATED")
  /\ UNCHANGED <<size, final>>

\* count is a uint8_t, but the int8_t i goes from its largest value to its lowest, and a count
\* that is larger is never reached.
CountReached == Len(sections[Len(sections)]) < IndexLimit

\* Mutant: the comma behind the last field stays.
EndSectionComma ==
  /\ pc = "section"
  /\ CountReached
  /\ text' = Written(text, Len(text), EndText, rem)
  /\ rc' = Check(EndText, rem)
  /\ pc' = IF rc' = "SUCCESS" THEN "document" ELSE "idle"
  /\ UNCHANGED <<size, rem, sections, final>>

\* Its end, written over the last comma, with the limit of the last field.
EndSection ==
  /\ pc = "section"
  /\ CountReached
  /\ text' = Written(text, Len(text) - 1, EndText, rem)
  /\ rc' = Check(EndText, rem)
  /\ pc' = IF rc' = "SUCCESS" THEN "document" ELSE "idle"
  /\ UNCHANGED <<size, rem, sections, final>>

\* One of finalize's writes: s over t behind n symbols, unless an earlier one has failed.
Then(w, n, s) ==
  IF w.rc # "SUCCESS" THEN w
  ELSE IF Room(w.text) <= 1 THEN [w EXCEPT !.rc = "ERROR"]
  ELSE [text |-> Written(w.text, n, s, Room(w.text)), rc |-> Check(s, Room(w.text))]

Finalize ==
  /\ pc = "document"
  /\ LET named  == Then([text |-> text, rc |-> "SUCCESS"], Len(text) - 1, TokenNameText)
         filled == Then(named, Len(named.text), TokenText)
         closed == Then(filled, Len(filled.text), FinalText)
     IN text' = closed.text /\ rc' = closed.rc
  /\ pc' = "idle"
  /\ final' = TRUE
  /\ UNCHANGED <<size, rem, sections>>

-----------------------------------------------------------------------------

Init ==
  /\ size \in Sizes
  /\ text = <<>>
  /\ pc = "idle"
  /\ rem = 0
  /\ rc = "NONE"
  /\ sections = <<>> /\ final = FALSE

FieldsAdded ==
  LET sum[i \in 0..Len(sections)] == IF i = 0 THEN 0 ELSE sum[i - 1] + Len(sections[i])
  IN sum[Len(sections)]

\* A document has at most a desired and a reported section.
Next ==
  \/ InitDocument
  \/ Len(sections) < 2 /\ BeginSection
  \/ FieldsAdded < MaxFields /\ \E f \in Fields : AddField(f) \/ MissingData(f)
  \/ MissingField
  \/ EndSection
  \/ Finalize

Spec == Init /\ [][Next]_vars

-----------------------------------------------------------------------------
(* Properties.                                                             *)

TypeOK ==
  /\ size \in Sizes
  /\ pc \in {"idle", "document", "section"}
  /\ rem \in 0..(SizeT - 1)
  /\ rc \in {"NONE", "SUCCESS", "ERROR", "TRUNCATED", "NULL_VALUE"}
  /\ pc # "idle" => rc = "SUCCESS"
  /\ sections \in Seq(Seq(Fields))
  /\ final \in BOOLEAN

\* What the pieces give with a comma between them.
Joined(pieces) ==
  LET joined[i \in 0..Len(pieces)] ==
        IF i = 0 THEN <<>> ELSE joined[i - 1] \o (IF i = 1 THEN <<>> ELSE <<",">>) \o pieces[i]
  IN joined[Len(pieces)]

\* The JSON document with these sections.
Document(secs) ==
  LET field(f)   == Symbols("key", f.key) \o <<":">> \o Symbols("value", f.value)
      section(s) == <<"section", ":", "{">> \o Joined([i \in DOMAIN s |-> field(s[i])]) \o <<"}">>
  IN <<"{", "state", ":", "{">> \o Joined([i \in DOMAIN secs |-> section(secs[i])]) \o <<"}">>
       \o <<",", "clientToken", ":", "quote">> \o TokenText \o <<"quote", "}">>

\* There is a section, none is empty, and every field has a value.
Proper == sections # <<>> /\ \A i \in DOMAIN sections :
            sections[i] # <<>> /\ \A j \in DOMAIN sections[i] : sections[i][j].value # 0

\* A document that was finalized with success is the JSON document of the fields that were
\* asked for: every comma that was one too many has been written over, and nothing is cut.
\* An empty section, or a field of type OBJECT, loses a brace or a colon instead.
DocumentExact == final /\ rc = "SUCCESS" /\ Proper => text = Document(sections)

\* When the buffer holds the document and its end, no call fails and nothing is written beyond
\* it, although limits are taken before a key or a comma and used after it.  When it does not,
\* the limit of a value is too high by the length of its key: the text may run over the end of
\* the buffer with success, and behind it there is no limit at all.  No section may have as many
\* fields as an int8_t cannot count: no buffer is enough for a call that does not end.
EnoughIsEnough ==
  Len(Document(sections)) < size /\ (\A i \in DOMAIN sections : Len(sections[i]) < IndexLimit) =>
    rc \in {"NONE", "SUCCESS", "NULL_VALUE"} /\ Len(text) < size
=============================================================================
