-------------------------------- MODULE MCJson --------------------------------
(***************************************************************************)
(* A value is written, the text is carried to a buffer that holds older    *)
(* text behind it, or only a part of it is carried, and the buffer is      *)
(* read: the path of every message between the two programs, for values    *)
(* of every type and nesting the library writes.                           *)
(***************************************************************************)
EXTENDS JsonText

\* The first and the last code point of each length in UTF-8, and the ones
\* around the surrogates.
Unicode == {codePointToUTF8(c) \o <<97>> : c \in
              {127, 128, 2047, 2048, 55295, 57344, 65535, 65536, 1114111}}

\* Texts with the characters the syntax is made of, a control character and
\* characters that are not ASCII.
Texts == Unicode \union {<<>>, <<97>>, <<QUOTE>>, <<BACKSLASH>>, <<97, BACKSLASH, QUOTE>>,
          <<SLASH, STAR>>, <<125, COMMA>>, <<NEWLINE, 1>>, <<BACKSLASH, 117>>}

Scalars == {nullValue, booleanValue(TRUE), booleanValue(FALSE)}
             \union {intValue(n) : n \in {-32768, -128, -7, 0, 9, 10, 127}}
             \union {uintValue(n) : n \in {5, 200, 65535}}
             \union {stringValue(s) : s \in Texts}

Composites == {arrayValue(<<>>), objectValue(<<>>)}
                \union {arrayValue(<<v, stringValue(<<93>>)>>) : v \in Scalars}
                \union {objectValue((n :> v) @@ (<<97>> :> nullValue)) :
                            n \in Texts \ {<<97>>},
                            v \in {intValue(-7), stringValue(<<BACKSLASH>>),
                                   arrayValue(<<intValue(1), intValue(20)>>),
                                   objectValue(<<98>> :> objectValue(<<>>))}}

\* What may lie behind the new text in the buffer.
Leftovers == {<<>>, <<QUOTE, 58, 49, 125, NEWLINE>>, <<SLASH, STAR, 97>>,
              <<125>>, <<COMMA, QUOTE>>, <<BACKSLASH>>}

VARIABLES value, buffer, whole, result

vars == <<value, buffer, whole, result>>

None == [ok |-> FALSE, at |-> 0, value |-> nullValue]

Init == /\ value \in Scalars \union Composites
        /\ buffer = <<>> /\ whole = TRUE /\ result = None

\* FastWriter::write, and the text lands in front of the leftovers.
CarryWhole ==
    /\ buffer = <<>>
    /\ \E rest \in Leftovers : buffer' = write(value) \o rest
    /\ UNCHANGED <<value, whole, result>>

\* Only a part arrives, not even the last bracket.
CarryPart ==
    /\ buffer = <<>> /\ value \in Composites
    /\ \E n \in 1..(Len(write(value)) - 2) :
           buffer' = SubSeq(write(value), 1, n)
    /\ whole' = FALSE
    /\ UNCHANGED <<value, result>>

Read ==
    /\ buffer # <<>> /\ result = None
    /\ result' = parse(buffer)
    /\ UNCHANGED <<value, buffer, whole>>

Next == CarryWhole \/ CarryPart \/ Read

Spec == Init /\ [][Next]_vars

\* The value a reader can be expected to find: it has no unsigned integers
\* below maxInt, because the text does not tell them from signed ones.
RECURSIVE Normal(_)
Normal(v) ==
    CASE v.type = "uint" /\ v.uint <= maxInt -> intValue(v.uint)
      [] v.type = "int" /\ v.int > maxInt    -> uintValue(v.int)
      [] v.type = "array" ->
             arrayValue([i \in DOMAIN v.array |-> Normal(v.array[i])])
      [] v.type = "object" ->
             objectValue([n \in DOMAIN v.map |-> Normal(v.map[n])])
      [] OTHER -> v

(***************************************************************************)
(* Reader::parse of what FastWriter::write wrote gives the value back,     *)
(* whatever characters its names and texts hold and whatever older text    *)
(* lies behind it in the buffer: the writer escapes all that the reader    *)
(* would take for syntax, and the reader stops at the end of the value.    *)
(***************************************************************************)
ReadsBack ==
    result # None /\ whole => result.ok /\ result.value = Normal(value)

(***************************************************************************)
(* A document that lost its end is refused: no prefix of a written object  *)
(* or array is itself a document, and the recovery from the error, which   *)
(* goes on reading tokens, ends.                                           *)
(***************************************************************************)
PartIsRefused == result # None /\ ~whole => ~result.ok
===============================================================================
