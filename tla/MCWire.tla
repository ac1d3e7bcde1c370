-------------------------------- MODULE MCWire --------------------------------
(***************************************************************************)
(* Wire for TLC, and beside it the library on its own (MCJson), which      *)
(* writes and reads more than the two programs make of it.  A behaviour is *)
(* about a message or about a value.                                       *)
(***************************************************************************)
EXTENDS Wire

VARIABLES value, carried, whole, result

jsonVars == <<value, carried, whole, result>>

Json == INSTANCE MCJson WITH buffer <- carried

MCInit == Init /\ Json!Init

MCNext ==
    \/ Next /\ value = nullValue /\ carried = <<>> /\ UNCHANGED jsonVars
    \/ Json!Next /\ sent = Nothing /\ command = NoCommand /\ buffer = <<>>
                 /\ UNCHANGED vars

MCSpec == MCInit /\ [][MCNext]_<<vars, jsonVars>>

\* Of the library (see MCJson): what it writes it reads back, and of a part
\* of it nothing.
ReadsBack == Json!ReadsBack

PartIsRefused == Json!PartIsRefused

Repeat(c, n) == [i \in 1..n |-> c]

\* The longest name and text whose NULs have room and the longest ones, plain
\* and all escaped, and texts made of the syntax.
ShortName == <<98, QUOTE, BACKSLASH, 48>>
LongName  == [i \in 1..20 |-> ShortName[(i % 4) + 1]]
MCNames   == {Repeat(QUOTE, 19), LongName}
FullNames == {ShortName, Repeat(98, 20)}

Syntax     == <<QUOTE, COMMA, QUOTE, 125, SLASH, STAR, BACKSLASH>>
ShortTexts == {Syntax}
MCTexts    == {Syntax, Repeat(98, 127), Repeat(BACKSLASH, 128)}

\* As long as "Thu Jan  1 00:00:00 1970\n".
MCTimes == {Append(Repeat(SPACE, 24), NEWLINE)}

\* Nothing before a NUL, or a part of a document.
Rubbish == {<<>>, <<123>> \o Repeat(QUOTE, 99)}

AnyBeyond == {<<>>, <<1>>}
===============================================================================
