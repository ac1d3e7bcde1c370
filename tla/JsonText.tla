------------------------------- MODULE JsonText -------------------------------
(***************************************************************************)
(* The part of the bundled jsoncpp that every message passes through:      *)
(* FastWriter, Reader (with the default Features and no collected          *)
(* comments, as the programs call it) and the members of Value they use.   *)
(*                                                                         *)
(* A text is a sequence of bytes, in UTF-8.  A position is an index into   *)
(* the document; Len(doc) + 1 is end_.  Offsets, comments and error        *)
(* messages kept beside a Value are left out, and so is the stack limit    *)
(* of 1000 nested values: a message nests one level.                       *)
(***************************************************************************)
EXTENDS Integers, Sequences, FiniteSets, TLC

CONSTANTS maxInt,           \* the largest Int
          maxLargestInt,    \* the largest Int64
          maxLargestUInt    \* the largest UInt64

ASSUME WidthsGrow ==
    /\ {maxInt, maxLargestInt, maxLargestUInt} \subseteq Nat
    /\ 0 < maxInt /\ maxInt <= maxLargestInt /\ maxLargestInt < maxLargestUInt

NUL       == 0
NEWLINE   == 10
SPACE     == 32
QUOTE     == 34
PLUS      == 43
COMMA     == 44
MINUS     == 45
POINT     == 46
SLASH     == 47
STAR      == 42
ZERO      == 48
COLON     == 58
BACKSLASH == 92

Digits    == 48..57
Blanks    == {SPACE, 9, 13, NEWLINE}

\* The letters after a backslash and the control characters they stand for.
ShortEscapes == (8 :> 98) @@ (12 :> 102) @@ (10 :> 110) @@ (13 :> 114)
                    @@ (9 :> 116)

True  == <<116, 114, 117, 101>>
False == <<102, 97, 108, 115, 101>>
Null  == <<110, 117, 108, 108>>

(***************************************************************************)
(* Value: one record per ValueType.  A map is a function on member names.  *)
(***************************************************************************)
nullValue       == [type |-> "null"]
intValue(n)     == [type |-> "int", int |-> n]
uintValue(n)    == [type |-> "uint", uint |-> n]
realValue       == [type |-> "real"]
stringValue(s)  == [type |-> "string", string |-> s]
booleanValue(b) == [type |-> "boolean", bool |-> b]
arrayValue(a)   == [type |-> "array", array |-> a]
objectValue(m)  == [type |-> "object", map |-> m]

\* Value::CZString::operator<: by character, a prefix first.
CZStringLess(a, b) ==
    \E i \in 1..Len(b) :
        /\ \A j \in 1..(i - 1) : j <= Len(a) /\ a[j] = b[j]
        /\ i > Len(a) \/ a[i] < b[i]

\* Value::operator[] const of an object or null, the types it does not
\* throw for: the member, or null when there is none.
Member(v, key) ==
    IF v.type = "object" /\ key \in DOMAIN v.map THEN v.map[key]
                                                 ELSE nullValue

isInt(v) ==
    CASE v.type = "int"  -> v.int \in -(maxInt + 1)..maxInt
      [] v.type = "uint" -> v.uint <= maxInt
      [] OTHER           -> FALSE

\* Value::asInt returns for these values only, and throws for the others.
convertibleToInt(v) == isInt(v) \/ v.type \in {"null", "boolean"}

asInt(v) ==
    CASE v.type = "int"     -> v.int
      [] v.type = "uint"    -> v.uint
      [] v.type = "boolean" -> IF v.bool THEN 1 ELSE 0
      [] OTHER              -> 0

\* Value::resolveReference and the assignment to what it returns.
resolveReference(map, key, v) == (key :> v) @@ map

RECURSIVE uintToString(_)
uintToString(n) ==
    IF n < 10 THEN <<ZERO + n>>
              ELSE Append(uintToString(n \div 10), ZERO + (n % 10))

valueToString(n) ==
    IF n < 0 THEN <<MINUS>> \o uintToString(-n) ELSE uintToString(n)

\* Value::asString, which throws for an array or an object.  The text of a
\* double is not modelled.
asString(v) ==
    CASE v.type = "null"    -> <<>>
      [] v.type = "string"  -> v.string
      [] v.type = "boolean" -> IF v.bool THEN True ELSE False
      [] v.type = "int"     -> valueToString(v.int)
      [] v.type = "uint"    -> valueToString(v.uint)

(***************************************************************************)
(* FastWriter                                                              *)
(***************************************************************************)
doesAnyCharRequireEscaping(s) ==
    \E i \in 1..Len(s) :
        s[i] \in {BACKSLASH, QUOTE} \/ s[i] < SPACE \/ s[i] > 127

ReplacementCharacter == 65533

Surrogates == 55296..57343

\* The payload of a sequence of bytes: its first one's low bits, then six
\* bits of each other.
RECURSIVE PayloadBits(_, _)
PayloadBits(bytes, low) ==
    IF Len(bytes) = 1 THEN bytes[1] % low
    ELSE PayloadBits(SubSeq(bytes, 1, Len(bytes) - 1), low) * 64
           + (bytes[Len(bytes)] % 64)

\* The code point at position i of s, and how many bytes were used for it.
utf8ToCodepoint(s, i) ==
    LET first      == s[i]
        one(c)     == [codepoint |-> c, length |-> 1]
        sequence(length, low, smallest) ==
            LET calculated == PayloadBits(SubSeq(s, i, i + length - 1), low)
            IN  IF Len(s) - i + 1 < length THEN one(ReplacementCharacter)
                ELSE [length    |-> length,
                      codepoint |-> IF \/ calculated < smallest
                                       \/ /\ length = 3
                                          /\ calculated \in Surrogates
                                    THEN ReplacementCharacter ELSE calculated]
    IN  CASE first \in 0..127   -> one(first)
          [] first \in 128..223 -> sequence(2, 32, 128)
          [] first \in 224..239 -> sequence(3, 16, 2048)
          [] first \in 240..247 -> sequence(4, 8, 65536)
          [] first \in 248..255 -> one(ReplacementCharacter)

HexDigit(n) == IF n < 10 THEN ZERO + n ELSE 87 + n

toHex16Bit(n) ==
    <<HexDigit(n \div 4096), HexDigit((n \div 256) % 16),
      HexDigit((n \div 16) % 16), HexDigit(n % 16)>>

appendHex(n) == <<BACKSLASH, 117>> \o toHex16Bit(n)

\* A backslash goes out as it is.
escaped_but_backslash(c) ==
    IF c \in {QUOTE, NEWLINE} THEN <<BACKSLASH, c>> ELSE <<c>>

\* Every character is written with its code.
escaped_all(c) == appendHex(c)

\* What one code point becomes inside the quotes; the large ones become a
\* pair of surrogates.
escaped(c) ==
    CASE c \in {QUOTE, BACKSLASH}  -> <<BACKSLASH, c>>
      [] c \in DOMAIN ShortEscapes -> <<BACKSLASH, ShortEscapes[c]>>
      [] c \in (SPACE..127) \ {QUOTE, BACKSLASH} -> <<c>>
      [] c \in (0..(SPACE - 1)) \ DOMAIN ShortEscapes \/ c \in 128..65535 ->
             appendHex(c)
      [] c > 65535                 ->
             appendHex(55296 + (c - 65536) \div 1024)
               \o appendHex(56320 + ((c - 65536) % 1024))

RECURSIVE EscapedFrom(_, _)
EscapedFrom(s, i) ==
    IF i > Len(s) THEN <<>>
    ELSE LET next == utf8ToCodepoint(s, i)
         IN  escaped(next.codepoint) \o EscapedFrom(s, i + next.length)

valueToQuotedString(s) ==
    <<QUOTE>> \o (IF doesAnyCharRequireEscaping(s) THEN EscapedFrom(s, 1)
                                                   ELSE s) \o <<QUOTE>>

\* The first of the names getMemberNames() still has to yield.
FirstName(names) ==
    CHOOSE n \in names : \A m \in names \ {n} : CZStringLess(n, m)

RECURSIVE writeValue(_), writeElements(_), writeMembers(_, _)
writeElements(a) ==
    IF a = <<>> THEN <<>>
    ELSE writeValue(Head(a))
           \o (IF Len(a) > 1 THEN <<COMMA>> ELSE <<>>) \o writeElements(Tail(a))

writeMembers(m, names) ==
    IF names = {} THEN <<>>
    ELSE LET n == FirstName(names)
         IN  valueToQuotedString(n) \o <<COLON>> \o writeValue(m[n])
               \o (IF Cardinality(names) > 1 THEN <<COMMA>> ELSE <<>>)
               \o writeMembers(m, names \ {n})

writeValue(v) ==
    CASE v.type = "null"    -> Null
      [] v.type = "int"     -> valueToString(v.int)
      [] v.type = "uint"    -> valueToString(v.uint)
      [] v.type = "string"  -> valueToQuotedString(v.string)
      [] v.type = "boolean" -> IF v.bool THEN True ELSE False
      [] v.type = "array"   -> <<91>> \o writeElements(v.array) \o <<93>>
      [] v.type = "object"  -> <<123>> \o writeMembers(v.map, DOMAIN v.map)
                                  \o <<125>>

write(root) == Append(writeValue(root), NEWLINE)

(***************************************************************************)
(* Reader: the tokens.  A token ends before position "end"; its type is    *)
(* "error" exactly when readToken returns false.                           *)
(***************************************************************************)
\* The first position from p on whose character is not in S.
Skip(doc, p, S) ==
    CHOOSE q \in p..(Len(doc) + 1) :
        /\ \A r \in p..(q - 1) : doc[r] \in S
        /\ q > Len(doc) \/ doc[q] \notin S

skipSpaces(doc, p) == Skip(doc, p, Blanks)

\* The character at p, or 0 at the end; getNextChar moves on to Next1.
CharAt(doc, p) == IF p > Len(doc) THEN NUL ELSE doc[p]

Next1(doc, p) == IF p > Len(doc) THEN p ELSE p + 1

match(doc, p, word) ==
    IF /\ p + Len(word) - 2 <= Len(doc)
       /\ SubSeq(doc, p, p + Len(word) - 2) = Tail(word)
    THEN [ok |-> TRUE,  end |-> p + Len(word) - 1]
    ELSE [ok |-> FALSE, end |-> p]

\* From inside a string to just after its closing quote.
RECURSIVE readString(_, _)
readString(doc, p) ==
    CASE p > Len(doc)       -> [ok |-> FALSE, end |-> p]
      [] p <= Len(doc) /\ CharAt(doc, p) = QUOTE ->
             [ok |-> TRUE, end |-> p + 1]
      [] p <= Len(doc) /\ CharAt(doc, p) = BACKSLASH ->
             readString(doc, Next1(doc, p + 1))
      [] OTHER              -> readString(doc, p + 1)

\* Digits, then a fraction and an exponent if there are any.
readNumber(doc, p) ==
    LET whole == Skip(doc, p, Digits)
        frac  == IF CharAt(doc, whole) = POINT THEN Skip(doc, whole + 1, Digits)
                                               ELSE whole
        sign  == IF CharAt(doc, frac + 1) \in {PLUS, MINUS} THEN 2 ELSE 1
    IN  IF CharAt(doc, frac) \in {69, 101} THEN Skip(doc, frac + sign, Digits)
                                           ELSE frac

readCStyleComment(doc, p) ==
    LET ends == {q \in p..(Len(doc) - 1) :
                     doc[q] = STAR /\ doc[q + 1] = SLASH}
    IN  IF ends = {} THEN [ok |-> CharAt(doc, Len(doc)) = SLASH /\ p <= Len(doc),
                           end |-> Len(doc) + 1]
        ELSE [ok  |-> TRUE,
              end |-> 2 + CHOOSE q \in ends : \A r \in ends : q <= r]

readCppStyleComment(doc, p) ==
    LET eol == Skip(doc, p, (0..255) \ {NEWLINE, 13})
    IN  [ok  |-> TRUE,
         end |-> IF CharAt(doc, eol) = 13 /\ CharAt(doc, eol + 1) = NEWLINE
                 THEN eol + 2 ELSE Next1(doc, eol)]

readComment(doc, p) ==
    CASE CharAt(doc, p) = STAR  -> readCStyleComment(doc, p + 1)
      [] CharAt(doc, p) = SLASH -> readCppStyleComment(doc, p + 1)
      [] OTHER                  -> [ok |-> FALSE, end |-> Next1(doc, p)]

\* What the first character of a token decides alone.
SingleCharTokens ==
    (123 :> "objectBegin") @@ (125 :> "objectEnd") @@ (91 :> "arrayBegin")
        @@ (93 :> "arrayEnd") @@ (COMMA :> "arraySeparator")
        @@ (COLON :> "memberSeparator") @@ (NUL :> "endOfStream")

readToken(doc, from) ==
    LET start == skipSpaces(doc, from)
        c     == CharAt(doc, start)
        p     == Next1(doc, start)
        token(type, end) == [type |-> type, start |-> start, end |-> end]
        ifOk(type, read) == token(IF read.ok THEN type ELSE "error", read.end)
    IN  CASE c \in DOMAIN SingleCharTokens -> token(SingleCharTokens[c], p)
          [] c = QUOTE                     -> ifOk("string", readString(doc, p))
          [] c = SLASH                     -> ifOk("comment", readComment(doc, p))
          [] c \in Digits \union {MINUS}   -> token("number", readNumber(doc, p))
          [] c = Head(True)                -> ifOk("true", match(doc, p, True))
          [] c = Head(False)               -> ifOk("false", match(doc, p, False))
          [] c = Head(Null)                -> ifOk("null", match(doc, p, Null))
          [] OTHER                         -> token("error", p)

\* The token itself, or the first one after it that is not a comment.
RECURSIVE PastComments(_, _)
PastComments(doc, token) ==
    IF token.type = "comment" THEN PastComments(doc, readToken(doc, token.end))
                              ELSE token

skipCommentTokens(doc, p) == PastComments(doc, readToken(doc, p))

(***************************************************************************)
(* Reader: the values.  A result says whether reading succeeded, where     *)
(* current_ is afterwards, and which value was read.                       *)
(***************************************************************************)
Success(v, p) == [ok |-> TRUE, at |-> p, value |-> v]

addError(p) == [ok |-> FALSE, at |-> p, value |-> nullValue]

\* An error that was recovered from counts as success.
recoverFromError_heals(doc, p, skipUntilToken) == Success(nullValue, p)

RECURSIVE recoverFromError(_, _, _)
recoverFromError(doc, p, skipUntilToken) ==
    LET skip == readToken(doc, p)
    IN  IF skip.type \in {skipUntilToken, "endOfStream"}
        THEN addError(skip.end)
        ELSE recoverFromError(doc, skip.end, skipUntilToken)

\* std::istream >> double accepts a mantissa and exponent with digits.
decodeDouble(doc, token) ==
    LET last == CharAt(doc, token.end - 1)
    IN  IF \/ last \in Digits
           \/ last = POINT /\ CharAt(doc, token.end - 2) \in Digits
        THEN Success(realValue, token.end)
        ELSE addError(token.end)

\* Digit by digit; what does not fit the integer becomes a double.
RECURSIVE decodeDigits(_, _, _, _, _)
decodeDigits(doc, token, p, n, max) ==
    LET negative == doc[token.start] = MINUS
        digit    == doc[p] - ZERO
        tooLarge == \/ n > max \div 10
                    \/ /\ n = max \div 10
                       /\ p + 1 # token.end \/ digit > max % 10
    IN  CASE p = token.end /\ negative    -> Success(intValue(-n), p)
          [] p = token.end /\ ~negative   ->
                 Success(IF n <= maxInt THEN intValue(n) ELSE uintValue(n), p)
          [] p # token.end /\ (doc[p] \notin Digits \/ tooLarge) ->
                 decodeDouble(doc, token)
          [] OTHER -> decodeDigits(doc, token, p + 1, n * 10 + digit, max)

decodeNumber(doc, token) ==
    IF doc[token.start] = MINUS
    THEN decodeDigits(doc, token, token.start + 1, 0, maxLargestInt + 1)
    ELSE decodeDigits(doc, token, token.start, 0, maxLargestUInt)

HexValue(c) == CASE c \in Digits  -> c - ZERO
                 [] c \in 97..102 -> c - 87
                 [] c \in 65..70  -> c - 55
                 [] OTHER         -> -1

\* The code after a backslash and a "u": four hexadecimal digits.
decodeUnicodeEscapeSequence(doc, p, end) ==
    LET hex == [i \in 1..4 |-> HexValue(CharAt(doc, p + i - 1))]
    IN  IF end - p < 4 \/ \E i \in 1..4 : hex[i] < 0 THEN -1
        ELSE ((hex[1] * 16 + hex[2]) * 16 + hex[3]) * 16 + hex[4]

\* The two halves of a pair are not told apart.
decodeUnicodeCodePoint_halves(doc, p, end) ==
    [unicode |-> decodeUnicodeEscapeSequence(doc, p, end), at |-> p + 4]

\* The code point, -1 if there is none, and the position behind it; a high
\* surrogate needs a second escape.
decodeUnicodeCodePoint(doc, p, end) ==
    LET high == decodeUnicodeEscapeSequence(doc, p, end)
        low  == decodeUnicodeEscapeSequence(doc, p + 6, end)
    IN  IF high \notin 55296..56319 THEN [unicode |-> high, at |-> p + 4]
        ELSE [unicode |-> IF \/ end - (p + 4) < 6 \/ low < 0
                             \/ SubSeq(doc, p + 4, p + 5) # <<BACKSLASH, 117>>
                          THEN -1
                          ELSE 65536 + (high % 1024) * 1024 + (low % 1024),
              at      |-> p + 10]

codePointToUTF8(cp) ==
    LET tail(shift) == 128 + ((cp \div shift) % 64)
    IN  CASE cp \in 0..127         -> <<cp>>
          [] cp \in 128..2047      -> <<192 + cp \div 64, tail(1)>>
          [] cp \in 2048..65535    -> <<224 + cp \div 4096, tail(64), tail(1)>>
          [] cp \in 65536..1114111 ->
                 <<240 + cp \div 262144, tail(4096), tail(64), tail(1)>>

RECURSIVE decodeFrom(_, _, _, _)
decodeFrom(doc, p, end, decoded) ==
    LET c      == doc[p]
        escape == doc[p + 1]
        code   == decodeUnicodeCodePoint(doc, p + 2, end)
    IN  CASE p = end \/ c = QUOTE -> [ok |-> TRUE, string |-> decoded]
          [] p # end /\ c \notin {QUOTE, BACKSLASH} ->
                 decodeFrom(doc, p + 1, end, Append(decoded, c))
          [] p # end /\ c = BACKSLASH ->
             CASE p + 1 = end -> [ok |-> FALSE, string |-> decoded]
               [] p + 1 # end /\ escape \in {QUOTE, SLASH, BACKSLASH} ->
                      decodeFrom(doc, p + 2, end, Append(decoded, escape))
               [] \E k \in DOMAIN ShortEscapes : ShortEscapes[k] = escape ->
                      decodeFrom(doc, p + 2, end, Append(decoded,
                          CHOOSE k \in DOMAIN ShortEscapes :
                              ShortEscapes[k] = escape))
               [] escape = 117 /\ code.unicode >= 0 ->
                      decodeFrom(doc, code.at, end,
                                 decoded \o codePointToUTF8(code.unicode))
               [] OTHER -> [ok |-> FALSE, string |-> decoded]

decodeString(doc, token) ==
    decodeFrom(doc, token.start + 1, token.end - 1, <<>>)

RECURSIVE readValue(_, _), readMembers(_, _, _, _), readElements(_, _, _)

\* Reader::readObject, from the next member name on; "name" is the last one.
readMembers(doc, p, map, name) ==
    LET tokenName == skipCommentTokens(doc, p)
        decoded   == decodeString(doc, tokenName)
        colon     == readToken(doc, tokenName.end)
        member    == readValue(doc, colon.end)
        after     == readToken(doc, member.at)
        comma     == PastComments(doc, after)
        members   == resolveReference(map, decoded.string, member.value)
        fail(at)  == recoverFromError(doc, at, "objectEnd")
    IN  IF tokenName.type = "objectEnd" /\ name = <<>>
        THEN Success(objectValue(map), tokenName.end)
        ELSE IF tokenName.type # "string" \/ ~decoded.ok
        THEN fail(tokenName.end)
        ELSE IF colon.type # "memberSeparator" THEN fail(colon.end)
        ELSE IF ~member.ok                     THEN fail(member.at)
        ELSE IF after.type \notin {"objectEnd", "arraySeparator", "comment"}
        THEN fail(after.end)
        ELSE IF comma.type = "objectEnd"
        THEN Success(objectValue(members), comma.end)
        ELSE readMembers(doc, comma.end, members, decoded.string)

\* Reader::readArray, from the next element on.
readElements(doc, p, array) ==
    LET element == readValue(doc, p)
        token   == skipCommentTokens(doc, element.at)
        fail(at) == recoverFromError(doc, at, "arrayEnd")
    IN  IF ~element.ok THEN fail(element.at)
        ELSE IF token.type \notin {"arraySeparator", "arrayEnd"}
        THEN fail(token.end)
        ELSE IF token.type = "arrayEnd"
        THEN Success(arrayValue(Append(array, element.value)), token.end)
        ELSE readElements(doc, token.end, Append(array, element.value))

readArray(doc, p) ==
    LET next == skipSpaces(doc, p)
    IN  IF CharAt(doc, next) = 93 THEN Success(arrayValue(<<>>), next + 1)
                                  ELSE readElements(doc, next, <<>>)

readValue(doc, p) ==
    LET token == skipCommentTokens(doc, p)
        text  == decodeString(doc, token)
    IN  CASE token.type = "objectBegin" -> readMembers(doc, token.end, <<>>, <<>>)
          [] token.type = "arrayBegin"  -> readArray(doc, token.end)
          [] token.type = "number"      -> decodeNumber(doc, token)
          [] token.type = "string"      ->
                 IF text.ok THEN Success(stringValue(text.string), token.end)
                            ELSE addError(token.end)
          [] token.type = "true"        -> Success(booleanValue(TRUE), token.end)
          [] token.type = "false"       -> Success(booleanValue(FALSE), token.end)
          [] token.type = "null"        -> Success(nullValue, token.end)
          [] OTHER                      -> addError(token.end)

\* A reader that wants the document to end with the value.
parse_to_end(doc) ==
    LET root == readValue(doc, 1)
    IN  IF skipCommentTokens(doc, root.at).type = "endOfStream" THEN root
                                                              ELSE addError(1)

\* Reader::parse: the token after the first value is read and ignored.
parse(doc) == readValue(doc, 1)
===============================================================================
