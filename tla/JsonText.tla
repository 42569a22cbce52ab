------------------------------ MODULE JsonText ------------------------------
(***************************************************************************)
(* How src/json.cc reads and writes scalars: parse_string with its escapes *)
(* and \uXXXX, the escapes _json2str writes, keys, which are written and   *)
(* read as they are, and parse_number, whose integers have Width bits: 64  *)
(* in the code, few here.  Of floating point there is only what is too     *)
(* large for it: a double is less than 10^MaxExp, 308 or so in the code.   *)
(*                                                                         *)
(* The characters of a string are a quote, a backslash, "n" (which escaped *)
(* is a new line, for all that are like it), "u", "x", which is no escape, *)
(* the new line and, as one, the four hex digits of a code unit.           *)
(***************************************************************************)
EXTENDS Integers, Sequences, SequencesExt, FiniteSets, FiniteSetsExt

CONSTANTS MaxChars,    \* bound: characters of a string
          MaxDigits,   \* bound: characters of a number
          Width,       \* bits of an integer
          MaxExp       \* digits before the point of the largest double

VARIABLES mode,   \* what is read: "string", "unicode", "written", "key", "number"
          raw,    \* what was written, in modes "written" and "key"
          chars,  \* the text, from the opening quote on
          b, p, q,   \* positions: of the rest, of the quote, of a backslash
          out,    \* _a.stream(): what has been decoded
          ret     \* what was returned: the position of the last character or 0

textVars == <<mode, raw, chars, b, p, q, out, ret>>

Reading == -1
Quote == 34
Backslash == 92
LetterN == 110
LetterU == 117
LetterX == 120
NewLine == 10
Hex(unit) == 2^20 + unit
Unit(c) == c - 2^20

-----------------------------------------------------------------------------
FindQuote(i) == SelectInSubSeq(chars, i, Len(chars), LAMBDA c : c = Quote)
FindSlash(i, j) == SelectInSubSeq(chars, i, j - 1, LAMBDA c : c = Backslash)

(* g_s2e_tb: what an escaped character stands for.                         *)
Escaped == {LetterN, Quote, Backslash}
Unescape(c) == IF c = LetterN THEN NewLine ELSE c

(* The bytes of a code point in UTF-8.                                     *)
Utf8(u) ==
    IF u <= 127 THEN <<u>>
    ELSE IF u <= 2047 THEN <<192 + u \div 64, 128 + (u % 64)>>
    ELSE IF u <= 65535 THEN <<224 + u \div 4096, 128 + ((u \div 64) % 64), 128 + (u % 64)>>
    ELSE <<240 + u \div 262144, 128 + ((u \div 4096) % 64), 128 + ((u \div 64) % 64), 128 + (u % 64)>>

IsHex(i) == i <= Len(chars) /\ chars[i] >= Hex(0)
High(u) == u \in 55296..56319
Low(u) == u \in 56320..57343

(* parse_unicode from i on: the position of the last digit, 0 for an       *)
(* error, and the bytes.                                                   *)
parse_unicode(i) ==
    IF ~ IsHex(i) THEN [at |-> 0, bytes |-> <<>>]
    ELSE IF ~ High(Unit(chars[i])) THEN [at |-> i, bytes |-> Utf8(Unit(chars[i]))]
    ELSE IF /\ i + 2 <= Len(chars) /\ chars[i + 1] = Backslash /\ chars[i + 2] = LetterU
            /\ IsHex(i + 3) /\ Low(Unit(chars[i + 3]))
    THEN [at |-> i + 3,
          bytes |-> Utf8(65536 + (Unit(chars[i]) - 55296) * 1024 + (Unit(chars[i + 3]) - 56320))]
    ELSE [at |-> 0, bytes |-> <<>>]

-----------------------------------------------------------------------------
Return(r) == ret' = r /\ UNCHANGED <<mode, raw, chars, b, p, q>>

Begin ==
    /\ mode \notin {"key", "number"} /\ ret = Reading /\ p = 0
    /\ LET quote == FindQuote(2)
           slash == FindSlash(2, quote)
       IN  IF quote = 0 THEN Return(0) /\ UNCHANGED out
           ELSE IF slash = 0 THEN Return(quote) /\ out' = SubSeq(chars, 2, quote - 1)
           ELSE b' = 2 /\ p' = quote /\ q' = slash /\ UNCHANGED <<mode, raw, chars, out, ret>>

(* Slip: the quote that was found stays although it was escaped.           *)
NextQuoteKept(i) == p

(* The quote that ends the string: the one found was escaped if the rest   *)
(* begins after it.                                                        *)
NextQuote(i) == IF i > p THEN FindQuote(i) ELSE p

(* One pass of the loop: an escape and what precedes it.                   *)
ReadEscape ==
    /\ ret = Reading /\ p # 0
    /\ LET c == chars[q + 1]
           unicode == parse_unicode(q + 2)
           done == IF c = LetterU THEN unicode.at ELSE q + 1
           sofar == out \o SubSeq(chars, b, q - 1)
                        \o (IF c = LetterU THEN unicode.bytes ELSE <<Unescape(c)>>)
           quote == NextQuote(done + 1)
           slash == FindSlash(done + 1, quote)
       IN  IF c \notin Escaped \cup {LetterU} THEN Return(0) /\ UNCHANGED out
           ELSE IF done = 0 \/ quote = 0 THEN Return(0) /\ UNCHANGED out
           ELSE IF slash = 0
           THEN Return(quote) /\ out' = sofar \o SubSeq(chars, done + 1, quote - 1)
           ELSE /\ b' = done + 1 /\ p' = quote /\ q' = slash /\ out' = sofar
                /\ UNCHANGED <<mode, raw, chars, ret>>

-----------------------------------------------------------------------------
(* _json2str: g_e2s_tb is the inverse of g_s2e_tb.                         *)
Escape(s) ==
    FlattenSeq([i \in DOMAIN s |-> IF s[i] = NewLine THEN <<Backslash, LetterN>>
                                   ELSE IF s[i] \in {Quote, Backslash} THEN <<Backslash, s[i]>>
                                   ELSE <<s[i]>>])

(* Keys: no escape is written or read.                                     *)
WrittenKey(s) == <<Quote>> \o s \o <<Quote>>

ReadKey ==
    /\ mode = "key" /\ ret = Reading
    /\ LET quote == FindQuote(2)
       IN  Return(quote) /\ out' = SubSeq(chars, 2, quote - 1)

-----------------------------------------------------------------------------
(* Numbers.                                                                *)
Digit == [c \in {"0", "1", "5", "8", "9"} |->
            CASE c = "0" -> 0 [] c = "1" -> 1 [] c = "5" -> 5 [] c = "8" -> 8 [] c = "9" -> 9]
Double == <<-1>>
IsDigit(i) == i <= Len(chars) /\ chars[i] \in DOMAIN Digit
Is(i, set) == i <= Len(chars) /\ chars[i] \in set

(* The number a sequence of digits says, with a sign or without.           *)
Signed(s) ==
    LET abs == FoldLeft(LAMBDA n, c : n * 10 + Digit[c], 0,
                        SelectSeq(s, LAMBDA c : c \in DOMAIN Digit))
    IN  IF s # <<>> /\ Head(s) = "-" THEN -abs ELSE abs

(* The first position from i on that is no digit.                          *)
PastDigits(i) == Min({j \in i..(Len(chars) + 1) : ~ IsDigit(j)})

(* The text of a number as the code cuts it: where it ends and whether it  *)
(* is one of floating point; end = 0 for an error.                         *)
ScanNumber ==
    LET error == [end |-> 0, double |-> FALSE]
        from == IF chars[1] = "-" THEN 2 ELSE 1
        int == IF Is(from, {"0"}) THEN from + 1 ELSE PastDigits(from)
        frac == IF Is(int, {"."}) THEN PastDigits(int + 1) ELSE int
        sign == IF Is(frac + 1, {"-", "+"}) THEN frac + 2 ELSE frac + 1
        exp == IF Is(frac, {"e"}) THEN PastDigits(sign) ELSE frac
    IN  IF ~ IsDigit(from) \/ (Is(int, {"."}) /\ ~ IsDigit(int + 1))
           \/ (Is(frac, {"e"}) /\ ~ IsDigit(sign))
        THEN error
        ELSE [end |-> exp, double |-> exp # int]

(* str2int computes with unsigned integers.                                *)
Str2Int(end) ==
    LET from == IF chars[1] = "-" THEN 2 ELSE 1
        v == FoldLeft(LAMBDA n, c : (n * 10 + Digit[c]) % 2^Width, 0, SubSeq(chars, from, end - 1))
    IN  IF from = 1 THEN v ELSE (2^Width - v) % 2^Width

(* The largest and the smallest integer have as many characters: 20, and 2 *)
(* for four bits.  A number as long is compared with them as text.         *)
Longest == 2
Limit == IF chars[1] = "-" THEN <<"-", "8">> ELSE <<"1", "5">>
Order == [c \in DOMAIN Digit \cup {"-"} |-> IF c = "-" THEN -1 ELSE Digit[c]]
Above(s, t) ==
    \E i \in DOMAIN s : Order[s[i]] > Order[t[i]] /\ \A j \in 1..(i - 1) : s[j] = t[j]

IsDouble(scan) ==
    LET n == scan.end - 1
    IN  scan.double \/ n > Longest \/ (n = Longest /\ Above(SubSeq(chars, 1, n), Limit))

(* strtod has no double for the number.  Without the zeros in front its    *)
(* mantissa, read as an integer, has so many digits.                       *)
Overflows(end) ==
    LET s == SubSeq(chars, 1, end - 1)
        e == SelectInSeq(s, LAMBDA c : c = "e")
        mantissa == IF e = 0 THEN s ELSE SubSeq(s, 1, e - 1)
        exp == IF e = 0 THEN 0 ELSE Signed(SubSeq(s, e + 1, Len(s)))
        point == SelectInSeq(mantissa, LAMBDA c : c = ".")
        frac == IF point = 0 THEN 0 ELSE Len(mantissa) - point
        digits == SelectSeq(mantissa, LAMBDA c : c \in DOMAIN Digit)
        first == SelectInSeq(digits, LAMBDA c : c # "0")
    IN  first # 0 /\ Len(digits) - first + 1 - frac + exp > MaxExp

ReadNumber ==
    /\ mode = "number" /\ ret = Reading
    /\ LET scan == ScanNumber
       IN  IF scan.end = 0 \/ (IsDouble(scan) /\ Overflows(scan.end))
           THEN Return(0) /\ out' = <<>>
           ELSE /\ Return(scan.end - 1)
                /\ out' = IF IsDouble(scan) THEN Double ELSE <<Str2Int(scan.end)>>

-----------------------------------------------------------------------------
Plain == {Quote, Backslash, LetterN, LetterU, LetterX, Hex(65)}
Units == {0, 127, 128, 2047, 2048, 55295, 55296, 56319, 56320, 57343, 57344, 65535}

StringTexts == {<<Quote>> \o s : s \in SeqOf(Plain, MaxChars)}
UnicodeTexts ==
    {<<Quote, Backslash, LetterU, Hex(c), s, u, Hex(d), Quote>> :
        c \in Units, s \in {Backslash, LetterX, Quote}, u \in {LetterU, LetterN}, d \in Units}
Written == SeqOf({Quote, Backslash, NewLine, LetterN, LetterU, LetterX}, MaxChars)
NumberChars == DOMAIN Digit \cup {"-", "+", ".", "e"}
NumberTexts == SeqOf(NumberChars, MaxDigits) \ {<<>>}

TextInit ==
    /\ \/ mode = "string" /\ chars \in StringTexts /\ raw = <<>>
       \/ mode = "unicode" /\ chars \in UnicodeTexts /\ raw = <<>>
       \/ mode = "written" /\ raw \in Written
          /\ chars = <<Quote>> \o Escape(raw) \o <<Quote>>
       \/ mode = "key" /\ raw \in Written /\ chars = WrittenKey(raw)
       \/ mode = "number" /\ chars \in NumberTexts /\ raw = <<>>
    /\ b = 0 /\ p = 0 /\ q = 0
    /\ out = <<>> /\ ret = Reading

TextNext == Begin \/ ReadEscape \/ ReadKey \/ ReadNumber

TextSpec == TextInit /\ [][TextNext]_textVars

-----------------------------------------------------------------------------
(* The string that begins at i, read from left to right: where it ends, 0  *)
(* for an error, and its characters.                                       *)
Error == [end |-> 0, s |-> <<>>]
Prepend(s, rest) == IF rest.end = 0 THEN Error ELSE [rest EXCEPT !.s = s \o @]

(* The bytes of c by the definition of UTF-8: as few as will do, six bits  *)
(* in each but the first.                                                  *)
Encoded(c) ==
    LET n == CASE c < 2^7 -> 1 [] c < 2^11 -> 2 [] c < 2^16 -> 3 [] OTHER -> 4
        lead == <<0, 192, 224, 240>>
    IN  [i \in 1..n |-> IF i = 1 THEN lead[n] + c \div 64^(n - 1)
                        ELSE 128 + ((c \div 64^(n - i)) % 64)]

RECURSIVE Decoded(_)
Decoded(i) ==
    IF i > Len(chars) THEN Error
    ELSE IF chars[i] = Quote THEN [end |-> i, s |-> <<>>]
    ELSE IF chars[i] # Backslash THEN Prepend(<<chars[i]>>, Decoded(i + 1))
    ELSE IF Is(i + 1, {LetterN}) THEN Prepend(<<NewLine>>, Decoded(i + 2))
    ELSE IF Is(i + 1, {Quote, Backslash}) THEN Prepend(<<chars[i + 1]>>, Decoded(i + 2))
    ELSE IF ~ (Is(i + 1, {LetterU}) /\ IsHex(i + 2)) THEN Error
    ELSE IF ~ High(Unit(chars[i + 2])) THEN Prepend(Encoded(Unit(chars[i + 2])), Decoded(i + 3))
    ELSE IF Is(i + 3, {Backslash}) /\ Is(i + 4, {LetterU}) /\ IsHex(i + 5) /\ Low(Unit(chars[i + 5]))
    THEN Prepend(Encoded(((Unit(chars[i + 2]) % 1024) * 1024) + (Unit(chars[i + 5]) % 1024) + 65536),
                 Decoded(i + 6))
    ELSE Error

(* Numbers by the grammar, and what they say: an integer if it can be one. *)
Digits(s) == s # <<>> /\ ToSet(s) \subseteq DOMAIN Digit
Unsigned(s) == IF s # <<>> /\ Head(s) = "-" THEN Tail(s) ELSE s
IntPart(s) == Digits(Unsigned(s)) /\ (Head(Unsigned(s)) = "0" => Len(Unsigned(s)) = 1)
FracPart(s) == s = <<>> \/ (Head(s) = "." /\ Digits(Tail(s)))
ExpPart(s) ==
    s = <<>> \/ (Head(s) = "e" /\ \E t \in {<<>>, <<"-">>, <<"+">>} :
                                     IsPrefix(t, Tail(s)) /\ Digits(SubSeq(s, 2 + Len(t), Len(s))))
Parts(s) ==
    {<<i, j>> \in (1..Len(s)) \X (1..Len(s)) :
       i <= j /\ IntPart(SubSeq(s, 1, i)) /\ FracPart(SubSeq(s, i + 1, j))
              /\ ExpPart(SubSeq(s, j + 1, Len(s)))}
IsNumber(s) == Parts(s) # {}

(* Where its first digit that counts is, it is 10^MaxExp or more.          *)
TooLarge(s) ==
    \E x \in Parts(s) :
       LET int == Unsigned(SubSeq(s, 1, x[1]))
           frac == SubSeq(s, x[1] + 2, x[2])
           place == IF int # <<"0">> THEN Len(int)
                    ELSE 1 - SelectInSeq(frac, LAMBDA c : c # "0")
       IN  /\ ToSet(int \o frac) # {"0"}
           /\ place + Signed(SubSeq(s, x[2] + 2, Len(s))) > MaxExp

Meant(s) ==
    LET n == Signed(s)
    IN  IF IntPart(s) THEN IF n \in (-(2^(Width - 1)))..(2^Width - 1)
                           THEN <<n % 2^Width>> ELSE Double
        ELSE Double

(* Strings end at the first quote that is not escaped and say what their   *)
(* characters and escapes do; what was written is read again.              *)
StringsRead ==
    ret # Reading /\ mode \notin {"key", "number"} =>
       /\ ret = Decoded(2).end
       /\ ret # 0 => out = Decoded(2).s
       /\ mode = "written" => ret = Len(chars) /\ out = raw

(* A number is taken if the grammar has it and it is not too large for a   *)
(* double; it becomes an integer if that can hold it, and is not cut off.  *)
NumbersRead ==
    ret # Reading /\ mode = "number" =>
       /\ IsNumber(chars) /\ ~ TooLarge(chars) <=> ret = Len(chars)
       /\ ret # 0 => LET s == SubSeq(chars, 1, ret) IN IsNumber(s) /\ out = Meant(s)

(* "Parse Json from string, inverse to stringify" (json.h): a key that was *)
(* written is read again, if it has no quote in it.                        *)
KeysRead ==
    ret # Reading /\ mode = "key" /\ Quote \notin ToSet(raw) => ret = Len(chars) /\ out = raw

ScalarsRead == StringsRead /\ NumbersRead /\ KeysRead
=============================================================================
