------------------------------ MODULE Decimals ------------------------------
(***************************************************************************
 tntdb::Decimal: a sign, a mantissa of decimal digits and an exponent that is
 a short.  The value is 0.mantissa * 10^exponent.  Infinity and nan have no
 mantissa.

 The reader of texts (Decimal::Parser) is fed one character after the other.
 A text is a sequence of characters, which are strings of length one.
 ***************************************************************************)
EXTENDS Integers, Sequences, SequencesExt

CONSTANT MaxExponent     \* numeric_limits<short>::max()

Digits == <<"0", "1", "2", "3", "4", "5", "6", "7", "8", "9">>
IsDigit(ch) == ch \in ToSet(Digits)
Letters == {"e", "i", "n", "f", "a", "u", "p", "k", "E"}
IsLetter(ch) == ch \in Letters
IsSpace(ch) == ch = " "
Char(n) == Digits[n + 1]
DigitOf(ch) == CHOOSE n \in 0..9 : Char(n) = ch

Decimal(man, exp, neg) == [man |-> man, exp |-> exp, neg |-> neg]
Infinity(neg) == Decimal(<< >>, MaxExponent, neg)
NaN == Decimal(<< >>, 0, FALSE)

\* The value of a short that an int is stored in.
AsShort(n) == ((n + MaxExponent + 1) % (2 * MaxExponent + 2)) - (MaxExponent + 1)

IsInfinity(d) == d.man = << >> /\ d.exp = MaxExponent
IsNaN(d) == d.man = << >> /\ d.exp = 0
IsFinite(d) == d.man # << >>
IsZero(d) == d.man = <<0>>

\* The zeros at the end go, but the first digit stays.
StripZeros(man) ==
    IF man = << >> THEN man
    ELSE LET keep == {i \in 2..Len(man) : man[i] # 0} \cup {1}
         IN SubSeq(man, 1, CHOOSE i \in keep : \A j \in keep : j <= i)
-----------------------------------------------------------------------------
(* The reader. *)

Begin == [state |-> "0", str |-> << >>, man |-> << >>, exp |-> 0, neg |-> FALSE,
          eoff |-> 0, eneg |-> FALSE]

To(p, state) == [p EXCEPT !.state = state]
Refused(p) == To(p, "error")      \* throwConversionError
WithDigit(p, ch, state) == [p EXCEPT !.man = Append(@, DigitOf(ch)), !.state = state]

\* What may follow a sign, and what begins a text without one.
ParseMantissa(p, ch, otherwise) ==
    CASE ch = "." -> To(p, "fract0")
      [] ch = "0" -> To(p, "man")
      [] IsDigit(ch) /\ ch # "0" -> WithDigit(p, ch, "man")
      [] IsLetter(ch) -> To(p, "special")
      [] OTHER -> otherwise

Parse0(p, ch) ==
    CASE ch = "+" -> To(p, "man0")
      [] ch = "-" -> [p EXCEPT !.neg = TRUE, !.state = "man0"]
      [] OTHER -> ParseMantissa(p, ch, IF IsSpace(ch) THEN p ELSE Refused(p))

ParseMan0(p, ch) == ParseMantissa(p, ch, Refused(p))

ParseMan(p, ch) ==
    IF IsDigit(ch)
    THEN IF ch = "0" /\ p.man = << >> THEN p ELSE WithDigit(p, ch, "man")
    ELSE LET q == [p EXCEPT !.eoff = Len(p.man)]
         IN CASE ch = "." -> To(q, IF q.man = << >> THEN "fract0" ELSE "fract")
              [] ch \in {"e", "E"} -> To(q, "exp0")
              [] IsSpace(ch) -> To(q, "end")
              [] OTHER -> Refused(q)

ParseFract(p, ch) ==
    CASE IsDigit(ch) -> WithDigit(p, ch, "fract")
      [] ch \in {"e", "E"} -> To(p, "exp0")
      [] IsSpace(ch) -> To(p, "end")
      [] OTHER -> Refused(p)

\* Mutant: the zeros behind the point are skipped without counting them.
ParseFract0_ZerosLost(p, ch) == IF ch = "0" THEN p ELSE ParseFract(p, ch)

ParseFract0(p, ch) ==
    CASE ch = "0" -> [p EXCEPT !.eoff = @ - 1]
      [] ch \in {"e", "E"} /\ p.eoff = 0 -> Refused(p)
      [] ch \in {"e", "E"} /\ p.eoff # 0 ->
           [p EXCEPT !.man = <<0>>, !.eoff = 0, !.state = "exp0"]
      [] OTHER -> ParseFract(p, ch)

\* The check for an overflow compares with the limit less a tenth of a digit,
\* which is the limit: the product is narrowed to a short instead.
ParseExp(p, ch) ==
    CASE IsDigit(ch) -> [p EXCEPT !.exp = AsShort(@ * 10 + DigitOf(ch)), !.state = "exp"]
      [] IsSpace(ch) -> To(p, "end")
      [] OTHER -> Refused(p)

\* A minus sign does not leave the state: there may be several.
ParseExp0(p, ch) ==
    CASE ch = "+" -> To(p, "exp1")
      [] ch = "-" -> [p EXCEPT !.eneg = TRUE]
      [] OTHER -> ParseExp(p, ch)

ParseSpecial(p, ch) ==
    CASE Len(p.str) > 4 -> Refused(p)
      [] p.str \in {<<"i", "n", "f">>, <<"+", "i", "n", "f">>, <<"-", "i", "n", "f">>}
           -> [p EXCEPT !.exp = MaxExponent, !.state = "end"]
      [] p.str = <<"n", "a", "n">> -> To(p, "end")
      [] OTHER -> p

Parse(reader, ch) ==
    LET p == [reader EXCEPT !.str = Append(@, ch)]
    IN CASE p.state = "0" -> Parse0(p, ch)
         [] p.state = "man0" -> ParseMan0(p, ch)
         [] p.state = "man" -> ParseMan(p, ch)
         [] p.state = "fract0" -> ParseFract0(p, ch)
         [] p.state = "fract" -> ParseFract(p, ch)
         [] p.state = "exp0" -> ParseExp0(p, ch)
         [] p.state \in {"exp1", "exp"} -> ParseExp(p, ch)
         [] p.state = "special" -> ParseSpecial(p, ch)
         [] p.state = "end" -> IF IsSpace(ch) THEN p ELSE Refused(p)
         [] OTHER -> p

\* finish() of a reader that did not throw: the decimal is ready unless the
\* text stopped too early.
Accepts(p) == p.state \notin {"0", "man0", "exp0", "exp1", "special", "error"}
Finish(p) ==
    IF p.state = "end" /\ p.man = << >> THEN Decimal(<< >>, p.exp, p.neg)
    ELSE IF p.man = << >> THEN Decimal(<<0>>, 0, p.neg)
    ELSE Decimal(StripZeros(p.man),
                 AsShort((IF p.eneg THEN AsShort(-p.exp) ELSE p.exp)
                           + (IF p.state = "man" THEN Len(p.man) ELSE p.eoff)),
                 p.neg)
-----------------------------------------------------------------------------
(* The way back to a text. *)

Chars(man) == [i \in 1..Len(man) |-> Char(man[i])]
Zeros(n) == [i \in 1..n |-> "0"]
Sign(d) == IF d.neg THEN <<"-">> ELSE << >>

\* The digits of a natural number.
ChooseDigits[n \in Nat] ==
    IF n < 10 THEN <<n>> ELSE Append(ChooseDigits[n \div 10], n % 10)
NumberText(n) ==
    IF n < 0 THEN <<"-">> \o Chars(ChooseDigits[-n]) ELSE Chars(ChooseDigits[n])

SpecialText(d) == IF IsNaN(d) THEN <<"n", "a", "n">> ELSE Sign(d) \o <<"i", "n", "f">>

ToStringFix(d) ==
    IF ~ IsFinite(d) THEN SpecialText(d)
    ELSE IF d.exp < 1 THEN Sign(d) \o <<"0", ".">> \o Zeros(-d.exp) \o Chars(d.man)
    ELSE IF d.exp < Len(d.man)
         THEN Sign(d) \o Chars(SubSeq(d.man, 1, d.exp)) \o <<".">>
                \o Chars(SubSeq(d.man, d.exp + 1, Len(d.man)))
         ELSE Sign(d) \o Chars(d.man) \o Zeros(d.exp - Len(d.man))

ToStringSci(d) ==
    IF ~ IsFinite(d) THEN SpecialText(d)
    ELSE Sign(d) \o <<Char(d.man[1])>>
           \o (IF Len(d.man) > 1 THEN <<".">> \o Chars(Tail(d.man)) ELSE << >>)
           \o <<"e">> \o NumberText(d.exp - 1)

DecimalText(d) == IF d.exp < -8 \/ d.exp > 8 THEN ToStringSci(d) ELSE ToStringFix(d)
-----------------------------------------------------------------------------
(* Integers. *)

\* An integer is a sequence of one number, an error is an empty one.
OverflowError == << >>

\* The first so many digits as a number, zeros beyond the mantissa, or a number
\* beyond the limit as soon as the limit is exceeded.
Leading(man, count, max) ==
    FoldLeft(LAMBDA n, d : IF n > (max - d) \div 10 THEN max + 1 ELSE n * 10 + d, 0,
             [i \in 1..count |-> IF i <= Len(man) THEN man[i] ELSE 0])
RoundsUp(man, count) == count < Len(man) /\ man[count + 1] >= 5

\* _getUnsigned and the magnitude of _getInteger: half is rounded away from
\* zero, and what exceeds the limit throws.
Magnitude(d, max, exponent) ==
    LET exp == AsShort(d.exp + exponent)
    IN IF exp < 0 THEN <<0>>
       ELSE LET n == Leading(d.man, exp, max) + (IF RoundsUp(d.man, exp) THEN 1 ELSE 0)
            IN IF n > max THEN OverflowError ELSE <<n>>

GetUnsigned(d, max, exponent) ==
    IF d.neg \/ ~ IsFinite(d) THEN OverflowError ELSE Magnitude(d, max, exponent)

GetInteger(d, min, max, exponent) ==
    IF ~ d.neg THEN GetUnsigned(d, max, exponent)
    ELSE IF ~ IsFinite(d) THEN OverflowError
    ELSE LET m == Magnitude(d, -min, exponent) IN [i \in DOMAIN m |-> -m[i]]

SetUnsigned(n, exponent) ==
    LET man == ChooseDigits[n]
    IN Decimal(StripZeros(man), AsShort(exponent + Len(man)), FALSE)
SetInteger(n, exponent) ==
    IF n < 0 THEN [SetUnsigned(-n, exponent) EXCEPT !.neg = TRUE]
    ELSE SetUnsigned(n, exponent)

\* A floating number of so many decimal digits: the digit behind them rounds
\* the last one up, nines before it go.  If all are nines nothing is left.
SetDouble(digits, exponent, negative, precision) ==
    LET man == SubSeq(digits, 1, precision)
        last == {i \in 1..precision : man[i] # 9}
        i == CHOOSE i \in last : \A j \in last : j <= i
        rounded == IF last = {} THEN <<0>>
                   ELSE [SubSeq(man, 1, i) EXCEPT ![i] = @ + 1]
    IN Decimal(StripZeros(IF digits[precision + 1] >= 5 THEN rounded ELSE man),
               exponent, negative)
-----------------------------------------------------------------------------
(* Comparison: mantissas are compared like texts. *)

LessText(s, t) ==
    \E n \in 0..Len(t) :
      /\ n <= Len(s)
      /\ SubSeq(s, 1, n) = SubSeq(t, 1, n)
      /\ IF n = Len(s) THEN n < Len(t) ELSE n < Len(t) /\ s[n + 1] < t[n + 1]

Less(d, e) ==
    IF d.neg # e.neg THEN d.neg
    ELSE IF d.exp # e.exp THEN d.exp < e.exp
    ELSE LessText(d.man, e.man)
Equal(d, e) == ~ IsNaN(d) /\ d = e
Negated(d) == [d EXCEPT !.neg = ~ @]
=============================================================================
