------------------------------ MODULE IsoTexts ------------------------------
(***************************************************************************
 Dates and times as texts: getIso and fromIso of Date, Time and Datetime, and
 what the result of a postgresql select makes of such a text
 (ResultValue::getDate, getTime, getDatetime).

 A text is a sequence of characters, as in Decimals.
 ***************************************************************************)
EXTENDS Integers, Sequences, SequencesExt

LOCAL D == INSTANCE Decimals WITH MaxExponent <- 1

Date(y, m, d) == [year |-> y, month |-> m, day |-> d]
Time(h, m, s, ms) == [hour |-> h, minute |-> m, second |-> s, millis |-> ms]
Datetime(date, time) == date @@ time
Refused == [refused |-> TRUE]     \* TypeError

Digit(n) == D!Char(n % 10)
Two(n) == <<Digit(n \div 10), Digit(n)>>
Three(n) == <<Digit(n \div 100)>> \o Two(n % 100)
Four(n) == <<Digit(n \div 1000)>> \o Three(n % 1000)

DateIso(d) == Four(d.year) \o <<"-">> \o Two(d.month) \o <<"-">> \o Two(d.day)
TimeIso(t) == Two(t.hour) \o <<":">> \o Two(t.minute) \o <<":">> \o Two(t.second)
                \o <<".">> \o Three(t.millis)
DatetimeIso(dt) == DateIso(dt) \o <<" ">> \o TimeIso(dt)
-----------------------------------------------------------------------------
\* getNumber2, getNumber3 and getNumber4: so many digits at a place.
AreDigits(s, at, count) == \A i \in at..(at + count - 1) : D!IsDigit(s[i])
Number(s, at, count) ==
    FoldLeft(LAMBDA n, c : n * 10 + D!DigitOf(c), 0, SubSeq(s, at, at + count - 1))

\* The characters between the numbers.
Separated(s, seps) == \A i \in DOMAIN seps : s[i] = seps[i]
DateSeps == 5 :> "-" @@ 8 :> "-"
TimeSeps == 3 :> ":" @@ 6 :> ":"
Shifted(seps, by) == [i \in {j + by : j \in DOMAIN seps} |-> seps[i - by]]

DateAt(s, at) == Date(Number(s, at, 4), Number(s, at + 5, 2), Number(s, at + 8, 2))
TimeAt(s, at, millis) ==
    Time(Number(s, at, 2), Number(s, at + 3, 2), Number(s, at + 6, 2),
         IF millis THEN Number(s, at + 9, 3) ELSE 0)
DateDigits(s, at) == AreDigits(s, at, 4) /\ AreDigits(s, at + 5, 2) /\ AreDigits(s, at + 8, 2)
TimeDigits(s, at, millis) ==
    /\ \A i \in {0, 3, 6} : AreDigits(s, at + i, 2)
    /\ millis => AreDigits(s, at + 9, 3)

\* A date may be followed by anything.
DateFromIso(s) ==
    IF Len(s) >= 10 /\ Separated(s, DateSeps) /\ DateDigits(s, 1) THEN DateAt(s, 1) ELSE Refused

TimeFromIso(s) ==
    IF /\ Len(s) \in {8, 12}
       /\ Separated(s, TimeSeps)
       /\ Len(s) = 12 => s[9] = "."
       /\ TimeDigits(s, 1, Len(s) = 12)
    THEN TimeAt(s, 1, Len(s) = 12) ELSE Refused

DatetimeFromIso(s) ==
    IF /\ Len(s) \in {19, 23}
       /\ Separated(s, DateSeps @@ 11 :> " " @@ Shifted(TimeSeps, 11))
       /\ Len(s) = 23 => s[20] = "."
       /\ DateDigits(s, 1) /\ TimeDigits(s, 12, Len(s) = 23)
    THEN Datetime(DateAt(s, 1), TimeAt(s, 12, Len(s) = 23)) ELSE Refused
-----------------------------------------------------------------------------
(* What is read of the text of a postgresql result: numbers with one character
   between them, in an order that the separator tells. *)

HasChar(text, ch) == ch \in ToSet(text)

\* The numbers of a text, one after the other.
NumbersOf(text) ==
    FoldLeft(LAMBDA ns, ch :
               IF ~ D!IsDigit(ch) THEN Append(ns, 0)
               ELSE [ns EXCEPT ![Len(ns)] = @ * 10 + D!DigitOf(ch)],
             <<0>>, text)

\* Mutant: a slash is taken for a point.
PgDateOf_DayFirst(text, n) ==
    IF HasChar(text, "-") THEN Date(n[1], n[2], n[3]) ELSE Date(n[3], n[2], n[1])

PgDateOf(text, n) ==
    CASE HasChar(text, "-") -> Date(n[1], n[2], n[3])
      [] ~ HasChar(text, "-") /\ HasChar(text, "/") -> Date(n[3], n[1], n[2])
      [] OTHER -> Date(n[3], n[2], n[1])
IsPgDate(text) == \E ch \in {"-", "/", "."} : HasChar(text, ch)
PgDate(text) ==
    IF IsPgDate(text) /\ Len(NumbersOf(text)) >= 3 THEN PgDateOf(text, NumbersOf(text))
    ELSE Refused

\* Seconds are read as a floating number and rounded to milliseconds: less
\* than half a millisecond before the minute this gives sixty.
MillisOf(text, at) ==
    LET seconds == SubSeq(text, at, Len(text))
        digits == SelectSeq(seconds, D!IsDigit)
        micros == Number([i \in 1..8 |-> IF i <= Len(digits) THEN digits[i] ELSE "0"], 1, 8)
    IN (micros + 500) \div 1000
PgTimeAt(text, at) ==
    LET millis == MillisOf(text, at + 6)
    IN Time(Number(text, at, 2), Number(text, at + 3, 2), millis \div 1000, millis % 1000)
PgTime(text) == IF Len(text) >= 8 THEN PgTimeAt(text, 1) ELSE Refused

\* Only the first style has milliseconds.
PgDatetime(text) ==
    CASE IsPgDate(text) /\ HasChar(text, "-") -> Datetime(PgDateOf(text, NumbersOf(text)), PgTimeAt(text, 12))
      [] IsPgDate(text) /\ ~ HasChar(text, "-") ->
           Datetime(PgDateOf(text, NumbersOf(text)), TimeAt(text, 12, FALSE))
      [] OTHER -> Refused

\* The texts the server writes for these styles.
PgDateText(style, d) ==
    LET join(a, b, c) == a \o <<style>> \o b \o <<style>> \o c
    IN CASE style = "-" -> join(Four(d.year), Two(d.month), Two(d.day))
         [] style = "/" -> join(Two(d.month), Two(d.day), Four(d.year))
         [] style = "." -> join(Two(d.day), Two(d.month), Four(d.year))
PgTimeText(t, micros) == TimeIso(t) \o (IF micros = 0 THEN << >> ELSE Three(micros))
=============================================================================
