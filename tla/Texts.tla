------------------------------- MODULE Texts -------------------------------
(***************************************************************************
 Everything in tntdb that reads texts: decimals, dates and times, statements
 with host variables, connection strings.  A behaviour is about one of them.
 A text grows by a character or by a piece with a meaning, and beside it grows
 what the text means by the rules of the documentation, which is compared with
 what the code reads.
 ***************************************************************************)
EXTENDS Integers, Sequences, FiniteSets, SequencesExt, TLC

CONSTANTS MaxExponent,     \* numeric_limits<short>::max()
          DecimalChars,    \* the characters of the texts of decimals
          MaxChars,        \* their length
          MaxPieces,       \* the number of pieces of the other texts
          Years, Fractions \* samples of years and of microseconds

VARIABLES subject,    \* what kind of text it is
          text,       \* the text
          meant,      \* its meaning
          reader      \* the reader of a decimal

textVars == <<subject, text, meant, reader>>

D == INSTANCE Decimals
T == INSTANCE IsoTexts
H == INSTANCE HostVars WITH Letters <- {"a", "v", "w"}, NameChars <- {"a", "v", "w", "0", "1", "_"}
C == INSTANCE ConnStrings

Subjects == {"decimal", "date", "time", "statement", "builder", "limit",
             "postgresql", "mysql", "oracle"}
None == << >>

\* What an empty text means.
Nothing(s) ==
    CASE s = "statement" -> {[items |-> << >>, count |-> 0, pieces |-> 0, name |-> FALSE]}
      [] s = "builder" -> {[items |-> << >>, count |-> n, pieces |-> 0, name |-> FALSE] : n \in 0..2}
      [] s = "postgresql" -> {[items |-> << >>, pieces |-> 0]}
      [] s = "mysql" -> {[value |-> [f \in C!Fields |-> << >>], port |-> 3306, error |-> FALSE, pieces |-> 0]}
      [] OTHER -> {None}

TextInit ==
    /\ subject \in Subjects
    /\ text = << >>
    /\ meant \in Nothing(subject)
    /\ reader = D!Begin
-----------------------------------------------------------------------------
(* Decimals: one character after the other, until one is refused. *)

ReadDecimal(ch) ==
    /\ subject = "decimal" /\ Len(text) < MaxChars /\ reader.state # "error"
    /\ text' = Append(text, ch)
    /\ reader' = D!Parse(reader, ch)
    /\ UNCHANGED <<subject, meant>>

\* The value of a text without blanks, by the positions of its characters: the
\* digits before an "e", with the point moved.
Positions(S(_)) == {i \in DOMAIN text : S(text[i])}
PlaceOf(ch) == LET at == Positions(LAMBDA c : c = ch)
               IN IF at = {} THEN Len(text) + 1 ELSE CHOOSE i \in at : TRUE
MantissaDigits == {i \in Positions(D!IsDigit) : i < PlaceOf("e")}
BeforePoint == {i \in MantissaDigits : i < PlaceOf(".")}
NumberAt(positions) ==
    FoldLeft(LAMBDA n, i : n * 10 + D!DigitOf(text[i]), 0, SetToSortSeq(positions, LAMBDA i, j : i < j))
ScaleWritten ==
    LET exponent == NumberAt({i \in Positions(D!IsDigit) : i > PlaceOf("e")})
        minus == \E i \in DOMAIN text : text[i] = "-" /\ i > PlaceOf("e")
    IN (IF minus THEN -exponent ELSE exponent) - Cardinality(MantissaDigits \ BeforePoint)

\* The texts the reference knows: one "e", one sign each, no blank.
Plain == /\ \A ch \in {"e", "."} : Cardinality(Positions(LAMBDA c : c = ch)) <= 1
         /\ ~ \E i \in DOMAIN text : text[i] = " "
         /\ \A i \in DOMAIN text : text[i] = "-" => i \in {1, PlaceOf("e") + 1}
         /\ MantissaDigits # {}

\* The number 0.man * 10^exp is digits * 10^scale.
TenTo(n) == 10^n
SameNumber(man, exp, digits, scale) ==
    LET m == FoldLeft(LAMBDA n, d : n * 10 + d, 0, man)
        off == exp - Len(man) - scale
    IN \/ digits = 0 /\ m = 0
       \/ off \in 0..MaxChars /\ m * TenTo(off) = digits
-----------------------------------------------------------------------------
(* Dates and times: as ISO texts and as postgresql writes them. *)

WriteDate(d, style) ==
    /\ subject = "date" /\ text = << >>
    /\ text' = T!PgDateText(style, d)
    /\ meant' = [date |-> d, style |-> style]
    /\ UNCHANGED <<subject, reader>>

WriteTime(t, micros) ==
    /\ subject = "time" /\ text = << >>
    /\ text' = T!PgTimeText(t, micros)
    /\ meant' = [time |-> t, micros |-> micros]
    /\ UNCHANGED <<subject, reader>>

\* One character of the text is another one.
Spoil(i, ch) ==
    /\ \/ subject = "date" /\ "date" \in DOMAIN meant /\ meant.style = "-"
       \/ subject = "time" /\ "time" \in DOMAIN meant /\ meant.micros = 0
    /\ i \in DOMAIN text /\ text[i] # ch
    /\ text' = [text EXCEPT ![i] = ch]
    /\ meant' = [spoilt |-> TRUE]
    /\ UNCHANGED <<subject, reader>>
-----------------------------------------------------------------------------
(* Statements: pieces that are text, strings, host variables and, for the
   builder, placeholders.  A backslash is needed once for each parser that the
   text goes through. *)

ListName == <<"v">>
TableName == <<"w">>
Table == <<"t", "blank", ":", "a">>      \* what replaces the placeholder %w

Passes == IF subject = "builder" THEN 3 ELSE 1
EscapedOnce(s) == FlattenSeq([i \in DOMAIN s |-> <<"\\", s[i]>>])
Escaped(ch) ==
    CASE Passes = 1 -> EscapedOnce(<<ch>>)
      [] Passes = 3 -> EscapedOnce(EscapedOnce(EscapedOnce(<<ch>>)))

Piece(s, means, name) == [text |-> s, means |-> means, name |-> name]
Verbatim(s) == Piece(s, H!CharsOf(s), FALSE)

StatementPieces ==
    {Verbatim(s) : s \in {<<"x">>, <<":", ":">>}}
      \cup {Piece(<<":">> \o name, <<H!Var(name)>>, TRUE) : name \in {<<"a">>, <<"v", "0">>}}
      \cup {Piece(Escaped(ch), H!CharsOf(<<ch>>), FALSE) : ch \in {":", "%", "'", "\\", "a"}}
Strings ==
    {Verbatim(s) : s \in {<<"'", ":", "a", "'">>, <<"\"", "%", "v", "'", "\"">>,
                          <<"'", "\\", "x", ":", "'">>}}

\* A list of host variables with commas between them, or NULL without any.
ListOf(names) ==
    FlattenSeq([i \in DOMAIN names |-> (IF i = 1 THEN << >> ELSE H!CharsOf(<<",">>))
                                        \o <<H!Var(names[i])>>])
BuilderPieces(count) ==
    {Piece(<<"%">> \o ListName,
           H!CharsOf(<<"blank">>)
             \o (IF count = 0 THEN H!CharsOf(<<"NULL">>) ELSE ListOf(H!ElementNames(ListName, count)))
             \o H!CharsOf(<<"blank">>), TRUE),
     Piece(<<"%">> \o TableName, H!CharsOf(<<"t", "blank">>) \o <<H!Var(<<"a">>)>>, TRUE)}

\* A string does not follow a name directly: the parser would not see where it
\* begins.
WritePiece(piece) ==
    /\ subject \in {"statement", "builder"} /\ meant.pieces < MaxPieces
    /\ piece \in Strings => ~ meant.name
    /\ text' = text \o piece.text
    /\ meant' = [meant EXCEPT !.items = @ \o piece.means, !.pieces = @ + 1, !.name = piece.name]
    /\ UNCHANGED <<subject, reader>>

\* What a driver finds in the statement.
Items ==
    H!ParseText(IF subject = "statement" THEN text
                ELSE H!Replace(H!ExtendParam(text, ListName, meant.count), TableName, Table), ":")
-----------------------------------------------------------------------------
(* prepareWithLimit: a limit, an offset or both, of a select or of another
   statement, with a driver that is used directly or behind the replication
   driver.  The text is the sequence of clauses. *)

LimitNames == {<< >>, <<"v">>}
OffsetNames == {<< >>, <<"w">>}

PrepareWithLimit(driver, limit, offset, isSelect, replicated) ==
    /\ subject = "limit" /\ meant = None
    /\ replicated \/ isSelect
    /\ text' = IF replicated THEN H!Replicated(isSelect, driver, limit, offset)
               ELSE H!Clauses(driver, limit, offset)
    /\ meant' = [driver |-> driver, limit |-> limit, offset |-> offset, isSelect |-> isSelect]
    /\ UNCHANGED <<subject, reader>>

\* The rows after the offset, as many as the limit says.
RowsMeant(limit, offset, value, rows) ==
    LET first == IF offset = << >> THEN 0 ELSE value[offset]
        last == IF limit = << >> THEN rows ELSE first + value[limit]
    IN (first + 1)..last \cap 1..rows
-----------------------------------------------------------------------------
(* Connection strings. *)

Username == <<"U">>
Password == <<"P", "%", "u", "\\">>

UrlPieces ==
    {Verbatim(s) : s \in {<<"x">>, <<"%", "x">>}}
      \cup {Piece(EscapedOnce(<<ch>>), H!CharsOf(<<ch>>), FALSE) : ch \in {"%", "\\", "u"}}
      \cup {Piece(<<"%", "u">>, H!CharsOf(Username), FALSE),
            Piece(<<"%", "p">>, H!CharsOf(Password), FALSE)}

WriteUrl(piece) ==
    /\ subject = "postgresql" /\ meant.pieces < MaxPieces
    /\ text' = text \o piece.text
    /\ meant' = [meant EXCEPT !.items = @ \o piece.means, !.pieces = @ + 1]
    /\ UNCHANGED <<subject, reader>>

\* mysql: a field is set once, its value in quotes or with backslashes.
MyValues == {<< >>, <<"x">>, <<"x", "blank", "'">>, <<";", "\\", "=">>}
Quoted(value) ==
    <<"'">> \o FlattenSeq([i \in DOMAIN value |->
                  IF value[i] \in {"'", "\\"} THEN <<"\\", value[i]>> ELSE <<value[i]>>]) \o <<"'">>
MyParameter(word, value, quoted) ==
    IF quoted THEN <<word, "=">> \o Quoted(value) \o <<"blank">>
    ELSE <<word, "=">> \o EscapedOnce(value) \o <<";">>

WriteMyParameter(word, value, quoted) ==
    /\ subject = "mysql" /\ meant.pieces < MaxPieces
    /\ text' = text \o MyParameter(word, value, quoted)
    /\ meant' = [meant EXCEPT !.value[C!FieldOf(word)] = value, !.pieces = @ + 1,
                              !.error = @ \/ meant.value[C!FieldOf(word)] # << >>]
    /\ UNCHANGED <<subject, reader>>

WriteMyPort ==
    /\ subject = "mysql" /\ meant.pieces < MaxPieces
    /\ text' = text \o <<"port", "=", "1", "2", ";">>
    /\ meant' = [meant EXCEPT !.port = 12, !.pieces = @ + 1]
    /\ UNCHANGED <<subject, reader>>

\* oracle: the name of the database, then the parameters in any order.
WriteOra(word, value) ==
    /\ subject = "oracle" /\ word \in (IF meant = None THEN {"db"} ELSE {"user=", "passwd="})
    /\ meant # None => meant[word] = << >>
    /\ text' = IF word = "db" THEN value ELSE text \o <<";", word>> \o value
    /\ meant' = IF word = "db"
                THEN [w \in {"db", "user=", "passwd="} |-> IF w = "db" THEN value ELSE << >>]
                ELSE [meant EXCEPT ![word] = value]
    /\ UNCHANGED <<subject, reader>>
-----------------------------------------------------------------------------
Dates == {T!Date(y, m, d) : y \in Years, m \in {1, 12}, d \in {2, 31}}
Times == {T!Time(h, m, s, ms) : h \in {0, 23}, m \in {5, 59}, s \in {0, 59}, ms \in {0, 7, 999}}

TextNext ==
    \/ \E ch \in DecimalChars : ReadDecimal(ch)
    \/ \E d \in Dates, style \in {"-", "/", "."} : WriteDate(d, style)
    \/ \E t \in Times, micros \in Fractions : WriteTime(t, micros)
    \/ \E i \in 1..12, ch \in {"-", ":", "1", "."} : Spoil(i, ch)
    \/ \E piece \in StatementPieces \cup Strings : WritePiece(piece)
    \/ subject = "builder" /\ \E piece \in BuilderPieces(meant.count) : WritePiece(piece)
    \/ \E driver \in {"mysql", "postgresql", "sqlite", "oracle"}, limit \in LimitNames,
          offset \in OffsetNames, isSelect, replicated \in BOOLEAN :
            PrepareWithLimit(driver, limit, offset, isSelect, replicated)
    \/ \E piece \in UrlPieces : WriteUrl(piece)
    \/ \E word \in {"user", "passwd", "password"}, value \in MyValues, quoted \in BOOLEAN :
          WriteMyParameter(word, value, quoted)
    \/ WriteMyPort
    \/ \E word \in {"db", "user=", "passwd="}, value \in {<<"x">>, <<"y">>} : WriteOra(word, value)

TextSpec == TextInit /\ [][TextNext]_textVars
-----------------------------------------------------------------------------
WrittenDigits == NumberAt(MantissaDigits)
WrittenNegative == text[1] = "-"
ExponentDigits == {i \in Positions(D!IsDigit) : i > PlaceOf("e")}

\* A text of a decimal which is accepted, and which the reference knows: its
\* exponent has at most two digits and fits.
Known == /\ subject = "decimal" /\ text # << >> /\ D!Accepts(reader) /\ Plain
         /\ Cardinality(ExponentDigits) <= 2
         /\ ScaleWritten + Cardinality(MantissaDigits) <= MaxExponent

\* Half is rounded away from zero.  Limit stands for everything beyond the
\* integers that are asked for.
Limit == 1000
RoundedTo(digits, scale) ==
    CASE scale > 3 -> IF digits = 0 THEN 0 ELSE Limit
      [] scale \in 0..3 -> digits * TenTo(scale)
      [] scale \in -MaxChars..-1 -> (2 * digits + TenTo(-scale)) \div (2 * TenTo(-scale))
      [] OTHER -> 0

\* The integer nearest to the text, or an error if it does not fit.
IntegerAsWritten(d, min, max) ==
    LET n == (IF WrittenNegative THEN -1 ELSE 1) * RoundedTo(WrittenDigits, ScaleWritten)
    IN D!GetInteger(d, min, max, 0) = IF n \in min..max THEN <<n>> ELSE D!OverflowError

\* The order of positive numbers is that of their values.
OrderedAsWritten(d) ==
    (WrittenDigits > 0 /\ ~ WrittenNegative /\ ScaleWritten \in -3..2) =>
      \A n \in {1, 19, 101, 9999} :
        D!Less(d, D!SetInteger(n, 0)) = (WrittenDigits * TenTo(ScaleWritten + 3) < n * TenTo(3))

\* A double with those digits, of which two are kept, is off by half of the last
\* one at most, unless both are nines.
NearestDouble(d) ==
    LET digits == [i \in 1..3 |-> IF i <= Len(d.man) THEN d.man[i] ELSE 0]
        r == D!SetDouble(digits, d.exp, d.neg, 2)
        n == FoldLeft(LAMBDA m, c : m * 10 + c, 0, digits)
        got == FoldLeft(LAMBDA m, c : m * 10 + c, 0,
                        [i \in 1..3 |-> IF i <= Len(r.man) THEN r.man[i] ELSE 0])
    IN n < 995 => got - n \in -4..5

\* A decimal that is read from a text has the sign and the value which the text
\* has by the places of its digits, and so have the integer made of it, its
\* place in the order of numbers and its rounding to fewer digits
\* (Decimal::Parser, _getInteger, operator<, _setDouble).  Texts that are not
\* Plain are left out, among them those with a blank: "0 " is read as nan.
DecimalAsWritten ==
    Known =>
      LET d == D!Finish(reader)
      IN /\ D!IsFinite(d) /\ d.neg = WrittenNegative
         /\ SameNumber(d.man, d.exp, WrittenDigits, ScaleWritten)
         /\ IntegerAsWritten(d, -128, 127)
         /\ OrderedAsWritten(d)
         /\ NearestDouble(d)

ReadBack(s) == D!Finish(FoldLeft(D!Parse, D!Begin, s))
DecimalKept(d) ==
    /\ ReadBack(D!DecimalText(d)) = d
    /\ (D!IsFinite(d) /\ d.exp \in -20..20) => ReadBack(D!ToStringFix(d)) = d
    /\ D!IsFinite(d) => ReadBack(D!ToStringSci(d)) = d
    /\ (D!IsFinite(d) /\ d.exp \in 1..4 /\ Len(d.man) <= d.exp)
         => D!SetInteger(D!GetInteger(d, -9999, 9999, 0)[1], 0) = d

DateKept(d, style) ==
    /\ T!PgDate(text) = d
    /\ T!DateFromIso(T!DateIso(d)) = d
    /\ \A t \in {T!Time(23, 59, 7, 90)} :
         /\ T!DatetimeFromIso(T!DatetimeIso(T!Datetime(d, t))) = T!Datetime(d, t)
         /\ T!PgDatetime(text \o <<" ">> \o T!TimeIso(t))
              = T!Datetime(d, IF style = "-" THEN t ELSE [t EXCEPT !.millis = 0])

\* A fraction is rounded, except that nothing is carried beyond the second.
TimeKept(t, micros) ==
    /\ T!TimeFromIso(T!TimeIso(t)) = t
    /\ (t.millis < 999 \/ micros < 500)
         => T!PgTime(text) = [t EXCEPT !.millis = @ + (IF micros < 500 THEN 0 ELSE 1)]

\* What is accepted with a wrong character is what the text says.
NothingMisread ==
    LET d == IF subject = "date" THEN T!DateFromIso(text) ELSE T!TimeFromIso(text)
    IN d # T!Refused => text = IF subject = "date" THEN T!DateIso(d) ELSE T!TimeIso(d)

\* What is written as a text is read from it again: decimals in each of their
\* forms and as integers, dates and times in ISO form and in the styles of
\* postgresql; and no damaged text is read as another value
\* (Decimal::toString, getIso, fromIso, ResultValue::getDate).
TextsKeepValues ==
    /\ (subject = "decimal" /\ text = << >>) =>
         \A d \in {D!NaN, D!Infinity(TRUE), D!Infinity(FALSE)} : ReadBack(D!DecimalText(d)) = d
    /\ (Known /\ ~ D!IsZero(D!Finish(reader)) /\ D!Finish(reader).exp > -MaxExponent)
         => DecimalKept(D!Finish(reader))
    /\ (subject = "date" /\ meant # None /\ text # << >>) =>
         IF "spoilt" \in DOMAIN meant THEN NothingMisread ELSE DateKept(meant.date, meant.style)
    /\ (subject = "time" /\ meant # None /\ text # << >>) =>
         IF "spoilt" \in DOMAIN meant THEN NothingMisread ELSE TimeKept(meant.time, meant.micros)

\* A select with a limit gives these rows with each driver and whatever the
\* values of the host variables are; mysql and sqlite know no offset alone.
LimitAsMeant ==
    \/ ~ meant.isSelect
    \/ /\ meant.limit = << >> /\ meant.offset # << >> /\ meant.driver \in {"mysql", "sqlite"}
       /\ \A value \in [{<<"v">>, <<"w">>} -> 0..3] :
            H!Selected(meant.driver, text, value, 3) = H!SyntaxError
    \/ \A value \in [{<<"v">>, <<"w">>} -> 0..3], rows \in 0..3 :
         H!Selected(meant.driver, text, value, rows)
           = RowsMeant(meant.limit, meant.offset, value, rows)

\* The parser finds the host variables of a statement and nothing else: strings
\* and escaped characters come through, the placeholders of the builder become
\* lists and texts, and a value that is set reaches exactly the places of its
\* name, however the driver numbers them; a limit and an offset give the same
\* rows with every driver (StmtParser, SqlBuilder, SE::onHostVar,
\* prepareWithLimit).
StatementAsMeant ==
  /\ (subject = "limit" /\ meant # None) => LimitAsMeant
  /\ subject \in {"statement", "builder"} =>
      /\ Items = meant.items
      /\ \A name \in {Items[i][2] : i \in H!Slots(Items)} :
           LET places == {i \in H!Slots(Items) : meant.items[i][2] = name}
           IN H!MyBoundBy(Items, name) = places /\ H!PgBoundBy(Items, name) = places

\* A connection gets the parameters that its url was made of, whatever
\* characters they contain as long as they are quoted or escaped; of mysql, a
\* field that has a value is refused when it is given again, and a port or a
\* field that is empty is not: the last one counts (IConnection::url, the
\* constructors of the connections of mysql and oracle).
ConnectionAsMeant ==
      /\ subject = "postgresql" => H!CharsOf(C!Url(text, Username, Password)) = meant.items
      /\ subject = "mysql" =>
           LET got == C!MyParameters(text, << >>, << >>)
           IN IF meant.error THEN "error" \in DOMAIN got
              ELSE /\ "error" \notin DOMAIN got
                   /\ got.value = meant.value /\ got.port = meant.port
      /\ (subject = "oracle" /\ meant # None) =>
           LET got == C!OraParameters(text, <<"x">>, <<"y">>)
               inUrl == meant["user="] # << >> \/ meant["passwd="] # << >>
           IN /\ got.db = meant["db"]
              /\ got.user = IF inUrl THEN meant["user="] ELSE <<"x">>
              /\ got.passwd = IF inUrl THEN meant["passwd="] ELSE <<"y">>
=============================================================================
