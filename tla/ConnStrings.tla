----------------------------- MODULE ConnStrings -----------------------------
(***************************************************************************
 What the drivers read out of the text behind "driver:" in connect(): the
 user name and password put into it (IConnection::url, which postgresql uses),
 the parameters of mysql and those of oracle.

 A text is a sequence of symbols: characters, of which the blank has a name,
 and whole words where only their identity matters.
 ***************************************************************************)
EXTENDS Integers, Sequences, SequencesExt

UrlStart == [state |-> "0", out |-> << >>]
Emit(p, symbols, state) == [state |-> state, out |-> p.out \o symbols]

\* A percent sign behind another one is put out, and the state stays.
Percent(p, ch, username, password) ==
    CASE ch = "u" -> Emit(p, username, "0")
      [] ch = "p" -> Emit(p, password, "0")
      [] ch = "%" -> Emit(p, <<"%">>, "p")
      [] ch = "\\" -> Emit(p, <<"%">>, "e")
      [] OTHER -> Emit(p, <<"%", ch>>, "0")

UrlChar(p, ch, username, password) ==
    CASE p.state = "e" -> Emit(p, <<ch>>, "0")
      [] p.state = "p" -> Percent(p, ch, username, password)
      [] p.state = "0" /\ ch = "%" -> Emit(p, << >>, "p")
      [] p.state = "0" /\ ch = "\\" -> Emit(p, << >>, "e")
      [] OTHER -> Emit(p, <<ch>>, "0")

Url(text, username, password) ==
    LET p == FoldLeft(LAMBDA q, ch : UrlChar(q, ch, username, password), UrlStart, text)
    IN p.out \o (CASE p.state = "0" -> << >>
                   [] p.state = "p" -> <<"%">>
                   [] p.state = "e" -> <<"\\">>)
-----------------------------------------------------------------------------
(* mysql: key=value with quotes and backslashes. *)

Fields == {"app", "host", "user", "passwd", "db", "unix_socket"}
FieldOf(word) ==
    CASE word \in {"passwd", "password"} -> "passwd"
      [] word \in {"db", "dbname", "database"} -> "db"
      [] OTHER -> word
Keywords == Fields \cup {"password", "dbname", "database"}

MyStart(username, password) ==
    [state |-> "key", key |-> << >>, field |-> "none", quote |-> "none", port |-> 3306, flags |-> 0,
     value |-> [f \in Fields |-> CASE f = "user" -> username
                                   [] f = "passwd" -> password
                                   [] OTHER -> << >>]]

IsDelimiter(ch) == ch \in {";", "blank"}
Numeral == <<"0", "1", "2", "3", "4", "5", "6", "7", "8", "9">>
IsDigit(ch) == ch \in ToSet(Numeral)
DigitOf(ch) == CHOOSE n \in 0..9 : Numeral[n + 1] = ch
Go(p, state) == [p EXCEPT !.state = state]
Invalid(p) == Go(p, "error")      \* runtime_error
Add(p, ch, state) == [p EXCEPT !.value[p.field] = Append(@, ch), !.state = state]

\* The key ends.  A field that has a value already is refused, also when it
\* has it from the arguments of connect().
KeyEnds(p) ==
    CASE p.key = <<"port">> -> [p EXCEPT !.port = 0, !.key = << >>, !.state = "port"]
      [] p.key = <<"flags">> -> [p EXCEPT !.key = << >>, !.state = "flags"]
      [] \E word \in Keywords : p.key = <<word>> /\ p.value[FieldOf(word)] = << >> ->
           [p EXCEPT !.field = FieldOf(Head(p.key)), !.key = << >>, !.state = "value"]
      [] OTHER -> Invalid(p)
Key(p, ch) ==
    CASE ch = "=" -> KeyEnds(p)
      [] p.key = << >> /\ ch = "blank" -> p
      [] OTHER -> [p EXCEPT !.key = Append(@, ch)]

Value(p, ch) ==
    CASE IsDelimiter(ch) -> Go(p, "key")
      [] ch = "\\" -> Go(p, "valueEsc")
      [] p.value[p.field] = << >> /\ ch \in {"'", "\""} ->
           [p EXCEPT !.quote = ch, !.state = "qvalue"]
      [] OTHER -> Add(p, ch, "value")

\* Mutant: no escapes between quotes.
QuotedValue_NoEscape(p, ch) == IF ch = p.quote THEN Go(p, "key") ELSE Add(p, ch, "qvalue")

\* Behind the closing quote the next key begins: no delimiter is skipped.
QuotedValue(p, ch) ==
    CASE ch = p.quote -> Go(p, "key")
      [] ch = "\\" -> Go(p, "qvalueEsc")
      [] OTHER -> Add(p, ch, "qvalue")

NumberValue(p, ch) ==
    CASE IsDelimiter(ch) -> Go(p, "key")
      [] IsDigit(ch) /\ p.state = "port" -> [p EXCEPT !.port = @ * 10 + DigitOf(ch)]
      [] IsDigit(ch) /\ p.state = "flags" -> [p EXCEPT !.flags = @ * 10 + DigitOf(ch)]
      [] OTHER -> Invalid(p)

MyChar(p, ch) ==
    CASE p.state = "key" -> Key(p, ch)
      [] p.state = "value" -> Value(p, ch)
      [] p.state = "valueEsc" -> Add(p, ch, "value")
      [] p.state = "qvalue" -> QuotedValue(p, ch)
      [] p.state = "qvalueEsc" -> Add(p, ch, "qvalue")
      [] p.state = "error" -> p
      [] OTHER -> NumberValue(p, ch)

MyParameters(text, username, password) ==
    LET p == FoldLeft(MyChar, MyStart(username, password), text)
    IN IF p.state = "error" \/ (p.state = "key" /\ p.key # << >>) THEN [error |-> TRUE]
       ELSE [value |-> p.value, port |-> p.port, flags |-> p.flags]
-----------------------------------------------------------------------------
(* oracle: user= and passwd= are cut out of the text, the rest names the
   database. *)

Absent == 0
Smallest(S) == IF S = {} THEN Absent ELSE CHOOSE n \in S : \A k \in S : n <= k
Find(text, word, from) == Smallest({i \in from..Len(text) : text[i] = word})

\* The key counts at the start or behind a semicolon; only its first place is
\* looked at.
ExtractAttribute(text, word) ==
    LET at == Find(text, word, 1)
        end == Find(text, ";", at)
        last == IF end = Absent THEN Len(text) ELSE end - 1
    IN IF at = Absent \/ (at > 1 /\ text[at - 1] # ";") THEN [attr |-> << >>, rest |-> text]
       ELSE [attr |-> SubSeq(text, at + 1, last),
             rest |-> SubSeq(text, 1, at - (IF at > 1 THEN 2 ELSE 1))
                        \o SubSeq(text, last + 1, Len(text))]

OraParameters(text, username, password) ==
    LET u == ExtractAttribute(text, "user=")
        p == ExtractAttribute(u.rest, "passwd=")
        inUrl == u.attr # << >> \/ p.attr # << >>
    IN [db |-> p.rest, user |-> IF inUrl THEN u.attr ELSE username,
        passwd |-> IF inUrl THEN p.attr ELSE password]
=============================================================================
