------------------------------- MODULE MyBind -------------------------------
(***************************************************************************
 The values of the mysql driver.  A MYSQL_BIND is a typed view of a buffer
 which is reused: for a host variable by the next setter, for a column by
 the next row.  The buffer keeps what an earlier use left in it, and the
 type, the sign and the null flag each have their own way of becoming stale.

 Values of unprepared selects come as texts without a MYSQL_BIND (RowValue).

 cell    the bind and the bytes it points to
 said    what the last call promises: the datum that the setter was given,
         null after clear, nothing (the empty set) after a setter that threw,
         or what the server delivered
 answer  the last call of a getter: its kind, what there was, what it gave
 ***************************************************************************)
EXTENDS Conversions

CONSTANTS Data        \* the data that are set and delivered

VARIABLES cell, said, answer

IntTypes == {"TINY", "SHORT", "INT24", "LONG", "LONGLONG"}
TextTypes == {"STRING", "DECIMAL", "BLOB"}
TimeTypes == {"DATE", "TIME", "DATETIME"}
Types == IntTypes \cup TextTypes \cup TimeTypes \cup {"FLOAT", "DOUBLE", "NULL", "YEAR"}

TypeWidth(t) == CASE t = "TINY" -> 1 [] t = "SHORT" -> 2 [] t = "INT24" -> 3
                  [] t = "LONG" -> 4 [] t = "LONGLONG" -> 8

\* use: what the cell serves as.  kind: the setter that was called last.  word: the first eight bytes of the buffer as
\* a number, the lowest first.  content: what else the buffer holds.
\* points: is_null points to the attribute isNull (otherwise it is 0).
Cells == [use : {"fresh", "in", "out", "row"},
          kind : Kinds \cup {"none", "Null", "CString"}, type : Types, unsigned : BOOLEAN,
          word : 0..(Power(8) - 1), content : Data \cup {Null},
          points : BOOLEAN, isNull : BOOLEAN]

Fresh(use) ==
    [use |-> use, kind |-> "none", type |-> "DECIMAL", unsigned |-> FALSE, word |-> 0,
     content |-> Null, points |-> TRUE, isNull |-> TRUE]

\* Mutant: only the type tells a null.
IsNull_ByType(c) == c.type = "NULL"

IsNull(c) == c.type = "NULL" \/ (c.points /\ c.isNull)

\* Storing w bytes leaves the rest of the buffer as it was.
Stored(word, w, n) == (word - (word % Power(w))) + AsUnsigned(w, n)
Word(c) == IF c.unsigned THEN AsUnsigned(TypeWidth(c.type), c.word)
           ELSE AsSigned(TypeWidth(c.type), c.word)

\* What the server reads from a bind.
Seen(c) == IF IsNull(c) THEN Null
           ELSE IF c.type \in IntTypes THEN Num(Word(c)) ELSE c.content
-----------------------------------------------------------------------------
(* Setting a host variable. *)

\* The wrappers for long take an int.
Passed(k, n) == CASE k = "Long" -> Cast("Int", n)
                  [] k = "UnsignedLong" -> Cast("Unsigned", n)
                  [] OTHER -> n

\* reserve() keeps the memory when it is large enough: what is in it stays.
Reserved(c) == IF c.kind \in {"none", "Null"} THEN Garbage ELSE {c.word}

\* Every integer up to the width of int is announced as LONG, but stored with
\* the width of its C++ type.
SetInteger(k, n) ==
    \E m \in Reserved(cell) :
      cell' = [cell EXCEPT !.use = "in", !.kind = k, !.points = FALSE,
                 !.type = IF k \in {"Int64", "Unsigned64"} THEN "LONGLONG" ELSE "LONG",
                 !.unsigned = k \in UnsignedKinds,
                 !.word = Stored(m, Width(k), Passed(k, n)),
                 !.content = Null]

SetBit(n) ==
    \E m \in Reserved(cell) :
      cell' = [cell EXCEPT !.use = "in", !.kind = "Bool", !.points = FALSE,
                 !.type = "SHORT", !.unsigned = TRUE, !.word = Stored(m, 2, n),
                 !.content = Null]

\* Floating numbers and texts do not touch the sign, decimals do.
SetContent(k, d) ==
    \E m \in Garbage :
      cell' = [cell EXCEPT !.use = "in", !.kind = k, !.points = FALSE,
                 !.type = CASE k = "Decimal" -> "DECIMAL" [] k = "Float" -> "FLOAT"
                            [] k = "Double" -> "DOUBLE" [] k = "CString" -> "BLOB"
                            [] OTHER -> "STRING",
                 !.unsigned = IF k = "Decimal" THEN FALSE ELSE @,
                 !.word = m, !.content = d]

SetTimestamp(k, d) ==
    \E m \in Garbage :
      cell' = [cell EXCEPT !.use = "in", !.kind = k, !.points = FALSE,
                 !.type = CASE k = "Date" -> "DATE" [] k = "Time" -> "TIME"
                            [] OTHER -> "DATETIME",
                 !.word = m, !.content = d]

\* The setters of the statement pass the value on to every place that has the
\* name of the host variable.
Setting(d) == /\ cell.use \in {"fresh", "in"}
              /\ said' = {d}
              /\ answer' = NoAnswer
Fitting(k, d) == d.is = "number" /\ Fits(k, d.n)

SetBool(d) ==
    /\ d \in {Num(0), Num(1)}
    /\ Setting(d) /\ SetBit(d.n)

SetSigned(k, d) ==
    /\ k \in {"Short", "Int", "Long"} /\ Fitting(k, d)
    /\ Setting(d) /\ SetInteger(k, d.n)

SetUnsigned(k, d) ==
    /\ k \in {"UnsignedShort", "Unsigned", "UnsignedLong"} /\ Fitting(k, d)
    /\ Setting(d) /\ SetInteger(k, d.n)

SetSized(k, d) ==
    /\ k \in {"Int32", "Unsigned32", "Int64", "Unsigned64"} /\ Fitting(k, d)
    /\ Setting(d) /\ SetInteger(k, d.n)

SetReal(k, d) ==
    /\ k \in {"Decimal", "Float", "Double"} /\ Numeric(d)
    /\ Setting(d) /\ SetContent(k, d)

SetText(k, d) ==
    /\ k \in {"Char", "String", "CString", "Blob"} /\ d # Null
    /\ k = "Char" => d # Empty
    /\ Setting(d) /\ SetContent(k, d)

SetTime(k, d) ==
    /\ \/ k = "Date" /\ d.is = "date"
       \/ k = "Time" /\ d.is = "time"
       \/ k = "Datetime" /\ d.is = "datetime"
    /\ Setting(d) /\ SetTimestamp(k, d)

\* setNull releases the buffer.
SetNull ==
    /\ Setting(Null)
    /\ cell' = [cell EXCEPT !.use = "in", !.kind = "Null", !.type = "NULL",
                            !.word = 0, !.content = Null]

Set(k, d) ==
    \/ k = "Bool" /\ SetBool(d)
    \/ SetSigned(k, d) \/ SetUnsigned(k, d) \/ SetSized(k, d)
    \/ SetReal(k, d) \/ SetText(k, d) \/ SetTime(k, d)
    \/ k = "Null" /\ d = Null /\ SetNull

\* Statement::clear sets the attributes, which a bind that was set before no
\* longer points to: such a host variable keeps its value, whatever clear
\* promises.
Clear ==
    /\ cell.use = "in"
    /\ cell' = [cell EXCEPT !.isNull = TRUE]
    /\ said' = {Null}
    /\ answer' = NoAnswer
-----------------------------------------------------------------------------
(* Delivering a column. *)

\* initOutBuffer takes type and sign from the description of the column.
InitOutBuffer(type, unsigned) ==
    /\ cell.use = "fresh"
    /\ cell' = [Fresh("out") EXCEPT !.type = type, !.unsigned = unsigned]
    /\ said' = {Null}
    /\ answer' = NoAnswer

\* The data a column of that type has.
Delivers(c, d) ==
    CASE c.type \in IntTypes ->
           /\ d.is = "number"
           /\ d.n = (IF c.unsigned THEN AsUnsigned(TypeWidth(c.type), d.n)
                     ELSE AsSigned(TypeWidth(c.type), d.n))
      [] c.type \in {"FLOAT", "DOUBLE", "DECIMAL"} -> Numeric(d)
      [] c.type = "DATE" -> d.is = "date"
      [] c.type = "TIME" -> d.is = "time"
      [] c.type = "DATETIME" -> d.is = "datetime"
      [] c.type = "YEAR" -> d.is = "number"
      [] OTHER -> d # Null

\* mysql_stmt_fetch fills the bind.
Fetch(d) ==
    /\ cell.use = "out"
    /\ Delivers(cell, d)
    /\ cell' = IF cell.type \in IntTypes
               THEN [cell EXCEPT !.isNull = FALSE,
                                 !.word = Stored(@, TypeWidth(cell.type), d.n)]
               ELSE [cell EXCEPT !.isNull = FALSE, !.content = d]
    /\ said' = {d}
    /\ answer' = NoAnswer

FetchNull ==
    /\ cell.use = "out"
    /\ cell' = [cell EXCEPT !.isNull = TRUE]
    /\ said' = {Null}
    /\ answer' = NoAnswer

\* A row of an unprepared select: the server sends texts.
FetchRow(d) ==
    /\ cell.use \in {"fresh", "row"}
    /\ cell' = [Fresh("row") EXCEPT !.content = d, !.isNull = (d = Null)]
    /\ said' = {d}
    /\ answer' = NoAnswer
-----------------------------------------------------------------------------
(* The getters, by the type of the bind. *)

\* Mutant: the sign of the column is forgotten.
GetInteger_Signed(k, c) ==
    CASE c.type \in IntTypes -> {Num(Cast(k, AsSigned(TypeWidth(c.type), c.word)))}
      [] c.type = "DECIMAL" -> DecimalInteger(k, c.content)
      [] OTHER -> {TypeError}

GetInteger(k, c) ==
    CASE c.type \in IntTypes -> {Num(Cast(k, Word(c)))}
      [] c.type = "DECIMAL" -> DecimalInteger(k, c.content)
      [] c.type = "STRING" ->
           LET x == Extract(k, c.content)
           IN IF x.eof \/ ~ x.fail THEN x.stored ELSE {TypeError}
      [] OTHER -> {TypeError}

GetFloat(c) ==
    CASE c.type \in IntTypes \ {"LONGLONG"} -> {Num(Cast("Int", Word(c)))}
      [] c.type \in {"FLOAT", "DOUBLE"} -> {c.content}
      [] c.type \in {"DECIMAL", "STRING"} ->
           LET x == ExtractFloat(c.content)
           IN IF x.eof \/ ~ x.fail THEN x.stored ELSE {TypeError}
      [] OTHER -> {TypeError}

GetDecimal(c) ==
    CASE c.type \in IntTypes -> {Num(Cast("Int64", Word(c)))}
      [] c.type \in {"FLOAT", "DOUBLE"} -> {c.content}
      [] c.type \in {"DECIMAL", "STRING"} -> ParseDecimal(c.content)
      [] OTHER -> {TypeError}

\* A TINY is taken as the character with that code (49 is the digit 1);
\* getBool asks getChar.
CodeTruth(n) == n \in {49, 84, 89, 116, 121}
GetChar(c) ==
    CASE c.type = "TINY" -> {[is |-> "code", n |-> Word(c)]}
      [] c.type = "STRING" /\ c.content # Empty -> {c.content}
      [] OTHER -> {TypeError}
GetBool(c) ==
    {IF r = TypeError THEN r ELSE Bool(IF r.is = "code" THEN CodeTruth(r.n) ELSE Truth(r)) : r \in GetChar(c)}

GetString(c) ==
    CASE c.type \in IntTypes \ {"LONGLONG"} ->
           {Num(Cast(IF c.unsigned THEN "Unsigned" ELSE "Int", Word(c)))}
      [] c.type = "LONGLONG" -> {Num(Word(c))}
      [] c.type \in TextTypes \cup TimeTypes \cup {"FLOAT", "DOUBLE"} -> {c.content}
      [] OTHER -> {TypeError}
GetBlob(c) ==
    IF c.type \in {"STRING", "BLOB"} THEN {c.content} ELSE {TypeError}

GetTime(k, c) ==
    IF \/ k = "Date" /\ c.type \in {"DATE", "DATETIME"}
       \/ k = "Time" /\ c.type \in {"TIME", "DATETIME"}
       \/ k = "Datetime" /\ c.type \in TimeTypes
    THEN {c.content} ELSE {TypeError}

\* BoundValue hands each getter on, getLong to getInt.
BoundValue(k, c) ==
    IF IsNull(c) THEN {NullValue}
    ELSE CASE k \in IntKinds -> GetInteger(IF k = "Long" THEN "Int" ELSE k, c)
           [] k = "Bool" -> GetBool(c)
           [] k \in {"Float", "Double"} -> GetFloat(c)
           [] k = "Decimal" -> GetDecimal(c)
           [] k = "Char" -> GetChar(c)
           [] k = "String" -> GetString(c)
           [] k = "Blob" -> GetBlob(c)
           [] OTHER -> GetTime(k, c)

\* RowValue does not look at null: the text of a null value is empty, its
\* first character is no memory.  A failed extraction is not noticed.
RowValue(k, c) ==
    LET text == IF c.content = Null THEN Empty ELSE c.content
        number(x) == IF text = Empty THEN {Num(0)} ELSE x.stored
    IN IF k \in {"Bool", "Char"} /\ c.content = Null THEN {Crash}
       ELSE CASE k = "Bool" -> {Bool(Truth(text))}
              [] k \in IntKinds -> number(Extract(k, text))
              [] k \in {"Float", "Double"} -> number(ExtractFloat(text))
              [] k = "Decimal" -> ParseDecimal(text)
              [] k \in TimeKinds -> FromIso(k, text)
              [] OTHER -> {text}

Get(how, k) ==
    /\ cell.use \in {"out", "row"}
    /\ LET null == IF cell.use = "out" THEN IsNull(cell) ELSE cell.content = Null
           getter == IF cell.use = "out" THEN BoundValue(k, cell) ELSE RowValue(k, cell)
       IN \E r \in Outcomes(how, null, getter), d \in said :
            answer' = [how |-> how, kind |-> k, given |-> d, out |-> r]
    /\ UNCHANGED <<cell, said>>
-----------------------------------------------------------------------------
Init == cell = Fresh("fresh") /\ said = {Null} /\ answer = NoAnswer

Next ==
    \/ \E k \in Kinds \cup {"CString", "Null"}, d \in Data \cup {Null} : Set(k, d)
    \/ Clear
    \/ \E t \in Types \ {"NULL"}, u \in BOOLEAN : InitOutBuffer(t, u)
    \/ \E d \in Data : Fetch(d)
    \/ FetchNull
    \/ \E d \in Data \cup {Null} : FetchRow(d)
    \/ \E how \in {"get", "getX"}, k \in Kinds : Get(how, k)
=============================================================================
