------------------------------ MODULE PgValue ------------------------------
(***************************************************************************
 The values of the postgresql driver: every value is a text.  A host variable
 keeps its text and a null flag; the format flag tells the server whether the
 text is binary.  Columns are read from the text of the result, with null as
 an empty text.

 The variables are those of MyBind.
 ***************************************************************************)
EXTENDS Conversions

CONSTANTS Data

VARIABLES cell, said, answer

\* A value that was never set is an empty text.
Init == /\ cell = [use |-> "in", kind |-> "none", null |-> FALSE, value |-> Empty,
                   binary |-> FALSE]
        /\ said = {Empty}
        /\ answer = NoAnswer

Seen(c) == IF c.null THEN Null ELSE c.value
-----------------------------------------------------------------------------
SetValue(k, d, binary) ==
    /\ cell.use = "in"
    /\ cell' = [cell EXCEPT !.kind = k, !.null = FALSE, !.value = d, !.binary = binary]
    /\ said' = {d}
    /\ answer' = NoAnswer

SetNumber(k, d) ==
    /\ \/ k \in IntKinds /\ d.is = "number" /\ Fits(k, d.n)
       \/ k \in {"Decimal", "Float", "Double"} /\ Numeric(d)
       \/ k = "Bool" /\ d.is = "number" /\ d.n \in {0, 1}
    /\ SetValue(k, d, FALSE)

SetStringValue(k, d) ==
    /\ k \in {"Char", "String", "Blob"} /\ d # Null
    /\ SetValue(k, d, k = "Blob")

SetIsoValue(k, d) ==
    /\ \/ k = "Date" /\ d.is = "date"
       \/ k = "Time" /\ d.is = "time"
       \/ k = "Datetime" /\ d.is = "datetime"
    /\ SetValue(k, d, FALSE)

SetNull ==
    /\ cell.use = "in"
    /\ cell' = [cell EXCEPT !.kind = "Null", !.null = TRUE, !.binary = FALSE]
    /\ said' = {Null}
    /\ answer' = NoAnswer

Set(k, d) ==
    \/ SetNumber(k, d) \/ SetStringValue(k, d) \/ SetIsoValue(k, d)
    \/ k = "Null" /\ d = Null /\ SetNull

\* clear leaves the formats alone.
Clear ==
    /\ cell.use = "in"
    /\ cell' = [cell EXCEPT !.kind = "Null", !.null = TRUE]
    /\ said' = {Null}
    /\ answer' = NoAnswer
-----------------------------------------------------------------------------
\* A column of the result of a select.
Fetch(d) ==
    /\ cell.kind = "none"
    /\ cell' = [cell EXCEPT !.use = "out", !.null = (d = Null),
                            !.value = IF d = Null THEN Empty ELSE d]
    /\ said' = {d}
    /\ answer' = NoAnswer

\* Date: the text is split at the first separator it has; the rest is ignored.
GetDate(c) == IF c.value.is \in {"date", "datetime"} THEN {c.value} ELSE {TypeError}

\* Time: three numbers, whatever is between them.
GetTime(c) ==
    CASE c.value.is = "time" -> {c.value}
      [] c.value.is \in {"date", "datetime"} -> {Text("misread")}
      [] OTHER -> {TypeError}

GetDatetime(c) == IF c.value.is = "datetime" THEN {c.value} ELSE {TypeError}

\* The getters that ask for the string first notice null.
Getter(k, c) ==
    CASE k = "Bool" -> {Bool(Truth(c.value))}
      [] k \in {"Char", "Blob"} -> {c.value}
      [] k = "Date" -> GetDate(c)
      [] k = "Time" -> GetTime(c)
      [] k = "Datetime" -> GetDatetime(c)
      [] OTHER -> IF c.null THEN {NullValue}
                  ELSE CASE k \in IntKinds -> Convert(k, c.value)
                         [] k \in {"Float", "Double"} -> ConvertFloat(c.value)
                         [] k = "Decimal" -> ParseDecimal(c.value)
                         [] OTHER -> {c.value}

Get(how, k) ==
    /\ cell.use = "out"
    /\ \E r \in Outcomes(how, cell.null, Getter(k, cell)), d \in said :
         answer' = [how |-> how, kind |-> k, given |-> d, out |-> r]
    /\ UNCHANGED <<cell, said>>
-----------------------------------------------------------------------------
Next ==
    \/ \E k \in Kinds \cup {"Null"}, d \in Data \cup {Null} : Set(k, d)
    \/ Clear
    \/ \E d \in Data \cup {Null} : Fetch(d)
    \/ \E how \in {"get", "getX"}, k \in Kinds : Get(how, k)
=============================================================================
