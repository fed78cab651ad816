----------------------------- MODULE LiteValue -----------------------------
(***************************************************************************
 The values of the sqlite driver.  sqlite has four storage classes; the
 driver has to choose one for every kind of host variable, and columns are
 read with the conversions of sqlite, which never fail: null is 0 and a text
 that is no number is 0.

 The variables are those of MyBind.
 ***************************************************************************)
EXTENDS Conversions

CONSTANTS Data,
          Exact       \* up to here every integer has a double of its own (2^53)

VARIABLES cell, said, answer

\* A host variable that was never bound is null.
Init == /\ cell = [use |-> "in", kind |-> "none", class |-> "NULL", content |-> Null]
        /\ said = {Null}
        /\ answer = NoAnswer

Seen(c) == IF c.class = "NULL" THEN Null ELSE c.content
-----------------------------------------------------------------------------
(* Setting a host variable: reset() and one sqlite3_bind function. *)

Bind(k, class, d, given) ==
    /\ cell.use = "in"
    /\ cell' = [cell EXCEPT !.kind = k, !.class = class, !.content = d]
    /\ said' = {given}
    /\ answer' = NoAnswer

\* setInt and what is an int anyway
SetInt(k, n) ==
    /\ k \in {"Bool", "Short", "Int", "Int32", "UnsignedShort"}
    /\ IF k = "Bool" THEN n \in {0, 1} ELSE Fits(k, n)
    /\ Bind(k, "INTEGER", Num(n), Num(n))

SetInt64(k, n) ==
    /\ k \in {"Long", "Int64"} /\ Fits(k, n)
    /\ Bind(k, "INTEGER", Num(n), Num(n))

\* What a double makes of a number: beyond Exact it is a double near by, off
\* by one part in Exact at most.  A fraction stands for the halves, which have
\* a double, and for the decimals such as 0.1, which have none.
Approximation(n) == [is |-> "approximation", n |-> n]
AsDouble(d) ==
    LET off == (IF d.n < 0 THEN -d.n ELSE d.n) \div Exact
    IN IF d.is = "fraction" THEN {d, Approximation(d.n)}
       ELSE IF -Exact <= d.n /\ d.n <= Exact THEN {Num(d.n)}
       ELSE {Num(m) : m \in (d.n - off)..(d.n + off)}

\* Unsigned numbers that their signed type has no room for become a double.
SetUnsigned(k, n) ==
    /\ k \in {"Unsigned", "Unsigned32", "UnsignedLong"} /\ Fits(k, n)
    /\ IF Fits(IF k = "UnsignedLong" THEN "Long" ELSE "Int", n)
       THEN Bind(k, "INTEGER", Num(n), Num(n))
       ELSE \E x \in AsDouble(Num(n)) : Bind(k, "REAL", x, Num(n))

\* uint64_t is cast.
SetUnsigned64(n) ==
    /\ Fits("Unsigned64", n)
    /\ Bind("Unsigned64", "INTEGER", Num(Cast("Int64", n)), Num(n))

SetDecimal(d) ==
    /\ Numeric(d)
    /\ \E x \in AsDouble(d) : Bind("Decimal", "REAL", x, d)

\* A float and a double are doubles already.
SetDouble(k, d) ==
    /\ k \in {"Float", "Double"} /\ Numeric(d)
    /\ Bind(k, "REAL", d, d)

SetText(k, d) ==
    /\ \/ k \in {"Char", "String"} /\ d # Null
       \/ k = "Date" /\ d.is = "date"
       \/ k = "Time" /\ d.is = "time"
       \/ k = "Datetime" /\ d.is = "datetime"
    /\ Bind(k, "TEXT", d, d)

SetBlob(d) == d # Null /\ Bind("Blob", "BLOB", d, d)

SetNull == Bind("Null", "NULL", Null, Null)

Set(k, d) ==
    \/ /\ d.is = "number"
       /\ \/ SetInt(k, d.n) \/ SetInt64(k, d.n) \/ SetUnsigned(k, d.n)
          \/ k = "Unsigned64" /\ SetUnsigned64(d.n)
    \/ SetDouble(k, d) \/ SetText(k, d)
    \/ k = "Decimal" /\ SetDecimal(d)
    \/ k = "Blob" /\ SetBlob(d)
    \/ k = "Null" /\ d = Null /\ SetNull

\* clear binds null to every parameter.
Clear == SetNull
-----------------------------------------------------------------------------
(* Reading a column. *)

Class(d) == CASE d = Null -> "NULL" [] d.is = "number" -> "INTEGER"
              [] d.is = "fraction" -> "REAL" [] OTHER -> "TEXT"

\* A column of the row the statement is at; a number may be stored as text.
Column(d, class) ==
    /\ cell.kind = "none"
    /\ class \in {Class(d)} \cup (IF Numeric(d) THEN {"TEXT"} ELSE {})
    /\ d.is = "number" => Fits("Int64", d.n)
    /\ cell' = [cell EXCEPT !.use = "out", !.class = class, !.content = d]
    /\ said' = {d}
    /\ answer' = NoAnswer

\* sqlite3_column_int64: a text is read as far as it is a number, a fraction
\* is cut off.
ColumnInt64(d) ==
    CASE d.is \in {"number", "date", "time", "datetime"} -> d.n
      [] d.is = "fraction" -> IF d.n < 0 THEN d.n + 1 ELSE d.n
      [] OTHER -> 0
ColumnInt(d) == Cast("Int", ColumnInt64(d))
ColumnDouble(d) == AsDouble(IF Numeric(d) THEN d ELSE Num(ColumnInt64(d)))

\* The steps from sqlite's integers to the integers asked for.
GetInteger(k, d) ==
    CASE k \in {"Int", "Int32", "Short"} -> Cast(k, ColumnInt(d))
      [] k \in {"Long", "Int64"} -> ColumnInt64(d)
      [] k = "UnsignedShort" -> Cast(k, Cast("Unsigned", ColumnInt64(d)))
      [] k = "UnsignedLong" -> Cast("Unsigned", ColumnInt64(d))
      [] OTHER -> Cast(k, ColumnInt64(d))

\* getChar takes a value without bytes for null.
GetChar(d) == IF d \in {Null, Empty} THEN {NullValue} ELSE {d}
GetBool(d) == {IF r = NullValue THEN r ELSE Bool(Truth(r)) : r \in GetChar(d)}

GetString(d) == {IF d = Null THEN Empty ELSE d}

Getter(k, c) ==
    CASE k \in IntKinds -> {Num(GetInteger(k, c.content))}
      [] k \in {"Decimal", "Float", "Double"} -> ColumnDouble(c.content)
      [] k = "Bool" -> GetBool(c.content)
      [] k = "Char" -> GetChar(c.content)
      [] k \in TimeKinds -> UNION {FromIso(k, r) : r \in GetString(c.content)}
      [] OTHER -> GetString(c.content)

Get(how, k) ==
    /\ cell.use = "out"
    /\ \E r \in Outcomes(how, cell.class = "NULL", Getter(k, cell)), d \in said :
         answer' = [how |-> how, kind |-> k, given |-> d, out |-> r]
    /\ UNCHANGED <<cell, said>>
-----------------------------------------------------------------------------
Next ==
    \/ \E k \in Kinds \cup {"Null"}, d \in Data \cup {Null} : Set(k, d)
    \/ Clear
    \/ \E d \in Data \cup {Null}, class \in {"NULL", "INTEGER", "REAL", "TEXT"} :
         Column(d, class)
    \/ \E how \in {"get", "getX"}, k \in Kinds : Get(how, k)
=============================================================================
