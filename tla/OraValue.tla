------------------------------ MODULE OraValue ------------------------------
(***************************************************************************
 The values of the oracle driver.

 A host variable (Statement::Bind) owns three places for a value: the bytes
 of a vector, an OCI number and an OCI timestamp.  OCI reads the place that
 was bound last, at the address, with the type and the length given then, and
 the driver binds again only when it thinks that one of these has changed
 (boundPtr, boundType, boundLength).  The vector moves when it grows.

 A column is defined either for one row (Value) or for as many rows as are
 fetched at once (MultiValue); both have their own getters.

 The variables are those of MyBind.
 ***************************************************************************)
EXTENDS Conversions

CONSTANTS Data,       \* the data that are delivered
          HostData    \* the data that host variables are set to

VARIABLES cell, said, answer

ColumnTypes == {"TIMESTAMP", "INT", "UIN", "FLT", "NUM", "BLOB", "BIN", "CHR"}

\* data: what the vector holds, size: its bytes, address: where it is (it
\* moves when it outgrows its capacity, which it never gives back).
\* bound..: what the driver remembers; at, where, as, len, ind: what OCI was
\* told.  threw: the last setter failed to bind.  kind: none, set or cleared;
\* lastType, lastLength: what the last setter that returned has bound for
\* (none after one that threw).
NewBind ==
    [use |-> "in", kind |-> "none", data |-> Null, size |-> 0, address |-> 0,
     number |-> Null, datetime |-> Null, indicator |-> 0,
     boundPtr |-> 0, boundType |-> "none", boundLength |-> 0,
     at |-> "nothing", where |-> 0, as |-> "none", len |-> 0, ind |-> FALSE,
     threw |-> FALSE, lastType |-> "none", lastLength |-> 0]

\* setData of so many bytes.
SetData(b, d, size) ==
    [b EXCEPT !.data = d, !.size = size,
              !.address = IF size > @ THEN size ELSE @]

\* Before it calls OCIBindByName the driver forgets what it has bound, because
\* the call may throw.
Forgotten(b) ==
    [b EXCEPT !.boundPtr = 0, !.boundType = "none", !.boundLength = 0, !.threw = TRUE]
BoundBy(b, at, type, len, ind) ==
    {Forgotten(b),
     [b EXCEPT !.at = at, !.where = b.address, !.as = type, !.len = len, !.ind = ind,
               !.boundPtr = b.address, !.boundType = type, !.boundLength = len,
               !.threw = FALSE]}

\* Mutant: a value of another length at the same address is not bound again.
BoundData_AnyLength(b, type, len) ==
    IF b.boundPtr # b.address \/ b.boundType # type
    THEN BoundBy(b, "data", type, len, FALSE)
    ELSE {[b EXCEPT !.threw = FALSE]}

\* The bytes of the vector are bound again when address, type or length differ.
BoundData(b, type, len) ==
    IF b.boundPtr # b.address \/ b.boundType # type \/ b.boundLength # len
    THEN BoundBy(b, "data", type, len, FALSE)
    ELSE {[b EXCEPT !.threw = FALSE]}

\* The other places do not move: the length is not looked at.
BoundMember(b, at, type) ==
    IF b.boundPtr # b.address \/ b.boundType # type
    THEN BoundBy(b, at, type, 0, FALSE)
    ELSE {[b EXCEPT !.threw = FALSE]}

\* What OCI reads when the statement is executed.  The bytes of a vector that
\* has moved are gone, and so is the rest of a longer value.
Seen(b) ==
    IF b.at = "nothing" \/ (b.ind /\ b.indicator = -1) THEN Null
    ELSE CASE b.at = "number" -> b.number
           [] b.at = "datetime" -> b.datetime
           [] b.at = "data" /\ b.where = b.address /\ b.len = b.size -> b.data
           [] OTHER -> Text("garbage")
-----------------------------------------------------------------------------
(* Setting a host variable. *)

NativeWidth(k) == IF k = "Bool" THEN 1 ELSE Width(k)

\* The bytes of a text; a char is a text of one byte.
TextSize(k, d) == IF d = Empty THEN 0 ELSE IF k = "Char" \/ d.is = "yes" THEN 1 ELSE 3

\* A setter that returns promises its datum, one that throws nothing.  A
\* variable that was cleared counts as cleared as long as it is set with the
\* type and the length it had before.
Sets(binds, type, len, d) ==
    /\ cell.use = "in"
    /\ \E b \in binds :
         LET same == cell.lastType = type /\ cell.lastLength = len
             kind == IF cell.kind = "cleared" /\ same THEN "cleared" ELSE "set"
         IN \/ /\ b.threw
               /\ cell' = [b EXCEPT !.kind = "set", !.lastType = "none", !.lastLength = 0]
               /\ said' = {}
            \/ /\ ~ b.threw
               /\ cell' = [b EXCEPT !.kind = kind, !.lastType = type, !.lastLength = len]
               /\ said' = {d}
    /\ answer' = NoAnswer
SetsData(type, size, d) == Sets(BoundData(SetData(cell, d, size), type, size), type, size, d)

Fitting(k, d) == d.is = "number" /\ Fits(k, d.n)

\* setBool, setShort, setInt and setInt32, which is setInt
SetNative(k, d) ==
    /\ IF k = "Bool" THEN d \in {Num(0), Num(1)}
                     ELSE k \in {"Short", "Int", "Int32"} /\ Fitting(k, d)
    /\ SetsData("INT", NativeWidth(k), d)

SetUnsignedNative(k, d) ==
    /\ k \in {"UnsignedShort", "Unsigned", "Unsigned32"} /\ Fitting(k, d)
    /\ SetsData("UIN", Width(k), d)

SetNumber(d) == Sets(BoundMember([cell EXCEPT !.number = d], "number", "VNU"), "VNU", 0, d)
SetLong(d) == Fitting("Long", d) /\ SetNumber(d)
SetUnsignedLong(d) == Fitting("UnsignedLong", d) /\ SetNumber(d)
SetWide(k, d) ==
    k \in {"Int64", "Unsigned64"} /\ Fitting(k, d) /\ SetNumber(d)
SetDecimal(d) == Numeric(d) /\ SetNumber(d)

SetFloat(k, d) ==
    /\ k \in {"Float", "Double"} /\ Numeric(d)
    /\ SetsData("FLT", IF k = "Float" THEN 4 ELSE 8, d)

SetText(k, d) ==
    /\ k \in {"Char", "String"} /\ d # Null
    /\ k = "Char" => d # Empty
    /\ SetsData("AFC", TextSize(k, d), d)

SetBlob(d) ==
    /\ d # Null
    /\ SetsData("BIN", TextSize("Blob", d), d)

SetTimestamp(k, d) ==
    /\ \/ k = "Date" /\ d.is = "date"
       \/ k = "Time" /\ d.is = "time"
       \/ k = "Datetime" /\ d.is = "datetime"
    /\ Sets(BoundMember([cell EXCEPT !.datetime = d], "datetime", "TIMESTAMP"), "TIMESTAMP", 0, d)

SetNull ==
    LET b == [cell EXCEPT !.indicator = -1]
    IN Sets(IF b.boundPtr # b.address \/ b.boundType # "CHR" \/ b.boundLength # 0
            THEN BoundBy(b, "data", "CHR", 0, TRUE) ELSE {[b EXCEPT !.threw = FALSE]},
            "CHR", 0, Null)

Set(k, d) ==
    \/ SetNative(k, d) \/ SetUnsignedNative(k, d) \/ SetWide(k, d) \/ SetFloat(k, d)
    \/ SetText(k, d) \/ SetTimestamp(k, d)
    \/ k = "Long" /\ SetLong(d)
    \/ k = "UnsignedLong" /\ SetUnsignedLong(d)
    \/ k = "Decimal" /\ SetDecimal(d)
    \/ k = "Blob" /\ SetBlob(d)
    \/ k = "Null" /\ d = Null /\ SetNull

\* clear binds the indicator and does not tell bound..: a setter that finds its
\* address, type and length there does not bind again.  Whether OCI takes the
\* missing name for the handle at hand or for an error is up to OCI.
Clear ==
    /\ cell.use = "in" /\ cell.kind # "none"
    /\ \/ /\ cell' = [cell EXCEPT !.kind = "cleared", !.indicator = -1, !.at = "data",
                                  !.where = cell.address, !.as = "INT", !.len = 0,
                                  !.ind = TRUE, !.threw = FALSE]
          /\ said' = {Null}
       \/ /\ cell' = [cell EXCEPT !.indicator = -1, !.threw = TRUE]
          /\ said' = {}
    /\ answer' = NoAnswer
-----------------------------------------------------------------------------
(* Delivering a column.  The long of a Value is not what a UIN is stored in. *)

Define(use, type) ==
    /\ cell = NewBind
    /\ cell' = [use |-> use, kind |-> "none", type |-> type, content |-> Null, null |-> TRUE]
    /\ UNCHANGED <<said, answer>>
DefineSingle(type) == Define("single", type)
DefineMulti(type) == Define("multi", type)

Delivers(type, d) ==
    CASE type = "TIMESTAMP" -> d.is \in {"date", "time", "datetime"}
      [] type = "INT" -> d.is = "number" /\ Fits("Long", d.n)
      [] type = "UIN" -> d.is = "number" /\ Fits("Unsigned", d.n)
      [] type \in {"FLT", "NUM"} -> Numeric(d)
      [] OTHER -> d \notin {Null, Empty}      \* an empty text is null

Fetch(d) ==
    /\ cell.use \in {"single", "multi"}
    /\ d = Null \/ Delivers(cell.type, d)
    /\ cell' = [cell EXCEPT !.content = IF d = Null THEN @ ELSE d, !.null = (d = Null)]
    /\ said' = {d}
    /\ answer' = NoAnswer

LongValue(c) ==
    IF c.use = "single" /\ c.type = "UIN" THEN Uninitialized("Long") ELSE {c.content}

\* round<IntType>(double).  At a limit plus one half the cast is undefined.
Round(k, d) ==
    LET r == Rounded(d)
        half == d.is = "fraction"
    IN IF \/ d.n > MaxOf(k)
          \/ d.n < MinOf(k) - (IF half THEN 1 ELSE 0)
       THEN {Overflow}
       ELSE IF Fits(k, r) THEN {Num(r)} ELSE Uninitialized(k)

\* round<float>: half is added, and what is below zero overflows.
RoundFloat(d) ==
    IF d.n < 0 THEN (IF d = Frac(-1) THEN {Num(-1)} ELSE {Overflow})
    ELSE {IF d.is = "fraction" THEN Num(d.n + 1) ELSE Frac(d.n)}

\* The text of a column: a stream that fails is a TypeError.
Read(k, d) == LET x == Extract(k, d) IN IF x.fail THEN {TypeError} ELSE x.stored

\* OCINumberToInt: what happens to a fraction is up to OCI.
NumberToInt(k, d) ==
    {IF Fits(k, n) THEN Num(n) ELSE Overflow
       : n \in IF d.is = "fraction" THEN {d.n, d.n + 1} ELSE {d.n}}

\* What a getter makes of the classes of columns.  A BLOB has no text: the
\* memory of its locator is read.
ByType(c, integer, float, number, text) ==
    CASE c.type = "TIMESTAMP" -> {TypeError}
      [] c.type \in {"INT", "UIN"} -> integer
      [] c.type = "FLT" -> float
      [] c.type = "NUM" -> number
      [] c.type = "BLOB" -> {Crash}
      [] OTHER -> text

Narrowed(k, c) == {Num(Cast(k, d.n)) : d \in LongValue(c)}

\* Value makes a Decimal of an OCI number, and reads the text of an unsigned
\* short as unsigned before it narrows it.
SingleSigned(k, c) ==
    ByType(c, Narrowed(k, c), Round(k, c.content),
           DecimalInteger(k, c.content), Read(k, c.content))
SingleUnsigned(k, c) ==
    ByType(c, Narrowed(k, c), Round(k, c.content), DecimalInteger(k, c.content),
           IF k # "UnsignedShort" THEN Read(k, c.content)
           ELSE {IF r = TypeError THEN r ELSE Num(Cast(k, r.n))
                   : r \in Read("Unsigned", c.content)})
SingleWide(k, c) == SingleSigned(k, c)

\* MultiValue lets OCI convert an OCI number.
MultiInteger(k, c) ==
    ByType(c, Narrowed(k, c), Round(k, c.content),
           NumberToInt(k, c.content), Read(k, c.content))
MultiSigned(k, c) == MultiInteger(k, c)
MultiUnsigned(k, c) == MultiInteger(k, c)
MultiWide(k, c) == MultiInteger(k, c)

IsTrue(d) == Bool(d # Num(0))
SingleBool(c) ==
    ByType(c, {IsTrue(c.content)}, {IsTrue(c.content)}, {IsTrue(c.content)},
           {Bool(Truth(c.content))})
MultiBool(c) ==
    ByType(c, {IsTrue(c.content)}, {IsTrue(c.content)},
           {IF r = Overflow THEN r ELSE IsTrue(r) : r \in NumberToInt("Int", c.content)},
           {Bool(Truth(c.content))})

ReadFloat(d) == LET x == ExtractFloat(d) IN IF x.fail THEN {TypeError} ELSE x.stored
Real(k, c) ==
    ByType(c, LongValue(c),
           IF k = "Float" THEN RoundFloat(c.content) ELSE {c.content},
           {c.content},
           IF k = "Decimal" THEN ParseDecimal(c.content) ELSE ReadFloat(c.content))
SingleReal(k, c) == Real(k, c)
MultiReal(k, c) == Real(k, c)

\* A blob that is read from a text lacks the last byte.
Characters(k, c) ==
    CASE k = "Char" -> ByType(c, {TypeError}, {TypeError}, {TypeError}, {c.content})
      [] k = "String" ->
           IF c.type = "TIMESTAMP" THEN {c.content}
           ELSE ByType(c, LongValue(c), {c.content}, {c.content}, {c.content})
      [] OTHER -> IF c.type = "BLOB" THEN {c.content}
                  ELSE ByType(c, {TypeError}, {TypeError}, {TypeError}, {Text("shortened")})
SingleText(k, c) == Characters(k, c)
MultiText(k, c) == Characters(k, c)

Moment(c) == IF c.type = "TIMESTAMP" THEN {c.content} ELSE {TypeError}
SingleTime(c) == Moment(c)
MultiTime(c) == Moment(c)

Single(k, c) ==
    CASE k \in {"Short", "Int", "Long", "Int32"} -> SingleSigned(k, c)
      [] k \in UnsignedKinds \ {"Unsigned64"} -> SingleUnsigned(k, c)
      [] k \in {"Int64", "Unsigned64"} -> SingleWide(k, c)
      [] k = "Bool" -> SingleBool(c)
      [] k \in {"Float", "Double", "Decimal"} -> SingleReal(k, c)
      [] k \in TimeKinds -> SingleTime(c)
      [] OTHER -> SingleText(k, c)

\* SingleValue hands each getter on to its column and row.
SingleValue(k, c) ==
    CASE k \in {"Short", "Int", "Long", "Int32"} -> MultiSigned(k, c)
      [] k \in UnsignedKinds \ {"Unsigned64"} -> MultiUnsigned(k, c)
      [] k \in {"Int64", "Unsigned64"} -> MultiWide(k, c)
      [] k = "Bool" -> MultiBool(c)
      [] k \in {"Float", "Double", "Decimal"} -> MultiReal(k, c)
      [] k \in TimeKinds -> MultiTime(c)
      [] OTHER -> MultiText(k, c)

\* An empty text is null and still has a text.
Getter(k, c) ==
    IF c.null THEN IF k = "String" /\ c.type = "CHR" THEN {Empty} ELSE {NullValue}
    ELSE IF c.use = "single" THEN Single(k, c) ELSE SingleValue(k, c)

Get(how, k) ==
    /\ cell.use \in {"single", "multi"}
    /\ \E r \in Outcomes(how, cell.null, Getter(k, cell)), d \in said :
         answer' = [how |-> how, kind |-> k, given |-> d, out |-> r]
    /\ UNCHANGED <<cell, said>>
-----------------------------------------------------------------------------
Init == cell = NewBind /\ said = {Null} /\ answer = NoAnswer

Next ==
    \/ \E k \in Kinds \cup {"Null"}, d \in HostData \cup {Null} : Set(k, d)
    \/ Clear
    \/ \E type \in ColumnTypes : DefineSingle(type) \/ DefineMulti(type)
    \/ \E d \in Data \cup {Null} : Fetch(d)
    \/ \E how \in {"get", "getX"}, k \in Kinds : Get(how, k)
=============================================================================
