---------------------------- MODULE Conversions ----------------------------
(***************************************************************************
 What the conversions of C++ between integer types, texts and decimals make
 of a value: the vocabulary of the modules about the values of a driver.

 A datum is what a column or a host variable means, whatever its
 representation is.  It is a record with a kind and a number: "number" n,
 "fraction" n (n and a half), "date", "time" and "datetime" (n is the number
 their text starts with), "word" (text that starts with neither a digit nor
 one of the letters of true), "yes" (a text that starts with one of those),
 "empty" and "null".  What a getter makes of it is a datum again, or the
 name of what it throws.
 ***************************************************************************)
EXTENDS Integers

CONSTANTS ByteValues,   \* how many values a byte has (256)
          Garbage       \* what the bytes of memory that nobody wrote may mean

ASSUME ByteAssumption == /\ ByteValues \in Nat
                         /\ ByteValues > 1
                         /\ ByteValues % 2 = 0
ASSUME GarbageAssumption == Garbage \subseteq Nat

Num(n) == [is |-> "number", n |-> n]
Frac(n) == [is |-> "fraction", n |-> n]
Text(kind) == [is |-> kind, n |-> 0]
Null == Text("null")
Empty == Text("empty")
Bool(b) == [is |-> "bool", n |-> IF b THEN 1 ELSE 0]
Numeric(d) == d.is \in {"number", "fraction"}

NullValue == Text("NullValue")
TypeError == Text("TypeError")
Overflow == Text("overflow_error")
ConversionError == Text("ConversionError")
Crash == Text("crash")     \* undefined behaviour: a null pointer is read
Refusals == {NullValue, TypeError, Overflow, ConversionError}
-----------------------------------------------------------------------------
(* The integer types. *)

SignedKinds == {"Short", "Int", "Long", "Int32", "Int64"}
UnsignedKinds == {"UnsignedShort", "Unsigned", "UnsignedLong", "Unsigned32", "Unsigned64"}
IntKinds == SignedKinds \cup UnsignedKinds
TimeKinds == {"Date", "Time", "Datetime"}
Kinds == IntKinds \cup TimeKinds
           \cup {"Bool", "Decimal", "Float", "Double", "Char", "String", "Blob"}

Width(k) == IF k \in {"Short", "UnsignedShort"} THEN 2
            ELSE IF k \in {"Int", "Int32", "Unsigned", "Unsigned32"} THEN 4 ELSE 8

\* The number of values of b bytes.
Power(b) == LET p[i \in 0..b] == IF i = 0 THEN 1 ELSE ByteValues * p[i - 1] IN p[b]

\* The number that b bytes mean, with or without a sign.
AsSigned(b, n) ==
    LET r == n % Power(b) IN IF 2 * r >= Power(b) THEN r - Power(b) ELSE r
AsUnsigned(b, n) == n % Power(b)

MinOf(k) == IF k \in SignedKinds THEN -(Power(Width(k)) \div 2) ELSE 0
MaxOf(k) == (Power(Width(k)) \div (IF k \in SignedKinds THEN 2 ELSE 1)) - 1
Fits(k, n) == MinOf(k) <= n /\ n <= MaxOf(k)

\* static_cast
Cast(k, n) ==
    IF k \in SignedKinds THEN AsSigned(Width(k), n) ELSE AsUnsigned(Width(k), n)

\* A variable of that type which is read before it was written.
Uninitialized(k) == {Num(Cast(k, n)) : n \in Garbage}
-----------------------------------------------------------------------------
(* Reading a text. *)

\* Extraction of an integer of type k from a stream (in >> ret): what is
\* stored, whether the stream failed and whether it came to its end.  A
\* number out of range stores the nearest limit and fails; a negative number
\* read as unsigned wraps; an empty text leaves the variable as it was.
Extract(k, d) ==
    LET wraps == k \in UnsignedKinds /\ d.n < 0 /\ -d.n <= MaxOf(k)
        stored == IF Fits(k, d.n) \/ wraps THEN Cast(k, d.n)
                  ELSE IF d.n < 0 /\ k \in SignedKinds THEN MinOf(k) ELSE MaxOf(k)
        fails == ~ (Fits(k, d.n) \/ wraps)
    IN CASE d.is = "number" -> [stored |-> {Num(stored)}, fail |-> fails, eof |-> TRUE]
         [] d.is \in {"fraction", "date", "time", "datetime"}
                -> [stored |-> {Num(stored)}, fail |-> fails, eof |-> FALSE]
         [] d.is = "empty" -> [stored |-> Uninitialized(k), fail |-> TRUE, eof |-> TRUE]
         [] OTHER -> [stored |-> {Num(0)}, fail |-> TRUE, eof |-> FALSE]

\* The same for a floating number, whose range is not modelled.
ExtractFloat(d) ==
    CASE Numeric(d) -> [stored |-> {d}, fail |-> FALSE, eof |-> TRUE]
      [] d.is \in {"date", "time", "datetime"}
             -> [stored |-> {Num(d.n)}, fail |-> FALSE, eof |-> FALSE]
      [] d.is = "empty" -> [stored |-> Uninitialized("Int"), fail |-> TRUE, eof |-> TRUE]
      [] OTHER -> [stored |-> {Num(0)}, fail |-> TRUE, eof |-> FALSE]

\* cxxtools::convert<T>(std::string) takes the whole text or throws.
Convert(k, d) ==
    IF d.is = "number" /\ Fits(k, d.n) THEN {d} ELSE {ConversionError}
ConvertFloat(d) == IF Numeric(d) THEN {d} ELSE {ConversionError}

\* Decimal(std::string): anything but a decimal number is an error.
ParseDecimal(d) == IF Numeric(d) THEN {d} ELSE {ConversionError}

\* Decimal::getInteger<T>() rounds half away from zero.  A signed type throws
\* what does not fit; the limit of an unsigned type is that of the widest one
\* and the rest is narrowed to T.
Rounded(d) == IF d.is = "fraction" /\ d.n >= 0 THEN d.n + 1 ELSE d.n
DecimalInteger(k, d) ==
    IF ~ Numeric(d) THEN {ConversionError}
    ELSE IF k \in SignedKinds
         THEN IF Fits(k, Rounded(d)) THEN {Num(Rounded(d))} ELSE {Overflow}
         ELSE IF d.n < 0 \/ Rounded(d) > MaxOf("UnsignedLong") THEN {Overflow}
              ELSE {Num(Cast(k, Rounded(d)))}

\* ch == 't' || ch == 'T' || ch == 'y' || ch == 'Y' || ch == '1' of the text.
StartsWithOne(n) == n \in {1} \cup (10..19) \cup (100..199)
Truth(d) == \/ d.is = "yes"
            \/ d.is \in {"number", "fraction", "date", "time", "datetime"}
                 /\ StartsWithOne(d.n)

\* Date::fromIso, Time::fromIso and Datetime::fromIso: a date may be followed
\* by more text, the other two have to be the whole text.
DateFromIso(d) == IF d.is \in {"date", "datetime"} THEN {d} ELSE {TypeError}
TimeFromIso(d) == IF d.is = "time" THEN {d} ELSE {TypeError}
DatetimeFromIso(d) == IF d.is = "datetime" THEN {d} ELSE {TypeError}
FromIso(k, d) == IF k = "Date" THEN DateFromIso(d)
                 ELSE IF k = "Time" THEN TimeFromIso(d) ELSE DatetimeFromIso(d)
-----------------------------------------------------------------------------
(* Asking for a value. *)

NoAnswer == [how |-> "none", kind |-> "none", given |-> Null, out |-> Null]

\* get(x) asks for null before it calls the getter and then leaves x alone,
\* getX() is the getter itself.
Outcomes(how, null, getter) == IF how = "get" /\ null THEN {Null} ELSE getter
=============================================================================
