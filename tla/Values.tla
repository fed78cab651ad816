------------------------------- MODULE Values -------------------------------
(***************************************************************************
 The way of a value through a driver: a host variable is set (again and
 again) and the server reads it, or the server delivers a column (row after
 row) and a getter converts it.  The drivers are alternatives: a behaviour is
 one of a single host variable or column of one driver.
 ***************************************************************************)
EXTENDS Conversions

CONSTANTS Data,       \* the data that are set and delivered
          HostData,   \* the data that host variables of oracle are set to
          FacadeData, \* the data that are set by way of the facade
          Exact       \* sqlite: up to here every integer has a double (2^53)

VARIABLES driver,     \* the driver
          cell,       \* the host variable or column
          said,       \* what the last call promises of it (see MyBind)
          answer      \* the last call of a getter

\* What is set and delivered are data; what the facade is given may be null.
Datum == [is : {"number", "fraction", "date", "time", "datetime", "word", "yes", "empty"}, n : Int]
ASSUME DataAssumption == Data \subseteq Datum /\ FacadeData \subseteq Datum \cup {Null}

\* A double has room for an unsigned of 32 bits.
ASSUME ExactAssumption == Exact \in Nat /\ Power(4) <= Exact

valueVars == <<driver, cell, said, answer>>

My == INSTANCE MyBind
Ora == INSTANCE OraValue
Pg == INSTANCE PgValue
Lite == INSTANCE LiteValue

Drivers == {"mysql", "oracle", "postgresql", "sqlite", "none"}

-----------------------------------------------------------------------------
(* The facade: how the setters of a driver are called, by Statement::set with a
   value of any type, by setIf, and by the members of an object that is taken
   apart.  A call is the name of the setter and what it is given. *)

CallOf(k, d) == [setter |-> k, given |-> d]
SetNull == CallOf("Null", Null)

\* operator<< (Hostvar&, x) by the type of x; shorter integers are promoted.
SetterOf(type) ==
    CASE type \in {"short", "unsigned short", "int"} -> "Int"
      [] type = "bool" -> "Bool"
      [] type = "long" -> "Long"
      [] type = "unsigned" -> "Unsigned"
      [] type = "unsigned long" -> "UnsignedLong"
      [] type = "float" -> "Float"
      [] type = "double" -> "Double"
      [] type = "char" -> "Char"
      [] type \in {"char*", "string", "String"} -> "String"
      [] OTHER -> type      \* Decimal, Blob, Date, Time, Datetime

Types == {"bool", "short", "unsigned short", "int", "long", "unsigned", "unsigned long", "float",
          "double", "char", "char*", "string", "String", "Decimal", "Blob", "Date", "Time", "Datetime"}

\* A null pointer and a moment that is null are null.
Nullable == {"char*", "Date", "Time", "Datetime"}
SetAny(type, d) ==
    IF d = Null /\ type \in Nullable THEN SetNull ELSE CallOf(SetterOf(type), d)

\* The data which a variable of the type can hold.
Holds(type, d) ==
    CASE type = "short" -> d.is = "number" /\ Fits("Short", d.n)
      [] type = "unsigned short" -> d.is = "number" /\ Fits("UnsignedShort", d.n)
      [] OTHER -> d # Null \/ type \in Nullable

\* std::optional has no value for null; setIf is told whether to look at it.
SetOptional(type, d) == IF d = Null THEN SetNull ELSE SetAny(type, d)
SetIf(type, notNull, d) == IF notNull THEN SetAny(type, d) ELSE SetNull

\* A member of an object: integers of any width come as the widest ones.
TypeOfMember ==
    [String8 |-> "string", Char |-> "char", Bool |-> "bool", Int |-> "long",
     UInt |-> "unsigned long", Float |-> "double", String |-> "String"]
SetMember(member, d) ==
    IF d = Null THEN SetNull ELSE SetAny(TypeOfMember[member], d)

\* All calls with a datum.
CallsWith(d) ==
    {SetAny(type, d) : type \in {t \in Types : Holds(t, d)}}
      \cup {SetOptional(type, d) : type \in {t \in Types : d = Null \/ Holds(t, d)}}
      \cup {SetIf(type, notNull, d) : type \in {t \in Types : Holds(t, d)}, notNull \in BOOLEAN}
      \cup {SetMember(member, d) : member \in DOMAIN TypeOfMember}
-----------------------------------------------------------------------------
(* ValueImpl: a value that is a text or null, of the library itself. *)

PlainInit ==
    /\ cell = [use |-> "out", kind |-> "none", null |-> TRUE, data |-> Empty]
    /\ said = {Null}
    /\ answer = NoAnswer

Construct(d) ==
    /\ cell' = [cell EXCEPT !.null = FALSE, !.data = d]
    /\ said' = {d}
    /\ answer' = NoAnswer

\* The conversions of numbers report with TypeError.
GetValue(outcomes) == {IF r = ConversionError THEN TypeError ELSE r : r \in outcomes}

\* The first character of an empty text is out of range.
GetChar(d) == IF d = Empty THEN {Text("out_of_range")} ELSE {d}

Getter(k, c) ==
    IF c.null THEN {NullValue}
    ELSE CASE k = "Bool" -> {Bool(Truth(c.data))}
           [] k \in IntKinds -> GetValue(Convert(k, c.data))
           [] k \in {"Float", "Double"} -> GetValue(ConvertFloat(c.data))
           [] k = "Decimal" -> ParseDecimal(c.data)
           [] k = "Char" -> GetChar(c.data)
           [] k \in TimeKinds -> FromIso(k, c.data)
           [] OTHER -> {c.data}

Get(how, k) ==
    /\ \E r \in Outcomes(how, cell.null, Getter(k, cell)), d \in said :
         answer' = [how |-> how, kind |-> k, given |-> d, out |-> r]
    /\ UNCHANGED <<cell, said>>

PlainNext ==
    \/ \E d \in Data : Construct(d)
    \/ \E how \in {"get", "getX"}, k \in Kinds : Get(how, k)
-----------------------------------------------------------------------------
ValueInit ==
    \/ driver = "mysql" /\ My!Init
    \/ driver = "oracle" /\ Ora!Init
    \/ driver = "postgresql" /\ Pg!Init
    \/ driver = "sqlite" /\ Lite!Init
    \/ driver = "none" /\ PlainInit

\* A setter that is called by the facade.
SetVia(call) ==
    \/ driver = "mysql" /\ My!Set(call.setter, call.given)
    \/ driver = "oracle" /\ Ora!Set(call.setter, call.given)
    \/ driver = "postgresql" /\ Pg!Set(call.setter, call.given)
    \/ driver = "sqlite" /\ Lite!Set(call.setter, call.given)

ValueNext ==
    /\ \/ \E d \in FacadeData : \E call \in CallsWith(d) : SetVia(call)
       \/ driver = "mysql" /\ My!Next
       \/ driver = "oracle" /\ Ora!Next
       \/ driver = "postgresql" /\ Pg!Next
       \/ driver = "sqlite" /\ Lite!Next
       \/ driver = "none" /\ PlainNext
    /\ UNCHANGED driver

ValueSpec == ValueInit /\ [][ValueNext]_valueVars
-----------------------------------------------------------------------------
Seen == CASE driver = "mysql" -> My!Seen(cell)
          [] driver = "oracle" -> Ora!Seen(cell)
          [] driver = "postgresql" -> Pg!Seen(cell)
          [] OTHER -> Lite!Seen(cell)

\* What the server sees of a host variable that was set by setter k to given,
\* with the exceptions in which the code does not do what it promises.
\*   mysql: clear leaves a variable that was set with its value, although
\*   "Set all host variables to NULL" is what it is for; of a short two bytes
\*   are stored and four announced; a long is passed as an int.
\*   oracle: after clear a value may be sent as null as long as it has the type
\*   and length of the one before clear, because nothing is bound again.
\*   sqlite: an unsigned 64 bit number is cast to a signed one; an unsigned long
\*   that is no long, and any decimal, become a double, which may be near it only.
Kept(k, given, seen) ==
    CASE driver = "mysql" /\ k # "Null" /\ given = Null -> seen # Null
      [] driver = "mysql" /\ k \in {"Short", "UnsignedShort"} /\ Numeric(given)
           -> seen.is = "number" /\ Cast(k, seen.n) = given.n
      [] driver = "mysql" /\ k = "Long" /\ Numeric(given) -> seen = Num(Cast("Int", given.n))
      [] driver = "mysql" /\ k = "UnsignedLong" /\ Numeric(given)
           -> seen = Num(Cast("Unsigned", given.n))
      [] driver = "sqlite" /\ k = "Unsigned64" /\ Numeric(given)
           -> seen = Num(Cast("Int64", given.n))
      [] driver = "sqlite" /\ k = "UnsignedLong" /\ ~ Fits("Long", given.n)
           -> seen \in Lite!AsDouble(given)
      [] driver = "sqlite" /\ k = "Decimal" -> seen \in Lite!AsDouble(given)
      [] driver = "oracle" /\ k = "cleared" -> seen \in {given, Null}
      [] OTHER -> seen = given

\* The server reads of a host variable what the last setter was given, or null
\* after clear, whatever was set before: another type, another length, null,
\* or a setter that threw (Statement::setXXX and clear of the drivers, the
\* reused buffers of MYSQL_BIND and the bindings which the oracle driver
\* remembers); except as Kept says.  A setter that throws promises nothing.
SentAsSet ==
    cell.use = "in" => \A d \in said : Kept(cell.kind, d, Seen)

\* A getter of an integer type gives a number which its type has room for, or
\* it throws (Value::getShort .. getUnsigned64).  The exceptions: mysql reads a
\* long as an int, sqlite an unsigned long as unsigned; an unsigned integer
\* column of a single oracle row is read from the wrong member.
RoomFor(k, n) == /\ Fits(k, n)
                 /\ k = "Long" => Fits("Int", n)
                 /\ k = "UnsignedLong" => Fits("Unsigned", n)
NumbersKept ==
    (/\ answer.kind \in IntKinds
     /\ answer.given.is = "number"
     /\ RoomFor(answer.kind, answer.given.n)
     /\ ~ (driver = "oracle" /\ cell.use = "single" /\ cell.type = "UIN")
     /\ ~ (driver = "oracle" /\ cell.type = "BLOB"))
    => answer.out \in {answer.given} \cup Refusals

\* get(x) tells a null from a value: it leaves x alone exactly when the column
\* is null, also when the memory of the column still holds the value of an
\* earlier row (Value::get, operator>>).
NullIsReported ==
    answer.how = "get" => (answer.given = Null) = (answer.out = Null)
=============================================================================
