------------------------------ MODULE HostVars ------------------------------
(***************************************************************************
 Host variables in the text of a statement: the parser (StmtParser), what the
 drivers make of the variables it finds, and the placeholders of SqlBuilder,
 which uses the same parser with another prefix.

 A text is a sequence of characters, of which two have a name: "blank" and
 "backtick".  The parser gives a sequence of items,
 which are characters and variables: an event is what a driver makes of one.
 ***************************************************************************)
EXTENDS Integers, Sequences, FiniteSets, SequencesExt, TLC

CONSTANTS Letters,     \* the characters a name may begin with
          NameChars    \* the characters it may go on with: also digits and "_"

Quotes == {"'", "\"", "backtick"}
Char(ch) == <<"char", ch>>
Var(name) == <<"var", name>>
IsVar(item) == item[1] = "var"
CharsOf(text) == [i \in DOMAIN text |-> Char(text[i])]
-----------------------------------------------------------------------------
Start == [state |-> "0", name |-> << >>, quote |-> "none", sql |-> << >>]

To(p, state) == [p EXCEPT !.state = state]
Put(p, items) == [p EXCEPT !.sql = @ \o items]

State0(p, ch, prefix) ==
    CASE ch = prefix -> To(p, "name0")
      [] ch = "\\" -> To(p, "esc")
      [] ch \in Quotes -> [Put(p, <<Char(ch)>>) EXCEPT !.state = "string", !.quote = ch]
      [] OTHER -> Put(p, <<Char(ch)>>)

\* Another character is swallowed, and a name may still begin.
StateName0(p, ch, prefix) ==
    CASE ch \in Letters -> [p EXCEPT !.name = <<ch>>, !.state = "name"]
      [] ch = prefix -> To(Put(p, <<Char(prefix), Char(prefix)>>), "0")
      [] ch = "\\" -> To(Put(p, <<Char(prefix)>>), "esc")
      [] OTHER -> p

\* The character behind a name is taken as it is, also when it is a quote.
StateName(p, ch, prefix) ==
    IF ch \in NameChars THEN [p EXCEPT !.name = Append(@, ch)]
    ELSE LET q == Put(p, <<Var(p.name)>>)
         IN CASE ch = "\\" -> To(q, "esc")
              [] ch = prefix -> To(q, "name0")
              [] OTHER -> To(Put(q, <<Char(ch)>>), "0")

StateString(p, ch) ==
    To(Put(p, <<Char(ch)>>),
       IF ch = p.quote THEN "0"
       ELSE IF ch = "\\" /\ p.state = "string" THEN "stringEsc" ELSE "string")

StateEsc(p, ch) == To(Put(p, <<Char(ch)>>), "0")

ParseChar(p, ch, prefix) ==
    CASE p.state = "0" -> State0(p, ch, prefix)
      [] p.state = "name0" -> StateName0(p, ch, prefix)
      [] p.state = "name" -> StateName(p, ch, prefix)
      [] p.state = "esc" -> StateEsc(p, ch)
      [] OTHER -> StateString(p, ch)

AtEnd(p, prefix) ==
    CASE p.state = "name0" -> Put(p, <<Char(prefix)>>)
      [] p.state = "name" -> Put(p, <<Var(p.name)>>)
      [] OTHER -> p

ParseText(text, prefix) ==
    AtEnd(FoldLeft(LAMBDA p, ch : ParseChar(p, ch, prefix), Start, text), prefix).sql
-----------------------------------------------------------------------------
(* The drivers number the variables.  A slot is the place of a variable in
   the statement which the server gets. *)

Slots(items) == {i \in DOMAIN items : IsVar(items[i])}

\* mysql: every place has its own number and a name has several.
MyHostVarMap(items) ==
    {<<items[i][2], Cardinality({j \in Slots(items) : j < i})>> : i \in Slots(items)}
MyBoundBy(items, name) ==
    {i \in Slots(items) :
        <<name, Cardinality({j \in Slots(items) : j < i})>> \in MyHostVarMap(items)}

\* postgresql: a name has one number, a place shows the number of its name.
Insert(map, name, n) == [m \in DOMAIN map \cup {name} |-> IF m = name THEN n ELSE map[m]]

\* Mutant: a name gets a new number each time.
PgOnHostVar_Renumbered(se, name) ==
    [map |-> Insert(se.map, name, se.idx), idx |-> se.idx + 1, shown |-> Append(se.shown, se.idx)]

PgOnHostVar(se, name) ==
    LET known == name \in DOMAIN se.map
        n == IF known THEN se.map[name] ELSE se.idx
    IN [map |-> Insert(se.map, name, n),
        idx |-> IF known THEN se.idx ELSE se.idx + 1,
        shown |-> Append(se.shown, n)]
PgHostVars(items) ==
    FoldLeft(LAMBDA se, item : IF IsVar(item) THEN PgOnHostVar(se, item[2]) ELSE se,
             [map |-> << >>, idx |-> 0, shown |-> << >>], items)
PgBoundBy(items, name) ==
    LET se == PgHostVars(items)
    IN {i \in Slots(items) :
          /\ name \in DOMAIN se.map
          /\ se.shown[1 + Cardinality({j \in Slots(items) : j < i})] = se.map[name]}
-----------------------------------------------------------------------------
(* SqlBuilder: the prefix is a percent sign and the result is a text again. *)

Builder == "%"
Numeral == <<"0", "1", "2", "3", "4", "5", "6", "7", "8", "9">>    \* lists of up to ten
ElementName(name, n) == Append(name, Numeral[n + 1])

\* What HvarListReplacer and SimpleReplacer put in the place of a variable.
HvarList(name, varname, count) ==
    IF name # varname THEN <<Builder>> \o name
    ELSE IF count = 0 THEN <<"blank", "NULL", "blank">>
    ELSE <<"blank">>
           \o FlattenSeq([i \in 1..count |-> (IF i = 1 THEN << >> ELSE <<",">>)
                                                \o <<":">> \o ElementName(varname, i - 1)])
           \o <<"blank">>
Simple(name, varname, value) == IF name = varname THEN value ELSE <<Builder>> \o name

Replaced(text, event(_)) ==
    LET items == ParseText(text, Builder)
    IN FlattenSeq([i \in DOMAIN items |->
         IF IsVar(items[i]) THEN event(items[i][2]) ELSE <<items[i][2]>>])

ExtendParam(text, varname, count) == Replaced(text, LAMBDA name : HvarList(name, varname, count))
Replace(text, varname, value) == Replaced(text, LAMBDA name : Simple(name, varname, value))

\* Statement::set of a range: one variable for each element.
ElementNames(varname, count) == [i \in 1..count |-> ElementName(varname, i - 1)]
-----------------------------------------------------------------------------
(* prepareWithLimit: a select that gives a part of its rows, named by two host
   variables.  A driver puts clauses around the statement.  A clause has a kind
   and the names of the host variables whose values are added up.  A name is
   the empty sequence when it is not given. *)

Clause(kind, names) == [kind |-> kind, of |-> names]
Given(name) == name # << >>

\* mysql, postgresql and sqlite
Appended(limit, offset) ==
    (IF Given(limit) THEN <<Clause("limit", <<limit>>)>> ELSE << >>)
      \o (IF Given(offset) THEN <<Clause("offset", <<offset>>)>> ELSE << >>)

\* oracle numbers the rows of the select, which get one more column by that.
Above(offset) == Clause("rownum>", <<offset>>)

Numbered(limit, offset) ==
    IF Given(limit)
    THEN IF Given(offset)
         THEN <<Above(offset), Clause("rownum<=", <<offset, limit>>)>>
         ELSE <<Clause("rownum<=", <<limit>>)>>
    ELSE IF Given(offset) THEN <<Above(offset)>> ELSE << >>

Clauses(driver, limit, offset) ==
    IF driver = "oracle" THEN Numbered(limit, offset) ELSE Appended(limit, offset)

\* The replication driver prepares a select on the first database; other
\* statements lose their limit.
Replicated(isSelect, driver, limit, offset) ==
    IF isSelect THEN Clauses(driver, limit, offset) ELSE << >>
-----------------------------------------------------------------------------
(* The servers. *)

SyntaxError == "syntaxError"

\* mysql and sqlite know an offset only behind a limit.
Legal(driver, clauses) ==
    driver \in {"mysql", "sqlite"} /\ clauses # << >> => clauses[1].kind = "limit"

ValueOf(clause, value) ==
    IF Len(clause.of) = 1 THEN value[clause.of[1]]
    ELSE value[clause.of[1]] + value[clause.of[2]]
Bounds(clauses, kind, value) ==
    {ValueOf(clauses[i], value) : i \in {j \in DOMAIN clauses : clauses[j].kind = kind}}

\* The rows of a select with so many rows, by their place.
Selected(driver, clauses, value, rows) ==
    IF ~ Legal(driver, clauses) THEN SyntaxError
    ELSE LET skipped == Bounds(clauses, "offset", value)
             first == IF skipped = {} THEN 0 ELSE CHOOSE n \in skipped : TRUE
         IN {r \in 1..rows :
               /\ r > first
               /\ \A n \in Bounds(clauses, "limit", value) : r <= first + n
               /\ \A n \in Bounds(clauses, "rownum>", value) : r > n
               /\ \A n \in Bounds(clauses, "rownum<=", value) : r <= n}
=============================================================================
