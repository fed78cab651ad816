----------------------------- MODULE ParserProofs -----------------------------
(***************************************************************************)
(* Proof that statements are read as they are meant, whatever is written of  *)
(* them and in whatever order (StatementAsMeant of Texts), without a bound   *)
(* on the number of pieces.  The inductive invariant StatementsInv says of   *)
(* each parser that a statement goes through what the text written so far    *)
(* leaves it in: it has found the items that are meant.  The numbering of    *)
(* host variables and the clauses of prepareWithLimit follow.  That a parser *)
(* is a left fold, and what such a fold has read, is known from TextsProofs. *)
(***************************************************************************)
EXTENDS TextsProofs

-------------------------------------------------------------------------------
(* Statements.  The state of StmtParser, and its steps for the prefix ":" of *)
(* the drivers and "%" of the builder, one lemma for every kind of           *)
(* character.                                                                *)

(* The prefixes of host variables and of the builder's placeholders.         *)
Prefix == {":", "%"}

(* A state of the parser.                                                    *)
Ps(state, name, quote, sql) == [state |-> state, name |-> name, quote |-> quote, sql |-> sql]

(* A step of the reader k is one of StmtParser with that prefix.             *)
LEMMA ParseStep == ASSUME NEW k \in Prefix, NEW p, NEW c PROVE Step(k, p, c) = H!ParseChar(p, c, k)
<1>1. k # "url" /\ k # "mysql" /\ k # "numbers"
  BY DEF Prefix
<1>. QED
  BY <1>1, Zenon DEF Step

(* Where it starts.                                                          *)
LEMMA ParseBegin == ASSUME NEW k \in Prefix PROVE Read(k, << >>) = Ps("0", << >>, "none", << >>)
<1>1. k # "url" /\ k # "mysql" /\ k # "numbers"
  BY DEF Prefix
<1>2. Begin(k) = H!Start
  BY <1>1, Zenon DEF Begin
<1>3. H!Start = Ps("0", << >>, "none", << >>)
  BY Zenon DEF H!Start, Ps
<1>4. Read(k, << >>) = Begin(k)
  BY ReadFirst
<1>. QED
  BY <1>2, <1>3, <1>4

(* The fields of a state after each of its updates.                          *)
LEMMA PsTo ==
  ASSUME NEW st, NEW n, NEW q, NEW o, NEW to
  PROVE  H!To(Ps(st, n, q, o), to) = Ps(to, n, q, o)
  BY DEF Ps, H!To

(* An item is put out.                                                       *)
LEMMA PsPut ==
  ASSUME NEW st, NEW n, NEW q, NEW o, NEW m
  PROVE  H!Put(Ps(st, n, q, o), m) = Ps(st, n, q, o \o m)
<1>1. PICK r : r = o \o m
  OBVIOUS
<1>2. [Ps(st, n, q, o) EXCEPT !.sql = r] = Ps(st, n, q, r)
  BY DEF Ps
<1>3. Ps(st, n, q, o).sql = o
  BY DEF Ps
<1>4. H!Put(Ps(st, n, q, o), m) = [Ps(st, n, q, o) EXCEPT !.sql = Ps(st, n, q, o).sql \o m]
  BY DEF H!Put
<1>. QED
  BY <1>1, <1>2, <1>3, <1>4

Quoting(p, to, ch) == [p EXCEPT !.state = to, !.quote = ch]
Naming(p, m, to) == [p EXCEPT !.name = m, !.state = to]
Named(p, m) == [p EXCEPT !.name = m]

(* A string begins.                                                          *)
LEMMA PsQuote ==
  ASSUME NEW st, NEW n, NEW q, NEW o, NEW to, NEW ch
  PROVE  Quoting(Ps(st, n, q, o), to, ch) = Ps(to, n, ch, o)
<1> DEFINE p == Ps(st, n, q, o)
           r == [p EXCEPT !.state = to]
<1>1. r = Ps(to, n, q, o)
  BY DEF Ps
<1>2. [p EXCEPT !.state = to, !.quote = ch] = [r EXCEPT !.quote = ch]
  OBVIOUS
<1>3. [Ps(to, n, q, o) EXCEPT !.quote = ch] = Ps(to, n, ch, o)
  BY DEF Ps
<1>. QED
  BY <1>1, <1>2, <1>3 DEF Quoting

(* A name begins.                                                            *)
LEMMA PsName ==
  ASSUME NEW st, NEW n, NEW q, NEW o, NEW to, NEW m
  PROVE  Naming(Ps(st, n, q, o), m, to) = Ps(to, m, q, o)
<1> DEFINE p == Ps(st, n, q, o)
           r == [p EXCEPT !.name = m]
<1>1. r = Ps(st, m, q, o)
  BY DEF Ps
<1>2. [p EXCEPT !.name = m, !.state = to] = [r EXCEPT !.state = to]
  OBVIOUS
<1>3. [Ps(st, m, q, o) EXCEPT !.state = to] = Ps(to, m, q, o)
  BY DEF Ps
<1>. QED
  BY <1>1, <1>2, <1>3 DEF Naming

(* A name goes on.                                                           *)
LEMMA PsNamed == ASSUME NEW st, NEW n, NEW q, NEW o, NEW m PROVE Named(Ps(st, n, q, o), m) = Ps(st, m, q, o)
  BY DEF Ps, Named

(* Which case of the parser's switch a state takes.                          *)
LEMMA PsHandler ==
  ASSUME NEW k \in Prefix, NEW n, NEW q, NEW o, NEW c
  PROVE  /\ Step(k, Ps("0", n, q, o), c) = H!State0(Ps("0", n, q, o), c, k)
         /\ Step(k, Ps("name0", n, q, o), c) = H!StateName0(Ps("name0", n, q, o), c, k)
         /\ Step(k, Ps("name", n, q, o), c) = H!StateName(Ps("name", n, q, o), c, k)
         /\ Step(k, Ps("esc", n, q, o), c) = H!StateEsc(Ps("esc", n, q, o), c)
         /\ Step(k, Ps("string", n, q, o), c) = H!StateString(Ps("string", n, q, o), c)
         /\ Step(k, Ps("stringEsc", n, q, o), c) = H!StateString(Ps("stringEsc", n, q, o), c)
<1>1. \A st : Ps(st, n, q, o).state = st
  BY DEF Ps
<1>2. \A p : p.state = "0" => H!ParseChar(p, c, k) = H!State0(p, c, k)
  BY DEF H!ParseChar
<1>3. \A p : p.state = "name0" => H!ParseChar(p, c, k) = H!StateName0(p, c, k)
  BY DEF H!ParseChar
<1>4. \A p : p.state = "name" => H!ParseChar(p, c, k) = H!StateName(p, c, k)
  BY DEF H!ParseChar
<1>5. \A p : p.state = "esc" => H!ParseChar(p, c, k) = H!StateEsc(p, c)
  BY DEF H!ParseChar
<1>6. \A p : p.state \in {"string", "stringEsc"} => H!ParseChar(p, c, k) = H!StateString(p, c)
  BY DEF H!ParseChar
<1>7. \A p : Step(k, p, c) = H!ParseChar(p, c, k)
  BY ParseStep
<1>8. Ps("string", n, q, o).state \in {"string", "stringEsc"} /\ Ps("stringEsc", n, q, o).state \in {"string", "stringEsc"}
  BY <1>1
<1>9. Step(k, Ps("0", n, q, o), c) = H!State0(Ps("0", n, q, o), c, k)
  BY <1>1, <1>2, <1>7
<1>10. Step(k, Ps("name0", n, q, o), c) = H!StateName0(Ps("name0", n, q, o), c, k)
  BY <1>1, <1>3, <1>7
<1>11. Step(k, Ps("name", n, q, o), c) = H!StateName(Ps("name", n, q, o), c, k)
  BY <1>1, <1>4, <1>7
<1>12. Step(k, Ps("esc", n, q, o), c) = H!StateEsc(Ps("esc", n, q, o), c)
  BY <1>1, <1>5, <1>7
<1>13. Step(k, Ps("string", n, q, o), c) = H!StateString(Ps("string", n, q, o), c)
  BY <1>6, <1>7, <1>8
<1>14. Step(k, Ps("stringEsc", n, q, o), c) = H!StateString(Ps("stringEsc", n, q, o), c)
  BY <1>6, <1>7, <1>8
<1>. QED
  BY <1>9, <1>10, <1>11, <1>12, <1>13, <1>14

(* The characters that a name begins with.                                   *)
LetterSet == {"a", "v", "w"}

(* The characters that it goes on with.                                      *)
NameSet == {"a", "v", "w", "0", "1", "_"}

(* A prefix is none of the other characters with a meaning.                  *)
LEMMA PrefixIs ==
  ASSUME NEW k \in Prefix
  PROVE  k \in Symbol /\ k # "\\" /\ k \notin H!Quotes /\ "\\" \notin H!Quotes /\ k \notin LetterSet /\ k \notin NameSet
  BY Symbols DEF Prefix, H!Quotes, LetterSet, NameSet

(* Outside of everything, a character is put out.                            *)
LEMMA ParsePlain ==
  ASSUME NEW k \in Prefix, NEW c, c # k, c # "\\", c \notin H!Quotes, NEW n, NEW q, NEW o
  PROVE  Step(k, Ps("0", n, q, o), c) = Ps("0", n, q, o \o <<H!Char(c)>>)
<1>1. \A p : H!State0(p, c, k) = H!Put(p, <<H!Char(c)>>)
  BY DEF H!State0
<1>2. H!Put(Ps("0", n, q, o), <<H!Char(c)>>) = Ps("0", n, q, o \o <<H!Char(c)>>)
  BY PsPut
<1>3. Step(k, Ps("0", n, q, o), c) = H!State0(Ps("0", n, q, o), c, k)
  BY PsHandler
<1>. QED
  BY <1>1, <1>2, <1>3

(* The prefix announces a name.                                              *)
LEMMA ParsePrefix ==
  ASSUME NEW k \in Prefix, NEW n, NEW q, NEW o
  PROVE  Step(k, Ps("0", n, q, o), k) = Ps("name0", n, q, o)
<1>1. \A p : H!State0(p, k, k) = H!To(p, "name0")
  BY PrefixIs DEF H!State0
<1>2. H!To(Ps("0", n, q, o), "name0") = Ps("name0", n, q, o)
  BY PsTo
<1>3. Step(k, Ps("0", n, q, o), k) = H!State0(Ps("0", n, q, o), k, k)
  BY PsHandler
<1>. QED
  BY <1>1, <1>2, <1>3

(* A backslash is left out.                                                  *)
LEMMA ParseBackslash ==
  ASSUME NEW k \in Prefix, NEW n, NEW q, NEW o
  PROVE  Step(k, Ps("0", n, q, o), "\\") = Ps("esc", n, q, o)
<1>0. k # "\\" /\ "\\" \notin H!Quotes
  BY PrefixIs
<1>1. \A p, c : c = "\\" => H!State0(p, c, k) = H!To(p, "esc")
  BY <1>0 DEF H!State0
<1>2. H!To(Ps("0", n, q, o), "esc") = Ps("esc", n, q, o)
  BY PsTo
<1>3. Step(k, Ps("0", n, q, o), "\\") = H!State0(Ps("0", n, q, o), "\\", k)
  BY PsHandler
<1>. QED
  BY <1>1, <1>2, <1>3

(* A quote begins a string.                                                  *)
LEMMA ParseQuote ==
  ASSUME NEW k \in Prefix, NEW c \in H!Quotes, NEW n, NEW q, NEW o
  PROVE  Step(k, Ps("0", n, q, o), c) = Ps("string", n, c, o \o <<H!Char(c)>>)
<1>0. c # k /\ c # "\\"
  BY PrefixIs
<1>1. \A p : H!State0(p, c, k) = Quoting(H!Put(p, <<H!Char(c)>>), "string", c)
  BY <1>0 DEF H!State0, Quoting
<1>2. H!Put(Ps("0", n, q, o), <<H!Char(c)>>) = Ps("0", n, q, o \o <<H!Char(c)>>)
  BY PsPut
<1>3. Quoting(Ps("0", n, q, o \o <<H!Char(c)>>), "string", c) = Ps("string", n, c, o \o <<H!Char(c)>>)
  BY PsQuote
<1>4. Step(k, Ps("0", n, q, o), c) = H!State0(Ps("0", n, q, o), c, k)
  BY PsHandler
<1>. QED
  BY <1>1, <1>2, <1>3, <1>4

(* What follows a backslash is put out.                                      *)
LEMMA ParseEscaped ==
  ASSUME NEW k \in Prefix, NEW c, NEW n, NEW q, NEW o
  PROVE  Step(k, Ps("esc", n, q, o), c) = Ps("0", n, q, o \o <<H!Char(c)>>)
<1>1. H!Put(Ps("esc", n, q, o), <<H!Char(c)>>) = Ps("esc", n, q, o \o <<H!Char(c)>>)
  BY PsPut
<1>2. H!To(Ps("esc", n, q, o \o <<H!Char(c)>>), "0") = Ps("0", n, q, o \o <<H!Char(c)>>)
  BY PsTo
<1>3. Step(k, Ps("esc", n, q, o), c) = H!StateEsc(Ps("esc", n, q, o), c)
  BY PsHandler
<1>. QED
  BY <1>1, <1>2, <1>3 DEF H!StateEsc

(* A prefix that follows the prefix is put out with it: the cast of          *)
(* postgresql.                                                               *)
LEMMA ParseTwice ==
  ASSUME NEW k \in Prefix, NEW n, NEW q, NEW o
  PROVE  Step(k, Ps("name0", n, q, o), k) = Ps("0", n, q, o \o <<H!Char(k), H!Char(k)>>)
<1>1. \A p : H!StateName0(p, k, k) = H!To(H!Put(p, <<H!Char(k), H!Char(k)>>), "0")
  BY PrefixIs DEF H!StateName0, LetterSet
<1>2. H!Put(Ps("name0", n, q, o), <<H!Char(k), H!Char(k)>>) = Ps("name0", n, q, o \o <<H!Char(k), H!Char(k)>>)
  BY PsPut
<1>3. H!To(Ps("name0", n, q, o \o <<H!Char(k), H!Char(k)>>), "0") = Ps("0", n, q, o \o <<H!Char(k), H!Char(k)>>)
  BY PsTo
<1>4. Step(k, Ps("name0", n, q, o), k) = H!StateName0(Ps("name0", n, q, o), k, k)
  BY PsHandler
<1>. QED
  BY <1>1, <1>2, <1>3, <1>4

(* A letter behind the prefix begins a name.                                 *)
LEMMA ParseLetter ==
  ASSUME NEW k \in Prefix, NEW c \in LetterSet, NEW n, NEW q, NEW o
  PROVE  Step(k, Ps("name0", n, q, o), c) = Ps("name", <<c>>, q, o)
<1>0. c # k /\ c # "\\"
  BY DEF LetterSet, Prefix
<1>1. \A p : H!StateName0(p, c, k) = Naming(p, <<c>>, "name")
  BY <1>0 DEF H!StateName0, LetterSet, Naming
<1>2. Naming(Ps("name0", n, q, o), <<c>>, "name") = Ps("name", <<c>>, q, o)
  BY PsName
<1>4. Step(k, Ps("name0", n, q, o), c) = H!StateName0(Ps("name0", n, q, o), c, k)
  BY PsHandler
<1>. QED
  BY <1>1, <1>2, <1>4

(* The name goes on.                                                         *)
LEMMA ParseInName ==
  ASSUME NEW k \in Prefix, NEW c \in NameSet, NEW n, NEW q, NEW o
  PROVE  Step(k, Ps("name", n, q, o), c) = Ps("name", Append(n, c), q, o)
<1>1. \A p : H!StateName(p, c, k) = Named(p, Append(p.name, c))
  BY DEF H!StateName, NameSet, Named
<1>2. Named(Ps("name", n, q, o), Append(n, c)) = Ps("name", Append(n, c), q, o)
  BY PsNamed
<1>3. Ps("name", n, q, o).name = n
  BY DEF Ps
<1>4. Step(k, Ps("name", n, q, o), c) = H!StateName(Ps("name", n, q, o), c, k)
  BY PsHandler
<1>. QED
  BY <1>1, <1>2, <1>3, <1>4

(* Any other character ends the name and is read as one outside of it.       *)
LEMMA ParseNameEnds ==
  ASSUME NEW k \in Prefix, NEW c, c \notin NameSet, c \notin H!Quotes, NEW n, NEW q, NEW o
  PROVE  Step(k, Ps("name", n, q, o), c) = Step(k, Ps("0", n, q, o \o <<H!Var(n)>>), c)
<1> DEFINE e == Ps("name", n, q, o \o <<H!Var(n)>>)
           g == Ps("0", n, q, o \o <<H!Var(n)>>)
<1>1. Step(k, Ps("name", n, q, o), c) = H!StateName(Ps("name", n, q, o), c, k)
  BY PsHandler
<1>2. Step(k, g, c) = H!State0(g, c, k)
  BY PsHandler
<1>3. H!Put(Ps("name", n, q, o), <<H!Var(n)>>) = e
  BY PsPut
<1>4. Ps("name", n, q, o).name = n
  BY DEF Ps
<1>5. \A p : H!StateName(p, c, k) =
              CASE c = "\\" -> H!To(H!Put(p, <<H!Var(p.name)>>), "esc")
                [] c = k -> H!To(H!Put(p, <<H!Var(p.name)>>), "name0")
                [] OTHER -> H!To(H!Put(H!Put(p, <<H!Var(p.name)>>), <<H!Char(c)>>), "0")
  BY Zenon DEF H!StateName, NameSet
<1>6. H!StateName(Ps("name", n, q, o), c, k) =
              CASE c = "\\" -> H!To(e, "esc") [] c = k -> H!To(e, "name0") [] OTHER -> H!To(H!Put(e, <<H!Char(c)>>), "0")
  BY <1>3, <1>4, <1>5, Zenon
<1>7. H!To(e, "esc") = Ps("esc", n, q, o \o <<H!Var(n)>>) /\ H!To(e, "name0") = Ps("name0", n, q, o \o <<H!Var(n)>>)
  BY PsTo
<1>8. H!Put(e, <<H!Char(c)>>) = Ps("name", n, q, (o \o <<H!Var(n)>>) \o <<H!Char(c)>>)
  BY PsPut
<1>9. H!To(Ps("name", n, q, (o \o <<H!Var(n)>>) \o <<H!Char(c)>>), "0") = Ps("0", n, q, (o \o <<H!Var(n)>>) \o <<H!Char(c)>>)
  BY PsTo
<1> HIDE DEF e
<1>10. CASE c = "\\"
  <2>1. H!StateName(Ps("name", n, q, o), c, k) = Ps("esc", n, q, o \o <<H!Var(n)>>)
    BY <1>6, <1>7, <1>10, PrefixIs
  <2>2. Step(k, g, "\\") = Ps("esc", n, q, o \o <<H!Var(n)>>)
    BY ParseBackslash
  <2>. QED
    BY <1>1, <1>10, <2>1, <2>2
<1>11. CASE c = k
  <2>1. H!StateName(Ps("name", n, q, o), c, k) = Ps("name0", n, q, o \o <<H!Var(n)>>)
    BY <1>6, <1>7, <1>11, PrefixIs
  <2>2. Step(k, g, k) = Ps("name0", n, q, o \o <<H!Var(n)>>)
    BY ParsePrefix
  <2>. QED
    BY <1>1, <1>11, <2>1, <2>2
<1>12. CASE c # "\\" /\ c # k
  <2>1. H!StateName(Ps("name", n, q, o), c, k) = Ps("0", n, q, (o \o <<H!Var(n)>>) \o <<H!Char(c)>>)
    BY <1>6, <1>8, <1>9, <1>12
  <2>2. Step(k, g, c) = Ps("0", n, q, (o \o <<H!Var(n)>>) \o <<H!Char(c)>>)
    BY <1>12, ParsePlain
  <2>. QED
    BY <1>1, <2>1, <2>2
<1>. QED
  BY <1>10, <1>11, <1>12

(* A string ends at its quote unless a backslash precedes that, and all of   *)
(* it is put out.                                                            *)
LEMMA ParseInString ==
  ASSUME NEW k \in Prefix, NEW c, NEW n, NEW q, NEW o
  PROVE  /\ c = q => Step(k, Ps("string", n, q, o), c) = Ps("0", n, q, o \o <<H!Char(c)>>)
         /\ c # q /\ c # "\\" => Step(k, Ps("string", n, q, o), c) = Ps("string", n, q, o \o <<H!Char(c)>>)
         /\ c # q /\ c = "\\" => Step(k, Ps("string", n, q, o), c) = Ps("stringEsc", n, q, o \o <<H!Char(c)>>)
         /\ c # q => Step(k, Ps("stringEsc", n, q, o), c) = Ps("string", n, q, o \o <<H!Char(c)>>)
<1>1. \A st, to : H!To(H!Put(Ps(st, n, q, o), <<H!Char(c)>>), to) = Ps(to, n, q, o \o <<H!Char(c)>>)
  BY PsPut, PsTo
<1>2. \A st : Ps(st, n, q, o).state = st /\ Ps(st, n, q, o).quote = q
  BY DEF Ps
<1>3. \A p : p.quote = q => 
         H!StateString(p, c) = H!To(H!Put(p, <<H!Char(c)>>),
              IF c = q THEN "0" ELSE IF c = "\\" /\ p.state = "string" THEN "stringEsc" ELSE "string")
  BY DEF H!StateString
<1>4. \A st : H!StateString(Ps(st, n, q, o), c)
               = Ps(IF c = q THEN "0" ELSE IF c = "\\" /\ st = "string" THEN "stringEsc" ELSE "string", n, q, o \o <<H!Char(c)>>)
  BY <1>1, <1>2, <1>3
<1>5. /\ Step(k, Ps("string", n, q, o), c) = H!StateString(Ps("string", n, q, o), c)
      /\ Step(k, Ps("stringEsc", n, q, o), c) = H!StateString(Ps("stringEsc", n, q, o), c)
  BY PsHandler
<1>. QED
  BY <1>4, <1>5

-------------------------------------------------------------------------------
(* Pieces of a statement: the items that the parser has made of a text, and  *)
(* those that a piece adds to them.                                          *)

(* The parser has made the items o of what it has read, the last of which is *)
(* a name that may still go on if mode is "name".                            *)
Reached(p, o, mode) ==
    \/ mode = "0" /\ \E n, q : p = Ps("0", n, q, o)
    \/ mode = "name" /\ \E n, q : \E o1 \in Seq(Item) : p = Ps("name", n, q, o1) /\ o = o1 \o <<H!Var(n)>>

(* The same of the text s.                                                   *)
InText(k, s, o, mode) == s \in Seq(Symbol) /\ o \in Seq(Item) /\ Reached(Read(k, s), o, mode)

(* A text w that begins with the character c adds the items m.               *)
Takes(k, c, w, m, mode) ==
    /\ c \in Symbol /\ w \in Seq(Symbol) /\ m \in Seq(Item)
    /\ \E v \in Seq(Symbol) :
          /\ w = <<c>> \o v
          /\ \A n, q : \A o \in Seq(Item) :
                \E r : Leads(k, v, Step(k, Ps("0", n, q, o), c), r) /\ Reached(r, o \o m, mode)

(* The character does not go on with a name.                                 *)
Follows(mode, c) == mode = "name" => c \notin NameSet /\ c \notin H!Quotes

(* Putting texts together is associative.                                    *)
LEMMA Joined ==
  ASSUME NEW S, NEW a \in Seq(S), NEW b \in Seq(S), NEW c \in Seq(S)
  PROVE  a \o b \in Seq(S) /\ (a \o b) \o c = a \o (b \o c)
  OBVIOUS

(* It is read as if no name preceded it.                                     *)
LEMMA ReachedStep ==
  ASSUME NEW k \in Prefix, NEW p, NEW o, NEW mode, Reached(p, o, mode), NEW c, Follows(mode, c)
  PROVE  \E n, q : Step(k, p, c) = Step(k, Ps("0", n, q, o), c)
<1>1. CASE mode = "0"
  <2>1. PICK n, q : p = Ps("0", n, q, o)
    BY <1>1 DEF Reached
  <2>. QED
    BY <2>1
<1>2. CASE mode = "name"
  <2>1. PICK n, q : \E o1 \in Seq(Item) : p = Ps("name", n, q, o1) /\ o = o1 \o <<H!Var(n)>>
    BY <1>2 DEF Reached
  <2>2. PICK o1 : p = Ps("name", n, q, o1) /\ o = o1 \o <<H!Var(n)>>
    BY <2>1
  <2>3. c \notin NameSet /\ c \notin H!Quotes
    BY <1>2 DEF Follows
  <2>4. Step(k, Ps("name", n, q, o1), c) = Step(k, Ps("0", n, q, o1 \o <<H!Var(n)>>), c)
    BY <2>3, ParseNameEnds
  <2>. QED
    BY <2>2, <2>4
<1>3. mode = "0" \/ mode = "name"
  BY DEF Reached
<1>. QED
  BY <1>1, <1>2, <1>3

(* A text that is put behind another one adds its items.                     *)
LEMMA TextGrows ==
  ASSUME NEW k \in Prefix, NEW s, NEW o, NEW mode, InText(k, s, o, mode), NEW c, NEW w, NEW m, NEW to, Takes(k, c, w, m, to),
         Follows(mode, c)
  PROVE  InText(k, s \o w, o \o m, to)
<1>1. s \in Seq(Symbol) /\ o \in Seq(Item) /\ Reached(Read(k, s), o, mode)
  BY DEF InText
<1>2. c \in Symbol /\ w \in Seq(Symbol) /\ m \in Seq(Item)
  BY DEF Takes
<1>3. PICK v \in Seq(Symbol) :
          /\ w = <<c>> \o v
          /\ \A n, q : \A e \in Seq(Item) :
                \E r : Leads(k, v, Step(k, Ps("0", n, q, e), c), r) /\ Reached(r, e \o m, to)
  BY Zenon DEF Takes
<1>4. PICK n, q : Step(k, Read(k, s), c) = Step(k, Ps("0", n, q, o), c)
  BY <1>1, ReachedStep
<1>5. PICK r : Leads(k, v, Step(k, Ps("0", n, q, o), c), r) /\ Reached(r, o \o m, to)
  BY <1>1, <1>3
<1>6. s \o <<c>> \in Seq(Symbol) /\ Read(k, s \o <<c>>) = Step(k, Read(k, s), c)
  BY <1>1, <1>2, ReadOne
<1>7. Read(k, s \o <<c>>) = Step(k, Ps("0", n, q, o), c)
  BY <1>4, <1>6, Zenon
<1>8. Read(k, (s \o <<c>>) \o v) = r
  BY <1>5, <1>6, <1>7, Zenon DEF Leads
<1>9. (s \o <<c>>) \o v = s \o w
  <2>1. <<c>> \in Seq(Symbol)
    BY <1>2
  <2>2. (s \o <<c>>) \o v = s \o (<<c>> \o v)
    BY <1>1, <1>3, <2>1
  <2>. QED
    BY <1>3, <2>2
<1>10. s \o w \in Seq(Symbol) /\ o \o m \in Seq(Item)
  BY <1>1, <1>2
<1>. QED
  BY <1>5, <1>8, <1>9, <1>10, Zenon DEF InText

(* Two texts that are put together add the items of both.                    *)
LEMMA TakesThen ==
  ASSUME NEW k \in Prefix, NEW c, NEW w, NEW m, NEW mode, Takes(k, c, w, m, mode),
         NEW d, NEW x, NEW y, NEW to, Takes(k, d, x, y, to), Follows(mode, d)
  PROVE  Takes(k, c, w \o x, m \o y, to)
<1>1. /\ c \in Symbol /\ w \in Seq(Symbol) /\ m \in Seq(Item)
      /\ d \in Symbol /\ x \in Seq(Symbol) /\ y \in Seq(Item)
  BY DEF Takes
<1>2. PICK v \in Seq(Symbol) :
          /\ w = <<c>> \o v
          /\ \A n, q : \A e \in Seq(Item) :
                \E r : Leads(k, v, Step(k, Ps("0", n, q, e), c), r) /\ Reached(r, e \o m, mode)
  BY Zenon DEF Takes
<1>3. PICK z \in Seq(Symbol) :
          /\ x = <<d>> \o z
          /\ \A n, q : \A e \in Seq(Item) :
                \E r : Leads(k, z, Step(k, Ps("0", n, q, e), d), r) /\ Reached(r, e \o y, to)
  BY Zenon DEF Takes
<1>4. v \o x \in Seq(Symbol) /\ w \o x \in Seq(Symbol) /\ m \o y \in Seq(Item)
  BY <1>1, <1>2
<1>5. w \o x = <<c>> \o (v \o x)
  <2>1. <<c>> \in Seq(Symbol)
    BY <1>1
  <2>2. (<<c>> \o v) \o x = <<c>> \o (v \o x)
    BY <1>1, <1>2, <2>1
  <2>. QED
    BY <1>2, <2>2
<1>6. ASSUME NEW n, NEW q, NEW o \in Seq(Item)
      PROVE  \E r : Leads(k, v \o x, Step(k, Ps("0", n, q, o), c), r) /\ Reached(r, o \o (m \o y), to)
  <2>1. PICK r : Leads(k, v, Step(k, Ps("0", n, q, o), c), r) /\ Reached(r, o \o m, mode)
    BY <1>2
  <2>2. PICK n1, q1 : Step(k, r, d) = Step(k, Ps("0", n1, q1, o \o m), d)
    BY <2>1, ReachedStep
  <2>3. o \o m \in Seq(Item)
    BY <1>1
  <2>4. PICK r1 : Leads(k, z, Step(k, Ps("0", n1, q1, o \o m), d), r1) /\ Reached(r1, (o \o m) \o y, to)
    BY <1>3, <2>3
  <2>5. Leads(k, <<d>>, r, Step(k, r, d))
    BY <1>1, LeadsOne
  <2>6. Leads(k, <<d>>, r, Step(k, Ps("0", n1, q1, o \o m), d))
    BY <2>2, <2>5, Zenon
  <2>7. Leads(k, <<d>> \o z, r, r1)
    BY <2>4, <2>6, LeadsThen
  <2>8. Leads(k, x, r, r1)
    BY <1>3, <2>7, Zenon
  <2>9. Leads(k, v \o x, Step(k, Ps("0", n, q, o), c), r1)
    BY <2>1, <2>8, LeadsThen
  <2>10. (o \o m) \o y = o \o (m \o y)
    BY <1>1, Joined
  <2>. QED
    BY <2>4, <2>9, <2>10, Zenon
<1>. QED
  BY <1>1, <1>4, <1>5, <1>6, Zenon DEF Takes

(* ParseText gives the items that were reached: the last name is ended by    *)
(* the end of the text.                                                      *)
LEMMA TextParsed ==
  ASSUME NEW k \in Prefix, NEW s, NEW o, NEW mode, InText(k, s, o, mode)
  PROVE  H!ParseText(s, k) = o
<1>1. s \in Seq(Symbol) /\ Reached(Read(k, s), o, mode)
  BY DEF InText
<1>2. k \in {":", "%"}
  BY DEF Prefix
<1>3. H!ParseText(s, k) = H!AtEnd(Read(k, s), k).sql
  BY <1>1, <1>2, ParseRead
<1>4. CASE mode = "0"
  <2>1. PICK n, q : Read(k, s) = Ps("0", n, q, o)
    BY <1>1, <1>4 DEF Reached
  <2>2. Ps("0", n, q, o).state = "0" /\ Ps("0", n, q, o).sql = o
    BY DEF Ps
  <2>3. \A p : p.state = "0" => H!AtEnd(p, k) = p
    BY DEF H!AtEnd
  <2>. QED
    BY <1>3, <2>1, <2>2, <2>3
<1>5. CASE mode = "name"
  <2>1. PICK n, q : \E o1 \in Seq(Item) : Read(k, s) = Ps("name", n, q, o1) /\ o = o1 \o <<H!Var(n)>>
    BY <1>1, <1>5 DEF Reached
  <2>2. PICK o1 : Read(k, s) = Ps("name", n, q, o1) /\ o = o1 \o <<H!Var(n)>>
    BY <2>1
  <2>3. Ps("name", n, q, o1).state = "name" /\ Ps("name", n, q, o1).name = n
    BY DEF Ps
  <2>4. \A p : p.state = "name" => H!AtEnd(p, k) = H!Put(p, <<H!Var(p.name)>>)
    BY DEF H!AtEnd
  <2>5. H!Put(Ps("name", n, q, o1), <<H!Var(n)>>) = Ps("name", n, q, o1 \o <<H!Var(n)>>)
    BY PsPut
  <2>6. Ps("name", n, q, o1 \o <<H!Var(n)>>).sql = o1 \o <<H!Var(n)>>
    BY DEF Ps
  <2>7. H!AtEnd(Read(k, s), k) = Ps("name", n, q, o1 \o <<H!Var(n)>>)
    BY <2>2, <2>3, <2>4, <2>5
  <2>. QED
    BY <1>3, <2>2, <2>6, <2>7
<1>6. mode = "0" \/ mode = "name"
  BY <1>1 DEF Reached
<1>. QED
  BY <1>4, <1>5, <1>6

-------------------------------------------------------------------------------
(* Pieces of one, two and three characters, and longer ones of plain or      *)
(* escaped characters.                                                       *)

(* The characters that mean themselves.                                      *)
PlainSet(k) == Symbol \ ({k, "\\"} \cup H!Quotes)

(* A character is an item.                                                   *)
LEMMA CharItem == ASSUME NEW a \in Symbol PROVE <<H!Char(a)>> \in Seq(Item)
<1>1. H!Char(a) \in Item
  BY DEF H!Char, Item
<1>. QED
  BY <1>1

(* A host variable is an item.                                               *)
LEMMA VarItem == ASSUME NEW w \in Seq(Symbol) PROVE <<H!Var(w)>> \in Seq(Item)
<1>1. H!Var(w) \in Item
  BY DEF H!Var, Item
<1>. QED
  BY <1>1

(* Outside of everything, the items are those put out.                       *)
LEMMA ReachedZero == ASSUME NEW n, NEW q, NEW o PROVE Reached(Ps("0", n, q, o), o, "0")
  BY Zenon DEF Reached

(* In a name, the name is one more item.                                     *)
LEMMA ReachedName ==
  ASSUME NEW n, NEW q, NEW o \in Seq(Item) PROVE Reached(Ps("name", n, q, o), o \o <<H!Var(n)>>, "name")
  BY Zenon DEF Reached

(* The first character and the rest of a text.                               *)
LEMMA TakesFirst ==
  ASSUME NEW k, NEW c \in Symbol, NEW v \in Seq(Symbol), NEW w, w = <<c>> \o v, NEW m \in Seq(Item), NEW mode,
         \A n, q : \A o \in Seq(Item) : \E r : Leads(k, v, Step(k, Ps("0", n, q, o), c), r) /\ Reached(r, o \o m, mode)
  PROVE  Takes(k, c, w, m, mode)
<1>1. w \in Seq(Symbol)
  OBVIOUS
<1>. QED
  BY <1>1, Zenon DEF Takes

(* A plain character.                                                        *)
LEMMA TakesPlain ==
  ASSUME NEW k \in Prefix, NEW c \in PlainSet(k)
  PROVE  Takes(k, c, <<c>>, H!CharsOf(<<c>>), "0")
<1>1. c \in Symbol /\ c # k /\ c # "\\" /\ c \notin H!Quotes
  BY DEF PlainSet
<1>2. H!CharsOf(<<c>>) = <<H!Char(c)>> /\ <<H!Char(c)>> \in Seq(Item)
  BY <1>1, CharsOne, CharItem
<1>3. ASSUME NEW n, NEW q, NEW o \in Seq(Item)
      PROVE  \E r : Leads(k, << >>, Step(k, Ps("0", n, q, o), c), r) /\ Reached(r, o \o <<H!Char(c)>>, "0")
  <2>1. Step(k, Ps("0", n, q, o), c) = Ps("0", n, q, o \o <<H!Char(c)>>)
    BY <1>1, ParsePlain
  <2>2. Reached(Ps("0", n, q, o \o <<H!Char(c)>>), o \o <<H!Char(c)>>, "0")
    BY ReachedZero
  <2>. QED
    BY <2>1, <2>2, LeadsEmpty
<1>4. << >> \in Seq(Symbol) /\ <<c>> = <<c>> \o << >>
  BY <1>1
<1>. QED
  BY <1>1, <1>2, <1>3, <1>4, TakesFirst

(* The first character and the rest of a text of two.                        *)
LEMMA PairIs ==
  ASSUME NEW a \in Symbol, NEW b \in Symbol
  PROVE  <<b>> \in Seq(Symbol) /\ <<a, b>> = <<a>> \o <<b>>
<1>1. <<a, b>> = Append(<<a>>, b) /\ <<a>> \in Seq(Symbol) /\ <<b>> \in Seq(Symbol)
  BY Tuple2, OneSymbol
<1>2. \A s \in Seq(Symbol) : \A c \in Symbol : Append(s, c) = s \o <<c>>
  OBVIOUS
<1>. QED
  BY <1>1, <1>2

(* The same of a text of three.                                              *)
LEMMA TripleIs ==
  ASSUME NEW a \in Symbol, NEW b \in Symbol, NEW c \in Symbol
  PROVE  <<b, c>> \in Seq(Symbol) /\ <<a, b, c>> = <<a>> \o <<b, c>>
<1>1. /\ <<a, b, c>> = Append(<<a, b>>, c) /\ <<b, c>> = Append(<<b>>, c) /\ <<a, b>> = <<a>> \o <<b>>
      /\ <<a>> \in Seq(Symbol) /\ <<b>> \in Seq(Symbol) /\ <<b, c>> \in Seq(Symbol)
  BY Tuple3, Tuple2, PairIs, OneSymbol, TwoSymbols
<1>2. \A s, t \in Seq(Symbol) : Append(s \o t, c) = s \o Append(t, c)
  OBVIOUS
<1>. QED
  BY <1>1, <1>2

(* A text of two characters.                                                 *)
LEMMA TakesTwo ==
  ASSUME NEW k, NEW c \in Symbol, NEW d \in Symbol, NEW m \in Seq(Item), NEW mode,
         \A n, q : \A o \in Seq(Item) : Reached(Step(k, Step(k, Ps("0", n, q, o), c), d), o \o m, mode)
  PROVE  Takes(k, c, <<c, d>>, m, mode)
<1>1. ASSUME NEW n, NEW q, NEW o \in Seq(Item)
      PROVE  \E r : Leads(k, <<d>>, Step(k, Ps("0", n, q, o), c), r) /\ Reached(r, o \o m, mode)
  BY LeadsOne
<1>2. <<d>> \in Seq(Symbol) /\ <<c, d>> = <<c>> \o <<d>>
  BY PairIs
<1>. QED
  BY <1>1, <1>2, TakesFirst

(* The prefix twice.                                                         *)
LEMMA TakesTwice ==
  ASSUME NEW k \in Prefix
  PROVE  Takes(k, k, <<k, k>>, H!CharsOf(<<k, k>>), "0")
<1>1. k \in Symbol
  BY PrefixIs
<1>2. H!CharsOf(<<k, k>>) = <<H!Char(k), H!Char(k)>>
  BY <1>1, CharsTwo
<1>3. <<H!Char(k), H!Char(k)>> \in Seq(Item)
  BY <1>1 DEF H!Char, Item
<1>4. ASSUME NEW n, NEW q, NEW o \in Seq(Item)
      PROVE  Reached(Step(k, Step(k, Ps("0", n, q, o), k), k), o \o <<H!Char(k), H!Char(k)>>, "0")
  BY ParsePrefix, ParseTwice, ReachedZero
<1>. QED
  BY <1>1, <1>2, <1>3, <1>4, TakesTwo

(* An escaped character.                                                     *)
LEMMA TakesEscaped ==
  ASSUME NEW k \in Prefix, NEW c \in Symbol
  PROVE  Takes(k, "\\", <<"\\", c>>, H!CharsOf(<<c>>), "0")
<1>1. "\\" \in Symbol
  BY Symbols
<1>2. H!CharsOf(<<c>>) = <<H!Char(c)>> /\ <<H!Char(c)>> \in Seq(Item)
  BY CharsOne, CharItem
<1>3. ASSUME NEW n, NEW q, NEW o \in Seq(Item)
      PROVE  Reached(Step(k, Step(k, Ps("0", n, q, o), "\\"), c), o \o <<H!Char(c)>>, "0")
  BY ParseBackslash, ParseEscaped, ReachedZero
<1>. QED
  BY <1>1, <1>2, <1>3, TakesTwo

(* A name of one character.                                                  *)
LEMMA TakesName ==
  ASSUME NEW k \in Prefix, NEW c \in LetterSet
  PROVE  Takes(k, k, <<k, c>>, <<H!Var(<<c>>)>>, "name")
<1>1. k \in Symbol /\ c \in Symbol
  BY PrefixIs, Symbols DEF LetterSet
<1>2. <<H!Var(<<c>>)>> \in Seq(Item)
  BY <1>1, VarItem, OneSymbol
<1>3. ASSUME NEW n, NEW q, NEW o \in Seq(Item)
      PROVE  Reached(Step(k, Step(k, Ps("0", n, q, o), k), c), o \o <<H!Var(<<c>>)>>, "name")
  BY ParsePrefix, ParseLetter, ReachedName
<1>. QED
  BY <1>1, <1>2, <1>3, TakesTwo

(* A name of two characters.                                                 *)
LEMMA TakesLonger ==
  ASSUME NEW k \in Prefix, NEW c \in LetterSet, NEW d \in NameSet \cap Symbol
  PROVE  Takes(k, k, <<k, c, d>>, <<H!Var(<<c, d>>)>>, "name")
<1>1. k \in Symbol /\ c \in Symbol /\ d \in Symbol /\ d \in NameSet
  BY PrefixIs, Symbols DEF LetterSet
<1>2. <<H!Var(<<c, d>>)>> \in Seq(Item)
  BY <1>1, VarItem, TwoSymbols
<1>3. ASSUME NEW n, NEW q, NEW o \in Seq(Item)
      PROVE  \E r : Leads(k, <<c, d>>, Step(k, Ps("0", n, q, o), k), r) /\ Reached(r, o \o <<H!Var(<<c, d>>)>>, "name")
  <2>1. Step(k, Ps("0", n, q, o), k) = Ps("name0", n, q, o)
    BY ParsePrefix
  <2>2. Step(k, Ps("name0", n, q, o), c) = Ps("name", <<c>>, q, o)
    BY ParseLetter
  <2>3. Step(k, Ps("name", <<c>>, q, o), d) = Ps("name", Append(<<c>>, d), q, o)
    BY <1>1, ParseInName
  <2>4. Append(<<c>>, d) = <<c, d>>
    BY <1>1, Tuple2
  <2>5. Reached(Ps("name", <<c, d>>, q, o), o \o <<H!Var(<<c, d>>)>>, "name")
    BY ReachedName
  <2>6. Leads(k, <<c, d>>, Ps("name0", n, q, o), Step(k, Step(k, Ps("name0", n, q, o), c), d))
    BY <1>1, LeadsTwo
  <2>7. Leads(k, <<c, d>>, Step(k, Ps("0", n, q, o), k), Ps("name", <<c, d>>, q, o))
    BY <2>1, <2>2, <2>3, <2>4, <2>6, Zenon
  <2>. QED
    BY <2>5, <2>7
<1>4. <<c, d>> \in Seq(Symbol) /\ <<k, c, d>> = <<k>> \o <<c, d>>
  BY <1>1, TripleIs
<1>. QED
  BY <1>1, <1>2, <1>3, <1>4, TakesFirst

(* Any character may follow what is not a name.                              *)
LEMMA FollowsText == ASSUME NEW c PROVE Follows("0", c)
  BY DEF Follows

(* A sequence and one more element.                                          *)
LEMMA LongerText ==
  ASSUME NEW S, NEW v \in Seq(S), NEW a \in S
  PROVE  /\ Append(v, a) = v \o <<a>> /\ <<a>> \in Seq(S) /\ Append(v, a) \in Seq(S)
         /\ v = << >> => Append(v, a) = <<a>>
         /\ v # << >> => Append(v, a)[1] = v[1]
         /\ Append(v, a)[1] \in S
<1>1. v = << >> => Append(v, a) = <<a>>
  OBVIOUS
<1>2. v # << >> => Append(v, a)[1] = v[1] /\ v[1] \in S
  OBVIOUS
<1>3. Append(v, a) = v \o <<a>> /\ <<a>> \in Seq(S) /\ Append(v, a) \in Seq(S)
  OBVIOUS
<1>4. <<a>>[1] = a
  OBVIOUS
<1>. QED
  BY <1>1, <1>2, <1>3, <1>4

(* A text of plain characters means itself.                                  *)
LEMMA PlainText ==
  ASSUME NEW k \in Prefix, NEW w \in Seq(PlainSet(k)), w # << >>
  PROVE  Takes(k, w[1], w, H!CharsOf(w), "0")
<1> DEFINE S == PlainSet(k)
           U == {v \in Seq(S) : v # << >> => Takes(k, v[1], v, H!CharsOf(v), "0")}
<1>1. << >> \in U
  OBVIOUS
<1>2. S \subseteq Symbol
  BY DEF PlainSet
<1>3. Seq(S) \subseteq Seq(Symbol)
  BY <1>2
<1>4. ASSUME NEW v \in Seq(S), NEW a \in S, v \in U
      PROVE  Append(v, a) \in U
  <2>1. Takes(k, a, <<a>>, H!CharsOf(<<a>>), "0")
    BY TakesPlain
  <2>2. /\ Append(v, a) = v \o <<a>> /\ <<a>> \in Seq(S) /\ Append(v, a) \in Seq(S)
        /\ v = << >> => Append(v, a) = <<a>>
        /\ v # << >> => Append(v, a)[1] = v[1]
    BY LongerText
  <2>3. CASE v = << >>
    <3>1. <<a>>[1] = a
      OBVIOUS
    <3>. QED
      BY <2>1, <2>2, <2>3, <3>1
  <2>4. CASE v # << >>
    <3>1. Takes(k, v[1], v, H!CharsOf(v), "0")
      BY <1>4, <2>4
    <3>2. Takes(k, v[1], v \o <<a>>, H!CharsOf(v) \o H!CharsOf(<<a>>), "0")
      BY <2>1, <3>1, FollowsText, TakesThen
    <3>3. H!CharsOf(v \o <<a>>) = H!CharsOf(v) \o H!CharsOf(<<a>>)
      BY <1>3, <2>2, CharsConcat
    <3>4. Append(v, a)[1] = v[1] /\ Append(v, a) = v \o <<a>> /\ Append(v, a) \in Seq(S)
      BY <2>2, <2>4
    <3>. QED
      BY <3>2, <3>3, <3>4, Zenon
  <2>. QED
    BY <2>3, <2>4
<1>5. \A v \in Seq(S) : v \in U
  <2> HIDE DEF S, U
  <2>. QED
    BY <1>1, <1>4, SequencesGrow
<1>. QED
  BY <1>5

(* A text of escaped characters means what is escaped.                       *)
LEMMA EscapedText ==
  ASSUME NEW k \in Prefix, NEW w \in Seq(Symbol), w # << >>
  PROVE  Takes(k, "\\", EscapedOnce(w), H!CharsOf(w), "0")
<1> DEFINE U == {v \in Seq(Symbol) : v # << >> => Takes(k, "\\", EscapedOnce(v), H!CharsOf(v), "0")}
<1>1. << >> \in U
  OBVIOUS
<1>4. ASSUME NEW v \in Seq(Symbol), NEW a \in Symbol, v \in U
      PROVE  Append(v, a) \in U
  <2>1. Takes(k, "\\", <<"\\", a>>, H!CharsOf(<<a>>), "0")
    BY TakesEscaped
  <2>2. /\ Append(v, a) = v \o <<a>> /\ <<a>> \in Seq(Symbol) /\ Append(v, a) \in Seq(Symbol)
        /\ v = << >> => Append(v, a) = <<a>>
    BY LongerText
  <2>3. CASE v = << >>
    <3>1. EscapedOnce(<<a>>) = <<"\\", a>>
      BY EscapedOne
    <3>. QED
      BY <2>1, <2>2, <2>3, <3>1
  <2>4. CASE v # << >>
    <3>1. Takes(k, "\\", EscapedOnce(v), H!CharsOf(v), "0")
      BY <1>4, <2>4
    <3>2. Takes(k, "\\", EscapedOnce(v) \o <<"\\", a>>, H!CharsOf(v) \o H!CharsOf(<<a>>), "0")
      BY <2>1, <3>1, FollowsText, TakesThen
    <3>3. H!CharsOf(v \o <<a>>) = H!CharsOf(v) \o H!CharsOf(<<a>>)
      BY <2>2, CharsConcat
    <3>4. EscapedOnce(Append(v, a)) = EscapedOnce(v) \o <<"\\", a>>
      BY EscapedNext
    <3>. QED
      BY <2>2, <3>2, <3>3, <3>4
  <2>. QED
    BY <2>3, <2>4
<1>5. \A v \in Seq(Symbol) : v \in U
  <2> HIDE DEF U
  <2>. QED
    BY <1>1, <1>4, SequencesGrow
<1>. QED
  BY <1>5

(* A character, a text and the character again, behind what is read already. *)
Requoted(o, h, c) == ((o \o h) \o c) \o h = o \o (h \o (c \o h))

(* The same, by associativity.                                               *)
LEMMA JoinedTwice ==
  ASSUME NEW o \in Seq(Item), NEW h \in Seq(Item), NEW c \in Seq(Item)
  PROVE  Requoted(o, h, c)
<1>1. PICK x \in Seq(Item) : x = o \o h
  BY Joined
<1>2. PICK z \in Seq(Item) : z = c \o h
  BY Joined
<1>3. (x \o c) \o h = x \o (c \o h)
  BY Joined
<1>4. (o \o h) \o z = o \o (h \o z)
  BY Joined
<1>. QED
  BY <1>1, <1>2, <1>3, <1>4, Zenon DEF Requoted

-------------------------------------------------------------------------------
(* Strings.                                                                  *)

(* What is between quotes means itself.                                      *)
Inside(k, quote, w) ==
    /\ w \in Seq(Symbol)
    /\ \A n : \A o \in Seq(Item) : Leads(k, w, Ps("string", n, quote, o), Ps("string", n, quote, o \o H!CharsOf(w)))

(* One character that is neither the quote nor a backslash.                  *)
LEMMA InsideOne ==
  ASSUME NEW k \in Prefix, NEW quote \in H!Quotes, NEW c \in Symbol, c # quote, c # "\\"
  PROVE  Inside(k, quote, <<c>>)
<1>1. <<c>> \in Seq(Symbol) /\ H!CharsOf(<<c>>) = <<H!Char(c)>>
  BY OneSymbol, CharsOne
<1>2. ASSUME NEW n, NEW o \in Seq(Item)
      PROVE  Leads(k, <<c>>, Ps("string", n, quote, o), Ps("string", n, quote, o \o <<H!Char(c)>>))
  <2>1. Step(k, Ps("string", n, quote, o), c) = Ps("string", n, quote, o \o <<H!Char(c)>>)
    BY ParseInString
  <2>2. Leads(k, <<c>>, Ps("string", n, quote, o), Step(k, Ps("string", n, quote, o), c))
    BY LeadsOne
  <2>. QED
    BY <2>1, <2>2, Zenon
<1>. QED
  BY <1>1, <1>2, Zenon DEF Inside

(* A backslash and any character but the quote.                              *)
LEMMA InsideEscaped ==
  ASSUME NEW k \in Prefix, NEW quote \in H!Quotes, NEW c \in Symbol, c # quote
  PROVE  Inside(k, quote, <<"\\", c>>)
<1>1. "\\" \in Symbol /\ "\\" # quote
  BY Symbols, PrefixIs
<1>2. <<"\\", c>> \in Seq(Symbol) /\ H!CharsOf(<<"\\", c>>) = <<H!Char("\\"), H!Char(c)>>
  BY <1>1, TwoSymbols, CharsTwo
<1>3. H!Char(c) \in Item /\ H!Char("\\") \in Item
  BY <1>1 DEF H!Char, Item
<1>4. ASSUME NEW n, NEW o \in Seq(Item)
      PROVE  Leads(k, <<"\\", c>>, Ps("string", n, quote, o), Ps("string", n, quote, o \o <<H!Char("\\"), H!Char(c)>>))
  <2>1. Step(k, Ps("string", n, quote, o), "\\") = Ps("stringEsc", n, quote, o \o <<H!Char("\\")>>)
    BY <1>1, ParseInString
  <2>2. Step(k, Ps("stringEsc", n, quote, o \o <<H!Char("\\")>>), c) = Ps("string", n, quote, (o \o <<H!Char("\\")>>) \o <<H!Char(c)>>)
    BY ParseInString
  <2>3. (o \o <<H!Char("\\")>>) \o <<H!Char(c)>> = o \o <<H!Char("\\"), H!Char(c)>>
    BY <1>3
  <2>4. Leads(k, <<"\\", c>>, Ps("string", n, quote, o), Step(k, Step(k, Ps("string", n, quote, o), "\\"), c))
    BY <1>1, LeadsTwo
  <2>. QED
    BY <2>1, <2>2, <2>3, <2>4, Zenon
<1>. QED
  BY <1>2, <1>4, Zenon DEF Inside

(* Two such texts put together.                                              *)
LEMMA InsideThen ==
  ASSUME NEW k, NEW quote, NEW v, NEW w, Inside(k, quote, v), Inside(k, quote, w)
  PROVE  Inside(k, quote, v \o w)
<1>1. v \in Seq(Symbol) /\ w \in Seq(Symbol) /\ v \o w \in Seq(Symbol)
  BY DEF Inside
<1>2. /\ H!CharsOf(v \o w) = H!CharsOf(v) \o H!CharsOf(w)
      /\ H!CharsOf(v) \in Seq(Item) /\ H!CharsOf(w) \in Seq(Item)
  BY <1>1, CharsConcat, CharsAre
<1>3. ASSUME NEW n, NEW o \in Seq(Item)
      PROVE  Leads(k, v \o w, Ps("string", n, quote, o), Ps("string", n, quote, o \o (H!CharsOf(v) \o H!CharsOf(w))))
  <2>1. PICK x \in Seq(Item) : x = o \o H!CharsOf(v)
    BY <1>2, Joined
  <2>2. Leads(k, v, Ps("string", n, quote, o), Ps("string", n, quote, x))
    BY <2>1 DEF Inside
  <2>3. Leads(k, w, Ps("string", n, quote, x), Ps("string", n, quote, x \o H!CharsOf(w)))
    BY DEF Inside
  <2>4. x \o H!CharsOf(w) = o \o (H!CharsOf(v) \o H!CharsOf(w))
    <3>1. PICK a \in Seq(Item), b \in Seq(Item) : a = H!CharsOf(v) /\ b = H!CharsOf(w)
      BY <1>2, Zenon
    <3>2. (o \o a) \o b = o \o (a \o b)
      BY Joined
    <3>. QED
      BY <2>1, <3>1, <3>2, Zenon
  <2>. QED
    BY <2>2, <2>3, <2>4, LeadsThen
<1>. QED
  BY <1>1, <1>2, <1>3, Zenon DEF Inside

(* A string with its quotes means itself.                                    *)
LEMMA StringTaken ==
  ASSUME NEW k \in Prefix, NEW quote \in H!Quotes \cap Symbol, NEW w, Inside(k, quote, w),
         NEW s, s = <<quote>> \o (w \o <<quote>>)
  PROVE  Takes(k, quote, s, H!CharsOf(s), "0")
<1>1. w \in Seq(Symbol) /\ <<quote>> \in Seq(Symbol) /\ w \o <<quote>> \in Seq(Symbol) /\ s \in Seq(Symbol)
  BY OneSymbol DEF Inside
<1>2. /\ H!CharsOf(<<quote>>) = <<H!Char(quote)>> /\ <<H!Char(quote)>> \in Seq(Item)
      /\ H!CharsOf(w) \in Seq(Item) /\ H!CharsOf(s) \in Seq(Item)
  BY <1>1, CharsOne, CharItem, CharsAre
<1>3. H!CharsOf(s) = <<H!Char(quote)>> \o (H!CharsOf(w) \o <<H!Char(quote)>>)
  <2>1. H!CharsOf(w \o <<quote>>) = H!CharsOf(w) \o H!CharsOf(<<quote>>)
    BY <1>1, CharsConcat, Zenon
  <2>2. H!CharsOf(<<quote>> \o (w \o <<quote>>)) = H!CharsOf(<<quote>>) \o H!CharsOf(w \o <<quote>>)
    BY <1>1, CharsConcat, Zenon
  <2>. QED
    BY <1>2, <2>1, <2>2, Zenon
<1>4. ASSUME NEW n, NEW q, NEW o \in Seq(Item)
      PROVE  \E r : Leads(k, w \o <<quote>>, Step(k, Ps("0", n, q, o), quote), r) /\ Reached(r, o \o H!CharsOf(s), "0")
  <2>1. PICK x \in Seq(Item) : x = o \o <<H!Char(quote)>>
    BY <1>2, Joined
  <2>2. Step(k, Ps("0", n, q, o), quote) = Ps("string", n, quote, x)
    BY <2>1, ParseQuote
  <2>3. PICK y \in Seq(Item) : y = x \o H!CharsOf(w)
    BY <1>2, Joined
  <2>4. Leads(k, w, Ps("string", n, quote, x), Ps("string", n, quote, y))
    BY <2>3 DEF Inside
  <2>5. Step(k, Ps("string", n, quote, y), quote) = Ps("0", n, quote, y \o <<H!Char(quote)>>)
    BY ParseInString
  <2>6. Leads(k, <<quote>>, Ps("string", n, quote, y), Step(k, Ps("string", n, quote, y), quote))
    BY LeadsOne
  <2>7. y \o <<H!Char(quote)>> = o \o H!CharsOf(s)
    <3>0. PICK h \in Seq(Item) : h = <<H!Char(quote)>>
      BY <1>2
    <3>1. PICK c \in Seq(Item) : c = H!CharsOf(w)
      BY <1>2
    <3>2. Requoted(o, h, c)
      BY JoinedTwice
    <3>3. y = (o \o h) \o c
      BY <2>1, <2>3, <3>0, <3>1, Zenon
    <3>4. H!CharsOf(s) = h \o (c \o h)
      BY <1>3, <3>0, <3>1, Zenon
    <3>5. y \o h = o \o H!CharsOf(s)
      BY <3>2, <3>3, <3>4, Zenon DEF Requoted
    <3>. QED
      BY <3>0, <3>5, Zenon
  <2>8. Leads(k, <<quote>>, Ps("string", n, quote, y), Ps("0", n, quote, o \o H!CharsOf(s)))
    BY <2>5, <2>6, <2>7, Zenon
  <2>9. Leads(k, w \o <<quote>>, Ps("string", n, quote, x), Ps("0", n, quote, o \o H!CharsOf(s)))
    BY <2>4, <2>8, LeadsThen
  <2>. QED
    BY <2>2, <2>9, ReachedZero
<1>. QED
  BY <1>1, <1>2, <1>4, TakesFirst

-------------------------------------------------------------------------------
(* The builder.  SqlBuilder parses its text with the prefix "%" and puts a   *)
(* text in the place of every variable it finds: an item o is replaced by    *)
(* Made, and a statement is the texts of its items, one behind the other.    *)

(* The list of n host variables that is put in the place of %v.              *)
ListText(n) == H!HvarList(ListName, ListName, n)

(* What the builder makes of an item: in its first pass a list of n host     *)
(* variables for %v, in its second one the table for %w.                     *)
Made(pass, n, item) ==
    IF H!IsVar(item)
    THEN IF pass = 1 THEN H!HvarList(item[2], ListName, n) ELSE H!Simple(item[2], TableName, Table)
    ELSE <<item[2]>>

(* The same of every item of a statement.                                    *)
MadeOf(pass, n, o) == [i \in DOMAIN o |-> Made(pass, n, o[i])]

(* The text that a pass of the builder leaves.                               *)
Rep(pass, n, o) == FlattenSeq(MadeOf(pass, n, o))

(* extendParam in these terms.                                               *)
LEMMA RepList ==
  ASSUME NEW s, NEW n PROVE H!ExtendParam(s, ListName, n) = Rep(1, n, H!ParseText(s, "%"))
<1>1. H!ExtendParam(s, ListName, n)
        = H!FlattenSeq([i \in DOMAIN H!ParseText(s, "%") |->
             IF H!IsVar(H!ParseText(s, "%")[i]) THEN H!HvarList(H!ParseText(s, "%")[i][2], ListName, n)
             ELSE <<H!ParseText(s, "%")[i][2]>>])
  BY Zenon DEF H!ExtendParam, H!Replaced, H!Builder
<1>2. [i \in DOMAIN H!ParseText(s, "%") |->
             IF H!IsVar(H!ParseText(s, "%")[i]) THEN H!HvarList(H!ParseText(s, "%")[i][2], ListName, n)
             ELSE <<H!ParseText(s, "%")[i][2]>>]
        = MadeOf(1, n, H!ParseText(s, "%"))
  BY DEF MadeOf, Made
<1>. QED
  BY <1>1, <1>2, FlattenSame, Zenon DEF Rep

(* replace in these terms.                                                   *)
LEMMA RepTable ==
  ASSUME NEW s, NEW n PROVE H!Replace(s, TableName, Table) = Rep(2, n, H!ParseText(s, "%"))
<1>1. H!Replace(s, TableName, Table)
        = H!FlattenSeq([i \in DOMAIN H!ParseText(s, "%") |->
             IF H!IsVar(H!ParseText(s, "%")[i]) THEN H!Simple(H!ParseText(s, "%")[i][2], TableName, Table)
             ELSE <<H!ParseText(s, "%")[i][2]>>])
  BY Zenon DEF H!Replace, H!Replaced, H!Builder
<1>2. [i \in DOMAIN H!ParseText(s, "%") |->
             IF H!IsVar(H!ParseText(s, "%")[i]) THEN H!Simple(H!ParseText(s, "%")[i][2], TableName, Table)
             ELSE <<H!ParseText(s, "%")[i][2]>>]
        = MadeOf(2, n, H!ParseText(s, "%"))
  BY DEF MadeOf, Made
<1>. QED
  BY <1>1, <1>2, FlattenSame, Zenon DEF Rep

(* The names of the list's elements.                                         *)
LEMMA NamesAre ==
  /\ H!ElementName(<<"v">>, 0) = <<"v", "0">> /\ H!ElementName(<<"v">>, 1) = <<"v", "1">>
<1>1. H!Numeral[1] = "0" /\ H!Numeral[2] = "1"
  BY DEF H!Numeral
<1>2. H!ElementName(<<"v">>, 0) = Append(<<"v">>, "0") /\ H!ElementName(<<"v">>, 1) = Append(<<"v">>, "1")
  BY <1>1 DEF H!ElementName
<1>3. "v" \in Symbol /\ "0" \in Symbol /\ "1" \in Symbol
  BY Symbols
<1>. QED
  BY <1>2, <1>3, Tuple2

(* A sequence of two elements.                                               *)
LEMMA PairOf ==
  ASSUME NEW U, NEW a \in U, NEW b \in U PROVE <<a>> \in Seq(U) /\ <<a, b>> = Append(<<a>>, b)
<1>1. <<a>> \in Seq(U) /\ Len(<<a>>) = 1 /\ <<a>>[1] = a
  OBVIOUS
<1>2. <<a, b>> \in Seq(U) /\ Len(<<a, b>>) = 2 /\ <<a, b>>[1] = a /\ <<a, b>>[2] = b
  OBVIOUS
<1>3. \A i \in 1..1 : i = 1
  OBVIOUS
<1>. QED
  BY <1>1, <1>2, <1>3, AppendEquals

(* FlattenSeq of two sequences.                                              *)
LEMMA FlattenTwo ==
  ASSUME NEW S, NEW s \in Seq(S), NEW t \in Seq(S) PROVE FlattenSeq(<<s, t>>) = s \o t
<1>1. <<s>> \in Seq(Seq(S)) /\ <<s, t>> = Append(<<s>>, t)
  BY PairOf
<1>2. FlattenSeq(Append(<<s>>, t)) = FlattenSeq(<<s>>) \o t
  BY <1>1, FlattenNext
<1>. QED
  BY <1>1, <1>2, FlattenOne

(* An element of the list with its comma.                                    *)
ElementOf(i) == (IF i = 1 THEN << >> ELSE <<",">>) \o <<":">> \o H!ElementName(ListName, i - 1)

(* The first element by its characters.                                      *)
LEMMA ThreeJoined ==
  ASSUME NEW a \in Symbol, NEW b \in Symbol, NEW c \in Symbol
  PROVE  << >> \o <<a>> \o <<b, c>> = <<a, b, c>>
<1>1. << >> \o <<a>> = <<a>> /\ <<a, b, c>> = <<a>> \o <<b, c>>
  BY TripleIs
<1>. QED
  BY <1>1

(* The second one by its characters.                                         *)
LEMMA FourJoined ==
  ASSUME NEW d \in Symbol, NEW a \in Symbol, NEW b \in Symbol, NEW c \in Symbol
  PROVE  <<d>> \o <<a>> \o <<b, c>> = <<d, a, b, c>>
<1>1. <<d>> \o <<a>> = <<d, a>>
  BY PairIs
<1>2. <<d, a, b, c>> = Append(<<d, a, b>>, c) /\ <<d, a, b>> = Append(<<d, a>>, b) /\ <<b, c>> = Append(<<b>>, c)
  BY Tuple4, Tuple3, Tuple2
<1>3. \A x \in Seq(Symbol) : Append(Append(x, b), c) = x \o Append(<<b>>, c)
  OBVIOUS
<1>4. <<d, a>> \in Seq(Symbol)
  BY TwoSymbols
<1>. QED
  BY <1>1, <1>2, <1>3, <1>4

(* Both elements.                                                            *)
LEMMA ElementsAre ==
  ElementOf(1) = <<":", "v", "0">> /\ ElementOf(2) = <<",", ":", "v", "1">>
<1>1. "v" \in Symbol /\ "0" \in Symbol /\ "1" \in Symbol /\ ":" \in Symbol /\ "," \in Symbol
  BY Symbols
<1>2. ListName = <<"v">> /\ 1 - 1 = 0 /\ 2 - 1 = 1 /\ 2 # 1
  BY DEF ListName
<1>3. H!ElementName(ListName, 1 - 1) = <<"v", "0">> /\ H!ElementName(ListName, 2 - 1) = <<"v", "1">>
  BY <1>2, NamesAre
<1>4. ElementOf(1) = << >> \o <<":">> \o <<"v", "0">>
  BY <1>3, Zenon DEF ElementOf
<1>5. ElementOf(2) = <<",">> \o <<":">> \o <<"v", "1">>
  BY <1>2, <1>3, Zenon DEF ElementOf
<1>7. << >> \o <<":">> \o <<"v", "0">> = <<":", "v", "0">>
  BY <1>1, ThreeJoined, Zenon
<1>8. <<",">> \o <<":">> \o <<"v", "1">> = <<",", ":", "v", "1">>
  BY <1>1, FourJoined, ZenonT(40)
<1>. QED
  BY <1>4, <1>5, <1>7, <1>8, Zenon

(* The list is its elements between blanks.                                  *)
LEMMA ListIs ==
  ASSUME NEW n \in 1..2
  PROVE  ListText(n) = <<"blank">> \o FlattenSeq([i \in 1..n |-> ElementOf(i)]) \o <<"blank">>
<1>1. n # 0
  OBVIOUS
<1>2. ListText(n) = <<"blank">> \o H!FlattenSeq([i \in 1..n |-> ElementOf(i)]) \o <<"blank">>
  BY <1>1, ZenonT(30) DEF ListText, H!HvarList, ElementOf
<1>3. H!FlattenSeq([i \in 1..n |-> ElementOf(i)]) = FlattenSeq([i \in 1..n |-> ElementOf(i)])
  BY FlattenSame, Zenon
<1>. QED
  BY <1>2, <1>3, ZenonT(30)

(* Texts of three and four symbols.                                          *)
LEMMA SomeSymbols ==
  \A a, b, c, d \in Symbol : <<a, b, c>> \in Seq(Symbol) /\ <<a, b, c, d>> \in Seq(Symbol)
  OBVIOUS

(* The list of no element, of one and of two.                                *)
LEMMA ListTexts ==
  /\ ListText(0) = <<"blank", "NULL", "blank">>
  /\ ListText(1) = <<"blank">> \o <<":", "v", "0">> \o <<"blank">>
  /\ ListText(2) = <<"blank">> \o (<<":", "v", "0">> \o <<",", ":", "v", "1">>) \o <<"blank">>
<1>1. "v" \in Symbol /\ "0" \in Symbol /\ "1" \in Symbol /\ ":" \in Symbol /\ "," \in Symbol
  BY Symbols
<1>2. <<":", "v", "0">> \in Seq(Symbol) /\ <<",", ":", "v", "1">> \in Seq(Symbol)
  BY <1>1, SomeSymbols, Zenon
<1>3. [i \in 1..1 |-> ElementOf(i)] = <<ElementOf(1)>>
  OBVIOUS
<1>4. [i \in 1..2 |-> ElementOf(i)] = <<ElementOf(1), ElementOf(2)>>
  <2>1. PICK a, b : a = ElementOf(1) /\ b = ElementOf(2)
    OBVIOUS
  <2>2. \A i \in 1..2 : i = 1 \/ i = 2
    OBVIOUS
  <2>3. [i \in 1..2 |-> IF i = 1 THEN a ELSE b] = <<a, b>>
    BY <2>2
  <2>4. \A i \in 1..2 : ElementOf(i) = IF i = 1 THEN a ELSE b
    BY <2>1, <2>2
  <2>. QED
    BY <2>1, <2>3, <2>4
<1>5. ListText(0) = <<"blank", "NULL", "blank">>
  BY DEF ListText, H!HvarList
<1>6. ListText(1) = <<"blank">> \o FlattenSeq([i \in 1..1 |-> ElementOf(i)]) \o <<"blank">>
  BY ListIs
<1>7. ListText(2) = <<"blank">> \o FlattenSeq([i \in 1..2 |-> ElementOf(i)]) \o <<"blank">>
  BY ListIs
<1>8. FlattenSeq(<<ElementOf(1)>>) = <<":", "v", "0">>
  BY <1>2, ElementsAre, FlattenOne
<1>9. FlattenSeq(<<ElementOf(1), ElementOf(2)>>) = <<":", "v", "0">> \o <<",", ":", "v", "1">>
  BY <1>2, ElementsAre, FlattenTwo
<1>. QED
  BY <1>3, <1>4, <1>5, <1>6, <1>7, <1>8, <1>9

(* The two passes of the builder.                                            *)
Pass == {1, 2}

(* The lengths of the list.                                                  *)
Counts == {0, 1, 2}

(* Putting together and appending.                                           *)
LEMMA JoinedNext ==
  ASSUME NEW S, NEW s \in Seq(S), NEW e \in Seq(S), NEW a \in S
  PROVE  /\ s \o Append(e, a) = Append(s \o e, a) /\ s \o e \in Seq(S) /\ Append(e, a) \in Seq(S)
         /\ s \o << >> = s
  OBVIOUS

(* The empty sequence.                                                       *)
LEMMA EmptyIn == ASSUME NEW S PROVE << >> \in Seq(S)
  OBVIOUS

(* Nothing put behind a sequence.                                            *)
LEMMA NothingBehind == ASSUME NEW S, NEW s \in Seq(S) PROVE s \o << >> = s
  OBVIOUS

(* An item is a name or a character.                                         *)
LEMMA VarIs ==
  ASSUME NEW item \in Item
  PROVE  /\ H!IsVar(item) => item[2] \in Seq(Symbol)
         /\ ~ H!IsVar(item) => item[2] \in Symbol
<1>1. CASE item \in {"char"} \X Symbol
  BY <1>1 DEF H!IsVar
<1>2. CASE item \in {"var"} \X Seq(Symbol)
  BY <1>2 DEF H!IsVar
<1>. QED
  BY <1>1, <1>2 DEF Item

(* A character stays.                                                        *)
LEMMA MadeChar == ASSUME NEW pass, NEW n, NEW a PROVE Made(pass, n, H!Char(a)) = <<a>>
<1>1. ~ H!IsVar(H!Char(a)) /\ H!Char(a)[2] = a
  BY DEF H!IsVar, H!Char
<1>. QED
  BY <1>1, Zenon DEF Made

(* A placeholder is replaced, by the event of the pass.                      *)
LEMMA MadeVar ==
  ASSUME NEW n, NEW w
  PROVE  /\ Made(1, n, H!Var(w)) = H!HvarList(w, ListName, n)
         /\ Made(2, n, H!Var(w)) = H!Simple(w, TableName, Table)
<1>1. H!IsVar(H!Var(w)) /\ H!Var(w)[2] = w
  BY DEF H!IsVar, H!Var
<1>2. 2 # 1
  OBVIOUS
<1>. QED
  BY <1>1, <1>2, Zenon DEF Made

(* The list is a text.                                                       *)
LEMMA ListType == ASSUME NEW n \in Counts PROVE ListText(n) \in Seq(Symbol)
<1>1. /\ "v" \in Symbol /\ "0" \in Symbol /\ "1" \in Symbol /\ ":" \in Symbol /\ "," \in Symbol /\ "blank" \in Symbol
      /\ "NULL" \in Symbol
  BY Symbols
<1>2. /\ <<"blank">> \in Seq(Symbol) /\ <<":", "v", "0">> \in Seq(Symbol) /\ <<",", ":", "v", "1">> \in Seq(Symbol)
      /\ <<"blank", "NULL", "blank">> \in Seq(Symbol)
  BY <1>1, OneSymbol, SomeSymbols, Zenon
<1>3. \A x, y \in Seq(Symbol) : x \o y \in Seq(Symbol)
  OBVIOUS
<1>4. /\ <<"blank">> \o <<":", "v", "0">> \in Seq(Symbol)
      /\ <<":", "v", "0">> \o <<",", ":", "v", "1">> \in Seq(Symbol)
  BY <1>2, <1>3, Zenon
<1>6. <<"blank">> \o (<<":", "v", "0">> \o <<",", ":", "v", "1">>) \in Seq(Symbol)
  BY <1>2, <1>3, <1>4, Zenon
<1>7. ListText(1) \in Seq(Symbol)
  BY <1>2, <1>3, <1>4, ListTexts, Zenon
<1>8. ListText(2) \in Seq(Symbol)
  BY <1>2, <1>3, <1>6, ListTexts, Zenon
<1>5. ListText(0) \in Seq(Symbol)
  BY <1>2, ListTexts, Zenon
<1>. QED
  BY <1>5, <1>7, <1>8 DEF Counts

(* The table is a text.                                                      *)
LEMMA TableType == Table \in Seq(Symbol)
<1>1. "t" \in Symbol /\ "blank" \in Symbol /\ ":" \in Symbol /\ "a" \in Symbol
  BY Symbols
<1>. QED
  BY <1>1, SomeSymbols, Zenon DEF Table

(* Another placeholder is written again.                                     *)
LEMMA OtherName ==
  ASSUME NEW n, NEW w
  PROVE  /\ w # ListName => H!HvarList(w, ListName, n) = <<"%">> \o w
         /\ w # TableName => H!Simple(w, TableName, Table) = <<"%">> \o w
         /\ H!Simple(TableName, TableName, Table) = Table
  BY Zenon DEF H!HvarList, H!Simple, H!Builder

(* What is made of an item is a text.                                        *)
LEMMA MadeType ==
  ASSUME NEW pass \in Pass, NEW n \in Counts, NEW item \in Item
  PROVE  Made(pass, n, item) \in Seq(Symbol)
<1>1. CASE ~ H!IsVar(item)
  <2>1. item[2] \in Symbol
    BY <1>1, VarIs
  <2>2. <<item[2]>> \in Seq(Symbol)
    BY <2>1, OneSymbol
  <2>. QED
    BY <1>1, <2>2, Zenon DEF Made
<1>2. CASE H!IsVar(item)
  <2>1. PICK w \in Seq(Symbol) : w = item[2]
    BY <1>2, VarIs
  <2>2. <<"%">> \o w \in Seq(Symbol)
    <3>1. "%" \in Symbol
      BY Symbols
    <3>. QED
      BY <3>1
  <2>3. H!HvarList(w, ListName, n) \in Seq(Symbol)
    BY <2>2, OtherName, ListType, Zenon DEF ListText
  <2>4. H!Simple(w, TableName, Table) \in Seq(Symbol)
    BY <2>2, OtherName, TableType, Zenon
  <2>. QED
    BY <1>2, <2>1, <2>3, <2>4, Zenon DEF Made
<1>. QED
  BY <1>1, <1>2

(* Nothing is made of nothing.                                               *)
LEMMA RepEmpty == ASSUME NEW pass, NEW n PROVE Rep(pass, n, << >>) = << >>
<1>1. MadeOf(pass, n, << >>) = << >>
  BY DEF MadeOf
<1>. QED
  BY <1>1, FlattenEmpty DEF Rep

(* One more item is one more text.                                           *)
LEMMA RepNext ==
  ASSUME NEW pass \in Pass, NEW n \in Counts, NEW o \in Seq(Item), NEW item \in Item
  PROVE  /\ Rep(pass, n, o) \in Seq(Symbol)
         /\ Rep(pass, n, Append(o, item)) = Rep(pass, n, o) \o Made(pass, n, item)
<1>1. \A i \in Item : Made(pass, n, i) \in Seq(Symbol)
  BY MadeType
<1>2. DOMAIN o = 1..Len(o) /\ Len(o) \in Nat /\ \A i \in 1..Len(o) : o[i] \in Item
  OBVIOUS
<1>3. MadeOf(pass, n, o) \in Seq(Seq(Symbol))
  <2>1. MadeOf(pass, n, o) = [i \in 1..Len(o) |-> Made(pass, n, o[i])]
    BY <1>2 DEF MadeOf
  <2>. QED
    BY <1>1, <1>2, <2>1
<1>4. MadeOf(pass, n, Append(o, item)) = Append(MadeOf(pass, n, o), Made(pass, n, item))
  BY DEF MadeOf
<1>5. FlattenSeq(Append(MadeOf(pass, n, o), Made(pass, n, item))) = FlattenSeq(MadeOf(pass, n, o)) \o Made(pass, n, item)
  BY <1>1, <1>3, FlattenNext
<1>6. FlattenSeq(MadeOf(pass, n, o)) \in Seq(Symbol)
  BY <1>3, FlattenType
<1>. QED
  BY <1>4, <1>5, <1>6, Zenon DEF Rep

(* What is made of one item.                                                 *)
LEMMA RepOne ==
  ASSUME NEW pass \in Pass, NEW n \in Counts, NEW item \in Item
  PROVE  Rep(pass, n, <<item>>) = Made(pass, n, item)
<1>1. << >> \in Seq(Item) /\ <<item>> = Append(<< >>, item)
  BY LongerText, EmptyIn
<1>2. Rep(pass, n, Append(<< >>, item)) = Rep(pass, n, << >>) \o Made(pass, n, item)
  BY <1>1, RepNext
<1>4. Rep(pass, n, << >>) = << >>
  BY RepEmpty
<1>5. \A s \in Seq(Symbol) : << >> \o s = s
  OBVIOUS
<1>3. Made(pass, n, item) \in Seq(Symbol)
  BY MadeType
<1>. QED
  BY <1>1, <1>2, <1>3, <1>4, <1>5

(* What is made of two statements put together.                              *)
LEMMA RepConcat ==
  ASSUME NEW pass \in Pass, NEW n \in Counts, NEW o \in Seq(Item), NEW m \in Seq(Item)
  PROVE  Rep(pass, n, o \o m) = Rep(pass, n, o) \o Rep(pass, n, m)
<1> DEFINE U == {e \in Seq(Item) : Rep(pass, n, o \o e) = Rep(pass, n, o) \o Rep(pass, n, e)}
<1>1. \A e \in Seq(Item) : Rep(pass, n, e) \in Seq(Symbol)
  <2>1. \E i : i \in Item
    <3>1. "x" \in Symbol
      BY Symbols
    <3>2. H!Char("x") \in Item
      BY <3>1 DEF H!Char, Item
    <3>. QED
      BY <3>2
  <2>. QED
    BY <2>1, RepNext
<1>2. << >> \in U
  <2>1. \E i : i \in Item
    <3>1. "x" \in Symbol
      BY Symbols
    <3>2. H!Char("x") \in Item
      BY <3>1 DEF H!Char, Item
    <3>. QED
      BY <3>2
  <2>4. o \o << >> = o
    BY <2>1, JoinedNext
  <2>2. Rep(pass, n, o) \o << >> = Rep(pass, n, o)
    BY <1>1, NothingBehind
  <2>5. Rep(pass, n, << >>) = << >> /\ << >> \in Seq(Item)
    BY RepEmpty, EmptyIn
  <2>. QED
    BY <2>2, <2>4, <2>5
<1>3. ASSUME NEW e \in Seq(Item), NEW a \in Item, e \in U PROVE Append(e, a) \in U
  <2>1. o \o Append(e, a) = Append(o \o e, a) /\ o \o e \in Seq(Item) /\ Append(e, a) \in Seq(Item)
    BY JoinedNext
  <2>2. Rep(pass, n, Append(o \o e, a)) = Rep(pass, n, o \o e) \o Made(pass, n, a)
    BY <2>1, RepNext
  <2>3. Rep(pass, n, Append(e, a)) = Rep(pass, n, e) \o Made(pass, n, a)
    BY RepNext
  <2>4. Rep(pass, n, o \o e) = Rep(pass, n, o) \o Rep(pass, n, e)
    BY <1>3
  <2>5. /\ Rep(pass, n, o) \in Seq(Symbol) /\ Rep(pass, n, e) \in Seq(Symbol) /\ Made(pass, n, a) \in Seq(Symbol)
    BY <1>1, MadeType
  <2>6. (Rep(pass, n, o) \o Rep(pass, n, e)) \o Made(pass, n, a) = Rep(pass, n, o) \o (Rep(pass, n, e) \o Made(pass, n, a))
    <3>1. PICK x \in Seq(Symbol), y \in Seq(Symbol), z \in Seq(Symbol) : x = Rep(pass, n, o) /\ y = Rep(pass, n, e) /\ z = Made(pass, n, a)
      BY <2>5
    <3>2. (x \o y) \o z = x \o (y \o z)
      BY Joined
    <3>. QED
      BY <3>1, <3>2, Zenon
  <2>. QED
    BY <2>1, <2>2, <2>3, <2>4, <2>6
<1>4. \A e \in Seq(Item) : e \in U
  <2> HIDE DEF U
  <2>. QED
    BY <1>2, <1>3, SequencesGrow
<1>. QED
  BY <1>4

(* A pass leaves characters as they are.                                     *)
LEMMA RepChars ==
  ASSUME NEW pass \in Pass, NEW n \in Counts, NEW w \in Seq(Symbol)
  PROVE  Rep(pass, n, H!CharsOf(w)) = w
<1> DEFINE U == {v \in Seq(Symbol) : Rep(pass, n, H!CharsOf(v)) = v}
<1>1. << >> \in U
  <2>1. H!CharsOf(<< >>) = << >>
    BY DEF H!CharsOf
  <2>. QED
    BY <2>1, RepEmpty
<1>2. ASSUME NEW v \in Seq(Symbol), NEW a \in Symbol, v \in U PROVE Append(v, a) \in U
  <2>1. Append(v, a) = v \o <<a>> /\ <<a>> \in Seq(Symbol) /\ Append(v, a) \in Seq(Symbol)
    BY LongerText
  <2>2. H!CharsOf(v \o <<a>>) = H!CharsOf(v) \o H!CharsOf(<<a>>)
    BY <2>1, CharsConcat
  <2>3. H!CharsOf(<<a>>) = <<H!Char(a)>> /\ H!Char(a) \in Item
    BY CharsOne DEF H!Char, Item
  <2>4. H!CharsOf(v) \in Seq(Item) /\ H!CharsOf(<<a>>) \in Seq(Item)
    BY <2>1, CharsAre
  <2>5. Rep(pass, n, H!CharsOf(v) \o H!CharsOf(<<a>>)) = Rep(pass, n, H!CharsOf(v)) \o Rep(pass, n, H!CharsOf(<<a>>))
    BY <2>4, RepConcat
  <2>6. Rep(pass, n, H!CharsOf(<<a>>)) = <<a>>
    BY <2>3, RepOne, MadeChar
  <2>7. Rep(pass, n, H!CharsOf(v)) = v
    BY <1>2
  <2>. QED
    BY <2>1, <2>2, <2>5, <2>6, <2>7
<1>3. \A v \in Seq(Symbol) : v \in U
  <2> HIDE DEF U
  <2>. QED
    BY <1>1, <1>2, SequencesGrow
<1>. QED
  BY <1>3

-------------------------------------------------------------------------------
(* The pieces that are written, for each of the parsers they go through.     *)

(* The character may follow a name.                                          *)
Good(c) == c \notin NameSet /\ c \notin H!Quotes

(* The first characters of all pieces but strings may.                       *)
LEMMA GoodOnes == \A c \in {"x", ":", "\\", "%", "blank", "t", ","} : Good(c)
  BY DEF Good, NameSet, H!Quotes

(* Both prefixes.                                                            *)
LEMMA TwoPrefixes == ":" \in Prefix /\ "%" \in Prefix
  BY DEF Prefix

(* The plain characters of the pieces.                                       *)
LEMMA PlainOnes ==
  /\ {"x", "blank", "t", "NULL", "a", "v", "0", "1", ","} \subseteq PlainSet("%")
  /\ {"x", "blank", "t", "NULL", "a", "v", "0", "1", ","} \subseteq PlainSet(":")
  /\ ":" \in PlainSet("%")
<1>1. {"x", "blank", "t", "NULL", "a", "v", "0", "1", ",", ":"} \subseteq Symbol
  BY Symbols
<1>2. \A c \in {"x", "blank", "t", "NULL", "a", "v", "0", "1", ",", ":"} : c # "%" /\ c # "\\" /\ c \notin H!Quotes
  BY DEF H!Quotes
<1>3. \A c \in {"x", "blank", "t", "NULL", "a", "v", "0", "1", ","} : c # ":"
  OBVIOUS
<1>. QED
  BY <1>1, <1>2, <1>3 DEF PlainSet

(* Texts of one, two and three elements.                                     *)
LEMMA TextsOf ==
  ASSUME NEW S, NEW a \in S, NEW b \in S, NEW c \in S
  PROVE  /\ <<a>> \in Seq(S) /\ <<a, b>> \in Seq(S) /\ <<a, b, c>> \in Seq(S)
         /\ <<a>>[1] = a /\ <<a, b>>[1] = a /\ <<a, b, c>>[1] = a
         /\ <<a>> # << >> /\ <<a, b>> # << >> /\ <<a, b, c>> # << >>
  OBVIOUS

(* The pieces that both passes of the builder leave as they are.             *)
LEMMA BuilderLeaves ==
  /\ Takes("%", "x", <<"x">>, H!CharsOf(<<"x">>), "0")
  /\ Takes("%", ":", <<":", ":">>, H!CharsOf(<<":", ":">>), "0")
  /\ Takes("%", ":", <<":", "a">>, H!CharsOf(<<":", "a">>), "0")
  /\ Takes("%", ":", <<":", "v", "0">>, H!CharsOf(<<":", "v", "0">>), "0")
<1> DEFINE S == PlainSet("%")
<1>1. "x" \in S /\ ":" \in S /\ "a" \in S /\ "v" \in S /\ "0" \in S
  BY PlainOnes
<1>2. "%" \in Prefix
  BY TwoPrefixes
<1> HIDE DEF S
<1>3. <<"x">> \in Seq(S) /\ <<"x">>[1] = "x" /\ <<"x">> # << >>
  BY <1>1, TextsOf
<1>4. <<":", ":">> \in Seq(S) /\ <<":", ":">>[1] = ":" /\ <<":", ":">> # << >>
  BY <1>1, TextsOf
<1>5. <<":", "a">> \in Seq(S) /\ <<":", "a">>[1] = ":" /\ <<":", "a">> # << >>
  BY <1>1, TextsOf
<1>6. <<":", "v", "0">> \in Seq(S) /\ <<":", "v", "0">>[1] = ":" /\ <<":", "v", "0">> # << >>
  BY <1>1, TextsOf
<1>7. \A w \in Seq(S) : w # << >> => Takes("%", w[1], w, H!CharsOf(w), "0")
  BY <1>2, PlainText DEF S
<1>8. Takes("%", "x", <<"x">>, H!CharsOf(<<"x">>), "0")
  BY <1>3, <1>7
<1>9. Takes("%", ":", <<":", ":">>, H!CharsOf(<<":", ":">>), "0")
  BY <1>4, <1>7
<1>10. Takes("%", ":", <<":", "a">>, H!CharsOf(<<":", "a">>), "0")
  BY <1>5, <1>7
<1>11. Takes("%", ":", <<":", "v", "0">>, H!CharsOf(<<":", "v", "0">>), "0")
  BY <1>6, <1>7
<1>. QED
  BY <1>8, <1>9, <1>10, <1>11

(* What the parser of a driver makes of them.                                *)
LEMMA DriverTakes ==
  /\ Takes(":", "x", <<"x">>, H!CharsOf(<<"x">>), "0")
  /\ Takes(":", ":", <<":", ":">>, H!CharsOf(<<":", ":">>), "0")
  /\ Takes(":", ":", <<":", "a">>, <<H!Var(<<"a">>)>>, "name")
  /\ Takes(":", ":", <<":", "v", "0">>, <<H!Var(<<"v", "0">>)>>, "name")
  /\ Takes(":", ":", <<":", "v", "1">>, <<H!Var(<<"v", "1">>)>>, "name")
<1>1. ":" \in Prefix /\ "x" \in PlainSet(":")
  BY TwoPrefixes, PlainOnes
<1>2. Takes(":", "x", <<"x">>, H!CharsOf(<<"x">>), "0")
  BY <1>1, TakesPlain
<1>3. Takes(":", ":", <<":", ":">>, H!CharsOf(<<":", ":">>), "0")
  BY <1>1, TakesTwice
<1>4. "a" \in LetterSet /\ "v" \in LetterSet /\ "0" \in NameSet \cap Symbol /\ "1" \in NameSet \cap Symbol
  BY Symbols DEF LetterSet, NameSet
<1>5. Takes(":", ":", <<":", "a">>, <<H!Var(<<"a">>)>>, "name")
  BY <1>1, <1>4, TakesName
<1>6. Takes(":", ":", <<":", "v", "0">>, <<H!Var(<<"v", "0">>)>>, "name")
  BY <1>1, <1>4, TakesLonger
<1>7. Takes(":", ":", <<":", "v", "1">>, <<H!Var(<<"v", "1">>)>>, "name")
  BY <1>1, <1>4, TakesLonger
<1>. QED
  BY <1>2, <1>3, <1>5, <1>6, <1>7

(* What the builder makes of its placeholders.                               *)
LEMMA PlaceholderTakes ==
  /\ Takes("%", "%", <<"%", "v">>, <<H!Var(<<"v">>)>>, "name")
  /\ Takes("%", "%", <<"%", "w">>, <<H!Var(<<"w">>)>>, "name")
<1>1. "%" \in Prefix /\ "v" \in LetterSet /\ "w" \in LetterSet
  BY TwoPrefixes DEF LetterSet
<1>. QED
  BY <1>1, TakesName

(* x is the text e with one more element, and is appended to s as these are. *)
AppendedTo(s, e, a, x) == x = e \o <<a>> /\ Append(s \o e, a) = s \o x

(* There is one.                                                             *)
LEMMA AppendBehind ==
  ASSUME NEW S, NEW s \in Seq(S), NEW e \in Seq(S), NEW a \in S
  PROVE  \E x \in Seq(S) : AppendedTo(s, e, a, x)
<1>1. s \o Append(e, a) = Append(s \o e, a) /\ Append(e, a) \in Seq(S)
  BY JoinedNext
<1>2. Append(e, a) = e \o <<a>>
  BY LongerText
<1>. QED
  BY <1>1, <1>2 DEF AppendedTo

(* A text of five symbols in the parts of a string.                          *)
IsFive(t, a, v, d, e) == t = <<a>> \o ((v \o <<d>>) \o <<e>>)

(* A text of four.                                                           *)
IsFour(t, a, v, d) == t = <<a>> \o (v \o <<d>>)

(* Any text of four symbols has these parts.                                 *)
LEMMA FourPaired ==
  ASSUME NEW a \in Symbol, NEW b \in Symbol, NEW c \in Symbol, NEW d \in Symbol
  PROVE  IsFour(<<a, b, c, d>>, a, <<b, c>>, d)
<1>1. <<a, b, c, d>> = Append(<<a, b, c>>, d)
  BY Tuple4
<1>2. <<a, b, c>> = <<a>> \o <<b, c>> /\ <<b, c>> \in Seq(Symbol) /\ <<a>> \in Seq(Symbol)
  <2>1. <<a, b, c>> = <<a>> \o <<b, c>>
    BY TripleIs
  <2>2. <<b, c>> \in Seq(Symbol)
    BY TwoSymbols
  <2>3. <<a>> \in Seq(Symbol)
    BY OneSymbol
  <2>. QED
    BY <2>1, <2>2, <2>3, Zenon
<1>3. PICK v \in Seq(Symbol), w \in Seq(Symbol) : v = <<a>> /\ w = <<b, c>>
  BY <1>2
<1>4. PICK x \in Seq(Symbol) : AppendedTo(v, w, d, x)
  BY AppendBehind
<1>5. x = w \o <<d>> /\ Append(v \o w, d) = v \o x
  BY <1>4 DEF AppendedTo
<1>. QED
  BY <1>1, <1>2, <1>3, <1>5, Zenon DEF IsFour

(* Any text of five has them.                                                *)
LEMMA FivePaired ==
  ASSUME NEW a \in Symbol, NEW b \in Symbol, NEW c \in Symbol, NEW d \in Symbol, NEW e \in Symbol
  PROVE  IsFive(<<a, b, c, d, e>>, a, <<b, c>>, d, e)
<1>1. <<a, b, c, d, e>> = Append(<<a, b, c, d>>, e) /\ <<a, b, c, d>> = Append(<<a, b, c>>, d)
  BY Tuple5, Tuple4
<1>2. <<a, b, c>> = <<a>> \o <<b, c>> /\ <<b, c>> \in Seq(Symbol) /\ <<a>> \in Seq(Symbol)
  <2>1. <<a, b, c>> = <<a>> \o <<b, c>>
    BY TripleIs
  <2>2. <<b, c>> \in Seq(Symbol)
    BY TwoSymbols
  <2>3. <<a>> \in Seq(Symbol)
    BY OneSymbol
  <2>. QED
    BY <2>1, <2>2, <2>3, Zenon
<1>3. PICK v \in Seq(Symbol), w \in Seq(Symbol) : v = <<a>> /\ w = <<b, c>>
  BY <1>2
<1>4. PICK x \in Seq(Symbol) : AppendedTo(v, w, d, x)
  BY AppendBehind
<1>5. x = w \o <<d>> /\ Append(v \o w, d) = v \o x
  BY <1>4 DEF AppendedTo
<1>6. PICK y \in Seq(Symbol) : AppendedTo(v, x, e, y)
  BY AppendBehind
<1>7. y = x \o <<e>> /\ Append(v \o x, e) = v \o y
  BY <1>6 DEF AppendedTo
<1>. QED
  BY <1>1, <1>2, <1>3, <1>5, <1>7, Zenon DEF IsFive

(* The strings that are written, for both parsers.                           *)
LEMMA StringWords ==
  ASSUME NEW k \in Prefix
  PROVE  /\ Takes(k, "'", <<"'", ":", "a", "'">>, H!CharsOf(<<"'", ":", "a", "'">>), "0")
         /\ Takes(k, "\"", <<"\"", "%", "v", "'", "\"">>, H!CharsOf(<<"\"", "%", "v", "'", "\"">>), "0")
         /\ Takes(k, "'", <<"'", "\\", "x", ":", "'">>, H!CharsOf(<<"'", "\\", "x", ":", "'">>), "0")
<1>1. /\ "'" \in H!Quotes \cap Symbol /\ "\"" \in H!Quotes \cap Symbol
      /\ ":" \in Symbol /\ "a" \in Symbol /\ "%" \in Symbol /\ "v" \in Symbol /\ "x" \in Symbol /\ "\\" \in Symbol
  BY Symbols DEF H!Quotes
<1>2. Inside(k, "'", <<":">>) /\ Inside(k, "'", <<"a">>) /\ Inside(k, "'", <<"\\", "x">>)
  BY <1>1, InsideOne, InsideEscaped
<1>3. Inside(k, "\"", <<"%">>) /\ Inside(k, "\"", <<"v">>) /\ Inside(k, "\"", <<"'">>)
  BY <1>1, InsideOne
<1>4. Inside(k, "'", <<":">> \o <<"a">>)
  BY <1>2, InsideThen
<1>5. Inside(k, "\"", <<"%">> \o <<"v">>)
  BY <1>3, InsideThen
<1>6. Inside(k, "\"", (<<"%">> \o <<"v">>) \o <<"'">>)
  BY <1>3, <1>5, InsideThen
<1>7. Inside(k, "'", <<"\\", "x">> \o <<":">>)
  BY <1>2, InsideThen
<1>8. <<"'", ":", "a", "'">> = <<"'">> \o ((<<":">> \o <<"a">>) \o <<"'">>)
  <2>1. IsFour(<<"'", ":", "a", "'">>, "'", <<":", "a">>, "'")
    BY <1>1, FourPaired
  <2>2. <<":", "a">> = <<":">> \o <<"a">>
    BY <1>1, PairIs
  <2>. QED
    BY <2>1, <2>2, Zenon DEF IsFour
<1>9. <<"\"", "%", "v", "'", "\"">> = <<"\"">> \o (((<<"%">> \o <<"v">>) \o <<"'">>) \o <<"\"">>)
  <2>1. IsFive(<<"\"", "%", "v", "'", "\"">>, "\"", <<"%", "v">>, "'", "\"")
    BY <1>1, FivePaired
  <2>2. <<"%", "v">> = <<"%">> \o <<"v">>
    BY <1>1, PairIs
  <2>. QED
    BY <2>1, <2>2, Zenon DEF IsFive
<1>10. <<"'", "\\", "x", ":", "'">> = <<"'">> \o ((<<"\\", "x">> \o <<":">>) \o <<"'">>)
  <2>1. IsFive(<<"'", "\\", "x", ":", "'">>, "'", <<"\\", "x">>, ":", "'")
    BY <1>1, FivePaired
  <2>. QED
    BY <2>1, Zenon DEF IsFive
<1>11. Takes(k, "'", <<"'", ":", "a", "'">>, H!CharsOf(<<"'", ":", "a", "'">>), "0")
  BY <1>1, <1>4, <1>8, StringTaken
<1>12. Takes(k, "\"", <<"\"", "%", "v", "'", "\"">>, H!CharsOf(<<"\"", "%", "v", "'", "\"">>), "0")
  BY <1>1, <1>6, <1>9, StringTaken
<1>13. Takes(k, "'", <<"'", "\\", "x", ":", "'">>, H!CharsOf(<<"'", "\\", "x", ":", "'">>), "0")
  BY <1>1, <1>7, <1>10, StringTaken
<1>. QED
  BY <1>11, <1>12, <1>13

(* A text is its first symbol and the rest.                                  *)
IsMore(t, a, v) == t = <<a>> \o v

(* So is a text of four symbols.                                             *)
LEMMA QuadIs ==
  ASSUME NEW a \in Symbol, NEW b \in Symbol, NEW c \in Symbol, NEW d \in Symbol
  PROVE  <<b, c, d>> \in Seq(Symbol) /\ IsMore(<<a, b, c, d>>, a, <<b, c, d>>)
<1>1. /\ <<a, b, c, d>> = Append(<<a, b, c>>, d) /\ <<b, c, d>> = Append(<<b, c>>, d) /\ <<a, b, c>> = <<a>> \o <<b, c>>
      /\ <<a>> \in Seq(Symbol) /\ <<b, c>> \in Seq(Symbol) /\ <<b, c, d>> \in Seq(Symbol)
  <2>1. <<a, b, c, d>> = Append(<<a, b, c>>, d)
    BY Tuple4
  <2>2. <<b, c, d>> = Append(<<b, c>>, d)
    BY Tuple3
  <2>3. <<a, b, c>> = <<a>> \o <<b, c>> /\ <<b, c>> \in Seq(Symbol)
    BY TripleIs
  <2>4. <<a>> \in Seq(Symbol) /\ <<b, c, d>> \in Seq(Symbol)
    BY OneSymbol, SomeSymbols
  <2>. QED
    BY <2>1, <2>2, <2>3, <2>4, Zenon
<1>2. \A s, t \in Seq(Symbol) : Append(s \o t, d) = s \o Append(t, d)
  OBVIOUS
<1>. QED
  BY <1>1, <1>2 DEF IsMore

-------------------------------------------------------------------------------
(* What the placeholders of the builder mean.                                *)

(* What the list of the builder means.                                       *)
ListMeaning(n) ==
    H!CharsOf(<<"blank">>)
      \o (IF n = 0 THEN H!CharsOf(<<"NULL">>) ELSE ListOf(H!ElementNames(ListName, n)))
      \o H!CharsOf(<<"blank">>)

(* The host variables of a list of one and of two elements.                  *)
LEMMA NamesMeant ==
  /\ ListOf(<<<<"v", "0">>>>) = <<H!Var(<<"v", "0">>)>>
  /\ ListOf(<<<<"v", "0">>, <<"v", "1">>>>)
       = <<H!Var(<<"v", "0">>)>> \o (H!CharsOf(<<",">>) \o <<H!Var(<<"v", "1">>)>>)
<1>1. PICK a, b : a = <<"v", "0">> /\ b = <<"v", "1">>
  OBVIOUS
<1>2. a \in Seq(Symbol) /\ b \in Seq(Symbol)
  <2>1. "v" \in Symbol /\ "0" \in Symbol /\ "1" \in Symbol
    BY Symbols
  <2>. QED
    BY <1>1, <2>1, TwoSymbols
<1>3. <<H!Var(a)>> \in Seq(Item) /\ <<H!Var(b)>> \in Seq(Item)
  BY <1>2, VarItem
<1>4. H!CharsOf(<<",">>) \in Seq(Item)
  <2>1. "," \in Symbol
    BY Symbols
  <2>. QED
    BY <2>1, OneSymbol, CharsAre
<1> DEFINE E(names, i) == (IF i = 1 THEN << >> ELSE H!CharsOf(<<",">>)) \o <<H!Var(names[i])>>
<1>5. E(<<a>>, 1) = <<H!Var(a)>> /\ E(<<a, b>>, 1) = <<H!Var(a)>>
  <2>1. \A s \in Seq(Item) : << >> \o s = s
    OBVIOUS
  <2>2. <<a>>[1] = a /\ <<a, b>>[1] = a
    OBVIOUS
  <2>3. E(<<a>>, 1) = << >> \o <<H!Var(a)>> /\ E(<<a, b>>, 1) = << >> \o <<H!Var(a)>>
    BY <2>2, Zenon
  <2>. QED
    BY <1>3, <2>1, <2>3
<1>6. E(<<a, b>>, 2) = H!CharsOf(<<",">>) \o <<H!Var(b)>>
  <2>1. <<a, b>>[2] = b /\ 2 # 1
    OBVIOUS
  <2>. QED
    BY <2>1, Zenon
<1>7. ListOf(<<a>>) = FlattenSeq([i \in DOMAIN <<a>> |-> E(<<a>>, i)])
  BY Zenon DEF ListOf
<1>8. ListOf(<<a, b>>) = FlattenSeq([i \in DOMAIN <<a, b>> |-> E(<<a, b>>, i)])
  BY Zenon DEF ListOf
<1> HIDE DEF E
<1>9. [i \in DOMAIN <<a>> |-> E(<<a>>, i)] = <<E(<<a>>, 1)>>
  OBVIOUS
<1>10. [i \in DOMAIN <<a, b>> |-> E(<<a, b>>, i)] = <<E(<<a, b>>, 1), E(<<a, b>>, 2)>>
  <2>1. PICK c, d : c = E(<<a, b>>, 1) /\ d = E(<<a, b>>, 2)
    OBVIOUS
  <2>2. DOMAIN <<a, b>> = 1..2 /\ \A i \in 1..2 : i = 1 \/ i = 2
    OBVIOUS
  <2>3. [i \in 1..2 |-> IF i = 1 THEN c ELSE d] = <<c, d>>
    BY <2>2
  <2>4. \A i \in 1..2 : E(<<a, b>>, i) = IF i = 1 THEN c ELSE d
    BY <2>1, <2>2
  <2>. QED
    BY <2>1, <2>2, <2>3, <2>4
<1>11. PICK x \in Seq(Item), y \in Seq(Item) : x = <<H!Var(a)>> /\ y = H!CharsOf(<<",">>) \o <<H!Var(b)>>
  <2>1. \A s, t \in Seq(Item) : s \o t \in Seq(Item)
    OBVIOUS
  <2>. QED
    BY <1>3, <1>4, <2>1
<1>12. FlattenSeq(<<x>>) = x /\ FlattenSeq(<<x, y>>) = x \o y
  BY FlattenOne, FlattenTwo
<1>13. ListOf(<<a>>) = x
  BY <1>5, <1>7, <1>9, <1>11, <1>12, Zenon
<1>14. ListOf(<<a, b>>) = x \o y
  BY <1>5, <1>6, <1>8, <1>10, <1>11, <1>12, Zenon
<1>. QED
  BY <1>1, <1>11, <1>13, <1>14, Zenon

(* Their names.                                                              *)
LEMMA ElementNamesAre ==
  /\ H!ElementNames(ListName, 1) = <<<<"v", "0">>>>
  /\ H!ElementNames(ListName, 2) = <<<<"v", "0">>, <<"v", "1">>>>
<1>1. ListName = <<"v">> /\ 1 - 1 = 0 /\ 2 - 1 = 1
  BY DEF ListName
<1>2. H!ElementName(ListName, 1 - 1) = <<"v", "0">> /\ H!ElementName(ListName, 2 - 1) = <<"v", "1">>
  BY <1>1, NamesAre
<1>3. PICK a, b : a = <<"v", "0">> /\ b = <<"v", "1">>
  OBVIOUS
<1>4. \A i \in 1..2 : i = 1 \/ i = 2
  OBVIOUS
<1>5. \A i \in 1..2 : H!ElementName(ListName, i - 1) = IF i = 1 THEN a ELSE b
  BY <1>2, <1>3, <1>4
<1>6. [i \in 1..2 |-> IF i = 1 THEN a ELSE b] = <<a, b>>
  BY <1>4
<1>7. H!ElementNames(ListName, 2) = <<a, b>>
  BY <1>5, <1>6 DEF H!ElementNames
<1>8. \A i \in 1..1 : i = 1
  OBVIOUS
<1>9. \A i \in 1..1 : H!ElementName(ListName, i - 1) = a
  BY <1>2, <1>3, <1>8
<1>10. [i \in 1..1 |-> a] = <<a>>
  BY <1>8
<1>11. H!ElementNames(ListName, 1) = <<a>>
  BY <1>9, <1>10 DEF H!ElementNames
<1>. QED
  BY <1>3, <1>7, <1>11, Zenon

(* What the list of no element, of one and of two means.                     *)
LEMMA ListMeanings ==
  /\ ListMeaning(0) = H!CharsOf(<<"blank">>) \o H!CharsOf(<<"NULL">>) \o H!CharsOf(<<"blank">>)
  /\ ListMeaning(1) = H!CharsOf(<<"blank">>) \o <<H!Var(<<"v", "0">>)>> \o H!CharsOf(<<"blank">>)
  /\ ListMeaning(2) = H!CharsOf(<<"blank">>)
                        \o (<<H!Var(<<"v", "0">>)>> \o (H!CharsOf(<<",">>) \o <<H!Var(<<"v", "1">>)>>))
                        \o H!CharsOf(<<"blank">>)
<1>1. 1 # 0 /\ 2 # 0
  OBVIOUS
<1>2. /\ ListOf(H!ElementNames(ListName, 1)) = <<H!Var(<<"v", "0">>)>>
      /\ ListOf(H!ElementNames(ListName, 2)) = <<H!Var(<<"v", "0">>)>> \o (H!CharsOf(<<",">>) \o <<H!Var(<<"v", "1">>)>>)
  BY NamesMeant, ElementNamesAre, Zenon
<1>. QED
  BY <1>1, <1>2, Zenon DEF ListMeaning

(* The characters between the host variables of the list.                    *)
LEMMA Blanks ==
  /\ Takes(":", "blank", <<"blank">>, H!CharsOf(<<"blank">>), "0")
  /\ Takes(":", "NULL", <<"NULL">>, H!CharsOf(<<"NULL">>), "0")
  /\ Takes(":", ",", <<",">>, H!CharsOf(<<",">>), "0")
  /\ \A mode : Follows(mode, "blank") /\ Follows(mode, ",")
  /\ \A c : Follows("0", c)
<1>1. ":" \in Prefix /\ "blank" \in PlainSet(":") /\ "NULL" \in PlainSet(":") /\ "," \in PlainSet(":")
  BY TwoPrefixes, PlainOnes
<1>2. \A mode : Follows(mode, "blank") /\ Follows(mode, ",")
  BY GoodOnes DEF Good, Follows
<1>3. \A c : Follows("0", c)
  BY FollowsText
<1>4. Takes(":", "blank", <<"blank">>, H!CharsOf(<<"blank">>), "0") /\ Takes(":", "NULL", <<"NULL">>, H!CharsOf(<<"NULL">>), "0")
  BY <1>1, TakesPlain
<1>5. Takes(":", ",", <<",">>, H!CharsOf(<<",">>), "0")
  BY <1>1, TakesPlain
<1>. QED
  BY <1>2, <1>3, <1>4, <1>5

(* The driver finds in the list what it means.                               *)
LEMMA TakesList ==
  ASSUME NEW n \in Counts
  PROVE  Takes(":", "blank", ListText(n), ListMeaning(n), "0")
<1>0. ":" \in Prefix
  BY TwoPrefixes
<1>1. PICK bl, B : bl = <<"blank">> /\ B = H!CharsOf(<<"blank">>)
  OBVIOUS
<1>2. Takes(":", "blank", bl, B, "0")
  BY <1>1, Blanks
<1>3. ASSUME NEW c, NEW w, NEW m, NEW mode, Takes(":", c, w, m, mode)
      PROVE  Takes(":", "blank", (bl \o w) \o bl, (B \o m) \o B, "0")
  <2>1. Takes(":", "blank", bl \o w, B \o m, mode)
    BY <1>0, <1>2, <1>3, Blanks, TakesThen
  <2>. QED
    BY <1>0, <1>2, <2>1, Blanks, TakesThen
<1>4. CASE n = 0
  <2>1. Takes(":", "NULL", <<"NULL">>, H!CharsOf(<<"NULL">>), "0")
    BY Blanks
  <2>2. <<"blank", "NULL", "blank">> = (<<"blank">> \o <<"NULL">>) \o <<"blank">>
    <3>1. "blank" \in Symbol /\ "NULL" \in Symbol
      BY Symbols
    <3>2. <<"blank", "NULL", "blank">> = <<"blank">> \o <<"NULL", "blank">> /\ <<"NULL", "blank">> = <<"NULL">> \o <<"blank">>
      BY <3>1, TripleIs, PairIs
    <3>3. <<"blank">> \in Seq(Symbol) /\ <<"NULL">> \in Seq(Symbol)
      BY <3>1, OneSymbol
    <3>4. (<<"blank">> \o <<"NULL">>) \o <<"blank">> = <<"blank">> \o (<<"NULL">> \o <<"blank">>)
      BY <3>3, Joined
    <3>. QED
      BY <3>2, <3>4, Zenon
  <2>3. Takes(":", "blank", (bl \o <<"NULL">>) \o bl, (B \o H!CharsOf(<<"NULL">>)) \o B, "0")
    BY <1>3, <2>1
  <2>. QED
    BY <1>1, <1>4, <2>2, <2>3, ListTexts, ListMeanings, Zenon
<1>5. CASE n = 1
  <2>1. Takes(":", ":", <<":", "v", "0">>, <<H!Var(<<"v", "0">>)>>, "name")
    BY DriverTakes
  <2>2. Takes(":", "blank", (bl \o <<":", "v", "0">>) \o bl, (B \o <<H!Var(<<"v", "0">>)>>) \o B, "0")
    BY <1>3, <2>1
  <2>. QED
    BY <1>1, <1>5, <2>2, ListTexts, ListMeanings, Zenon
<1>6. CASE n = 2
  <2>1. Takes(":", ":", <<":", "v", "0">>, <<H!Var(<<"v", "0">>)>>, "name")
    BY DriverTakes
  <2>2. Takes(":", ":", <<":", "v", "1">>, <<H!Var(<<"v", "1">>)>>, "name")
    BY DriverTakes
  <2>3. Takes(":", ",", <<",">> \o <<":", "v", "1">>, H!CharsOf(<<",">>) \o <<H!Var(<<"v", "1">>)>>, "name")
    BY <1>0, <2>2, Blanks, TakesThen
  <2>4. Follows("name", ",")
    BY Blanks
  <2>5. Takes(":", ":", <<":", "v", "0">> \o (<<",">> \o <<":", "v", "1">>),
              <<H!Var(<<"v", "0">>)>> \o (H!CharsOf(<<",">>) \o <<H!Var(<<"v", "1">>)>>), "name")
    BY <1>0, <2>1, <2>3, <2>4, TakesThen
  <2>6. <<",">> \o <<":", "v", "1">> = <<",", ":", "v", "1">>
    <3>1. "," \in Symbol /\ ":" \in Symbol /\ "v" \in Symbol /\ "1" \in Symbol
      BY Symbols
    <3>. QED
      <4>1. IsMore(<<",", ":", "v", "1">>, ",", <<":", "v", "1">>)
        BY <3>1, QuadIs
      <4>. QED
        BY <4>1, Zenon DEF IsMore
  <2>7. Takes(":", "blank", (bl \o (<<":", "v", "0">> \o (<<",">> \o <<":", "v", "1">>))) \o bl,
              (B \o (<<H!Var(<<"v", "0">>)>> \o (H!CharsOf(<<",">>) \o <<H!Var(<<"v", "1">>)>>))) \o B, "0")
    BY <1>3, <2>5
  <2>. QED
    BY <1>1, <1>6, <2>6, <2>7, ListTexts, ListMeanings, Zenon
<1>. QED
  BY <1>4, <1>5, <1>6 DEF Counts

(* What the table means.                                                     *)
TableMeaning == H!CharsOf(<<"t", "blank">>) \o <<H!Var(<<"a">>)>>

(* The driver finds that in it.                                              *)
LEMMA TakesTable == Takes(":", "t", Table, TableMeaning, "name")
<1> DEFINE S == PlainSet(":")
<1>0. ":" \in Prefix
  BY TwoPrefixes
<1>1. "t" \in S /\ "blank" \in S
  BY PlainOnes
<1>2. \A w \in Seq(S) : w # << >> => Takes(":", w[1], w, H!CharsOf(w), "0")
  BY <1>0, PlainText
<1> HIDE DEF S
<1>3. <<"t", "blank">> \in Seq(S) /\ <<"t", "blank">>[1] = "t" /\ <<"t", "blank">> # << >>
  BY <1>1, TextsOf
<1>4. Takes(":", "t", <<"t", "blank">>, H!CharsOf(<<"t", "blank">>), "0")
  BY <1>2, <1>3
<1>5. Takes(":", ":", <<":", "a">>, <<H!Var(<<"a">>)>>, "name")
  BY DriverTakes
<1>6. Takes(":", "t", <<"t", "blank">> \o <<":", "a">>, TableMeaning, "name")
  BY <1>0, <1>4, <1>5, FollowsText, TakesThen DEF TableMeaning
<1>7. Table = <<"t", "blank">> \o <<":", "a">>
  <2>1. "t" \in Symbol /\ "blank" \in Symbol /\ ":" \in Symbol /\ "a" \in Symbol
    BY Symbols
  <2>2. <<"t", "blank", ":", "a">> = <<"t">> \o <<"blank", ":", "a">> /\ <<"blank", ":", "a">> = <<"blank">> \o <<":", "a">>
    <3>1. IsMore(<<"t", "blank", ":", "a">>, "t", <<"blank", ":", "a">>)
      BY <2>1, QuadIs
    <3>2. <<"blank", ":", "a">> = <<"blank">> \o <<":", "a">>
      BY <2>1, TripleIs
    <3>. QED
      BY <3>1, <3>2, Zenon DEF IsMore
  <2>3. <<"t">> \in Seq(Symbol) /\ <<"blank">> \in Seq(Symbol) /\ <<":", "a">> \in Seq(Symbol) /\ <<"t", "blank">> = <<"t">> \o <<"blank">>
    BY <2>1, OneSymbol, TwoSymbols, PairIs
  <2>4. (<<"t">> \o <<"blank">>) \o <<":", "a">> = <<"t">> \o (<<"blank">> \o <<":", "a">>)
    BY <2>3, Joined
  <2>. QED
    BY <2>2, <2>3, <2>4, Zenon DEF Table
<1>. QED
  BY <1>6, <1>7, Zenon

-------------------------------------------------------------------------------
(* Passes.  A statement goes through one parser, and the text of a builder   *)
(* through three: after the first the list has been put in, after the second *)
(* the table, and the third is that of the driver.                           *)

(* A piece ends with a name only if it is said to.                           *)
Ends(t, f) == t = "name" => f

(* One pass over a piece w of a statement, which is taken as the items m.    *)
(* It ends with a name only if f says so, and it begins like a string only   *)
(* if s says so.                                                             *)
OnePass(k, w, m, f, s) == \E c, t : Takes(k, c, w, m, t) /\ Ends(t, f) /\ (Good(c) \/ s)

(* A text s after one pass: the items o, which end with a name only if f     *)
(* says so.                                                                  *)
At(k, s, o, f) == \E t : InText(k, s, o, t) /\ Ends(t, f)

(* The three passes over a piece of a builder's text.                        *)
Built(n, w, m, f, s) ==
    \E m1, m2 : OnePass("%", w, m1, f, s) /\ OnePass("%", Rep(1, n, m1), m2, f, s) /\ OnePass(":", Rep(2, n, m2), m, f, s)

(* A text after them.                                                        *)
BuilderAt(n, s, o, f) ==
    \E o1, o2 : At("%", s, o1, f) /\ At("%", Rep(1, n, o1), o2, f) /\ At(":", Rep(2, n, o2), o, f)

(* Texts and items are sequences of symbols and items.                       *)
LEMMA PassTypes ==
  /\ \A k, w, m, f, s : OnePass(k, w, m, f, s) => w \in Seq(Symbol) /\ m \in Seq(Item)
  /\ \A k, s, o, f : At(k, s, o, f) => s \in Seq(Symbol) /\ o \in Seq(Item)
<1>1. \A k, c, w, m, t : Takes(k, c, w, m, t) => w \in Seq(Symbol) /\ m \in Seq(Item)
  BY Zenon DEF Takes
<1>2. \A k, s, o, t : InText(k, s, o, t) => s \in Seq(Symbol) /\ o \in Seq(Item)
  BY Zenon DEF InText
<1>. QED
  BY <1>1, <1>2, Zenon DEF OnePass, At

(* A piece behind a text, in one pass.                                       *)
LEMMA PassGrows ==
  ASSUME NEW k \in Prefix, NEW s, NEW o, NEW g, At(k, s, o, g),
         NEW w, NEW m, NEW f, NEW st, OnePass(k, w, m, f, st), st => ~ g
  PROVE  At(k, s \o w, o \o m, f)
<1>1. PICK t : InText(k, s, o, t) /\ Ends(t, g)
  BY DEF At
<1>2. PICK c, t2 : Takes(k, c, w, m, t2) /\ Ends(t2, f) /\ (Good(c) \/ st)
  BY DEF OnePass
<1>3. Follows(t, c)
  BY <1>1, <1>2 DEF Follows, Ends, Good
<1>4. InText(k, s \o w, o \o m, t2)
  BY <1>1, <1>2, <1>3, TextGrows
<1>. QED
  BY <1>2, <1>4 DEF At

(* A piece behind a text, in three passes: each of them leaves a longer text *)
(* to the next one.                                                          *)
LEMMA BuilderGrows ==
  ASSUME NEW n \in Counts, NEW s, NEW o, NEW g, BuilderAt(n, s, o, g),
         NEW w, NEW m, NEW f, NEW st, Built(n, w, m, f, st), st => ~ g
  PROVE  BuilderAt(n, s \o w, o \o m, f)
<1>0. "%" \in Prefix /\ ":" \in Prefix /\ 1 \in Pass /\ 2 \in Pass
  BY TwoPrefixes DEF Pass
<1>1. PICK o1, o2 : At("%", s, o1, g) /\ At("%", Rep(1, n, o1), o2, g) /\ At(":", Rep(2, n, o2), o, g)
  BY Zenon DEF BuilderAt
<1>2. PICK m1, m2 : /\ OnePass("%", w, m1, f, st) /\ OnePass("%", Rep(1, n, m1), m2, f, st)
                    /\ OnePass(":", Rep(2, n, m2), m, f, st)
  BY Zenon DEF Built
<1>3. o1 \in Seq(Item) /\ o2 \in Seq(Item) /\ m1 \in Seq(Item) /\ m2 \in Seq(Item)
  BY <1>1, <1>2, PassTypes
<1>4. At("%", s \o w, o1 \o m1, f)
  BY <1>0, <1>1, <1>2, PassGrows
<1>5. At("%", Rep(1, n, o1) \o Rep(1, n, m1), o2 \o m2, f)
  BY <1>0, <1>1, <1>2, PassGrows
<1>6. At(":", Rep(2, n, o2) \o Rep(2, n, m2), o \o m, f)
  BY <1>0, <1>1, <1>2, PassGrows
<1>7. Rep(1, n, o1 \o m1) = Rep(1, n, o1) \o Rep(1, n, m1)
  BY <1>0, <1>3, RepConcat
<1>8. Rep(2, n, o2 \o m2) = Rep(2, n, o2) \o Rep(2, n, m2)
  BY <1>0, <1>3, RepConcat
<1>. QED
  BY <1>4, <1>5, <1>6, <1>7, <1>8, Zenon DEF BuilderAt

(* The empty text, in one pass.                                              *)
LEMMA PassStarts == ASSUME NEW k \in Prefix, NEW f PROVE At(k, << >>, << >>, f)
<1>1. Read(k, << >>) = Ps("0", << >>, "none", << >>)
  BY ParseBegin
<1>2. Reached(Ps("0", << >>, "none", << >>), << >>, "0")
  BY ReachedZero
<1>3. << >> \in Seq(Symbol) /\ << >> \in Seq(Item)
  BY EmptyIn
<1>4. InText(k, << >>, << >>, "0")
  BY <1>1, <1>2, <1>3, Zenon DEF InText
<1>5. Ends("0", f)
  BY DEF Ends
<1>. QED
  BY <1>4, <1>5 DEF At

(* The empty text, in three.                                                 *)
LEMMA BuilderStarts == ASSUME NEW n, NEW f PROVE BuilderAt(n, << >>, << >>, f)
<1>1. At("%", << >>, << >>, f) /\ At(":", << >>, << >>, f)
  BY PassStarts, TwoPrefixes
<1>2. Rep(1, n, << >>) = << >> /\ Rep(2, n, << >>) = << >>
  BY RepEmpty
<1>. QED
  BY <1>1, <1>2, Zenon DEF BuilderAt

(* What one pass gives is what the parser finds.                             *)
LEMMA PassParsed == ASSUME NEW k \in Prefix, NEW s, NEW o, NEW f, At(k, s, o, f) PROVE H!ParseText(s, k) = o
  BY TextParsed DEF At

(* What three passes give is what the driver's parser finds behind the       *)
(* builder.                                                                  *)
LEMMA BuilderParsed ==
  ASSUME NEW n, NEW s, NEW o, NEW f, BuilderAt(n, s, o, f)
  PROVE  H!ParseText(H!Replace(H!ExtendParam(s, ListName, n), TableName, Table), ":") = o
<1>1. PICK o1, o2 : At("%", s, o1, f) /\ At("%", Rep(1, n, o1), o2, f) /\ At(":", Rep(2, n, o2), o, f)
  BY Zenon DEF BuilderAt
<1>2. H!ParseText(s, "%") = o1 /\ H!ParseText(Rep(1, n, o1), "%") = o2 /\ H!ParseText(Rep(2, n, o2), ":") = o
  BY <1>1, TwoPrefixes, PassParsed
<1>3. H!ExtendParam(s, ListName, n) = Rep(1, n, o1)
  BY <1>2, RepList
<1>4. H!Replace(Rep(1, n, o1), TableName, Table) = Rep(2, n, o2)
  BY <1>2, RepTable
<1>. QED
  BY <1>2, <1>3, <1>4, Zenon

-------------------------------------------------------------------------------
(* Every piece is taken by every pass as what it means.                      *)

(* A piece w is taken as the items m, by the passes of the text it belongs   *)
(* to.                                                                       *)
Taken(w, m, f, s) ==
    /\ subject = "statement" => OnePass(":", w, m, f, s)
    /\ subject = "builder" => \A n \in Counts : Built(n, w, m, f, s)

(* A pass, by the first character and the end of the piece.                  *)
LEMMA OnePassIs ==
  ASSUME NEW k, NEW c, NEW w, NEW m, NEW t, Takes(k, c, w, m, t), NEW f, Ends(t, f), NEW s, Good(c) \/ s
  PROVE  OnePass(k, w, m, f, s)
  BY Zenon DEF OnePass

(* A piece that ends with no name ends as it is said.                        *)
LEMMA EndsSo == \A f : Ends("0", f)
  BY DEF Ends

(* So does a name.                                                           *)
LEMMA EndsName == Ends("name", TRUE)
  BY DEF Ends

(* A piece that the builder leaves as it is.                                 *)
LEMMA SameText ==
  ASSUME NEW w, NEW m, NEW f, NEW s, OnePass("%", w, H!CharsOf(w), f, s), OnePass(":", w, m, f, s)
  PROVE  Taken(w, m, f, s)
<1>1. w \in Seq(Symbol)
  BY PassTypes
<1>2. 1 \in Pass /\ 2 \in Pass
  BY DEF Pass
<1>3. ASSUME NEW n \in Counts PROVE Built(n, w, m, f, s)
  <2>1. Rep(1, n, H!CharsOf(w)) = w /\ Rep(2, n, H!CharsOf(w)) = w
    BY <1>1, <1>2, RepChars
  <2>2. OnePass("%", w, H!CharsOf(w), f, s) /\ OnePass(":", w, m, f, s)
    OBVIOUS
  <2>3. OnePass("%", Rep(1, n, H!CharsOf(w)), H!CharsOf(w), f, s) /\ OnePass(":", Rep(2, n, H!CharsOf(w)), m, f, s)
    BY <2>1, <2>2, Zenon
  <2>. QED
    BY <2>2, <2>3, Zenon DEF Built
<1>. QED
  BY <1>3 DEF Taken

(* A piece that means itself to both parsers.                                *)
LEMMA VerbatimTaken ==
  ASSUME NEW c, NEW w, NEW s, Takes("%", c, w, H!CharsOf(w), "0"), Takes(":", c, w, H!CharsOf(w), "0"), Good(c) \/ s
  PROVE  Taken(w, H!CharsOf(w), FALSE, s)
<1>1. OnePass("%", w, H!CharsOf(w), FALSE, s)
  BY OnePassIs, EndsSo
<1>2. OnePass(":", w, H!CharsOf(w), FALSE, s)
  BY OnePassIs, EndsSo
<1>. QED
  BY <1>1, <1>2, SameText

(* The names of host variables.                                              *)
LEMMA NamesTaken ==
  ASSUME NEW s
  PROVE  /\ Taken(<<":", "a">>, <<H!Var(<<"a">>)>>, TRUE, s)
         /\ Taken(<<":", "v", "0">>, <<H!Var(<<"v", "0">>)>>, TRUE, s)
<1>0. Good(":")
  BY GoodOnes
<1>1. OnePass("%", <<":", "a">>, H!CharsOf(<<":", "a">>), TRUE, s)
  BY <1>0, OnePassIs, EndsSo, BuilderLeaves
<1>2. OnePass(":", <<":", "a">>, <<H!Var(<<"a">>)>>, TRUE, s)
  BY <1>0, OnePassIs, EndsName, DriverTakes
<1>3. OnePass("%", <<":", "v", "0">>, H!CharsOf(<<":", "v", "0">>), TRUE, s)
  BY <1>0, OnePassIs, EndsSo, BuilderLeaves
<1>4. OnePass(":", <<":", "v", "0">>, <<H!Var(<<"v", "0">>)>>, TRUE, s)
  BY <1>0, OnePassIs, EndsName, DriverTakes
<1>5. Taken(<<":", "a">>, <<H!Var(<<"a">>)>>, TRUE, s)
  BY <1>1, <1>2, SameText
<1>6. Taken(<<":", "v", "0">>, <<H!Var(<<"v", "0">>)>>, TRUE, s)
  BY <1>3, <1>4, SameText
<1>. QED
  BY <1>5, <1>6

(* An escaped text is not empty.                                             *)
LEMMA EscapedNotEmpty ==
  ASSUME NEW v \in Seq(Symbol), v # << >> PROVE EscapedOnce(v) \in Seq(Symbol) /\ EscapedOnce(v) # << >>
<1>1. Takes(":", "\\", EscapedOnce(v), H!CharsOf(v), "0")
  BY EscapedText, TwoPrefixes
<1>2. EscapedOnce(v) \in Seq(Symbol)
  BY <1>1 DEF Takes
<1>3. PICK x \in Seq(Symbol) : EscapedOnce(v) = <<"\\">> \o x
  BY <1>1, Zenon DEF Takes
<1>4. \A x1 \in Seq(Symbol) : \A c \in Symbol : <<c>> \o x1 # << >>
  OBVIOUS
<1>5. "\\" \in Symbol
  BY Symbols
<1>. QED
  BY <1>2, <1>3, <1>4, <1>5

(* An escaped character is taken as that character.                          *)
EscapeTaken(ch, s) == Taken(Escaped(ch), H!CharsOf(<<ch>>), FALSE, s)

(* Escaped once for each pass, any character is.                             *)
LEMMA EscapedTaken ==
  ASSUME NEW ch \in Symbol, NEW s, subject \in {"statement", "builder"}
  PROVE  EscapeTaken(ch, s)
<1>0. Good("\\") /\ "%" \in Prefix /\ ":" \in Prefix /\ 1 \in Pass /\ 2 \in Pass
  BY GoodOnes, TwoPrefixes DEF Pass
<1>1. PICK v \in Seq(Symbol) : v = <<ch>> /\ v # << >>
  BY TextsOf
<1>2. PICK v1 \in Seq(Symbol) : v1 = EscapedOnce(v) /\ v1 # << >>
  BY <1>1, EscapedNotEmpty
<1>3. PICK v2 \in Seq(Symbol) : v2 = EscapedOnce(v1) /\ v2 # << >>
  BY <1>2, EscapedNotEmpty
<1>4. PICK v3 \in Seq(Symbol) : v3 = EscapedOnce(v2)
  BY <1>3, EscapedNotEmpty
<1>5. OnePass(":", v1, H!CharsOf(v), FALSE, s)
  <2>1. Takes(":", "\\", v1, H!CharsOf(v), "0")
    BY <1>0, <1>1, <1>2, EscapedText
  <2>. QED
    BY <1>0, <2>1, OnePassIs, EndsSo
<1>6. CASE subject = "statement"
  <2>1. Passes = 1
    BY <1>6 DEF Passes
  <2>2. Escaped(ch) = EscapedOnce(<<ch>>)
    BY <2>1 DEF Escaped
  <2>3. Escaped(ch) = v1
    BY <1>1, <1>2, <2>2, Zenon
  <2>. QED
    BY <1>1, <1>5, <1>6, <2>3 DEF Taken, EscapeTaken
<1>7. CASE subject = "builder"
  <2>1. Passes = 3 /\ 3 # 1
    BY <1>7 DEF Passes
  <2>2. Escaped(ch) = EscapedOnce(EscapedOnce(EscapedOnce(<<ch>>)))
    BY <2>1 DEF Escaped
  <2>3. Escaped(ch) = v3
    BY <1>1, <1>2, <1>3, <1>4, <2>2, Zenon
  <2>4. Takes("%", "\\", v3, H!CharsOf(v2), "0") /\ Takes("%", "\\", v2, H!CharsOf(v1), "0")
    BY <1>0, <1>2, <1>3, <1>4, EscapedText
  <2>5. OnePass("%", v3, H!CharsOf(v2), FALSE, s) /\ OnePass("%", v2, H!CharsOf(v1), FALSE, s)
    BY <1>0, <2>4, OnePassIs, EndsSo
  <2>6. ASSUME NEW n \in Counts PROVE Built(n, v3, H!CharsOf(v), FALSE, s)
    <3>1. Rep(1, n, H!CharsOf(v2)) = v2 /\ Rep(2, n, H!CharsOf(v1)) = v1
      BY <1>0, RepChars
    <3>2. OnePass("%", Rep(1, n, H!CharsOf(v2)), H!CharsOf(v1), FALSE, s) /\ OnePass(":", Rep(2, n, H!CharsOf(v1)), H!CharsOf(v), FALSE, s)
      BY <1>5, <2>5, <3>1, Zenon
    <3>. QED
      BY <2>5, <3>2, Zenon DEF Built
  <2>. QED
    BY <1>1, <1>7, <2>3, <2>6 DEF Taken, EscapeTaken
<1>. QED
  BY <1>6, <1>7

(* Sequences of four elements.                                               *)
LEMMA FourOf == ASSUME NEW S, NEW a \in S, NEW b \in S, NEW c \in S, NEW d \in S PROVE <<a, b, c, d>> \in Seq(S)
  OBVIOUS

(* Two sequences put together.                                               *)
LEMMA JoinedIn == ASSUME NEW S, NEW a \in Seq(S), NEW b \in Seq(S) PROVE a \o b \in Seq(S)
  OBVIOUS

(* The placeholder %v is taken as the list, whatever its length.             *)
LEMMA ListBuilt ==
  ASSUME NEW n \in Counts, NEW s
  PROVE  Built(n, <<"%", "v">>, ListMeaning(n), TRUE, s)
<1>0. Good("%") /\ Good("blank") /\ "%" \in Prefix /\ 1 \in Pass /\ 2 \in Pass
  BY GoodOnes, TwoPrefixes DEF Pass
<1>1. PICK w \in Seq(Symbol) : w = <<"v">>
  <2>1. "v" \in Symbol
    BY Symbols
  <2>. QED
    BY <2>1, OneSymbol
<1>2. H!Var(w) \in Item
  BY DEF H!Var, Item
<1>3. Rep(1, n, <<H!Var(w)>>) = ListText(n)
  <2>1. Rep(1, n, <<H!Var(w)>>) = Made(1, n, H!Var(w))
    BY <1>0, <1>2, RepOne
  <2>2. Made(1, n, H!Var(w)) = H!HvarList(w, ListName, n)
    BY MadeVar
  <2>3. w = ListName
    BY <1>1 DEF ListName
  <2>. QED
    BY <2>1, <2>2, <2>3, Zenon DEF ListText
<1>4. PICK x \in Seq(Symbol) : x = ListText(n)
  BY ListType
<1>5. Takes("%", "blank", x, H!CharsOf(x), "0")
  <2> DEFINE S == PlainSet("%")
  <2>1. \A v \in Seq(S) : v # << >> => Takes("%", v[1], v, H!CharsOf(v), "0")
    BY <1>0, PlainText
  <2>2. x \in Seq(S) /\ x # << >> /\ x[1] = "blank"
    <3>1. "blank" \in S /\ "NULL" \in S /\ ":" \in S /\ "v" \in S /\ "0" \in S /\ "1" \in S /\ "," \in S
      BY PlainOnes
    <3> HIDE DEF S
    <3>2. /\ <<"blank", "NULL", "blank">> \in Seq(S) /\ <<"blank">> \in Seq(S) /\ <<":", "v", "0">> \in Seq(S)
          /\ <<"blank", "NULL", "blank">>[1] = "blank" /\ <<"blank">>[1] = "blank"
          /\ <<"blank", "NULL", "blank">> # << >> /\ <<"blank">> # << >>
      BY <3>1, TextsOf
    <3>3. <<",", ":", "v", "1">> \in Seq(S)
      BY <3>1, FourOf
    <3>4. \A a, b, c \in Seq(S) : a # << >> => /\ (a \o b) \o c \in Seq(S) /\ (a \o b) \o c # << >> /\ ((a \o b) \o c)[1] = a[1]
                                             /\ a \o b \in Seq(S)
      OBVIOUS
    <3>5. CASE n = 0
      <4>1. x = <<"blank", "NULL", "blank">>
        BY <1>4, <3>5, ListTexts, Zenon
      <4>. QED
        BY <3>2, <4>1, Zenon
    <3>6. CASE n = 1
      <4>1. PICK a \in Seq(S), b \in Seq(S) : a = <<"blank">> /\ b = <<":", "v", "0">>
        BY <3>2
      <4>2. x = (a \o b) \o a
        BY <1>4, <3>6, <4>1, ListTexts, Zenon
      <4>3. a # << >> /\ a[1] = "blank"
        BY <4>1
      <4>. QED
        BY <3>4, <4>2, <4>3
    <3>7. CASE n = 2
      <4>1. PICK a \in Seq(S), b \in Seq(S), c \in Seq(S) : a = <<"blank">> /\ b = <<":", "v", "0">> /\ c = <<",", ":", "v", "1">>
        BY <3>2, <3>3
      <4>2. x = (a \o (b \o c)) \o a
        BY <1>4, <3>7, <4>1, ListTexts, Zenon
      <4>3. a # << >> /\ a[1] = "blank"
        BY <4>1
      <4>4. PICK d \in Seq(S) : d = b \o c
        BY JoinedIn
      <4>. QED
        BY <3>4, <4>2, <4>3, <4>4
    <3>. QED
      BY <3>5, <3>6, <3>7 DEF Counts
  <2> HIDE DEF S
  <2>. QED
    BY <2>1, <2>2
<1>6. Rep(2, n, H!CharsOf(x)) = x
  BY <1>0, RepChars
<1>7. OnePass("%", <<"%", "v">>, <<H!Var(w)>>, TRUE, s)
  BY <1>0, <1>1, PlaceholderTakes, OnePassIs, EndsName
<1>8. OnePass("%", x, H!CharsOf(x), TRUE, s)
  BY <1>0, <1>5, OnePassIs, EndsSo
<1>9. OnePass(":", x, ListMeaning(n), TRUE, s)
  <2>1. Takes(":", "blank", x, ListMeaning(n), "0")
    BY <1>4, TakesList
  <2>. QED
    BY <1>0, <2>1, OnePassIs, EndsSo
<1>10. OnePass("%", Rep(1, n, <<H!Var(w)>>), H!CharsOf(x), TRUE, s)
  BY <1>3, <1>4, <1>8, Zenon
<1>11. OnePass(":", Rep(2, n, H!CharsOf(x)), ListMeaning(n), TRUE, s)
  BY <1>6, <1>9, Zenon
<1>. QED
  BY <1>7, <1>10, <1>11, Zenon DEF Built

(* The placeholder %w is taken as the table.                                 *)
LEMMA TableBuilt ==
  ASSUME NEW n \in Counts, NEW s
  PROVE  Built(n, <<"%", "w">>, TableMeaning, TRUE, s)
<1>0. Good("%") /\ Good("t") /\ "%" \in Prefix /\ 1 \in Pass /\ 2 \in Pass
  BY GoodOnes, TwoPrefixes DEF Pass
<1>1. PICK w \in Seq(Symbol) : w = <<"w">>
  <2>1. "w" \in Symbol
    BY Symbols
  <2>. QED
    BY <2>1, OneSymbol
<1>2. H!Var(w) \in Item
  BY DEF H!Var, Item
<1>3. Rep(1, n, <<H!Var(w)>>) = <<"%", "w">>
  <2>1. Rep(1, n, <<H!Var(w)>>) = Made(1, n, H!Var(w))
    BY <1>0, <1>2, RepOne
  <2>2. Made(1, n, H!Var(w)) = H!HvarList(w, ListName, n)
    BY MadeVar
  <2>3. w # ListName
    <3>1. <<"w">>[1] # <<"v">>[1]
      OBVIOUS
    <3>. QED
      BY <1>1, <3>1 DEF ListName
  <2>4. H!HvarList(w, ListName, n) = <<"%">> \o w
    BY <2>3, OtherName
  <2>5. "%" \in Symbol /\ "w" \in Symbol
    BY Symbols
  <2>6. <<"%", "w">> = <<"%">> \o <<"w">>
    BY <2>5, PairIs
  <2>. QED
    BY <1>1, <2>1, <2>2, <2>4, <2>6, Zenon
<1>4. Rep(2, n, <<H!Var(w)>>) = Table
  <2>1. Rep(2, n, <<H!Var(w)>>) = Made(2, n, H!Var(w))
    BY <1>0, <1>2, RepOne
  <2>2. Made(2, n, H!Var(w)) = H!Simple(w, TableName, Table)
    BY MadeVar
  <2>3. w = TableName
    BY <1>1 DEF TableName
  <2>. QED
    BY <2>1, <2>2, <2>3, OtherName, Zenon
<1>5. OnePass("%", <<"%", "w">>, <<H!Var(w)>>, TRUE, s)
  BY <1>0, <1>1, PlaceholderTakes, OnePassIs, EndsName
<1>6. OnePass(":", Table, TableMeaning, TRUE, s)
  BY <1>0, TakesTable, OnePassIs, EndsName
<1>. QED
  BY <1>3, <1>4, <1>5, <1>6, Zenon DEF Built

(* A piece is taken as it is meant.                                          *)
PieceTaken(piece) == Taken(piece.text, piece.means, piece.name, piece \in Strings)

(* The fields of a piece.                                                    *)
LEMMA PieceFields ==
  ASSUME NEW w, NEW m, NEW f
  PROVE  Piece(w, m, f).text = w /\ Piece(w, m, f).means = m /\ Piece(w, m, f).name = f
  BY DEF Piece

(* Taken, by the fields.                                                     *)
LEMMA PieceOf ==
  ASSUME NEW w, NEW m, NEW f, NEW piece, piece = Piece(w, m, f), Taken(w, m, f, piece \in Strings)
  PROVE  PieceTaken(piece)
<1>1. piece.text = w /\ piece.means = m /\ piece.name = f
  BY PieceFields
<1>. QED
  BY <1>1, Zenon DEF PieceTaken

(* Plain texts and casts.                                                    *)
LEMMA PlainPieces ==
  ASSUME NEW piece, NEW w \in {<<"x">>, <<":", ":">>}, piece = Verbatim(w)
  PROVE  PieceTaken(piece)
<1>1. CASE w = <<"x">>
  <2>1. Taken(<<"x">>, H!CharsOf(<<"x">>), FALSE, piece \in Strings)
    BY BuilderLeaves, DriverTakes, GoodOnes, VerbatimTaken
  <2>. QED
    BY <1>1, <2>1, PieceOf, Zenon DEF Verbatim
<1>2. CASE w = <<":", ":">>
  <2>1. Taken(<<":", ":">>, H!CharsOf(<<":", ":">>), FALSE, piece \in Strings)
    BY BuilderLeaves, DriverTakes, GoodOnes, VerbatimTaken
  <2>. QED
    BY <1>2, <2>1, PieceOf, Zenon DEF Verbatim
<1>. QED
  BY <1>1, <1>2

(* Host variables.                                                           *)
LEMMA NamePieces ==
  ASSUME NEW piece, NEW name \in {<<"a">>, <<"v", "0">>}, piece = Piece(<<":">> \o name, <<H!Var(name)>>, TRUE)
  PROVE  PieceTaken(piece)
<1>0. ":" \in Symbol /\ "a" \in Symbol /\ "v" \in Symbol /\ "0" \in Symbol
  BY Symbols
<1>1. CASE name = <<"a">>
  <2>1. <<":">> \o <<"a">> = <<":", "a">>
    BY <1>0, PairIs
  <2>2. Taken(<<":", "a">>, <<H!Var(<<"a">>)>>, TRUE, piece \in Strings)
    BY NamesTaken
  <2>. QED
    BY <1>1, <2>1, <2>2, PieceOf, Zenon
<1>2. CASE name = <<"v", "0">>
  <2>1. <<":">> \o <<"v", "0">> = <<":", "v", "0">>
    BY <1>0, TripleIs
  <2>2. Taken(<<":", "v", "0">>, <<H!Var(<<"v", "0">>)>>, TRUE, piece \in Strings)
    BY NamesTaken
  <2>. QED
    BY <1>2, <2>1, <2>2, PieceOf, Zenon
<1>. QED
  BY <1>1, <1>2

(* Strings.                                                                  *)
LEMMA StringPieces ==
  ASSUME NEW piece \in Strings PROVE PieceTaken(piece)
<1>0. ":" \in Prefix /\ "%" \in Prefix
  BY TwoPrefixes
<1>1. ASSUME NEW c, NEW w, piece = Verbatim(w), Takes("%", c, w, H!CharsOf(w), "0"), Takes(":", c, w, H!CharsOf(w), "0")
      PROVE  PieceTaken(piece)
  <2>1. Taken(w, H!CharsOf(w), FALSE, piece \in Strings)
    BY <1>1, VerbatimTaken
  <2>. QED
    BY <1>1, <2>1, PieceOf, Zenon DEF Verbatim
<1>2. CASE piece = Verbatim(<<"'", ":", "a", "'">>)
  BY <1>0, <1>1, <1>2, StringWords
<1>3. CASE piece = Verbatim(<<"\"", "%", "v", "'", "\"">>)
  BY <1>0, <1>1, <1>3, StringWords
<1>4. CASE piece = Verbatim(<<"'", "\\", "x", ":", "'">>)
  BY <1>0, <1>1, <1>4, StringWords
<1>. QED
  BY <1>2, <1>3, <1>4, Zenon DEF Strings

(* All the pieces of statements.                                             *)
LEMMA PiecesTaken ==
  ASSUME subject \in {"statement", "builder"}, NEW piece \in StatementPieces \cup Strings
  PROVE  PieceTaken(piece)
<1>0. \A c \in Symbol : \A s : EscapeTaken(c, s)
  BY EscapedTaken
<1>1. CASE \E w \in {<<"x">>, <<":", ":">>} : piece = Verbatim(w)
  BY <1>1, PlainPieces
<1>2. CASE \E name \in {<<"a">>, <<"v", "0">>} : piece = Piece(<<":">> \o name, <<H!Var(name)>>, TRUE)
  BY <1>2, NamePieces
<1>3. ASSUME NEW ch \in {":", "%", "'", "\\", "a"}, piece = Piece(Escaped(ch), H!CharsOf(<<ch>>), FALSE)
      PROVE  PieceTaken(piece)
  <2>1. ch \in Symbol
    BY Symbols
  <2>2. Taken(Escaped(ch), H!CharsOf(<<ch>>), FALSE, piece \in Strings)
    <3>1. \A s : Taken(Escaped(ch), H!CharsOf(<<ch>>), FALSE, s)
      BY <1>0, <2>1, Zenon DEF EscapeTaken
    <3>. QED
      BY <3>1, Zenon
  <2>. QED
    BY <1>3, <2>2, PieceOf
<1>4. CASE piece \in Strings
  BY <1>4, StringPieces
<1>5. \/ \E w \in {<<"x">>, <<":", ":">>} : piece = Verbatim(w)
      \/ \E name \in {<<"a">>, <<"v", "0">>} : piece = Piece(<<":">> \o name, <<H!Var(name)>>, TRUE)
      \/ \E ch \in {":", "%", "'", "\\", "a"} : piece = Piece(Escaped(ch), H!CharsOf(<<ch>>), FALSE)
      \/ piece \in Strings
  BY Zenon DEF StatementPieces
<1>. QED
  BY <1>1, <1>2, <1>3, <1>4, <1>5

(* The three passes, by the fields.                                          *)
LEMMA BuiltOf ==
  ASSUME NEW n, NEW w, NEW m, NEW f, NEW piece, piece = Piece(w, m, f), Built(n, w, m, f, piece \in Strings)
  PROVE  Built(n, piece.text, piece.means, piece.name, piece \in Strings)
<1>1. piece.text = w /\ piece.means = m /\ piece.name = f
  BY PieceFields
<1>. QED
  BY <1>1, Zenon

(* All the placeholders.                                                     *)
LEMMA BuilderPiecesTaken ==
  ASSUME NEW n \in Counts, NEW piece \in BuilderPieces(n)
  PROVE  Built(n, piece.text, piece.means, piece.name, piece \in Strings)
<1>0. "%" \in Symbol /\ "v" \in Symbol /\ "w" \in Symbol
  BY Symbols
<1>1. CASE piece = Piece(<<"%">> \o ListName, ListMeaning(n), TRUE)
  <2>1. <<"%">> \o <<"v">> = <<"%", "v">>
    BY <1>0, PairIs
  <2>2. piece = Piece(<<"%", "v">>, ListMeaning(n), TRUE)
    BY <1>1, <2>1, Zenon DEF ListName
  <2>3. \A s : Built(n, <<"%", "v">>, ListMeaning(n), TRUE, s)
    BY ListBuilt
  <2>. QED
    BY <2>2, <2>3, BuiltOf, Zenon
<1>2. CASE piece = Piece(<<"%">> \o TableName, TableMeaning, TRUE)
  <2>1. <<"%">> \o <<"w">> = <<"%", "w">>
    BY <1>0, PairIs
  <2>2. piece = Piece(<<"%", "w">>, TableMeaning, TRUE)
    BY <1>2, <2>1, Zenon DEF TableName
  <2>3. \A s : Built(n, <<"%", "w">>, TableMeaning, TRUE, s)
    BY TableBuilt
  <2>. QED
    BY <2>2, <2>3, BuiltOf, Zenon
<1>3. piece = Piece(<<"%">> \o ListName, ListMeaning(n), TRUE) \/ piece = Piece(<<"%">> \o TableName, TableMeaning, TRUE)
  BY Zenon DEF BuilderPieces, ListMeaning, TableMeaning
<1>. QED
  BY <1>1, <1>2, <1>3

-------------------------------------------------------------------------------
(* The inductive invariant for statements: the parsers have found what is    *)
(* meant.                                                                    *)

(* What is meant by a statement.                                             *)
Statement(items, count, pieces, name) == [items |-> items, count |-> count, pieces |-> pieces, name |-> name]

(* m is such a record.                                                       *)
StatementMeaning(m) == m.count \in Counts /\ m = Statement(m.items, m.count, m.pieces, m.name)

(* The part of the inductive invariant for statements: the text written so   *)
(* far leaves each parser with the items that are meant.                     *)
StatementInv ==
    /\ subject = "statement" => StatementMeaning(meant) /\ At(":", text, meant.items, meant.name)
    /\ subject = "builder" => StatementMeaning(meant) /\ BuilderAt(meant.count, text, meant.items, meant.name)

(* The entries of what is meant.                                             *)
LEMMA StatementFields ==
  ASSUME NEW i, NEW c, NEW p, NEW n, NEW m, m = Statement(i, c, p, n)
  PROVE  /\ m.items = i /\ m.count = c /\ m.pieces = p /\ m.name = n
         /\ c \in Counts => StatementMeaning(m)
  BY DEF Statement, StatementMeaning

(* What is meant after one more piece.                                       *)
Longer(m, i, p, n) == [m EXCEPT !.items = i, !.pieces = p, !.name = n]

(* It has the same form.                                                     *)
LEMMA StatementLonger ==
  ASSUME NEW m, StatementMeaning(m), NEW i, NEW p, NEW n
  PROVE  Longer(m, i, p, n) = Statement(i, m.count, p, n)
<1>1. PICK i0, c0, p0, n0 : m = Statement(i0, c0, p0, n0) /\ m.count = c0
  BY StatementFields DEF StatementMeaning
<1> DEFINE a == [m EXCEPT !.items = i]
           b == [a EXCEPT !.pieces = p]
<1>2. a = Statement(i, c0, p0, n0)
  BY <1>1 DEF Statement
<1>3. [Statement(i, c0, p0, n0) EXCEPT !.pieces = p] = Statement(i, c0, p, n0)
  BY DEF Statement
<1>4. [Statement(i, c0, p, n0) EXCEPT !.name = n] = Statement(i, c0, p, n)
  BY DEF Statement
<1>5. [m EXCEPT !.items = i, !.pieces = p, !.name = n] = [b EXCEPT !.name = n]
  OBVIOUS
<1>. QED
  BY <1>1, <1>2, <1>3, <1>4, <1>5 DEF Longer

(* What the action WritePiece does.                                          *)
LEMMA PieceWritten ==
  ASSUME NEW piece, WritePiece(piece)
  PROVE  /\ subject \in {"statement", "builder"} /\ subject' = subject
         /\ text' = text \o piece.text
         /\ meant' = Longer(meant, meant.items \o piece.means, meant.pieces + 1, piece.name)
         /\ piece \in Strings => ~ meant.name
  BY DEF WritePiece, Longer

(* A piece that is taken as it is meant preserves the invariant.             *)
LEMMA StatementStep ==
  ASSUME StatementInv, NEW piece, WritePiece(piece),
         subject = "statement" => OnePass(":", piece.text, piece.means, piece.name, piece \in Strings),
         subject = "builder" => Built(meant.count, piece.text, piece.means, piece.name, piece \in Strings)
  PROVE  StatementInv'
<1>1. /\ subject \in {"statement", "builder"} /\ subject' = subject
      /\ text' = text \o piece.text
      /\ meant' = Longer(meant, meant.items \o piece.means, meant.pieces + 1, piece.name)
      /\ piece \in Strings => ~ meant.name
  BY PieceWritten
<1>2. StatementMeaning(meant)
  BY <1>1 DEF StatementInv
<1>3. meant' = Statement(meant.items \o piece.means, meant.count, meant.pieces + 1, piece.name)
  BY <1>1, <1>2, StatementLonger, Zenon
<1>4. meant.count \in Counts
  BY <1>2 DEF StatementMeaning
<1>5. PICK st : st = (piece \in Strings)
  OBVIOUS
<1>6. PICK x, p, f, w, mm : x = meant.items \o piece.means /\ p = meant.pieces + 1 /\ f = piece.name /\ w = piece.text /\ mm = piece.means
  OBVIOUS
<1>7. meant' = Statement(x, meant.count, p, f)
  BY <1>3, <1>6, Zenon
<1>8. meant'.items = x /\ meant'.count = meant.count /\ meant'.name = f /\ StatementMeaning(meant')
  BY <1>4, <1>7, StatementFields
<1>9. CASE subject = "statement"
  <2>1. At(":", text, meant.items, meant.name)
    BY <1>9 DEF StatementInv
  <2>2. OnePass(":", w, mm, f, st) /\ (st => ~ meant.name)
    BY <1>1, <1>5, <1>6, <1>9, Zenon
  <2>3. At(":", text \o w, meant.items \o mm, f)
    BY <2>1, <2>2, TwoPrefixes, PassGrows
  <2>4. At(":", text', meant'.items, meant'.name)
    BY <1>1, <1>6, <1>8, <2>3, Zenon
  <2>. QED
    BY <1>1, <1>8, <1>9, <2>4 DEF StatementInv
<1>10. CASE subject = "builder"
  <2>1. BuilderAt(meant.count, text, meant.items, meant.name)
    BY <1>10 DEF StatementInv
  <2>2. Built(meant.count, w, mm, f, st) /\ (st => ~ meant.name)
    BY <1>1, <1>5, <1>6, <1>10, Zenon
  <2>3. BuilderAt(meant.count, text \o w, meant.items \o mm, f)
    BY <1>4, <2>1, <2>2, BuilderGrows
  <2>4. BuilderAt(meant'.count, text', meant'.items, meant'.name)
    BY <1>1, <1>6, <1>8, <2>3, Zenon
  <2>. QED
    BY <1>1, <1>8, <1>10, <2>4 DEF StatementInv
<1>. QED
  BY <1>1, <1>9, <1>10

(* Every piece that is written is one.                                       *)
LEMMA StatementWritten ==
  ASSUME StatementInv, NEW piece, WritePiece(piece),
         piece \in StatementPieces \cup Strings \/ (subject = "builder" /\ piece \in BuilderPieces(meant.count))
  PROVE  StatementInv'
<1>1. subject \in {"statement", "builder"}
  BY PieceWritten
<1>2. meant.count \in Counts
  BY <1>1 DEF StatementInv, StatementMeaning
<1>3. CASE piece \in StatementPieces \cup Strings
  <2>1. PieceTaken(piece)
    BY <1>1, <1>3, PiecesTaken
  <2>2. /\ subject = "statement" => OnePass(":", piece.text, piece.means, piece.name, piece \in Strings)
        /\ subject = "builder" => Built(meant.count, piece.text, piece.means, piece.name, piece \in Strings)
    BY <1>2, <2>1, Zenon DEF PieceTaken, Taken
  <2>. QED
    BY <2>2, StatementStep
<1>4. CASE subject = "builder" /\ piece \in BuilderPieces(meant.count)
  <2>1. Built(meant.count, piece.text, piece.means, piece.name, piece \in Strings)
    BY <1>2, <1>4, BuilderPiecesTaken, Zenon
  <2>2. subject # "statement"
    BY <1>4
  <2>. QED
    BY <2>1, <2>2, StatementStep
<1>. QED
  BY <1>3, <1>4

(* Initially nothing is written and nothing is meant.                        *)
LEMMA StatementStarts == ASSUME TextInit PROVE StatementInv
<1>1. CASE subject = "statement"
  <2>1. text = << >> /\ meant = Statement(<< >>, 0, 0, FALSE)
    BY <1>1 DEF TextInit, Nothing, Statement
  <2>2. 0 \in Counts
    BY DEF Counts
  <2>3. StatementMeaning(meant) /\ meant.items = << >>
    <3>1. PICK i, c, p, e : meant = Statement(i, c, p, e) /\ i = << >> /\ c \in Counts
      BY <2>1, <2>2, Zenon
    <3>. QED
      BY <3>1, StatementFields
  <2>4. At(":", << >>, << >>, meant.name)
    BY PassStarts, TwoPrefixes
  <2>. QED
    BY <1>1, <2>1, <2>3, <2>4 DEF StatementInv
<1>2. CASE subject = "builder"
  <2>1. PICK n \in 0..2 : text = << >> /\ meant = Statement(<< >>, n, 0, FALSE)
    BY <1>2 DEF TextInit, Nothing, Statement
  <2>2. n \in Counts
    BY DEF Counts
  <2>3. StatementMeaning(meant) /\ meant.items = << >>
    <3>1. PICK i, c, p, e : meant = Statement(i, c, p, e) /\ i = << >> /\ c \in Counts
      BY <2>1, <2>2, Zenon
    <3>. QED
      BY <3>1, StatementFields
  <2>4. BuilderAt(meant.count, << >>, << >>, meant.name)
    BY BuilderStarts
  <2>. QED
    BY <1>2, <2>1, <2>3, <2>4 DEF StatementInv
<1>3. CASE subject \notin {"statement", "builder"}
  BY <1>3 DEF StatementInv
<1>. QED
  BY <1>1, <1>2, <1>3

(* The items that a driver finds are those meant.                            *)
LEMMA ItemsFound == ASSUME StatementInv, subject \in {"statement", "builder"} PROVE Items = meant.items
<1>1. CASE subject = "statement"
  <2>1. At(":", text, meant.items, meant.name)
    BY <1>1 DEF StatementInv
  <2>2. H!ParseText(text, ":") = meant.items
    BY <2>1, PassParsed, TwoPrefixes
  <2>. QED
    BY <1>1, <2>2, Zenon DEF Items
<1>2. CASE subject = "builder"
  <2>1. BuilderAt(meant.count, text, meant.items, meant.name)
    BY <1>2 DEF StatementInv
  <2>2. H!ParseText(H!Replace(H!ExtendParam(text, ListName, meant.count), TableName, Table), ":") = meant.items
    BY <2>1, BuilderParsed
  <2>3. subject # "statement"
    BY <1>2
  <2>. QED
    BY <2>2, <2>3, Zenon DEF Items
<1>. QED
  BY <1>1, <1>2

-------------------------------------------------------------------------------
(* Numbering the host variables.  A host variable is found at the place i of *)
(* the statement, and Rank(s, i) of them are before it: mysql binds them by  *)
(* this number.                                                              *)

(* The number of host variables before the place i.                          *)
Rank(s, i) == Cardinality({j \in H!Slots(s) : j < i})

(* The places of a name.                                                     *)
PlacesOf(s, name) == {i \in H!Slots(s) : s[i][2] = name}

(* The Cardinality of HostVars is that of Texts.                             *)
LEMMA CountSame == ASSUME NEW x PROVE H!Cardinality(x) = Cardinality(x)
  BY DEF H!Cardinality, Cardinality

(* The number as HostVars has it.                                            *)
RankIn(s, i) == H!Cardinality({j \in H!Slots(s) : j < i})

(* They agree.                                                               *)
LEMMA RankSame == ASSUME NEW s, NEW i PROVE RankIn(s, i) = Rank(s, i)
  BY CountSame, Zenon DEF RankIn, Rank

(* What mysql binds to a name, by ranks.                                     *)
LEMMA MyBoundIs ==
  ASSUME NEW s, NEW name
  PROVE  H!MyBoundBy(s, name) = {i \in H!Slots(s) : \E k \in H!Slots(s) : name = s[k][2] /\ Rank(s, i) = Rank(s, k)}
<1>1. H!MyHostVarMap(s) = {<<s[k][2], RankIn(s, k)>> : k \in H!Slots(s)}
  BY Zenon DEF H!MyHostVarMap, RankIn
<1>2. H!MyBoundBy(s, name) = {i \in H!Slots(s) : <<name, RankIn(s, i)>> \in H!MyHostVarMap(s)}
  BY Zenon DEF H!MyBoundBy, RankIn
<1>3. \A i : RankIn(s, i) = Rank(s, i)
  BY RankSame
<1>4. \A i : <<name, RankIn(s, i)>> \in H!MyHostVarMap(s)
                <=> \E k \in H!Slots(s) : name = s[k][2] /\ Rank(s, i) = Rank(s, k)
  BY <1>1, <1>3
<1>. QED
  BY <1>2, <1>4

(* Places are positions of the statement, and there are finitely many.       *)
LEMMA SlotsFinite ==
  ASSUME NEW s \in Seq(Item)
  PROVE  /\ H!Slots(s) \subseteq 1..Len(s) /\ IsFiniteSet(H!Slots(s)) /\ Len(s) \in Nat
         /\ Cardinality(H!Slots(s)) \in Nat
         /\ \A i : Rank(s, i) \in Nat /\ IsFiniteSet({j \in H!Slots(s) : j < i})
<1>1. Len(s) \in Nat /\ DOMAIN s = 1..Len(s)
  OBVIOUS
<1>2. H!Slots(s) \subseteq 1..Len(s)
  BY <1>1 DEF H!Slots
<1>3. IsFiniteSet(1..Len(s))
  BY <1>1, FS_Interval
<1>4. IsFiniteSet(H!Slots(s))
  BY <1>2, <1>3, FS_Subset
<1>5. ASSUME NEW i PROVE Rank(s, i) \in Nat /\ IsFiniteSet({j \in H!Slots(s) : j < i})
  <2>1. {j \in H!Slots(s) : j < i} \in SUBSET H!Slots(s)
    OBVIOUS
  <2>2. IsFiniteSet({j \in H!Slots(s) : j < i})
    BY <1>4, <2>1, FS_Subset
  <2>. QED
    BY <2>2, FS_CardinalityType DEF Rank
<1>. QED
  BY <1>1, <1>2, <1>4, <1>5, FS_CardinalityType

(* Of two places the later one has the greater number, below the number of   *)
(* places.                                                                   *)
LEMMA RankGrows ==
  ASSUME NEW s \in Seq(Item), NEW i \in H!Slots(s)
  PROVE  /\ \A k \in H!Slots(s) : i < k => Rank(s, i) < Rank(s, k)
         /\ Rank(s, i) < Cardinality(H!Slots(s))
<1>1. H!Slots(s) \subseteq Nat
  BY SlotsFinite
<1>2. ASSUME NEW W, IsFiniteSet(W), {j \in H!Slots(s) : j < i} \subseteq W, i \in W PROVE Rank(s, i) < Cardinality(W)
  <2> DEFINE A == {j \in H!Slots(s) : j < i}
  <2>1. A \in SUBSET W /\ A # W
    BY <1>1, <1>2
  <2>2. Cardinality(A) <= Cardinality(W) /\ Cardinality(A) # Cardinality(W)
    BY <1>2, <2>1, FS_Subset
  <2>3. Rank(s, i) = Cardinality(A)
    BY DEF Rank
  <2>4. Rank(s, i) \in Nat /\ Cardinality(W) \in Nat
    BY <1>2, SlotsFinite, FS_CardinalityType
  <2>. QED
    BY <2>2, <2>3, <2>4
<1>3. ASSUME NEW k \in H!Slots(s), i < k PROVE Rank(s, i) < Rank(s, k)
  <2>1. {j \in H!Slots(s) : j < i} \subseteq {j \in H!Slots(s) : j < k} /\ i \in {j \in H!Slots(s) : j < k}
    BY <1>1, <1>3
  <2>2. IsFiniteSet({j \in H!Slots(s) : j < k})
    BY SlotsFinite
  <2>. QED
    BY <1>2, <2>1, <2>2 DEF Rank
<1>4. Rank(s, i) < Cardinality(H!Slots(s))
  BY <1>2, SlotsFinite
<1>. QED
  BY <1>3, <1>4

(* So different places have different numbers.                               *)
LEMMA RankDiffers ==
  ASSUME NEW s \in Seq(Item), NEW i \in H!Slots(s), NEW k \in H!Slots(s), Rank(s, i) = Rank(s, k)
  PROVE  i = k
<1>1. i \in Nat /\ k \in Nat /\ Rank(s, i) \in Nat /\ Rank(s, k) \in Nat
  <2>1. H!Slots(s) \subseteq 1..Len(s) /\ Len(s) \in Nat
    BY SlotsFinite
  <2>2. \A e : Rank(s, e) \in Nat
    BY SlotsFinite
  <2>. QED
    BY <2>1, <2>2
<1>2. (i < k => Rank(s, i) < Rank(s, k)) /\ (k < i => Rank(s, k) < Rank(s, i))
  BY RankGrows
<1>. QED
  BY <1>1, <1>2

(* A value is bound to the places of its name, mysql.                        *)
LEMMA MyBinds ==
  ASSUME NEW s \in Seq(Item), NEW name
  PROVE  H!MyBoundBy(s, name) = PlacesOf(s, name)
BY MyBoundIs, RankDiffers DEF PlacesOf

-------------------------------------------------------------------------------
(* Postgresql gives the same number to the same name.  The numbers are a     *)
(* left fold over the items, and what they are is proved by induction over   *)
(* the statement.                                                            *)

(* The entries of a sequence with one more element.                          *)
LEMMA AppendedAt ==
  ASSUME NEW S, NEW s \in Seq(S), NEW a \in S
  PROVE  /\ Len(s) \in Nat /\ DOMAIN s = 1..Len(s) /\ DOMAIN Append(s, a) = 1..(Len(s) + 1)
         /\ \A i \in 1..Len(s) : Append(s, a)[i] = s[i]
         /\ Append(s, a)[Len(s) + 1] = a
  OBVIOUS

(* The statement t is s with one more item at the place l.                   *)
Grown(s, item, t, l) ==
    /\ H!IsVar(item) => H!Slots(t) = H!Slots(s) \cup {l}
    /\ ~ H!IsVar(item) => H!Slots(t) = H!Slots(s)
    /\ \A j \in H!Slots(s) : t[j] = s[j] /\ j < l
    /\ t[l] = item /\ l \notin H!Slots(s) /\ l \in Nat

(* Appending an item is that.                                                *)
LEMMA SlotsNext ==
  ASSUME NEW s \in Seq(Item), NEW item \in Item
  PROVE  Grown(s, item, Append(s, item), Len(s) + 1)
<1>0. PICK t, l : t = Append(s, item) /\ l = Len(s) + 1
  OBVIOUS
<1>1. /\ Len(s) \in Nat /\ DOMAIN s = 1..Len(s) /\ DOMAIN t = 1..l
      /\ \A i \in 1..Len(s) : t[i] = s[i]
      /\ t[l] = item
  BY <1>0, AppendedAt
<1>2. PICK n \in Nat : n = Len(s) /\ l = n + 1
  BY <1>0, <1>1
<1>3. \A i : i \in 1..l <=> i \in 1..n \/ i = l
  BY <1>2
<1>4. \A i \in 1..n : i < l /\ i # l
  BY <1>2
<1>5. \A i : i \in H!Slots(t) <=> (i \in 1..l /\ H!IsVar(t[i]))
  BY <1>1 DEF H!Slots
<1>6. \A i : i \in H!Slots(s) <=> (i \in 1..n /\ H!IsVar(s[i]))
  BY <1>1, <1>2 DEF H!Slots
<1>7. \A i : i \in H!Slots(t) <=> i \in H!Slots(s) \/ (i = l /\ H!IsVar(item))
  BY <1>1, <1>2, <1>3, <1>4, <1>5, <1>6
<1>8. \A j \in H!Slots(s) : t[j] = s[j] /\ j < l
  BY <1>1, <1>2, <1>4, <1>6
<1>9. l \notin H!Slots(s)
  BY <1>4, <1>6
<1>10. H!IsVar(item) => H!Slots(t) = H!Slots(s) \cup {l}
  BY <1>7
<1>11. ~ H!IsVar(item) => H!Slots(t) = H!Slots(s)
  BY <1>7
<1>12. t[l] = item /\ l \in Nat
  BY <1>1, <1>2
<1>13. Grown(s, item, t, l)
  BY <1>8, <1>9, <1>10, <1>11, <1>12, Zenon DEF Grown
<1>. QED
  BY <1>0, <1>13, Zenon

(* The places before it keep their numbers, and a host variable gets the     *)
(* next one.                                                                 *)
LEMMA RanksNext ==
  ASSUME NEW s \in Seq(Item), NEW item \in Item, NEW t, NEW l, Grown(s, item, t, l)
  PROVE  /\ \A j \in H!Slots(s) : Rank(t, j) = Rank(s, j)
         /\ H!IsVar(item) => Rank(t, l) = Cardinality(H!Slots(s)) /\ Cardinality(H!Slots(t)) = Cardinality(H!Slots(s)) + 1
<1>1. /\ H!IsVar(item) => H!Slots(t) = H!Slots(s) \cup {l}
      /\ ~ H!IsVar(item) => H!Slots(t) = H!Slots(s)
      /\ \A j \in H!Slots(s) : j < l
      /\ l \notin H!Slots(s) /\ l \in Nat
  BY DEF Grown
<1>2. H!Slots(s) \subseteq Nat /\ IsFiniteSet(H!Slots(s))
  <2>1. H!Slots(s) \subseteq 1..Len(s) /\ Len(s) \in Nat /\ IsFiniteSet(H!Slots(s))
    BY SlotsFinite
  <2>. QED
    BY <2>1
<1>3. ASSUME NEW j \in H!Slots(s) PROVE Rank(t, j) = Rank(s, j)
  <2>1. j \in Nat /\ j < l /\ ~ (l < j)
    BY <1>1, <1>2
  <2>2. {i \in H!Slots(t) : i < j} = {i \in H!Slots(s) : i < j}
    BY <1>1, <2>1
  <2>. QED
    BY <2>2, Zenon DEF Rank
<1>4. ASSUME H!IsVar(item) PROVE Rank(t, l) = Cardinality(H!Slots(s)) /\ Cardinality(H!Slots(t)) = Cardinality(H!Slots(s)) + 1
  <2>1. H!Slots(t) = H!Slots(s) \cup {l} /\ ~ (l < l)
    BY <1>1, <1>4
  <2>2. {i \in H!Slots(t) : i < l} = H!Slots(s)
    BY <1>1, <2>1
  <2>3. Rank(t, l) = Cardinality(H!Slots(s))
    BY <2>2, Zenon DEF Rank
  <2>4. Cardinality(H!Slots(s) \cup {l}) = Cardinality(H!Slots(s)) + 1
    BY <1>1, <1>2, FS_AddElement
  <2>. QED
    BY <2>1, <2>3, <2>4
<1>. QED
  BY <1>3, <1>4

(* The names with their numbers m, the next number i, and the number w shown *)
(* at every place.                                                           *)
Numbers(m, i, w) == [map |-> m, idx |-> i, shown |-> w]

(* Different names have different numbers, below the next one.               *)
MapsWell(m, i) ==
    /\ i \in Nat
    /\ \A x \in DOMAIN m : m[x] \in Nat /\ m[x] < i
    /\ \A x, y \in DOMAIN m : m[x] = m[y] => x = y

(* At every place the number of its name is shown.                           *)
ShownWell(s, m, w) ==
    /\ w \in Seq(Nat) /\ Len(w) = Cardinality(H!Slots(s))
    /\ \A j \in H!Slots(s) : s[j][2] \in DOMAIN m /\ w[Rank(s, j) + 1] = m[s[j][2]]

(* Both.                                                                     *)
NumberedAs(s, m, i, w) == MapsWell(m, i) /\ ShownWell(s, m, w)

(* The statement is numbered so.                                             *)
NumberedWell(s) == \E m, i, w : Read("numbers", s) = Numbers(m, i, w) /\ NumberedAs(s, m, i, w)

(* The number that a name gets.                                              *)
NumberFor(m, i, name) == IF name \in DOMAIN m THEN m[name] ELSE i

(* The next number after it.                                                 *)
NextNumber(m, i, name) == IF name \in DOMAIN m THEN i ELSE i + 1

(* One more item is numbered by onHostVar.                                   *)
LEMMA NumberNext ==
  ASSUME NEW m, NEW i, NEW w, NEW item
  PROVE  /\ H!IsVar(item) => Step("numbers", Numbers(m, i, w), item)
                               = Numbers(H!Insert(m, item[2], NumberFor(m, i, item[2])), NextNumber(m, i, item[2]),
                                         Append(w, NumberFor(m, i, item[2])))
         /\ ~ H!IsVar(item) => Step("numbers", Numbers(m, i, w), item) = Numbers(m, i, w)
<1> DEFINE se == Numbers(m, i, w)
<1>1. se.map = m /\ se.idx = i /\ se.shown = w
  BY DEF Numbers
<1>2. Step("numbers", se, item) = NumberOf(se, item)
  BY Zenon DEF Step
<1>3. H!IsVar(item) => NumberOf(se, item) = H!PgOnHostVar(se, item[2])
  BY Zenon DEF NumberOf
<1>4. ~ H!IsVar(item) => NumberOf(se, item) = se
  BY Zenon DEF NumberOf
<1>5. PICK name : name = item[2]
  OBVIOUS
<1> HIDE DEF se
<1>6. H!PgOnHostVar(se, name)
        = Numbers(H!Insert(se.map, name, NumberFor(se.map, se.idx, name)), NextNumber(se.map, se.idx, name),
                  Append(se.shown, NumberFor(se.map, se.idx, name)))
  BY Zenon DEF H!PgOnHostVar, Numbers, NumberFor, NextNumber
<1>7. H!PgOnHostVar(se, name)
        = Numbers(H!Insert(m, name, NumberFor(m, i, name)), NextNumber(m, i, name), Append(w, NumberFor(m, i, name)))
  BY <1>1, <1>6, Zenon
<1>8. H!IsVar(item) => Step("numbers", se, item)
                               = Numbers(H!Insert(m, name, NumberFor(m, i, name)), NextNumber(m, i, name),
                                         Append(w, NumberFor(m, i, name)))
  BY <1>2, <1>3, <1>5, <1>7, Zenon
<1>9. ~ H!IsVar(item) => Step("numbers", se, item) = se
  BY <1>2, <1>4
<1>. QED
  BY <1>5, <1>8, <1>9, Zenon DEF se

(* g is the map m with n for x.                                              *)
Inserted(m, x, n, g) ==
    /\ DOMAIN g = DOMAIN m \cup {x}
    /\ \A y \in DOMAIN m \cup {x} : g[y] = IF y = x THEN n ELSE m[y]

(* The insertion of a std::map is that.                                      *)
LEMMA InsertIs == ASSUME NEW m, NEW x, NEW n PROVE Inserted(m, x, n, H!Insert(m, x, n))
  BY DEF H!Insert, Inserted

(* A name that gets its number leaves the numbers of the others and keeps    *)
(* them different.                                                           *)
LEMMA InsertKeeps ==
  ASSUME NEW m, NEW i, MapsWell(m, i), NEW x, NEW n, n = NumberFor(m, i, x), NEW g, g = H!Insert(m, x, n)
  PROVE  /\ MapsWell(g, NextNumber(m, i, x)) /\ n \in Nat
         /\ x \in DOMAIN g /\ g[x] = n
         /\ \A y \in DOMAIN m : y \in DOMAIN g /\ g[y] = m[y]
<1>1. /\ DOMAIN g = DOMAIN m \cup {x}
      /\ \A y \in DOMAIN m \cup {x} : g[y] = IF y = x THEN n ELSE m[y]
  <2>1. Inserted(m, x, n, g)
    BY InsertIs, Zenon
  <2>. QED
    BY <2>1 DEF Inserted
<1>2. /\ i \in Nat
      /\ \A y \in DOMAIN m : m[y] \in Nat /\ m[y] < i
      /\ \A y, z \in DOMAIN m : m[y] = m[z] => y = z
  BY DEF MapsWell
<1>3. CASE x \in DOMAIN m
  <2>1. n = m[x] /\ NextNumber(m, i, x) = i
    BY <1>3 DEF NumberFor, NextNumber
  <2>2. DOMAIN g = DOMAIN m /\ \A y \in DOMAIN m : g[y] = m[y]
    BY <1>1, <1>3, <2>1
  <2>. QED
    BY <1>2, <1>3, <2>1, <2>2 DEF MapsWell
<1>4. CASE x \notin DOMAIN m
  <2>1. n = i /\ NextNumber(m, i, x) = i + 1
    BY <1>4 DEF NumberFor, NextNumber
  <2>2. DOMAIN g = DOMAIN m \cup {x} /\ g[x] = i /\ \A y \in DOMAIN m : g[y] = m[y]
    BY <1>1, <1>4, <2>1
  <2>3. \A y \in DOMAIN g : g[y] \in Nat /\ g[y] < i + 1
    BY <1>2, <2>2
  <2>4. \A y, z \in DOMAIN g : g[y] = g[z] => y = z
    BY <1>2, <2>2
  <2>5. i + 1 \in Nat
    BY <1>2
  <2>. QED
    BY <1>2, <2>1, <2>2, <2>3, <2>4, <2>5 DEF MapsWell
<1>. QED
  BY <1>3, <1>4

(* v is the sequence w with n behind its c entries.                          *)
Written(w, n, v, c) ==
    /\ v \in Seq(Nat) /\ c \in Nat /\ Len(w) = c /\ Len(v) = c + 1
    /\ \A i \in 1..c : v[i] = w[i]
    /\ v[c + 1] = n

(* Appending is that.                                                        *)
LEMMA WrittenIs == ASSUME NEW w \in Seq(Nat), NEW n \in Nat PROVE Written(w, n, Append(w, n), Len(w))
<1>1. /\ Append(w, n) \in Seq(Nat) /\ Len(w) \in Nat /\ Len(Append(w, n)) = Len(w) + 1
      /\ \A i \in 1..Len(w) : Append(w, n)[i] = w[i]
      /\ Append(w, n)[Len(w) + 1] = n
  OBVIOUS
<1>. QED
  BY <1>1, Zenon DEF Written

(* A host variable shows the number of its name.                             *)
LEMMA ShownMore ==
  ASSUME NEW s \in Seq(Item), NEW item \in Item, NEW t, NEW l, Grown(s, item, t, l), H!IsVar(item),
         NEW m, NEW w, ShownWell(s, m, w),
         NEW g, NEW n, item[2] \in DOMAIN g, g[item[2]] = n, \A y \in DOMAIN m : y \in DOMAIN g /\ g[y] = m[y],
         NEW v, NEW c, Written(w, n, v, c)
  PROVE  ShownWell(t, g, v)
<1>1. /\ H!Slots(t) = H!Slots(s) \cup {l}
      /\ \A j \in H!Slots(s) : t[j] = s[j]
      /\ t[l] = item
  BY DEF Grown
<1>2. /\ \A j \in H!Slots(s) : Rank(t, j) = Rank(s, j)
      /\ Rank(t, l) = Cardinality(H!Slots(s)) /\ Cardinality(H!Slots(t)) = Cardinality(H!Slots(s)) + 1
  BY RanksNext
<1>3. /\ v \in Seq(Nat) /\ c \in Nat /\ Len(w) = c /\ Len(v) = c + 1
      /\ \A i \in 1..c : v[i] = w[i]
      /\ v[c + 1] = n
  BY DEF Written
<1>4. /\ Len(w) = Cardinality(H!Slots(s))
      /\ \A j \in H!Slots(s) : s[j][2] \in DOMAIN m /\ w[Rank(s, j) + 1] = m[s[j][2]]
  BY DEF ShownWell
<1>5. Cardinality(H!Slots(s)) = c /\ Len(v) = Cardinality(H!Slots(t))
  BY <1>2, <1>3, <1>4
<1>6. ASSUME NEW j \in H!Slots(s) PROVE t[j][2] \in DOMAIN g /\ v[Rank(t, j) + 1] = g[t[j][2]]
  <2>1. t[j][2] = s[j][2] /\ Rank(t, j) = Rank(s, j)
    BY <1>1, <1>2
  <2>2. Rank(s, j) \in Nat
    BY SlotsFinite
  <2>3. Rank(s, j) < c
    BY <1>5, RankGrows
  <2>4. Rank(s, j) + 1 \in 1..c
    BY <1>3, <2>2, <2>3
  <2>5. v[Rank(s, j) + 1] = w[Rank(s, j) + 1]
    BY <1>3, <2>4
  <2>6. s[j][2] \in DOMAIN m /\ w[Rank(s, j) + 1] = m[s[j][2]]
    BY <1>4
  <2>7. s[j][2] \in DOMAIN g /\ g[s[j][2]] = m[s[j][2]]
    BY <2>6
  <2>. QED
    BY <2>1, <2>5, <2>6, <2>7
<1>7. t[l][2] \in DOMAIN g /\ v[Rank(t, l) + 1] = g[t[l][2]]
  <2>1. Rank(t, l) = c
    BY <1>2, <1>5
  <2>. QED
    BY <1>1, <1>3, <2>1
<1>. QED
  BY <1>1, <1>3, <1>5, <1>6, <1>7 DEF ShownWell

(* Another item changes nothing.                                             *)
LEMMA ShownStill ==
  ASSUME NEW s \in Seq(Item), NEW item \in Item, NEW t, NEW l, Grown(s, item, t, l), ~ H!IsVar(item),
         NEW m, NEW w, ShownWell(s, m, w)
  PROVE  ShownWell(t, m, w)
<1>1. /\ H!Slots(t) = H!Slots(s)
      /\ \A j \in H!Slots(s) : t[j] = s[j]
  BY DEF Grown
<1>2. \A j \in H!Slots(s) : Rank(t, j) = Rank(s, j)
  BY RanksNext
<1>. QED
  BY <1>1, <1>2 DEF ShownWell

(* The empty statement.                                                      *)
LEMMA NumberedStart == NumberedWell(<< >>)
<1>1. Read("numbers", << >>) = Begin("numbers")
  BY ReadFirst
<1>2. Begin("numbers") = NoNumbers
  BY Zenon DEF Begin
<1>3. NoNumbers = Numbers(<< >>, 0, << >>)
  BY Zenon DEF NoNumbers, Numbers
<1>4. H!Slots(<< >>) = {}
  BY DEF H!Slots
<1>5. MapsWell(<< >>, 0)
  BY DEF MapsWell
<1>6. Cardinality({}) = 0
  BY FS_EmptySet
<1>7. ShownWell(<< >>, << >>, << >>)
  <2>1. << >> \in Seq(Nat) /\ Len(<< >>) = 0
    OBVIOUS
  <2>. QED
    BY <1>4, <1>6, <2>1 DEF ShownWell
<1>. QED
  BY <1>1, <1>2, <1>3, <1>5, <1>7, Zenon DEF NumberedWell, NumberedAs

(* A statement with one more item.                                           *)
LEMMA NumberedNext ==
  ASSUME NEW s \in Seq(Item), NEW item \in Item, NumberedWell(s)
  PROVE  NumberedWell(Append(s, item))
<1>1. PICK m, i, w : Read("numbers", s) = Numbers(m, i, w) /\ MapsWell(m, i) /\ ShownWell(s, m, w)
  BY DEF NumberedWell, NumberedAs
<1>2. PICK t, l : t = Append(s, item) /\ Grown(s, item, t, l)
  BY SlotsNext
<1>3. Read("numbers", t) = Step("numbers", Numbers(m, i, w), item)
  BY <1>1, <1>2, ReadNext
<1>4. CASE H!IsVar(item)
  <2>1. PICK x : x = item[2]
    OBVIOUS
  <2>2. PICK n : n = NumberFor(m, i, x)
    OBVIOUS
  <2>3. PICK g : g = H!Insert(m, x, n)
    OBVIOUS
  <2>4. MapsWell(g, NextNumber(m, i, x)) /\ n \in Nat /\ x \in DOMAIN g /\ g[x] = n
        /\ \A y \in DOMAIN m : y \in DOMAIN g /\ g[y] = m[y]
    BY <1>1, <2>2, <2>3, InsertKeeps
  <2>5. w \in Seq(Nat)
    BY <1>1 DEF ShownWell
  <2>6. PICK v, c : v = Append(w, n) /\ Written(w, n, v, c)
    BY <2>4, <2>5, WrittenIs
  <2>7. ShownWell(t, g, v)
    BY <1>1, <1>2, <1>4, <2>1, <2>4, <2>6, ShownMore
  <2>8. Step("numbers", Numbers(m, i, w), item)
           = Numbers(H!Insert(m, item[2], NumberFor(m, i, item[2])), NextNumber(m, i, item[2]),
                     Append(w, NumberFor(m, i, item[2])))
    BY <1>4, NumberNext
  <2>9. Step("numbers", Numbers(m, i, w), item) = Numbers(g, NextNumber(m, i, x), v)
    BY <2>1, <2>2, <2>3, <2>6, <2>8, Zenon
  <2>10. NumberedWell(t)
    BY <1>3, <2>4, <2>7, <2>9, Zenon DEF NumberedWell, NumberedAs
  <2>. QED
    BY <1>2, <2>10, Zenon
<1>5. CASE ~ H!IsVar(item)
  <2>1. Step("numbers", Numbers(m, i, w), item) = Numbers(m, i, w)
    BY <1>5, NumberNext
  <2>2. ShownWell(t, m, w)
    BY <1>1, <1>2, <1>5, ShownStill
  <2>3. NumberedWell(t)
    BY <1>1, <1>3, <2>1, <2>2, Zenon DEF NumberedWell, NumberedAs
  <2>. QED
    BY <1>2, <2>3, Zenon
<1>. QED
  BY <1>4, <1>5

(* Every statement is numbered so.                                           *)
LEMMA NumberedAll == ASSUME NEW s \in Seq(Item) PROVE NumberedWell(s)
<1> DEFINE U == {v \in Seq(Item) : NumberedWell(v)}
<1>1. << >> \in U
  <2>1. << >> \in Seq(Item)
    OBVIOUS
  <2>. QED
    BY <2>1, NumberedStart
<1>2. ASSUME NEW v \in Seq(Item), NEW a \in Item, v \in U PROVE Append(v, a) \in U
  <2>1. Append(v, a) \in Seq(Item)
    OBVIOUS
  <2>2. NumberedWell(v)
    BY <1>2
  <2>3. NumberedWell(Append(v, a))
    BY <2>2, NumberedNext
  <2>. QED
    BY <2>1, <2>3
<1>3. \A v \in Seq(Item) : v \in U
  <2> HIDE DEF U
  <2>. QED
    BY <1>1, <1>2, SequencesGrow
<1>. QED
  BY <1>3

(* What postgresql binds to a name, by the numbers shown.                    *)
LEMMA PgBoundIs ==
  ASSUME NEW s, NEW name, NEW m, NEW i, NEW w, H!PgHostVars(s) = Numbers(m, i, w)
  PROVE  H!PgBoundBy(s, name) = {e \in H!Slots(s) : name \in DOMAIN m /\ w[1 + Rank(s, e)] = m[name]}
<1>1. PICK se : se = H!PgHostVars(s)
  OBVIOUS
<1>2. se.map = m /\ se.shown = w
  BY <1>1 DEF Numbers
<1>3. H!PgBoundBy(s, name) = {e \in H!Slots(s) : name \in DOMAIN se.map /\ se.shown[1 + RankIn(s, e)] = se.map[name]}
  BY <1>1, Zenon DEF H!PgBoundBy, RankIn
<1>4. \A e : RankIn(s, e) = Rank(s, e)
  BY RankSame
<1>. QED
  BY <1>2, <1>3, <1>4

(* A value is bound to the places of its name, postgresql.                   *)
LEMMA PgBinds ==
  ASSUME NEW s \in Seq(Item), NEW k \in H!Slots(s), NEW name, name = s[k][2]
  PROVE  H!PgBoundBy(s, name) = PlacesOf(s, name)
<1>1. PICK m, i, w : Read("numbers", s) = Numbers(m, i, w) /\ MapsWell(m, i) /\ ShownWell(s, m, w)
  BY NumberedAll DEF NumberedWell, NumberedAs
<1>2. H!PgHostVars(s) = Numbers(m, i, w)
  BY <1>1, NumbersRead
<1>3. H!PgBoundBy(s, name) = {e \in H!Slots(s) : name \in DOMAIN m /\ w[1 + Rank(s, e)] = m[name]}
  BY <1>2, PgBoundIs
<1>4. \A e \in H!Slots(s) : s[e][2] \in DOMAIN m /\ w[Rank(s, e) + 1] = m[s[e][2]]
  BY <1>1 DEF ShownWell
<1>5. \A x, y \in DOMAIN m : m[x] = m[y] => x = y
  BY <1>1 DEF MapsWell
<1>6. name \in DOMAIN m
  BY <1>4
<1>7. \A e \in H!Slots(s) : 1 + Rank(s, e) = Rank(s, e) + 1
  <2>1. \A e : Rank(s, e) \in Nat
    BY SlotsFinite
  <2>. QED
    BY <2>1
<1>8. \A e \in H!Slots(s) : w[1 + Rank(s, e)] = m[name] <=> s[e][2] = name
  <2> TAKE e \in H!Slots(s)
  <2>1. PICK y : y = s[e][2]
    OBVIOUS
  <2>2. y \in DOMAIN m /\ w[1 + Rank(s, e)] = m[y]
    BY <1>4, <1>7, <2>1
  <2>3. m[y] = m[name] <=> y = name
    BY <1>5, <1>6, <2>2
  <2>. QED
    BY <2>1, <2>2, <2>3
<1>. QED
  BY <1>3, <1>6, <1>8, Zenon DEF PlacesOf

-------------------------------------------------------------------------------
(* Statements with a limit and an offset: the clauses that each driver       *)
(* writes, and the rows that they leave.                                     *)

(* The drivers that implement prepareWithLimit.                              *)
Drivers == {"mysql", "postgresql", "sqlite", "oracle"}

(* A statement without a clause.                                             *)
EmptyOf(t) == t = << >>

(* One clause.                                                               *)
SingleOf(t, c) == t = <<c>>

(* Two clauses.                                                              *)
DoubleOf(t, c, e) == t = <<c, e>>

(* Clauses that are put together.                                            *)
LEMMA ClausesJoined ==
  ASSUME NEW c, NEW e
  PROVE  /\ SingleOf(<<c>> \o << >>, c) /\ SingleOf(<< >> \o <<c>>, c)
         /\ DoubleOf(<<c>> \o <<e>>, c, e) /\ EmptyOf(<< >> \o << >>)
<1>1. <<c>> \o << >> = <<c>> /\ << >> \o <<c>> = <<c>> /\ << >> \o << >> = << >>
  OBVIOUS
<1>2. <<c>> \o <<e>> = <<c, e>>
  <2>1. PICK S, x, y, z : S = {c, e} /\ x = <<c>> /\ y = <<e>> /\ z = <<c, e>>
    OBVIOUS
  <2>2. x \in Seq(S) /\ y \in Seq(S) /\ z \in Seq(S) /\ Len(x) = 1 /\ Len(y) = 1 /\ Len(z) = 2
    BY <2>1
  <2>3. z[1] = x[1] /\ z[2] = y[1]
    BY <2>1
  <2>4. Len(z) = Len(x) + Len(y) /\ 1..Len(x) = {1} /\ 1..Len(y) = {1}
    BY <2>2
  <2>5. (\A i \in 1..Len(x) : z[i] = x[i]) /\ \A i \in 1..Len(y) : z[i + Len(x)] = y[i]
    BY <2>2, <2>3, <2>4
  <2>6. z = x \o y
    BY <2>2, <2>4, <2>5, ConcatIs
  <2>. QED
    BY <2>1, <2>6
<1>. QED
  BY <1>1, <1>2, Zenon DEF SingleOf, DoubleOf, EmptyOf

(* The clauses of mysql, postgresql and sqlite.                              *)
LEMMA AppendedIs ==
  ASSUME NEW l, NEW o, NEW t, t = H!Appended(l, o)
  PROVE  /\ ~ H!Given(l) /\ ~ H!Given(o) => EmptyOf(t)
         /\ H!Given(l) /\ ~ H!Given(o) => SingleOf(t, H!Clause("limit", <<l>>))
         /\ ~ H!Given(l) /\ H!Given(o) => SingleOf(t, H!Clause("offset", <<o>>))
         /\ H!Given(l) /\ H!Given(o) => DoubleOf(t, H!Clause("limit", <<l>>), H!Clause("offset", <<o>>))
<1>1. PICK c, e : c = H!Clause("limit", <<l>>) /\ e = H!Clause("offset", <<o>>)
  OBVIOUS
<1>2. t = (IF H!Given(l) THEN <<c>> ELSE << >>) \o (IF H!Given(o) THEN <<e>> ELSE << >>)
  BY <1>1, Zenon DEF H!Appended
<1>3. ~ H!Given(l) /\ ~ H!Given(o) => t = << >> \o << >>
  BY <1>2, Zenon
<1>4. H!Given(l) /\ ~ H!Given(o) => t = <<c>> \o << >>
  BY <1>2, Zenon
<1>5. ~ H!Given(l) /\ H!Given(o) => t = << >> \o <<e>>
  BY <1>2, Zenon
<1>6. H!Given(l) /\ H!Given(o) => t = <<c>> \o <<e>>
  BY <1>2, Zenon
<1>. QED
  BY <1>1, <1>3, <1>4, <1>5, <1>6, ClausesJoined, Zenon

(* The clauses of oracle.                                                    *)
LEMMA NumberedIs ==
  ASSUME NEW l, NEW o, NEW t, t = H!Numbered(l, o)
  PROVE  /\ ~ H!Given(l) /\ ~ H!Given(o) => EmptyOf(t)
         /\ H!Given(l) /\ ~ H!Given(o) => SingleOf(t, H!Clause("rownum<=", <<l>>))
         /\ ~ H!Given(l) /\ H!Given(o) => SingleOf(t, H!Clause("rownum>", <<o>>))
         /\ H!Given(l) /\ H!Given(o) => DoubleOf(t, H!Clause("rownum>", <<o>>), H!Clause("rownum<=", <<o, l>>))
  BY Zenon DEF H!Numbered, H!Above, EmptyOf, SingleOf, DoubleOf

(* The kind and the value of a clause with one name.                         *)
LEMMA ClauseIs ==
  ASSUME NEW k, NEW x, NEW value
  PROVE  H!Clause(k, <<x>>).kind = k /\ H!ValueOf(H!Clause(k, <<x>>), value) = value[x]
<1>1. \A e : H!Clause(k, e).kind = k /\ H!Clause(k, e).of = e
  BY DEF H!Clause
<1>2. Len(<<x>>) = 1 /\ <<x>>[1] = x
  OBVIOUS
<1>. QED
  BY <1>1, <1>2 DEF H!ValueOf

(* The bound that a clause sets, if it is of the kind.                       *)
OfKind(c, kind, value) == IF c.kind = kind THEN {H!ValueOf(c, value)} ELSE {}

(* No clause sets no bound.                                                  *)
LEMMA BoundsNone == ASSUME NEW t, EmptyOf(t), NEW kind, NEW value PROVE H!Bounds(t, kind, value) = {}
  BY DEF EmptyOf, H!Bounds

(* The bounds of one clause.                                                 *)
LEMMA BoundsOne ==
  ASSUME NEW t, NEW c, SingleOf(t, c), NEW kind, NEW value
  PROVE  H!Bounds(t, kind, value) = OfKind(c, kind, value)
<1>1. DOMAIN t = {1} /\ t[1] = c
  BY DEF SingleOf
<1>. QED
  BY <1>1 DEF H!Bounds, OfKind

(* The bounds of two.                                                        *)
LEMMA BoundsTwo ==
  ASSUME NEW t, NEW c, NEW e, DoubleOf(t, c, e), NEW kind, NEW value
  PROVE  H!Bounds(t, kind, value) = OfKind(c, kind, value) \cup OfKind(e, kind, value)
<1>1. DOMAIN t = {1, 2} /\ t[1] = c /\ t[2] = e
  BY DEF DoubleOf
<1>2. \A n : n \in H!Bounds(t, kind, value) <=> \E i \in {1, 2} : t[i].kind = kind /\ n = H!ValueOf(t[i], value)
  BY <1>1 DEF H!Bounds
<1>3. \A n : n \in H!Bounds(t, kind, value) <=> n \in OfKind(c, kind, value) \/ n \in OfKind(e, kind, value)
  BY <1>1, <1>2 DEF OfKind
<1>. QED
  BY <1>3

(* Which clauses a server accepts, by the first one.                         *)
LEMMA LegalIs ==
  ASSUME NEW t, NEW d, NEW c, NEW e
  PROVE  /\ EmptyOf(t) => H!Legal(d, t)
         /\ SingleOf(t, c) => (H!Legal(d, t) <=> (d \in {"mysql", "sqlite"} => c.kind = "limit"))
         /\ DoubleOf(t, c, e) => (H!Legal(d, t) <=> (d \in {"mysql", "sqlite"} => c.kind = "limit"))
<1>1. EmptyOf(t) => t = << >>
  BY DEF EmptyOf
<1>2. SingleOf(t, c) => t # << >> /\ t[1] = c
  BY DEF SingleOf
<1>3. DoubleOf(t, c, e) => t # << >> /\ t[1] = c
  BY DEF DoubleOf
<1>. QED
  BY <1>1, <1>2, <1>3 DEF H!Legal

(* The rows that bounds leave.                                               *)
RowsFrom(rows, first, limits, above, below) ==
    {r \in 1..rows : /\ r > first
                     /\ \A n \in limits : r <= first + n
                     /\ \A n \in above : r > n
                     /\ \A n \in below : r <= n}

(* What a server gives is an error or the rows that the bounds leave.        *)
LEMMA SelectedIs ==
  ASSUME NEW d, NEW t, NEW value, NEW rows
  PROVE  /\ ~ H!Legal(d, t) => H!Selected(d, t, value, rows) = H!SyntaxError
         /\ H!Legal(d, t) /\ H!Bounds(t, "offset", value) = {}
              => H!Selected(d, t, value, rows)
                   = RowsFrom(rows, 0, H!Bounds(t, "limit", value), H!Bounds(t, "rownum>", value), H!Bounds(t, "rownum<=", value))
         /\ \A a : H!Legal(d, t) /\ H!Bounds(t, "offset", value) = {a}
              => H!Selected(d, t, value, rows)
                   = RowsFrom(rows, a, H!Bounds(t, "limit", value), H!Bounds(t, "rownum>", value), H!Bounds(t, "rownum<=", value))
<1>1. ~ H!Legal(d, t) => H!Selected(d, t, value, rows) = H!SyntaxError
  BY Zenon DEF H!Selected
<1>2. PICK skipped : skipped = H!Bounds(t, "offset", value)
  OBVIOUS
<1>3. PICK first : first = IF skipped = {} THEN 0 ELSE CHOOSE n \in skipped : TRUE
  OBVIOUS
<1>4. H!Legal(d, t)
       => H!Selected(d, t, value, rows)
            = RowsFrom(rows, first, H!Bounds(t, "limit", value), H!Bounds(t, "rownum>", value), H!Bounds(t, "rownum<=", value))
  BY <1>2, <1>3, Zenon DEF H!Selected, RowsFrom
<1>5. skipped = {} => first = 0
  BY <1>3
<1>6. ASSUME NEW a, skipped = {a} PROVE first = a
  <2>1. skipped # {} /\ a \in skipped /\ \A n \in skipped : n = a
    BY <1>6
  <2>2. (CHOOSE n \in skipped : TRUE) \in skipped
    BY <2>1
  <2>3. first = CHOOSE n \in skipped : TRUE
    BY <1>3, <2>1
  <2>. QED
    BY <2>1, <2>2, <2>3
<1>. QED
  BY <1>1, <1>2, <1>4, <1>5, <1>6, Zenon

(* The driver gives the rows that are meant.                                 *)
Rightly(d, t, l, o, value, rows) == H!Selected(d, t, value, rows) = RowsMeant(l, o, value, rows)

(* The server refuses the statement.                                         *)
Refused(d, t, value, rows) == H!Selected(d, t, value, rows) = H!SyntaxError

(* The rows that given bounds leave are those that the driver gives.         *)
Selects(d, t, value, rows, first, limits, above, below) ==
    H!Selected(d, t, value, rows) = RowsFrom(rows, first, limits, above, below)

(* They are, if these are the bounds of its clauses.                         *)
LEMMA SelectsIs ==
  ASSUME NEW d, NEW t, NEW value, NEW rows, H!Legal(d, t), NEW limits, NEW above, NEW below,
         H!Bounds(t, "limit", value) = limits, H!Bounds(t, "rownum>", value) = above, H!Bounds(t, "rownum<=", value) = below
  PROVE  /\ H!Bounds(t, "offset", value) = {} => Selects(d, t, value, rows, 0, limits, above, below)
         /\ \A a : H!Bounds(t, "offset", value) = {a} => Selects(d, t, value, rows, a, limits, above, below)
  BY SelectedIs, Zenon DEF Selects

(* Which bounds leave the rows that are meant: an offset and a limit behind  *)
(* it, or the same by row numbers.                                           *)
LEMMA RowsBetween ==
  ASSUME NEW d, NEW t, NEW l, NEW o, NEW value, NEW rows \in Nat,
         H!Given(l) => value[l] \in Nat, H!Given(o) => value[o] \in Nat
  PROVE  /\ ~ H!Given(l) /\ ~ H!Given(o) /\ Selects(d, t, value, rows, 0, {}, {}, {}) => Rightly(d, t, l, o, value, rows)
         /\ H!Given(l) /\ ~ H!Given(o)
              => /\ Selects(d, t, value, rows, 0, {value[l]}, {}, {}) => Rightly(d, t, l, o, value, rows)
                 /\ Selects(d, t, value, rows, 0, {}, {}, {value[l]}) => Rightly(d, t, l, o, value, rows)
         /\ ~ H!Given(l) /\ H!Given(o)
              => /\ Selects(d, t, value, rows, value[o], {}, {}, {}) => Rightly(d, t, l, o, value, rows)
                 /\ Selects(d, t, value, rows, 0, {}, {value[o]}, {}) => Rightly(d, t, l, o, value, rows)
         /\ H!Given(l) /\ H!Given(o)
              => /\ Selects(d, t, value, rows, value[o], {value[l]}, {}, {}) => Rightly(d, t, l, o, value, rows)
                 /\ Selects(d, t, value, rows, 0, {}, {value[o]}, {value[o] + value[l]}) => Rightly(d, t, l, o, value, rows)
<1>1. PICK first, last : /\ first = IF o = << >> THEN 0 ELSE value[o]
                         /\ last = IF l = << >> THEN rows ELSE first + value[l]
  OBVIOUS
<1>2. RowsMeant(l, o, value, rows) = (first + 1)..last \cap 1..rows
  BY <1>1, Zenon DEF RowsMeant
<1>10. (H!Given(l) <=> l # << >>) /\ (H!Given(o) <=> o # << >>)
  BY Zenon DEF H!Given
<1>11. \A limits, above, below, n :
         Selects(d, t, value, rows, n, limits, above, below) /\ RowsMeant(l, o, value, rows) = RowsFrom(rows, n, limits, above, below)
           => Rightly(d, t, l, o, value, rows)
  BY DEF Selects, Rightly
<1>3. CASE ~ H!Given(l) /\ ~ H!Given(o)
  <2>1. first = 0 /\ last = rows
    BY <1>1, <1>3, <1>10
  <2>2. \A r : r \in (0 + 1)..rows \cap 1..rows <=> r \in RowsFrom(rows, 0, {}, {}, {})
    BY DEF RowsFrom
  <2>3. RowsMeant(l, o, value, rows) = RowsFrom(rows, 0, {}, {}, {})
    BY <1>2, <2>1, <2>2
  <2>. QED
    BY <1>3, <1>11, <2>3
<1>4. CASE H!Given(l) /\ ~ H!Given(o)
  <2>1. PICK a \in Nat : a = value[l]
    BY <1>4
  <2>2. first = 0 /\ last = 0 + a
    BY <1>1, <1>4, <1>10, <2>1
  <2>3. \A r : r \in (0 + 1)..(0 + a) \cap 1..rows <=> r \in RowsFrom(rows, 0, {a}, {}, {})
    BY DEF RowsFrom
  <2>4. \A r : r \in (0 + 1)..(0 + a) \cap 1..rows <=> r \in RowsFrom(rows, 0, {}, {}, {a})
    BY DEF RowsFrom
  <2>5. RowsMeant(l, o, value, rows) = RowsFrom(rows, 0, {a}, {}, {}) /\ RowsMeant(l, o, value, rows) = RowsFrom(rows, 0, {}, {}, {a})
    BY <1>2, <2>2, <2>3, <2>4
  <2>. QED
    BY <1>4, <1>11, <2>1, <2>5
<1>5. CASE ~ H!Given(l) /\ H!Given(o)
  <2>1. PICK b \in Nat : b = value[o]
    BY <1>5
  <2>2. first = b /\ last = rows
    BY <1>1, <1>5, <1>10, <2>1
  <2>3. \A r : r \in (b + 1)..rows \cap 1..rows <=> r \in RowsFrom(rows, b, {}, {}, {})
    BY DEF RowsFrom
  <2>4. \A r : r \in (b + 1)..rows \cap 1..rows <=> r \in RowsFrom(rows, 0, {}, {b}, {})
    BY DEF RowsFrom
  <2>5. RowsMeant(l, o, value, rows) = RowsFrom(rows, b, {}, {}, {}) /\ RowsMeant(l, o, value, rows) = RowsFrom(rows, 0, {}, {b}, {})
    BY <1>2, <2>2, <2>3, <2>4
  <2>. QED
    BY <1>5, <1>11, <2>1, <2>5
<1>6. CASE H!Given(l) /\ H!Given(o)
  <2>1. PICK a \in Nat, b \in Nat : a = value[l] /\ b = value[o]
    BY <1>6
  <2>2. first = b /\ last = b + a
    BY <1>1, <1>6, <1>10, <2>1
  <2>3. \A r : r \in (b + 1)..(b + a) \cap 1..rows <=> r \in RowsFrom(rows, b, {a}, {}, {})
    BY DEF RowsFrom
  <2>4. \A r : r \in (b + 1)..(b + a) \cap 1..rows <=> r \in RowsFrom(rows, 0, {}, {b}, {b + a})
    BY DEF RowsFrom
  <2>5. RowsMeant(l, o, value, rows) = RowsFrom(rows, b, {a}, {}, {}) /\ RowsMeant(l, o, value, rows) = RowsFrom(rows, 0, {}, {b}, {b + a})
    BY <1>2, <2>2, <2>3, <2>4
  <2>. QED
    BY <1>6, <1>11, <2>1, <2>5
<1>. QED
  BY <1>3, <1>4, <1>5, <1>6

(* The bounds of a clause with one name.                                     *)
LEMMA KindsDiffer ==
  ASSUME NEW x, NEW value
  PROVE  /\ OfKind(H!Clause("limit", <<x>>), "offset", value) = {} /\ OfKind(H!Clause("limit", <<x>>), "limit", value) = {value[x]}
         /\ OfKind(H!Clause("limit", <<x>>), "rownum>", value) = {} /\ OfKind(H!Clause("limit", <<x>>), "rownum<=", value) = {}
         /\ OfKind(H!Clause("offset", <<x>>), "offset", value) = {value[x]} /\ OfKind(H!Clause("offset", <<x>>), "limit", value) = {}
         /\ OfKind(H!Clause("offset", <<x>>), "rownum>", value) = {} /\ OfKind(H!Clause("offset", <<x>>), "rownum<=", value) = {}
         /\ OfKind(H!Clause("rownum>", <<x>>), "offset", value) = {} /\ OfKind(H!Clause("rownum>", <<x>>), "limit", value) = {}
         /\ OfKind(H!Clause("rownum>", <<x>>), "rownum>", value) = {value[x]} /\ OfKind(H!Clause("rownum>", <<x>>), "rownum<=", value) = {}
         /\ OfKind(H!Clause("rownum<=", <<x>>), "offset", value) = {} /\ OfKind(H!Clause("rownum<=", <<x>>), "limit", value) = {}
         /\ OfKind(H!Clause("rownum<=", <<x>>), "rownum>", value) = {} /\ OfKind(H!Clause("rownum<=", <<x>>), "rownum<=", value) = {value[x]}
<1>1. \A k : H!Clause(k, <<x>>).kind = k /\ H!ValueOf(H!Clause(k, <<x>>), value) = value[x]
  BY ClauseIs
<1>. QED
  BY <1>1 DEF OfKind

(* The bounds of a clause whose bound is a sum.                              *)
TwoOfKind(x, y, value) ==
    /\ OfKind(H!Clause("rownum<=", <<x, y>>), "offset", value) = {} /\ OfKind(H!Clause("rownum<=", <<x, y>>), "limit", value) = {}
    /\ OfKind(H!Clause("rownum<=", <<x, y>>), "rownum>", value) = {}
    /\ OfKind(H!Clause("rownum<=", <<x, y>>), "rownum<=", value) = {value[x] + value[y]}

(* They are these.                                                           *)
LEMMA KindsOfTwo == ASSUME NEW x, NEW y, NEW value PROVE TwoOfKind(x, y, value)
<1>1. \A k, e : H!Clause(k, e).kind = k /\ H!Clause(k, e).of = e
  BY DEF H!Clause
<1>2. Len(<<x, y>>) = 2 /\ <<x, y>>[1] = x /\ <<x, y>>[2] = y
  OBVIOUS
<1>3. \A k : H!ValueOf(H!Clause(k, <<x, y>>), value) = value[x] + value[y]
  BY <1>1, <1>2 DEF H!ValueOf
<1>. QED
  BY <1>1, <1>3 DEF OfKind, TwoOfKind

(* Mysql, postgresql and sqlite give the rows that are meant, except that an *)
(* offset alone is refused by mysql and sqlite.                              *)
LEMMA LimitOf ==
  ASSUME NEW d \in Drivers \ {"oracle"}, NEW l, NEW o, NEW t, t = H!Appended(l, o), NEW value, NEW rows \in Nat,
         H!Given(l) => value[l] \in Nat, H!Given(o) => value[o] \in Nat
  PROVE  IF ~ H!Given(l) /\ H!Given(o) /\ d \in {"mysql", "sqlite"} THEN Refused(d, t, value, rows)
         ELSE Rightly(d, t, l, o, value, rows)
<1>1. PICK c, e : c = H!Clause("limit", <<l>>) /\ e = H!Clause("offset", <<o>>)
  OBVIOUS
<1>2. /\ OfKind(c, "offset", value) = {} /\ OfKind(c, "limit", value) = {value[l]}
      /\ OfKind(c, "rownum>", value) = {} /\ OfKind(c, "rownum<=", value) = {}
      /\ OfKind(e, "offset", value) = {value[o]} /\ OfKind(e, "limit", value) = {}
      /\ OfKind(e, "rownum>", value) = {} /\ OfKind(e, "rownum<=", value) = {}
      /\ c.kind = "limit" /\ e.kind = "offset"
  BY <1>1, KindsDiffer, ClauseIs
<1>3. /\ ~ H!Given(l) /\ ~ H!Given(o) => EmptyOf(t)
      /\ H!Given(l) /\ ~ H!Given(o) => SingleOf(t, c)
      /\ ~ H!Given(l) /\ H!Given(o) => SingleOf(t, e)
      /\ H!Given(l) /\ H!Given(o) => DoubleOf(t, c, e)
  BY <1>1, AppendedIs
<1>4. CASE ~ H!Given(l) /\ ~ H!Given(o)
  <2>1. EmptyOf(t)
    BY <1>3, <1>4
  <2>2. \A k : H!Bounds(t, k, value) = {}
    BY <2>1, BoundsNone
  <2>3. H!Legal(d, t)
    BY <2>1, LegalIs
  <2>4. Selects(d, t, value, rows, 0, {}, {}, {})
    BY <2>2, <2>3, SelectsIs
  <2>. QED
    BY <1>4, <2>4, RowsBetween
<1>5. CASE H!Given(l) /\ ~ H!Given(o)
  <2>1. SingleOf(t, c)
    BY <1>3, <1>5
  <2>2. /\ H!Bounds(t, "offset", value) = {} /\ H!Bounds(t, "limit", value) = {value[l]}
        /\ H!Bounds(t, "rownum>", value) = {} /\ H!Bounds(t, "rownum<=", value) = {}
    BY <1>2, <2>1, BoundsOne
  <2>3. H!Legal(d, t)
    BY <1>2, <2>1, LegalIs
  <2>4. Selects(d, t, value, rows, 0, {value[l]}, {}, {})
    BY <2>2, <2>3, SelectsIs
  <2>. QED
    BY <1>5, <2>4, RowsBetween
<1>6. CASE ~ H!Given(l) /\ H!Given(o)
  <2>1. SingleOf(t, e)
    BY <1>3, <1>6
  <2>2. /\ H!Bounds(t, "offset", value) = {value[o]} /\ H!Bounds(t, "limit", value) = {}
        /\ H!Bounds(t, "rownum>", value) = {} /\ H!Bounds(t, "rownum<=", value) = {}
    BY <1>2, <2>1, BoundsOne
  <2>3. H!Legal(d, t) <=> d \notin {"mysql", "sqlite"}
    BY <1>2, <2>1, LegalIs
  <2>4. CASE d \in {"mysql", "sqlite"}
    <3>1. Refused(d, t, value, rows)
      BY <2>3, <2>4, SelectedIs DEF Refused
    <3>. QED
      BY <1>6, <2>4, <3>1
  <2>5. CASE d \notin {"mysql", "sqlite"}
    <3>1. Selects(d, t, value, rows, value[o], {}, {}, {})
      BY <2>2, <2>3, <2>5, SelectsIs
    <3>. QED
      BY <1>6, <2>5, <3>1, RowsBetween
  <2>. QED
    BY <2>4, <2>5
<1>7. CASE H!Given(l) /\ H!Given(o)
  <2>1. DoubleOf(t, c, e)
    BY <1>3, <1>7
  <2>2. /\ H!Bounds(t, "offset", value) = {value[o]} /\ H!Bounds(t, "limit", value) = {value[l]}
        /\ H!Bounds(t, "rownum>", value) = {} /\ H!Bounds(t, "rownum<=", value) = {}
    BY <1>2, <2>1, BoundsTwo
  <2>3. H!Legal(d, t)
    BY <1>2, <2>1, LegalIs
  <2>4. Selects(d, t, value, rows, value[o], {value[l]}, {}, {})
    BY <2>2, <2>3, SelectsIs
  <2>. QED
    BY <1>7, <2>4, RowsBetween
<1>. QED
  BY <1>4, <1>5, <1>6, <1>7

(* Oracle gives the rows that are meant.                                     *)
LEMMA OracleLimit ==
  ASSUME NEW l, NEW o, NEW t, t = H!Numbered(l, o), NEW value, NEW rows \in Nat,
         H!Given(l) => value[l] \in Nat, H!Given(o) => value[o] \in Nat
  PROVE  Rightly("oracle", t, l, o, value, rows)
<1>1. PICK c, e, b : c = H!Clause("rownum<=", <<l>>) /\ e = H!Clause("rownum>", <<o>>) /\ b = H!Clause("rownum<=", <<o, l>>)
  OBVIOUS
<1>2. /\ OfKind(c, "offset", value) = {} /\ OfKind(c, "limit", value) = {}
      /\ OfKind(c, "rownum>", value) = {} /\ OfKind(c, "rownum<=", value) = {value[l]}
      /\ OfKind(e, "offset", value) = {} /\ OfKind(e, "limit", value) = {}
      /\ OfKind(e, "rownum>", value) = {value[o]} /\ OfKind(e, "rownum<=", value) = {}
      /\ OfKind(b, "offset", value) = {} /\ OfKind(b, "limit", value) = {}
      /\ OfKind(b, "rownum>", value) = {} /\ OfKind(b, "rownum<=", value) = {value[o] + value[l]}
  <2>1. /\ OfKind(c, "offset", value) = {} /\ OfKind(c, "limit", value) = {}
        /\ OfKind(c, "rownum>", value) = {} /\ OfKind(c, "rownum<=", value) = {value[l]}
    BY <1>1, KindsDiffer
  <2>2. /\ OfKind(e, "offset", value) = {} /\ OfKind(e, "limit", value) = {}
        /\ OfKind(e, "rownum>", value) = {value[o]} /\ OfKind(e, "rownum<=", value) = {}
    BY <1>1, KindsDiffer
  <2>3. /\ OfKind(b, "offset", value) = {} /\ OfKind(b, "limit", value) = {}
        /\ OfKind(b, "rownum>", value) = {} /\ OfKind(b, "rownum<=", value) = {value[o] + value[l]}
    <3>1. PICK x, y : x = o /\ y = l
      OBVIOUS
    <3>2. TwoOfKind(x, y, value)
      BY KindsOfTwo
    <3>3. /\ OfKind(H!Clause("rownum<=", <<x, y>>), "offset", value) = {} /\ OfKind(H!Clause("rownum<=", <<x, y>>), "limit", value) = {}
          /\ OfKind(H!Clause("rownum<=", <<x, y>>), "rownum>", value) = {}
          /\ OfKind(H!Clause("rownum<=", <<x, y>>), "rownum<=", value) = {value[x] + value[y]}
      BY <3>2 DEF TwoOfKind
    <3>. QED
      BY <1>1, <3>1, <3>3
  <2>. QED
    BY <2>1, <2>2, <2>3
<1>3. /\ ~ H!Given(l) /\ ~ H!Given(o) => EmptyOf(t)
      /\ H!Given(l) /\ ~ H!Given(o) => SingleOf(t, c)
      /\ ~ H!Given(l) /\ H!Given(o) => SingleOf(t, e)
      /\ H!Given(l) /\ H!Given(o) => DoubleOf(t, e, b)
  BY <1>1, NumberedIs
<1>4. H!Legal("oracle", t)
  BY Zenon DEF H!Legal
<1>5. CASE ~ H!Given(l) /\ ~ H!Given(o)
  <2>1. EmptyOf(t)
    BY <1>3, <1>5
  <2>2. \A k : H!Bounds(t, k, value) = {}
    BY <2>1, BoundsNone
  <2>3. Selects("oracle", t, value, rows, 0, {}, {}, {})
    BY <1>4, <2>2, SelectsIs
  <2>. QED
    BY <1>5, <2>3, RowsBetween
<1>6. CASE H!Given(l) /\ ~ H!Given(o)
  <2>1. SingleOf(t, c)
    BY <1>3, <1>6
  <2>2. /\ H!Bounds(t, "offset", value) = {} /\ H!Bounds(t, "limit", value) = {}
        /\ H!Bounds(t, "rownum>", value) = {} /\ H!Bounds(t, "rownum<=", value) = {value[l]}
    BY <1>2, <2>1, BoundsOne
  <2>3. Selects("oracle", t, value, rows, 0, {}, {}, {value[l]})
    BY <1>4, <2>2, SelectsIs
  <2>. QED
    BY <1>6, <2>3, RowsBetween
<1>7. CASE ~ H!Given(l) /\ H!Given(o)
  <2>1. SingleOf(t, e)
    BY <1>3, <1>7
  <2>2. /\ H!Bounds(t, "offset", value) = {} /\ H!Bounds(t, "limit", value) = {}
        /\ H!Bounds(t, "rownum>", value) = {value[o]} /\ H!Bounds(t, "rownum<=", value) = {}
    BY <1>2, <2>1, BoundsOne
  <2>3. Selects("oracle", t, value, rows, 0, {}, {value[o]}, {})
    BY <1>4, <2>2, SelectsIs
  <2>. QED
    BY <1>7, <2>3, RowsBetween
<1>8. CASE H!Given(l) /\ H!Given(o)
  <2>1. DoubleOf(t, e, b)
    BY <1>3, <1>8
  <2>2. /\ H!Bounds(t, "offset", value) = {} /\ H!Bounds(t, "limit", value) = {}
        /\ H!Bounds(t, "rownum>", value) = {value[o]} /\ H!Bounds(t, "rownum<=", value) = {value[o] + value[l]}
    BY <1>2, <2>1, BoundsTwo
  <2>3. Selects("oracle", t, value, rows, 0, {}, {value[o]}, {value[o] + value[l]})
    BY <1>4, <2>2, SelectsIs
  <2>. QED
    BY <1>8, <2>3, RowsBetween
<1>. QED
  BY <1>5, <1>6, <1>7, <1>8

-------------------------------------------------------------------------------
(* The statement of a limit is what the driver writes for the names that are *)
(* meant.                                                                    *)

(* The clauses t of a select are those of the driver for the names that are  *)
(* meant.                                                                    *)
LimitKnown(m, t) ==
    /\ m.driver \in Drivers /\ m.limit \in LimitNames /\ m.offset \in OffsetNames
    /\ m.isSelect => t = H!Clauses(m.driver, m.limit, m.offset)

(* The part of the inductive invariant for prepareWithLimit.                 *)
LimitInv == subject = "limit" /\ meant # None => LimitKnown(meant, text)

(* What is meant by a limit.                                                 *)
Limited(d, l, o, isSelect) == [driver |-> d, limit |-> l, offset |-> o, isSelect |-> isSelect]

(* Its entries.                                                              *)
LEMMA LimitFields ==
  ASSUME NEW d, NEW l, NEW o, NEW isSelect, NEW m, m = Limited(d, l, o, isSelect)
  PROVE  m.driver = d /\ m.limit = l /\ m.offset = o /\ m.isSelect = isSelect
  BY DEF Limited

(* Preparing establishes the invariant, also behind the replication driver.  *)
LEMMA LimitStep ==
  ASSUME NEW d \in Drivers, NEW l \in LimitNames, NEW o \in OffsetNames, NEW isSelect \in BOOLEAN, NEW replicated \in BOOLEAN,
         PrepareWithLimit(d, l, o, isSelect, replicated)
  PROVE  LimitInv'
<1>1. /\ text' = IF replicated THEN H!Replicated(isSelect, d, l, o) ELSE H!Clauses(d, l, o)
      /\ meant' = Limited(d, l, o, isSelect)
      /\ replicated \/ isSelect
  BY DEF PrepareWithLimit, Limited
<1>2. isSelect => text' = H!Clauses(d, l, o)
  BY <1>1, Zenon DEF H!Replicated
<1>3. PICK m, t : m = meant' /\ t = text'
  OBVIOUS
<1>4. m.driver = d /\ m.limit = l /\ m.offset = o /\ m.isSelect = isSelect
  <2>1. m = Limited(d, l, o, isSelect)
    BY <1>1, <1>3, Zenon
  <2>. QED
    BY <2>1, LimitFields
<1>5. m.isSelect => isSelect
  BY <1>4, Zenon
<1>6. LimitKnown(m, t)
  BY <1>2, <1>3, <1>4, <1>5, Zenon DEF LimitKnown
<1>. QED
  BY <1>3, <1>6, Zenon DEF LimitInv

(* It implies that the rows are those meant.                                 *)
LEMMA LimitHolds == ASSUME NEW m, LimitKnown(m, text), m = meant PROVE LimitAsMeant
<1>1. PICK d, l, o : d = m.driver /\ l = m.limit /\ o = m.offset
  OBVIOUS
<1>2. d \in Drivers /\ l \in LimitNames /\ o \in OffsetNames
  BY <1>1 DEF LimitKnown
<1> DEFINE Values == [{<<"v">>, <<"w">>} -> 0..3]
<1>3. (H!Given(l) <=> l # << >>) /\ (H!Given(o) <=> o # << >>)
  BY Zenon DEF H!Given
<1>4. ASSUME NEW value \in Values PROVE (H!Given(l) => value[l] \in Nat) /\ (H!Given(o) => value[o] \in Nat)
  <2>1. (H!Given(l) => l \in {<<"v">>, <<"w">>}) /\ (H!Given(o) => o \in {<<"v">>, <<"w">>})
    BY <1>2, <1>3, Zenon DEF LimitNames, OffsetNames
  <2>2. PICK names : names = {<<"v">>, <<"w">>}
    OBVIOUS
  <2>3. value \in [names -> 0..3]
    BY <2>2
  <2>4. \A x \in names : value[x] \in Nat
    BY <2>3
  <2>. QED
    BY <2>1, <2>2, <2>4
<1> HIDE DEF Values
<1>5. CASE ~ m.isSelect
  BY <1>5, Zenon DEF LimitAsMeant
<1>6. CASE m.isSelect
  <2>1. text = H!Clauses(d, l, o)
    BY <1>1, <1>6 DEF LimitKnown
  <2>2. CASE d = "oracle"
    <3>1. text = H!Numbered(l, o)
      BY <2>1, <2>2, Zenon DEF H!Clauses
    <3>2. ASSUME NEW value \in Values, NEW rows \in 0..3 PROVE Rightly("oracle", text, l, o, value, rows)
      <4>1. rows \in Nat
        OBVIOUS
      <4>. QED
        BY <1>4, <3>1, <4>1, OracleLimit
    <3>3. \A value \in Values : \A rows \in 0..3 : Rightly(d, text, l, o, value, rows)
      BY <2>2, <3>2
    <3>. QED
      BY <1>1, <3>3, Zenon DEF LimitAsMeant, Rightly, Values
  <2>3. CASE d # "oracle"
    <3>1. text = H!Appended(l, o) /\ d \in Drivers \ {"oracle"}
      BY <1>2, <2>1, <2>3, Zenon DEF H!Clauses
    <3>2. ASSUME NEW value \in Values, NEW rows \in 0..3
          PROVE  IF ~ H!Given(l) /\ H!Given(o) /\ d \in {"mysql", "sqlite"} THEN Refused(d, text, value, rows)
                 ELSE Rightly(d, text, l, o, value, rows)
      <4>1. rows \in Nat
        OBVIOUS
      <4>. QED
        BY <1>4, <3>1, <4>1, LimitOf
    <3>3. CASE ~ H!Given(l) /\ H!Given(o) /\ d \in {"mysql", "sqlite"}
      <4>1. \A value \in Values : Refused(d, text, value, 3)
        <5>1. 3 \in 0..3
          OBVIOUS
        <5>. QED
          BY <3>2, <3>3, <5>1, Zenon
      <4>2. l = << >> /\ o # << >>
        BY <1>3, <3>3
      <4>. QED
        BY <1>1, <3>3, <4>1, <4>2, Zenon DEF LimitAsMeant, Refused, Values
    <3>4. CASE ~ (~ H!Given(l) /\ H!Given(o) /\ d \in {"mysql", "sqlite"})
      <4>1. \A value \in Values : \A rows \in 0..3 : Rightly(d, text, l, o, value, rows)
        BY <3>2, <3>4, Zenon
      <4>. QED
        BY <1>1, <4>1, Zenon DEF LimitAsMeant, Rightly, Values
    <3>. QED
      BY <3>3, <3>4
  <2>. QED
    BY <2>2, <2>3
<1>. QED
  BY <1>5, <1>6

-------------------------------------------------------------------------------
(* Everything about statements together.                                     *)

(* The inductive invariant for statements.                                   *)
StatementsInv == StatementInv /\ LimitInv

(* What is meant is a sequence of items.                                     *)
LEMMA StatementTypes == ASSUME StatementInv, subject \in {"statement", "builder"} PROVE meant.items \in Seq(Item)
<1>1. CASE subject = "statement"
  <2>1. At(":", text, meant.items, meant.name)
    BY <1>1 DEF StatementInv
  <2>. QED
    BY <2>1, PassTypes
<1>2. CASE subject = "builder"
  <2>1. BuilderAt(meant.count, text, meant.items, meant.name)
    BY <1>2 DEF StatementInv
  <2>. QED
    BY <2>1, PassTypes DEF BuilderAt
<1>. QED
  BY <1>1, <1>2

(* The invariant implies the property.                                       *)
LEMMA StatementsHold == ASSUME StatementsInv PROVE StatementAsMeant
<1>1. ASSUME subject = "limit", meant # None PROVE LimitAsMeant
  BY <1>1, LimitHolds DEF StatementsInv, LimitInv
<1>2. ASSUME subject \in {"statement", "builder"}
      PROVE  /\ Items = meant.items
             /\ \A name \in {Items[i][2] : i \in H!Slots(Items)} :
                  LET places == {i \in H!Slots(Items) : meant.items[i][2] = name}
                  IN H!MyBoundBy(Items, name) = places /\ H!PgBoundBy(Items, name) = places
  <2>1. Items = meant.items /\ meant.items \in Seq(Item)
    BY <1>2, ItemsFound, StatementTypes DEF StatementsInv
  <2>2. PICK s \in Seq(Item) : s = meant.items /\ Items = s
    BY <2>1
  <2>3. ASSUME NEW name \in {s[i][2] : i \in H!Slots(s)}
        PROVE  H!MyBoundBy(s, name) = PlacesOf(s, name) /\ H!PgBoundBy(s, name) = PlacesOf(s, name)
    <3>1. PICK k \in H!Slots(s) : name = s[k][2]
      BY <2>3
    <3>. QED
      BY <3>1, MyBinds, PgBinds
  <2>4. \A name \in {Items[i][2] : i \in H!Slots(Items)} :
           H!MyBoundBy(Items, name) = PlacesOf(Items, name) /\ H!PgBoundBy(Items, name) = PlacesOf(Items, name)
    BY <2>2, <2>3, Zenon
  <2>5. \A name : {i \in H!Slots(Items) : meant.items[i][2] = name} = PlacesOf(Items, name)
    BY <2>1, Zenon DEF PlacesOf
  <2>. QED
    BY <2>1, <2>4, <2>5, Zenon
<1>. QED
  BY <1>1, <1>2, Zenon DEF StatementAsMeant

(* It holds initially.                                                       *)
LEMMA StatementsStart == ASSUME TextInit PROVE StatementsInv
<1>1. LimitInv
  BY DEF TextInit, LimitInv, Nothing
<1>. QED
  BY <1>1, StatementStarts DEF StatementsInv

(* The other texts do not concern statements.                                *)
LEMMA NoStatement ==
  ASSUME subject' = subject, subject \notin {"statement", "builder", "limit"}
  PROVE  StatementsInv'
  BY DEF StatementsInv, StatementInv, LimitInv

(* Every step preserves it: one step of the proof per action.                *)
LEMMA StatementsNext == ASSUME StatementsInv, [TextNext]_textVars PROVE StatementsInv'
<1>1. ASSUME NEW ch \in DecimalChars, ReadDecimal(ch) PROVE StatementsInv'
  <2>1. subject' = subject /\ subject = "decimal"
    BY <1>1 DEF ReadDecimal
  <2>. QED
    BY <2>1, NoStatement
<1>2. ASSUME NEW d \in Dates, NEW style \in {"-", "/", "."}, WriteDate(d, style) PROVE StatementsInv'
  <2>1. subject' = subject /\ subject = "date"
    BY <1>2 DEF WriteDate
  <2>. QED
    BY <2>1, NoStatement
<1>3. ASSUME NEW t \in Times, NEW micros \in Fractions, WriteTime(t, micros) PROVE StatementsInv'
  <2>1. subject' = subject /\ subject = "time"
    BY <1>3 DEF WriteTime
  <2>. QED
    BY <2>1, NoStatement
<1>4. ASSUME NEW i \in 1..12, NEW ch \in {"-", ":", "1", "."}, Spoil(i, ch) PROVE StatementsInv'
  <2>1. subject' = subject /\ subject \in {"date", "time"}
    BY <1>4 DEF Spoil
  <2>. QED
    BY <2>1, NoStatement
<1>5. ASSUME NEW piece, WritePiece(piece),
             piece \in StatementPieces \cup Strings \/ (subject = "builder" /\ piece \in BuilderPieces(meant.count))
      PROVE  StatementsInv'
  <2>1. StatementInv'
    BY <1>5, StatementWritten DEF StatementsInv
  <2>2. subject' = subject /\ subject # "limit"
    BY <1>5 DEF WritePiece
  <2>. QED
    BY <2>1, <2>2 DEF StatementsInv, LimitInv
<1>6. ASSUME NEW which \in {"mysql", "postgresql", "sqlite", "oracle"}, NEW limit \in LimitNames, NEW offset \in OffsetNames,
             NEW isSelect \in BOOLEAN, NEW replicated \in BOOLEAN, PrepareWithLimit(which, limit, offset, isSelect, replicated)
      PROVE  StatementsInv'
  <2>1. LimitInv'
    BY <1>6, LimitStep DEF Drivers
  <2>2. subject' = subject /\ subject = "limit"
    BY <1>6 DEF PrepareWithLimit
  <2>. QED
    BY <2>1, <2>2 DEF StatementsInv, StatementInv
<1>7. ASSUME NEW piece \in UrlPieces, WriteUrl(piece) PROVE StatementsInv'
  <2>1. subject' = subject /\ subject = "postgresql"
    BY <1>7 DEF WriteUrl
  <2>. QED
    BY <2>1, NoStatement
<1>8. ASSUME NEW word \in {"user", "passwd", "password"}, NEW value \in MyValues, NEW quoted \in BOOLEAN,
             WriteMyParameter(word, value, quoted)
      PROVE  StatementsInv'
  <2>1. subject' = subject /\ subject = "mysql"
    BY <1>8 DEF WriteMyParameter
  <2>. QED
    BY <2>1, NoStatement
<1>9. ASSUME WriteMyPort PROVE StatementsInv'
  <2>1. subject' = subject /\ subject = "mysql"
    BY <1>9 DEF WriteMyPort
  <2>. QED
    BY <2>1, NoStatement
<1>10. ASSUME NEW word \in {"db", "user=", "passwd="}, NEW value \in {<<"x">>, <<"y">>}, WriteOra(word, value) PROVE StatementsInv'
  <2>1. subject' = subject /\ subject = "oracle"
    BY <1>10 DEF WriteOra
  <2>. QED
    BY <2>1, NoStatement
<1>11. CASE UNCHANGED textVars
  <2>1. subject' = subject /\ text' = text /\ meant' = meant
    BY <1>11 DEF textVars
  <2>. QED
    BY <2>1 DEF StatementsInv, StatementInv, LimitInv
<1>. QED
  BY <1>1, <1>2, <1>3, <1>4, <1>5, <1>6, <1>7, <1>8, <1>9, <1>10, <1>11, Zenon DEF TextNext

(* For every statement that can be written, of any number of pieces,         *)
(* directly or with the builder and its lists of up to two elements: the     *)
(* parser finds exactly the host variables, characters and strings that are  *)
(* meant, the value of a name reaches the places of this name and no other   *)
(* however the driver numbers them, and a limit and an offset leave the same *)
(* rows with every driver (StmtParser, SqlBuilder, SE::onHostVar,            *)
(* prepareWithLimit).                                                        *)
THEOREM StatementsAsMeant == TextSpec => []StatementAsMeant
<1>1. TextInit => StatementsInv
  BY StatementsStart
<1>2. StatementsInv /\ [TextNext]_textVars => StatementsInv'
  BY StatementsNext
<1>3. StatementsInv => StatementAsMeant
  BY StatementsHold
<1>. QED
  BY <1>1, <1>2, <1>3, PTL DEF TextSpec
===============================================================================
