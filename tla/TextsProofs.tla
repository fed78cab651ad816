----------------------------- MODULE TextsProofs ------------------------------
(***************************************************************************)
(* Proof that connection strings are read as they are meant, whatever is     *)
(* written and in whatever order (ConnectionAsMeant of Texts), without a     *)
(* bound on the number of pieces.  The inductive invariant TextInv says of   *)
(* each of the three readers what state the text written so far leaves it    *)
(* in: that state holds exactly what is meant.  A reader is a left fold over *)
(* the text, so the proof first finds out how a fold goes on when one symbol *)
(* is added.                                                                 *)
(***************************************************************************)
EXTENDS Texts, FiniteSetTheorems, TLAPS

-------------------------------------------------------------------------------
(* Left folds.  FoldLeft over a sequence is defined by a function on the     *)
(* sets of positions, so what it has computed is described here by a         *)
(* function Read(k, s) that is known by two equations, for the empty text    *)
(* and for a text with one more symbol.  They are proved by induction over   *)
(* the positions, written out because the library's induction theorems take  *)
(* an operator.                                                              *)

(* Induction over the natural numbers, for a set.                            *)
LEMMA Counting ==
  ASSUME NEW U, 0 \in U, \A n \in Nat : n \in U => n + 1 \in U
  PROVE  \A n \in Nat : n \in U
<1> SUFFICES ASSUME NEW n \in Nat, n \notin U
             PROVE  FALSE
  OBVIOUS
<1> DEFINE A == {k \in 0..n : k \in U}
           B == A \ {0}
           f == [k \in A |-> k + 1]
<1>1. IsFiniteSet(0..n)
  BY FS_Interval
<1>2. IsFiniteSet(A) /\ 0 \in A
  BY <1>1, FS_Subset
<1>3. IsFiniteSet(B) /\ Cardinality(B) = Cardinality(A) - 1
  BY <1>2, FS_RemoveElement
<1>4. \A k \in A : k + 1 \in B
  OBVIOUS
<1>5. f \in Injection(A, B)
  BY <1>4 DEF Injection, IsInjective
<1>6. Cardinality(A) <= Cardinality(B)
  BY <1>3, <1>5, FS_Injection
<1>7. Cardinality(A) \in Nat
  BY <1>2, FS_CardinalityType
<1>. QED
  BY <1>3, <1>6, <1>7

-----------------------------------------------------------------------------

(* One step of the loop that numbers the host variables of a statement.      *)
NumberOf(se, item) == IF H!IsVar(item) THEN H!PgOnHostVar(se, item[2]) ELSE se
NoNumbers == [map |-> << >>, idx |-> 0, shown |-> << >>]

(* One step of the reader k: of the postgresql url, of the mysql url, of the *)
(* numbering of host variables, and of StmtParser for the prefix k.          *)
Step(k, p, ch) ==
    CASE k = "url" -> C!UrlChar(p, ch, Username, Password)
      [] k = "mysql" -> C!MyChar(p, ch)
      [] k = "numbers" -> NumberOf(p, ch)
      [] OTHER -> H!ParseChar(p, ch, k)

(* Its first state.                                                          *)
Begin(k) ==
    CASE k = "url" -> C!UrlStart
      [] k = "mysql" -> C!MyStart(<< >>, << >>)
      [] k = "numbers" -> NoNumbers
      [] OTHER -> H!Start

(* The greatest position of a set, the one a left fold takes last.           *)
LastOf(x) == CHOOSE m \in x : \A j \in x : m >= j

(* f is the function by which FoldLeft is defined, for the reader k and text *)
(* s.                                                                        *)
Folds(k, f, places, s) ==
    f = [x \in SUBSET places |->
            IF x = {} THEN Begin(k) ELSE Step(k, f[x \ {LastOf(x)}], s[LastOf(x)])]

(* The state of the reader k behind the text s.                              *)
Read(k, s) == (CHOOSE f : Folds(k, f, 1..Len(s), s))[1..Len(s)]

(* LastOf of a nonempty set of positions is its greatest element.            *)
LEMMA LastIs == ASSUME NEW n \in Nat, NEW x \in SUBSET (1..n), x # {}
  PROVE LastOf(x) \in x /\ \A k \in x : k <= LastOf(x)
<1> DEFINE U == {m \in Nat : \A y \in SUBSET (1..m) : y # {} => \E l \in y : \A k \in y : l >= k}
<1>1. 0 \in U
  <2>1. \A y \in SUBSET (1..0) : y = {}
    OBVIOUS
  <2>. QED
    BY <2>1
<1>2. ASSUME NEW m \in Nat, m \in U PROVE m + 1 \in U
  <2> SUFFICES ASSUME NEW y \in SUBSET (1..(m + 1)), y # {} PROVE \E l \in y : \A k \in y : l >= k
    OBVIOUS
  <2>1. CASE m + 1 \in y
    BY <2>1
  <2>2. CASE m + 1 \notin y
    <3>1. y \in SUBSET (1..m)
      BY <2>2
    <3>. QED
      BY <1>2, <3>1
  <2>. QED
    BY <2>1, <2>2
<1>3. n \in U
  <2> HIDE DEF U
  <2>. QED
    BY <1>1, <1>2, Counting
<1>4. \E l \in x : \A k \in x : l >= k
  BY <1>3
<1>5. x \subseteq Int
  OBVIOUS
<1>6. LastOf(x) \in x /\ \A k \in x : LastOf(x) >= k
  BY <1>4, Zenon DEF LastOf
<1>. QED
  BY <1>5, <1>6

(* The function of n positions extends to n + 1 positions.                   *)
LEMMA FoldsNext ==
  ASSUME NEW k, NEW s, NEW n \in Nat, NEW f, Folds(k, f, 1..n, s)
  PROVE  \E g : Folds(k, g, 1..(n + 1), s)
<1> DEFINE g == [x \in SUBSET (1..(n + 1)) |->
                   IF n + 1 \in x THEN Step(k, f[x \ {n + 1}], s[n + 1]) ELSE f[x]]
<1>1. ASSUME NEW x \in SUBSET (1..(n + 1))
      PROVE  g[x] = IF x = {} THEN Begin(k) ELSE Step(k, g[x \ {LastOf(x)}], s[LastOf(x)])
  <2>1. CASE n + 1 \in x
    <3>1. LastOf(x) = n + 1
      <4>1. LastOf(x) \in x /\ n + 1 <= LastOf(x)
        <5>1. n + 1 \in Nat
          OBVIOUS
        <5>. QED
          BY <2>1, <5>1, LastIs
      <4>2. \A i \in x : i \in 1..(n + 1)
        OBVIOUS
      <4>3. LastOf(x) \in 1..(n + 1)
        BY <4>1, <4>2
      <4>. QED
        BY <4>1, <4>3
    <3>2. x \ {n + 1} \in SUBSET (1..(n + 1)) /\ n + 1 \notin x \ {n + 1}
      OBVIOUS
    <3>3. g[x] = Step(k, f[x \ {n + 1}], s[n + 1]) /\ g[x \ {n + 1}] = f[x \ {n + 1}]
      BY <2>1, <3>2
    <3>. QED
      BY <2>1, <3>1, <3>3
  <2>2. CASE n + 1 \notin x
    <3>1. x \in SUBSET (1..n)
      BY <2>2
    <3>2. f[x] = IF x = {} THEN Begin(k) ELSE Step(k, f[x \ {LastOf(x)}], s[LastOf(x)])
      BY <3>1 DEF Folds
    <3>3. x \ {LastOf(x)} \in SUBSET (1..(n + 1)) /\ n + 1 \notin x \ {LastOf(x)}
      BY <2>2
    <3>4. g[x] = f[x] /\ g[x \ {LastOf(x)}] = f[x \ {LastOf(x)}]
      BY <2>2, <3>3
    <3>. QED
      BY <3>2, <3>4
  <2>. QED
    BY <2>1, <2>2
<1>2. g = [x \in SUBSET (1..(n + 1)) |-> g[x]]
  OBVIOUS
<1> HIDE DEF g
<1>3. Folds(k, g, 1..(n + 1), s)
  BY <1>1, <1>2 DEF Folds
<1>. QED
  BY <1>3

(* There is such a function for any number of positions.                     *)
LEMMA FoldsExist ==
  ASSUME NEW k, NEW s, NEW n \in Nat
  PROVE  \E f : Folds(k, f, 1..n, s)
<1> DEFINE U == {m \in Nat : \E f : Folds(k, f, 1..m, s)}
<1>1. 0 \in U
  <2> DEFINE f == [x \in SUBSET (1..0) |-> Begin(k)]
  <2>1. \A x \in SUBSET (1..0) : x = {}
    OBVIOUS
  <2>2. f = [x \in SUBSET (1..0) |-> IF x = {} THEN Begin(k) ELSE Step(k, f[x \ {LastOf(x)}], s[LastOf(x)])]
    BY <2>1
  <2> HIDE DEF f
  <2>3. Folds(k, f, 1..0, s)
    BY <2>2 DEF Folds
  <2>. QED
    BY <2>3
<1>2. ASSUME NEW m \in Nat, m \in U PROVE m + 1 \in U
  <2>1. PICK f : Folds(k, f, 1..m, s)
    BY <1>2
  <2>. QED
    BY <2>1, FoldsNext
<1>3. n \in U
  <2> HIDE DEF U
  <2>. QED
    BY <1>1, <1>2, Counting
<1>. QED
  BY <1>3

(* It starts with the first state of the reader.                             *)
LEMMA FoldsFirst ==
  ASSUME NEW k, NEW s, NEW n \in Nat, NEW f, Folds(k, f, 1..n, s)
  PROVE  f[1..0] = Begin(k)
<1>1. 1..0 \in SUBSET (1..n) /\ 1..0 = {}
  OBVIOUS
<1>. QED
  BY <1>1 DEF Folds

(* Its value for one more position is one more step of the reader.           *)
LEMMA FoldsLast ==
  ASSUME NEW k, NEW s, NEW n \in Nat, NEW f, Folds(k, f, 1..n, s), NEW e \in Nat, e < n
  PROVE  f[1..(e + 1)] = Step(k, f[1..e], s[e + 1])
<1>1. 1..(e + 1) \in SUBSET (1..n) /\ 1..(e + 1) # {}
  OBVIOUS
<1>2. f[1..(e + 1)] = Step(k, f[(1..(e + 1)) \ {LastOf(1..(e + 1))}], s[LastOf(1..(e + 1))])
  BY <1>1 DEF Folds
<1>3. LastOf(1..(e + 1)) = e + 1
  <2>1. LastOf(1..(e + 1)) \in 1..(e + 1) /\ \A j \in 1..(e + 1) : j <= LastOf(1..(e + 1))
    BY <1>1, LastIs
  <2>2. e + 1 \in 1..(e + 1)
    OBVIOUS
  <2>. QED
    BY <2>1, <2>2
<1>4. (1..(e + 1)) \ {e + 1} = 1..e
  OBVIOUS
<1>. QED
  BY <1>2, <1>3, <1>4

(* What it says of the first n symbols does not depend on what follows.      *)
LEMMA FoldsAgree ==
  ASSUME NEW k, NEW s, NEW t, NEW n \in Nat, NEW m \in Nat, n <= m, NEW f, NEW g,
         Folds(k, f, 1..n, s), Folds(k, g, 1..m, t), \A i \in 1..n : s[i] = t[i]
  PROVE  f[1..n] = g[1..n]
<1> DEFINE U == {e \in Nat : e <= n => f[1..e] = g[1..e]}
<1>1. 0 \in U
  <2>1. f[1..0] = Begin(k)
    BY FoldsFirst
  <2>2. g[1..0] = Begin(k)
    BY FoldsFirst
  <2>. QED
    BY <2>1, <2>2
<1>2. ASSUME NEW e \in Nat, e \in U PROVE e + 1 \in U
  <2> SUFFICES ASSUME e + 1 <= n PROVE f[1..(e + 1)] = g[1..(e + 1)]
    OBVIOUS
  <2>1. f[1..(e + 1)] = Step(k, f[1..e], s[e + 1])
    <3>1. n \in Nat /\ e \in Nat /\ e < n /\ Folds(k, f, 1..n, s)
      OBVIOUS
    <3>. QED
      BY <3>1, FoldsLast
  <2>2. g[1..(e + 1)] = Step(k, g[1..e], t[e + 1])
    <3>1. m \in Nat /\ e \in Nat /\ e < m /\ Folds(k, g, 1..m, t)
      OBVIOUS
    <3>. QED
      BY <3>1, FoldsLast
  <2>3. f[1..e] = g[1..e] /\ s[e + 1] = t[e + 1]
    BY <1>2
  <2>. QED
    BY <2>1, <2>2, <2>3
<1>3. n \in U
  <2> HIDE DEF U
  <2>. QED
    BY <1>1, <1>2, Counting
<1>. QED
  BY <1>3

(* One more symbol of the text is one more step.                             *)
LEMMA FoldsGrow ==
  ASSUME NEW k, NEW s, NEW t, NEW n \in Nat, NEW f, NEW g,
         Folds(k, f, 1..n, s), Folds(k, g, 1..(n + 1), t), \A i \in 1..n : s[i] = t[i]
  PROVE  g[1..(n + 1)] = Step(k, f[1..n], t[n + 1])
<1> DEFINE m == n + 1
<1>1. n \in Nat /\ m \in Nat /\ n <= m /\ n < m
  OBVIOUS
<1> HIDE DEF m
<1>2. Folds(k, f, 1..n, s) /\ Folds(k, g, 1..m, t) /\ \A i \in 1..n : s[i] = t[i]
  BY DEF m
<1>3. f[1..n] = g[1..n]
  BY <1>1, <1>2, FoldsAgree
<1>4. g[1..(n + 1)] = Step(k, g[1..n], t[n + 1])
  BY <1>1, <1>2, FoldsLast
<1>. QED
  BY <1>3, <1>4

(* Any function with this definition gives Read.                             *)
LEMMA ReadIs ==
  ASSUME NEW k, NEW s, NEW n \in Nat, n = Len(s), NEW f, Folds(k, f, 1..n, s)
  PROVE  f[1..n] = Read(k, s)
<1> DEFINE g == CHOOSE g : Folds(k, g, 1..n, s)
<1>1. Folds(k, g, 1..n, s)
  OBVIOUS
<1>2. Read(k, s) = g[1..n]
  BY DEF Read
<1> HIDE DEF g
<1>3. n \in Nat /\ n <= n /\ Folds(k, f, 1..n, s) /\ Folds(k, g, 1..n, s) /\ \A i \in 1..n : s[i] = s[i]
  BY <1>1
<1>4. f[1..n] = g[1..n]
  BY <1>3, FoldsAgree
<1>. QED
  BY <1>2, <1>4

(* Nothing read: the first state.                                            *)
LEMMA ReadFirst == ASSUME NEW k PROVE Read(k, << >>) = Begin(k)
<1>1. PICK f : Folds(k, f, 1..0, << >>)
  BY FoldsExist, 0 \in Nat
<1>2. Folds(k, CHOOSE g : Folds(k, g, 1..0, << >>), 1..0, << >>)
  BY <1>1
<1>3. 1..0 = {} /\ 1..0 \in SUBSET (1..0) /\ Len(<< >>) = 0
  OBVIOUS
<1>. QED
  BY <1>2, <1>3 DEF Folds, Read

(* One more symbol read: one more step.                                      *)
LEMMA ReadNext ==
  ASSUME NEW k, NEW S, NEW s \in Seq(S), NEW ch \in S
  PROVE  Read(k, Append(s, ch)) = Step(k, Read(k, s), ch)
<1> DEFINE n == Len(s)
           t == Append(s, ch)
           f == CHOOSE f : Folds(k, f, 1..n, s)
           g == CHOOSE g : Folds(k, g, 1..(n + 1), t)
<1>1. n \in Nat /\ n + 1 \in Nat /\ Len(t) = n + 1 /\ t[n + 1] = ch /\ \A i \in 1..n : s[i] = t[i]
  OBVIOUS
<1> HIDE DEF n, t
<1>2. Folds(k, f, 1..n, s) /\ Folds(k, g, 1..(n + 1), t)
  BY <1>1, FoldsExist
<1>3. Read(k, s) = f[1..n] /\ Read(k, t) = g[1..(n + 1)]
  BY <1>1 DEF Read, n
<1> HIDE DEF f, g
<1>4. g[1..(n + 1)] = Step(k, f[1..n], t[n + 1])
  BY <1>1, <1>2, FoldsGrow
<1>. QED
  BY <1>1, <1>3, <1>4 DEF t

(* The expanded url in terms of Read.                                        *)
LEMMA UrlRead == ASSUME NEW S, NEW s \in Seq(S) PROVE
  C!Url(s, Username, Password) =
    LET p == Read("url", s)
    IN p.out \o (CASE p.state = "0" -> << >>
                   [] p.state = "p" -> <<"%">>
                   [] p.state = "e" -> <<"\\">>)
<1> DEFINE places == DOMAIN s
           Same(g) == g = [x \in SUBSET places |->
                             IF x = {} THEN C!UrlStart
                             ELSE C!UrlChar(g[x \ {LastOf(x)}], s[LastOf(x)], Username, Password)]
           f == CHOOSE g : Same(g)
           n == Len(s)
<1>1. C!Url(s, Username, Password) =
        LET p == f[places]
        IN p.out \o (CASE p.state = "0" -> << >>
                       [] p.state = "p" -> <<"%">>
                       [] p.state = "e" -> <<"\\">>)
  BY DEF C!Url, C!FoldLeft, C!MapThenFoldSet, C!Max, LastOf
<1>2. places = 1..n /\ n \in Nat
  OBVIOUS
<1> HIDE DEF places
<1>3. \A p, ch : Step("url", p, ch) = C!UrlChar(p, ch, Username, Password)
  BY Zenon DEF Step
<1>4. Begin("url") = C!UrlStart
  BY Zenon DEF Begin
<1>5. ASSUME NEW g PROVE Same(g) <=> Folds("url", g, 1..n, s)
  <2>1. [x \in SUBSET places |->
           IF x = {} THEN Begin("url") ELSE Step("url", g[x \ {LastOf(x)}], s[LastOf(x)])]
          = [x \in SUBSET places |-> IF x = {} THEN C!UrlStart ELSE C!UrlChar(g[x \ {LastOf(x)}], s[LastOf(x)], Username, Password)]
    BY <1>3, <1>4
  <2>. QED
    BY <1>2, <2>1, Zenon DEF Folds
<1> HIDE DEF Same
<1>6. PICK g : Folds("url", g, 1..n, s)
  BY <1>2, FoldsExist
<1>7. Same(f)
  BY <1>5, <1>6
<1> HIDE DEF f
<1>8. Folds("url", f, 1..n, s) /\ n \in Nat /\ n = Len(s)
  BY <1>2, <1>5, <1>7
<1>9. f[1..n] = Read("url", s)
  BY <1>8, ReadIs
<1>. QED
  BY <1>1, <1>2, <1>9

(* The parameters of the mysql url in terms of Read.                         *)
LEMMA MyRead == ASSUME NEW S, NEW s \in Seq(S) PROVE
  C!MyParameters(s, << >>, << >>) =
    LET p == Read("mysql", s)
    IN IF p.state = "error" \/ (p.state = "key" /\ p.key # << >>) THEN [error |-> TRUE]
       ELSE [value |-> p.value, port |-> p.port, flags |-> p.flags]
<1> DEFINE places == DOMAIN s
           Same(g) == g = [x \in SUBSET places |->
                             IF x = {} THEN C!MyStart(<< >>, << >>)
                             ELSE C!MyChar(g[x \ {LastOf(x)}], s[LastOf(x)])]
           f == CHOOSE g : Same(g)
           n == Len(s)
<1>1. C!MyParameters(s, << >>, << >>) =
        LET p == f[places]
        IN IF p.state = "error" \/ (p.state = "key" /\ p.key # << >>) THEN [error |-> TRUE]
           ELSE [value |-> p.value, port |-> p.port, flags |-> p.flags]
  BY DEF C!MyParameters, C!FoldLeft, C!MapThenFoldSet, C!Max, LastOf
<1>2. places = 1..n /\ n \in Nat
  OBVIOUS
<1> HIDE DEF places
<1>3. \A p, ch : Step("mysql", p, ch) = C!MyChar(p, ch)
  BY Zenon DEF Step
<1>4. Begin("mysql") = C!MyStart(<< >>, << >>)
  BY Zenon DEF Begin
<1>5. ASSUME NEW g PROVE Same(g) <=> Folds("mysql", g, 1..n, s)
  <2>1. [x \in SUBSET places |->
           IF x = {} THEN Begin("mysql") ELSE Step("mysql", g[x \ {LastOf(x)}], s[LastOf(x)])]
          = [x \in SUBSET places |-> IF x = {} THEN C!MyStart(<< >>, << >>) ELSE C!MyChar(g[x \ {LastOf(x)}], s[LastOf(x)])]
    BY <1>3, <1>4
  <2>. QED
    BY <1>2, <2>1, Zenon DEF Folds
<1> HIDE DEF Same
<1>6. PICK g : Folds("mysql", g, 1..n, s)
  BY <1>2, FoldsExist
<1>7. Same(f)
  BY <1>5, <1>6
<1> HIDE DEF f
<1>8. Folds("mysql", f, 1..n, s) /\ n \in Nat /\ n = Len(s)
  BY <1>2, <1>5, <1>7
<1>9. f[1..n] = Read("mysql", s)
  BY <1>8, ReadIs
<1>. QED
  BY <1>1, <1>2, <1>9

(* The statement that StmtParser hands to its events in terms of Read.       *)
LEMMA ParseRead == ASSUME NEW S, NEW s \in Seq(S),
         NEW prefix \in {":", "%"} PROVE
  H!ParseText(s, prefix) =
    H!AtEnd(Read(prefix, s), prefix).sql
<1> DEFINE places == DOMAIN s
           Same(g) == g = [x \in SUBSET places |->
                             IF x = {} THEN H!Start
                             ELSE H!ParseChar(g[x \ {LastOf(x)}], s[LastOf(x)], prefix)]
           f == CHOOSE g : Same(g)
           n == Len(s)
<1>1. H!ParseText(s, prefix) =
        H!AtEnd(f[places], prefix).sql
  BY DEF H!ParseText, H!FoldLeft, H!MapThenFoldSet, H!Max, LastOf
<1>2. places = 1..n /\ n \in Nat
  OBVIOUS
<1> HIDE DEF places
<1>3. \A p, ch : Step(prefix, p, ch) = H!ParseChar(p, ch, prefix)
  BY Zenon DEF Step
<1>4. Begin(prefix) = H!Start
  BY Zenon DEF Begin
<1>5. ASSUME NEW g PROVE Same(g) <=> Folds(prefix, g, 1..n, s)
  <2>1. [x \in SUBSET places |->
           IF x = {} THEN Begin(prefix) ELSE Step(prefix, g[x \ {LastOf(x)}], s[LastOf(x)])]
          = [x \in SUBSET places |-> IF x = {} THEN H!Start ELSE H!ParseChar(g[x \ {LastOf(x)}], s[LastOf(x)], prefix)]
    BY <1>3, <1>4
  <2>. QED
    BY <1>2, <2>1, Zenon DEF Folds
<1> HIDE DEF Same
<1>6. PICK g : Folds(prefix, g, 1..n, s)
  BY <1>2, FoldsExist
<1>7. Same(f)
  BY <1>5, <1>6
<1> HIDE DEF f
<1>8. Folds(prefix, f, 1..n, s) /\ n \in Nat /\ n = Len(s)
  BY <1>2, <1>5, <1>7
<1>9. f[1..n] = Read(prefix, s)
  BY <1>8, ReadIs
<1>. QED
  BY <1>1, <1>2, <1>9

(* The numbered host variables in terms of Read.                             *)
LEMMA NumbersRead == ASSUME NEW S, NEW s \in Seq(S) PROVE
  H!PgHostVars(s) =
    Read("numbers", s)
<1> DEFINE places == DOMAIN s
           Same(g) == g = [x \in SUBSET places |->
                             IF x = {} THEN NoNumbers
                             ELSE NumberOf(g[x \ {LastOf(x)}], s[LastOf(x)])]
           f == CHOOSE g : Same(g)
           n == Len(s)
<1>1. H!PgHostVars(s) =
        f[places]
  BY DEF H!PgHostVars, H!FoldLeft, H!MapThenFoldSet, H!Max, NumberOf, NoNumbers, LastOf
<1>2. places = 1..n /\ n \in Nat
  OBVIOUS
<1> HIDE DEF places
<1>3. \A p, ch : Step("numbers", p, ch) = NumberOf(p, ch)
  BY Zenon DEF Step
<1>4. Begin("numbers") = NoNumbers
  BY Zenon DEF Begin
<1>5. ASSUME NEW g PROVE Same(g) <=> Folds("numbers", g, 1..n, s)
  <2>1. [x \in SUBSET places |->
           IF x = {} THEN Begin("numbers") ELSE Step("numbers", g[x \ {LastOf(x)}], s[LastOf(x)])]
          = [x \in SUBSET places |-> IF x = {} THEN NoNumbers ELSE NumberOf(g[x \ {LastOf(x)}], s[LastOf(x)])]
    BY <1>3, <1>4
  <2>. QED
    BY <1>2, <2>1, Zenon DEF Folds
<1> HIDE DEF Same
<1>6. PICK g : Folds("numbers", g, 1..n, s)
  BY <1>2, FoldsExist
<1>7. Same(f)
  BY <1>5, <1>6
<1> HIDE DEF f
<1>8. Folds("numbers", f, 1..n, s) /\ n \in Nat /\ n = Len(s)
  BY <1>2, <1>5, <1>7
<1>9. f[1..n] = Read("numbers", s)
  BY <1>8, ReadIs
<1>. QED
  BY <1>1, <1>2, <1>9

-------------------------------------------------------------------------------
(* FlattenSeq, described by its value on the empty sequence and on a         *)
(* sequence with one more element.                                           *)

(* Concatenation as an operator that the provers do not look into.           *)
Cat(s, t) == s \o t

(* The length of a sequence, likewise.                                       *)
HasLen(s, n) == n = Len(s)

(* f joins the first n sequences of ss, as FlattenSeq does.                  *)
Joins(f, n, ss) == f = [i \in 1..n |-> IF i = 1 THEN ss[i] ELSE Cat(f[i - 1], ss[i])]

(* A join of n sequences extends to n + 1.                                   *)
LEMMA JoinsNext ==
  ASSUME NEW ss, NEW n \in Nat, NEW f, Joins(f, n, ss)
  PROVE  \E g : Joins(g, n + 1, ss)
<1> DEFINE last == IF n = 0 THEN ss[1] ELSE Cat(f[n], ss[n + 1])
           g == [i \in 1..(n + 1) |-> IF i = n + 1 THEN last ELSE f[i]]
<1>1. ASSUME NEW i \in 1..(n + 1) PROVE g[i] = IF i = 1 THEN ss[i] ELSE Cat(g[i - 1], ss[i])
  <2>1. CASE i = n + 1 /\ n = 0
    BY <2>1
  <2>2. CASE i = n + 1 /\ n # 0
    <3>1. n \in 1..(n + 1) /\ n # n + 1 /\ i - 1 = n /\ i # 1
      BY <2>2
    <3>2. g[i] = last /\ last = Cat(f[n], ss[n + 1])
      BY <2>2
    <3>3. g[n] = f[n]
      BY <3>1
    <3>. QED
      BY <2>2, <3>1, <3>2, <3>3
  <2>3. CASE i # n + 1
    <3>1. i \in 1..n /\ (i # 1 => i - 1 \in 1..(n + 1) /\ i - 1 # n + 1)
      BY <2>3
    <3>2. f[i] = IF i = 1 THEN ss[i] ELSE Cat(f[i - 1], ss[i])
      BY <3>1 DEF Joins
    <3>3. g[i] = f[i]
      BY <2>3
    <3>4. i # 1 => g[i - 1] = f[i - 1]
      BY <3>1
    <3>. QED
      BY <3>2, <3>3, <3>4
  <2>. QED
    BY <2>1, <2>2, <2>3
<1>2. g = [i \in 1..(n + 1) |-> g[i]]
  OBVIOUS
<1> HIDE DEF g
<1>3. Joins(g, n + 1, ss)
  BY <1>1, <1>2 DEF Joins
<1>. QED
  BY <1>3

(* There is a join of any number of sequences.                               *)
LEMMA JoinsExist ==
  ASSUME NEW ss, NEW n \in Nat
  PROVE  \E f : Joins(f, n, ss)
<1> DEFINE U == {m \in Nat : \E f : Joins(f, m, ss)}
<1>1. 0 \in U
  <2> DEFINE f == [i \in 1..0 |-> ss[i]]
  <2>1. f = [i \in 1..0 |-> IF i = 1 THEN ss[i] ELSE Cat(f[i - 1], ss[i])]
    OBVIOUS
  <2> HIDE DEF f
  <2>2. Joins(f, 0, ss)
    BY <2>1 DEF Joins
  <2>. QED
    BY <2>2
<1>2. ASSUME NEW m \in Nat, m \in U PROVE m + 1 \in U
  <2>1. PICK f : Joins(f, m, ss)
    BY <1>2
  <2>. QED
    BY <2>1, JoinsNext
<1>3. n \in U
  <2> HIDE DEF U
  <2>. QED
    BY <1>1, <1>2, Counting
<1>. QED
  BY <1>3

(* Its value for one more sequence.                                          *)
LEMMA JoinsAt ==
  ASSUME NEW ss, NEW n \in Nat, NEW f, Joins(f, n, ss), NEW e \in Nat, e < n
  PROVE  f[e + 1] = IF e = 0 THEN ss[1] ELSE Cat(f[e], ss[e + 1])
<1>1. e + 1 \in 1..n /\ (e + 1) - 1 = e /\ (e + 1 = 1 <=> e = 0)
  OBVIOUS
<1>2. f[e + 1] = IF e + 1 = 1 THEN ss[e + 1] ELSE Cat(f[(e + 1) - 1], ss[e + 1])
  BY <1>1 DEF Joins
<1>. QED
  BY <1>1, <1>2

(* It does not depend on the sequences that follow.                          *)
LEMMA JoinsAgree ==
  ASSUME NEW ss, NEW tt, NEW n \in Nat, NEW m \in Nat, n <= m, NEW f, NEW g,
         Joins(f, n, ss), Joins(g, m, tt), \A i \in 1..n : ss[i] = tt[i]
  PROVE  n > 0 => f[n] = g[n]
<1> DEFINE U == {e \in Nat : e <= n /\ e > 0 => f[e] = g[e]}
<1>1. 0 \in U
  OBVIOUS
<1>2. ASSUME NEW e \in Nat, e \in U PROVE e + 1 \in U
  <2> SUFFICES ASSUME e + 1 <= n PROVE f[e + 1] = g[e + 1]
    OBVIOUS
  <2>1. f[e + 1] = IF e = 0 THEN ss[1] ELSE Cat(f[e], ss[e + 1])
    <3>1. n \in Nat /\ e \in Nat /\ e < n /\ Joins(f, n, ss)
      OBVIOUS
    <3>. QED
      BY <3>1, JoinsAt
  <2>2. g[e + 1] = IF e = 0 THEN tt[1] ELSE Cat(g[e], tt[e + 1])
    <3>1. m \in Nat /\ e \in Nat /\ e < m /\ Joins(g, m, tt)
      OBVIOUS
    <3>. QED
      BY <3>1, JoinsAt
  <2>3. e > 0 => f[e] = g[e]
    BY <1>2
  <2>4. ss[e + 1] = tt[e + 1] /\ (e = 0 => ss[1] = tt[1])
    OBVIOUS
  <2>. QED
    BY <2>1, <2>2, <2>3, <2>4
<1>3. n \in U
  <2> HIDE DEF U
  <2>. QED
    BY <1>1, <1>2, Counting
<1>. QED
  BY <1>3

(* One more sequence is appended.                                            *)
LEMMA JoinsGrow ==
  ASSUME NEW ss, NEW tt, NEW n \in Nat, NEW f, NEW g,
         Joins(f, n, ss), Joins(g, n + 1, tt), \A i \in 1..n : ss[i] = tt[i]
  PROVE  (n = 0 => g[n + 1] = tt[1]) /\ (n # 0 => g[n + 1] = Cat(f[n], tt[n + 1]))
<1> DEFINE m == n + 1
<1>1. m \in Nat /\ n \in Nat /\ n <= m /\ n < m
  OBVIOUS
<1> HIDE DEF m
<1>2. Joins(f, n, ss) /\ Joins(g, m, tt) /\ \A i \in 1..n : ss[i] = tt[i]
  BY DEF m
<1>3. g[n + 1] = IF n = 0 THEN tt[1] ELSE Cat(g[n], tt[n + 1])
  BY <1>1, <1>2, JoinsAt
<1>4. n > 0 => f[n] = g[n]
  BY <1>1, <1>2, JoinsAgree
<1>. QED
  BY <1>1, <1>3, <1>4

(* Nothing flattened is nothing.                                             *)
LEMMA FlattenEmpty == FlattenSeq(<< >>) = << >>
  BY DEF FlattenSeq

(* Any join gives FlattenSeq.                                                *)
LEMMA FlattenIs ==
  ASSUME NEW ss, NEW n \in Nat, HasLen(ss, n), n > 0, NEW f, Joins(f, n, ss)
  PROVE  FlattenSeq(ss) = f[n]
<1> DEFINE g == CHOOSE g : Joins(g, Len(ss), ss)
<1>0. Len(ss) # 0 /\ n = Len(ss)
  BY DEF HasLen
<1>1. Joins(g, n, ss)
  BY <1>0
<1>2. FlattenSeq(ss) = g[Len(ss)]
  BY <1>0, Zenon DEF FlattenSeq, Joins, Cat
<1> HIDE DEF g
<1>3. n \in Nat /\ n <= n /\ Joins(f, n, ss) /\ Joins(g, n, ss) /\ \A i \in 1..n : ss[i] = ss[i]
  BY <1>1
<1>. QED
  BY <1>0, <1>2, <1>3, JoinsAgree

(* FlattenSeq of a longer sequence, by positions.                            *)
LEMMA FlattenGrow ==
  ASSUME NEW ss, NEW tt, NEW n \in Nat, HasLen(ss, n), HasLen(tt, n + 1), \A i \in 1..n : ss[i] = tt[i]
  PROVE  FlattenSeq(tt) = IF n = 0 THEN tt[1] ELSE FlattenSeq(ss) \o tt[n + 1]
<1>1. PICK f : Joins(f, n, ss)
  BY JoinsExist
<1>2. PICK g : Joins(g, n + 1, tt)
  <2>1. n + 1 \in Nat
    OBVIOUS
  <2>. QED
    BY <2>1, JoinsExist
<1>3. (n = 0 => g[n + 1] = tt[1]) /\ (n # 0 => g[n + 1] = Cat(f[n], tt[n + 1]))
  <2>1. n \in Nat /\ Joins(f, n, ss) /\ Joins(g, n + 1, tt) /\ \A i \in 1..n : ss[i] = tt[i]
    BY <1>1, <1>2
  <2>. QED
    BY <2>1, JoinsGrow
<1>4. FlattenSeq(tt) = g[n + 1]
  <2>1. n + 1 \in Nat /\ n + 1 > 0
    OBVIOUS
  <2>. QED
    BY <1>2, <2>1, FlattenIs
<1>5. n # 0 => FlattenSeq(ss) = f[n]
  <2> SUFFICES ASSUME n # 0 PROVE FlattenSeq(ss) = f[n]
    OBVIOUS
  <2>1. n > 0
    OBVIOUS
  <2>. QED
    BY <1>1, <2>1, FlattenIs
<1>. QED
  BY <1>3, <1>4, <1>5 DEF Cat

(* FlattenSeq of a sequence with one more element.                           *)
LEMMA FlattenNext ==
  ASSUME NEW S, NEW ss \in Seq(Seq(S)), NEW s \in Seq(S)
  PROVE  FlattenSeq(Append(ss, s)) = FlattenSeq(ss) \o s
<1> DEFINE n == Len(ss)
           tt == Append(ss, s)
<1>1. n \in Nat /\ HasLen(ss, n) /\ HasLen(tt, n + 1) /\ tt[n + 1] = s /\ \A i \in 1..n : ss[i] = tt[i]
  BY DEF HasLen
<1>2. n = 0 => ss = << >>
  OBVIOUS
<1> HIDE DEF n, tt
<1>3. FlattenSeq(tt) = IF n = 0 THEN tt[1] ELSE FlattenSeq(ss) \o tt[n + 1]
  BY <1>1, FlattenGrow
<1>4. CASE n = 0
  <2>1. FlattenSeq(ss) = << >>
    BY <1>2, <1>4, FlattenEmpty
  <2>2. FlattenSeq(tt) = s
    BY <1>1, <1>3, <1>4
  <2>. QED
    BY <2>1, <2>2 DEF tt
<1>5. CASE n # 0
  BY <1>1, <1>3, <1>5 DEF tt
<1>. QED
  BY <1>4, <1>5

(* The FlattenSeq of HostVars is that of Texts.                              *)
LEMMA FlattenSame == ASSUME NEW ss PROVE H!FlattenSeq(ss) = FlattenSeq(ss)
  BY DEF H!FlattenSeq, FlattenSeq

-------------------------------------------------------------------------------
(* The symbols the texts of this model are made of, and texts that grow by   *)
(* one or two of them.                                                       *)

(* The symbols of the texts, keywords of urls being symbols of their own.    *)
Symbol == {"x", "y", "a", "v", "w", "t", "u", "p", "U", "P", "0", "1", "2", "%", ":", ";", ",", "=",
           "\\", "'", "\"", "blank", "NULL", "user", "passwd", "password", "port", "user=", "passwd="}

(* A text and one more symbol.                                               *)
LEMMA ReadOne ==
  ASSUME NEW k, NEW s \in Seq(Symbol), NEW a \in Symbol
  PROVE  s \o <<a>> \in Seq(Symbol) /\ Read(k, s \o <<a>>) = Step(k, Read(k, s), a)
<1>1. s \o <<a>> = Append(s, a) /\ Append(s, a) \in Seq(Symbol)
  OBVIOUS
<1>2. Read(k, Append(s, a)) = Step(k, Read(k, s), a)
  BY ReadNext
<1>. QED
  BY <1>1, <1>2

(* A text and two more symbols.                                              *)
LEMMA ReadTwo ==
  ASSUME NEW k, NEW s \in Seq(Symbol), NEW a \in Symbol, NEW b \in Symbol
  PROVE  s \o <<a, b>> \in Seq(Symbol) /\ Read(k, s \o <<a, b>>) = Step(k, Step(k, Read(k, s), a), b)
<1>1. s \o <<a, b>> = Append(Append(s, a), b) /\ Append(s, a) \in Seq(Symbol) /\ Append(Append(s, a), b) \in Seq(Symbol)
  OBVIOUS
<1>2. Read(k, Append(s, a)) = Step(k, Read(k, s), a)
  BY ReadNext
<1>3. Read(k, Append(Append(s, a), b)) = Step(k, Read(k, Append(s, a)), b)
  BY <1>1, ReadNext
<1>. QED
  BY <1>1, <1>2, <1>3

(* What a statement means: characters and host variables.                    *)
Item == ({"char"} \X Symbol) \cup ({"var"} \X Seq(Symbol))

(* A sequence is known by its entries.                                       *)
LEMMA ConcatIs ==
  ASSUME NEW S, NEW c \in Seq(S), NEW d \in Seq(S), NEW l \in Seq(S), Len(l) = Len(c) + Len(d),
         \A i \in 1..Len(c) : l[i] = c[i], \A i \in 1..Len(d) : l[i + Len(c)] = d[i]
  PROVE  l = c \o d
  OBVIOUS

(* The characters of a text are items.                                       *)
LEMMA CharsAre == ASSUME NEW s \in Seq(Symbol) PROVE H!CharsOf(s) \in Seq(Item)
<1>1. DOMAIN s = 1..Len(s) /\ Len(s) \in Nat
  OBVIOUS
<1>2. \A i \in 1..Len(s) : H!Char(s[i]) \in Item
  BY DEF H!Char, Item
<1>3. H!CharsOf(s) = [i \in 1..Len(s) |-> H!Char(s[i])]
  BY <1>1 DEF H!CharsOf
<1>. QED
  BY <1>1, <1>2, <1>3

(* The characters of two texts put together.                                 *)
LEMMA CharsConcat ==
  ASSUME NEW s \in Seq(Symbol), NEW t \in Seq(Symbol)
  PROVE  H!CharsOf(s \o t) = H!CharsOf(s) \o H!CharsOf(t)
<1>1. s \o t \in Seq(Symbol) /\ Len(s \o t) = Len(s) + Len(t) /\ Len(s) \in Nat /\ Len(t) \in Nat
  OBVIOUS
<1>2. H!CharsOf(s) \in Seq(Item) /\ H!CharsOf(t) \in Seq(Item) /\ H!CharsOf(s \o t) \in Seq(Item)
  BY <1>1, CharsAre
<1>3. Len(H!CharsOf(s)) = Len(s) /\ Len(H!CharsOf(t)) = Len(t) /\ Len(H!CharsOf(s \o t)) = Len(s) + Len(t)
  BY <1>1 DEF H!CharsOf
<1> DEFINE n == Len(s)
           m == Len(t)
           l == H!CharsOf(s \o t)
           c == H!CharsOf(s)
           d == H!CharsOf(t)
<1>4. n \in Nat /\ m \in Nat
  OBVIOUS
<1>5. c \in Seq(Item) /\ d \in Seq(Item) /\ l \in Seq(Item) /\ Len(c) = n /\ Len(d) = m /\ Len(l) = n + m
  BY <1>2, <1>3
<1>6. \A i \in 1..(n + m) : l[i] = H!Char((s \o t)[i])
  BY <1>1 DEF H!CharsOf
<1>7. (\A i \in 1..n : c[i] = H!Char(s[i])) /\ (\A i \in 1..m : d[i] = H!Char(t[i]))
  BY <1>1 DEF H!CharsOf
<1>8. (\A i \in 1..n : (s \o t)[i] = s[i]) /\ (\A i \in 1..m : (s \o t)[i + n] = t[i])
  OBVIOUS
<1>9. (\A i \in 1..n : i \in 1..(n + m)) /\ (\A i \in 1..m : i + n \in 1..(n + m))
  OBVIOUS
<1> HIDE DEF n, m, l, c, d
<1>10. (\A i \in 1..n : l[i] = c[i]) /\ (\A i \in 1..m : l[i + n] = d[i])
  BY <1>6, <1>7, <1>8, <1>9
<1>11. l = c \o d
  BY <1>5, <1>10, ConcatIs
<1>. QED
  BY <1>11 DEF l, c, d

(* The characters of one symbol.                                             *)
LEMMA CharsOne == ASSUME NEW a \in Symbol PROVE H!CharsOf(<<a>>) = <<H!Char(a)>>
  BY DEF H!CharsOf

(* The characters of two symbols.                                            *)
LEMMA CharsTwo == ASSUME NEW a \in Symbol, NEW b \in Symbol PROVE H!CharsOf(<<a, b>>) = <<H!Char(a), H!Char(b)>>
  BY DEF H!CharsOf

(* FlattenSeq of one sequence.                                               *)
LEMMA FlattenOne == ASSUME NEW S, NEW s \in Seq(S) PROVE FlattenSeq(<<s>>) = s
<1>1. << >> \in Seq(Seq(S)) /\ Append(<< >>, s) = <<s>>
  OBVIOUS
<1>2. FlattenSeq(Append(<< >>, s)) = FlattenSeq(<< >>) \o s
  BY <1>1, FlattenNext
<1>. QED
  BY <1>1, <1>2, FlattenEmpty

(* One symbol escaped.                                                       *)
LEMMA EscapedOne == ASSUME NEW a \in Symbol PROVE EscapedOnce(<<a>>) = <<"\\", a>>
<1>1. [i \in DOMAIN <<a>> |-> <<"\\", <<a>>[i]>>] = <<  <<"\\", a>> >>
  OBVIOUS
<1>2. <<"\\", a>> \in Seq(Symbol)
  <2>1. "\\" \in Symbol
    BY DEF Symbol
  <2>. QED
    BY <2>1
<1>. QED
  BY <1>1, <1>2, FlattenOne DEF EscapedOnce

-------------------------------------------------------------------------------
(* The postgresql url.  While a text is written, the reader of the url is in *)
(* its state "0" and has put out exactly what the pieces mean.               *)

(* The state of the reader of the url that has put out o.                    *)
UrlIn(o, state) == [state |-> state, out |-> o]

(* The text s is read completely and means o.                                *)
UrlAt(s, o) == s \in Seq(Symbol) /\ o \in Seq(Symbol) /\ Read("url", s) = UrlIn(o, "0")

(* Putting out m.                                                            *)
LEMMA UrlEmit ==
  ASSUME NEW o, NEW st, NEW m, NEW state
  PROVE  C!Emit(UrlIn(o, st), m, state) = UrlIn(o \o m, state)
  BY DEF C!Emit, UrlIn

(* A step of the reader k = "url".                                           *)
LEMMA UrlStep == ASSUME NEW p, NEW ch PROVE Step("url", p, ch) = C!UrlChar(p, ch, Username, Password)
  BY Zenon DEF Step

(* Outside of % and behind a backslash.                                      *)
LEMMA UrlText ==
  ASSUME NEW o \in Seq(Symbol), NEW ch \in Symbol
  PROVE  /\ ch \notin {"%", "\\"} => Step("url", UrlIn(o, "0"), ch) = UrlIn(o \o <<ch>>, "0")
         /\ Step("url", UrlIn(o, "0"), "%") = UrlIn(o, "p")
         /\ Step("url", UrlIn(o, "0"), "\\") = UrlIn(o, "e")
         /\ Step("url", UrlIn(o, "e"), ch) = UrlIn(o \o <<ch>>, "0")
<1>0. UrlIn(o, "0").state = "0" /\ UrlIn(o, "e").state = "e" /\ o \o << >> = o
  BY DEF UrlIn
<1>1. ch \notin {"%", "\\"} => Step("url", UrlIn(o, "0"), ch) = UrlIn(o \o <<ch>>, "0")
  BY <1>0, UrlStep, UrlEmit DEF C!UrlChar
<1>2. Step("url", UrlIn(o, "0"), "%") = UrlIn(o, "p")
  <2>1. \A c : c = "%" => C!UrlChar(UrlIn(o, "0"), c, Username, Password) = C!Emit(UrlIn(o, "0"), << >>, "p")
    BY <1>0 DEF C!UrlChar
  <2>2. C!Emit(UrlIn(o, "0"), << >>, "p") = UrlIn(o, "p")
    BY DEF C!Emit, UrlIn
  <2>. QED
    BY <2>1, <2>2, UrlStep
<1>3. Step("url", UrlIn(o, "0"), "\\") = UrlIn(o, "e")
  <2>1. \A c : c = "\\" => C!UrlChar(UrlIn(o, "0"), c, Username, Password) = C!Emit(UrlIn(o, "0"), << >>, "e")
    BY <1>0 DEF C!UrlChar
  <2>2. C!Emit(UrlIn(o, "0"), << >>, "e") = UrlIn(o, "e")
    BY DEF C!Emit, UrlIn
  <2>. QED
    BY <2>1, <2>2, UrlStep
<1>4. Step("url", UrlIn(o, "e"), ch) = UrlIn(o \o <<ch>>, "0")
  BY <1>0, UrlStep, UrlEmit DEF C!UrlChar
<1>. QED
  BY <1>1, <1>2, <1>3, <1>4

(* Behind %: the user, the password, or both symbols as they are.            *)
LEMMA UrlPercent ==
  ASSUME NEW o \in Seq(Symbol), NEW ch \in Symbol
  PROVE  /\ Step("url", UrlIn(o, "p"), "u") = UrlIn(o \o Username, "0")
         /\ Step("url", UrlIn(o, "p"), "p") = UrlIn(o \o Password, "0")
         /\ ch \notin {"u", "p", "%", "\\"} => Step("url", UrlIn(o, "p"), ch) = UrlIn(o \o <<"%", ch>>, "0")
<1>0. UrlIn(o, "p").state = "p"
  BY DEF UrlIn
<1>1. \A c : Step("url", UrlIn(o, "p"), c) = C!Percent(UrlIn(o, "p"), c, Username, Password)
  BY <1>0, UrlStep DEF C!UrlChar
<1>2. Step("url", UrlIn(o, "p"), "u") = UrlIn(o \o Username, "0")
  <2>1. \A c : c = "u" => C!Percent(UrlIn(o, "p"), c, Username, Password) = C!Emit(UrlIn(o, "p"), Username, "0")
    BY DEF C!Percent
  <2>. QED
    BY <1>1, <2>1, UrlEmit
<1>3. Step("url", UrlIn(o, "p"), "p") = UrlIn(o \o Password, "0")
  <2>1. \A c : c = "p" => C!Percent(UrlIn(o, "p"), c, Username, Password) = C!Emit(UrlIn(o, "p"), Password, "0")
    BY DEF C!Percent
  <2>. QED
    BY <1>1, <2>1, UrlEmit
<1>4. ch \notin {"u", "p", "%", "\\"} => Step("url", UrlIn(o, "p"), ch) = UrlIn(o \o <<"%", ch>>, "0")
  BY <1>1, UrlEmit DEF C!Percent
<1>. QED
  BY <1>2, <1>3, <1>4

(* The symbols named one by one.                                             *)
LEMMA Symbols ==
  /\ {"x", "y", "a", "v", "w", "t", "u", "p", "U", "P", "0", "1", "2", "%", ":", ";", ",", "="} \subseteq Symbol
  /\ {"\\", "'", "\"", "blank", "NULL", "user", "passwd", "password", "port", "user=", "passwd="} \subseteq Symbol
  BY DEF Symbol

(* A plain symbol means itself.                                              *)
LEMMA UrlOne ==
  ASSUME NEW s, NEW o, UrlAt(s, o), NEW ch \in Symbol, ch \notin {"%", "\\"}
  PROVE  UrlAt(s \o <<ch>>, o \o <<ch>>)
<1>1. s \in Seq(Symbol) /\ o \in Seq(Symbol) /\ Read("url", s) = UrlIn(o, "0") /\ o \o <<ch>> \in Seq(Symbol)
  BY DEF UrlAt
<1>. QED
  BY <1>1, ReadOne, UrlText DEF UrlAt

(* An escaped symbol means that symbol.                                      *)
LEMMA UrlEscaped ==
  ASSUME NEW s, NEW o, UrlAt(s, o), NEW ch \in Symbol
  PROVE  UrlAt(s \o <<"\\", ch>>, o \o <<ch>>)
<1>1. s \in Seq(Symbol) /\ o \in Seq(Symbol) /\ Read("url", s) = UrlIn(o, "0") /\ o \o <<ch>> \in Seq(Symbol)
  BY DEF UrlAt
<1>2. "\\" \in Symbol
  BY Symbols
<1>3. s \o <<"\\", ch>> \in Seq(Symbol)
      /\ Read("url", s \o <<"\\", ch>>) = Step("url", Step("url", Read("url", s), "\\"), ch)
  BY <1>1, <1>2, ReadTwo
<1>4. Step("url", UrlIn(o, "0"), "\\") = UrlIn(o, "e") /\ Step("url", UrlIn(o, "e"), ch) = UrlIn(o \o <<ch>>, "0")
  BY <1>1, UrlText
<1>. QED
  BY <1>1, <1>3, <1>4 DEF UrlAt

(* %u, %p and % before another symbol.                                       *)
LEMMA UrlKey ==
  ASSUME NEW s, NEW o, UrlAt(s, o), NEW ch \in Symbol, NEW m \in Seq(Symbol),
         Step("url", UrlIn(o, "p"), ch) = UrlIn(o \o m, "0")
  PROVE  UrlAt(s \o <<"%", ch>>, o \o m)
<1>1. s \in Seq(Symbol) /\ o \in Seq(Symbol) /\ Read("url", s) = UrlIn(o, "0") /\ o \o m \in Seq(Symbol)
  BY DEF UrlAt
<1>2. "%" \in Symbol
  BY Symbols
<1>3. s \o <<"%", ch>> \in Seq(Symbol)
      /\ Read("url", s \o <<"%", ch>>) = Step("url", Step("url", Read("url", s), "%"), ch)
  BY <1>1, <1>2, ReadTwo
<1>4. Step("url", UrlIn(o, "0"), "%") = UrlIn(o, "p")
  BY <1>1, <1>2, UrlText
<1>. QED
  BY <1>1, <1>3, <1>4 DEF UrlAt

(* What the postgresql url means is what its reader has put out.             *)
UrlInv ==
  subject = "postgresql" =>
     /\ meant = [items |-> meant.items, pieces |-> meant.pieces]
     /\ \E o : UrlAt(text, o) /\ meant.items = H!CharsOf(o)

(* Texts put together mean their meanings put together.                      *)
LEMMA UrlGrows ==
  ASSUME NEW s, NEW o, UrlAt(s, o), NEW w, NEW m \in Seq(Symbol), UrlAt(s \o w, o \o m)
  PROVE  H!CharsOf(o \o m) = H!CharsOf(o) \o H!CharsOf(m)
  BY CharsConcat DEF UrlAt

(* Every piece that is written takes the reader from the state "0" to the    *)
(* state "0", and what it puts out is what the piece means.                  *)
LEMMA UrlPiece ==
  ASSUME NEW piece \in UrlPieces, NEW s, NEW o, UrlAt(s, o)
  PROVE  \E m \in Seq(Symbol) : UrlAt(s \o piece.text, o \o m) /\ piece.means = H!CharsOf(m)
<1>0. o \in Seq(Symbol)
  BY DEF UrlAt
<1>1. CASE piece = Verbatim(<<"x">>)
  <2>1. "x" \in Symbol /\ "x" \notin {"%", "\\"}
    BY Symbols
  <2>2. <<"x">> \in Seq(Symbol) /\ piece.text = <<"x">> /\ piece.means = H!CharsOf(<<"x">>)
    BY <1>1, <2>1 DEF Verbatim, Piece
  <2>3. UrlAt(s \o <<"x">>, o \o <<"x">>)
    BY <2>1, UrlOne
  <2>. QED
    BY <2>2, <2>3
<1>2. CASE piece = Verbatim(<<"%", "x">>)
  <2>1. "x" \in Symbol /\ "x" \notin {"u", "p", "%", "\\"} /\ "%" \in Symbol
    BY Symbols
  <2>2. <<"%", "x">> \in Seq(Symbol) /\ piece.text = <<"%", "x">> /\ piece.means = H!CharsOf(<<"%", "x">>)
    BY <1>2, <2>1 DEF Verbatim, Piece
  <2>3. Step("url", UrlIn(o, "p"), "x") = UrlIn(o \o <<"%", "x">>, "0")
    BY <1>0, <2>1, UrlPercent
  <2>4. UrlAt(s \o <<"%", "x">>, o \o <<"%", "x">>)
    BY <2>1, <2>2, <2>3, UrlKey
  <2>. QED
    BY <2>2, <2>4
<1>3. ASSUME NEW ch \in {"%", "\\", "u"}, piece = Piece(EscapedOnce(<<ch>>), H!CharsOf(<<ch>>), FALSE)
      PROVE  \E m \in Seq(Symbol) : UrlAt(s \o piece.text, o \o m) /\ piece.means = H!CharsOf(m)
  <2>1. ch \in Symbol
    BY Symbols
  <2>2. <<ch>> \in Seq(Symbol) /\ EscapedOnce(<<ch>>) = <<"\\", ch>>
    BY <2>1, EscapedOne
  <2>3. piece.text = <<"\\", ch>> /\ piece.means = H!CharsOf(<<ch>>)
    BY <1>3, <2>2 DEF Piece
  <2>4. UrlAt(s \o <<"\\", ch>>, o \o <<ch>>)
    BY <2>1, UrlEscaped
  <2>. QED
    BY <2>2, <2>3, <2>4
<1>4. CASE piece = Piece(<<"%", "u">>, H!CharsOf(Username), FALSE)
  <2>1. "u" \in Symbol /\ "U" \in Symbol
    BY Symbols
  <2>2. Username \in Seq(Symbol)
    BY <2>1 DEF Username
  <2>3. piece.text = <<"%", "u">> /\ piece.means = H!CharsOf(Username)
    BY <1>4 DEF Piece
  <2>4. Step("url", UrlIn(o, "p"), "u") = UrlIn(o \o Username, "0")
    BY <1>0, <2>1, UrlPercent
  <2>5. UrlAt(s \o <<"%", "u">>, o \o Username)
    BY <2>1, <2>2, <2>4, UrlKey
  <2>. QED
    BY <2>2, <2>3, <2>5
<1>5. CASE piece = Piece(<<"%", "p">>, H!CharsOf(Password), FALSE)
  <2>1. "u" \in Symbol /\ "P" \in Symbol /\ "%" \in Symbol /\ "\\" \in Symbol /\ "p" \in Symbol
    BY Symbols
  <2>2. Password \in Seq(Symbol)
    BY <2>1 DEF Password
  <2>3. piece.text = <<"%", "p">> /\ piece.means = H!CharsOf(Password)
    BY <1>5 DEF Piece
  <2>4. Step("url", UrlIn(o, "p"), "p") = UrlIn(o \o Password, "0")
    BY <1>0, <2>1, UrlPercent
  <2>5. UrlAt(s \o <<"%", "p">>, o \o Password)
    BY <2>1, <2>2, <2>4, UrlKey
  <2>. QED
    BY <2>2, <2>3, <2>5
<1>6. \/ piece = Verbatim(<<"x">>)
      \/ piece = Verbatim(<<"%", "x">>)
      \/ \E ch \in {"%", "\\", "u"} : piece = Piece(EscapedOnce(<<ch>>), H!CharsOf(<<ch>>), FALSE)
      \/ piece = Piece(<<"%", "u">>, H!CharsOf(Username), FALSE)
      \/ piece = Piece(<<"%", "p">>, H!CharsOf(Password), FALSE)
  BY Zenon DEF UrlPieces
<1>. QED
  BY <1>1, <1>2, <1>3, <1>4, <1>5, <1>6

(* Writing a piece preserves UrlInv.                                         *)
LEMMA UrlWritten ==
  ASSUME UrlInv, NEW piece \in UrlPieces, WriteUrl(piece)
  PROVE  UrlInv'
<1>1. /\ subject = "postgresql" /\ subject' = subject
      /\ text' = text \o piece.text
      /\ meant' = [meant EXCEPT !.items = @ \o piece.means, !.pieces = @ + 1]
  BY DEF WriteUrl
<1>2. meant = [items |-> meant.items, pieces |-> meant.pieces]
  BY <1>1 DEF UrlInv
<1>3. PICK o : UrlAt(text, o) /\ meant.items = H!CharsOf(o)
  BY <1>1 DEF UrlInv
<1>4. PICK m \in Seq(Symbol) : UrlAt(text \o piece.text, o \o m) /\ piece.means = H!CharsOf(m)
  BY <1>3, UrlPiece
<1>5. meant' = [items |-> meant.items \o piece.means, pieces |-> meant.pieces + 1]
  BY <1>1, <1>2
<1>6. meant'.items = H!CharsOf(o \o m)
  BY <1>3, <1>4, <1>5, UrlGrows
<1>7. meant' = [items |-> meant'.items, pieces |-> meant'.pieces]
  BY <1>5
<1>. QED
  BY <1>1, <1>4, <1>6, <1>7 DEF UrlInv

(* Therefore the expanded url is the one that is meant.                      *)
LEMMA UrlHolds ==
  ASSUME UrlInv
  PROVE  subject = "postgresql" => H!CharsOf(C!Url(text, Username, Password)) = meant.items
<1> SUFFICES ASSUME subject = "postgresql"
             PROVE  H!CharsOf(C!Url(text, Username, Password)) = meant.items
  OBVIOUS
<1>1. PICK o : UrlAt(text, o) /\ meant.items = H!CharsOf(o)
  BY DEF UrlInv
<1>2. text \in Seq(Symbol) /\ o \in Seq(Symbol) /\ Read("url", text).state = "0" /\ Read("url", text).out = o
  BY <1>1 DEF UrlAt, UrlIn
<1>3. C!Url(text, Username, Password) = o \o << >>
  BY <1>2, UrlRead
<1>. QED
  BY <1>1, <1>2, <1>3

-------------------------------------------------------------------------------
(* Induction over sequences, and texts in which every symbol is escaped.     *)

(* Induction over sequences, for a set.                                      *)
LEMMA SequencesGrow ==
  ASSUME NEW S, NEW U, << >> \in U, \A v \in Seq(S), a \in S : v \in U => Append(v, a) \in U
  PROVE  \A v \in Seq(S) : v \in U
<1> DEFINE W == {n \in Nat : \A v \in Seq(S) : Len(v) = n => v \in U}
<1>1. 0 \in W
  OBVIOUS
<1>2. ASSUME NEW n \in Nat, n \in W PROVE n + 1 \in W
  <2> SUFFICES ASSUME NEW v \in Seq(S), Len(v) = n + 1 PROVE v \in U
    OBVIOUS
  <2> DEFINE w == SubSeq(v, 1, n)
             a == v[n + 1]
  <2>1. w \in Seq(S) /\ a \in S /\ Len(w) = n
    OBVIOUS
  <2>2. v = Append(w, a)
    OBVIOUS
  <2> HIDE DEF w, a
  <2>3. w \in U
    BY <1>2, <2>1
  <2>. QED
    BY <2>1, <2>2, <2>3
<1>3. \A n \in Nat : n \in W
  <2> HIDE DEF W
  <2>. QED
    BY <1>1, <1>2, Counting
<1>. QED
  BY <1>3

(* FlattenSeq of sequences over S is a sequence over S.                      *)
LEMMA FlattenType ==
  ASSUME NEW S, NEW ss \in Seq(Seq(S))
  PROVE  FlattenSeq(ss) \in Seq(S)
<1> DEFINE U == {tt \in Seq(Seq(S)) : FlattenSeq(tt) \in Seq(S)}
<1>1. << >> \in U
  <2>1. << >> \in Seq(Seq(S)) /\ << >> \in Seq(S)
    OBVIOUS
  <2>. QED
    BY <2>1, FlattenEmpty, Zenon
<1>2. ASSUME NEW tt \in Seq(Seq(S)), NEW s \in Seq(S), tt \in U PROVE Append(tt, s) \in U
  <2>1. FlattenSeq(Append(tt, s)) = FlattenSeq(tt) \o s
    BY FlattenNext
  <2>2. Append(tt, s) \in Seq(Seq(S)) /\ FlattenSeq(tt) \o s \in Seq(S)
    BY <1>2
  <2>. QED
    BY <2>1, <2>2
<1>3. ss \in U
  <2> HIDE DEF U
  <2>. QED
    BY <1>1, <1>2, SequencesGrow
<1>. QED
  BY <1>3

(* The pieces that EscapedOnce flattens.                                     *)
Escapes(s) == [i \in DOMAIN s |-> <<"\\", s[i]>>]

(* A text with one more symbol, escaped.                                     *)
LEMMA EscapedNext ==
  ASSUME NEW s \in Seq(Symbol), NEW a \in Symbol
  PROVE  EscapedOnce(s) \in Seq(Symbol) /\ EscapedOnce(Append(s, a)) = EscapedOnce(s) \o <<"\\", a>>
<1>1. "\\" \in Symbol
  BY Symbols
<1>2. \A b \in Symbol : <<"\\", b>> \in Seq(Symbol)
  BY <1>1
<1>3. Escapes(s) \in Seq(Seq(Symbol))
  <2>1. DOMAIN s = 1..Len(s) /\ Len(s) \in Nat /\ \A i \in 1..Len(s) : s[i] \in Symbol
    OBVIOUS
  <2>2. Escapes(s) = [i \in 1..Len(s) |-> <<"\\", s[i]>>]
    BY <2>1 DEF Escapes
  <2>. QED
    BY <1>2, <2>1, <2>2
<1>4. Escapes(Append(s, a)) = Append(Escapes(s), <<"\\", a>>)
  BY DEF Escapes
<1>5. FlattenSeq(Append(Escapes(s), <<"\\", a>>)) = FlattenSeq(Escapes(s)) \o <<"\\", a>>
  BY <1>2, <1>3, FlattenNext
<1>6. EscapedOnce(s) = FlattenSeq(Escapes(s)) /\ EscapedOnce(Append(s, a)) = FlattenSeq(Escapes(Append(s, a)))
  BY DEF EscapedOnce, Escapes
<1>7. FlattenSeq(Escapes(s)) \in Seq(Symbol)
  BY <1>3, FlattenType
<1>. QED
  BY <1>4, <1>5, <1>6, <1>7

(* Nothing escaped is nothing.                                               *)
LEMMA EscapedEmpty == EscapedOnce(<< >>) = << >>
  BY FlattenEmpty DEF EscapedOnce

-------------------------------------------------------------------------------
(* The mysql url: the automaton of Connection::Connection, one lemma for     *)
(* every kind of symbol it meets.                                            *)

(* A state of the automaton, as a record; no text written here sets flags.   *)
My(state, key, field, quote, port, value) ==
    [state |-> state, key |-> key, field |-> field, quote |-> quote, port |-> port, flags |-> 0,
     value |-> value]

(* The values of the fields it fills.                                        *)
MyValuesOf == [C!Fields -> Seq(Symbol)]

(* The text s leaves the automaton in state p.                               *)
MyAt(s, p) == s \in Seq(Symbol) /\ Read("mysql", s) = p

(* A step of the reader k = "mysql".                                         *)
LEMMA MyStep == ASSUME NEW p, NEW ch PROVE Step("mysql", p, ch) = C!MyChar(p, ch)
  BY Zenon DEF Step

(* One more symbol.                                                          *)
LEMMA MyOne ==
  ASSUME NEW s, NEW p, MyAt(s, p), NEW ch \in Symbol
  PROVE  MyAt(s \o <<ch>>, C!MyChar(p, ch))
  BY ReadOne, MyStep DEF MyAt

(* Two more symbols.                                                         *)
LEMMA MyTwo ==
  ASSUME NEW s, NEW p, MyAt(s, p), NEW a \in Symbol, NEW b \in Symbol
  PROVE  MyAt(s \o <<a, b>>, C!MyChar(C!MyChar(p, a), b))
  BY ReadTwo, MyStep DEF MyAt

(* The automaton never leaves its error state.                               *)
LEMMA MyStuck ==
  ASSUME NEW s \in Seq(Symbol), Read("mysql", s).state = "error", NEW w \in Seq(Symbol)
  PROVE  s \o w \in Seq(Symbol) /\ Read("mysql", s \o w).state = "error"
<1> DEFINE U == {v \in Seq(Symbol) : Read("mysql", s \o v).state = "error"}
<1>1. << >> \in U
  <2>1. << >> \in Seq(Symbol) /\ s \o << >> = s
    OBVIOUS
  <2>. QED
    BY <2>1
<1>2. ASSUME NEW v \in Seq(Symbol), NEW a \in Symbol, v \in U PROVE Append(v, a) \in U
  <2>1. s \o Append(v, a) = Append(s \o v, a) /\ Append(v, a) \in Seq(Symbol) /\ s \o v \in Seq(Symbol)
    OBVIOUS
  <2>2. Read("mysql", Append(s \o v, a)) = Step("mysql", Read("mysql", s \o v), a)
    BY <2>1, ReadNext
  <2>3. Read("mysql", s \o v).state = "error"
    BY <1>2
  <2>4. \A p : p.state = "error" => C!MyChar(p, a) = p
    BY DEF C!MyChar
  <2>5. Read("mysql", Append(s \o v, a)) = Read("mysql", s \o v)
    BY <2>2, <2>3, <2>4, MyStep
  <2>. QED
    BY <2>1, <2>3, <2>5
<1>3. w \in U
  <2> HIDE DEF U
  <2>. QED
    BY <1>1, <1>2, SequencesGrow
<1>4. s \o w \in Seq(Symbol)
  OBVIOUS
<1>. QED
  BY <1>3, <1>4

(* The fields of the record.                                                 *)
LEMMA MyFields ==
  ASSUME NEW st, NEW key, NEW f, NEW q, NEW port, NEW value
  PROVE  LET p == My(st, key, f, q, port, value)
         IN p.state = st /\ p.key = key /\ p.field = f /\ p.quote = q /\ p.port = port /\ p.value = value
  BY DEF My

(* The record with another value.                                            *)
LEMMA MyValueSet ==
  ASSUME NEW st, NEW key, NEW f, NEW q, NEW port, NEW value, NEW w
  PROVE  [My(st, key, f, q, port, value) EXCEPT !.value = w] = My(st, key, f, q, port, w)
  BY DEF My

(* The record with another state.                                            *)
LEMMA MyGo ==
  ASSUME NEW st, NEW key, NEW f, NEW q, NEW port, NEW value, NEW to
  PROVE  C!Go(My(st, key, f, q, port, value), to) = My(to, key, f, q, port, value)
  BY DEF C!Go, My

(* The field f gets the value v.                                             *)
SetTo(value, f, v) == [value EXCEPT ![f] = v]

(* A symbol is added to the value of a field.                                *)
LEMMA MyAdd ==
  ASSUME NEW st, NEW key, NEW f \in C!Fields, NEW q, NEW port, NEW value \in MyValuesOf, NEW ch \in Symbol, NEW to
  PROVE  /\ C!Add(My(st, key, f, q, port, value), ch, to)
              = My(to, key, f, q, port, SetTo(value, f, Append(value[f], ch)))
         /\ SetTo(value, f, Append(value[f], ch)) \in MyValuesOf
<1>1. value[f] \in Seq(Symbol)
  BY DEF MyValuesOf
<1>2. Append(value[f], ch) \in Seq(Symbol)
  BY <1>1
<1>3. SetTo(value, f, Append(value[f], ch)) \in MyValuesOf
  BY <1>2 DEF MyValuesOf, SetTo
<1>4. C!Add(My(st, key, f, q, port, value), ch, to)
              = My(to, key, f, q, port, SetTo(value, f, Append(value[f], ch)))
  <2> DEFINE p == My(st, key, f, q, port, value)
             w == SetTo(value, f, Append(value[f], ch))
  <2>1. p.field = f /\ p.value = value
    BY MyFields
  <2>2. C!Add(p, ch, to) = C!Go([p EXCEPT !.value = [p.value EXCEPT ![p.field] = Append(p.value[p.field], ch)]], to)
    BY DEF C!Add, C!Go
  <2>3. [p.value EXCEPT ![p.field] = Append(p.value[p.field], ch)] = w
    BY <2>1 DEF SetTo
  <2>4. [p EXCEPT !.value = w] = My(st, key, f, q, port, w)
    BY MyValueSet
  <2>. QED
    BY <2>2, <2>3, <2>4, MyGo
<1>. QED
  BY <1>3, <1>4

(* An escaped symbol is added as it is, in quotes or without.                *)
LEMMA MyEscape ==
  ASSUME NEW f \in C!Fields, NEW q, NEW port, NEW value \in MyValuesOf, NEW ch \in Symbol
  PROVE  /\ C!MyChar(C!MyChar(My("value", << >>, f, q, port, value), "\\"), ch)
              = My("value", << >>, f, q, port, SetTo(value, f, Append(value[f], ch)))
         /\ q # "\\" => C!MyChar(C!MyChar(My("qvalue", << >>, f, q, port, value), "\\"), ch)
              = My("qvalue", << >>, f, q, port, SetTo(value, f, Append(value[f], ch)))
<1>1. C!MyChar(My("value", << >>, f, q, port, value), "\\") = My("valueEsc", << >>, f, q, port, value)
  <2>1. \A c : c = "\\" => C!Value(My("value", << >>, f, q, port, value), c) = C!Go(My("value", << >>, f, q, port, value), "valueEsc")
    BY DEF C!Value, C!IsDelimiter
  <2>2. \A c : C!MyChar(My("value", << >>, f, q, port, value), c) = C!Value(My("value", << >>, f, q, port, value), c)
    BY MyFields DEF C!MyChar
  <2>. QED
    BY <2>1, <2>2, MyGo
<1>2. C!MyChar(My("valueEsc", << >>, f, q, port, value), ch) = C!Add(My("valueEsc", << >>, f, q, port, value), ch, "value")
  BY MyFields DEF C!MyChar
<1>3. ASSUME q # "\\" PROVE C!MyChar(My("qvalue", << >>, f, q, port, value), "\\") = My("qvalueEsc", << >>, f, q, port, value)
  <2>1. \A c : c = "\\" => C!QuotedValue(My("qvalue", << >>, f, q, port, value), c) = C!Go(My("qvalue", << >>, f, q, port, value), "qvalueEsc")
    BY <1>3, MyFields DEF C!QuotedValue
  <2>2. \A c : C!MyChar(My("qvalue", << >>, f, q, port, value), c) = C!QuotedValue(My("qvalue", << >>, f, q, port, value), c)
    BY MyFields DEF C!MyChar
  <2>. QED
    BY <2>1, <2>2, MyGo
<1>4. C!MyChar(My("qvalueEsc", << >>, f, q, port, value), ch) = C!Add(My("qvalueEsc", << >>, f, q, port, value), ch, "qvalue")
  BY MyFields DEF C!MyChar
<1>5. C!MyChar(C!MyChar(My("value", << >>, f, q, port, value), "\\"), ch)
              = My("value", << >>, f, q, port, SetTo(value, f, Append(value[f], ch)))
  BY <1>1, <1>2, MyAdd
<1>6. q # "\\" => C!MyChar(C!MyChar(My("qvalue", << >>, f, q, port, value), "\\"), ch)
              = My("qvalue", << >>, f, q, port, SetTo(value, f, Append(value[f], ch)))
  BY <1>3, <1>4, MyAdd
<1>. QED
  BY <1>5, <1>6

(* Assigning to a field twice is assigning once.                             *)
LEMMA SetTwice ==
  ASSUME NEW f \in C!Fields, NEW value \in MyValuesOf, NEW v \in Seq(Symbol)
  PROVE  /\ SetTo(value, f, v) \in MyValuesOf
         /\ SetTo(value, f, v)[f] = v
         /\ \A w : SetTo(SetTo(value, f, v), f, w) = SetTo(value, f, w)
         /\ value[f] = v => SetTo(value, f, v) = value
  BY DEF SetTo, MyValuesOf

(* An escaped value is read as that value, by induction over the value.      *)
LEMMA MyEscapes ==
  ASSUME NEW s, NEW f \in C!Fields, NEW q, NEW port, NEW value \in MyValuesOf, value[f] = << >>,
         MyAt(s, My("value", << >>, f, q, port, value)), NEW w \in Seq(Symbol)
  PROVE  MyAt(s \o EscapedOnce(w), My("value", << >>, f, q, port, SetTo(value, f, w)))
<1> DEFINE U == {v \in Seq(Symbol) : MyAt(s \o EscapedOnce(v), My("value", << >>, f, q, port, SetTo(value, f, v)))}
<1>1. << >> \in U
  <2>1. << >> \in Seq(Symbol) /\ s \o << >> = s
    BY DEF MyAt
  <2>2. SetTo(value, f, << >>) = value
    BY <2>1, SetTwice
  <2>. QED
    BY <2>1, <2>2, EscapedEmpty
<1>2. ASSUME NEW v \in Seq(Symbol), NEW a \in Symbol, v \in U PROVE Append(v, a) \in U
  <2>1. EscapedOnce(v) \in Seq(Symbol) /\ EscapedOnce(Append(v, a)) = EscapedOnce(v) \o <<"\\", a>>
    BY EscapedNext
  <2>2. "\\" \in Symbol
    BY Symbols
  <2>3. MyAt(s \o EscapedOnce(v), My("value", << >>, f, q, port, SetTo(value, f, v)))
    BY <1>2
  <2>4. MyAt((s \o EscapedOnce(v)) \o <<"\\", a>>,
             C!MyChar(C!MyChar(My("value", << >>, f, q, port, SetTo(value, f, v)), "\\"), a))
    BY <2>2, <2>3, MyTwo
  <2>5. SetTo(value, f, v) \in MyValuesOf /\ SetTo(value, f, v)[f] = v
        /\ SetTo(SetTo(value, f, v), f, Append(v, a)) = SetTo(value, f, Append(v, a))
    BY SetTwice
  <2>6. C!MyChar(C!MyChar(My("value", << >>, f, q, port, SetTo(value, f, v)), "\\"), a)
              = My("value", << >>, f, q, port, SetTo(value, f, Append(v, a)))
    BY <2>5, MyEscape
  <2>7. (s \o EscapedOnce(v)) \o <<"\\", a>> = s \o EscapedOnce(Append(v, a))
    BY <2>1, <2>2 DEF MyAt
  <2>8. Append(v, a) \in Seq(Symbol)
    OBVIOUS
  <2>. QED
    BY <2>4, <2>6, <2>7, <2>8
<1>3. w \in U
  <2> HIDE DEF U
  <2>. QED
    BY <1>1, <1>2, SequencesGrow
<1>. QED
  BY <1>3

-----------------------------------------------------------------------------

(* The pieces of a quoted value: quotes and backslashes are escaped.         *)
InQuotes(v) == [i \in DOMAIN v |-> IF v[i] \in {"'", "\\"} THEN <<"\\", v[i]>> ELSE <<v[i]>>]

(* The quoted value without its quotes.                                      *)
QuoteBody(v) == FlattenSeq(InQuotes(v))

(* A quoted value is this between two quotes.                                *)
LEMMA QuotedIs == ASSUME NEW v PROVE Quoted(v) = <<"'">> \o QuoteBody(v) \o <<"'">>
  BY DEF Quoted, QuoteBody, InQuotes

(* A quoted value with one more symbol.                                      *)
LEMMA QuotedNext ==
  ASSUME NEW s \in Seq(Symbol), NEW a \in Symbol
  PROVE  /\ QuoteBody(s) \in Seq(Symbol)
         /\ a \in {"'", "\\"} => QuoteBody(Append(s, a)) = QuoteBody(s) \o <<"\\", a>>
         /\ a \notin {"'", "\\"} => QuoteBody(Append(s, a)) = QuoteBody(s) \o <<a>>
<1> DEFINE Q == [b \in Symbol |-> IF b \in {"'", "\\"} THEN <<"\\", b>> ELSE <<b>>]
<1>1. Q \in [Symbol -> Seq(Symbol)]
  <2>1. "\\" \in Symbol
    BY Symbols
  <2>2. \A b \in Symbol : <<"\\", b>> \in Seq(Symbol) /\ <<b>> \in Seq(Symbol)
    BY <2>1
  <2>. QED
    BY <2>2
<1>2. \A v \in Seq(Symbol) : InQuotes(v) = [i \in 1..Len(v) |-> Q[v[i]]]
  <2> SUFFICES ASSUME NEW v \in Seq(Symbol) PROVE InQuotes(v) = [i \in 1..Len(v) |-> Q[v[i]]]
    OBVIOUS
  <2>1. DOMAIN v = 1..Len(v) /\ \A i \in 1..Len(v) : v[i] \in Symbol
    OBVIOUS
  <2>. QED
    BY <2>1 DEF InQuotes
<1>3. (a \in {"'", "\\"} => Q[a] = <<"\\", a>>) /\ (a \notin {"'", "\\"} => Q[a] = <<a>>)
  OBVIOUS
<1> HIDE DEF Q
<1>4. InQuotes(s) \in Seq(Seq(Symbol))
  <2>1. Len(s) \in Nat /\ \A i \in 1..Len(s) : Q[s[i]] \in Seq(Symbol)
    BY <1>1
  <2>. QED
    BY <1>2, <2>1
<1>5. InQuotes(Append(s, a)) = Append(InQuotes(s), Q[a])
  <2>1. Append(s, a) \in Seq(Symbol)
    OBVIOUS
  <2>2. InQuotes(Append(s, a)) = [i \in 1..Len(Append(s, a)) |-> Q[Append(s, a)[i]]]
    BY <1>2, <2>1
  <2>3. InQuotes(s) = [i \in 1..Len(s) |-> Q[s[i]]]
    BY <1>2
  <2>. QED
    BY <2>2, <2>3
<1>6. FlattenSeq(Append(InQuotes(s), Q[a])) = FlattenSeq(InQuotes(s)) \o Q[a]
  BY <1>1, <1>4, FlattenNext
<1>7. QuoteBody(s) \in Seq(Symbol)
  BY <1>4, FlattenType DEF QuoteBody
<1>8. QuoteBody(Append(s, a)) = QuoteBody(s) \o Q[a]
  BY <1>5, <1>6 DEF QuoteBody
<1>. QED
  BY <1>3, <1>7, <1>8

(* The empty value in quotes.                                                *)
LEMMA QuoteEmpty == QuoteBody(<< >>) = << >>
  BY FlattenEmpty DEF QuoteBody, InQuotes

(* In quotes, any other symbol is added as it is.                            *)
LEMMA MyPlain ==
  ASSUME NEW f \in C!Fields, NEW port, NEW value \in MyValuesOf, NEW ch \in Symbol, ch \notin {"'", "\\"}
  PROVE  C!MyChar(My("qvalue", << >>, f, "'", port, value), ch)
              = My("qvalue", << >>, f, "'", port, SetTo(value, f, Append(value[f], ch)))
<1>1. C!QuotedValue(My("qvalue", << >>, f, "'", port, value), ch) = C!Add(My("qvalue", << >>, f, "'", port, value), ch, "qvalue")
  BY MyFields DEF C!QuotedValue
<1>2. \A c : C!MyChar(My("qvalue", << >>, f, "'", port, value), c) = C!QuotedValue(My("qvalue", << >>, f, "'", port, value), c)
  BY MyFields DEF C!MyChar
<1>. QED
  BY <1>1, <1>2, MyAdd

(* A quoted value is read as that value, by induction over the value.        *)
LEMMA MyQuotes ==
  ASSUME NEW s, NEW f \in C!Fields, NEW port, NEW value \in MyValuesOf, value[f] = << >>,
         MyAt(s, My("qvalue", << >>, f, "'", port, value)), NEW w \in Seq(Symbol)
  PROVE  MyAt(s \o QuoteBody(w), My("qvalue", << >>, f, "'", port, SetTo(value, f, w)))
<1> DEFINE G(v) == My("qvalue", << >>, f, "'", port, SetTo(value, f, v))
           U == {v \in Seq(Symbol) : MyAt(s \o QuoteBody(v), G(v))}
<1>1. << >> \in U
  <2>1. << >> \in Seq(Symbol) /\ s \o << >> = s
    BY DEF MyAt
  <2>2. SetTo(value, f, << >>) = value
    BY <2>1, SetTwice
  <2>. QED
    BY <2>1, <2>2, QuoteEmpty
<1>2. ASSUME NEW v \in Seq(Symbol), NEW a \in Symbol, v \in U PROVE Append(v, a) \in U
  <2>1. QuoteBody(v) \in Seq(Symbol)
    BY QuotedNext
  <2>2. "\\" \in Symbol
    BY Symbols
  <2>3. MyAt(s \o QuoteBody(v), G(v))
    BY <1>2
  <2>4. SetTo(value, f, v) \in MyValuesOf /\ SetTo(value, f, v)[f] = v
        /\ SetTo(SetTo(value, f, v), f, Append(v, a)) = SetTo(value, f, Append(v, a))
    BY SetTwice
  <2>5. MyAt(s \o QuoteBody(Append(v, a)), G(Append(v, a)))
    <3>1. CASE a \in {"'", "\\"}
      <4>1. MyAt((s \o QuoteBody(v)) \o <<"\\", a>>, C!MyChar(C!MyChar(G(v), "\\"), a))
        BY <2>2, <2>3, MyTwo
      <4>2. "'" # "\\"
        OBVIOUS
      <4>3. C!MyChar(C!MyChar(G(v), "\\"), a) = G(Append(v, a))
        BY <2>4, <4>2, MyEscape
      <4>4. QuoteBody(Append(v, a)) = QuoteBody(v) \o <<"\\", a>>
        BY <3>1, QuotedNext
      <4>5. (s \o QuoteBody(v)) \o <<"\\", a>> = s \o QuoteBody(Append(v, a))
        BY <2>1, <2>2, <4>4 DEF MyAt
      <4>. QED
        BY <4>1, <4>3, <4>5
    <3>2. CASE a \notin {"'", "\\"}
      <4>1. MyAt((s \o QuoteBody(v)) \o <<a>>, C!MyChar(G(v), a))
        BY <2>3, MyOne
      <4>2. C!MyChar(G(v), a) = G(Append(v, a))
        BY <2>4, <3>2, MyPlain
      <4>4. QuoteBody(Append(v, a)) = QuoteBody(v) \o <<a>>
        BY <3>2, QuotedNext
      <4>5. (s \o QuoteBody(v)) \o <<a>> = s \o QuoteBody(Append(v, a))
        BY <2>1, <4>4 DEF MyAt
      <4>. QED
        BY <4>1, <4>2, <4>5
    <3>. QED
      BY <3>1, <3>2
  <2>8. Append(v, a) \in Seq(Symbol)
    OBVIOUS
  <2>. QED
    BY <2>5, <2>8
<1>3. w \in U
  <2> HIDE DEF U
  <2>. QED
    BY <1>1, <1>2, SequencesGrow
<1>. QED
  BY <1>3

(* The keywords of text fields.                                              *)
MyWords == {"user", "passwd", "password"}

(* A keyword is read in state "key".                                         *)
LEMMA MyKey ==
  ASSUME NEW word \in MyWords \cup {"port"}, NEW f, NEW q, NEW port, NEW value
  PROVE  C!MyChar(My("key", << >>, f, q, port, value), word) = My("key", <<word>>, f, q, port, value)
<1> DEFINE p == My("key", << >>, f, q, port, value)
<1>1. p.state = "key" /\ p.key = << >>
  BY MyFields
<1>2. C!MyChar(p, word) = C!Key(p, word)
  BY <1>1 DEF C!MyChar
<1>3. word # "=" /\ word # "blank"
  BY DEF MyWords
<1>4. C!Key(p, word) = [p EXCEPT !.key = Append(p.key, word)]
  BY <1>3 DEF C!Key
<1>5. Append(p.key, word) = <<word>>
  <2>1. \A k : k = << >> => Append(k, word) = <<word>>
    OBVIOUS
  <2>. QED
    BY <1>1, <2>1
<1>6. [p EXCEPT !.key = <<word>>] = My("key", <<word>>, f, q, port, value)
  BY DEF My
<1>. QED
  BY <1>2, <1>4, <1>5, <1>6

(* These keywords are known to the automaton.                                *)
LEMMA MyWord ==
  ASSUME NEW word \in MyWords
  PROVE  C!FieldOf(word) \in C!Fields /\ word \in C!Keywords /\ word # "port" /\ word # "flags"
  BY DEF C!FieldOf, C!Fields, C!Keywords, MyWords

(* "=" starts the value of a field that has none yet, and is an error for a  *)
(* field that has one.                                                       *)
LEMMA MyKeyEnds ==
  ASSUME NEW word \in MyWords, NEW f, NEW q, NEW port, NEW value
  PROVE  /\ value[C!FieldOf(word)] = << >> =>
              C!MyChar(My("key", <<word>>, f, q, port, value), "=") = My("value", << >>, C!FieldOf(word), q, port, value)
         /\ value[C!FieldOf(word)] # << >> =>
              C!MyChar(My("key", <<word>>, f, q, port, value), "=") = My("error", <<word>>, f, q, port, value)
<1> DEFINE p == My("key", <<word>>, f, q, port, value)
<1>1. p.state = "key" /\ p.key = <<word>> /\ p.value = value
  BY MyFields
<1>2. \A c : c = "=" => C!MyChar(p, c) = C!KeyEnds(p)
  BY <1>1 DEF C!MyChar, C!Key
<1>3. p.key # <<"port">> /\ p.key # <<"flags">>
  BY <1>1, MyWord
<1>4. (\E w \in C!Keywords : p.key = <<w>> /\ p.value[C!FieldOf(w)] = << >>) <=> value[C!FieldOf(word)] = << >>
  <2>1. \A w : <<w>> = <<word>> => w = word
    OBVIOUS
  <2>. QED
    BY <1>1, <2>1, MyWord
<1>5. ASSUME value[C!FieldOf(word)] = << >>
      PROVE  C!MyChar(p, "=") = My("value", << >>, C!FieldOf(word), q, port, value)
  <2>1. C!KeyEnds(p) = [p EXCEPT !.field = C!FieldOf(Head(p.key)), !.key = << >>, !.state = "value"]
    BY <1>3, <1>4, <1>5 DEF C!KeyEnds
  <2>2. Head(p.key) = word
    BY <1>1
  <2>3. [p EXCEPT !.field = C!FieldOf(word), !.key = << >>, !.state = "value"]
          = My("value", << >>, C!FieldOf(word), q, port, value)
    <3> DEFINE r == [p EXCEPT !.field = C!FieldOf(word)]
               t == [r EXCEPT !.key = << >>]
    <3>1. r = My("key", <<word>>, C!FieldOf(word), q, port, value)
      BY DEF My
    <3>2. [My("key", <<word>>, C!FieldOf(word), q, port, value) EXCEPT !.key = << >>]
             = My("key", << >>, C!FieldOf(word), q, port, value)
      BY DEF My
    <3>3. [My("key", << >>, C!FieldOf(word), q, port, value) EXCEPT !.state = "value"]
             = My("value", << >>, C!FieldOf(word), q, port, value)
      BY DEF My
    <3>4. [p EXCEPT !.field = C!FieldOf(word), !.key = << >>, !.state = "value"] = [t EXCEPT !.state = "value"]
      OBVIOUS
    <3>. QED
      BY <3>1, <3>2, <3>3, <3>4
  <2>. QED
    BY <1>2, <2>1, <2>2, <2>3
<1>6. ASSUME value[C!FieldOf(word)] # << >>
      PROVE  C!MyChar(p, "=") = My("error", <<word>>, f, q, port, value)
  <2>1. C!KeyEnds(p) = C!Invalid(p)
    BY <1>3, <1>4, <1>6 DEF C!KeyEnds
  <2>2. C!Invalid(p) = My("error", <<word>>, f, q, port, value)
    BY MyGo DEF C!Invalid
  <2>. QED
    BY <1>2, <2>1, <2>2
<1>. QED
  BY <1>5, <1>6

(* A semicolon ends a value.                                                 *)
LEMMA MyEndsValue ==
  ASSUME NEW f, NEW q, NEW port, NEW value
  PROVE  C!MyChar(My("value", << >>, f, q, port, value), ";") = My("key", << >>, f, q, port, value)
<1> DEFINE p == My("value", << >>, f, q, port, value)
<1>1. p.state = "value"
  BY MyFields
<1>2. \A c : C!MyChar(p, c) = C!Value(p, c)
  BY <1>1 DEF C!MyChar
<1>3. \A c : c = ";" => C!Value(p, c) = C!Go(p, "key")
  BY DEF C!Value, C!IsDelimiter
<1>4. C!MyChar(p, ";") = C!Go(p, "key")
  BY <1>2, <1>3
<1>5. C!Go(p, "key") = My("key", << >>, f, q, port, value)
  BY MyGo
<1>. QED
  BY <1>4, <1>5, Zenon

(* A quote ends a quoted value.                                              *)
LEMMA MyEndsQuote ==
  ASSUME NEW f, NEW port, NEW value
  PROVE  C!MyChar(My("qvalue", << >>, f, "'", port, value), "'") = My("key", << >>, f, "'", port, value)
<1> DEFINE r == My("qvalue", << >>, f, "'", port, value)
<1>1. r.state = "qvalue" /\ r.quote = "'"
  BY MyFields
<1>2. \A c : c = "'" => C!MyChar(r, c) = C!Go(r, "key")
  BY <1>1 DEF C!MyChar, C!QuotedValue
<1>3. C!MyChar(r, "'") = C!Go(r, "key")
  BY <1>2, Zenon
<1>4. C!Go(r, "key") = My("key", << >>, f, "'", port, value)
  BY MyGo
<1>. QED
  BY <1>3, <1>4, Zenon

(* A blank before a keyword is skipped.                                      *)
LEMMA MyBlank ==
  ASSUME NEW f, NEW q, NEW port, NEW value
  PROVE  C!MyChar(My("key", << >>, f, q, port, value), "blank") = My("key", << >>, f, q, port, value)
<1>1. \A s : s = My("key", << >>, f, q, port, value) => \A c : c = "blank" => C!MyChar(s, c) = s
  BY MyFields DEF C!MyChar, C!Key
<1>. QED
  BY <1>1, Zenon

(* A quote at the start of a value opens a quoted one.                       *)
LEMMA MyOpens ==
  ASSUME NEW f, NEW q, NEW port, NEW value, value[f] = << >>
  PROVE  C!MyChar(My("value", << >>, f, q, port, value), "'") = My("qvalue", << >>, f, "'", port, value)
<1> DEFINE p == My("value", << >>, f, q, port, value)
           r == My("qvalue", << >>, f, "'", port, value)
<1>1. p.state = "value" /\ p.field = f /\ p.value = value
  BY MyFields
<1>2. \A c : C!MyChar(p, c) = C!Value(p, c)
  BY <1>1 DEF C!MyChar
<1>4. C!MyChar(p, "'") = My("qvalue", << >>, f, "'", port, value)
  <2>1. \A c : c = "'" => C!Value(p, c) = [p EXCEPT !.quote = "'", !.state = "qvalue"]
    BY <1>1 DEF C!Value, C!IsDelimiter
  <2>2. [p EXCEPT !.quote = "'", !.state = "qvalue"] = r
    <3> DEFINE t == [p EXCEPT !.quote = "'"]
    <3>1. t = My("value", << >>, f, "'", port, value)
      BY DEF My
    <3>2. [My("value", << >>, f, "'", port, value) EXCEPT !.state = "qvalue"] = r
      BY DEF My
    <3>3. [p EXCEPT !.quote = "'", !.state = "qvalue"] = [t EXCEPT !.state = "qvalue"]
      OBVIOUS
    <3>. QED
      BY <3>1, <3>2, <3>3
  <2>. QED
    BY <1>2, <2>1, <2>2
<1>. QED
  BY <1>4

-------------------------------------------------------------------------------
(* Pieces of text: w leads the reader from p to r.  Pieces are put together  *)
(* with LeadsNext and LeadsThen.                                             *)

(* Behind any text that leaves the reader k in p, the text w leaves it in r. *)
Leads(k, w, p, r) == w \in Seq(Symbol) /\ \A s \in Seq(Symbol) : Read(k, s) = p => Read(k, s \o w) = r

(* One symbol is one step.                                                   *)
LEMMA LeadsOne == ASSUME NEW k, NEW p, NEW a \in Symbol PROVE Leads(k, <<a>>, p, Step(k, p, a))
  BY ReadOne DEF Leads

(* Two symbols are two steps.                                                *)
LEMMA LeadsTwo ==
  ASSUME NEW k, NEW p, NEW a \in Symbol, NEW b \in Symbol
  PROVE  Leads(k, <<a, b>>, p, Step(k, Step(k, p, a), b))
  BY ReadTwo DEF Leads

(* One more symbol.                                                          *)
LEMMA LeadsNext ==
  ASSUME NEW k, NEW w, NEW p, NEW q, Leads(k, w, p, q), NEW a \in Symbol
  PROVE  Leads(k, Append(w, a), p, Step(k, q, a))
<1>1. w \in Seq(Symbol) /\ Append(w, a) \in Seq(Symbol)
  BY DEF Leads
<1>2. ASSUME NEW s \in Seq(Symbol), Read(k, s) = p PROVE Read(k, s \o Append(w, a)) = Step(k, q, a)
  <2>1. s \o w \in Seq(Symbol) /\ s \o Append(w, a) = Append(s \o w, a)
    BY <1>1
  <2>2. Read(k, s \o w) = q
    BY <1>2 DEF Leads
  <2>3. Read(k, Append(s \o w, a)) = Step(k, Read(k, s \o w), a)
    BY <2>1, ReadNext
  <2>. QED
    BY <2>1, <2>2, <2>3
<1>. QED
  BY <1>1, <1>2 DEF Leads

(* One piece after the other.                                                *)
LEMMA LeadsThen ==
  ASSUME NEW k, NEW v, NEW w, NEW p, NEW q, NEW r, Leads(k, v, p, q), Leads(k, w, q, r)
  PROVE  Leads(k, v \o w, p, r)
<1>1. v \in Seq(Symbol) /\ w \in Seq(Symbol) /\ v \o w \in Seq(Symbol)
  BY DEF Leads
<1>2. ASSUME NEW s \in Seq(Symbol), Read(k, s) = p PROVE Read(k, s \o (v \o w)) = r
  <2>1. s \o v \in Seq(Symbol) /\ s \o (v \o w) = (s \o v) \o w
    BY <1>1
  <2>2. Read(k, s \o v) = q
    BY <1>2 DEF Leads
  <2>3. Read(k, (s \o v) \o w) = r
    BY <2>1, <2>2 DEF Leads
  <2>. QED
    BY <2>1, <2>3
<1>. QED
  BY <1>1, <1>2 DEF Leads

(* The empty piece changes nothing.                                          *)
LEMMA LeadsEmpty == ASSUME NEW k, NEW p PROVE Leads(k, << >>, p, p)
<1>1. << >> \in Seq(Symbol) /\ \A s \in Seq(Symbol) : s \o << >> = s
  OBVIOUS
<1>. QED
  BY <1>1 DEF Leads

-----------------------------------------------------------------------------

(* A sequence with one more entry is known by its entries.                   *)
LEMMA AppendEquals ==
  ASSUME NEW S, NEW s \in Seq(S), NEW c \in S, NEW v \in Seq(S), Len(v) = Len(s) + 1,
         \A i \in 1..Len(s) : v[i] = s[i], v[Len(s) + 1] = c
  PROVE  v = Append(s, c)
  OBVIOUS

(* Tuples as appended sequences.                                             *)
LEMMA Tuple2 ==
  ASSUME NEW a \in Symbol, NEW b \in Symbol
  PROVE  <<a, b>> = Append(<<a>>, b)
<1>1. <<a>> \in Seq(Symbol) /\ <<a, b>> \in Seq(Symbol)
  OBVIOUS
<1>. QED
  BY <1>1, AppendEquals

(* A text of three symbols by its last one.                                  *)
LEMMA Tuple3 ==
  ASSUME NEW a \in Symbol, NEW b \in Symbol, NEW c \in Symbol
  PROVE  <<a, b, c>> = Append(<<a, b>>, c)
<1>1. <<a, b>> \in Seq(Symbol) /\ <<a, b, c>> \in Seq(Symbol)
  OBVIOUS
<1>. QED
  BY <1>1, AppendEquals

(* A text of four symbols by its last one.                                   *)
LEMMA Tuple4 ==
  ASSUME NEW a \in Symbol, NEW b \in Symbol, NEW c \in Symbol, NEW d \in Symbol
  PROVE  <<a, b, c, d>> = Append(<<a, b, c>>, d)
<1>1. <<a, b, c>> \in Seq(Symbol) /\ <<a, b, c, d>> \in Seq(Symbol)
  OBVIOUS
<1>. QED
  BY <1>1, AppendEquals

(* A text of five symbols by its last one.                                   *)
LEMMA Tuple5 ==
  ASSUME NEW a \in Symbol, NEW b \in Symbol, NEW c \in Symbol, NEW d \in Symbol, NEW e \in Symbol
  PROVE  <<a, b, c, d, e>> = Append(<<a, b, c, d>>, e)
<1>1. <<a, b, c, d>> \in Seq(Symbol) /\ <<a, b, c, d, e>> \in Seq(Symbol)
  OBVIOUS
<1>. QED
  BY <1>1, AppendEquals

-------------------------------------------------------------------------------
(* The parameters of the mysql url, each of which leads the automaton from   *)
(* "key" back to "key".                                                      *)

(* The first symbol of a piece.                                              *)
LEMMA MyFirst ==
  ASSUME NEW p, NEW a \in Symbol, NEW r, C!MyChar(p, a) = r
  PROVE  Leads("mysql", <<a>>, p, r)
  BY LeadsOne, MyStep

(* The next symbol of a piece.                                               *)
LEMMA MyNext ==
  ASSUME NEW w, NEW p, NEW q, Leads("mysql", w, p, q), NEW a \in Symbol, NEW r, C!MyChar(q, a) = r, NEW v, v = Append(w, a)
  PROVE  Leads("mysql", v, p, r)
  BY LeadsNext, MyStep

(* The digits of the port that is written.                                   *)
LEMMA MyDigits ==
  /\ C!IsDigit("1") /\ C!DigitOf("1") = 1 /\ C!IsDigit("2") /\ C!DigitOf("2") = 2 /\ ~ C!IsDigit(";")
<1> DEFINE N == <<"0", "1", "2", "3", "4", "5", "6", "7", "8", "9">>
<1>1. \A c : C!IsDigit(c) <=> \E i \in 1..10 : N[i] = c
  BY DEF C!IsDigit, C!Numeral, C!ToSet
<1>2. N[2] = "1" /\ N[3] = "2" /\ 2 \in 1..10 /\ 3 \in 1..10
  OBVIOUS
<1>3. \A i \in 1..10 : N[i] # ";"
  <2>1. \A i \in 1..10 : i = 1 \/ i = 2 \/ i = 3 \/ i = 4 \/ i = 5 \/ i = 6 \/ i = 7 \/ i = 8 \/ i = 9 \/ i = 10
    OBVIOUS
  <2>2. \A c : c = ";" => N[1] # c /\ N[2] # c /\ N[3] # c /\ N[4] # c /\ N[5] # c /\ N[6] # c /\ N[7] # c /\ N[8] # c
                          /\ N[9] # c /\ N[10] # c
    OBVIOUS
  <2>. QED
    BY <2>1, <2>2
<1>4. \A n \in 0..9 : N[n + 1] = "1" <=> n = 1
  OBVIOUS
<1>5. \A n \in 0..9 : N[n + 1] = "2" <=> n = 2
  OBVIOUS
<1>6. C!DigitOf("1") = CHOOSE n \in 0..9 : N[n + 1] = "1"
  BY DEF C!DigitOf, C!Numeral
<1>7. C!DigitOf("2") = CHOOSE n \in 0..9 : N[n + 1] = "2"
  BY DEF C!DigitOf, C!Numeral
<1>8. 1 \in 0..9 /\ 2 \in 0..9
  OBVIOUS
<1> HIDE DEF N
<1>9. C!DigitOf("1") = 1
  BY <1>4, <1>6, <1>8
<1>10. C!DigitOf("2") = 2
  BY <1>5, <1>7, <1>8
<1>11. C!IsDigit("1") /\ C!IsDigit("2")
  BY <1>1, <1>2
<1>12. ~ C!IsDigit(";")
  BY <1>1, <1>3
<1>. QED
  BY <1>9, <1>10, <1>11, <1>12

(* The symbols of "port=12;" one by one.                                     *)
LEMMA MyPort ==
  ASSUME NEW f, NEW q, NEW port, NEW value
  PROVE  /\ C!MyChar(My("key", <<"port">>, f, q, port, value), "=") = My("port", << >>, f, q, 0, value)
         /\ C!MyChar(My("port", << >>, f, q, 0, value), "1") = My("port", << >>, f, q, 1, value)
         /\ C!MyChar(My("port", << >>, f, q, 1, value), "2") = My("port", << >>, f, q, 12, value)
         /\ C!MyChar(My("port", << >>, f, q, 12, value), ";") = My("key", << >>, f, q, 12, value)
<1>1. C!MyChar(My("key", <<"port">>, f, q, port, value), "=") = My("port", << >>, f, q, 0, value)
  <2> DEFINE p == My("key", <<"port">>, f, q, port, value)
             r == [p EXCEPT !.port = 0]
             t == [r EXCEPT !.key = << >>]
  <2>1. p.state = "key" /\ p.key = <<"port">>
    BY MyFields
  <2>2. \A c : c = "=" => C!MyChar(p, c) = C!KeyEnds(p)
    BY <2>1 DEF C!MyChar, C!Key
  <2>3. p.key # <<"flags">> /\ \A w \in C!Keywords : p.key # <<w>>
    BY <2>1 DEF C!Keywords, C!Fields
  <2>4. C!KeyEnds(p) = [p EXCEPT !.port = 0, !.key = << >>, !.state = "port"]
    BY <2>1, <2>3 DEF C!KeyEnds
  <2>5. r = My("key", <<"port">>, f, q, 0, value)
    BY DEF My
  <2>6. [My("key", <<"port">>, f, q, 0, value) EXCEPT !.key = << >>] = My("key", << >>, f, q, 0, value)
    BY DEF My
  <2>7. [My("key", << >>, f, q, 0, value) EXCEPT !.state = "port"] = My("port", << >>, f, q, 0, value)
    BY DEF My
  <2>8. [p EXCEPT !.port = 0, !.key = << >>, !.state = "port"] = [t EXCEPT !.state = "port"]
    OBVIOUS
  <2>9. C!KeyEnds(p) = My("port", << >>, f, q, 0, value)
    BY <2>4, <2>5, <2>6, <2>7, <2>8
  <2>. QED
    BY <2>2, <2>9
<1>2. ASSUME NEW n \in {0, 1}, NEW c, NEW k \in {1, 2}, C!IsDigit(c), C!DigitOf(c) = k, c \notin {";", "blank"}
      PROVE  C!MyChar(My("port", << >>, f, q, n, value), c) = My("port", << >>, f, q, n * 10 + k, value)
  <2> DEFINE p == My("port", << >>, f, q, n, value)
  <2>1. p.state = "port" /\ p.port = n
    BY MyFields
  <2>2. C!MyChar(p, c) = C!NumberValue(p, c)
    BY <2>1 DEF C!MyChar
  <2>3. C!NumberValue(p, c) = [p EXCEPT !.port = p.port * 10 + C!DigitOf(c)]
    BY <1>2, <2>1 DEF C!NumberValue, C!IsDelimiter
  <2>4. \A m : [p EXCEPT !.port = m] = My("port", << >>, f, q, m, value)
    BY DEF My
  <2>5. C!NumberValue(p, c) = My("port", << >>, f, q, p.port * 10 + C!DigitOf(c), value)
    BY <2>3, <2>4, Zenon
  <2>. QED
    BY <1>2, <2>1, <2>2, <2>5
<1>3. C!MyChar(My("port", << >>, f, q, 12, value), ";") = My("key", << >>, f, q, 12, value)
  <2> DEFINE p == My("port", << >>, f, q, 12, value)
  <2>1. p.state = "port"
    BY MyFields
  <2>2. \A c : C!MyChar(p, c) = C!NumberValue(p, c)
    BY <2>1 DEF C!MyChar
  <2>3. \A c : c = ";" => C!NumberValue(p, c) = C!Go(p, "key")
    <3>1. \A c : c = ";" => ~ C!IsDigit(c)
      BY MyDigits
    <3>. QED
      BY <3>1 DEF C!NumberValue, C!IsDelimiter
  <2>4. C!Go(p, "key") = My("key", << >>, f, q, 12, value)
    BY MyGo
  <2>. QED
    BY <2>2, <2>3, <2>4, Zenon
<1>4. C!MyChar(My("port", << >>, f, q, 0, value), "1") = My("port", << >>, f, q, 0 * 10 + 1, value)
  BY <1>2, MyDigits
<1>5. C!MyChar(My("port", << >>, f, q, 1, value), "2") = My("port", << >>, f, q, 1 * 10 + 2, value)
  BY <1>2, MyDigits
<1>6. 0 * 10 + 1 = 1 /\ 1 * 10 + 2 = 12
  OBVIOUS
<1>. QED
  BY <1>1, <1>3, <1>4, <1>5, <1>6

(* Five symbols in a row.                                                    *)
LEMMA MyFive ==
  ASSUME NEW a \in Symbol, NEW b \in Symbol, NEW c \in Symbol, NEW d \in Symbol, NEW e \in Symbol,
         NEW p, NEW p1, NEW p2, NEW p3, NEW p4, NEW p5,
         C!MyChar(p, a) = p1, C!MyChar(p1, b) = p2, C!MyChar(p2, c) = p3, C!MyChar(p3, d) = p4, C!MyChar(p4, e) = p5
  PROVE  Leads("mysql", <<a, b, c, d, e>>, p, p5)
<1>1. Leads("mysql", <<a>>, p, p1)
  BY MyFirst
<1>2. Leads("mysql", <<a, b>>, p, p2)
  <2>1. <<a, b>> = Append(<<a>>, b)
    BY Tuple2
  <2>. QED
    BY <1>1, <2>1, MyNext
<1>3. Leads("mysql", <<a, b, c>>, p, p3)
  <2>1. <<a, b, c>> = Append(<<a, b>>, c)
    BY Tuple3
  <2>. QED
    BY <1>2, <2>1, MyNext
<1>4. Leads("mysql", <<a, b, c, d>>, p, p4)
  <2>1. <<a, b, c, d>> = Append(<<a, b, c>>, d)
    BY Tuple4
  <2>. QED
    BY <1>3, <2>1, MyNext
<1>5. Leads("mysql", <<a, b, c, d, e>>, p, p5)
  <2>1. <<a, b, c, d, e>> = Append(<<a, b, c, d>>, e)
    BY Tuple5
  <2>. QED
    BY <1>4, <2>1, MyNext
<1>. QED
  BY <1>5

(* The port is read as 12.                                                   *)
LEMMA MyPortWritten ==
  ASSUME NEW f, NEW q, NEW port, NEW value
  PROVE  Leads("mysql", <<"port", "=", "1", "2", ";">>, My("key", << >>, f, q, port, value),
               My("key", << >>, f, q, 12, value))
<1>1. "port" \in Symbol /\ "=" \in Symbol /\ "1" \in Symbol /\ "2" \in Symbol /\ ";" \in Symbol
  BY Symbols
<1>2. C!MyChar(My("key", << >>, f, q, port, value), "port") = My("key", <<"port">>, f, q, port, value)
  BY MyKey
<1>3. /\ C!MyChar(My("key", <<"port">>, f, q, port, value), "=") = My("port", << >>, f, q, 0, value)
      /\ C!MyChar(My("port", << >>, f, q, 0, value), "1") = My("port", << >>, f, q, 1, value)
      /\ C!MyChar(My("port", << >>, f, q, 1, value), "2") = My("port", << >>, f, q, 12, value)
      /\ C!MyChar(My("port", << >>, f, q, 12, value), ";") = My("key", << >>, f, q, 12, value)
  BY MyPort
<1>. QED
  BY <1>1, <1>2, <1>3, MyFive, Zenon

-----------------------------------------------------------------------------

(* A keyword and "=".                                                        *)
LEMMA MyKeyWritten ==
  ASSUME NEW f, NEW q, NEW port, NEW value, NEW word \in MyWords
  PROVE  /\ value[C!FieldOf(word)] = << >> =>
              Leads("mysql", <<word, "=">>, My("key", << >>, f, q, port, value), My("value", << >>, C!FieldOf(word), q, port, value))
         /\ value[C!FieldOf(word)] # << >> =>
              Leads("mysql", <<word, "=">>, My("key", << >>, f, q, port, value), My("error", <<word>>, f, q, port, value))
<1>1. word \in Symbol /\ "=" \in Symbol
  BY Symbols DEF MyWords
<1>2. Leads("mysql", <<word, "=">>, My("key", << >>, f, q, port, value),
            C!MyChar(C!MyChar(My("key", << >>, f, q, port, value), word), "="))
  BY <1>1, LeadsTwo, MyStep
<1>3. C!MyChar(My("key", << >>, f, q, port, value), word) = My("key", <<word>>, f, q, port, value)
  BY MyKey
<1>. QED
  BY <1>2, <1>3, MyKeyEnds

(* The two ways to write a value.                                            *)
LEMMA MyBodies ==
  ASSUME NEW f \in C!Fields, NEW q, NEW port, NEW value \in MyValuesOf, value[f] = << >>, NEW w \in Seq(Symbol)
  PROVE  /\ Leads("mysql", EscapedOnce(w), My("value", << >>, f, q, port, value), My("value", << >>, f, q, port, SetTo(value, f, w)))
         /\ Leads("mysql", QuoteBody(w), My("qvalue", << >>, f, "'", port, value),
                  My("qvalue", << >>, f, "'", port, SetTo(value, f, w)))
<1>1. "x" \in Symbol
  BY Symbols
<1>2. EscapedOnce(w) \in Seq(Symbol) /\ QuoteBody(w) \in Seq(Symbol)
  BY <1>1, EscapedNext, QuotedNext
<1>3. \A s : MyAt(s, My("value", << >>, f, q, port, value)) => MyAt(s \o EscapedOnce(w), My("value", << >>, f, q, port, SetTo(value, f, w)))
  BY MyEscapes
<1>4. \A s : MyAt(s, My("qvalue", << >>, f, "'", port, value)) => MyAt(s \o QuoteBody(w), My("qvalue", << >>, f, "'", port, SetTo(value, f, w)))
  BY MyQuotes
<1>. QED
  BY <1>2, <1>3, <1>4, Zenon DEF Leads, MyAt

(* What ends a value.                                                        *)
LEMMA MyEnded ==
  ASSUME NEW f, NEW q, NEW port, NEW value
  PROVE  /\ Leads("mysql", <<";">>, My("value", << >>, f, q, port, value), My("key", << >>, f, q, port, value))
         /\ Leads("mysql", <<"'">>, My("qvalue", << >>, f, "'", port, value), My("key", << >>, f, "'", port, value))
         /\ Leads("mysql", <<"blank">>, My("key", << >>, f, q, port, value), My("key", << >>, f, q, port, value))
<1>1. ";" \in Symbol /\ "'" \in Symbol /\ "blank" \in Symbol
  BY Symbols
<1>2. Leads("mysql", <<";">>, My("value", << >>, f, q, port, value), My("key", << >>, f, q, port, value))
  <2>1. C!MyChar(My("value", << >>, f, q, port, value), ";") = My("key", << >>, f, q, port, value)
    BY MyEndsValue
  <2>. QED
    BY <1>1, <2>1, MyFirst
<1>3. Leads("mysql", <<"'">>, My("qvalue", << >>, f, "'", port, value), My("key", << >>, f, "'", port, value))
  <2>1. C!MyChar(My("qvalue", << >>, f, "'", port, value), "'") = My("key", << >>, f, "'", port, value)
    BY MyEndsQuote
  <2>. QED
    BY <1>1, <2>1, MyFirst
<1>4. Leads("mysql", <<"blank">>, My("key", << >>, f, q, port, value), My("key", << >>, f, q, port, value))
  <2>1. C!MyChar(My("key", << >>, f, q, port, value), "blank") = My("key", << >>, f, q, port, value)
    BY MyBlank
  <2>. QED
    BY <1>1, <2>1, MyFirst
<1>. QED
  BY <1>2, <1>3, <1>4

(* The quote that opens a value.                                             *)
LEMMA MyOpened ==
  ASSUME NEW f, NEW q, NEW port, NEW value, value[f] = << >>
  PROVE  Leads("mysql", <<"'">>, My("value", << >>, f, q, port, value), My("qvalue", << >>, f, "'", port, value))
<1>1. "'" \in Symbol
  BY Symbols
<1>2. C!MyChar(My("value", << >>, f, q, port, value), "'") = My("qvalue", << >>, f, "'", port, value)
  BY MyOpens
<1>. QED
  BY <1>1, <1>2, MyFirst

(* A parameter of a field that has no value yet, quoted or not, gives the    *)
(* field exactly the value that is meant and leads from "key" to "key".      *)
LEMMA MyParameterWritten ==
  ASSUME NEW f, NEW q, NEW port, NEW value \in MyValuesOf,
         NEW word \in MyWords, NEW v \in Seq(Symbol), value[C!FieldOf(word)] = << >>, NEW quoted \in BOOLEAN
  PROVE  \E r : Leads("mysql", MyParameter(word, v, quoted), My("key", << >>, f, q, port, value),
                      My("key", << >>, C!FieldOf(word), r, port, SetTo(value, C!FieldOf(word), v)))
<1>0. PICK g : g = C!FieldOf(word)
  OBVIOUS
<1>1. PICK w : w = SetTo(value, g, v)
  OBVIOUS
<1>2. g \in C!Fields /\ value[g] = << >>
  BY <1>0, MyWord
<1>3. Leads("mysql", <<word, "=">>, My("key", << >>, f, q, port, value), My("value", << >>, g, q, port, value))
  BY <1>0, MyKeyWritten
<1>4. /\ Leads("mysql", EscapedOnce(v), My("value", << >>, g, q, port, value), My("value", << >>, g, q, port, w))
      /\ Leads("mysql", QuoteBody(v), My("qvalue", << >>, g, "'", port, value), My("qvalue", << >>, g, "'", port, w))
  BY <1>1, <1>2, MyBodies
<1>5. Leads("mysql", <<"'">>, My("value", << >>, g, q, port, value), My("qvalue", << >>, g, "'", port, value))
  BY <1>2, MyOpened
<1>6. /\ Leads("mysql", <<";">>, My("value", << >>, g, q, port, w), My("key", << >>, g, q, port, w))
      /\ Leads("mysql", <<"'">>, My("qvalue", << >>, g, "'", port, w), My("key", << >>, g, "'", port, w))
      /\ Leads("mysql", <<"blank">>, My("key", << >>, g, "'", port, w), My("key", << >>, g, "'", port, w))
  BY MyEnded
<1>7. Leads("mysql", <<word, "=">> \o EscapedOnce(v) \o <<";">>, My("key", << >>, f, q, port, value), My("key", << >>, g, q, port, w))
  <2>1. Leads("mysql", <<word, "=">> \o EscapedOnce(v), My("key", << >>, f, q, port, value), My("value", << >>, g, q, port, w))
    BY <1>3, <1>4, LeadsThen
  <2>. QED
    BY <2>1, <1>6, LeadsThen
<1>8. Leads("mysql", <<word, "=">> \o (<<"'">> \o QuoteBody(v) \o <<"'">>) \o <<"blank">>, My("key", << >>, f, q, port, value),
            My("key", << >>, g, "'", port, w))
  <2>1. Leads("mysql", <<"'">> \o QuoteBody(v), My("value", << >>, g, q, port, value), My("qvalue", << >>, g, "'", port, w))
    BY <1>4, <1>5, LeadsThen
  <2>2. Leads("mysql", <<"'">> \o QuoteBody(v) \o <<"'">>, My("value", << >>, g, q, port, value), My("key", << >>, g, "'", port, w))
    BY <1>6, <2>1, LeadsThen
  <2>3. Leads("mysql", <<word, "=">> \o (<<"'">> \o QuoteBody(v) \o <<"'">>), My("key", << >>, f, q, port, value),
              My("key", << >>, g, "'", port, w))
    BY <1>3, <2>2, LeadsThen
  <2>. QED
    BY <1>6, <2>3, LeadsThen
<1>9. quoted => MyParameter(word, v, quoted) = <<word, "=">> \o (<<"'">> \o QuoteBody(v) \o <<"'">>) \o <<"blank">>
  BY QuotedIs, Zenon DEF MyParameter
<1>10. ~ quoted => MyParameter(word, v, quoted) = <<word, "=">> \o EscapedOnce(v) \o <<";">>
  BY Zenon DEF MyParameter
<1>11. quoted \/ ~ quoted
  OBVIOUS
<1>. QED
  BY <1>0, <1>1, <1>7, <1>8, <1>9, <1>10, <1>11, Zenon

-------------------------------------------------------------------------------
(* What is meant and what the automaton has read so far agree.               *)

(* The shape of what is meant by a mysql url.                                *)
MyMeaning(m) ==
    /\ m = [value |-> m.value, port |-> m.port, error |-> m.error, pieces |-> m.pieces]
    /\ m.value \in MyValuesOf /\ m.error \in BOOLEAN

(* The automaton has met an error exactly when one is meant, and otherwise   *)
(* it is at a keyword with the values and the port that are meant.           *)
MyReads(s, m) ==
    /\ s \in Seq(Symbol)
    /\ m.error => Read("mysql", s).state = "error"
    /\ ~ m.error => \E field, quote : Read("mysql", s) = My("key", << >>, field, quote, m.port, m.value)

(* The part of the inductive invariant for the mysql url.                    *)
MyInv == subject = "mysql" => MyMeaning(meant) /\ MyReads(text, meant)

(* A meaning, spelled out.                                                   *)
Meant(r, w, port, e, n) == r = [value |-> w, port |-> port, error |-> e, pieces |-> n]

(* The fields of a meaning.                                                  *)
LEMMA MyRecord ==
  ASSUME NEW w, NEW port, NEW e \in BOOLEAN, NEW n, NEW r, r = [value |-> w, port |-> port, error |-> e, pieces |-> n]
  PROVE  r.value = w /\ r.port = port /\ r.error = e /\ r.pieces = n
<1>1. r.value = w
  OBVIOUS
<1>2. r.port = port /\ r.pieces = n
  OBVIOUS
<1>3. r.error = e
  OBVIOUS
<1>. QED
  BY <1>1, <1>2, <1>3

(* A meaning that is spelled out has the shape.                              *)
LEMMA MyMeans ==
  ASSUME NEW w \in MyValuesOf, NEW port, NEW e \in BOOLEAN, NEW n, NEW r, Meant(r, w, port, e, n)
  PROVE  MyMeaning(r) /\ r.value = w /\ r.port = port /\ r.error = e
<1>0. r = [value |-> w, port |-> port, error |-> e, pieces |-> n]
  BY DEF Meant
<1>1. r.value = w /\ r.port = port /\ r.error = e /\ r.pieces = n
  BY <1>0, MyRecord
<1>2. r = [value |-> r.value, port |-> r.port, error |-> r.error, pieces |-> r.pieces]
  BY <1>0, <1>1
<1>. QED
  BY <1>1, <1>2 DEF MyMeaning

(* What writing a parameter does to the meaning, and writing the port.       *)
MyAssigns(m, f, v, m1) ==
    m1 = [m EXCEPT !.value[f] = v, !.pieces = @ + 1, !.error = @ \/ m.value[f] # << >>]
MyAssignsPort(m, m2) == m2 = [m EXCEPT !.port = 12, !.pieces = @ + 1]

(* A parameter assigns one field; a field that had a value makes an error.   *)
LEMMA MyMeantValue ==
  ASSUME NEW m, MyMeaning(m), NEW f \in C!Fields, NEW v \in Seq(Symbol),
         NEW m1, MyAssigns(m, f, v, m1)
  PROVE  /\ MyMeaning(m1) /\ m1.value = SetTo(m.value, f, v) /\ m1.port = m.port
         /\ m1.error = (m.error \/ m.value[f] # << >>)
<1>1. m.value \in MyValuesOf /\ m.error \in BOOLEAN
  BY DEF MyMeaning
<1>2. PICK e \in BOOLEAN : e = (m.error \/ m.value[f] # << >>)
  OBVIOUS
<1>3. PICK w \in MyValuesOf : w = SetTo(m.value, f, v)
  BY <1>1, SetTwice
<1>4. m = [value |-> m.value, port |-> m.port, error |-> m.error, pieces |-> m.pieces]
  BY DEF MyMeaning
<1>5. m1 = [m EXCEPT !.value = w, !.pieces = m.pieces + 1, !.error = e]
  BY <1>2, <1>3 DEF SetTo, MyAssigns
<1>6. m1 = [value |-> w, port |-> m.port, error |-> e, pieces |-> m.pieces + 1]
  BY <1>4, <1>5
<1>r. Meant(m1, w, m.port, e, m.pieces + 1)
  BY <1>6, Zenon DEF Meant
<1>7. MyMeaning(m1) /\ m1.value = w /\ m1.port = m.port /\ m1.error = e
  BY <1>r, MyMeans
<1>. QED
  BY <1>2, <1>3, <1>7

(* The port assigns nothing else.                                            *)
LEMMA MyMeantPort ==
  ASSUME NEW m, MyMeaning(m), NEW m2, MyAssignsPort(m, m2)
  PROVE  MyMeaning(m2) /\ m2.value = m.value /\ m2.port = 12 /\ m2.error = m.error
<1>1. m.value \in MyValuesOf /\ m.error \in BOOLEAN
  BY DEF MyMeaning
<1>2. m = [value |-> m.value, port |-> m.port, error |-> m.error, pieces |-> m.pieces]
  BY DEF MyMeaning
<1>3. m2 = [value |-> m.value, port |-> 12, error |-> m.error, pieces |-> m.pieces + 1]
  BY <1>2 DEF MyAssignsPort
<1>r. Meant(m2, m.value, 12, m.error, m.pieces + 1)
  BY <1>3, Zenon DEF Meant
<1>. QED
  BY <1>1, <1>r, MyMeans

(* Small texts are texts.                                                    *)
LEMMA OneSymbol == ASSUME NEW a \in Symbol PROVE <<a>> \in Seq(Symbol)
  OBVIOUS

(* Texts of two symbols.                                                     *)
LEMMA TwoSymbols == ASSUME NEW a \in Symbol, NEW b \in Symbol PROVE <<a, b>> \in Seq(Symbol)
  OBVIOUS

(* Concatenation is associative.                                             *)
LEMMA Behind ==
  \A k, x, y \in Seq(Symbol) : (k \o x) \o y = k \o (x \o y) /\ x \o y \in Seq(Symbol)
  OBVIOUS

(* Whatever follows an error, it stays one.                                  *)
LEMMA MyFails ==
  ASSUME NEW s \in Seq(Symbol), NEW v \in Seq(Symbol), NEW p, NEW r, Read("mysql", s) = p,
         Leads("mysql", v, p, r), r.state = "error", NEW w \in Seq(Symbol)
  PROVE  s \o (v \o w) \in Seq(Symbol) /\ Read("mysql", s \o (v \o w)).state = "error"
<1>1. s \o v \in Seq(Symbol) /\ s \o (v \o w) = (s \o v) \o w
  OBVIOUS
<1>2. Read("mysql", s \o v).state = "error"
  BY DEF Leads
<1>. QED
  BY <1>1, <1>2, MyStuck

(* Every parameter starts with its keyword and "=".                          *)
LEMMA MyParameterText ==
  ASSUME NEW word \in MyWords, NEW v \in Seq(Symbol), NEW quoted \in BOOLEAN
  PROVE  \E w \in Seq(Symbol) : MyParameter(word, v, quoted) = <<word, "=">> \o w
<1>1. "=" \in Symbol /\ ";" \in Symbol /\ "'" \in Symbol /\ "blank" \in Symbol /\ word \in Symbol
  BY Symbols DEF MyWords
<1>2. EscapedOnce(v) \in Seq(Symbol) /\ QuoteBody(v) \in Seq(Symbol)
  BY <1>1, EscapedNext, QuotedNext
<1> DEFINE k == <<word, "=">>
           q == <<"'">>
           b == <<"blank">>
           c == <<";">>
<1>3. k \in Seq(Symbol)
  BY <1>1, TwoSymbols
<1>4. q \in Seq(Symbol)
  BY <1>1, OneSymbol
<1>5. b \in Seq(Symbol)
  BY <1>1, OneSymbol
<1>6. c \in Seq(Symbol)
  BY <1>1, OneSymbol
<1>7. quoted => MyParameter(word, v, quoted) = k \o (q \o QuoteBody(v) \o q) \o b
  BY QuotedIs, Zenon DEF MyParameter
<1>8. ~ quoted => MyParameter(word, v, quoted) = k \o EscapedOnce(v) \o c
  BY Zenon DEF MyParameter
<1> HIDE DEF k, q, b, c
<1>9. q \o QuoteBody(v) \o q \in Seq(Symbol)
  BY <1>2, <1>4
<1>10. /\ k \o (q \o QuoteBody(v) \o q) \o b = k \o ((q \o QuoteBody(v) \o q) \o b)
       /\ (q \o QuoteBody(v) \o q) \o b \in Seq(Symbol)
  BY <1>3, <1>5, <1>9, Behind, Zenon
<1>11. k \o EscapedOnce(v) \o c = k \o (EscapedOnce(v) \o c) /\ EscapedOnce(v) \o c \in Seq(Symbol)
  BY <1>2, <1>3, <1>6, Behind, Zenon
<1>12. \E w \in Seq(Symbol) : MyParameter(word, v, quoted) = k \o w
  BY <1>7, <1>8, <1>10, <1>11, Zenon
<1>. QED
  BY <1>12 DEF k

(* Writing a parameter keeps reading and meaning in agreement.               *)
LEMMA MyWritten ==
  ASSUME NEW s, NEW m, MyMeaning(m), MyReads(s, m), NEW word \in MyWords, NEW v \in Seq(Symbol), NEW quoted \in BOOLEAN,
         NEW m1, MyAssigns(m, C!FieldOf(word), v, m1)
  PROVE  MyMeaning(m1) /\ MyReads(s \o MyParameter(word, v, quoted), m1)
<1>1. C!FieldOf(word) \in C!Fields
  BY MyWord
<1>2. /\ MyMeaning(m1) /\ m1.value = SetTo(m.value, C!FieldOf(word), v) /\ m1.port = m.port
      /\ m1.error = (m.error \/ m.value[C!FieldOf(word)] # << >>)
  BY <1>1, MyMeantValue
<1>3. PICK w \in Seq(Symbol) : MyParameter(word, v, quoted) = <<word, "=">> \o w
  BY MyParameterText
<1>4. s \in Seq(Symbol) /\ m.value \in MyValuesOf /\ m.error \in BOOLEAN
  BY DEF MyReads, MyMeaning
<1>5. word \in Symbol /\ "=" \in Symbol
  BY Symbols DEF MyWords
<1>6. <<word, "=">> \in Seq(Symbol)
  BY <1>5
<1>7. CASE m.error
  <2>1. Read("mysql", s).state = "error"
    BY <1>7 DEF MyReads
  <2>2. <<word, "=">> \o w \in Seq(Symbol)
    BY <1>6
  <2>3. s \o MyParameter(word, v, quoted) \in Seq(Symbol) /\ Read("mysql", s \o MyParameter(word, v, quoted)).state = "error"
    BY <1>3, <1>4, <2>1, <2>2, MyStuck
  <2>4. m1.error
    BY <1>2, <1>7
  <2>. QED
    BY <1>2, <2>3, <2>4 DEF MyReads
<1>8. CASE ~ m.error /\ m.value[C!FieldOf(word)] # << >>
  <2>1. PICK field, quote : Read("mysql", s) = My("key", << >>, field, quote, m.port, m.value)
    BY <1>8 DEF MyReads
  <2>2. Leads("mysql", <<word, "=">>, My("key", << >>, field, quote, m.port, m.value),
              My("error", <<word>>, field, quote, m.port, m.value))
    BY <1>8, MyKeyWritten
  <2>3. My("error", <<word>>, field, quote, m.port, m.value).state = "error"
    BY MyFields
  <2>4. /\ s \o (<<word, "=">> \o w) \in Seq(Symbol)
        /\ Read("mysql", s \o (<<word, "=">> \o w)).state = "error"
    BY <1>4, <1>6, <2>1, <2>2, <2>3, MyFails
  <2>5. m1.error
    BY <1>2, <1>8
  <2>. QED
    BY <1>2, <1>3, <2>4, <2>5 DEF MyReads
<1>9. CASE ~ m.error /\ m.value[C!FieldOf(word)] = << >>
  <2>1. PICK field, quote : Read("mysql", s) = My("key", << >>, field, quote, m.port, m.value)
    BY <1>9 DEF MyReads
  <2>2. PICK r : Leads("mysql", MyParameter(word, v, quoted), My("key", << >>, field, quote, m.port, m.value),
                       My("key", << >>, C!FieldOf(word), r, m.port, SetTo(m.value, C!FieldOf(word), v)))
    BY <1>4, <1>9, MyParameterWritten
  <2>3. Read("mysql", s \o MyParameter(word, v, quoted)) = My("key", << >>, C!FieldOf(word), r, m1.port, m1.value)
    BY <1>2, <1>4, <2>1, <2>2, Zenon DEF Leads
  <2>4. s \o MyParameter(word, v, quoted) \in Seq(Symbol)
    <3>1. <<word, "=">> \o w \in Seq(Symbol)
      BY <1>6
    <3>. QED
      BY <1>3, <1>4, <3>1
  <2>5. ~ m1.error
    BY <1>2, <1>9
  <2>. QED
    BY <1>2, <2>3, <2>4, <2>5 DEF MyReads
<1>. QED
  BY <1>4, <1>7, <1>8, <1>9

(* So does writing the port.                                                 *)
LEMMA MyWrittenPort ==
  ASSUME NEW s, NEW m, MyMeaning(m), MyReads(s, m), NEW m2, MyAssignsPort(m, m2)
  PROVE  MyMeaning(m2) /\ MyReads(s \o <<"port", "=", "1", "2", ";">>, m2)
<1>1. PICK p : p = <<"port", "=", "1", "2", ";">>
  OBVIOUS
<1>2. \A f, q, port, value : Leads("mysql", p, My("key", << >>, f, q, port, value), My("key", << >>, f, q, 12, value))
  BY <1>1, MyPortWritten
<1>3. p \in Seq(Symbol)
  BY <1>2 DEF Leads
<1>4. MyMeaning(m2) /\ m2.value = m.value /\ m2.port = 12 /\ m2.error = m.error
  BY MyMeantPort
<1>5. s \in Seq(Symbol) /\ m.error \in BOOLEAN
  BY DEF MyReads, MyMeaning
<1>6. s \o p \in Seq(Symbol)
  BY <1>3, <1>5
<1>7. CASE m.error
  <2>1. Read("mysql", s).state = "error"
    BY <1>7 DEF MyReads
  <2>2. Read("mysql", s \o p).state = "error"
    BY <1>3, <1>5, <2>1, MyStuck
  <2>. QED
    BY <1>1, <1>4, <1>6, <1>7, <2>2 DEF MyReads
<1>8. CASE ~ m.error
  <2>1. PICK field, quote : Read("mysql", s) = My("key", << >>, field, quote, m.port, m.value)
    BY <1>8 DEF MyReads
  <2>2. Read("mysql", s \o p) = My("key", << >>, field, quote, 12, m.value)
    BY <1>2, <1>5, <2>1 DEF Leads
  <2>. QED
    BY <1>1, <1>4, <1>6, <1>8, <2>2 DEF MyReads
<1>. QED
  BY <1>5, <1>7, <1>8

(* Both steps preserve MyInv.                                                *)
LEMMA MyParameterStep ==
  ASSUME MyInv, NEW word \in {"user", "passwd", "password"}, NEW value \in MyValues, NEW quoted \in BOOLEAN,
         WriteMyParameter(word, value, quoted)
  PROVE  MyInv'
<1>1. subject = "mysql" /\ text' = text \o MyParameter(word, value, quoted)
  BY DEF WriteMyParameter
<1>2. MyAssigns(meant, C!FieldOf(word), value, meant')
  BY Zenon DEF WriteMyParameter, MyAssigns
<1>3. word \in MyWords
  BY DEF MyWords
<1>4. value \in Seq(Symbol)
  <2>1. "x" \in Symbol /\ "blank" \in Symbol /\ "'" \in Symbol /\ ";" \in Symbol /\ "\\" \in Symbol /\ "=" \in Symbol
    BY Symbols
  <2>2. \A a, b, c \in Symbol : <<a, b, c>> \in Seq(Symbol) /\ <<a>> \in Seq(Symbol) /\ << >> \in Seq(Symbol)
    OBVIOUS
  <2>3. value = << >> \/ value = <<"x">> \/ value = <<"x", "blank", "'">> \/ value = <<";", "\\", "=">>
    BY Zenon DEF MyValues
  <2>. QED
    BY <2>1, <2>2, <2>3, Zenon
<1>5. MyMeaning(meant) /\ MyReads(text, meant)
  BY <1>1 DEF MyInv
<1>6. MyMeaning(meant') /\ MyReads(text \o MyParameter(word, value, quoted), meant')
  BY <1>2, <1>3, <1>4, <1>5, MyWritten, Zenon
<1>7. MyMeaning(meant') /\ MyReads(text', meant')
  BY <1>1, <1>6
<1>. QED
  BY <1>7, Zenon DEF MyInv

(* So does the port.                                                         *)
LEMMA MyPortStep == ASSUME MyInv, WriteMyPort PROVE MyInv'
<1>1. subject = "mysql" /\ text' = text \o <<"port", "=", "1", "2", ";">>
  BY DEF WriteMyPort
<1>2. MyAssignsPort(meant, meant')
  BY Zenon DEF WriteMyPort, MyAssignsPort
<1>3. MyMeaning(meant) /\ MyReads(text, meant)
  BY <1>1 DEF MyInv
<1>4. MyMeaning(meant') /\ MyReads(text \o <<"port", "=", "1", "2", ";">>, meant')
  BY <1>2, <1>3, MyWrittenPort, Zenon
<1>5. MyMeaning(meant') /\ MyReads(text', meant')
  BY <1>1, <1>4
<1>. QED
  BY <1>5, Zenon DEF MyInv

(* The part of ConnectionAsMeant for the mysql url.                          *)
MyAsMeant ==
  subject = "mysql" =>
     LET got == C!MyParameters(text, << >>, << >>)
     IN IF meant.error THEN "error" \in DOMAIN got
        ELSE /\ "error" \notin DOMAIN got
             /\ got.value = meant.value /\ got.port = meant.port

(* It follows from MyInv.                                                    *)
LEMMA MyHolds == ASSUME MyInv PROVE MyAsMeant
<1> SUFFICES ASSUME subject = "mysql" PROVE MyAsMeant
  BY DEF MyAsMeant
<1>1. text \in Seq(Symbol) /\ meant.error \in BOOLEAN
  BY DEF MyInv, MyReads, MyMeaning
<1> DEFINE p == Read("mysql", text)
           got == C!MyParameters(text, << >>, << >>)
<1>2. got = IF p.state = "error" \/ (p.state = "key" /\ p.key # << >>) THEN [error |-> TRUE]
            ELSE [value |-> p.value, port |-> p.port, flags |-> p.flags]
  BY <1>1, MyRead
<1>3. CASE meant.error
  <2>1. p.state = "error"
    BY <1>3 DEF MyInv, MyReads
  <2>2. got = [error |-> TRUE]
    BY <1>2, <2>1
  <2>3. "error" \in DOMAIN got
    BY <2>2
  <2>. QED
    BY <1>3, <2>3 DEF MyAsMeant
<1>4. CASE ~ meant.error
  <2>1. PICK field, quote : p = My("key", << >>, field, quote, meant.port, meant.value)
    BY <1>4 DEF MyInv, MyReads
  <2>2. p.state = "key" /\ p.key = << >> /\ p.port = meant.port /\ p.value = meant.value
    BY <2>1, MyFields
  <2>3. got = [value |-> p.value, port |-> p.port, flags |-> p.flags]
    BY <1>2, <2>2
  <2>4. DOMAIN got = {"value", "port", "flags"} /\ got.value = p.value /\ got.port = p.port
    BY <2>3
  <2>5. "error" \notin DOMAIN got
    BY <2>4
  <2> HIDE DEF p, got
  <2>. QED
    BY <1>4, <2>2, <2>4, <2>5 DEF MyAsMeant, got
<1>. QED
  BY <1>1, <1>3, <1>4

-------------------------------------------------------------------------------
(* The oracle url: extractAttribute finds a parameter and cuts it out of the *)
(* text.                                                                     *)

(* Find returns the first place of a word.                                   *)
LEMMA FindIs ==
  ASSUME NEW s \in Seq(Symbol), NEW word, NEW from \in Nat, from > 0, NEW n \in Nat, n >= from, n <= Len(s), s[n] = word,
         \A i \in from..(n - 1) : s[i] # word
  PROVE  C!Find(s, word, from) = n
<1> DEFINE places == {i \in from..Len(s) : s[i] = word}
<1>1. n \in places /\ places \subseteq Nat /\ \A k \in places : n <= k
  OBVIOUS
<1>2. C!Find(s, word, from) = C!Smallest(places)
  BY DEF C!Find
<1> HIDE DEF places
<1>3. C!Smallest(places) = CHOOSE m \in places : \A k \in places : m <= k
  BY <1>1 DEF C!Smallest
<1>4. \A m \in places : (\A k \in places : m <= k) => m = n
  BY <1>1
<1>. QED
  BY <1>1, <1>2, <1>3, <1>4

(* Find of a word that is not there.                                         *)
LEMMA FindNone ==
  ASSUME NEW s, NEW word, NEW from, \A i \in from..Len(s) : s[i] # word
  PROVE  C!Find(s, word, from) = 0
<1>1. {i \in from..Len(s) : s[i] = word} = {}
  OBVIOUS
<1>. QED
  BY <1>1 DEF C!Find, C!Smallest, C!Absent

(* An attribute that is not in the text is empty and the text stays.         *)
LEMMA OraAbsent ==
  ASSUME NEW s, NEW word, \A i \in 1..Len(s) : s[i] # word
  PROVE  C!ExtractAttribute(s, word) = [attr |-> << >>, rest |-> s]
<1>1. C!Find(s, word, 1) = 0
  BY FindNone
<1>. QED
  BY <1>1 DEF C!ExtractAttribute, C!Absent

(* Arithmetic of positions, kept apart from sequences for the provers.       *)
LEMMA Between == \A n \in Nat :
  /\ \A i \in 1..((n + 2) - 1) : i \in 1..n \/ i = n + 1
  /\ \A i \in (n + 2)..(n + 3) : i = n + 2 \/ i = n + 3
  /\ \A i \in (n + 2)..((n + 4) - 1) : i = n + 2 \/ i = n + 3
  /\ n + 2 \in Nat /\ n + 2 >= 1 /\ n + 2 > 0 /\ n + 4 \in Nat /\ n + 4 >= n + 2
  /\ n + 2 # 0 /\ n + 4 # 0 /\ n + 2 > 1 /\ (n + 2) - 1 = n + 1 /\ (n + 2) + 1 = n + 3 /\ (n + 2) - 2 = n
  /\ (n + 3) + 1 = n + 4 /\ (n + 4) - 1 = n + 3
  OBVIOUS

(* More of it.                                                               *)
LEMMA AtLeast == \A l, n \in Nat : l >= n + 3 => n + 2 <= l /\ (l = n + 3 \/ l > n + 3)
  OBVIOUS

ParAt(s, n, word, v) ==
    /\ word # ";" /\ v # ";" /\ Len(s) >= n + 3
    /\ s[n + 1] = ";" /\ s[n + 2] = word /\ s[n + 3] = v
    /\ \A i \in 1..n : s[i] # word
    /\ Len(s) > n + 3 => s[n + 4] = ";"

(* Find returns the place of the parameter's word.                           *)
LEMMA OraFound ==
  ASSUME NEW s \in Seq(Symbol), NEW n \in Nat, NEW word, NEW v, ParAt(s, n, word, v)
  PROVE  C!Find(s, word, 1) = n + 2
<1>1. \A i \in 1..((n + 2) - 1) : s[i] # word
  <2>1. s[n + 1] # word /\ \A i \in 1..n : s[i] # word
    BY DEF ParAt
  <2>. QED
    BY <2>1, Between
<1>2. n + 2 \in Nat /\ n + 2 >= 1 /\ 1 \in Nat /\ 1 > 0
  BY Between
<1>3. s[n + 2] = word
  BY DEF ParAt
<1>4. n + 2 <= Len(s)
  <2>1. Len(s) >= n + 3
    BY DEF ParAt
  <2>2. Len(s) \in Nat
    OBVIOUS
  <2>. QED
    BY <2>1, <2>2, AtLeast
<1>. QED
  BY <1>1, <1>2, <1>3, <1>4, FindIs

(* The parameter ends before the next semicolon or with the text.            *)
LEMMA OraEnd ==
  ASSUME NEW s \in Seq(Symbol), NEW n \in Nat, NEW word, NEW v, ParAt(s, n, word, v)
  PROVE  (IF C!Find(s, ";", n + 2) = 0 THEN Len(s) ELSE C!Find(s, ";", n + 2) - 1) = n + 3
<1>0. s[n + 2] # ";" /\ s[n + 3] # ";"
  BY DEF ParAt
<1>1. CASE Len(s) = n + 3
  <2>1. \A i \in (n + 2)..Len(s) : s[i] # ";"
    BY <1>0, <1>1, Between
  <2>2. C!Find(s, ";", n + 2) = 0
    BY <2>1, FindNone
  <2>. QED
    BY <1>1, <2>2
<1>2. CASE Len(s) > n + 3
  <2>1. \A i \in (n + 2)..((n + 4) - 1) : s[i] # ";"
    BY <1>0, Between
  <2>2. n + 4 <= Len(s)
    BY <1>2
  <2>3. s[n + 4] = ";"
    BY <1>2 DEF ParAt
  <2>4. n + 2 \in Nat /\ n + 2 > 0 /\ n + 4 \in Nat /\ n + 4 >= n + 2
    BY Between
  <2>5. C!Find(s, ";", n + 2) = n + 4
    BY <2>1, <2>2, <2>3, <2>4, FindIs
  <2>6. n + 4 # 0 /\ (n + 4) - 1 = n + 3
    BY Between
  <2>. QED
    BY <2>5, <2>6
<1>3. Len(s) = n + 3 \/ Len(s) > n + 3
  <2>1. Len(s) >= n + 3
    BY DEF ParAt
  <2>2. Len(s) \in Nat
    OBVIOUS
  <2>. QED
    BY <2>1, <2>2, AtLeast
<1>. QED
  BY <1>1, <1>2, <1>3

(* extractAttribute returns the value and what is before and behind it.      *)
LEMMA OraCut ==
  ASSUME NEW s \in Seq(Symbol), NEW n \in Nat, NEW word, NEW v, ParAt(s, n, word, v)
  PROVE  C!ExtractAttribute(s, word)
           = [attr |-> SubSeq(s, n + 3, n + 3), rest |-> SubSeq(s, 1, n) \o SubSeq(s, n + 4, Len(s))]
<1>1. C!Find(s, word, 1) = n + 2
  BY OraFound
<1> DEFINE last == IF C!Find(s, ";", n + 2) = 0 THEN Len(s) ELSE C!Find(s, ";", n + 2) - 1
<1>2. last = n + 3
  BY OraEnd
<1>3. C!ExtractAttribute(s, word)
        = IF n + 2 = 0 \/ (n + 2 > 1 /\ s[(n + 2) - 1] # ";") THEN [attr |-> << >>, rest |-> s]
          ELSE [attr |-> SubSeq(s, (n + 2) + 1, last),
                rest |-> SubSeq(s, 1, (n + 2) - (IF n + 2 > 1 THEN 2 ELSE 1)) \o SubSeq(s, last + 1, Len(s))]
  BY <1>1, Zenon DEF C!ExtractAttribute, C!Absent
<1> HIDE DEF last
<1>4. n + 2 # 0 /\ n + 2 > 1 /\ (n + 2) - 1 = n + 1 /\ (n + 2) + 1 = n + 3 /\ (n + 2) - 2 = n /\ (n + 3) + 1 = n + 4
  BY Between
<1>5. s[n + 1] = ";"
  BY DEF ParAt
<1>6. (IF n + 2 > 1 THEN 2 ELSE 1) = 2
  BY <1>4, Zenon
<1>7. C!ExtractAttribute(s, word)
         = [attr |-> SubSeq(s, (n + 2) + 1, last), rest |-> SubSeq(s, 1, (n + 2) - 2) \o SubSeq(s, last + 1, Len(s))]
  BY <1>3, <1>4, <1>5, <1>6, Zenon
<1>. QED
  BY <1>2, <1>4, <1>7, Zenon

(* A text with a parameter added.                                            *)
Par(s, word, v) == (s \o <<";", word>>) \o <<v>>

(* The entries of a text with one more symbol.                               *)
LEMMA OneMore ==
  ASSUME NEW s \in Seq(Symbol), NEW a \in Symbol
  PROVE  /\ Append(s, a) \in Seq(Symbol) /\ Len(Append(s, a)) = Len(s) + 1
         /\ \A i \in 1..Len(s) : Append(s, a)[i] = s[i]
         /\ Append(s, a)[Len(s) + 1] = a
  OBVIOUS

ParEntries(r, s, n, word, v) ==
    /\ Len(r) = n + 3
    /\ \A i \in 1..n : r[i] = s[i]
    /\ r[n + 1] = ";" /\ r[n + 2] = word /\ r[n + 3] = v

(* The entries of a text with a parameter added.                             *)
LEMMA ParHas ==
  ASSUME NEW s \in Seq(Symbol), NEW word \in Symbol, NEW v \in Symbol, NEW n \in Nat, n = Len(s)
  PROVE  Par(s, word, v) \in Seq(Symbol) /\ ParEntries(Par(s, word, v), s, n, word, v)
<1>1. PICK c \in Symbol : c = ";"
  BY Symbols
<1>2. PICK t : t = Append(s, c)
  OBVIOUS
<1>3. t \in Seq(Symbol) /\ Len(t) = n + 1 /\ (\A i \in 1..n : t[i] = s[i]) /\ t[n + 1] = c
  BY <1>2, OneMore
<1>4. PICK u : u = Append(t, word)
  OBVIOUS
<1>5. u \in Seq(Symbol) /\ Len(u) = n + 2 /\ (\A i \in 1..n : u[i] = s[i]) /\ u[n + 1] = c /\ u[n + 2] = word
  <2>1. u \in Seq(Symbol) /\ Len(u) = Len(t) + 1 /\ (\A i \in 1..Len(t) : u[i] = t[i]) /\ u[Len(t) + 1] = word
    BY <1>3, <1>4, OneMore
  <2>. QED
    BY <1>3, <2>1
<1>6. PICK w : w = Append(u, v)
  OBVIOUS
<1>7. w \in Seq(Symbol) /\ Len(w) = n + 3 /\ (\A i \in 1..n : w[i] = s[i]) /\ w[n + 1] = c /\ w[n + 2] = word /\ w[n + 3] = v
  <2>1. w \in Seq(Symbol) /\ Len(w) = Len(u) + 1 /\ (\A i \in 1..Len(u) : w[i] = u[i]) /\ w[Len(u) + 1] = v
    BY <1>5, <1>6, OneMore
  <2>. QED
    BY <1>5, <2>1
<1>8. Par(s, word, v) = w
  <2>1. s \o <<c, word>> = u
    <3>1. s \o <<c, word>> = Append(Append(s, c), word)
      OBVIOUS
    <3>. QED
      BY <1>2, <1>4, <3>1
  <2>2. u \o <<v>> = Append(u, v)
    BY <1>5
  <2>. QED
    BY <1>1, <1>6, <2>1, <2>2 DEF Par
<1>9. w \in Seq(Symbol) /\ ParEntries(w, s, n, word, v)
  BY <1>1, <1>7, Zenon DEF ParEntries
<1>. QED
  BY <1>8, <1>9

(* Sequences with the same entries are the same.                             *)
LEMMA SameSequence ==
  ASSUME NEW S, NEW s \in Seq(S), NEW r \in Seq(S), NEW n \in Nat, Len(s) = n, Len(r) = n, \A i \in 1..n : s[i] = r[i]
  PROVE  s = r
  OBVIOUS

(* The entries of a part of a text.                                          *)
LEMMA SubSeqIs ==
  ASSUME NEW s \in Seq(Symbol), NEW m \in Nat, NEW k \in Nat, m >= 1, k <= Len(s), m <= k + 1
  PROVE  /\ SubSeq(s, m, k) \in Seq(Symbol) /\ Len(SubSeq(s, m, k)) = (k + 1) - m
         /\ \A i \in 1..((k + 1) - m) : SubSeq(s, m, k)[i] = s[m + i - 1]
  OBVIOUS

(* The first n symbols of a text.                                            *)
LEMMA FirstOnes ==
  ASSUME NEW s \in Seq(Symbol), NEW n \in Nat, Len(s) = n, NEW r \in Seq(Symbol), n <= Len(r), \A i \in 1..n : r[i] = s[i]
  PROVE  SubSeq(r, 1, n) = s
<1>1. 1 \in Nat /\ 1 >= 1 /\ 1 <= n + 1 /\ (n + 1) - 1 = n /\ \A i \in 1..n : 1 + i - 1 = i
  OBVIOUS
<1>2. SubSeq(r, 1, n) \in Seq(Symbol) /\ Len(SubSeq(r, 1, n)) = (n + 1) - 1 /\ \A i \in 1..((n + 1) - 1) : SubSeq(r, 1, n)[i] = r[1 + i - 1]
  BY <1>1, SubSeqIs
<1>3. \A i \in 1..n : SubSeq(r, 1, n)[i] = s[i]
  BY <1>1, <1>2
<1>. QED
  BY <1>1, <1>2, <1>3, SameSequence

(* The entries of one symbol.                                                *)
LEMMA SingleIs ==
  ASSUME NEW a \in Symbol
  PROVE  <<a>> \in Seq(Symbol) /\ Len(<<a>>) = 1 /\ <<a>>[1] = a
  OBVIOUS

(* Arithmetic of one position.                                               *)
LEMMA OneArith == \A n \in Nat : n <= n + 1 /\ (n + 1) - n = 1 /\ n + 1 - 1 = n
  OBVIOUS

(* A part of one symbol.                                                     *)
LEMMA OneOf ==
  ASSUME NEW r \in Seq(Symbol), NEW n \in Nat, n >= 1, n <= Len(r)
  PROVE  SubSeq(r, n, n) = <<r[n]>>
<1>1. SubSeq(r, n, n) \in Seq(Symbol) /\ Len(SubSeq(r, n, n)) = (n + 1) - n /\ \A i \in 1..((n + 1) - n) : SubSeq(r, n, n)[i] = r[n + i - 1]
  BY OneArith, SubSeqIs
<1>2. (n + 1) - n = 1 /\ n + 1 - 1 = n
  BY OneArith
<1>3. r[n] \in Symbol
  OBVIOUS
<1>4. PICK a \in Symbol : a = r[n]
  BY <1>3
<1>5. PICK q : q = SubSeq(r, n, n)
  OBVIOUS
<1>6. q \in Seq(Symbol) /\ Len(q) = 1 /\ q[1] = a
  BY <1>1, <1>2, <1>4, <1>5
<1>7. q = <<a>>
  BY <1>6, SingleIs, SameSequence
<1>. QED
  BY <1>4, <1>5, <1>7

(* Nothing is behind the end.                                                *)
LEMMA NoneBehind ==
  ASSUME NEW r \in Seq(Symbol), NEW s \in Seq(Symbol), NEW n \in Nat, n = Len(r)
  PROVE  s \o SubSeq(r, n + 1, Len(r)) = s
  OBVIOUS

Without(s, n, word, v) == n = Len(s) /\ word # ";" /\ v # ";" /\ \A i \in 1..n : s[i] # word

(* Arithmetic of one parameter.                                              *)
LEMMA ParArith == \A n \in Nat :
  /\ n + 3 >= n + 3 /\ ~ (n + 3 > n + 3) /\ n + 3 \in Nat /\ n + 3 >= 1 /\ n <= n + 3 /\ (n + 3) + 1 = n + 4 /\ n + 3 <= n + 3
  OBVIOUS

(* A parameter at the end of the text is extracted and the rest is the text  *)
(* it was added to.                                                          *)
LEMMA OraLast ==
  ASSUME NEW s \in Seq(Symbol), NEW n \in Nat, NEW word \in Symbol, NEW v \in Symbol, Without(s, n, word, v)
  PROVE  C!ExtractAttribute(Par(s, word, v), word) = [attr |-> <<v>>, rest |-> s]
<1>1. PICK r : r = Par(s, word, v)
  OBVIOUS
<1>0. n = Len(s)
  BY DEF Without
<1>2. r \in Seq(Symbol) /\ ParEntries(r, s, n, word, v)
  BY <1>0, <1>1, ParHas
<1>3. ParAt(r, n, word, v)
  <2>1. n + 3 >= n + 3 /\ ~ (n + 3 > n + 3)
    BY ParArith
  <2>2. \A i \in 1..n : r[i] # word
    BY <1>2 DEF ParEntries, Without
  <2>. QED
    BY <1>2, <2>1, <2>2, Zenon DEF ParAt, ParEntries, Without
<1>4. C!ExtractAttribute(r, word)
        = [attr |-> SubSeq(r, n + 3, n + 3), rest |-> SubSeq(r, 1, n) \o SubSeq(r, n + 4, Len(r))]
  BY <1>2, <1>3, OraCut
<1>5. n + 3 \in Nat /\ n + 3 >= 1 /\ n <= n + 3 /\ (n + 3) + 1 = n + 4 /\ n + 3 <= n + 3
  BY ParArith
<1>l. Len(r) = n + 3 /\ r[n + 3] = v /\ \A i \in 1..n : r[i] = s[i]
  BY <1>2, Zenon DEF ParEntries
<1>6. SubSeq(r, n + 3, n + 3) = <<v>>
  <2>1. SubSeq(r, n + 3, n + 3) = <<r[n + 3]>>
    <3>1. n + 3 <= Len(r)
      BY <1>5, <1>l, Zenon
    <3>. QED
      BY <1>2, <1>5, <3>1, OneOf
  <2>. QED
    BY <1>l, <2>1, Zenon
<1>7. SubSeq(r, 1, n) = s
  <2>1. n <= Len(r)
    BY <1>l, <1>5, Zenon
  <2>. QED
    BY <1>0, <1>2, <1>l, <2>1, FirstOnes
<1>8. s \o SubSeq(r, n + 4, Len(r)) = s
  <2>0. PICK m \in Nat : m = n + 3
    BY <1>5
  <2>1. s \o SubSeq(r, m + 1, Len(r)) = s
    BY <1>2, <1>l, <2>0, NoneBehind
  <2>. QED
    BY <1>5, <2>0, <2>1, Zenon
<1>. QED
  BY <1>1, <1>4, <1>6, <1>7, <1>8, Zenon

(* Arithmetic of two parameters.                                             *)
LEMMA TwoParArith == \A n, m \in Nat : m = n + 3 =>
  /\ \A i \in 1..n : i \in 1..m
  /\ n + 1 \in 1..m /\ n + 2 \in 1..m /\ n + 3 \in 1..m /\ m + 1 = n + 4 /\ m + 2 = n + 5 /\ m + 3 = n + 6
  /\ n + 6 \in Nat /\ n + 6 >= n + 3 /\ n + 6 > n + 3
  OBVIOUS

(* Arithmetic of the second one.                                             *)
LEMMA TailArith == \A n \in Nat :
  /\ n + 3 \in Nat /\ n + 3 >= 1 /\ n + 3 <= n + 6 /\ n <= n + 6 /\ n + 6 >= n + 3
  /\ n + 4 \in Nat /\ n + 6 \in Nat /\ n + 4 >= 1 /\ n + 6 <= n + 6 /\ n + 4 <= (n + 6) + 1 /\ ((n + 6) + 1) - (n + 4) = 3
  /\ (n + 4) + 1 - 1 = n + 4 /\ (n + 4) + 2 - 1 = n + 5 /\ (n + 4) + 3 - 1 = n + 6 /\ 1 \in 1..3 /\ 2 \in 1..3 /\ 3 \in 1..3
  OBVIOUS

TwoEntries(r, s, n, word, v, other, w) ==
    /\ Len(r) = n + 6
    /\ \A i \in 1..n : r[i] = s[i]
    /\ r[n + 1] = ";" /\ r[n + 2] = word /\ r[n + 3] = v
    /\ r[n + 4] = ";" /\ r[n + 5] = other /\ r[n + 6] = w

(* Both parameters by their entries.                                         *)
LEMMA TwoHas ==
  ASSUME NEW r, NEW q, NEW s, NEW n \in Nat, NEW m \in Nat, m = n + 3, NEW word, NEW v, NEW other, NEW w,
         ParEntries(q, s, n, word, v), ParEntries(r, q, m, other, w)
  PROVE  TwoEntries(r, s, n, word, v, other, w)
<1>1. /\ \A i \in 1..n : i \in 1..m
      /\ n + 1 \in 1..m /\ n + 2 \in 1..m /\ n + 3 \in 1..m /\ m + 1 = n + 4 /\ m + 2 = n + 5 /\ m + 3 = n + 6
  BY TwoParArith
<1>2. /\ \A i \in 1..m : r[i] = q[i]
      /\ r[m + 1] = ";" /\ r[m + 2] = other /\ r[m + 3] = w /\ Len(r) = m + 3
  BY Zenon DEF ParEntries
<1>3. /\ \A i \in 1..n : q[i] = s[i]
      /\ q[n + 1] = ";" /\ q[n + 2] = word /\ q[n + 3] = v
  BY Zenon DEF ParEntries
<1>4. \A i \in 1..n : r[i] = s[i]
  BY <1>1, <1>2, <1>3, Zenon
<1>5. r[n + 1] = ";" /\ r[n + 2] = word /\ r[n + 3] = v
  BY <1>1, <1>2, <1>3, Zenon
<1>6. r[n + 4] = ";" /\ r[n + 5] = other /\ r[n + 6] = w /\ Len(r) = n + 6
  BY <1>1, <1>2, Zenon
<1>. QED
  BY <1>4, <1>5, <1>6, Zenon DEF TwoEntries

(* A parameter by its entries.                                               *)
Three(e, other, w) == e \in Seq(Symbol) /\ Len(e) = 3 /\ e[1] = ";" /\ e[2] = other /\ e[3] = w

(* The text behind the first parameter is the second one.                    *)
LEMMA TailIs ==
  ASSUME NEW r \in Seq(Symbol), NEW s, NEW n \in Nat, NEW word, NEW v, NEW other, NEW w,
         TwoEntries(r, s, n, word, v, other, w)
  PROVE  Three(SubSeq(r, n + 4, n + 6), other, w)
<1>1. PICK e : e = SubSeq(r, n + 4, n + 6)
  OBVIOUS
<1>2. r[n + 4] = ";" /\ r[n + 5] = other /\ r[n + 6] = w /\ Len(r) = n + 6
  BY Zenon DEF TwoEntries
<1>3. n + 4 \in Nat /\ n + 6 \in Nat /\ n + 4 >= 1 /\ n + 6 <= n + 6 /\ n + 4 <= (n + 6) + 1 /\ ((n + 6) + 1) - (n + 4) = 3
      /\ (n + 4) + 1 - 1 = n + 4 /\ (n + 4) + 2 - 1 = n + 5 /\ (n + 4) + 3 - 1 = n + 6 /\ 1 \in 1..3 /\ 2 \in 1..3 /\ 3 \in 1..3
  BY TailArith
<1>4. n + 6 <= Len(r)
  BY <1>2, <1>3, Zenon
<1>5. /\ e \in Seq(Symbol) /\ Len(e) = ((n + 6) + 1) - (n + 4)
      /\ \A i \in 1..(((n + 6) + 1) - (n + 4)) : e[i] = r[(n + 4) + i - 1]
  BY <1>1, <1>3, <1>4, SubSeqIs
<1>6. e[1] = r[(n + 4) + 1 - 1] /\ e[2] = r[(n + 4) + 2 - 1] /\ e[3] = r[(n + 4) + 3 - 1]
  BY <1>3, <1>5, Zenon
<1>7. e[1] = r[n + 4] /\ e[2] = r[n + 5] /\ e[3] = r[n + 6]
  BY <1>3, <1>6, Zenon
<1>8. e \in Seq(Symbol) /\ Len(e) = 3 /\ e[1] = ";" /\ e[2] = other /\ e[3] = w
  BY <1>2, <1>3, <1>5, <1>7, Zenon
<1>. QED
  BY <1>1, <1>8, Zenon DEF Three

(* The entries of two texts put together.                                    *)
LEMMA ConcatHas ==
  ASSUME NEW s \in Seq(Symbol), NEW e \in Seq(Symbol)
  PROVE  /\ (s \o e) \in Seq(Symbol) /\ Len(s \o e) = Len(s) + Len(e)
         /\ \A i \in 1..Len(s) : (s \o e)[i] = s[i]
         /\ \A i \in 1..Len(e) : (s \o e)[Len(s) + i] = e[i]
  OBVIOUS

(* Arithmetic of three more symbols.                                         *)
LEMMA AddedArith == \A n \in Nat :
  /\ \A i \in 1..(n + 3) : i \in 1..n \/ i = n + 1 \/ i = n + 2 \/ i = n + 3
  /\ 1 \in 1..3 /\ 2 \in 1..3 /\ 3 \in 1..3 /\ n + 3 \in Nat
  OBVIOUS

(* A parameter put behind a text.                                            *)
LEMMA Added ==
  ASSUME NEW s \in Seq(Symbol), NEW e, NEW other \in Symbol, NEW w \in Symbol, Three(e, other, w)
  PROVE  s \o e = Par(s, other, w)
<1>0. PICK n \in Nat : n = Len(s)
  OBVIOUS
<1>1. PICK p : p = Par(s, other, w)
  OBVIOUS
<1>2. p \in Seq(Symbol) /\ ParEntries(p, s, n, other, w)
  BY <1>0, <1>1, ParHas
<1>3. e \in Seq(Symbol) /\ Len(e) = 3 /\ e[1] = ";" /\ e[2] = other /\ e[3] = w
  BY Zenon DEF Three
<1>4. /\ Len(p) = n + 3 /\ \A i \in 1..n : p[i] = s[i]
      /\ p[n + 1] = ";" /\ p[n + 2] = other /\ p[n + 3] = w
  BY <1>2, Zenon DEF ParEntries
<1>5. PICK c : c = s \o e
  OBVIOUS
<1>6. /\ c \in Seq(Symbol) /\ Len(c) = Len(s) + Len(e)
      /\ \A i \in 1..Len(s) : c[i] = s[i]
      /\ \A i \in 1..Len(e) : c[Len(s) + i] = e[i]
  BY <1>3, <1>5, ConcatHas
<1>7. Len(c) = n + 3 /\ (\A i \in 1..n : c[i] = s[i]) /\ \A i \in 1..3 : c[n + i] = e[i]
  BY <1>0, <1>3, <1>6, Zenon
<1>8. c[n + 1] = e[1] /\ c[n + 2] = e[2] /\ c[n + 3] = e[3]
  BY <1>7, AddedArith, Zenon
<1>9. \A i \in 1..(n + 3) : c[i] = p[i]
  BY <1>3, <1>4, <1>7, <1>8, AddedArith, Zenon
<1>10. n + 3 \in Nat
  BY AddedArith
<1>11. c = p
  BY <1>2, <1>4, <1>6, <1>7, <1>9, <1>10, SameSequence
<1>. QED
  BY <1>1, <1>5, <1>11

(* A parameter that another one follows is extracted, and the rest is the    *)
(* text with the other one.                                                  *)
LEMMA OraFirst ==
  ASSUME NEW s \in Seq(Symbol), NEW n \in Nat, NEW word \in Symbol, NEW v \in Symbol, Without(s, n, word, v),
         NEW other \in Symbol, NEW w \in Symbol
  PROVE  C!ExtractAttribute(Par(Par(s, word, v), other, w), word) = [attr |-> <<v>>, rest |-> Par(s, other, w)]
<1>0. n = Len(s)
  BY DEF Without
<1>1. PICK q : q = Par(s, word, v)
  OBVIOUS
<1>2. q \in Seq(Symbol) /\ ParEntries(q, s, n, word, v)
  BY <1>0, <1>1, ParHas
<1>3. PICK r : r = Par(q, other, w)
  OBVIOUS
<1>4. PICK m \in Nat : m = n + 3
  OBVIOUS
<1>5. r \in Seq(Symbol) /\ ParEntries(r, q, m, other, w)
  <2>1. m = Len(q)
    BY <1>2, <1>4, Zenon DEF ParEntries
  <2>. QED
    BY <1>2, <1>3, <2>1, ParHas
<1>7. TwoEntries(r, s, n, word, v, other, w)
  BY <1>2, <1>4, <1>5, TwoHas
<1>8. ParAt(r, n, word, v)
  <2>0. Len(r) = n + 6 /\ (\A i \in 1..n : r[i] = s[i]) /\ r[n + 4] = ";"
        /\ r[n + 1] = ";" /\ r[n + 2] = word /\ r[n + 3] = v
    BY <1>7, Zenon DEF TwoEntries
  <2>1. \A i \in 1..n : r[i] # word
    BY <2>0, Zenon DEF Without
  <2>2. Len(r) >= n + 3
    BY <2>0, TailArith, Zenon
  <2>. QED
    BY <2>0, <2>1, <2>2, Zenon DEF ParAt, Without
<1>9. C!ExtractAttribute(r, word)
        = [attr |-> SubSeq(r, n + 3, n + 3), rest |-> SubSeq(r, 1, n) \o SubSeq(r, n + 4, Len(r))]
  BY <1>5, <1>8, OraCut
<1>l. Len(r) = n + 6 /\ r[n + 3] = v /\ (\A i \in 1..n : r[i] = s[i]) /\ n + 3 <= n + 6 /\ n <= n + 6 /\ n + 3 \in Nat /\ n + 3 >= 1
  BY <1>7, TailArith, Zenon DEF TwoEntries
<1>10. SubSeq(r, n + 3, n + 3) = <<v>>
  <2>1. n + 3 \in Nat /\ n + 3 >= 1 /\ n + 3 <= Len(r)
    BY <1>l, Zenon
  <2>2. SubSeq(r, n + 3, n + 3) = <<r[n + 3]>>
    BY <1>5, <2>1, OneOf
  <2>. QED
    BY <1>l, <2>2, Zenon
<1>11. SubSeq(r, 1, n) = s
  <2>1. n <= Len(r)
    BY <1>l, Zenon
  <2>. QED
    BY <1>0, <1>5, <1>l, <2>1, FirstOnes
<1>12. PICK e : e = SubSeq(r, n + 4, n + 6)
  OBVIOUS
<1>13. Three(e, other, w)
  BY <1>5, <1>7, <1>12, TailIs
<1>14. s \o e = Par(s, other, w)
  BY <1>13, Added
<1>15. SubSeq(r, n + 4, Len(r)) = e
  BY <1>l, <1>12, Zenon
<1>. QED
  BY <1>1, <1>3, <1>9, <1>10, <1>11, <1>14, <1>15, Zenon

-------------------------------------------------------------------------------
(* What is meant by an oracle url, and the texts it is written in.           *)

(* The database, user and password that are meant.                           *)
OraIs(m, d, u, p) ==
  m = [word \in {"db", "user=", "passwd="} |-> IF word = "db" THEN <<d>> ELSE IF word = "user=" THEN u ELSE p]

(* The values that are written.                                              *)
OraValues == {"x", "y"}

OraText(s, d, u, p) ==
    \/ u = << >> /\ p = << >> /\ s = <<d>>
    \/ \E v \in OraValues : u = <<v>> /\ p = << >> /\ s = Par(<<d>>, "user=", v)
    \/ \E w \in OraValues : u = << >> /\ p = <<w>> /\ s = Par(<<d>>, "passwd=", w)
    \/ \E v, w \in OraValues : u = <<v>> /\ p = <<w>> /\ s = Par(Par(<<d>>, "user=", v), "passwd=", w)
    \/ \E v, w \in OraValues : u = <<v>> /\ p = <<w>> /\ s = Par(Par(<<d>>, "passwd=", w), "user=", v)

(* The part of the inductive invariant for the oracle url: the text is one   *)
(* that the database, the user and the password are written in, in either    *)
(* order.                                                                    *)
OraInv ==
  subject = "oracle" =>
     \/ meant = None /\ text = << >>
     \/ \E d \in OraValues : \E u, p : OraIs(meant, d, u, p) /\ OraText(text, d, u, p)

(* The entries of what is meant.                                             *)
LEMMA OraHas ==
  ASSUME NEW m, NEW d, NEW u, NEW p, OraIs(m, d, u, p)
  PROVE  m # None /\ m["db"] = <<d>> /\ m["user="] = u /\ m["passwd="] = p
<1>1. DOMAIN m = {"db", "user=", "passwd="}
  BY DEF OraIs
<1>2. DOMAIN None = {}
  BY DEF None
<1>3. m["db"] = <<d>> /\ m["user="] = u /\ m["passwd="] = p
  BY DEF OraIs
<1>. QED
  BY <1>1, <1>2, <1>3

(* The words differ from each other and from the values.                     *)
LEMMA OraWords ==
  /\ "user=" \in Symbol /\ "passwd=" \in Symbol /\ OraValues \subseteq Symbol
  /\ "user=" # ";" /\ "passwd=" # ";" /\ "user=" # "passwd=" /\ \A d \in OraValues : d # ";" /\ d # "user=" /\ d # "passwd="
  BY DEF OraValues, Symbol

(* The user, the password and the database that are extracted from s.        *)
Attributes(s, u, p, d) ==
  \E r : /\ C!ExtractAttribute(s, "user=") = [attr |-> u, rest |-> r]
         /\ C!ExtractAttribute(r, "passwd=") = [attr |-> p, rest |-> <<d>>]

(* A database's name holds neither word.                                     *)
LEMMA OraName ==
  ASSUME NEW d \in OraValues
  PROVE  /\ <<d>> \in Seq(Symbol) /\ Without(<<d>>, 1, "user=", "x") /\ Without(<<d>>, 1, "user=", "y")
         /\ Without(<<d>>, 1, "passwd=", "x") /\ Without(<<d>>, 1, "passwd=", "y")
  BY OraWords DEF Without, OraValues

(* The same, by positions.                                                   *)
LEMMA OraNone ==
  ASSUME NEW d, NEW word, d # word PROVE \A i \in 1..Len(<<d>>) : <<d>>[i] # word
<1>1. \A i \in 1..Len(<<d>>) : i = 1
  OBVIOUS
<1>2. <<d>>[1] = d
  OBVIOUS
<1>. QED
  BY <1>1, <1>2, Zenon

(* No parameter is written.                                                  *)
LEMMA OraNeither ==
  ASSUME NEW d \in OraValues PROVE Attributes(<<d>>, << >>, << >>, d)
<1>1. \A i \in 1..Len(<<d>>) : <<d>>[i] # "user="
  BY OraWords, OraNone, Zenon
<1>2. \A i \in 1..Len(<<d>>) : <<d>>[i] # "passwd="
  BY OraWords, OraNone, Zenon
<1>3. C!ExtractAttribute(<<d>>, "user=") = [attr |-> << >>, rest |-> <<d>>]
  BY <1>1, OraAbsent
<1>4. C!ExtractAttribute(<<d>>, "passwd=") = [attr |-> << >>, rest |-> <<d>>]
  BY <1>2, OraAbsent
<1>. QED
  BY <1>3, <1>4, Zenon DEF Attributes

(* One parameter is written.                                                 *)
LEMMA OraOne ==
  ASSUME NEW d \in OraValues, NEW word \in {"user=", "passwd="}, NEW v \in OraValues
  PROVE  C!ExtractAttribute(Par(<<d>>, word, v), word) = [attr |-> <<v>>, rest |-> <<d>>]
<1>1. <<d>> \in Seq(Symbol) /\ Without(<<d>>, 1, word, v)
  BY OraName DEF OraValues
<1>2. word \in Symbol /\ v \in Symbol /\ 1 \in Nat
  BY OraWords
<1>. QED
  BY <1>1, <1>2, OraLast

(* The password alone holds no user.                                         *)
LEMMA OraNot ==
  ASSUME NEW d \in OraValues, NEW w \in OraValues
  PROVE  /\ Par(<<d>>, "passwd=", w) \in Seq(Symbol) /\ Len(Par(<<d>>, "passwd=", w)) = 4
         /\ \A i \in 1..4 : Par(<<d>>, "passwd=", w)[i] # "user="
<1>1. <<d>> \in Seq(Symbol) /\ "passwd=" \in Symbol /\ w \in Symbol /\ 1 \in Nat /\ 1 = Len(<<d>>) /\ d # "user=" /\ w # "user=" /\ <<d>>[1] = d
  BY OraName, OraWords
<1>2. PICK s : s = <<d>>
  OBVIOUS
<1>3. PICK r : r = Par(s, "passwd=", w)
  OBVIOUS
<1>4. r \in Seq(Symbol) /\ ParEntries(r, s, 1, "passwd=", w)
  BY <1>1, <1>2, <1>3, ParHas
<1>5. Len(r) = 1 + 3 /\ (\A i \in 1..1 : r[i] = s[i]) /\ r[1 + 1] = ";" /\ r[1 + 2] = "passwd=" /\ r[1 + 3] = w
  BY <1>4, Zenon DEF ParEntries
<1>6. 1 + 1 = 2 /\ 1 + 2 = 3 /\ 1 + 3 = 4 /\ 1 \in 1..1 /\ \A i \in 1..4 : i = 1 \/ i = 2 \/ i = 3 \/ i = 4
  OBVIOUS
<1>7. Len(r) = 4 /\ r[1] = d /\ r[2] = ";" /\ r[3] = "passwd=" /\ r[4] = w
  BY <1>1, <1>2, <1>5, <1>6, Zenon
<1>8. \A i \in 1..4 : r[i] # "user="
  BY <1>1, <1>6, <1>7, OraWords, Zenon
<1>. QED
  BY <1>2, <1>3, <1>4, <1>7, <1>8, Zenon

(* Whatever is written, and in either order, the attributes are those meant. *)
LEMMA OraAttributes ==
  ASSUME NEW d \in OraValues, NEW u, NEW p, NEW s, OraText(s, d, u, p)
  PROVE  Attributes(s, u, p, d)
<1>1. CASE u = << >> /\ p = << >> /\ s = <<d>>
  BY <1>1, OraNeither
<1>2. ASSUME NEW v \in OraValues, u = <<v>>, p = << >>, s = Par(<<d>>, "user=", v)
      PROVE  Attributes(s, u, p, d)
  <2>1. C!ExtractAttribute(s, "user=") = [attr |-> u, rest |-> <<d>>]
    BY <1>2, OraOne
  <2>2. \A i \in 1..Len(<<d>>) : <<d>>[i] # "passwd="
    BY OraWords, OraNone, Zenon
  <2>3. C!ExtractAttribute(<<d>>, "passwd=") = [attr |-> p, rest |-> <<d>>]
    BY <1>2, <2>2, OraAbsent
  <2>. QED
    BY <2>1, <2>3, Zenon DEF Attributes
<1>3. ASSUME NEW w \in OraValues, u = << >>, p = <<w>>, s = Par(<<d>>, "passwd=", w)
      PROVE  Attributes(s, u, p, d)
  <2>1. \A i \in 1..Len(s) : s[i] # "user="
    BY <1>3, OraNot, Zenon
  <2>2. C!ExtractAttribute(s, "user=") = [attr |-> << >>, rest |-> s]
    BY <2>1, OraAbsent
  <2>3. C!ExtractAttribute(s, "passwd=") = [attr |-> p, rest |-> <<d>>]
    BY <1>3, OraOne
  <2>. QED
    BY <1>3, <2>2, <2>3, Zenon DEF Attributes
<1>4. ASSUME NEW v \in OraValues, NEW w \in OraValues, u = <<v>>, p = <<w>>, s = Par(Par(<<d>>, "user=", v), "passwd=", w)
      PROVE  Attributes(s, u, p, d)
  <2>1. <<d>> \in Seq(Symbol) /\ Without(<<d>>, 1, "user=", v)
    BY OraName DEF OraValues
  <2>2. "user=" \in Symbol /\ "passwd=" \in Symbol /\ v \in Symbol /\ w \in Symbol /\ 1 \in Nat
    BY OraWords
  <2>3. C!ExtractAttribute(Par(Par(<<d>>, "user=", v), "passwd=", w), "user=") = [attr |-> <<v>>, rest |-> Par(<<d>>, "passwd=", w)]
    <3>1. PICK t : t = <<d>>
      OBVIOUS
    <3>2. t \in Seq(Symbol) /\ Without(t, 1, "user=", v)
      BY <2>1, <3>1
    <3>3. C!ExtractAttribute(Par(Par(t, "user=", v), "passwd=", w), "user=") = [attr |-> <<v>>, rest |-> Par(t, "passwd=", w)]
      BY <2>2, <3>2, OraFirst
    <3>. QED
      BY <3>1, <3>3, Zenon
  <2>4. C!ExtractAttribute(Par(<<d>>, "passwd=", w), "passwd=") = [attr |-> <<w>>, rest |-> <<d>>]
    BY OraOne
  <2>. QED
    BY <1>4, <2>3, <2>4, Zenon DEF Attributes
<1>5. ASSUME NEW v \in OraValues, NEW w \in OraValues, u = <<v>>, p = <<w>>, s = Par(Par(<<d>>, "passwd=", w), "user=", v)
      PROVE  Attributes(s, u, p, d)
  <2>1. PICK r : r = Par(<<d>>, "passwd=", w)
    OBVIOUS
  <2>2. r \in Seq(Symbol) /\ Len(r) = 4 /\ \A i \in 1..4 : r[i] # "user="
    BY <2>1, OraNot
  <2>3. "user=" \in Symbol /\ v \in Symbol /\ v # ";" /\ 4 \in Nat /\ "user=" # ";"
    BY OraWords
  <2>4. Without(r, 4, "user=", v)
    BY <2>2, <2>3, Zenon DEF Without
  <2>5. C!ExtractAttribute(Par(r, "user=", v), "user=") = [attr |-> <<v>>, rest |-> r]
    BY <2>2, <2>3, <2>4, OraLast
  <2>6. C!ExtractAttribute(r, "passwd=") = [attr |-> <<w>>, rest |-> <<d>>]
    BY <2>1, OraOne
  <2>. QED
    BY <1>5, <2>1, <2>5, <2>6, Zenon DEF Attributes
<1>. QED
  BY <1>1, <1>2, <1>3, <1>4, <1>5, Zenon DEF OraText

(* The part of ConnectionAsMeant for the oracle url.                         *)
OraAsMeant ==
      (subject = "oracle" /\ meant # None) =>
           LET got == C!OraParameters(text, <<"x">>, <<"y">>)
               inUrl == meant["user="] # << >> \/ meant["passwd="] # << >>
           IN /\ got.db = meant["db"]
              /\ got.user = IF inUrl THEN meant["user="] ELSE <<"x">>
              /\ got.passwd = IF inUrl THEN meant["passwd="] ELSE <<"y">>

(* It follows from OraInv.                                                   *)
LEMMA OraHolds == ASSUME OraInv PROVE OraAsMeant
<1> SUFFICES ASSUME subject = "oracle", meant # None PROVE OraAsMeant
  BY DEF OraAsMeant
<1>0. PICK d \in OraValues : \E u, p : OraIs(meant, d, u, p) /\ OraText(text, d, u, p)
  BY Zenon DEF OraInv
<1>1. PICK u, p : OraIs(meant, d, u, p) /\ OraText(text, d, u, p)
  BY <1>0
<1>2. meant["db"] = <<d>> /\ meant["user="] = u /\ meant["passwd="] = p
  BY <1>1, OraHas
<1>a. Attributes(text, u, p, d)
  BY <1>1, OraAttributes
<1>3. PICK r : /\ C!ExtractAttribute(text, "user=") = [attr |-> u, rest |-> r]
               /\ C!ExtractAttribute(r, "passwd=") = [attr |-> p, rest |-> <<d>>]
  BY <1>a, Zenon DEF Attributes
<1>4. C!OraParameters(text, <<"x">>, <<"y">>)
        = [db |-> <<d>>, user |-> IF u # << >> \/ p # << >> THEN u ELSE <<"x">>,
           passwd |-> IF u # << >> \/ p # << >> THEN p ELSE <<"y">>]
  BY <1>3 DEF C!OraParameters
<1>. QED
  BY <1>2, <1>4 DEF OraAsMeant

(* The database is written first.                                            *)
LEMMA OraFirstStep ==
  ASSUME NEW value \in {<<"x">>, <<"y">>}, WriteOra("db", value), meant = None
  PROVE  \E d \in OraValues : \E u, p : OraIs(meant', d, u, p) /\ OraText(text', d, u, p)
<1>1. text' = value /\ meant' = [w \in {"db", "user=", "passwd="} |-> IF w = "db" THEN value ELSE << >>]
  BY DEF WriteOra
<1>2. PICK d \in OraValues : value = <<d>>
  BY DEF OraValues
<1>3. OraIs(meant', d, << >>, << >>)
  BY <1>1, <1>2 DEF OraIs
<1>4. OraText(text', d, << >>, << >>)
  BY <1>1, <1>2 DEF OraText
<1>. QED
  BY <1>3, <1>4

(* Then the user or the password.                                            *)
LEMMA OraSets ==
  ASSUME NEW m, NEW d, NEW u, NEW p, OraIs(m, d, u, p), NEW z
  PROVE  OraIs([m EXCEPT !["user="] = z], d, z, p) /\ OraIs([m EXCEPT !["passwd="] = z], d, u, z)
  BY DEF OraIs

(* A value that is written is not empty.                                     *)
LEMMA OraSame == ASSUME NEW d, NEW v PROVE <<v>> # << >>
  OBVIOUS

(* The text with the user added is one of the texts of OraText.              *)
LEMMA OraUser ==
  ASSUME NEW s, NEW d, NEW p, OraText(s, d, << >>, p), NEW v \in OraValues
  PROVE  OraText(Par(s, "user=", v), d, <<v>>, p)
<1>1. \/ p = << >> /\ s = <<d>>
      \/ \E w \in OraValues : p = <<w>> /\ s = Par(<<d>>, "passwd=", w)
  BY OraSame DEF OraText
<1>. QED
  BY <1>1, Zenon DEF OraText

(* So is the text with the password added.                                   *)
LEMMA OraPassword ==
  ASSUME NEW s, NEW d, NEW u, OraText(s, d, u, << >>), NEW w \in OraValues
  PROVE  OraText(Par(s, "passwd=", w), d, u, <<w>>)
<1>1. \/ u = << >> /\ s = <<d>>
      \/ \E v \in OraValues : u = <<v>> /\ s = Par(<<d>>, "user=", v)
  BY OraSame DEF OraText
<1>. QED
  BY <1>1, Zenon DEF OraText

(* Writing preserves OraInv.                                                 *)
LEMMA OraStep ==
  ASSUME OraInv, NEW word \in {"db", "user=", "passwd="}, NEW value \in {<<"x">>, <<"y">>}, WriteOra(word, value)
  PROVE  OraInv'
<1>1. subject = "oracle" /\ (meant = None => word = "db") /\ (meant # None => word \in {"user=", "passwd="} /\ meant[word] = << >>)
  BY DEF WriteOra
<1>2. CASE meant = None
  BY <1>1, <1>2, OraFirstStep, Zenon DEF OraInv
<1>3. CASE meant # None
  <2>0. PICK d \in OraValues : \E u, p : OraIs(meant, d, u, p) /\ OraText(text, d, u, p)
    BY <1>1, <1>3, Zenon DEF OraInv
  <2>1. PICK u, p : OraIs(meant, d, u, p) /\ OraText(text, d, u, p)
    BY <2>0
  <2>2. PICK v \in OraValues : value = <<v>>
    BY DEF OraValues
  <2>3. word # "db" /\ meant' = [meant EXCEPT ![word] = value] /\ text' = text \o <<";", word>> \o value
    BY <1>1, <1>3 DEF WriteOra
  <2>4. text' = Par(text, word, v)
    BY <2>2, <2>3, Zenon DEF Par
  <2>5. CASE word = "user="
    <3>1. u = << >>
      BY <1>1, <1>3, <2>1, <2>5, OraHas
    <3>2. OraIs(meant', d, <<v>>, p)
      BY <2>1, <2>2, <2>3, <2>5, OraSets
    <3>3. OraText(text', d, <<v>>, p)
      BY <2>1, <2>4, <2>5, <3>1, OraUser
    <3>. QED
      BY <3>2, <3>3, Zenon DEF OraInv
  <2>6. CASE word = "passwd="
    <3>1. p = << >>
      BY <1>1, <1>3, <2>1, <2>6, OraHas
    <3>2. OraIs(meant', d, u, <<v>>)
      BY <2>1, <2>2, <2>3, <2>6, OraSets
    <3>3. OraText(text', d, u, <<v>>)
      BY <2>1, <2>4, <2>6, <3>1, OraPassword
    <3>. QED
      BY <3>2, <3>3, Zenon DEF OraInv
  <2>. QED
    BY <1>1, <1>3, <2>5, <2>6
<1>. QED
  BY <1>2, <1>3

-------------------------------------------------------------------------------
(* The three readers together.                                               *)

(* The inductive invariant: the reader of each url has read what is meant.   *)
TextInv == UrlInv /\ MyInv /\ OraInv

(* Initially nothing is written and nothing is meant.                        *)
LEMMA UrlFirst == ASSUME TextInit PROVE UrlInv
<1> SUFFICES ASSUME subject = "postgresql" PROVE UrlInv
  BY DEF UrlInv
<1>1. text = << >> /\ meant = [items |-> << >>, pieces |-> 0]
  BY DEF TextInit, Nothing
<1>2. UrlAt(<< >>, << >>)
  <2>1. Read("url", << >>) = Begin("url")
    BY ReadFirst
  <2>2. Begin("url") = C!UrlStart
    BY Zenon DEF Begin
  <2>3. << >> \in Seq(Symbol)
    OBVIOUS
  <2>. QED
    BY <2>1, <2>2, <2>3 DEF UrlAt, UrlIn, C!UrlStart
<1>3. H!CharsOf(<< >>) = << >>
  BY DEF H!CharsOf
<1>. QED
  BY <1>1, <1>2, <1>3 DEF UrlInv

(* The meaning of the empty mysql url.                                       *)
LEMMA MyNothing ==
  ASSUME NEW w \in MyValuesOf, NEW m, m = [value |-> w, port |-> 3306, error |-> FALSE, pieces |-> 0]
  PROVE  MyMeaning(m) /\ m.value = w /\ m.port = 3306 /\ ~ m.error
<1>1. m.value = w
  OBVIOUS
<1>2. m.port = 3306 /\ m.pieces = 0
  OBVIOUS
<1>3. m.error = FALSE
  OBVIOUS
<1>4. m.error \in BOOLEAN /\ ~ m.error
  BY <1>3
<1>5. m = [value |-> m.value, port |-> m.port, error |-> m.error, pieces |-> m.pieces]
  BY <1>1, <1>2, <1>3
<1>. QED
  BY <1>1, <1>2, <1>4, <1>5 DEF MyMeaning

(* The automaton starts with the same values.                                *)
LEMMA MyStarts ==
  ASSUME NEW w, w = [f \in C!Fields |-> CASE f = "user" -> << >> [] f = "passwd" -> << >> [] OTHER -> << >>]
  PROVE  C!MyStart(<< >>, << >>) = My("key", << >>, "none", "none", 3306, w) /\ w = [f \in C!Fields |-> << >>]
<1>1. \A f \in C!Fields : (CASE f = "user" -> << >> [] f = "passwd" -> << >> [] OTHER -> << >>) = << >>
  OBVIOUS
<1>2. w = [f \in C!Fields |-> << >>]
  BY <1>1
<1>3. C!MyStart(<< >>, << >>) = My("key", << >>, "none", "none", 3306, w)
  BY DEF C!MyStart, My
<1>. QED
  BY <1>2, <1>3

(* Nothing is written of the mysql url.                                      *)
LEMMA MyFirstText == ASSUME TextInit PROVE MyInv
<1> SUFFICES ASSUME subject = "mysql" PROVE MyMeaning(meant) /\ MyReads(text, meant)
  BY DEF MyInv
<1>2. PICK w : w = [f \in C!Fields |-> CASE f = "user" -> << >> [] f = "passwd" -> << >> [] OTHER -> << >>]
  OBVIOUS
<1>3. C!MyStart(<< >>, << >>) = My("key", << >>, "none", "none", 3306, w) /\ w = [f \in C!Fields |-> << >>]
  BY <1>2, MyStarts
<1>4. w \in MyValuesOf
  BY <1>3 DEF MyValuesOf
<1>5. text = << >> /\ meant = [value |-> w, port |-> 3306, error |-> FALSE, pieces |-> 0]
  BY <1>3 DEF TextInit, Nothing
<1>6. MyMeaning(meant) /\ meant.value = w /\ meant.port = 3306 /\ ~ meant.error
  BY <1>4, <1>5, MyNothing
<1>7. Read("mysql", << >>) = My("key", << >>, "none", "none", 3306, w)
  <2>1. Read("mysql", << >>) = Begin("mysql")
    BY ReadFirst
  <2>2. Begin("mysql") = C!MyStart(<< >>, << >>)
    BY Zenon DEF Begin
  <2>. QED
    BY <1>3, <2>1, <2>2
<1>8. text \in Seq(Symbol) /\ text = << >>
  BY <1>5
<1>9. Read("mysql", text) = My("key", << >>, "none", "none", meant.port, meant.value)
  BY <1>6, <1>7, <1>8
<1>10. MyReads(text, meant)
  BY <1>6, <1>8, <1>9 DEF MyReads
<1>. QED
  BY <1>6, <1>10

(* Nothing is written of the oracle url.                                     *)
LEMMA OraFirstText == ASSUME TextInit PROVE OraInv
  BY DEF TextInit, OraInv, Nothing

(* The other texts do not concern the three readers.                         *)
LEMMA OtherSubject ==
  ASSUME TextInv, subject' = subject, subject \notin {"postgresql", "mysql", "oracle"}
  PROVE  TextInv'
  BY DEF TextInv, UrlInv, MyInv, OraInv

(* A text has one reader.                                                    *)
LEMMA OneSubject ==
  ASSUME TextInv, subject' = subject
  PROVE  /\ (subject = "postgresql" /\ UrlInv') => TextInv'
         /\ (subject = "mysql" /\ MyInv') => TextInv'
         /\ (subject = "oracle" /\ OraInv') => TextInv'
  BY DEF TextInv, UrlInv, MyInv, OraInv

(* Every step preserves the invariant: one step of the proof per action.     *)
LEMMA TextStep == ASSUME TextInv, [TextNext]_textVars PROVE TextInv'
<1>1. ASSUME NEW ch \in DecimalChars, ReadDecimal(ch) PROVE TextInv'
  <2>1. subject' = subject /\ subject = "decimal"
    BY <1>1 DEF ReadDecimal
  <2>. QED
    BY <2>1, OtherSubject
<1>2. ASSUME NEW d \in Dates, NEW style \in {"-", "/", "."}, WriteDate(d, style) PROVE TextInv'
  <2>1. subject' = subject /\ subject = "date"
    BY <1>2 DEF WriteDate
  <2>. QED
    BY <2>1, OtherSubject
<1>3. ASSUME NEW t \in Times, NEW micros \in Fractions, WriteTime(t, micros) PROVE TextInv'
  <2>1. subject' = subject /\ subject = "time"
    BY <1>3 DEF WriteTime
  <2>. QED
    BY <2>1, OtherSubject
<1>4. ASSUME NEW i \in 1..12, NEW ch \in {"-", ":", "1", "."}, Spoil(i, ch) PROVE TextInv'
  <2>1. subject' = subject /\ subject \in {"date", "time"}
    BY <1>4 DEF Spoil
  <2>. QED
    BY <2>1, OtherSubject
<1>5. ASSUME NEW piece, WritePiece(piece) PROVE TextInv'
  <2>1. subject' = subject /\ subject \in {"statement", "builder"}
    BY <1>5 DEF WritePiece
  <2>. QED
    BY <2>1, OtherSubject
<1>6. ASSUME NEW which \in {"mysql", "postgresql", "sqlite", "oracle"}, NEW limit \in LimitNames, NEW offset \in OffsetNames,
             NEW isSelect \in BOOLEAN, NEW replicated \in BOOLEAN, PrepareWithLimit(which, limit, offset, isSelect, replicated)
      PROVE  TextInv'
  <2>1. subject' = subject /\ subject = "limit"
    BY <1>6 DEF PrepareWithLimit
  <2>. QED
    BY <2>1, OtherSubject
<1>7. ASSUME NEW piece \in UrlPieces, WriteUrl(piece) PROVE TextInv'
  <2>1. UrlInv'
    BY <1>7, UrlWritten DEF TextInv
  <2>2. subject' = subject /\ subject = "postgresql"
    BY <1>7 DEF WriteUrl
  <2>. QED
    BY <2>1, <2>2, OneSubject
<1>8. ASSUME NEW word \in {"user", "passwd", "password"}, NEW value \in MyValues, NEW quoted \in BOOLEAN,
             WriteMyParameter(word, value, quoted)
      PROVE  TextInv'
  <2>1. MyInv'
    BY <1>8, MyParameterStep DEF TextInv
  <2>2. subject' = subject /\ subject = "mysql"
    BY <1>8 DEF WriteMyParameter
  <2>. QED
    BY <2>1, <2>2, OneSubject
<1>9. ASSUME WriteMyPort PROVE TextInv'
  <2>1. MyInv'
    BY <1>9, MyPortStep DEF TextInv
  <2>2. subject' = subject /\ subject = "mysql"
    BY <1>9 DEF WriteMyPort
  <2>. QED
    BY <2>1, <2>2, OneSubject
<1>10. ASSUME NEW word \in {"db", "user=", "passwd="}, NEW value \in {<<"x">>, <<"y">>}, WriteOra(word, value) PROVE TextInv'
  <2>1. OraInv'
    BY <1>10, OraStep DEF TextInv
  <2>2. subject' = subject /\ subject = "oracle"
    BY <1>10 DEF WriteOra
  <2>. QED
    BY <2>1, <2>2, OneSubject
<1>11. CASE UNCHANGED textVars
  <2>1. subject' = subject /\ text' = text /\ meant' = meant
    BY <1>11 DEF textVars
  <2>. QED
    BY <2>1 DEF TextInv, UrlInv, MyInv, OraInv
<1>. QED
  BY <1>1, <1>2, <1>3, <1>4, <1>5, <1>6, <1>7, <1>8, <1>9, <1>10, <1>11, Zenon DEF TextNext

(* The invariant implies the property.                                       *)
LEMMA TextHolds == ASSUME TextInv PROVE ConnectionAsMeant
<1>1. subject = "postgresql" => H!CharsOf(C!Url(text, Username, Password)) = meant.items
  BY UrlHolds DEF TextInv
<1>2. MyAsMeant /\ OraAsMeant
  BY MyHolds, OraHolds DEF TextInv
<1>. QED
  BY <1>1, <1>2, Zenon DEF ConnectionAsMeant, MyAsMeant, OraAsMeant

(* For every url that can be written, of any number of pieces: postgresql's  *)
(* is expanded, mysql's is split into its parameters, or refused when a      *)
(* field that has a value is given again, and oracle's attributes are        *)
(* extracted exactly as the one who wrote it meant, whatever was quoted or   *)
(* escaped (Connection::Connection of the three drivers).                    *)
THEOREM ConnectionsAsMeant == TextSpec => []ConnectionAsMeant
<1>1. TextInit => TextInv
  BY UrlFirst, MyFirstText, OraFirstText DEF TextInv
<1>2. TextInv /\ [TextNext]_textVars => TextInv'
  BY TextStep
<1>3. TextInv => ConnectionAsMeant
  BY TextHolds
<1>. QED
  BY <1>1, <1>2, <1>3, PTL DEF TextSpec
===============================================================================
