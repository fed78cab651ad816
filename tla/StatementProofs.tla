---------------------------- MODULE StatementProofs ----------------------------
(***************************************************************************)
(* What the statements of sqlite, oracle and mysql promise, for every      *)
(* number of handles, buffers, cursors, rows and executions and whichever  *)
(* calls fail.  For each driver there is an invariant (LiteGood, OraGood,  *)
(* MyGood) of the states between the functions of the client.  Every       *)
(* operator of the model has a lemma that says what it leaves alone; the   *)
(* invariant holds at first (...Init), after every function (...Next) and  *)
(* implies what the composition says of the driver (...Legal).             *)
(*                                                                         *)
(* States are records.  Each driver has a Shape, which says that a state   *)
(* has its fields, and a lemma about a changed state begins with the       *)
(* fields that it has and goes on with these.                              *)
(***************************************************************************)
EXTENDS Statements, Sequences, FiniteSetTheorems, SequenceTheorems, TLAPS

\* A function on S, and the one that differs from it at x.
On(f, S) == f = [x \in S |-> f[x]]
Put(f, x, v) == [f EXCEPT ![x] = v]

LEMMA PutAt ==
  ASSUME NEW f, NEW S, On(f, S), NEW x \in S, NEW v
  PROVE  LET g == Put(f, x, v)
         IN /\ On(g, S) /\ g[x] = v
            /\ \A y \in S : y # x => g[y] = f[y]
<1> SUFFICES ASSUME NEW g, g = Put(f, x, v)
             PROVE  On(g, S) /\ g[x] = v /\ \A y \in S : y # x => g[y] = f[y]
  OBVIOUS
<1>1. g = [f EXCEPT ![x] = v]
  BY DEF Put
<1>. QED
  BY <1>1 DEF On

(* A set that has 0 and with a number the next one has all of them: counted
   in a finite part, because x + 1 would be one to one from the part to less. *)
LEMMA Counting ==
  ASSUME NEW T, 0 \in T, \A n \in Nat : n \in T => n + 1 \in T
  PROVE  \A n \in Nat : n \in T
<1> SUFFICES ASSUME NEW n \in Nat, n \notin T
             PROVE  FALSE
  OBVIOUS
<1> DEFINE A == {k \in 0..n : k \in T}
           B == A \ {0}
           f == [k \in A |-> k + 1]
<1>1. IsFiniteSet(0..n)
  BY FS_Interval
<1>2. IsFiniteSet(A) /\ 0 \in A
  BY <1>1, FS_Subset
<1>3. IsFiniteSet(B) /\ Cardinality(B) = Cardinality(A) - 1
  BY <1>2, FS_RemoveElement
<1>4. \A k \in A : k + 1 \in B
  OBVIOUS
<1>5. f \in Injection(A, B)
  BY <1>4 DEF Injection, IsInjective
<1>6. Cardinality(A) <= Cardinality(B)
  BY <1>3, <1>5, FS_Injection
<1>7. Cardinality(A) \in Nat
  BY <1>2, FS_CardinalityType
<1>. QED
  BY <1>3, <1>6, <1>7


-----------------------------------------------------------------------------
\* sqlite

(* The loop of select() makes one round after the other. *)
LiteAfter(t, n) == IF t.run = "row" THEN Lite!Round(t, n) ELSE t
LEMMA LiteRounds ==
  ASSUME NEW s, NEW n \in Nat
  PROVE  \E run : /\ run[0] = Lite!Round(Lite!Begun(s), n)
                  /\ \A i \in 1..n : run[i] = LiteAfter(run[i - 1], n)
                  /\ Lite!SelectRows(s, n) = run[n]
<1> DEFINE b == Lite!Round(Lite!Begun(s), n)
           Run(r, m) == r = [i \in 0..m |-> IF i = 0 THEN b ELSE LiteAfter(r[i - 1], n)]
           T == {m \in Nat : \E r : Run(r, m)}
           q == CHOOSE r : Run(r, n)
<1>1. Lite!SelectRows(s, n) = q[n]
  BY DEF Lite!SelectRows, LiteAfter
<1> HIDE DEF b
<1>2. 0 \in T
  <2>1. Run([i \in 0..0 |-> b], 0)
    OBVIOUS
  <2>. QED
    BY <2>1
<1>3. ASSUME NEW m \in Nat, m \in T
      PROVE  m + 1 \in T
  <2>1. PICK r : Run(r, m)
    BY <1>3
  <2> DEFINE p == [i \in 0..(m + 1) |-> IF i = m + 1 THEN LiteAfter(r[m], n) ELSE r[i]]
  <2>2. ASSUME NEW i \in 0..(m + 1)
        PROVE  p[i] = IF i = 0 THEN b ELSE LiteAfter(p[i - 1], n)
    <3>1. CASE i = m + 1
      <4>1. p[m] = r[m] /\ m \in 0..(m + 1) /\ i - 1 = m /\ i # 0
        BY <3>1
      <4>2. p[i] = LiteAfter(r[m], n)
        BY <3>1
      <4> HIDE DEF p
      <4>. QED
        BY <4>1, <4>2
    <3>2. CASE i # m + 1
      <4>1. i \in 0..m /\ p[i] = r[i]
        BY <3>2
      <4>2. r[i] = IF i = 0 THEN b ELSE LiteAfter(r[i - 1], n)
        BY <2>1, <4>1
      <4>3. i # 0 => p[i - 1] = r[i - 1]
        BY <4>1
      <4> HIDE DEF p
      <4>. QED
        BY <4>1, <4>2, <4>3
    <3>. QED
      BY <3>1, <3>2
  <2>3. Run(p, m + 1)
    BY <2>2
  <2> HIDE DEF p, Run
  <2>. QED
    BY <2>3
<1>4. \E r : Run(r, n)
  <2> HIDE DEF Run
  <2>1. n \in T
    <3> HIDE DEF T
    <3>. QED
      BY <1>2, <1>3, Counting
  <2>. QED
    BY <2>1
<1>5. Run(q, n)
  <2> HIDE DEF Run
  <2>. QED
    BY <1>4
<1>6. q[0] = b /\ \A i \in 1..n : q[i] = LiteAfter(q[i - 1], n)
  <2> HIDE DEF q
  <2>1. q = [i \in 0..n |-> IF i = 0 THEN b ELSE LiteAfter(q[i - 1], n)]
    BY <1>5
  <2>2. \A i \in 0..n : q[i] = IF i = 0 THEN b ELSE LiteAfter(q[i - 1], n)
    BY <2>1
  <2>. QED
    BY <2>2
<1> HIDE DEF q
<1>. QED
  BY <1>1, <1>6 DEF b


LiteShape(s) ==
    s = [stmt |-> s.stmt, needReset |-> s.needReset, run |-> s.run, exec |-> s.exec, of |-> s.of,
         at |-> s.at, cursor |-> s.cursor, answer |-> s.answer, dropped |-> s.dropped,
         misuse |-> s.misuse, failing |-> s.failing, calls |-> s.calls, threw |-> s.threw]
LiteCursor(c) ==
    /\ c = [open |-> c.open, exec |-> c.exec, read |-> c.read, alone |-> c.alone,
            ended |-> c.ended]
    /\ c.open \in BOOLEAN /\ c.alone \in BOOLEAN /\ c.ended \in BOOLEAN /\ c.read \in Nat
    /\ c.alone => c.open

\* A handle that is not ready will be reset.
LiteCore(s) ==
    /\ LiteShape(s) /\ LiteCursor(s.cursor)
    /\ s.needReset \in BOOLEAN /\ s.dropped \in BOOLEAN /\ s.threw \in BOOLEAN
    /\ s.exec \in Nat /\ s.of \in Nat /\ s.at \in Nat /\ s.answer \in Seq(Nat \X Nat)
    /\ s.misuse = {}
    /\ s.run # "ready" => s.needReset /\ s.stmt = "open"
    /\ s.cursor.open => s.stmt = "open"
\* The answers are the first rows of this execution.
LiteAnswers(s) == \A i \in 1..Len(s.answer) : s.answer[i] = <<s.exec, i>>
\* A cursor that is alone stands at the row that it read last.
LiteAlone(s) ==
    s.cursor.alone /\ ~ s.cursor.ended =>
      IF s.cursor.read = 0 THEN s.run = "ready"
      ELSE s.run = "row" /\ s.cursor.exec = s.exec /\ s.cursor.read = s.at
LiteGood(s) ==
    /\ LiteCore(s) /\ ~ s.threw
    /\ s.run = "row" => s.cursor.open \/ s.dropped
    /\ LiteAnswers(s) /\ LiteAlone(s)

Kept2(s, t) == t.cursor = s.cursor /\ t.dropped = s.dropped /\ t.answer = s.answer

-----------------------------------------------------------------------------
LiteCalled(s) ==
    LET t == [s EXCEPT !.calls = s.calls + 1, !.misuse = s.misuse]
    IN IF t.calls = s.failing THEN [t EXCEPT !.threw = TRUE] ELSE t

LEMMA LiteCalledIs ==
  ASSUME NEW s, LiteShape(s)
  PROVE  /\ Lite!Call(s, TRUE) = LiteCalled(s)
         /\ s.stmt = "open" => Lite!Call(s, s.stmt = "open") = LiteCalled(s)
<1>1. [s EXCEPT !.calls = @ + 1, !.misuse = IF TRUE THEN @ ELSE @ \cup {"closed handle"}]
        = [s EXCEPT !.calls = s.calls + 1, !.misuse = s.misuse]
  BY DEF LiteShape
<1>2. ASSUME s.stmt = "open"
      PROVE  [s EXCEPT !.calls = @ + 1, !.misuse = IF s.stmt = "open" THEN @ ELSE @ \cup {"closed handle"}]
        = [s EXCEPT !.calls = s.calls + 1, !.misuse = s.misuse]
  BY <1>2 DEF LiteShape
<1>. QED
  BY <1>1, <1>2 DEF Lite!Call, Lite!Throw, LiteCalled

Alike2(s, t) ==
    /\ t.stmt = s.stmt /\ t.needReset = s.needReset /\ t.run = s.run /\ t.exec = s.exec
    /\ t.of = s.of /\ t.at = s.at /\ t.misuse = s.misuse /\ Kept2(s, t)

LEMMA LiteCall ==
  ASSUME NEW s, LiteCore(s), ~ s.threw
  PROVE  LET t == LiteCalled(s) IN LiteCore(t) /\ Alike2(s, t)
<1> SUFFICES ASSUME NEW t, t = LiteCalled(s)
             PROVE  LiteCore(t) /\ Alike2(s, t)
  OBVIOUS
<1> DEFINE u == [s EXCEPT !.calls = s.calls + 1, !.misuse = s.misuse]
<1>1. u = [s EXCEPT !.calls = s.calls + 1, !.misuse = s.misuse]
  OBVIOUS
<1>2. t = u \/ t = [u EXCEPT !.threw = TRUE]
  BY DEF LiteCalled
<1> HIDE DEF u
<1>3. LiteShape(u) /\ u.threw = s.threw /\ Alike2(s, u)
  BY <1>1 DEF LiteCore, LiteShape, Alike2, Kept2
<1>4. LiteShape(t) /\ t.threw \in BOOLEAN /\ Alike2(s, t)
  BY <1>2, <1>3 DEF LiteCore, LiteShape, Alike2, Kept2
<1>. QED
  BY <1>4 DEF LiteCore, Alike2, Kept2

\* A reset makes the handle ready, also when it reports a failure.
LEMMA LiteReset ==
  ASSUME NEW s, LiteCore(s), ~ s.threw
  PROVE  LET t == Lite!Reset(s)
         IN /\ LiteCore(t) /\ Kept2(s, t) /\ t.stmt = s.stmt /\ t.exec = s.exec
            /\ t.run = "ready"
<1> SUFFICES ASSUME NEW t, t = Lite!Reset(s)
             PROVE  /\ LiteCore(t) /\ Kept2(s, t) /\ t.stmt = s.stmt /\ t.exec = s.exec
                    /\ t.run = "ready"
  OBVIOUS
<1>1. CASE ~ s.needReset
  <2>1. t = s
    BY <1>1 DEF Lite!Reset
  <2>. QED
    BY <1>1, <2>1 DEF LiteCore, Kept2
<1>2. CASE s.needReset
  <2> DEFINE u == [s EXCEPT !.run = "ready"]
             v == IF s.run = "failed" THEN [u EXCEPT !.threw = TRUE] ELSE u
  <2>1. t = IF v.threw THEN v ELSE [v EXCEPT !.needReset = FALSE]
    BY <1>2 DEF Lite!Reset, Lite!SqliteReset, Lite!Then, Lite!Throw
  <2>2. /\ LiteShape(u) /\ u.threw = s.threw /\ u.run = "ready" /\ u.needReset = s.needReset
        /\ u.stmt = s.stmt /\ u.exec = s.exec /\ u.of = s.of /\ u.at = s.at
        /\ u.misuse = s.misuse /\ Kept2(s, u)
    BY DEF LiteCore, LiteShape, Kept2
  <2> HIDE DEF u
  <2>3. /\ LiteShape(v) /\ v.threw \in BOOLEAN /\ v.run = "ready" /\ v.needReset = s.needReset
        /\ v.stmt = s.stmt /\ v.exec = s.exec /\ v.of = s.of /\ v.at = s.at
        /\ v.misuse = s.misuse /\ Kept2(s, v)
    BY <2>2 DEF LiteCore, LiteShape, Kept2
  <2> HIDE DEF v
  <2>4. /\ LiteShape(t) /\ t.threw \in BOOLEAN /\ t.run = "ready" /\ t.needReset \in BOOLEAN
        /\ t.stmt = s.stmt /\ t.exec = s.exec /\ t.of = s.of /\ t.at = s.at
        /\ t.misuse = s.misuse /\ Kept2(s, t)
    BY <2>1, <2>3 DEF LiteCore, LiteShape, Kept2
  <2>. QED
    BY <2>4 DEF LiteCore, Kept2
<1>. QED
  BY <1>1, <1>2 DEF LiteCore

LEMMA LiteBindStmt ==
  ASSUME NEW s, LiteCore(s), ~ s.threw
  PROVE  LET t == Lite!GetBindStmt(s)
         IN /\ LiteCore(t) /\ Kept2(s, t) /\ t.exec = s.exec
            /\ t.run = "ready"
            /\ ~ t.threw => t.stmt = "open"
<1> SUFFICES ASSUME NEW t, t = Lite!GetBindStmt(s)
             PROVE  /\ LiteCore(t) /\ Kept2(s, t) /\ t.exec = s.exec
                    /\ t.run = "ready"
                    /\ ~ t.threw => t.stmt = "open"
  OBVIOUS
<1>1. CASE s.stmt = "open"
  <2>1. t = Lite!Reset(s)
    BY <1>1 DEF Lite!GetBindStmt
  <2>. QED
    BY <1>1, <2>1, LiteReset
<1>2. CASE s.stmt # "open"
  <2> DEFINE c == LiteCalled(s)
  <2>1. t = IF c.threw THEN c ELSE [c EXCEPT !.stmt = "open"]
    BY <1>2, LiteCalledIs DEF Lite!GetBindStmt, LiteCore
  <2>2. LiteCore(c) /\ Alike2(s, c)
    BY LiteCall
  <2>3. s.run = "ready" /\ ~ s.cursor.open
    BY <1>2 DEF LiteCore
  <2> HIDE DEF c
  <2>4. CASE c.threw
    BY <2>1, <2>2, <2>3, <2>4 DEF Alike2, Kept2
  <2>5. CASE ~ c.threw
    <3>1. /\ LiteShape(t) /\ t.threw = c.threw /\ t.run = c.run /\ t.needReset = c.needReset
          /\ t.stmt = "open" /\ t.exec = c.exec /\ t.of = c.of /\ t.at = c.at
          /\ t.misuse = c.misuse /\ Kept2(c, t)
      BY <2>1, <2>2, <2>5 DEF LiteCore, LiteShape, Kept2
    <3>. QED
      BY <2>2, <2>3, <3>1 DEF LiteCore, Alike2, Kept2
  <2>. QED
    BY <2>4, <2>5
<1>. QED
  BY <1>1, <1>2

LEMMA LiteBegun ==
  ASSUME NEW s, LiteCore(s), ~ s.threw
  PROVE  LET t == Lite!Begun(s)
         IN /\ LiteCore(t) /\ Kept2(s, t) /\ t.exec = s.exec
            /\ t.run = "ready"
            /\ ~ t.threw => t.stmt = "open" /\ t.needReset
<1> SUFFICES ASSUME NEW t, t = Lite!Begun(s)
             PROVE  /\ LiteCore(t) /\ Kept2(s, t) /\ t.exec = s.exec
                    /\ t.run = "ready"
                    /\ ~ t.threw => t.stmt = "open" /\ t.needReset
  OBVIOUS
<1> DEFINE c == Lite!GetBindStmt(s)
<1>1. t = IF c.threw THEN c ELSE [c EXCEPT !.needReset = TRUE]
  BY DEF Lite!Begun, Lite!GetBindStmt, Lite!Then
<1>2. /\ LiteCore(c) /\ Kept2(s, c) /\ c.exec = s.exec
      /\ c.run = "ready"
      /\ ~ c.threw => c.stmt = "open"
  BY LiteBindStmt
<1> HIDE DEF c
<1>3. CASE c.threw
  BY <1>1, <1>2, <1>3
<1>4. CASE ~ c.threw
  <2>1. /\ LiteShape(t) /\ t.threw = c.threw /\ t.run = c.run /\ t.needReset = TRUE
        /\ t.stmt = c.stmt /\ t.exec = c.exec /\ t.of = c.of /\ t.at = c.at
        /\ t.misuse = c.misuse /\ Kept2(c, t)
    BY <1>1, <1>2, <1>4 DEF LiteCore, LiteShape, Kept2
  <2>2. t.needReset \in BOOLEAN /\ t.needReset
    BY <2>1
  <2>. QED
    BY <1>2, <1>4, <2>1, <2>2 DEF LiteCore, Kept2
<1>. QED
  BY <1>3, <1>4

\* Where a step goes.
LiteStepped(s, n, t) ==
    /\ t.threw => t.run = "failed"
    /\ ~ t.threw /\ s.run = "row" => t.exec = s.exec /\ t.of = s.of
    /\ ~ t.threw /\ s.run = "row" /\ s.at < s.of => t.run = "row" /\ t.at = s.at + 1
    /\ ~ t.threw /\ s.run = "row" /\ ~ (s.at < s.of) => t.run = "done"
    /\ ~ t.threw /\ s.run # "row" => t.exec = s.exec + 1 /\ t.of = n
    /\ ~ t.threw /\ s.run # "row" /\ 0 < n => t.run = "row" /\ t.at = 1
    /\ ~ t.threw /\ s.run # "row" /\ n = 0 => t.run = "done"
LEMMA LiteStep ==
  ASSUME NEW s, LiteCore(s), ~ s.threw, s.stmt = "open", s.needReset, NEW n \in Nat
  PROVE  LET t == Lite!SqliteStep(s, n)
         IN /\ LiteCore(t) /\ Kept2(s, t) /\ t.stmt = s.stmt /\ t.needReset
            /\ LiteStepped(s, n, t)
<1> SUFFICES ASSUME NEW t, t = Lite!SqliteStep(s, n)
             PROVE  /\ LiteCore(t) /\ Kept2(s, t) /\ t.stmt = s.stmt /\ t.needReset
                    /\ LiteStepped(s, n, t)
  OBVIOUS
<1> DEFINE c == LiteCalled(s)
           from == IF s.run = "row" THEN s.at ELSE 0
           rows == IF s.run = "row" THEN s.of ELSE n
           exec == IF s.run = "row" THEN s.exec ELSE s.exec + 1
           u == [c EXCEPT !.exec = exec, !.of = rows]
<1>0. LiteShape(s)
  BY DEF LiteCore
<1>1. LiteCore(c) /\ Alike2(s, c)
  BY LiteCall
<1>2. t = IF c.threw THEN [c EXCEPT !.run = "failed"]
          ELSE IF from < rows THEN [u EXCEPT !.run = "row", !.at = from + 1]
          ELSE [u EXCEPT !.run = "done"]
  <2> DEFINE w == [c EXCEPT !.exec = IF s.run = "row" THEN @ ELSE @ + 1, !.of = rows]
  <2>1. t = IF c.threw THEN [c EXCEPT !.run = "failed"]
          ELSE IF from < rows THEN [w EXCEPT !.run = "row", !.at = from + 1]
          ELSE [w EXCEPT !.run = "done"]
    BY <1>0, LiteCalledIs DEF Lite!SqliteStep
  <2>2. w = u
    <3> HIDE DEF c, rows
    <3>. QED
      BY <1>1 DEF LiteCore, LiteShape, Alike2
  <2> HIDE DEF w, u
  <2>. QED
    BY <2>1, <2>2
<1>3. from \in Nat /\ rows \in Nat /\ exec \in Nat
  BY DEF LiteCore
<1> HIDE DEF c
<1>4. CASE c.threw
  <2> HIDE DEF u
  <2>1. /\ LiteShape(t) /\ t.threw = c.threw /\ t.run = "failed" /\ t.needReset = c.needReset
        /\ t.stmt = c.stmt /\ t.exec = c.exec /\ t.of = c.of /\ t.at = c.at
        /\ t.misuse = c.misuse /\ Kept2(c, t)
    BY <1>1, <1>2, <1>4 DEF LiteCore, LiteShape, Kept2
  <2>2. LiteCore(t)
    BY <1>1, <2>1 DEF LiteCore, Alike2, Kept2
  <2>3. LiteStepped(s, n, t)
    BY <1>4, <2>1 DEF LiteStepped
  <2>. QED
    BY <1>1, <2>1, <2>2, <2>3 DEF Alike2, Kept2
<1>5. CASE ~ c.threw
  <2>1. u = [c EXCEPT !.exec = exec, !.of = rows]
    OBVIOUS
  <2>2. t = IF from < rows THEN [u EXCEPT !.run = "row", !.at = from + 1]
            ELSE [u EXCEPT !.run = "done"]
    BY <1>2, <1>5
  <2> HIDE DEF u, from, rows, exec
  <2>3. /\ LiteShape(u) /\ u.threw = c.threw /\ u.run = c.run /\ u.needReset = c.needReset
        /\ u.stmt = c.stmt /\ u.exec = exec /\ u.of = rows /\ u.at = c.at
        /\ u.misuse = c.misuse /\ Kept2(c, u)
    BY <1>1, <2>1 DEF LiteCore, LiteShape, Kept2
  <2>4. /\ LiteShape(t) /\ t.threw = c.threw /\ t.needReset = c.needReset
        /\ t.stmt = c.stmt /\ t.exec = exec /\ t.of = rows
        /\ t.misuse = c.misuse /\ Kept2(c, t)
        /\ from < rows => t.run = "row" /\ t.at = from + 1
        /\ ~ (from < rows) => t.run = "done" /\ t.at = c.at
    BY <2>2, <2>3 DEF LiteCore, LiteShape, Kept2
  <2>5. t.at \in Nat
    BY <1>1, <1>3, <2>4 DEF LiteCore
  <2>6. LiteCore(t)
    BY <1>1, <1>3, <2>4, <2>5 DEF LiteCore, Alike2, Kept2
  <2>7. LiteStepped(s, n, t)
    BY <1>1, <1>3, <1>5, <2>4 DEF LiteStepped, Alike2, from, rows, exec
  <2>. QED
    BY <1>1, <2>4, <2>6, <2>7 DEF Alike2, Kept2
<1>. QED
  BY <1>4, <1>5

\* Host variables are set while the handle is ready.
LEMMA LiteBind ==
  ASSUME NEW s, LiteCore(s), ~ s.threw, s.stmt = "open", s.run = "ready"
  PROVE  LET t == Lite!SqliteBind(s) IN LiteCore(t) /\ Alike2(s, t)
<1>1. Lite!SqliteBind(s) = LiteCalled(s)
  BY LiteCalledIs DEF Lite!SqliteBind, LiteCore
<1>. QED
  BY <1>1, LiteCall


\* What a function of the client starts with, and what it may leave.
LiteStarted(s) ==
    /\ LiteCore(s) /\ ~ s.threw /\ ~ s.cursor.alone /\ ~ s.dropped /\ s.answer = << >>
LiteReady(s) ==
    LiteCore(s) /\ s.run = "ready" /\ (~ s.threw => s.stmt = "open")
LiteLeft(t) ==
    /\ LiteCore(t)
    /\ t.run = "row" => t.cursor.open \/ t.dropped
    /\ LiteAnswers(t) /\ LiteAlone(t)

LEMMA LiteNoAnswer ==
  ASSUME NEW s, NEW t, LiteStarted(s), LiteCore(t), Kept2(s, t), t.run # "row"
  PROVE  LiteLeft(t)
<1>1. t.answer = << >> /\ ~ t.cursor.alone
  BY DEF LiteStarted, Kept2
<1>2. LiteAnswers(t)
  BY <1>1, EmptySeq DEF LiteAnswers
<1>. QED
  BY <1>1, <1>2 DEF LiteLeft, LiteAlone

LEMMA LiteSetHostVar ==
  ASSUME NEW s, LiteStarted(s)
  PROVE  LiteLeft(Lite!SetHostVar(s))
<1> DEFINE a == Lite!GetBindStmt(s)
           b == IF a.threw THEN a ELSE Lite!Call(a, a.stmt = "open")
           d == Lite!Reset(b)
           e == IF d.threw THEN d ELSE Lite!SqliteBind(d)
           t == IF b.threw THEN b ELSE e
<1>1. Lite!SetHostVar(s) = t
  BY DEF Lite!SetHostVar, Lite!GetBindIndex, Lite!Then
<1>2. LiteReady(a) /\ Kept2(s, a)
  BY LiteBindStmt DEF LiteReady, LiteStarted
<1> HIDE DEF a
<1>3. LiteReady(b) /\ Kept2(a, b)
  <2>1. CASE a.threw
    BY <1>2, <2>1 DEF Kept2
  <2>2. CASE ~ a.threw
    <3>1. b = LiteCalled(a)
      BY <1>2, <2>2, LiteCalledIs DEF LiteReady, LiteCore
    <3>. QED
      BY <1>2, <2>2, <3>1, LiteCall DEF LiteReady, Alike2, Kept2
  <2>. QED
    BY <2>1, <2>2
<1> HIDE DEF b
<1>4. CASE b.threw
  <2>1. Kept2(s, b) /\ t = b
    BY <1>2, <1>3, <1>4 DEF Kept2
  <2> HIDE DEF t
  <2>. QED
    BY <1>1, <1>3, <2>1, LiteNoAnswer DEF LiteReady
<1>5. CASE ~ b.threw
  <2>1. LiteReady(d) /\ Kept2(b, d)
    BY <1>3, <1>5, LiteReset DEF LiteReady
  <2> HIDE DEF d
  <2>2. LiteReady(e) /\ Kept2(d, e)
    <3>1. CASE d.threw
      BY <2>1, <3>1 DEF Kept2
    <3>2. CASE ~ d.threw
      <4>1. e = Lite!SqliteBind(d)
        BY <3>2
      <4> HIDE DEF e
      <4>. QED
        BY <2>1, <3>2, <4>1, LiteBind DEF LiteReady, Alike2, Kept2
    <3>. QED
      BY <3>1, <3>2
  <2> HIDE DEF e
  <2>3. t = e
    BY <1>5
  <2> HIDE DEF t
  <2>4. Kept2(s, t)
    BY <1>2, <1>3, <2>1, <2>2, <2>3 DEF Kept2
  <2>. QED
    BY <1>1, <2>2, <2>3, <2>4, LiteNoAnswer DEF LiteReady
<1>. QED
  BY <1>4, <1>5

LEMMA LiteThenBind ==
  ASSUME NEW s, LiteReady(s)
  PROVE  LET t == IF s.threw THEN s ELSE Lite!SqliteBind(s)
         IN LiteReady(t) /\ Kept2(s, t)
<1>1. CASE s.threw
  BY <1>1 DEF Kept2
<1>2. CASE ~ s.threw
  BY <1>2, LiteBind DEF LiteReady, Alike2, Kept2
<1>. QED
  BY <1>1, <1>2

LEMMA LiteClearHostVars ==
  ASSUME NEW s, LiteStarted(s)
  PROVE  LiteLeft(Lite!ClearHostVars(s))
<1> DEFINE a == Lite!GetBindStmt(s)
           b == IF a.threw THEN a ELSE Lite!SqliteBind(a)
           t == IF b.threw THEN b ELSE Lite!SqliteBind(b)
<1>1. Lite!ClearHostVars(s) = t
  BY DEF Lite!ClearHostVars, Lite!Then
<1>2. LiteReady(a) /\ Kept2(s, a)
  BY LiteBindStmt DEF LiteReady, LiteStarted
<1> HIDE DEF a
<1>3. LiteReady(b) /\ Kept2(a, b)
  BY <1>2, LiteThenBind
<1> HIDE DEF b
<1>4. LiteReady(t) /\ Kept2(b, t)
  BY <1>3, LiteThenBind
<1> HIDE DEF t
<1>5. Kept2(s, t)
  BY <1>2, <1>3, <1>4 DEF Kept2
<1>. QED
  BY <1>1, <1>4, <1>5, LiteNoAnswer DEF LiteReady

\* What an execution does first.
LEMMA LiteFirst ==
  ASSUME NEW s, LiteStarted(s), NEW n \in Nat
  PROVE  LET a == Lite!Begun(s)
             t == IF a.threw THEN a ELSE Lite!SqliteStep(a, n)
         IN /\ LiteCore(t) /\ Kept2(s, t)
            /\ t.threw => t.run # "row"
            /\ ~ t.threw => t.stmt = "open" /\ t.needReset
            /\ ~ t.threw => (t.run = "row" /\ t.at = 1 /\ 0 < n /\ t.of = n) \/ t.run = "done"
<1> DEFINE a == Lite!Begun(s)
           t == IF a.threw THEN a ELSE Lite!SqliteStep(a, n)
<1>1. /\ LiteCore(a) /\ Kept2(s, a)
      /\ a.run = "ready"
      /\ ~ a.threw => a.stmt = "open" /\ a.needReset
  BY LiteBegun DEF LiteStarted
<1> HIDE DEF a
<1>2. CASE a.threw
  BY <1>1, <1>2 DEF a
<1>3. CASE ~ a.threw
  <2>1. t = Lite!SqliteStep(a, n)
    BY <1>3
  <2> HIDE DEF t
  <2>2. /\ LiteCore(t) /\ Kept2(a, t) /\ t.stmt = a.stmt /\ t.needReset
        /\ LiteStepped(a, n, t)
    BY <1>1, <1>3, <2>1, LiteStep
  <2>3. Kept2(s, t)
    BY <1>1, <2>2 DEF Kept2
  <2>. QED
    BY <1>1, <1>3, <2>2, <2>3 DEF LiteStepped, t, a
<1>. QED
  BY <1>2, <1>3

LEMMA LiteExecute ==
  ASSUME NEW s, LiteStarted(s), NEW n \in Nat
  PROVE  LiteLeft(Lite!ExecuteStatement(s, n))
<1> DEFINE a == Lite!Begun(s)
           b == IF a.threw THEN a ELSE Lite!SqliteStep(a, n)
           t == IF b.threw THEN b ELSE Lite!Reset(b)
<1>1. Lite!ExecuteStatement(s, n) = t
  BY DEF Lite!ExecuteStatement, Lite!Then
<1>2. /\ LiteCore(b) /\ Kept2(s, b)
      /\ b.threw => b.run # "row"
  BY LiteFirst
<1> HIDE DEF b
<1>3. LiteCore(t) /\ Kept2(s, t) /\ t.run # "row"
  <2>1. CASE b.threw
    BY <1>2, <2>1
  <2>2. CASE ~ b.threw
    BY <1>2, <2>2, LiteReset DEF Kept2
  <2>. QED
    BY <2>1, <2>2
<1> HIDE DEF t
<1>. QED
  BY <1>1, <1>3, LiteNoAnswer

-----------------------------------------------------------------------------
\* A row is answered.
LEMMA LiteAnswered ==
  ASSUME NEW s, LiteCore(s)
  PROVE  LET t == Lite!Answered(s)
         IN /\ LiteCore(t) /\ t.cursor = s.cursor /\ t.dropped = s.dropped /\ t.run = s.run
            /\ t.exec = s.exec /\ t.at = s.at /\ t.of = s.of /\ t.stmt = s.stmt
            /\ t.needReset = s.needReset /\ t.threw = s.threw
            /\ s.run # "row" => t.answer = s.answer
            /\ s.run = "row" => t.answer = Append(s.answer, <<s.exec, s.at>>)
<1> SUFFICES ASSUME NEW t, t = Lite!Answered(s)
             PROVE  /\ LiteCore(t) /\ t.cursor = s.cursor /\ t.dropped = s.dropped /\ t.run = s.run
                    /\ t.exec = s.exec /\ t.at = s.at /\ t.of = s.of /\ t.stmt = s.stmt
                    /\ t.needReset = s.needReset /\ t.threw = s.threw
                    /\ s.run # "row" => t.answer = s.answer
                    /\ s.run = "row" => t.answer = Append(s.answer, <<s.exec, s.at>>)
  OBVIOUS
<1>1. CASE s.run # "row"
  BY <1>1 DEF Lite!Answered
<1>2. CASE s.run = "row"
  <2> DEFINE v == Append(s.answer, <<s.exec, s.at>>)
  <2>1. t = [s EXCEPT !.answer = v]
    BY <1>2 DEF Lite!Answered
  <2>2. v \in Seq(Nat \X Nat)
    BY DEF LiteCore
  <2> HIDE DEF v
  <2>3. /\ LiteShape(t) /\ t.cursor = s.cursor /\ t.dropped = s.dropped /\ t.run = s.run
        /\ t.exec = s.exec /\ t.at = s.at /\ t.of = s.of /\ t.stmt = s.stmt
        /\ t.needReset = s.needReset /\ t.threw = s.threw /\ t.misuse = s.misuse
        /\ t.answer = v
    BY <2>1 DEF LiteCore, LiteShape
  <2>4. LiteCore(t)
    BY <2>2, <2>3 DEF LiteCore
  <2>. QED
    BY <1>2, <2>3, <2>4 DEF v
<1>. QED
  BY <1>1, <1>2

LEMMA LiteAppended ==
  ASSUME NEW s, NEW t, LiteCore(s), LiteAnswers(s),
         t.answer = Append(s.answer, <<s.exec, s.at>>), t.exec = s.exec,
         s.at = Len(s.answer) + 1
  PROVE  LiteAnswers(t) /\ Len(t.answer) = s.at
<1>1. s.answer \in Seq(Nat \X Nat) /\ s.exec \in Nat /\ s.at \in Nat
  BY DEF LiteCore
<1>2. <<s.exec, s.at>> \in Nat \X Nat
  BY <1>1
<1>3. /\ Len(t.answer) = Len(s.answer) + 1
      /\ \A i \in 1..Len(s.answer) : t.answer[i] = s.answer[i]
      /\ t.answer[Len(s.answer) + 1] = <<s.exec, s.at>>
  BY <1>1, <1>2, AppendProperties
<1>4. Len(s.answer) \in Nat
  BY <1>1
<1>. QED
  BY <1>3, <1>4 DEF LiteAnswers

\* After round i the handle stands at row i + 1, which was answered, or is done.
LiteRow(s, t, n, i) ==
    /\ LiteCore(t) /\ t.cursor = s.cursor /\ t.dropped = s.dropped
    /\ t.threw => t.run # "row"
    /\ ~ t.threw =>
         /\ t.stmt = "open" /\ t.needReset /\ LiteAnswers(t)
         /\ \/ t.run = "row" /\ t.at = i + 1 /\ t.at <= n /\ t.of = n /\ Len(t.answer) = t.at
            \/ t.run = "done"

LEMMA LiteRound1 ==
  ASSUME NEW s, LiteStarted(s), NEW n \in Nat
  PROVE  LiteRow(s, Lite!Round(Lite!Begun(s), n), n, 0)
<1> DEFINE a == Lite!Begun(s)
           b == IF a.threw THEN a ELSE Lite!SqliteStep(a, n)
           t == IF b.threw THEN b ELSE Lite!Answered(b)
<1>1. Lite!Round(Lite!Begun(s), n) = t
  BY DEF Lite!Round, Lite!Then
<1>2. /\ LiteCore(b) /\ Kept2(s, b)
      /\ b.threw => b.run # "row"
      /\ ~ b.threw => b.stmt = "open" /\ b.needReset
      /\ ~ b.threw => (b.run = "row" /\ b.at = 1 /\ 0 < n /\ b.of = n) \/ b.run = "done"
  BY LiteFirst
<1>3. LiteAnswers(b) /\ Len(b.answer) = 0
  BY <1>2, EmptySeq DEF LiteAnswers, LiteStarted, Kept2
<1> HIDE DEF b
<1>4. CASE b.threw
  BY <1>1, <1>2, <1>4 DEF LiteRow, Kept2
<1>5. CASE ~ b.threw
  <2>1. t = Lite!Answered(b)
    BY <1>5
  <2> HIDE DEF t
  <2>2. /\ LiteCore(t) /\ t.cursor = b.cursor /\ t.dropped = b.dropped /\ t.run = b.run
        /\ t.exec = b.exec /\ t.at = b.at /\ t.of = b.of /\ t.stmt = b.stmt
        /\ t.needReset = b.needReset /\ t.threw = b.threw
        /\ b.run # "row" => t.answer = b.answer
        /\ b.run = "row" => t.answer = Append(b.answer, <<b.exec, b.at>>)
    BY <1>2, <2>1, LiteAnswered
  <2>3. CASE b.run = "row"
    <3>1. b.at = Len(b.answer) + 1
      BY <1>2, <1>3, <1>5, <2>3
    <3>2. LiteAnswers(t) /\ Len(t.answer) = b.at
      BY <1>2, <1>3, <2>2, <2>3, <3>1, LiteAppended
    <3>. QED
      BY <1>1, <1>2, <1>5, <2>2, <2>3, <3>2 DEF LiteRow, Kept2
  <2>4. CASE b.run # "row"
    <3>1. LiteAnswers(t)
      BY <1>3, <2>2, <2>4 DEF LiteAnswers
    <3>. QED
      BY <1>1, <1>2, <1>5, <2>2, <2>4, <3>1 DEF LiteRow, Kept2
  <2>. QED
    BY <2>3, <2>4
<1>. QED
  BY <1>4, <1>5

LEMMA LiteRoundNext ==
  ASSUME NEW s, NEW r, NEW n \in Nat, NEW i \in Nat, LiteRow(s, r, n, i)
  PROVE  LiteRow(s, LiteAfter(r, n), n, i + 1)
<1> DEFINE t == LiteAfter(r, n)
<1>1. CASE r.run # "row"
  <2>1. t = r
    BY <1>1 DEF LiteAfter
  <2> HIDE DEF t
  <2>. QED
    BY <1>1, <2>1 DEF LiteRow, t
<1>2. CASE r.run = "row"
  <2> DEFINE b == Lite!SqliteStep(r, n)
  <2>0. /\ LiteCore(r) /\ r.cursor = s.cursor /\ r.dropped = s.dropped /\ ~ r.threw
        /\ r.stmt = "open" /\ r.needReset /\ LiteAnswers(r)
        /\ r.at = i + 1 /\ r.at <= n /\ r.of = n /\ Len(r.answer) = r.at
    BY <1>2 DEF LiteRow
  <2>1. t = IF b.threw THEN b ELSE Lite!Answered(b)
    BY <1>2, <2>0 DEF LiteAfter, Lite!Round, Lite!Then
  <2>2. /\ LiteCore(b) /\ Kept2(r, b) /\ b.stmt = r.stmt /\ b.needReset
        /\ LiteStepped(r, n, b)
    BY <2>0, LiteStep
  <2> HIDE DEF b, t
  <2>3. CASE b.threw
    BY <2>0, <2>1, <2>2, <2>3 DEF LiteRow, Kept2, LiteStepped, t
  <2>4. CASE ~ b.threw
    <3>1. t = Lite!Answered(b)
      BY <2>1, <2>4
    <3>2. /\ LiteCore(t) /\ t.cursor = b.cursor /\ t.dropped = b.dropped /\ t.run = b.run
          /\ t.exec = b.exec /\ t.at = b.at /\ t.of = b.of /\ t.stmt = b.stmt
          /\ t.needReset = b.needReset /\ t.threw = b.threw
          /\ b.run # "row" => t.answer = b.answer
          /\ b.run = "row" => t.answer = Append(b.answer, <<b.exec, b.at>>)
      BY <2>2, <3>1, LiteAnswered
    <3>3. b.exec = r.exec /\ b.of = r.of /\ b.answer = r.answer
      BY <1>2, <2>2, <2>4 DEF LiteStepped, Kept2
    <3>4. LiteAnswers(b)
      BY <2>0, <3>3 DEF LiteAnswers
    <3>5. CASE b.run = "row"
      <4>1. b.at = r.at + 1 /\ r.at < r.of
        BY <1>2, <2>2, <2>4, <3>5 DEF LiteStepped
      <4>2. b.at = Len(b.answer) + 1
        BY <2>0, <3>3, <4>1
      <4>3. LiteAnswers(t) /\ Len(t.answer) = b.at
        BY <2>2, <3>2, <3>4, <3>5, <4>2, LiteAppended
      <4>4. t.at = i + 1 + 1 /\ t.at <= n /\ t.of = n /\ Len(t.answer) = t.at
        BY <2>0, <3>2, <3>3, <4>1, <4>3
      <4>5. LiteCore(t) /\ t.cursor = s.cursor /\ t.dropped = s.dropped /\ ~ t.threw
            /\ t.stmt = "open" /\ t.needReset /\ t.run = "row"
        BY <2>0, <2>2, <2>4, <3>2, <3>5 DEF Kept2
      <4>. QED
        BY <4>3, <4>4, <4>5 DEF LiteRow, t
    <3>6. CASE b.run # "row"
      <4>1. b.run = "done"
        BY <1>2, <2>2, <2>4, <3>6 DEF LiteStepped
      <4>2. LiteAnswers(t)
        BY <3>2, <3>4, <3>6 DEF LiteAnswers
      <4>3. LiteCore(t) /\ t.cursor = s.cursor /\ t.dropped = s.dropped /\ ~ t.threw
            /\ t.stmt = "open" /\ t.needReset /\ t.run = "done"
        BY <2>0, <2>2, <2>4, <3>2, <4>1 DEF Kept2
      <4>. QED
        BY <4>2, <4>3 DEF LiteRow, t
    <3>. QED
      BY <3>5, <3>6
  <2>. QED
    BY <2>3, <2>4
<1>. QED
  BY <1>1, <1>2

LEMMA LiteSelectRows ==
  ASSUME NEW s, LiteStarted(s), NEW n \in Nat
  PROVE  LET t == Lite!SelectRows(s, n)
         IN /\ LiteCore(t) /\ t.cursor = s.cursor /\ t.run # "row"
            /\ ~ t.threw => LiteAnswers(t)
<1> SUFFICES ASSUME NEW t, t = Lite!SelectRows(s, n)
             PROVE  /\ LiteCore(t) /\ t.cursor = s.cursor /\ t.run # "row"
                    /\ ~ t.threw => LiteAnswers(t)
  OBVIOUS
<1>1. PICK run : /\ run[0] = Lite!Round(Lite!Begun(s), n)
                 /\ \A i \in 1..n : run[i] = LiteAfter(run[i - 1], n)
                 /\ t = run[n]
  BY LiteRounds
<1> DEFINE T == {i \in Nat : i <= n => LiteRow(s, run[i], n, i)}
<1>2. 0 \in T
  BY <1>1, LiteRound1
<1>3. ASSUME NEW i \in Nat, i \in T
      PROVE  i + 1 \in T
  <2>1. CASE i + 1 <= n
    <3>1. LiteRow(s, run[i], n, i)
      BY <1>3, <2>1
    <3>2. run[i + 1] = LiteAfter(run[i], n)
      BY <1>1, <2>1
    <3>3. LiteRow(s, run[i + 1], n, i + 1)
      BY <3>1, <3>2, LiteRoundNext
    <3>. QED
      BY <3>3
  <2>2. CASE ~ (i + 1 <= n)
    BY <2>2
  <2>. QED
    BY <2>1, <2>2
<1>4. n \in T
  <2> HIDE DEF T
  <2>. QED
    BY <1>2, <1>3, Counting
<1>5. LiteRow(s, t, n, n)
  BY <1>1, <1>4
<1>. QED
  BY <1>5 DEF LiteRow

LEMMA LiteSelectFirst ==
  ASSUME NEW s, LiteStarted(s), NEW n \in Nat
  PROVE  LET t == Lite!SelectFirst(s, n)
         IN /\ LiteCore(t) /\ t.cursor = s.cursor /\ t.run # "row"
            /\ ~ t.threw => LiteAnswers(t)
<1> SUFFICES ASSUME NEW t, t = Lite!SelectFirst(s, n)
             PROVE  /\ LiteCore(t) /\ t.cursor = s.cursor /\ t.run # "row"
                    /\ ~ t.threw => LiteAnswers(t)
  OBVIOUS
<1> DEFINE a == Lite!Begun(s)
           b == IF a.threw THEN a ELSE Lite!SqliteStep(a, n)
<1>1. t = IF b.threw THEN IF b.run = "failed" THEN Lite!SqliteReset(b) ELSE b
          ELSE IF b.run = "done" THEN Lite!Throw(b) ELSE Lite!Reset(Lite!Answered(b))
  BY DEF Lite!SelectFirst, Lite!Then
<1>2. /\ LiteCore(b) /\ Kept2(s, b)
      /\ b.threw => b.run # "row"
      /\ ~ b.threw => (b.run = "row" /\ b.at = 1 /\ 0 < n /\ b.of = n) \/ b.run = "done"
  BY LiteFirst
<1>3. LiteAnswers(b) /\ Len(b.answer) = 0
  BY <1>2, EmptySeq DEF LiteAnswers, LiteStarted, Kept2
<1> HIDE DEF b
<1>4. CASE b.threw /\ b.run = "failed"
  <2> DEFINE v == [b EXCEPT !.run = "ready"]
  <2>1. t = [v EXCEPT !.threw = TRUE]
    BY <1>1, <1>4 DEF Lite!SqliteReset, Lite!Throw
  <2>2. /\ LiteShape(v) /\ v.run = "ready" /\ v.needReset = b.needReset
        /\ v.stmt = b.stmt /\ v.exec = b.exec /\ v.of = b.of /\ v.at = b.at
        /\ v.misuse = b.misuse /\ Kept2(b, v)
    BY <1>2 DEF LiteCore, LiteShape, Kept2
  <2> HIDE DEF v
  <2>3. /\ LiteShape(t) /\ t.run = "ready" /\ t.needReset = b.needReset
        /\ t.stmt = b.stmt /\ t.exec = b.exec /\ t.of = b.of /\ t.at = b.at
        /\ t.misuse = b.misuse /\ Kept2(b, t) /\ t.threw = TRUE
    BY <2>1, <2>2 DEF LiteShape, Kept2
  <2>4. t.threw /\ t.threw \in BOOLEAN
    BY <2>3
  <2>. QED
    BY <1>2, <2>3, <2>4 DEF LiteCore, Kept2
<1>5. CASE b.threw /\ b.run # "failed"
  BY <1>1, <1>2, <1>5 DEF Kept2
<1>6. CASE ~ b.threw /\ b.run = "done"
  <2>1. t = [b EXCEPT !.threw = TRUE]
    BY <1>1, <1>6 DEF Lite!Throw
  <2>3. /\ LiteShape(t) /\ t.run = "done" /\ t.needReset = b.needReset
        /\ t.stmt = b.stmt /\ t.exec = b.exec /\ t.of = b.of /\ t.at = b.at
        /\ t.misuse = b.misuse /\ Kept2(b, t) /\ t.threw = TRUE
    BY <1>2, <1>6, <2>1 DEF LiteCore, LiteShape, Kept2
  <2>4. t.threw /\ t.threw \in BOOLEAN
    BY <2>3
  <2>. QED
    BY <1>2, <1>6, <2>3, <2>4 DEF LiteCore, Kept2
<1>7. CASE ~ b.threw /\ b.run # "done"
  <2> DEFINE c == Lite!Answered(b)
  <2>1. t = Lite!Reset(c)
    BY <1>1, <1>7
  <2>2. b.run = "row" /\ b.at = Len(b.answer) + 1
    BY <1>2, <1>3, <1>7
  <2>3. /\ LiteCore(c) /\ c.cursor = b.cursor /\ c.exec = b.exec /\ c.threw = b.threw
        /\ b.run = "row" => c.answer = Append(b.answer, <<b.exec, b.at>>)
    BY <1>2, LiteAnswered
  <2> HIDE DEF c
  <2>4. LiteAnswers(c)
    BY <1>2, <1>3, <2>2, <2>3, LiteAppended
  <2>5. /\ LiteCore(t) /\ Kept2(c, t) /\ t.exec = c.exec /\ t.run = "ready"
    BY <1>7, <2>1, <2>3, LiteReset
  <2>. QED
    BY <1>2, <2>3, <2>4, <2>5 DEF Kept2, LiteAnswers
<1>. QED
  BY <1>4, <1>5, <1>6, <1>7


\* Cursors with one component changed.
Alone2(c, x) == [c EXCEPT !.alone = x]
LEMMA LiteAloneAt ==
  ASSUME NEW c, LiteCursor(c), NEW x \in BOOLEAN, ~ x
  PROVE  LET d == Alone2(c, x)
         IN /\ LiteCursor(d) /\ d.open = c.open /\ d.exec = c.exec /\ d.read = c.read
            /\ d.alone = x /\ d.ended = c.ended
<1> SUFFICES ASSUME NEW d, d = Alone2(c, x)
             PROVE  /\ LiteCursor(d) /\ d.open = c.open /\ d.exec = c.exec /\ d.read = c.read
                    /\ d.alone = x /\ d.ended = c.ended
  OBVIOUS
<1>1. d = [c EXCEPT !.alone = x]
  BY DEF Alone2
<1>2. /\ d = [open |-> d.open, exec |-> d.exec, read |-> d.read, alone |-> d.alone,
              ended |-> d.ended]
      /\ d.open = c.open /\ d.exec = c.exec /\ d.read = c.read
      /\ d.alone = x /\ d.ended = c.ended
  BY <1>1 DEF LiteCursor
<1>. QED
  BY <1>2 DEF LiteCursor

Moved(c, read, exec) == [c EXCEPT !.read = read, !.exec = exec]
LEMMA LiteMovedTo ==
  ASSUME NEW c, LiteCursor(c), NEW read \in Nat, NEW exec
  PROVE  LET d == Moved(c, read, exec)
         IN /\ LiteCursor(d) /\ d.open = c.open /\ d.exec = exec /\ d.read = read
            /\ d.alone = c.alone /\ d.ended = c.ended
<1> SUFFICES ASSUME NEW d, d = Moved(c, read, exec)
             PROVE  /\ LiteCursor(d) /\ d.open = c.open /\ d.exec = exec /\ d.read = read
                    /\ d.alone = c.alone /\ d.ended = c.ended
  OBVIOUS
<1>1. d = [c EXCEPT !.read = read, !.exec = exec]
  BY DEF Moved
<1>2. /\ d = [open |-> d.open, exec |-> d.exec, read |-> d.read, alone |-> d.alone,
              ended |-> d.ended]
      /\ d.open = c.open /\ d.exec = exec /\ d.read = read
      /\ d.alone = c.alone /\ d.ended = c.ended
  BY <1>1 DEF LiteCursor
<1>. QED
  BY <1>2 DEF LiteCursor

Ended(c) == [c EXCEPT !.ended = TRUE]
LEMMA LiteEndedAt ==
  ASSUME NEW c, LiteCursor(c)
  PROVE  LET d == Ended(c)
         IN /\ LiteCursor(d) /\ d.open = c.open /\ d.ended
<1> SUFFICES ASSUME NEW d, d = Ended(c)
             PROVE  LiteCursor(d) /\ d.open = c.open /\ d.ended
  OBVIOUS
<1>1. d = [c EXCEPT !.ended = TRUE]
  BY DEF Ended
<1>2. /\ d = [open |-> d.open, exec |-> d.exec, read |-> d.read, alone |-> d.alone,
              ended |-> d.ended]
      /\ d.open = c.open /\ d.exec = c.exec /\ d.read = c.read
      /\ d.alone = c.alone /\ d.ended = TRUE
  BY <1>1 DEF LiteCursor
<1>3. d.ended /\ d.ended \in BOOLEAN
  BY <1>2
<1>. QED
  BY <1>2, <1>3 DEF LiteCursor

NewlyOpen(d) == d = [open |-> TRUE, exec |-> 0, read |-> 0, alone |-> TRUE, ended |-> FALSE]
LEMMA LiteFreshIs ==
  ASSUME NEW d, NewlyOpen(d)
  PROVE  LiteCursor(d) /\ d.open /\ ~ d.ended /\ d.read = 0
<1>1. d = [open |-> TRUE, exec |-> 0, read |-> 0, alone |-> TRUE, ended |-> FALSE]
  BY DEF NewlyOpen
<1>2a. d.open = TRUE /\ d.exec = 0 /\ d.read = 0 /\ d.alone = TRUE /\ d.ended = FALSE
  BY <1>1
<1>2b. d = [open |-> d.open, exec |-> d.exec, read |-> d.read, alone |-> d.alone,
              ended |-> d.ended]
  BY <1>1
<1>2. /\ d.open = TRUE /\ d.exec = 0 /\ d.read = 0 /\ d.alone = TRUE /\ d.ended = FALSE
      /\ d = [open |-> d.open, exec |-> d.exec, read |-> d.read, alone |-> d.alone,
              ended |-> d.ended]
  BY <1>2a, <1>2b
<1>3. d.open /\ d.open \in BOOLEAN /\ d.alone \in BOOLEAN /\ ~ d.ended /\ d.ended \in BOOLEAN
  BY <1>2
<1>4. d.read \in Nat
  BY <1>2
<1>. QED
  BY <1>2, <1>3, <1>4 DEF LiteCursor
LEMMA LiteFreshCursor ==
  LET d == [Lite!NoCursor EXCEPT !.open = TRUE, !.alone = TRUE]
  IN LiteCursor(d) /\ d.open /\ ~ d.ended /\ d.read = 0
<1> SUFFICES ASSUME NEW d, d = [Lite!NoCursor EXCEPT !.open = TRUE, !.alone = TRUE]
             PROVE  LiteCursor(d) /\ d.open /\ ~ d.ended /\ d.read = 0
  OBVIOUS
<1>1. d = [open |-> TRUE, exec |-> 0, read |-> 0, alone |-> TRUE, ended |-> FALSE]
  BY DEF Lite!NoCursor
<1>2. NewlyOpen(d)
  BY ONLY <1>1 DEF NewlyOpen
<1>. QED
  BY ONLY <1>2, LiteFreshIs

LEMMA LiteNoCursor ==
  LiteCursor(Lite!NoCursor) /\ ~ Lite!NoCursor.open /\ ~ Lite!NoCursor.alone
<1> SUFFICES ASSUME NEW d, d = Lite!NoCursor
             PROVE  LiteCursor(d) /\ ~ d.open /\ ~ d.alone
  OBVIOUS
<1>1. d = [open |-> FALSE, exec |-> 0, read |-> 0, alone |-> FALSE, ended |-> FALSE]
  BY DEF Lite!NoCursor
<1>2. /\ d.open = FALSE /\ d.exec = 0 /\ d.read = 0 /\ d.alone = FALSE /\ d.ended = FALSE
      /\ d = [open |-> d.open, exec |-> d.exec, read |-> d.read, alone |-> d.alone,
              ended |-> d.ended]
  BY <1>1
<1>3. ~ d.open /\ d.open \in BOOLEAN /\ ~ d.alone /\ d.alone \in BOOLEAN /\ d.ended \in BOOLEAN
  BY <1>2
<1>4. d.read \in Nat
  BY <1>2
<1>. QED
  BY <1>2, <1>3, <1>4 DEF LiteCursor

\* All but the cursor as it was.
LiteOther(s, t) ==
    /\ LiteShape(t) /\ t.stmt = s.stmt /\ t.needReset = s.needReset /\ t.run = s.run
    /\ t.exec = s.exec /\ t.of = s.of /\ t.at = s.at /\ t.misuse = s.misuse
    /\ t.dropped = s.dropped /\ t.answer = s.answer /\ t.threw = s.threw
LEMMA LiteCursorAt ==
  ASSUME NEW s, LiteCore(s), NEW c
  PROVE  LET t == [s EXCEPT !.cursor = c] IN LiteOther(s, t) /\ t.cursor = c
<1> SUFFICES ASSUME NEW t, t = [s EXCEPT !.cursor = c]
             PROVE  LiteOther(s, t) /\ t.cursor = c
  OBVIOUS
<1>. QED
  BY DEF LiteCore, LiteShape, LiteOther
LEMMA LiteOtherCore ==
  ASSUME NEW s, NEW t, LiteCore(s), LiteOther(s, t), LiteCursor(t.cursor),
         t.cursor.open => s.stmt = "open"
  PROVE  LiteCore(t)
BY DEF LiteCore, LiteOther

LEMMA LiteNewCursor ==
  ASSUME NEW s, LiteStarted(s)
  PROVE  LiteLeft(Lite!NewCursor(s))
<1> SUFFICES ASSUME NEW t, t = Lite!NewCursor(s)
             PROVE  LiteLeft(t)
  OBVIOUS
<1> DEFINE a == Lite!GetBindStmt(s)
           c == [Lite!NoCursor EXCEPT !.open = TRUE, !.alone = TRUE]
<1>1. t = IF a.threw THEN a ELSE [a EXCEPT !.cursor = c]
  BY DEF Lite!NewCursor, Lite!Then
<1>2. /\ LiteCore(a) /\ Kept2(s, a) /\ a.run = "ready"
      /\ ~ a.threw => a.stmt = "open"
  BY LiteBindStmt DEF LiteStarted
<1>3. LiteCursor(c) /\ c.open /\ ~ c.ended /\ c.read = 0
  BY LiteFreshCursor
<1> HIDE DEF a, c
<1>4. CASE a.threw
  BY <1>1, <1>2, <1>4, LiteNoAnswer
<1>5. CASE ~ a.threw
  <2>1. LiteOther(a, t) /\ t.cursor = c
    BY <1>1, <1>2, <1>5, LiteCursorAt
  <2>2. LiteCore(t)
    BY <1>2, <1>3, <1>5, <2>1, LiteOtherCore
  <2>3. t.answer = << >>
    BY <1>2, <2>1 DEF LiteOther, Kept2, LiteStarted
  <2>4. LiteAnswers(t)
    BY <2>3, EmptySeq DEF LiteAnswers
  <2>5. t.run = "ready"
    BY <1>2, <2>1 DEF LiteOther
  <2>. QED
    BY <1>3, <2>1, <2>2, <2>4, <2>5 DEF LiteLeft, LiteAlone
<1>. QED
  BY <1>4, <1>5

\* A cursor goes on while it is not at its end.
LEMMA LiteCursorFetch ==
  ASSUME NEW s, LiteCore(s), ~ s.threw, s.cursor.open, s.answer = << >>, LiteAlone(s),
         ~ s.cursor.ended, NEW n \in Nat
  PROVE  LiteLeft(Lite!CursorFetch(s, n))
<1> SUFFICES ASSUME NEW t, t = Lite!CursorFetch(s, n)
             PROVE  LiteLeft(t)
  OBVIOUS
<1> DEFINE r == [s EXCEPT !.needReset = TRUE]
           u == Lite!SqliteStep(r, n)
           c == u.cursor
           no == FALSE
           read == c.read + 1
           exec == IF s.cursor.read = 0 THEN u.exec ELSE c.exec
<1>1. t = IF u.threw THEN [u EXCEPT !.cursor.alone = FALSE]
          ELSE IF u.run = "done" THEN [u EXCEPT !.cursor.ended = TRUE]
          ELSE [u EXCEPT !.cursor.read = @ + 1,
                         !.cursor.exec = IF s.cursor.read = 0 THEN u.exec ELSE @]
  BY DEF Lite!CursorFetch
<1>1a. r = [s EXCEPT !.needReset = TRUE]
  OBVIOUS
<1> HIDE DEF r
<1>2. /\ LiteShape(r) /\ r.stmt = s.stmt /\ r.needReset = TRUE /\ r.run = s.run
      /\ r.exec = s.exec /\ r.of = s.of /\ r.at = s.at /\ r.misuse = s.misuse
      /\ r.threw = s.threw /\ Kept2(s, r)
  BY <1>1a DEF LiteCore, LiteShape, Kept2
<1>3. r.needReset /\ r.needReset \in BOOLEAN
  BY <1>2
<1>4. LiteCore(r)
  BY <1>2, <1>3 DEF LiteCore, Kept2
<1>4a. s.stmt = "open"
  BY DEF LiteCore
<1>5. /\ LiteCore(u) /\ Kept2(r, u) /\ u.stmt = r.stmt /\ u.needReset /\ LiteStepped(r, n, u)
  BY <1>2, <1>3, <1>4, <1>4a, LiteStep
<1> HIDE DEF u
<1>6. /\ LiteCursor(c) /\ c = s.cursor /\ c.open /\ u.stmt = "open" /\ u.answer = << >>
  BY <1>2, <1>4a, <1>5 DEF LiteCore, Kept2
<1>7. no \in BOOLEAN /\ ~ no /\ read \in Nat
  BY <1>6 DEF LiteCursor
<1>8. LiteShape(u)
  BY <1>5 DEF LiteCore
<1>8a. c.read = s.cursor.read /\ c.exec = s.cursor.exec /\ c.alone = s.cursor.alone /\ ~ c.ended
  BY <1>6
<1>8b. c = u.cursor
  OBVIOUS
<1>9. CASE u.threw
  <2>1. t = [u EXCEPT !.cursor = Alone2(c, no)]
    BY <1>1, <1>9 DEF Alone2
  <2> DEFINE d == Alone2(c, no)
  <2> HIDE DEF c, no
  <2>2. LiteCursor(d) /\ d.open = c.open /\ d.alone = no
    BY <1>6, <1>7, LiteAloneAt
  <2> HIDE DEF d
  <2>3. LiteOther(u, t) /\ t.cursor = d
    BY <1>5, <2>1, LiteCursorAt DEF d
  <2>4. LiteCore(t)
    BY <1>5, <1>6, <2>2, <2>3, LiteOtherCore
  <2>5. t.answer = << >> /\ ~ t.cursor.alone /\ t.cursor.open
    BY <1>6, <1>7, <2>2, <2>3 DEF LiteOther
  <2>6. LiteAnswers(t)
    BY <2>5, EmptySeq DEF LiteAnswers
  <2>. QED
    BY <2>4, <2>5, <2>6 DEF LiteLeft, LiteAlone
<1>10. CASE ~ u.threw /\ u.run = "done"
  <2>1. t = [u EXCEPT !.cursor = Ended(c)]
    BY <1>1, <1>10 DEF Ended
  <2> DEFINE d == Ended(c)
  <2> HIDE DEF c
  <2>2. LiteCursor(d) /\ d.open = c.open /\ d.ended
    BY <1>6, LiteEndedAt
  <2> HIDE DEF d
  <2>3. LiteOther(u, t) /\ t.cursor = d
    BY <1>5, <2>1, LiteCursorAt DEF d
  <2>4. LiteCore(t)
    BY <1>5, <1>6, <2>2, <2>3, LiteOtherCore
  <2>5. t.answer = << >> /\ t.cursor.ended /\ t.cursor.open
    BY <1>6, <2>2, <2>3 DEF LiteOther
  <2>6. LiteAnswers(t)
    BY <2>5, EmptySeq DEF LiteAnswers
  <2>. QED
    BY <2>4, <2>5, <2>6 DEF LiteLeft, LiteAlone
<1>11. CASE ~ u.threw /\ u.run # "done"
  <2>1. t = [u EXCEPT !.cursor = Moved(c, read, exec)]
    BY <1>1, <1>11 DEF Moved
  <2>0. read = s.cursor.read + 1 /\ exec = IF s.cursor.read = 0 THEN u.exec ELSE s.cursor.exec
    BY <1>8a
  <2>0a. s.cursor.read \in Nat
    BY DEF LiteCore, LiteCursor
  <2>a. LiteCursor(c) /\ read \in Nat
    BY <1>6, <1>7
  <2> DEFINE d == Moved(c, read, exec)
  <2> HIDE DEF c, read, exec
  <2>2. /\ LiteCursor(d) /\ d.open = c.open /\ d.alone = c.alone /\ d.ended = c.ended
        /\ d.read = read /\ d.exec = exec
    BY <2>a, LiteMovedTo
  <2> HIDE DEF d
  <2>3. LiteOther(u, t) /\ t.cursor = d
    BY <1>5, <2>1, LiteCursorAt DEF d
  <2>4. LiteCore(t)
    BY <1>5, <1>6, <2>2, <2>3, LiteOtherCore
  <2>5. t.answer = << >> /\ t.cursor.open /\ t.run = u.run /\ t.exec = u.exec /\ t.at = u.at
    BY <1>6, <2>2, <2>3 DEF LiteOther
  <2>6. LiteAnswers(t)
    BY <2>5, EmptySeq DEF LiteAnswers
  <2>7. ASSUME t.cursor.alone
        PROVE  t.run = "row" /\ t.cursor.exec = t.exec /\ t.cursor.read = t.at
    <3>1. s.cursor.alone
      BY <1>8a, <2>2, <2>3, <2>7
    <3>2. CASE s.cursor.read = 0
      <4>1. r.run = "ready"
        BY <1>2, <3>1, <3>2 DEF LiteAlone
      <4>2. u.run = "row" /\ u.at = 1
        BY <1>5, <1>11, <4>1 DEF LiteStepped
      <4>. QED
        BY <2>0, <2>2, <2>3, <2>5, <3>2, <4>2
    <3>3. CASE s.cursor.read # 0
      <4>1. r.run = "row" /\ s.cursor.exec = r.exec /\ s.cursor.read = r.at
        BY <1>2, <3>1, <3>3 DEF LiteAlone
      <4>2. u.run = "row" /\ u.at = r.at + 1 /\ u.exec = r.exec
        BY <1>5, <1>11, <4>1 DEF LiteStepped
      <4>. QED
        BY <2>0, <2>2, <2>3, <2>5, <3>3, <4>1, <4>2
    <3>. QED
      BY <3>2, <3>3
  <2>8. t.cursor.read # 0
    BY <2>0, <2>0a, <2>2, <2>3
  <2>. QED
    BY <2>4, <2>5, <2>6, <2>7, <2>8 DEF LiteLeft, LiteAlone
<1>. QED
  BY <1>9, <1>10, <1>11

-----------------------------------------------------------------------------
(* The steps of the client. *)
LEMMA LiteBegin ==
  ASSUME NEW s, LiteCore(s), NEW k
  PROVE  LET t == Lite!Begin(s, k) IN LiteCore(t) /\ Alike2(s, t) /\ ~ t.threw
<1> SUFFICES ASSUME NEW t, t = Lite!Begin(s, k)
             PROVE  LiteCore(t) /\ Alike2(s, t) /\ ~ t.threw
  OBVIOUS
<1>1. t = [s EXCEPT !.failing = k, !.calls = 0, !.threw = FALSE]
  BY DEF Lite!Begin
<1>2. LiteShape(t) /\ Alike2(s, t) /\ t.threw = FALSE
  BY <1>1 DEF LiteCore, LiteShape, Alike2, Kept2
<1>3. ~ t.threw /\ t.threw \in BOOLEAN
  BY <1>2
<1>. QED
  BY <1>2, <1>3 DEF LiteCore, Alike2, Kept2

LEMMA LiteStart ==
  ASSUME LiteGood(sys), NEW k
  PROVE  LiteStarted(Lite!Start(k))
<1> DEFINE none == << >>
           no == FALSE
           c == sys.cursor
           d == Alone2(c, no)
           u == [sys EXCEPT !.cursor = d, !.answer = none, !.dropped = no]
<1>1. Lite!Start(k) = Lite!Begin(u, k)
  BY DEF Lite!Start, Alone2
<1>2. none = << >> /\ none \in Seq(Nat \X Nat) /\ ~ no /\ no \in BOOLEAN
  BY EmptySeq
<1>3. LiteCursor(c) /\ (c.open => sys.stmt = "open")
  BY DEF LiteGood, LiteCore
<1> HIDE DEF no, none, c
<1>4. LiteCursor(d) /\ d.open = c.open /\ d.alone = no
  BY <1>2, <1>3, LiteAloneAt
<1>4a. u = [sys EXCEPT !.cursor = d, !.answer = none, !.dropped = no]
  OBVIOUS
<1> HIDE DEF d, u
<1>5. /\ LiteShape(u) /\ u.stmt = sys.stmt /\ u.needReset = sys.needReset /\ u.run = sys.run
      /\ u.exec = sys.exec /\ u.of = sys.of /\ u.at = sys.at /\ u.misuse = sys.misuse
      /\ u.threw = sys.threw /\ u.cursor = d /\ u.answer = none /\ u.dropped = no
  BY <1>4a DEF LiteGood, LiteCore, LiteShape
<1>6. LiteCore(u)
  BY <1>2, <1>3, <1>4, <1>5 DEF LiteGood, LiteCore
<1> DEFINE b == Lite!Begin(u, k)
<1>7. LiteCore(b) /\ Alike2(u, b) /\ ~ b.threw
  BY <1>6, LiteBegin
<1> HIDE DEF b
<1>8. b.answer = << >> /\ ~ b.cursor.alone /\ ~ b.dropped
  BY <1>2, <1>4, <1>5, <1>7 DEF Alike2, Kept2
<1>9. LiteStarted(b)
  BY <1>7, <1>8 DEF LiteStarted
<1>. QED
  BY <1>1, <1>9 DEF b

LEMMA LiteEnds ==
  ASSUME NEW t, LiteLeft(t), Lite!Ends(t)
  PROVE  LiteGood(sys')
<1>1. sys' = [t EXCEPT !.failing = 0, !.calls = 0, !.threw = FALSE]
  BY DEF Lite!Ends, Lite!Finished
<1>2. LiteShape(sys') /\ Alike2(t, sys') /\ sys'.threw = FALSE
  BY <1>1 DEF LiteLeft, LiteCore, LiteShape, Alike2, Kept2
<1>3. ~ sys'.threw /\ sys'.threw \in BOOLEAN
  BY <1>2
<1>4. LiteCore(sys')
  BY <1>2, <1>3 DEF LiteLeft, LiteCore, Alike2, Kept2
<1>. QED
  BY <1>2, <1>3, <1>4 DEF LiteLeft, LiteGood, LiteAnswers, LiteAlone, Alike2, Kept2

LEMMA LiteReturns ==
  ASSUME NEW t, LiteCore(t), t.run # "row", ~ t.cursor.alone, ~ t.threw => LiteAnswers(t),
         Lite!Returns(t)
  PROVE  LiteGood(sys')
<1> DEFINE none == << >>
           a == IF t.threw THEN none ELSE t.answer
           u == [t EXCEPT !.answer = a]
<1>1. Lite!Ends(u)
  <2>1. u = [t EXCEPT !.answer = IF t.threw THEN << >> ELSE @]
    BY DEF LiteCore, LiteShape
  <2> DEFINE w == [t EXCEPT !.answer = IF t.threw THEN << >> ELSE @]
  <2>2. sys' = Lite!Finished(w) /\ Lite!Reached(t)
    BY DEF Lite!Returns
  <2>3. u.calls = t.calls /\ u.failing = t.failing
    BY DEF LiteCore, LiteShape
  <2>4. Lite!Reached(u)
    <3> HIDE DEF u
    <3>. QED
      BY <2>2, <2>3 DEF Lite!Reached
  <2>5. u = w
    BY <2>1
  <2> HIDE DEF u, w
  <2>. QED
    BY <2>2, <2>4, <2>5 DEF Lite!Ends
<1>2. none = << >> /\ none \in Seq(Nat \X Nat) /\ Len(none) = 0
  BY EmptySeq
<1>3. a \in Seq(Nat \X Nat) /\ \A i \in 1..Len(a) : a[i] = <<t.exec, i>>
  <2>1. CASE t.threw
    BY <1>2, <2>1
  <2>2. CASE ~ t.threw
    BY <2>2 DEF LiteCore, LiteAnswers
  <2>. QED
    BY <2>1, <2>2
<1>4. u = [t EXCEPT !.answer = a]
  OBVIOUS
<1> HIDE DEF u, a, none
<1>5. /\ LiteShape(u) /\ u.stmt = t.stmt /\ u.needReset = t.needReset /\ u.run = t.run
      /\ u.exec = t.exec /\ u.of = t.of /\ u.at = t.at /\ u.misuse = t.misuse
      /\ u.threw = t.threw /\ u.cursor = t.cursor /\ u.answer = a /\ u.dropped = t.dropped
  BY <1>4 DEF LiteCore, LiteShape
<1>6. LiteCore(u)
  BY <1>3, <1>5 DEF LiteCore
<1>7. LiteLeft(u)
  BY <1>3, <1>5, <1>6 DEF LiteLeft, LiteAnswers, LiteAlone
<1>. QED
  BY <1>1, <1>7, LiteEnds

LEMMA LiteInit == Lite!Init => LiteGood(sys)
<1> SUFFICES ASSUME Lite!Init
             PROVE  LiteGood(sys)
  OBVIOUS
<1>1. /\ LiteShape(sys) /\ sys.stmt = "none" /\ sys.needReset = FALSE /\ sys.run = "ready"
      /\ sys.exec = 0 /\ sys.of = 0 /\ sys.at = 0 /\ sys.cursor = Lite!NoCursor
      /\ sys.answer = << >> /\ sys.dropped = FALSE /\ sys.misuse = {} /\ sys.threw = FALSE
  BY DEF Lite!Init, LiteShape
<1>2. /\ sys.needReset \in BOOLEAN /\ sys.dropped \in BOOLEAN /\ ~ sys.threw /\ sys.threw \in BOOLEAN
  BY <1>1
<1>3. sys.answer \in Seq(Nat \X Nat) /\ Len(sys.answer) = 0
  BY <1>1, EmptySeq
<1>4. LiteCursor(sys.cursor) /\ ~ sys.cursor.open /\ ~ sys.cursor.alone
  BY <1>1, LiteNoCursor
<1>5. LiteCore(sys)
  BY <1>1, <1>2, <1>3, <1>4 DEF LiteCore
<1>. QED
  BY <1>1, <1>2, <1>3, <1>4, <1>5 DEF LiteGood, LiteAnswers, LiteAlone

LEMMA LiteFetchCursor ==
  ASSUME LiteGood(sys), NEW n \in Nat, NEW k, Lite!FetchCursor(n, k)
  PROVE  LiteGood(sys')
<1> DEFINE none == << >>
           u == [sys EXCEPT !.answer = none]
           b == Lite!Begin(u, k)
<1>1. Lite!Ends(Lite!CursorFetch(b, n)) /\ sys.cursor.open /\ ~ sys.cursor.ended
  BY DEF Lite!FetchCursor
<1>2. none = << >> /\ none \in Seq(Nat \X Nat)
  BY EmptySeq
<1>3. u = [sys EXCEPT !.answer = none]
  OBVIOUS
<1> HIDE DEF none, u
<1>4. /\ LiteShape(u) /\ u.stmt = sys.stmt /\ u.needReset = sys.needReset /\ u.run = sys.run
      /\ u.exec = sys.exec /\ u.of = sys.of /\ u.at = sys.at /\ u.misuse = sys.misuse
      /\ u.threw = sys.threw /\ u.cursor = sys.cursor /\ u.answer = none
      /\ u.dropped = sys.dropped
  BY <1>3 DEF LiteGood, LiteCore, LiteShape
<1>5. LiteCore(u)
  BY <1>2, <1>4 DEF LiteGood, LiteCore
<1>6. LiteCore(b) /\ Alike2(u, b) /\ ~ b.threw
  BY <1>5, LiteBegin
<1> HIDE DEF b
<1>7. b.cursor.open /\ b.answer = << >> /\ ~ b.cursor.ended
  BY <1>1, <1>2, <1>4, <1>6 DEF Alike2, Kept2
<1>8. LiteAlone(b)
  BY <1>4, <1>6 DEF LiteGood, LiteAlone, Alike2, Kept2
<1>. QED
  BY <1>1, <1>6, <1>7, <1>8, LiteCursorFetch, LiteEnds

LEMMA LiteDropCursor ==
  ASSUME LiteGood(sys), Lite!DropCursor
  PROVE  LiteGood(sys')
<1> DEFINE c == Lite!NoCursor
           d == sys.run = "row"
<1>1. sys' = [sys EXCEPT !.cursor = c, !.dropped = d]
  BY DEF Lite!DropCursor
<1>2. LiteCursor(c) /\ ~ c.open /\ ~ c.alone
  BY LiteNoCursor
<1>3. d \in BOOLEAN /\ (d <=> sys.run = "row")
  OBVIOUS
<1> HIDE DEF c, d
<1>4. /\ LiteShape(sys') /\ sys'.stmt = sys.stmt /\ sys'.needReset = sys.needReset
      /\ sys'.run = sys.run /\ sys'.exec = sys.exec /\ sys'.of = sys.of /\ sys'.at = sys.at
      /\ sys'.misuse = sys.misuse /\ sys'.threw = sys.threw /\ sys'.cursor = c
      /\ sys'.answer = sys.answer /\ sys'.dropped = d
  BY <1>1 DEF LiteGood, LiteCore, LiteShape
<1>5. LiteCore(sys')
  BY <1>2, <1>3, <1>4 DEF LiteGood, LiteCore
<1>. QED
  BY <1>2, <1>3, <1>4, <1>5 DEF LiteGood, LiteAnswers, LiteAlone

LEMMA LiteDropStatement ==
  ASSUME LiteGood(sys), Lite!DropStatement
  PROVE  LiteGood(sys')
<1> DEFINE none == << >>
           no == FALSE
<1>1. sys' = [sys EXCEPT !.stmt = "closed", !.run = "ready", !.answer = none, !.dropped = no]
      /\ ~ sys.cursor.open
  BY DEF Lite!DropStatement
<1>2. none = << >> /\ none \in Seq(Nat \X Nat) /\ Len(none) = 0 /\ ~ no /\ no \in BOOLEAN
  BY EmptySeq
<1> HIDE DEF none, no
<1>4. /\ LiteShape(sys') /\ sys'.stmt = "closed" /\ sys'.needReset = sys.needReset
      /\ sys'.run = "ready" /\ sys'.exec = sys.exec /\ sys'.of = sys.of /\ sys'.at = sys.at
      /\ sys'.misuse = sys.misuse /\ sys'.threw = sys.threw /\ sys'.cursor = sys.cursor
      /\ sys'.answer = none /\ sys'.dropped = no
  BY <1>1 DEF LiteGood, LiteCore, LiteShape
<1>5. LiteCore(sys')
  BY <1>1, <1>2, <1>4 DEF LiteGood, LiteCore
<1>6. LiteAlone(sys')
  BY <1>1, <1>4 DEF LiteGood, LiteCore, LiteCursor, LiteAlone
<1>. QED
  BY <1>2, <1>4, <1>5, <1>6 DEF LiteGood, LiteAnswers


LEMMA LiteNext ==
  ASSUME MaxRows \in Nat, LiteGood(sys), Lite!Next
  PROVE  LiteGood(sys')
<1>0. \A n \in 0..MaxRows : n \in Nat
  OBVIOUS
<1>1. ASSUME NEW k, Lite!SetValue(k)
      PROVE  LiteGood(sys')
  BY <1>1, LiteStart, LiteSetHostVar, LiteEnds DEF Lite!SetValue
<1>2. ASSUME NEW k, Lite!Clear(k)
      PROVE  LiteGood(sys')
  BY <1>2, LiteStart, LiteClearHostVars, LiteEnds DEF Lite!Clear
<1>3. ASSUME NEW k, Lite!CreateCursor(k)
      PROVE  LiteGood(sys')
  BY <1>3, LiteStart, LiteNewCursor, LiteEnds DEF Lite!CreateCursor
<1>4. ASSUME NEW n \in Nat, NEW k, Lite!Execute(n, k)
      PROVE  LiteGood(sys')
  BY <1>4, LiteStart, LiteExecute, LiteEnds DEF Lite!Execute
<1>5. ASSUME NEW n \in Nat, NEW k, Lite!Select(n, k)
      PROVE  LiteGood(sys')
  <2> DEFINE s == Lite!Start(k)
             t == Lite!SelectRows(s, n)
  <2>1. Lite!Returns(t)
    BY <1>5 DEF Lite!Select
  <2>2. LiteStarted(s)
    BY LiteStart
  <2> HIDE DEF s
  <2>3. /\ LiteCore(t) /\ t.cursor = s.cursor /\ t.run # "row"
        /\ ~ t.threw => LiteAnswers(t)
    BY <2>2, LiteSelectRows
  <2> HIDE DEF t
  <2>4. ~ t.cursor.alone
    BY <2>2, <2>3 DEF LiteStarted
  <2>. QED
    BY <2>1, <2>3, <2>4, LiteReturns
<1>6. ASSUME NEW n \in Nat, NEW k, Lite!SelectOne(n, k)
      PROVE  LiteGood(sys')
  <2> DEFINE s == Lite!Start(k)
             t == Lite!SelectFirst(s, n)
  <2>1. Lite!Returns(t)
    BY <1>6 DEF Lite!SelectOne
  <2>2. LiteStarted(s)
    BY LiteStart
  <2> HIDE DEF s
  <2>3. /\ LiteCore(t) /\ t.cursor = s.cursor /\ t.run # "row"
        /\ ~ t.threw => LiteAnswers(t)
    BY <2>2, LiteSelectFirst
  <2> HIDE DEF t
  <2>4. ~ t.cursor.alone
    BY <2>2, <2>3 DEF LiteStarted
  <2>. QED
    BY <2>1, <2>3, <2>4, LiteReturns
<1>. QED
  BY <1>0, <1>1, <1>2, <1>3, <1>4, <1>5, <1>6, LiteFetchCursor, LiteDropCursor,
     LiteDropStatement DEF Lite!Next

LEMMA LiteLegal == LiteGood(sys) => Lite!HandlesLegal /\ Lite!DataStays
<1> SUFFICES ASSUME LiteGood(sys)
             PROVE  Lite!HandlesLegal /\ Lite!DataStays
  OBVIOUS
<1>1. /\ LiteCore(sys) /\ LiteAnswers(sys) /\ LiteAlone(sys)
      /\ sys.run = "row" => sys.cursor.open \/ sys.dropped
  BY DEF LiteGood
<1>2. Lite!HandlesLegal
  BY <1>1 DEF Lite!HandlesLegal, LiteCore
<1>3. \A i \in DOMAIN sys.answer : sys.answer[i] = <<sys.exec, i>>
  <2>1. DOMAIN sys.answer = 1..Len(sys.answer)
    BY <1>1 DEF LiteCore
  <2>. QED
    BY <1>1, <2>1 DEF LiteAnswers
<1>4. (sys.cursor.alone /\ sys.cursor.read > 0 /\ ~ sys.cursor.ended) =>
         sys.run = "row" /\ <<sys.exec, sys.at>> = <<sys.cursor.exec, sys.cursor.read>>
  <2>1. sys.cursor.read \in Nat
    BY <1>1 DEF LiteCore, LiteCursor
  <2>. QED
    BY <1>1, <2>1 DEF LiteAlone
<1>. QED
  BY <1>2, <1>3, <1>4 DEF Lite!DataStays


-----------------------------------------------------------------------------
\* oracle
OraShape(s) ==
    s = [handle |-> s.handle, define |-> s.define, coming |-> s.coming, exec |-> s.exec,
         data |-> s.data, local |-> s.local, rows |-> s.rows, held |-> s.held,
         spoilt |-> s.spoilt, cursor |-> s.cursor, misuse |-> s.misuse,
         failing |-> s.failing, calls |-> s.calls, threw |-> s.threw]
OraCursor(c) ==
    /\ c = [open |-> c.open, buffer |-> c.buffer, at |-> c.at, count |-> c.count,
            exec |-> c.exec, read |-> c.read, failed |-> c.failed]
    /\ c.open \in BOOLEAN /\ c.failed \in BOOLEAN
    /\ c.buffer = 0 \/ c.buffer \in Buffers
    /\ c.at \in Nat /\ c.count \in Nat /\ c.read \in Nat /\ c.exec \in Nat
    /\ c.buffer # 0 => c.open

\* A row that is held has the data that were read, in no cursor's buffer.
OraHeld(s) ==
    \A r \in s.held :
      /\ r.buffer \in Buffers /\ r.buffer # s.cursor.buffer /\ r.at \in 0..(FetchSize - 1)
      /\ s.data[r.buffer][1][r.at] = r.data /\ r.data # Ora!Empty
OraComing(s) ==
    s.coming \in Seq(Nat \X Nat) /\ \A j \in 1..Len(s.coming) : s.coming[j] # Ora!Empty
OraPlain(s) ==
    /\ OraShape(s) /\ OraCursor(s.cursor) /\ s.threw \in BOOLEAN /\ s.misuse = {}
    /\ On(s.define, Columns) /\ On(s.data, Buffers)
    /\ \A c \in Columns : s.define[c] = 0 \/ s.define[c] \in Buffers
    /\ s.exec \in Nat /\ s.cursor.exec <= s.exec
    /\ s.cursor.open => s.handle = "open"
    /\ OraComing(s) /\ OraHeld(s)
\* The rows of a batch, and those that come after it.
OraBatch(c, d, coming) ==
    IF c.count = 0
    THEN c.read = 0 /\ \A j \in 1..Len(coming) : coming[j] = <<c.exec, j>>
    ELSE /\ c.at < c.count /\ c.at < c.read
         /\ \A col \in Columns, i \in 0..(c.count - 1) : d[col][i] = <<c.exec, c.read - c.at + i>>
         /\ \A j \in 1..Len(coming) :
              coming[j] = <<c.exec, (c.read - c.at) + c.count + (j - 1)>>
\* The handle fills the cursor's buffer until it is executed again.
OraAt(s) ==
    s.cursor.buffer # 0 /\ s.cursor.exec = s.exec =>
      /\ \A col \in Columns : s.define[col] = s.cursor.buffer
      /\ ~ s.cursor.failed => OraBatch(s.cursor, s.data[s.cursor.buffer], s.coming)
OraGood(s) == OraPlain(s) /\ OraAt(s) /\ ~ s.threw
\* Executed since the cursor was.
OraPast(s) == OraPlain(s) /\ s.handle = "open" /\ s.cursor.exec < s.exec

-----------------------------------------------------------------------------
OraCalled(s) ==
    LET t == [s EXCEPT !.calls = s.calls + 1, !.misuse = s.misuse]
    IN IF t.calls = s.failing THEN [t EXCEPT !.threw = TRUE] ELSE t

LEMMA OraCalledIs ==
  ASSUME NEW s, OraShape(s), s.handle = "open"
  PROVE  Ora!CallOn(s) = OraCalled(s)
<1>1. [s EXCEPT !.calls = @ + 1, !.misuse = IF s.handle = "open" THEN @ ELSE @ \cup {"closed handle"}]
        = [s EXCEPT !.calls = s.calls + 1, !.misuse = s.misuse]
  BY DEF OraShape
<1>. QED
  BY <1>1 DEF Ora!CallOn, Ora!Call, Ora!Throw, OraCalled

OraKept(s, t) ==
    /\ t.handle = s.handle /\ t.define = s.define /\ t.coming = s.coming /\ t.exec = s.exec
    /\ t.data = s.data /\ t.held = s.held /\ t.spoilt = s.spoilt
    /\ t.cursor = s.cursor /\ t.misuse = s.misuse
OraAlike(s, t) == OraKept(s, t) /\ t.local = s.local /\ t.rows = s.rows

LEMMA OraKeptPlain ==
  ASSUME NEW s, NEW t, OraPlain(s), OraShape(t), t.threw \in BOOLEAN, OraKept(s, t)
  PROVE  /\ OraPlain(t)
         /\ OraAt(s) => OraAt(t)
         /\ OraPast(s) => OraPast(t)
<1>1. OraHeld(t) /\ OraComing(t)
  BY DEF OraPlain, OraHeld, OraComing, OraKept
<1>2. OraPlain(t)
  BY <1>1 DEF OraPlain, OraKept
<1>3. OraAt(s) => OraAt(t)
  BY DEF OraAt, OraKept
<1>4. OraPast(s) => OraPast(t)
  BY <1>2 DEF OraPast, OraKept
<1>. QED
  BY <1>2, <1>3, <1>4

LEMMA OraCall ==
  ASSUME NEW s, OraPlain(s), ~ s.threw, s.handle = "open"
  PROVE  LET t == Ora!CallOn(s)
         IN /\ OraPlain(t) /\ OraAlike(s, t)
            /\ OraAt(s) => OraAt(t)
            /\ OraPast(s) => OraPast(t)
<1> SUFFICES ASSUME NEW t, t = Ora!CallOn(s)
             PROVE  /\ OraPlain(t) /\ OraAlike(s, t)
                    /\ OraAt(s) => OraAt(t)
                    /\ OraPast(s) => OraPast(t)
  OBVIOUS
<1> DEFINE u == [s EXCEPT !.calls = s.calls + 1, !.misuse = s.misuse]
<1>0. OraShape(s)
  BY DEF OraPlain
<1>1. u = [s EXCEPT !.calls = s.calls + 1, !.misuse = s.misuse]
  OBVIOUS
<1>2. t = u \/ t = [u EXCEPT !.threw = TRUE]
  BY <1>0, OraCalledIs DEF OraCalled
<1> HIDE DEF u
<1>3. OraShape(u) /\ u.threw = s.threw /\ OraAlike(s, u)
  BY <1>0, <1>1 DEF OraShape, OraAlike, OraKept
<1>4. OraShape(t) /\ t.threw \in BOOLEAN /\ OraAlike(s, t)
  BY <1>2, <1>3 DEF OraPlain, OraShape, OraAlike, OraKept
<1>. QED
  BY <1>4, OraKeptPlain DEF OraAlike

-----------------------------------------------------------------------------
(* Free buffers. *)
LEMMA OraCount == ASSUME NEW S PROVE Ora!Cardinality(S) = Cardinality(S)
BY DEF Ora!Cardinality, Cardinality

OraFree(s) == Buffers \ Ora!Referred(s)
LEMMA OraRoom ==
  ASSUME NEW s
  PROVE  /\ IsFiniteSet(OraFree(s)) /\ Cardinality(OraFree(s)) \in Nat
         /\ Cardinality(OraFree(s)) > 0 =>
              Ora!FreeBuffer(s) \in Buffers /\ Ora!FreeBuffer(s) \notin Ora!Referred(s)
<1>1. IsFiniteSet(OraFree(s))
  BY OraAssumption, FS_Subset DEF OraFree
<1>2. Cardinality(OraFree(s)) \in Nat
  BY <1>1, FS_CardinalityType
<1>3. Cardinality(OraFree(s)) > 0 => OraFree(s) # {}
  BY <1>1, FS_EmptySet
<1>4. OraFree(s) # {} =>
        Ora!FreeBuffer(s) \in Buffers /\ Ora!FreeBuffer(s) \notin Ora!Referred(s)
  BY DEF OraFree, Ora!FreeBuffer
<1>. QED
  BY <1>1, <1>2, <1>3, <1>4

\* One buffer less.
LEMMA OraOneLess ==
  ASSUME NEW s, NEW t, NEW b, Ora!Referred(t) \subseteq Ora!Referred(s) \cup {b}
  PROVE  Cardinality(OraFree(t)) >= Cardinality(OraFree(s)) - 1
<1>1. IsFiniteSet(OraFree(s)) /\ Cardinality(OraFree(s)) \in Nat
      /\ IsFiniteSet(OraFree(t)) /\ Cardinality(OraFree(t)) \in Nat
  BY OraRoom
<1> DEFINE R == OraFree(s) \ {b}
<1>2. IsFiniteSet(R) /\ Cardinality(R) = IF b \in OraFree(s) THEN Cardinality(OraFree(s)) - 1
                                         ELSE Cardinality(OraFree(s))
  BY <1>1, FS_RemoveElement
<1>3. R \subseteq OraFree(t)
  BY DEF OraFree
<1>4. Cardinality(R) <= Cardinality(OraFree(t))
  BY <1>1, <1>3, FS_Subset
<1> HIDE DEF R
<1>. QED
  BY <1>1, <1>2, <1>4


\* A new result: rows 1 to n of this execution.
OraResult(s) == \A j \in 1..Len(s.coming) : s.coming[j] = <<s.exec, j>>
OraRest(s, t) ==
    /\ t.handle = s.handle /\ t.define = s.define /\ t.data = s.data /\ t.local = s.local
    /\ t.rows = s.rows /\ t.held = s.held /\ t.spoilt = s.spoilt /\ t.cursor = s.cursor
LEMMA OraExecute ==
  ASSUME NEW s, OraPlain(s), OraAt(s), ~ s.threw, s.handle = "open", NEW n \in Nat
  PROVE  LET t == Ora!ExecuteSelect(s, n)
         IN /\ OraPlain(t) /\ OraRest(s, t)
            /\ t.threw => OraAt(t)
            /\ ~ t.threw => OraPast(t) /\ OraResult(t)
<1> SUFFICES ASSUME NEW t, t = Ora!ExecuteSelect(s, n)
             PROVE  /\ OraPlain(t) /\ OraRest(s, t)
                    /\ t.threw => OraAt(t)
                    /\ ~ t.threw => OraPast(t) /\ OraResult(t)
  OBVIOUS
<1> DEFINE c == Ora!CallOn(s)
           sent == [i \in 1..n |-> <<c.exec + 1, i>>]
<1>1. t = IF c.threw THEN c ELSE [c EXCEPT !.exec = c.exec + 1, !.coming = sent]
  <2>1. OraShape(c)
    BY OraCall DEF OraPlain
  <2> HIDE DEF c
  <2>2. t = IF c.threw THEN c ELSE [c EXCEPT !.exec = @ + 1, !.coming = sent]
    BY DEF Ora!ExecuteSelect, c
  <2>. QED
    BY <2>1, <2>2 DEF OraShape
<1>2. /\ OraPlain(c) /\ OraAlike(s, c) /\ OraAt(c)
  BY OraCall
<1>2a. c.exec \in Nat
  BY <1>2 DEF OraPlain
<1>3. /\ sent \in Seq(Nat \X Nat) /\ Len(sent) = n
      /\ \A j \in 1..n : sent[j] = <<c.exec + 1, j>>
  <2> HIDE DEF c
  <2>1. \A i \in 1..n : <<c.exec + 1, i>> \in Nat \X Nat
    BY <1>2a
  <2>2. sent \in [1..n -> Nat \X Nat] /\ \A j \in 1..n : sent[j] = <<c.exec + 1, j>>
    BY <2>1
  <2> HIDE DEF sent
  <2>3. sent \in Seq(Nat \X Nat) /\ Len(sent) = n
    BY <2>2
  <2>. QED
    BY <2>2, <2>3
<1> HIDE DEF c, sent
<1>4. CASE c.threw
  BY <1>1, <1>2, <1>4 DEF OraRest, OraAlike, OraKept
<1>5. CASE ~ c.threw
  <2>1. /\ OraShape(t) /\ OraRest(c, t) /\ t.threw = c.threw /\ t.misuse = c.misuse
        /\ t.exec = c.exec + 1 /\ t.coming = sent
    BY <1>1, <1>2, <1>5 DEF OraPlain, OraShape, OraRest
  <2>2. OraComing(t)
    BY <1>2a, <1>3, <2>1 DEF OraComing, Ora!Empty
  <2>3. OraHeld(t)
    BY <1>2, <2>1 DEF OraPlain, OraHeld, OraRest
  <2>4. t.exec \in Nat /\ t.cursor.exec <= t.exec /\ t.cursor.exec < t.exec
    <3>1. c.cursor.exec \in Nat /\ c.cursor.exec <= c.exec
      BY <1>2 DEF OraPlain, OraCursor
    <3>. QED
      BY <1>2a, <2>1, <3>1 DEF OraRest
  <2>5. OraPlain(t)
    BY <1>2, <2>1, <2>2, <2>3, <2>4 DEF OraPlain, OraRest
  <2>6. OraPast(t)
    BY <1>2, <2>1, <2>4, <2>5 DEF OraPast, OraRest, OraAlike, OraKept
  <2>7. OraResult(t)
    BY <1>3, <2>1 DEF OraResult
  <2>. QED
    BY <1>2, <1>5, <2>1, <2>5, <2>6, <2>7 DEF OraRest, OraAlike, OraKept
<1>. QED
  BY <1>4, <1>5

-----------------------------------------------------------------------------
\* Columns are defined with a buffer that nobody refers to.
OraDefined(s, columns, b, t) ==
    /\ t.coming = s.coming /\ t.exec = s.exec /\ t.held = s.held /\ t.spoilt = s.spoilt
    /\ t.cursor = s.cursor /\ t.rows = s.rows /\ t.local = s.local \cup {b}
    /\ b \in Buffers /\ b \notin Ora!Referred(s)
    /\ ~ t.threw => \A c \in Columns : t.define[c] = IF c \in columns THEN b ELSE s.define[c]
LEMMA OraDefine ==
  ASSUME NEW s, OraPast(s), ~ s.threw, NEW columns, Cardinality(OraFree(s)) > 0
  PROVE  LET t == Ora!DefineColumns(s, columns)
         IN OraPast(t) /\ OraDefined(s, columns, Ora!FreeBuffer(s), t)
<1> SUFFICES ASSUME NEW t, t = Ora!DefineColumns(s, columns), NEW b, b = Ora!FreeBuffer(s)
             PROVE  OraPast(t) /\ OraDefined(s, columns, b, t)
  OBVIOUS
<1> DEFINE own == s.local \cup {b}
           u == [s EXCEPT !.local = own]
           c == Ora!CallOn(u)
           define == [x \in Columns |-> IF x \in columns THEN b ELSE c.define[x]]
           empty == [x \in Columns |-> [i \in 0..(FetchSize - 1) |-> Ora!Empty]]
<1>0. OraShape(s) /\ OraPlain(s) /\ s.handle = "open"
  BY DEF OraPast, OraPlain
<1>1. b \in Buffers /\ b \notin Ora!Referred(s)
  BY OraRoom
<1>2. u = [s EXCEPT !.local = @ \cup {b}]
  BY <1>0 DEF OraShape
<1>2a. u = [s EXCEPT !.local = own]
  OBVIOUS
<1> HIDE DEF own, u
<1>3. /\ OraShape(u) /\ OraKept(s, u) /\ u.local = own /\ u.rows = s.rows /\ u.threw = s.threw
  BY <1>0, <1>2a DEF OraShape, OraKept
<1>4. OraPlain(u) /\ OraPast(u) /\ u.handle = "open" /\ ~ u.threw
  <2>1. u.threw \in BOOLEAN
    BY <1>0, <1>3 DEF OraPlain
  <2>. QED
    BY <1>0, <1>3, <2>1, OraKeptPlain DEF OraKept
<1>5. OraPlain(c) /\ OraAlike(u, c) /\ OraPast(c)
  BY <1>4, OraCall
<1>6. t = IF c.threw THEN c ELSE [c EXCEPT !.define = define, !.data = Put(c.data, b, empty)]
  <2>1. OraShape(c)
    BY <1>5 DEF OraPlain
  <2>2. t = IF c.threw THEN c
            ELSE [c EXCEPT !.define = [x \in Columns |-> IF x \in columns THEN b ELSE @[x]],
                           !.data[b] = empty]
    BY <1>2 DEF Ora!DefineColumns
  <2> HIDE DEF c, empty
  <2>3. [c EXCEPT !.define = [x \in Columns |-> IF x \in columns THEN b ELSE @[x]],
                  !.data[b] = empty]
          = [c EXCEPT !.define = define, !.data = Put(c.data, b, empty)]
    BY <2>1 DEF OraShape, Put
  <2>. QED
    BY <2>2, <2>3
<1>7. On(define, Columns) /\ \A x \in Columns : define[x] = IF x \in columns THEN b ELSE c.define[x]
  BY DEF On
<1> HIDE DEF c, define, empty
<1>8. c.coming = s.coming /\ c.exec = s.exec /\ c.held = s.held /\ c.spoilt = s.spoilt
      /\ c.cursor = s.cursor /\ c.rows = s.rows /\ c.local = s.local \cup {b}
      /\ c.define = s.define
  BY <1>3, <1>5 DEF OraAlike, OraKept, own
<1>9. CASE c.threw
  BY <1>1, <1>5, <1>6, <1>8, <1>9 DEF OraDefined
<1>10. CASE ~ c.threw
  <2>1. /\ OraShape(t) /\ t.handle = c.handle /\ t.coming = c.coming /\ t.exec = c.exec
        /\ t.local = c.local /\ t.rows = c.rows /\ t.held = c.held /\ t.spoilt = c.spoilt
        /\ t.cursor = c.cursor /\ t.misuse = c.misuse /\ t.threw = c.threw
        /\ t.define = define /\ t.data = Put(c.data, b, empty)
    BY <1>5, <1>6, <1>10 DEF OraPlain, OraShape
  <2>2. On(t.data, Buffers) /\ \A x \in Buffers : x # b => t.data[x] = c.data[x]
    BY <1>1, <1>5, <2>1, PutAt DEF OraPlain
  <2>3. \A r \in s.held : r.buffer # b
    BY <1>1 DEF Ora!Referred, Ora!HeldBuffers
  <2>4. OraHeld(t)
    BY <1>5, <1>8, <2>1, <2>2, <2>3 DEF OraPlain, OraHeld
  <2>5. OraComing(t)
    BY <1>5, <2>1 DEF OraPlain, OraComing
  <2>6. \A x \in Columns : t.define[x] = 0 \/ t.define[x] \in Buffers
    BY <1>1, <1>5, <1>7, <2>1 DEF OraPlain
  <2>7. OraPlain(t)
    BY <1>5, <1>7, <2>1, <2>2, <2>4, <2>5, <2>6 DEF OraPlain
  <2>8. OraPast(t)
    BY <1>5, <2>1, <2>7 DEF OraPast
  <2>. QED
    BY <1>1, <1>7, <1>8, <1>10, <2>1, <2>8 DEF OraDefined
<1>. QED
  BY <1>9, <1>10

-----------------------------------------------------------------------------
\* A fetch goes to buffers that somebody refers to, and to no held row.
OraTargets(s) ==
    /\ \A c \in Columns : s.define[c] # 0 =>
         s.define[c] \in Ora!Referred(s) \/ s.define[c] \in s.spoilt
    /\ \A r \in s.held : r.buffer # s.define[1]
OraSame(s, t) ==
    /\ t.handle = s.handle /\ t.define = s.define /\ t.exec = s.exec /\ t.local = s.local
    /\ t.rows = s.rows /\ t.held = s.held /\ t.spoilt = s.spoilt /\ t.cursor = s.cursor
OraFetched(s, count, t) ==
    LET k == Ora!Delivered(s, count)
    IN /\ t.threw \/ s.coming = << >> => t.data = s.data /\ t.coming = s.coming
       /\ ~ t.threw /\ s.coming # << >> =>
            /\ Len(t.coming) = Len(s.coming) - k
            /\ \A j \in 1..Len(t.coming) : t.coming[j] = s.coming[k + j]
            /\ \A c \in Columns, i \in 0..(FetchSize - 1) : i < k /\ s.define[c] # 0 =>
                 t.data[s.define[c]][c][i] = s.coming[i + 1]

LEMMA OraDelivered ==
  ASSUME NEW s, OraComing(s), NEW count \in Nat
  PROVE  LET k == Ora!Delivered(s, count)
         IN /\ k \in Nat /\ k <= count /\ k <= Len(s.coming) /\ Len(s.coming) \in Nat
            /\ k = count \/ k = Len(s.coming)
            /\ k = 0 /\ count # 0 => s.coming = << >>
            /\ s.coming = << >> => k = 0
BY EmptySeq DEF OraComing, Ora!Delivered, Ora!Smaller

LEMMA OraFetch ==
  ASSUME NEW s, OraPlain(s), ~ s.threw, s.handle = "open", NEW count \in Nat, OraTargets(s)
  PROVE  LET t == Ora!FetchRows(s, count)
         IN OraPlain(t) /\ OraSame(s, t) /\ OraFetched(s, count, t)
<1> SUFFICES ASSUME NEW t, t = Ora!FetchRows(s, count)
             PROVE  OraPlain(t) /\ OraSame(s, t) /\ OraFetched(s, count, t)
  OBVIOUS
<1> DEFINE c == Ora!CallOn(s)
           k == Ora!Delivered(c, count)
           data == Ora!Filled(c, count)
           left == SubSeq(c.coming, k + 1, Len(c.coming))
<1>1. /\ OraPlain(c) /\ OraAlike(s, c)
  BY OraCall
<1>1a. k = Ora!Delivered(s, count)
  BY <1>1 DEF Ora!Delivered, OraAlike, OraKept
<1>2. t = IF c.threw \/ c.coming = << >> THEN c
          ELSE [c EXCEPT !.data = data, !.coming = left, !.misuse = c.misuse]
  <2>1. OraShape(c)
    BY <1>1 DEF OraPlain
  <2>2. Ora!Targets(c) \subseteq Ora!Referred(c) \cup c.spoilt
    <3>1. c.define = s.define /\ c.spoilt = s.spoilt /\ c.local = s.local /\ c.held = s.held
          /\ c.cursor = s.cursor
      BY <1>1 DEF OraAlike, OraKept
    <3> HIDE DEF c
    <3>2. Ora!Referred(c) = Ora!Referred(s)
      BY <3>1 DEF Ora!Referred, Ora!HeldBuffers
    <3>. QED
      BY <3>1, <3>2 DEF Ora!Targets, Ora!None, OraTargets
  <2>3. t = IF c.threw \/ c.coming = << >> THEN c
            ELSE [c EXCEPT !.data = data, !.coming = SubSeq(@, k + 1, Len(@)),
                           !.misuse = IF Ora!Targets(c) \subseteq Ora!Referred(c) \cup c.spoilt THEN @
                                      ELSE @ \cup {"released buffer"}]
    BY DEF Ora!FetchRows
  <2> HIDE DEF c, data, k
  <2>4. [c EXCEPT !.data = data, !.coming = SubSeq(@, k + 1, Len(@)),
                           !.misuse = IF Ora!Targets(c) \subseteq Ora!Referred(c) \cup c.spoilt THEN @
                                      ELSE @ \cup {"released buffer"}]
          = [c EXCEPT !.data = data, !.coming = left, !.misuse = c.misuse]
    BY <2>1, <2>2 DEF OraShape
  <2>. QED
    BY <2>3, <2>4
<1>3. /\ On(data, Buffers)
      /\ \A b \in Buffers, x \in Columns, i \in 0..(FetchSize - 1) :
           data[b][x][i] = IF c.define[x] = b /\ i < k THEN c.coming[i + 1] ELSE c.data[b][x][i]
  <2> HIDE DEF c, k
  <2>. QED
    BY DEF Ora!Filled, On, k
<1>4. /\ k \in Nat /\ k <= count /\ k <= Len(c.coming) /\ Len(c.coming) \in Nat
      /\ c.coming \in Seq(Nat \X Nat)
  BY <1>1, OraDelivered DEF OraPlain, OraComing
<1>5. /\ left \in Seq(Nat \X Nat) /\ Len(left) = Len(c.coming) - k
      /\ \A j \in 1..Len(left) : left[j] = c.coming[k + j]
  <2> HIDE DEF c, k
  <2>. QED
    BY <1>4
<1>6. c.coming = s.coming /\ c.data = s.data /\ c.define = s.define /\ OraSame(s, c)
  BY <1>1 DEF OraAlike, OraKept, OraSame
<1> HIDE DEF c, data, left, k
<1>7. CASE c.threw \/ c.coming = << >>
  BY <1>1, <1>2, <1>6, <1>7 DEF OraFetched
<1>8. CASE ~ (c.threw \/ c.coming = << >>)
  <2>1. /\ OraShape(t) /\ OraSame(c, t) /\ t.misuse = c.misuse /\ t.threw = c.threw
        /\ t.data = data /\ t.coming = left
    BY <1>1, <1>2, <1>8 DEF OraPlain, OraShape, OraSame
  <2>2. OraComing(t)
    <3>1. \A j \in 1..Len(left) : k + j \in 1..Len(c.coming)
      BY <1>4, <1>5
    <3>. QED
      BY <1>1, <1>5, <2>1, <3>1 DEF OraPlain, OraComing
  <2>3. OraHeld(t)
    <3>1. ASSUME NEW r \in t.held
          PROVE  /\ r.buffer \in Buffers /\ r.buffer # t.cursor.buffer /\ r.at \in 0..(FetchSize - 1)
                 /\ t.data[r.buffer][1][r.at] = r.data /\ r.data # Ora!Empty
      <4>1. r \in c.held /\ c.held = s.held /\ c.cursor = t.cursor
        BY <1>6, <2>1 DEF OraSame
      <4>2. /\ r.buffer \in Buffers /\ r.buffer # c.cursor.buffer /\ r.at \in 0..(FetchSize - 1)
            /\ c.data[r.buffer][1][r.at] = r.data /\ r.data # Ora!Empty
        BY <1>1, <4>1 DEF OraPlain, OraHeld
      <4>3. c.define[1] # r.buffer
        BY <1>6, <4>1 DEF OraTargets
      <4>4. data[r.buffer][1][r.at] = c.data[r.buffer][1][r.at]
        BY <1>3, <4>2, <4>3, OraAssumption
      <4>. QED
        BY <2>1, <4>1, <4>2, <4>4
    <3>. QED
      BY <3>1 DEF OraHeld
  <2>4. OraPlain(t)
    BY <1>1, <1>3, <2>1, <2>2, <2>3 DEF OraPlain, OraSame
  <2>5. OraFetched(s, count, t)
    <3>1. \A x \in Columns, i \in 0..(FetchSize - 1) : i < k /\ s.define[x] # 0 =>
            t.data[s.define[x]][x][i] = s.coming[i + 1]
      BY <1>1, <1>3, <1>6, <2>1 DEF OraPlain
    <3>2. ~ t.threw /\ s.coming # << >> /\ Len(t.coming) = Len(s.coming) - k
          /\ \A j \in 1..Len(t.coming) : t.coming[j] = s.coming[k + j]
      BY <1>5, <1>6, <1>8, <2>1
    <3>. QED
      BY <1>1a, <3>1, <3>2 DEF OraFetched
  <2>. QED
    BY <1>6, <2>1, <2>4, <2>5 DEF OraSame
<1>. QED
  BY <1>7, <1>8


OraLeft(t) == OraPlain(t) /\ OraAt(t)
LEMMA OraPastLeft == ASSUME NEW s, OraPast(s) PROVE OraLeft(s)
<1>1. s.cursor.exec \in Nat /\ s.exec \in Nat /\ s.cursor.exec < s.exec
  BY DEF OraPast, OraPlain, OraCursor
<1>2. s.cursor.exec # s.exec
  BY <1>1
<1>. QED
  BY <1>2 DEF OraLeft, OraAt, OraPast

\* The client gets rows of a buffer.
OraTook(c, t, b, k) ==
    /\ OraShape(t) /\ t.handle = c.handle /\ t.define = c.define /\ t.coming = c.coming
    /\ t.exec = c.exec /\ t.data = c.data /\ t.local = c.local /\ t.spoilt = c.spoilt
    /\ t.cursor = c.cursor /\ t.misuse = c.misuse /\ t.threw = c.threw
    /\ t.held = c.held \cup {Ora!RowAt(c, b, i) : i \in 0..(k - 1)}
    /\ OraPast(c) /\ b \in Buffers /\ b # c.cursor.buffer /\ k \in Nat /\ k <= FetchSize
    /\ \A i \in 0..(k - 1) : c.data[b][1][i] # Ora!Empty
LEMMA OraRows ==
  ASSUME NEW c, NEW t, NEW b, NEW k, OraTook(c, t, b, k)
  PROVE  OraPast(t)
<1>1. OraPast(c) /\ OraPlain(c)
  BY DEF OraTook, OraPast
<1>2. \A i \in 0..(k - 1) : i \in 0..(FetchSize - 1)
  BY OraAssumption DEF OraTook
<1>3. ASSUME NEW i \in 0..(k - 1)
      PROVE  LET r == Ora!RowAt(c, b, i)
             IN /\ r.buffer \in Buffers /\ r.buffer # t.cursor.buffer /\ r.at \in 0..(FetchSize - 1)
                /\ t.data[r.buffer][1][r.at] = r.data /\ r.data # Ora!Empty
  <2> DEFINE r == Ora!RowAt(c, b, i)
  <2>1. r.buffer = b /\ r.at = i /\ r.data = c.data[b][1][i]
    BY DEF Ora!RowAt
  <2> HIDE DEF r
  <2>2. /\ r.buffer \in Buffers /\ r.buffer # t.cursor.buffer /\ r.at \in 0..(FetchSize - 1)
        /\ t.data[r.buffer][1][r.at] = r.data /\ r.data # Ora!Empty
    BY <1>2, <2>1 DEF OraTook
  <2>. QED
    BY <2>2 DEF r
<1>4. OraHeld(t)
  <2>1. ASSUME NEW r \in t.held
        PROVE  /\ r.buffer \in Buffers /\ r.buffer # t.cursor.buffer /\ r.at \in 0..(FetchSize - 1)
               /\ t.data[r.buffer][1][r.at] = r.data /\ r.data # Ora!Empty
    <3>1. CASE r \in c.held
      BY <1>1, <3>1 DEF OraTook, OraPlain, OraHeld
    <3>2. CASE r \notin c.held
      <4>1. PICK i \in 0..(k - 1) : r = Ora!RowAt(c, b, i)
        BY <2>1, <3>2 DEF OraTook
      <4>. QED
        BY <1>3, <4>1
    <3>. QED
      BY <3>1, <3>2
  <2>. QED
    BY <2>1 DEF OraHeld
<1>5. OraComing(t)
  BY <1>1 DEF OraTook, OraPlain, OraComing
<1>6. OraPlain(t)
  BY <1>1, <1>4, <1>5 DEF OraTook, OraPlain
<1>. QED
  BY <1>1, <1>6 DEF OraTook, OraPast

LEMMA OraReferredTook ==
  ASSUME NEW c, NEW t, NEW b, NEW k, OraTook(c, t, b, k)
  PROVE  Ora!Referred(t) \subseteq Ora!Referred(c) \cup {b}
<1>1. \A i \in 0..(k - 1) : Ora!RowAt(c, b, i).buffer = b
  BY DEF Ora!RowAt
<1>2. \A r \in t.held : r \in c.held \/ r.buffer = b
  BY <1>1 DEF OraTook
<1>. QED
  BY <1>2 DEF OraTook, Ora!Referred, Ora!HeldBuffers

-----------------------------------------------------------------------------
\* The columns are defined and the handle is fetched: a batch, or a single row.
LEMMA OraTargetsDefined ==
  ASSUME NEW s, NEW columns, NEW b, NEW t, OraDefined(s, columns, b, t), ~ t.threw,
         1 \in columns, OraPlain(t),
         \A c \in Columns : c \notin columns /\ s.define[c] # 0 => s.define[c] \in s.spoilt
  PROVE  OraTargets(t) /\ t.define[1] = b
<1>1. t.define[1] = b
  BY OraAssumption DEF OraDefined
<1>2. \A r \in t.held : r.buffer # b
  BY DEF OraDefined, Ora!Referred, Ora!HeldBuffers
<1>3. b \in Ora!Referred(t)
  BY DEF OraDefined, Ora!Referred
<1>. QED
  BY <1>1, <1>2, <1>3 DEF OraTargets, OraDefined

LEMMA OraReferredDefined ==
  ASSUME NEW s, NEW columns, NEW b, NEW t, OraDefined(s, columns, b, t)
  PROVE  Ora!Referred(t) \subseteq Ora!Referred(s) \cup {b}
BY DEF OraDefined, Ora!Referred, Ora!HeldBuffers

OraWithin(s, t) ==
    /\ OraPast(t) /\ s.held \subseteq t.held
    /\ Cardinality(OraFree(t)) >= Cardinality(OraFree(s)) - 1
LEMMA OraResultBatch ==
  ASSUME NEW s, OraPast(s), ~ s.threw, Cardinality(OraFree(s)) > 0
  PROVE  OraWithin(s, Ora!ResultBatch(s))
<1> SUFFICES ASSUME NEW t, t = Ora!ResultBatch(s)
             PROVE  OraWithin(s, t)
  OBVIOUS
<1>1. CASE s.rows # << >> /\ Ora!Last(s.rows) < FetchSize
  <2>1. t = s
    BY <1>1 DEF Ora!ResultBatch
  <2>2. Cardinality(OraFree(s)) \in Nat
    BY OraRoom
  <2>. QED
    BY <2>1, <2>2 DEF OraWithin
<1>2. CASE ~ (s.rows # << >> /\ Ora!Last(s.rows) < FetchSize)
  <2> DEFINE b == Ora!FreeBuffer(s)
             a == Ora!DefineColumns(s, Columns)
             f == IF a.threw THEN a ELSE Ora!FetchRows(a, FetchSize)
             c == IF f.threw THEN f ELSE Ora!CallOn(f)
             k == Ora!Delivered(s, FetchSize)
             new == {Ora!RowAt(c, Ora!NewBuffer(c), i) : i \in 0..(k - 1)}
             rows == Append(c.rows, k)
  <2>1. t = IF c.threw THEN c ELSE [c EXCEPT !.rows = Append(@, k), !.held = @ \cup new]
    BY <1>2 DEF Ora!ResultBatch, Ora!Then
  <2>2. OraPast(a) /\ OraDefined(s, Columns, b, a)
    BY OraDefine
  <2> HIDE DEF a, b
  <2>3. /\ OraPast(f) /\ f.held = s.held /\ Ora!Referred(f) \subseteq Ora!Referred(s) \cup {b}
        /\ ~ f.threw => /\ ~ a.threw /\ f.define[1] = b /\ f.cursor = s.cursor
                        /\ OraFetched(a, FetchSize, f)
    <3>0. Ora!Referred(a) \subseteq Ora!Referred(s) \cup {b} /\ a.held = s.held /\ a.cursor = s.cursor
      BY <2>2, OraReferredDefined DEF OraDefined
    <3>1. CASE a.threw
      BY <2>2, <3>0, <3>1
    <3>2. CASE ~ a.threw
      <4>1. OraTargets(a) /\ a.define[1] = b
        BY <2>2, <3>2, OraTargetsDefined, OraAssumption DEF OraPast
      <4>2. f = Ora!FetchRows(a, FetchSize) /\ FetchSize \in Nat
        BY <3>2, OraAssumption
      <4> HIDE DEF f
      <4>3. OraPlain(f) /\ OraSame(a, f) /\ OraFetched(a, FetchSize, f)
        BY <2>2, <3>2, <4>1, <4>2, OraFetch DEF OraPast
      <4>4. OraPast(f)
        BY <2>2, <4>3 DEF OraPast, OraSame
      <4>5. Ora!Referred(f) = Ora!Referred(a)
        BY <4>3 DEF OraSame, Ora!Referred, Ora!HeldBuffers
      <4>. QED
        BY <3>0, <3>2, <4>1, <4>3, <4>4, <4>5 DEF OraSame
    <3>. QED
      BY <3>1, <3>2
  <2> HIDE DEF f
  <2>4. /\ OraPast(c) /\ c.held = s.held /\ Ora!Referred(c) \subseteq Ora!Referred(s) \cup {b}
        /\ ~ c.threw => /\ ~ f.threw /\ c.define[1] = b /\ c.cursor = s.cursor /\ c.data = f.data
    <3>1. CASE f.threw
      BY <2>3, <3>1
    <3>2. CASE ~ f.threw
      <4>1. OraPast(c) /\ OraAlike(f, c)
        BY <2>3, <3>2, OraCall DEF OraPast
      <4> HIDE DEF c
      <4>2. Ora!Referred(c) = Ora!Referred(f)
        BY <4>1 DEF OraAlike, OraKept, Ora!Referred, Ora!HeldBuffers
      <4>. QED
        BY <2>3, <3>2, <4>1, <4>2 DEF OraAlike, OraKept
    <3>. QED
      BY <3>1, <3>2
  <2> HIDE DEF c
  <2>5. CASE c.threw
    <3>1. Cardinality(OraFree(c)) >= Cardinality(OraFree(s)) - 1
      BY <2>4, OraOneLess
    <3>. QED
      BY <2>1, <2>4, <2>5, <3>1 DEF OraWithin
  <2>6. CASE ~ c.threw
    <3>1. OraShape(c)
      BY <2>4 DEF OraPast, OraPlain
    <3>2. t = [c EXCEPT !.rows = rows, !.held = c.held \cup new]
      <4>1. t = [c EXCEPT !.rows = Append(@, k), !.held = @ \cup new]
        BY <2>1, <2>6
      <4> HIDE DEF new, k
      <4>. QED
        BY <3>1, <4>1 DEF OraShape
    <3>3. new = {Ora!RowAt(c, b, i) : i \in 0..(k - 1)}
      BY <2>4, <2>6 DEF Ora!NewBuffer
    <3>4. /\ k \in Nat /\ k <= FetchSize /\ Len(s.coming) \in Nat /\ k <= Len(s.coming)
          /\ k # 0 => s.coming # << >>
      BY OraDelivered, OraAssumption DEF OraPast, OraPlain
    <3>5. ASSUME NEW i \in 0..(k - 1)
          PROVE  c.data[b][1][i] # Ora!Empty
      <4>1. OraFetched(a, FetchSize, f) /\ a.coming = s.coming /\ ~ f.threw /\ a.define[1] = b
            /\ b \in Buffers
        <5>1. ~ f.threw /\ ~ a.threw
          BY <2>3, <2>4, <2>6
        <5>2. a.define[1] = b
          BY <2>2, <5>1, OraAssumption DEF OraDefined
        <5>. QED
          BY <2>2, <2>3, <5>1, <5>2 DEF OraDefined
      <4>2. k = Ora!Delivered(a, FetchSize)
        BY <4>1 DEF Ora!Delivered
      <4>3. i \in 0..(FetchSize - 1) /\ i < k /\ i + 1 \in 1..Len(s.coming) /\ k # 0
        BY <3>4, OraAssumption
      <4> HIDE DEF k
      <4>4. f.data[b][1][i] = s.coming[i + 1]
        BY <3>4, <4>1, <4>2, <4>3, OraAssumption DEF OraFetched
      <4>5. s.coming[i + 1] # Ora!Empty
        BY <4>3 DEF OraPast, OraPlain, OraComing
      <4>. QED
        BY <2>4, <2>6, <4>4, <4>5
    <3>6. b \in Buffers /\ b # c.cursor.buffer
      BY <2>2, <2>4, <2>6 DEF OraDefined, Ora!Referred
    <3> HIDE DEF k, rows, new
    <3>7. OraTook(c, t, b, k)
      <4>1. /\ OraShape(t) /\ t.handle = c.handle /\ t.define = c.define /\ t.coming = c.coming
            /\ t.exec = c.exec /\ t.data = c.data /\ t.local = c.local /\ t.spoilt = c.spoilt
            /\ t.cursor = c.cursor /\ t.misuse = c.misuse /\ t.threw = c.threw
            /\ t.held = c.held \cup new
        BY <3>1, <3>2 DEF OraShape
      <4>. QED
        BY <2>4, <3>3, <3>4, <3>5, <3>6, <4>1 DEF OraTook
    <3>8. OraPast(t) /\ Ora!Referred(t) \subseteq Ora!Referred(c) \cup {b}
      BY <3>7, OraRows, OraReferredTook
    <3>9. Ora!Referred(t) \subseteq Ora!Referred(s) \cup {b}
      BY <2>4, <3>8
    <3>10. Cardinality(OraFree(t)) >= Cardinality(OraFree(s)) - 1
      BY <3>9, OraOneLess
    <3>11. s.held \subseteq t.held
      BY <2>4, <3>7 DEF OraTook
    <3>. QED
      BY <3>8, <3>10, <3>11 DEF OraWithin
  <2>. QED
    BY <2>5, <2>6
<1>. QED
  BY <1>1, <1>2


\* The loop of a result makes one batch after the other.
OraFirst(s, n) ==
    LET a == IF s.threw THEN s ELSE Ora!GetHandle(s)
        e == IF a.threw THEN a ELSE Ora!ExecuteSelect(a, n)
    IN IF e.threw THEN e ELSE Ora!CallOn(e)
OraAfter(t) == IF t.threw THEN t ELSE Ora!ResultBatch(t)
OraUnless(s, all) == IF all.threw THEN [all EXCEPT !.held = s.held] ELSE all
LEMMA OraRounds ==
  ASSUME NEW s, ~ s.threw, NEW n \in Nat
  PROVE  \E run : /\ run[0] = OraFirst(s, n)
                  /\ \A i \in 1..(n + 1) : run[i] = OraAfter(run[i - 1])
                  /\ Ora!NewResult(s, n) = OraUnless(s, run[n + 1])
<1> DEFINE b == OraFirst(s, n)
           Run(r, m) == r = [i \in 0..m |-> IF i = 0 THEN b ELSE OraAfter(r[i - 1])]
           T == {m \in Nat : \E r : Run(r, m)}
           q == CHOOSE r : Run(r, n + 1)
<1>1. Ora!NewResult(s, n) = OraUnless(s, q[n + 1])
  BY DEF Ora!NewResult, Ora!Then, OraFirst, OraAfter, OraUnless
<1> HIDE DEF b
<1>2. 0 \in T
  <2>1. Run([i \in 0..0 |-> b], 0)
    OBVIOUS
  <2>. QED
    BY <2>1
<1>3. ASSUME NEW m \in Nat, m \in T
      PROVE  m + 1 \in T
  <2>1. PICK r : Run(r, m)
    BY <1>3
  <2> DEFINE p == [i \in 0..(m + 1) |-> IF i = m + 1 THEN OraAfter(r[m]) ELSE r[i]]
  <2>2. ASSUME NEW i \in 0..(m + 1)
        PROVE  p[i] = IF i = 0 THEN b ELSE OraAfter(p[i - 1])
    <3>1. CASE i = m + 1
      <4>1. p[m] = r[m] /\ m \in 0..(m + 1) /\ i - 1 = m /\ i # 0
        BY <3>1
      <4>2. p[i] = OraAfter(r[m])
        BY <3>1
      <4> HIDE DEF p
      <4>. QED
        BY <4>1, <4>2
    <3>2. CASE i # m + 1
      <4>1. i \in 0..m /\ p[i] = r[i]
        BY <3>2
      <4>2. r[i] = IF i = 0 THEN b ELSE OraAfter(r[i - 1])
        BY <2>1, <4>1
      <4>3. i # 0 => p[i - 1] = r[i - 1]
        BY <4>1
      <4> HIDE DEF p
      <4>. QED
        BY <4>1, <4>2, <4>3
    <3>. QED
      BY <3>1, <3>2
  <2>3. Run(p, m + 1)
    BY <2>2
  <2> HIDE DEF p, Run
  <2>. QED
    BY <2>3
<1>4. \E r : Run(r, n + 1)
  <2> HIDE DEF Run
  <2>1. n + 1 \in T
    <3>1. n + 1 \in Nat
      OBVIOUS
    <3> HIDE DEF T
    <3>. QED
      BY <1>2, <1>3, <3>1, Counting
  <2>. QED
    BY <2>1
<1>5. Run(q, n + 1)
  <2> HIDE DEF Run
  <2>. QED
    BY <1>4
<1>6. q[0] = b /\ \A i \in 1..(n + 1) : q[i] = OraAfter(q[i - 1])
  <2> HIDE DEF q
  <2>1. q = [i \in 0..(n + 1) |-> IF i = 0 THEN b ELSE OraAfter(q[i - 1])]
    BY <1>5
  <2>2. \A i \in 0..(n + 1) : q[i] = IF i = 0 THEN b ELSE OraAfter(q[i - 1])
    BY <2>1
  <2>. QED
    BY <2>2
<1> HIDE DEF q
<1>. QED
  BY <1>1, <1>6 DEF b

\* What a function of an open statement starts with.
OraStarted(s) ==
    /\ OraPlain(s) /\ OraAt(s) /\ ~ s.threw /\ s.handle = "open"
    /\ Cardinality(OraFree(s)) >= BatchedRows + 1
OraRan(s, t, i) ==
    /\ OraLeft(t) /\ s.held \subseteq t.held
    /\ ~ t.threw => OraPast(t) /\ Cardinality(OraFree(t)) >= BatchedRows + 1 - i

LEMMA OraReferredRest ==
  ASSUME NEW s, NEW t, OraRest(s, t)
  PROVE  Ora!Referred(t) = Ora!Referred(s) /\ OraFree(t) = OraFree(s)
<1>1. Ora!Referred(t) = Ora!Referred(s)
  BY DEF OraRest, Ora!Referred, Ora!HeldBuffers
<1>. QED
  BY <1>1 DEF OraFree

LEMMA OraFirstIs ==
  ASSUME NEW s, OraStarted(s), NEW n \in Nat
  PROVE  OraRan(s, OraFirst(s, n), 0)
<1> DEFINE e == Ora!ExecuteSelect(s, n)
           t == IF e.threw THEN e ELSE Ora!CallOn(e)
<1>1. OraFirst(s, n) = t
  BY DEF OraFirst, OraStarted, Ora!GetHandle
<1>2. /\ OraPlain(e) /\ OraRest(s, e)
      /\ e.threw => OraAt(e)
      /\ ~ e.threw => OraPast(e) /\ OraResult(e)
  BY OraExecute DEF OraStarted
<1>2a. BatchedRows + 1 - 0 = BatchedRows + 1
  BY OraAssumption
<1> HIDE DEF e
<1>3. CASE e.threw
  BY <1>1, <1>2, <1>3 DEF OraRan, OraLeft, OraRest
<1>4. CASE ~ e.threw
  <2>1. t = Ora!CallOn(e)
    BY <1>4
  <2> HIDE DEF t
  <2>2. OraPast(t) /\ OraAlike(e, t)
    BY <1>2, <1>4, <2>1, OraCall DEF OraPast
  <2>3. OraRest(s, t)
    BY <1>2, <2>2 DEF OraRest, OraAlike, OraKept
  <2>4. Cardinality(OraFree(t)) >= BatchedRows + 1 - 0
    BY <1>2a, <2>3, OraReferredRest DEF OraStarted
  <2>5. s.held \subseteq t.held
    BY <2>3 DEF OraRest
  <2>. QED
    BY <1>1, <2>2, <2>4, <2>5, OraPastLeft DEF OraRan
<1>. QED
  BY <1>3, <1>4

LEMMA OraNewResult ==
  ASSUME NEW s, OraStarted(s), NEW n \in Nat, n <= BatchedRows
  PROVE  OraLeft(Ora!NewResult(s, n))
<1> SUFFICES ASSUME NEW t, t = Ora!NewResult(s, n)
             PROVE  OraLeft(t)
  OBVIOUS
<1>1. PICK run : /\ run[0] = OraFirst(s, n)
                 /\ \A i \in 1..(n + 1) : run[i] = OraAfter(run[i - 1])
                 /\ t = OraUnless(s, run[n + 1])
  BY OraRounds DEF OraStarted
<1> DEFINE T == {i \in Nat : i <= n + 1 => OraRan(s, run[i], i)}
           all == run[n + 1]
<1>2. 0 \in T
  BY <1>1, OraFirstIs
<1>3. ASSUME NEW i \in Nat, i \in T
      PROVE  i + 1 \in T
  <2>1. CASE i + 1 <= n + 1
    <3> DEFINE r == run[i]
               u == run[i + 1]
    <3>1. OraRan(s, r, i)
      BY <1>3, <2>1
    <3>2. u = OraAfter(r)
      BY <1>1, <2>1
    <3> HIDE DEF r, u
    <3>3. OraRan(s, u, i + 1)
      <4>1. CASE r.threw
        BY <3>1, <3>2, <4>1 DEF OraRan, OraAfter
      <4>2. CASE ~ r.threw
        <5>1. OraPast(r) /\ Cardinality(OraFree(r)) >= BatchedRows + 1 - i /\ s.held \subseteq r.held
          BY <3>1, <4>2 DEF OraRan
        <5>2. Cardinality(OraFree(r)) \in Nat /\ Cardinality(OraFree(u)) \in Nat
          BY OraRoom
        <5>3. Cardinality(OraFree(r)) > 0
          BY <2>1, <5>1, <5>2, OraAssumption
        <5>4. u = Ora!ResultBatch(r)
          BY <3>2, <4>2 DEF OraAfter
        <5>5. /\ OraPast(u) /\ r.held \subseteq u.held
              /\ Cardinality(OraFree(u)) >= Cardinality(OraFree(r)) - 1
          BY <4>2, <5>1, <5>3, <5>4, OraResultBatch DEF OraWithin
        <5>6. Cardinality(OraFree(u)) >= BatchedRows + 1 - (i + 1)
          BY <5>1, <5>2, <5>5, OraAssumption
        <5>. QED
          BY <5>1, <5>5, <5>6, OraPastLeft DEF OraRan
      <4>. QED
        BY <4>1, <4>2
    <3>. QED
      BY <3>3 DEF u
  <2>2. CASE ~ (i + 1 <= n + 1)
    BY <2>2
  <2>. QED
    BY <2>1, <2>2
<1>4. n + 1 \in T
  <2>1. n + 1 \in Nat
    OBVIOUS
  <2> HIDE DEF T
  <2>. QED
    BY <1>2, <1>3, <2>1, Counting
<1>5. OraRan(s, all, n + 1)
  BY <1>4
<1> HIDE DEF all, T
<1>6. t = OraUnless(s, all)
  BY <1>1 DEF all
<1>7. CASE ~ all.threw
  BY <1>5, <1>6, <1>7 DEF OraUnless, OraRan
<1>8. CASE all.threw
  <2>1. t = [all EXCEPT !.held = s.held]
    BY <1>6, <1>8 DEF OraUnless
  <2>2. OraPlain(all) /\ OraAt(all) /\ s.held \subseteq all.held /\ OraShape(all)
    BY <1>5 DEF OraRan, OraLeft, OraPlain
  <2>3. /\ OraShape(t) /\ t.handle = all.handle /\ t.define = all.define /\ t.coming = all.coming
        /\ t.exec = all.exec /\ t.data = all.data /\ t.spoilt = all.spoilt
        /\ t.cursor = all.cursor /\ t.misuse = all.misuse /\ t.threw = all.threw
        /\ t.held = s.held
    BY <2>1, <2>2 DEF OraShape
  <2>4. OraHeld(t)
    BY <2>2, <2>3 DEF OraPlain, OraHeld
  <2>5. OraComing(t)
    BY <2>2, <2>3 DEF OraPlain, OraComing
  <2>6. OraPlain(t)
    BY <2>2, <2>3, <2>4, <2>5 DEF OraPlain
  <2>7. OraAt(t)
    BY <2>2, <2>3 DEF OraAt
  <2>. QED
    BY <2>6, <2>7 DEF OraLeft
<1>. QED
  BY <1>7, <1>8

-----------------------------------------------------------------------------
\* A single row.  The buffers of the columns that are not defined anew are
\* spoilt.
LEMMA OraFetchOne ==
  ASSUME NEW s, OraStarted(s), NEW n \in Nat, NEW columns, 1 \in columns,
         \A c \in Columns : c \notin columns /\ s.define[c] # 0 => s.define[c] \in s.spoilt
  PROVE  OraLeft(Ora!FetchOne(s, n, columns))
<1> SUFFICES ASSUME NEW t, t = Ora!FetchOne(s, n, columns)
             PROVE  OraLeft(t)
  OBVIOUS
<1> DEFINE e == Ora!ExecuteSelect(s, n)
           b == Ora!FreeBuffer(e)
           d == IF e.threw THEN e ELSE Ora!DefineColumns(e, columns)
           f == IF d.threw THEN d ELSE IF d.coming = << >> THEN Ora!Throw(Ora!CallOn(d))
                                       ELSE Ora!FetchRows(d, 1)
           new == {Ora!RowAt(f, Ora!NewBuffer(f), 0)}
<1>1. t = IF f.threw THEN f ELSE [f EXCEPT !.held = @ \cup new]
  BY DEF Ora!FetchOne, Ora!Then, OraStarted, Ora!GetHandle
<1>2. /\ OraPlain(e) /\ OraRest(s, e)
      /\ e.threw => OraAt(e)
      /\ ~ e.threw => OraPast(e) /\ OraResult(e)
  BY OraExecute DEF OraStarted
<1>3. Cardinality(OraFree(e)) > 0
  BY <1>2, OraReferredRest, OraAssumption, OraRoom DEF OraStarted
<1> HIDE DEF e, b
<1>4. CASE e.threw
  BY <1>1, <1>2, <1>4 DEF OraLeft
<1>5. CASE ~ e.threw
  <2>1. OraPast(d) /\ OraDefined(e, columns, b, d)
    BY <1>2, <1>3, <1>5, OraDefine DEF b
  <2> HIDE DEF d
  <2>2. CASE d.threw
    BY <1>1, <2>1, <2>2, OraPastLeft
  <2>3. CASE ~ d.threw /\ d.coming = << >>
    <3> DEFINE c == Ora!CallOn(d)
    <3>1. f = [c EXCEPT !.threw = TRUE]
      BY <2>3 DEF Ora!Throw
    <3>2. OraPast(c) /\ OraPlain(c) /\ OraShape(c)
      BY <2>1, <2>3, OraCall DEF OraPast, OraPlain
    <3> HIDE DEF c, f
    <3>3. OraShape(f) /\ OraKept(c, f) /\ f.threw = TRUE
      BY <3>1, <3>2 DEF OraShape, OraKept
    <3>4. f.threw /\ f.threw \in BOOLEAN
      BY <3>3
    <3>5. OraPast(f)
      BY <3>2, <3>3, <3>4, OraKeptPlain
    <3>. QED
      BY <1>1, <3>4, <3>5, OraPastLeft
  <2>4. CASE ~ d.threw /\ d.coming # << >>
    <3>1. f = Ora!FetchRows(d, 1)
      BY <2>4
    <3>2. OraTargets(d) /\ d.define[1] = b
      <4>1. \A c \in Columns : c \notin columns /\ e.define[c] # 0 => e.define[c] \in e.spoilt
        BY <1>2 DEF OraRest
      <4>. QED
        BY <2>1, <2>4, <4>1, OraTargetsDefined DEF OraPast
    <3> HIDE DEF f
    <3>3. OraPlain(f) /\ OraSame(d, f) /\ OraFetched(d, 1, f)
      BY <2>1, <2>4, <3>1, <3>2, OraFetch DEF OraPast
    <3>4. OraPast(f)
      BY <2>1, <3>3 DEF OraPast, OraSame
    <3>5. CASE f.threw
      BY <1>1, <3>4, <3>5, OraPastLeft
    <3>6. CASE ~ f.threw
      <4>1. OraShape(f)
        BY <3>3 DEF OraPlain
      <4>2. t = [f EXCEPT !.held = f.held \cup new]
        BY <1>1, <3>6, <4>1 DEF OraShape
      <4>3. b \in Buffers /\ f.define[1] = b /\ b # f.cursor.buffer
        BY <2>1, <3>2, <3>3 DEF OraSame, OraDefined, Ora!Referred
      <4>4. new = {Ora!RowAt(f, b, i) : i \in 0..(1 - 1)}
        BY <4>3 DEF Ora!NewBuffer
      <4>5. \A i \in 0..(1 - 1) : f.data[b][1][i] # Ora!Empty
        <5>1. /\ Ora!Delivered(d, 1) = 1 /\ Len(d.coming) \in Nat /\ 1 <= Len(d.coming)
          BY <2>1, <2>4, OraDelivered DEF OraPast, OraPlain
        <5>2. 0 \in 0..(FetchSize - 1) /\ d.define[1] # 0
          BY <3>2, <4>3, OraAssumption
        <5>3. f.data[b][1][0] = d.coming[1]
          BY <2>4, <3>2, <3>3, <3>6, <5>1, <5>2, OraAssumption DEF OraFetched
        <5>4. d.coming[1] # Ora!Empty
          BY <2>1, <5>1 DEF OraPast, OraPlain, OraComing
        <5>. QED
          BY <5>3, <5>4
      <4> HIDE DEF new
      <4>6. OraTook(f, t, b, 1)
        <5>1. /\ OraShape(t) /\ t.handle = f.handle /\ t.define = f.define /\ t.coming = f.coming
              /\ t.exec = f.exec /\ t.data = f.data /\ t.local = f.local /\ t.spoilt = f.spoilt
              /\ t.cursor = f.cursor /\ t.misuse = f.misuse /\ t.threw = f.threw
              /\ t.held = f.held \cup new
          BY <4>1, <4>2 DEF OraShape
        <5>2. 1 \in Nat /\ 1 <= FetchSize
          BY OraAssumption
        <5>. QED
          BY <3>4, <4>3, <4>4, <4>5, <5>1, <5>2 DEF OraTook
      <4>. QED
        BY <4>6, OraRows, OraPastLeft
    <3>. QED
      BY <3>5, <3>6
  <2>. QED
    BY <2>2, <2>3, <2>4
<1>. QED
  BY <1>4, <1>5

LEMMA OraSelectRow ==
  ASSUME NEW s, OraStarted(s), NEW n \in Nat
  PROVE  OraLeft(Ora!SelectRowOp(s, n))
BY OraFetchOne, OraAssumption DEF Ora!SelectRowOp

LEMMA OraSelectValue ==
  ASSUME NEW s, OraStarted(s), NEW n \in Nat
  PROVE  OraLeft(Ora!SelectValueOp(s, n))
<1> DEFINE spoilt == s.spoilt \cup Ora!Stale(s)
           u == [s EXCEPT !.spoilt = spoilt]
           one == {1}
<1>0. OraPlain(s) /\ OraShape(s) /\ OraAt(s) /\ ~ s.threw
  BY DEF OraStarted, OraPlain
<1>1. Ora!SelectValueOp(s, n) = Ora!FetchOne(u, n, one)
  <2>1. u = [s EXCEPT !.spoilt = @ \cup Ora!Stale(s)]
    BY <1>0 DEF OraShape
  <2>. QED
    BY <2>1 DEF Ora!SelectValueOp
<1>2. \A c \in Columns : c \notin one /\ s.define[c] # 0 => s.define[c] \in spoilt
  BY DEF Ora!Stale, Ora!None
<1>2a. u = [s EXCEPT !.spoilt = spoilt] /\ 1 \in one
  OBVIOUS
<1> HIDE DEF u, spoilt, one
<1>3. /\ OraShape(u) /\ u.handle = s.handle /\ u.define = s.define /\ u.coming = s.coming
      /\ u.exec = s.exec /\ u.data = s.data /\ u.local = s.local /\ u.held = s.held
      /\ u.cursor = s.cursor /\ u.misuse = s.misuse /\ u.threw = s.threw /\ u.spoilt = spoilt
  BY <1>0, <1>2a DEF OraShape
<1>4. OraPlain(u)
  BY <1>0, <1>3 DEF OraPlain, OraHeld, OraComing
<1>5. OraAt(u)
  BY <1>0, <1>3 DEF OraAt
<1>6. OraFree(u) = OraFree(s)
  BY <1>3 DEF OraFree, Ora!Referred, Ora!HeldBuffers
<1>7. OraStarted(u)
  BY <1>3, <1>4, <1>5, <1>6 DEF OraStarted
<1>. QED
  BY <1>1, <1>2, <1>2a, <1>3, <1>7, OraFetchOne


(* The cursor moves. *)
OraFresh(k, b, x) ==
    k = [open |-> TRUE, buffer |-> b, at |-> 0, count |-> 0, exec |-> x, read |-> 0,
         failed |-> FALSE]
LEMMA OraFreshIs ==
  ASSUME NEW k, NEW b, NEW x \in Nat, b = 0 \/ b \in Buffers, OraFresh(k, b, x)
  PROVE  /\ OraCursor(k) /\ k.open /\ ~ k.failed /\ k.buffer = b /\ k.count = 0
         /\ k.read = 0 /\ k.exec = x
<1>1. k = [open |-> TRUE, buffer |-> b, at |-> 0, count |-> 0, exec |-> x, read |-> 0,
           failed |-> FALSE]
  BY DEF OraFresh
<1>2. k.open = TRUE /\ k.failed = FALSE
  BY <1>1
<1>3. k.buffer = b /\ k.at = 0 /\ k.count = 0 /\ k.exec = x /\ k.read = 0
  BY <1>1
<1>4. k = [open |-> k.open, buffer |-> k.buffer, at |-> k.at, count |-> k.count,
           exec |-> k.exec, read |-> k.read, failed |-> k.failed]
  BY <1>1
<1>5. k.open /\ k.open \in BOOLEAN /\ ~ k.failed /\ k.failed \in BOOLEAN
  BY <1>2
<1>. QED
  BY <1>3, <1>4, <1>5 DEF OraCursor

OraMoved(s, k, t) ==
    /\ OraShape(t) /\ t.handle = s.handle /\ t.define = s.define /\ t.coming = s.coming
    /\ t.exec = s.exec /\ t.data = s.data /\ t.local = s.local /\ t.rows = s.rows
    /\ t.held = s.held /\ t.spoilt = s.spoilt /\ t.misuse = s.misuse
    /\ t.failing = s.failing /\ t.calls = s.calls /\ t.threw = s.threw /\ t.cursor = k
OraTurn(s, k) == [s EXCEPT !.cursor = k]
LEMMA OraTurned == ASSUME NEW s, OraShape(s), NEW k PROVE OraMoved(s, k, OraTurn(s, k))
<1> SUFFICES ASSUME NEW t, t = OraTurn(s, k)
             PROVE  OraMoved(s, k, t)
  OBVIOUS
<1>1. t = [s EXCEPT !.cursor = k]
  BY DEF OraTurn
<1>. QED
  BY <1>1 DEF OraShape, OraMoved

LEMMA OraMovedPlain ==
  ASSUME NEW s, NEW k, NEW t, OraMoved(s, k, t), OraPlain(s), OraCursor(k), k.exec <= s.exec,
         k.open => s.handle = "open", \A r \in s.held : r.buffer # k.buffer
  PROVE  OraPlain(t)
<1>1. OraHeld(t)
  BY DEF OraMoved, OraPlain, OraHeld
<1>2. OraComing(t)
  BY DEF OraMoved, OraPlain, OraComing
<1>. QED
  BY <1>1, <1>2 DEF OraMoved, OraPlain

OraBegun(u) == [Ora!NoCursor EXCEPT !.open = TRUE, !.buffer = Ora!NewBuffer(u), !.exec = u.exec]
LEMMA OraBegunIs ==
  ASSUME NEW u, OraPlain(u), u.define[1] \in Buffers
  PROVE  LET k == OraBegun(u)
         IN /\ OraCursor(k) /\ k.open /\ ~ k.failed /\ k.buffer = u.define[1] /\ k.count = 0
            /\ k.read = 0 /\ k.exec = u.exec
<1> DEFINE b == u.define[1]
           x == u.exec
<1> SUFFICES ASSUME NEW k, k = OraBegun(u)
             PROVE  /\ OraCursor(k) /\ k.open /\ ~ k.failed /\ k.buffer = b
                    /\ k.count = 0 /\ k.read = 0 /\ k.exec = x
  OBVIOUS
<1>1. OraFresh(k, b, x)
  <2>1. k = [Ora!NoCursor EXCEPT !.open = TRUE, !.buffer = b, !.exec = x]
    BY DEF OraBegun, Ora!NewBuffer
  <2> HIDE DEF b, x
  <2>2. k = [open |-> TRUE, buffer |-> b, at |-> 0, count |-> 0, exec |-> x, read |-> 0,
             failed |-> FALSE]
    BY <2>1 DEF Ora!NoCursor
  <2>. QED
    BY ONLY <2>2 DEF OraFresh
<1>2. x \in Nat /\ b \in Buffers
  BY DEF OraPlain
<1> HIDE DEF b, x
<1>. QED
  BY <1>1, <1>2, OraFreshIs

LEMMA OraNewCursor ==
  ASSUME NEW s, OraStarted(s), NEW n \in Nat
  PROVE  OraLeft(Ora!NewCursor(s, n))
<1> SUFFICES ASSUME NEW t, t = Ora!NewCursor(s, n)
             PROVE  OraLeft(t)
  OBVIOUS
<1> DEFINE e == Ora!ExecuteSelect(s, n)
           c == IF e.threw THEN e ELSE Ora!CallOn(e)
           d == IF c.threw THEN c ELSE Ora!DefineColumns(c, Columns)
           b == Ora!FreeBuffer(c)
           k == OraBegun(d)
<1>1. t = IF d.threw THEN d ELSE OraTurn(d, k)
  BY DEF Ora!NewCursor, Ora!Then, OraStarted, Ora!GetHandle, OraBegun, OraTurn
<1>2. /\ OraPlain(e) /\ OraRest(s, e)
      /\ e.threw => OraAt(e)
      /\ ~ e.threw => OraPast(e) /\ OraResult(e)
  BY OraExecute DEF OraStarted
<1> HIDE DEF e
<1>3. CASE e.threw
  BY <1>1, <1>2, <1>3 DEF OraLeft
<1>4. CASE ~ e.threw
  <2>1. c = Ora!CallOn(e)
    BY <1>4
  <2> HIDE DEF c
  <2>2. OraPast(c) /\ OraAlike(e, c)
    BY <1>2, <1>4, <2>1, OraCall DEF OraPast
  <2>3. CASE c.threw
    BY <1>1, <2>2, <2>3, OraPastLeft
  <2>4. CASE ~ c.threw
    <3>1. OraRest(s, c) /\ OraResult(c)
      BY <1>2, <1>4, <2>2 DEF OraRest, OraAlike, OraKept, OraResult
    <3>2. Cardinality(OraFree(c)) > 0
      BY <3>1, OraReferredRest, OraAssumption, OraRoom DEF OraStarted
    <3>3. OraPast(d) /\ OraDefined(c, Columns, b, d)
      BY <2>2, <2>4, <3>2, OraDefine
    <3> HIDE DEF d, b
    <3>4. CASE d.threw
      BY <1>1, <3>3, <3>4, OraPastLeft
    <3>5. CASE ~ d.threw
      <4>1. b \in Buffers /\ b \notin Ora!Referred(c) /\ \A x \in Columns : d.define[x] = b
        BY <3>3, <3>5 DEF OraDefined
      <4>2. d.define[1] = b /\ b # 0 /\ OraPlain(d) /\ d.handle = "open" /\ d.exec \in Nat
        BY <3>3, <4>1, OraAssumption DEF OraPast, OraPlain
      <4>3. /\ OraCursor(k) /\ k.open /\ ~ k.failed /\ k.buffer = b /\ k.count = 0
            /\ k.read = 0 /\ k.exec = d.exec
        BY <4>1, <4>2, OraBegunIs
      <4> HIDE DEF k
      <4>4. t = OraTurn(d, k) /\ OraShape(d)
        BY <1>1, <3>5, <4>2 DEF OraPlain
      <4>5. OraMoved(d, k, t)
        BY <4>4, OraTurned
      <4>6. \A r \in d.held : r.buffer # k.buffer
        BY <3>3, <4>1, <4>3 DEF OraDefined, Ora!Referred, Ora!HeldBuffers
      <4>7. OraPlain(t)
        BY <4>2, <4>3, <4>5, <4>6, OraMovedPlain
      <4>8. \A j \in 1..Len(t.coming) : t.coming[j] = <<k.exec, j>>
        BY <3>1, <3>3, <4>3, <4>5 DEF OraResult, OraDefined, OraMoved
      <4>9. OraBatch(t.cursor, t.data[t.cursor.buffer], t.coming)
        BY <4>3, <4>5, <4>8 DEF OraBatch, OraMoved
      <4>10. OraAt(t)
        BY <4>1, <4>3, <4>5, <4>9 DEF OraAt, OraMoved
      <4>. QED
        BY <4>7, <4>10 DEF OraLeft
    <3>. QED
      BY <3>4, <3>5
  <2>. QED
    BY <2>3, <2>4
<1>. QED
  BY <1>3, <1>4


OraPlace(c, b, at, count, read) ==
    [c EXCEPT !.buffer = b, !.at = at, !.count = count, !.read = read]
LEMMA OraPlaced ==
  ASSUME NEW c, OraCursor(c), NEW b, b = 0 \/ b = c.buffer, NEW at \in Nat, NEW count \in Nat,
         NEW read \in Nat
  PROVE  LET d == OraPlace(c, b, at, count, read)
         IN /\ OraCursor(d) /\ d.open = c.open /\ d.exec = c.exec /\ d.failed = c.failed
            /\ d.buffer = b /\ d.at = at /\ d.count = count /\ d.read = read
<1> SUFFICES ASSUME NEW d, d = OraPlace(c, b, at, count, read)
             PROVE  /\ OraCursor(d) /\ d.open = c.open /\ d.exec = c.exec /\ d.failed = c.failed
                    /\ d.buffer = b /\ d.at = at /\ d.count = count /\ d.read = read
  OBVIOUS
<1>1. d = [c EXCEPT !.buffer = b, !.at = at, !.count = count, !.read = read]
  BY DEF OraPlace
<1>2. /\ d = [open |-> d.open, buffer |-> d.buffer, at |-> d.at, count |-> d.count,
              exec |-> d.exec, read |-> d.read, failed |-> d.failed]
      /\ d.open = c.open /\ d.exec = c.exec /\ d.failed = c.failed
      /\ d.buffer = b /\ d.at = at /\ d.count = count /\ d.read = read
  BY <1>1 DEF OraCursor
<1>. QED
  BY <1>2 DEF OraCursor

OraFailing(c, x) == [c EXCEPT !.failed = c.failed \/ x]
LEMMA OraFailed ==
  ASSUME NEW c, OraCursor(c), NEW x \in BOOLEAN
  PROVE  LET d == OraFailing(c, x)
         IN /\ OraCursor(d) /\ d.open = c.open /\ d.exec = c.exec /\ d.buffer = c.buffer
            /\ d.at = c.at /\ d.count = c.count /\ d.read = c.read
            /\ ~ d.failed => ~ c.failed /\ ~ x
<1> DEFINE y == c.failed \/ x
<1> SUFFICES ASSUME NEW d, d = OraFailing(c, x)
             PROVE  /\ OraCursor(d) /\ d.open = c.open /\ d.exec = c.exec /\ d.buffer = c.buffer
                    /\ d.at = c.at /\ d.count = c.count /\ d.read = c.read
                    /\ ~ d.failed => ~ c.failed /\ ~ x
  OBVIOUS
<1>1. d = [c EXCEPT !.failed = y]
  BY DEF OraFailing
<1>2. y \in BOOLEAN /\ (~ y => ~ c.failed /\ ~ x)
  OBVIOUS
<1> HIDE DEF y
<1>3. /\ d = [open |-> d.open, buffer |-> d.buffer, at |-> d.at, count |-> d.count,
              exec |-> d.exec, read |-> d.read, failed |-> d.failed]
      /\ d.open = c.open /\ d.exec = c.exec /\ d.buffer = c.buffer
      /\ d.at = c.at /\ d.count = c.count /\ d.read = c.read
  BY <1>1 DEF OraCursor
<1>4. d.failed = y
  BY <1>1 DEF OraCursor
<1>5. d.failed \in BOOLEAN /\ (~ d.failed => ~ y)
  BY <1>2, <1>4
<1>6. OraCursor(d)
  BY <1>3, <1>5 DEF OraCursor
<1>. QED
  BY <1>2, <1>3, <1>5, <1>6

-----------------------------------------------------------------------------
\* A cursor that can be read.
OraReads(s) ==
    /\ OraPlain(s) /\ OraAt(s) /\ ~ s.threw
    /\ s.cursor.buffer # 0 /\ s.cursor.exec = s.exec
OraFills(s) == \A col \in Columns : s.define[col] = s.cursor.buffer
OraMayRead(t) ==
    /\ OraPlain(t)
    /\ t.cursor.buffer # 0 => t.cursor.exec = t.exec /\ OraFills(t)
    /\ t.cursor.buffer # 0 /\ ~ t.threw /\ ~ t.cursor.failed =>
         OraBatch(t.cursor, t.data[t.cursor.buffer], t.coming)

LEMMA OraReadsIs ==
  ASSUME NEW s, OraReads(s)
  PROVE  /\ OraPlain(s) /\ OraShape(s) /\ OraCursor(s.cursor) /\ s.handle = "open"
         /\ s.cursor.buffer \in Buffers /\ s.cursor.open /\ OraFills(s) /\ OraTargets(s)
         /\ ~ s.cursor.failed => OraBatch(s.cursor, s.data[s.cursor.buffer], s.coming)
<1>1. OraPlain(s) /\ OraShape(s) /\ OraCursor(s.cursor)
  BY DEF OraReads, OraPlain
<1>2. s.cursor.buffer \in Buffers /\ s.cursor.open
  BY <1>1 DEF OraReads, OraCursor
<1>3. s.handle = "open"
  BY <1>1, <1>2 DEF OraPlain
<1>4. /\ OraFills(s)
      /\ ~ s.cursor.failed => OraBatch(s.cursor, s.data[s.cursor.buffer], s.coming)
  BY DEF OraReads, OraAt, OraFills
<1>5. s.cursor.buffer \in Ora!Referred(s)
  BY DEF Ora!Referred
<1>6. \A r \in s.held : r.buffer # s.cursor.buffer
  BY <1>1 DEF OraPlain, OraHeld
<1>7. OraTargets(s)
  BY <1>4, <1>5, <1>6, OraAssumption DEF OraTargets, OraFills
<1>. QED
  BY <1>1, <1>2, <1>3, <1>4, <1>7

\* In its place the cursor has the same handle and the same buffer, or none.
OraTurns(s, b, at, count, read, t) ==
    /\ OraPlain(s) /\ (b = 0 \/ b = s.cursor.buffer)
    /\ at \in Nat /\ count \in Nat /\ read \in Nat
    /\ t = OraTurn(s, OraPlace(s.cursor, b, at, count, read))
OraTurnedTo(s, b, at, count, read, t) ==
    /\ OraPlain(t) /\ OraMoved(s, t.cursor, t)
    /\ t.cursor.exec = s.cursor.exec /\ t.cursor.failed = s.cursor.failed
    /\ t.cursor.buffer = b /\ t.cursor.at = at /\ t.cursor.count = count /\ t.cursor.read = read
LEMMA OraPlacedPlain ==
  ASSUME NEW s, NEW b, NEW at, NEW count, NEW read, NEW t,
         OraTurns(s, b, at, count, read, t)
  PROVE  OraTurnedTo(s, b, at, count, read, t)
<1> DEFINE d == OraPlace(s.cursor, b, at, count, read)
<1>0. /\ OraPlain(s) /\ (b = 0 \/ b = s.cursor.buffer)
      /\ at \in Nat /\ count \in Nat /\ read \in Nat /\ t = OraTurn(s, d)
  BY DEF OraTurns
<1>1. OraShape(s) /\ OraCursor(s.cursor)
  BY <1>0 DEF OraPlain
<1>2. /\ OraCursor(d) /\ d.open = s.cursor.open /\ d.exec = s.cursor.exec
      /\ d.failed = s.cursor.failed
      /\ d.buffer = b /\ d.at = at /\ d.count = count /\ d.read = read
  BY <1>0, <1>1, OraPlaced
<1>3. t = OraTurn(s, d)
  BY <1>0
<1> HIDE DEF d
<1>4. OraMoved(s, d, t)
  BY <1>1, <1>3, OraTurned
<1>5. t.cursor = d
  BY <1>4 DEF OraMoved
<1>6. \A r \in s.held : r.buffer # d.buffer
  <2>1. \A r \in s.held : r.buffer \in Buffers /\ r.buffer # s.cursor.buffer
    BY <1>0 DEF OraPlain, OraHeld
  <2>. QED
    BY <1>0, <1>2, <2>1, OraAssumption
<1>7. d.exec <= s.exec /\ (d.open => s.handle = "open")
  BY <1>0, <1>2 DEF OraPlain
<1>8. OraPlain(t)
  BY <1>0, <1>2, <1>4, <1>6, <1>7, OraMovedPlain
<1>. QED
  BY <1>2, <1>4, <1>5, <1>8 DEF OraTurnedTo

\* Within the batch.
LEMMA OraWithinBatch ==
  ASSUME NEW s, OraReads(s), s.cursor.count > 0, s.cursor.at < s.cursor.count - 1, NEW t,
         t = [s EXCEPT !.cursor.at = @ + 1, !.cursor.read = @ + 1]
  PROVE  OraMayRead(t)
<1> DEFINE c == s.cursor
           b == c.buffer
           at == c.at + 1
           read == c.read + 1
           count == c.count
<1>1. OraPlain(s) /\ OraShape(s) /\ OraCursor(c) /\ OraFills(s)
      /\ (~ c.failed => OraBatch(c, s.data[c.buffer], s.coming))
  BY OraReadsIs
<1>1a. c.at \in Nat /\ c.read \in Nat /\ c.count \in Nat /\ c.exec \in Nat
  BY <1>1 DEF OraCursor
<1>2. t = OraTurn(s, OraPlace(c, b, at, count, read))
  <2>1. OraPlace(c, b, at, count, read) = [c EXCEPT !.at = c.at + 1, !.read = c.read + 1]
    BY <1>1 DEF OraCursor, OraPlace
  <2>2. t = [s EXCEPT !.cursor = [c EXCEPT !.at = c.at + 1, !.read = c.read + 1]]
    BY <1>1 DEF OraShape, OraCursor
  <2>. QED
    BY <2>1, <2>2 DEF OraTurn
<1>2a. at \in Nat /\ read \in Nat /\ count \in Nat /\ b = c.buffer
  BY <1>1a
<1>2b. at = c.at + 1 /\ read = c.read + 1 /\ count = c.count /\ at < count /\ count # 0
  BY <1>1a
<1> HIDE DEF b, at, read, count
<1>3. /\ OraPlain(t) /\ OraMoved(s, t.cursor, t) /\ t.cursor.exec = c.exec
      /\ t.cursor.failed = c.failed
      /\ t.cursor.buffer = b /\ t.cursor.at = at /\ t.cursor.count = count
      /\ t.cursor.read = read
  <2>1. OraTurns(s, b, at, count, read, t)
    BY <1>1, <1>2, <1>2a DEF OraTurns
  <2>2. OraTurnedTo(s, b, at, count, read, t)
    BY <2>1, OraPlacedPlain
  <2>. QED
    BY <2>2 DEF OraTurnedTo
<1>4. t.cursor.exec = t.exec /\ OraFills(t)
  BY <1>1, <1>2a, <1>3 DEF OraFills, OraMoved, OraReads
<1>5. ~ t.cursor.failed => OraBatch(t.cursor, t.data[t.cursor.buffer], t.coming)
  <2>1. SUFFICES ASSUME ~ t.cursor.failed
                 PROVE  OraBatch(t.cursor, t.data[t.cursor.buffer], t.coming)
    OBVIOUS
  <2>2. /\ c.at < c.count /\ c.at < c.read
        /\ \A col \in Columns, i \in 0..(c.count - 1) :
             s.data[c.buffer][col][i] = <<c.exec, c.read - c.at + i>>
        /\ \A j \in 1..Len(s.coming) :
             s.coming[j] = <<c.exec, (c.read - c.at) + c.count + (j - 1)>>
    BY <1>1, <1>2b, <1>3, <2>1 DEF OraBatch
  <2>3. read - at = c.read - c.at /\ at < read
    BY <1>1a, <1>2b, <2>2
  <2>4. t.data = s.data /\ t.coming = s.coming
    BY <1>3 DEF OraMoved
  <2>. QED
    BY <1>2a, <1>2b, <1>3, <2>2, <2>3, <2>4 DEF OraBatch
<1>. QED
  BY <1>3, <1>4, <1>5 DEF OraMayRead

LEMMA OraEndOfCursor ==
  ASSUME NEW s, OraPlain(s), NEW count \in Nat, NEW t,
         t = [s EXCEPT !.cursor.buffer = 0, !.cursor.count = count]
  PROVE  OraMayRead(t)
<1> DEFINE c == s.cursor
           at == c.at
           read == c.read
<1>1. OraShape(s) /\ OraCursor(c)
  BY DEF OraPlain
<1>2. t = OraTurn(s, OraPlace(c, 0, at, count, read))
  <2>1. OraPlace(c, 0, at, count, read) = [c EXCEPT !.buffer = 0, !.count = count]
    BY <1>1 DEF OraCursor, OraPlace
  <2>2. t = [s EXCEPT !.cursor = [c EXCEPT !.buffer = 0, !.count = count]]
    BY <1>1 DEF OraShape, OraCursor
  <2>. QED
    BY <2>1, <2>2 DEF OraTurn
<1>3. at \in Nat /\ read \in Nat
  BY <1>1 DEF OraCursor
<1> HIDE DEF at, read
<1>4. OraPlain(t) /\ t.cursor.buffer = 0
  <2>1. OraTurns(s, 0, at, count, read, t)
    BY <1>2, <1>3 DEF OraTurns
  <2>2. OraTurnedTo(s, 0, at, count, read, t)
    BY <2>1, OraPlacedPlain
  <2>. QED
    BY <2>2 DEF OraTurnedTo
<1>. QED
  BY <1>4 DEF OraMayRead


\* The next batch: it is full or the last one, so that what follows a full batch
\* are the rows after it.
LEMMA OraFollowing ==
  ASSUME NEW c, OraCursor(c), NEW d, NEW coming, OraBatch(c, d, coming),
         ~ (c.count > 0 /\ c.at < c.count - 1), ~ (c.count > 0 /\ c.count < FetchSize)
  PROVE  \A j \in 1..Len(coming) : coming[j] = <<c.exec, c.read + j>>
<1>1. c.at \in Nat /\ c.count \in Nat /\ c.read \in Nat
  BY DEF OraCursor
<1>2. CASE c.count = 0
  BY <1>1, <1>2 DEF OraBatch
<1>3. CASE c.count # 0
  <2>1. /\ c.at < c.count
        /\ \A j \in 1..Len(coming) : coming[j] = <<c.exec, (c.read - c.at) + c.count + (j - 1)>>
    BY <1>3 DEF OraBatch
  <2>2. c.at = c.count - 1
    BY <1>1, <1>3, <2>1
  <2>3. \A j \in 1..Len(coming) : (c.read - c.at) + c.count + (j - 1) = c.read + j
    BY <1>1, <2>2
  <2>. QED
    BY <2>1, <2>3
<1>. QED
  BY <1>2, <1>3

LEMMA OraNextBatch ==
  ASSUME NEW s, OraReads(s),
         ~ (s.cursor.count > 0 /\ s.cursor.at < s.cursor.count - 1),
         ~ (s.cursor.count > 0 /\ s.cursor.count < FetchSize)
  PROVE  OraMayRead(Ora!NextBatch(s))
<1> SUFFICES ASSUME NEW t, t = Ora!NextBatch(s)
             PROVE  OraMayRead(t)
  OBVIOUS
<1> DEFINE k == Ora!Delivered(s, FetchSize)
           f == Ora!FetchRows(s, FetchSize)
           g == IF f.threw THEN f ELSE Ora!CallOn(f)
<1>1. t = IF g.threw THEN g
          ELSE IF k = 0 THEN Ora!EndOfCursor([g EXCEPT !.cursor.count = 0])
          ELSE [g EXCEPT !.cursor.count = k, !.cursor.at = 0, !.cursor.read = @ + 1]
  BY DEF Ora!NextBatch, Ora!Then
<1>2. /\ OraPlain(s) /\ OraCursor(s.cursor) /\ s.handle = "open"
      /\ s.cursor.buffer \in Buffers /\ OraFills(s) /\ OraTargets(s)
      /\ ~ s.cursor.failed => OraBatch(s.cursor, s.data[s.cursor.buffer], s.coming)
      /\ ~ s.threw /\ s.cursor.exec = s.exec /\ s.cursor.buffer # 0
  BY OraReadsIs DEF OraReads
<1>3. OraPlain(f) /\ OraSame(s, f) /\ OraFetched(s, FetchSize, f)
  BY <1>2, OraFetch, OraAssumption
<1>3a. /\ k \in Nat /\ k <= FetchSize /\ k <= Len(s.coming) /\ Len(s.coming) \in Nat
       /\ (k = 0 => s.coming = << >>) /\ (s.coming = << >> => k = 0)
  BY <1>2, OraDelivered, OraAssumption DEF OraPlain
<1> HIDE DEF f, k
<1>4. /\ OraPlain(g) /\ OraSame(s, g) /\ (~ g.threw => ~ f.threw)
      /\ g.data = f.data /\ g.coming = f.coming
  <2>1. CASE f.threw
    BY <1>3, <2>1
  <2>2. CASE ~ f.threw
    <3>1. f.handle = "open"
      BY <1>2, <1>3 DEF OraSame
    <3>2. OraPlain(g) /\ OraAlike(f, g)
      BY <1>3, <2>2, <3>1, OraCall
    <3> HIDE DEF g
    <3>. QED
      BY <1>3, <2>2, <3>2 DEF OraAlike, OraKept, OraSame
  <2>. QED
    BY <2>1, <2>2
<1> HIDE DEF g
<1>4a. OraShape(g) /\ OraCursor(g.cursor) /\ g.cursor = s.cursor /\ g.exec = s.exec
       /\ g.define = s.define
  BY <1>4 DEF OraPlain, OraSame
<1>5. CASE g.threw
  BY <1>1, <1>2, <1>4, <1>4a, <1>5 DEF OraMayRead, OraFills
<1>6. CASE ~ g.threw /\ k = 0
  <2>1. t = Ora!EndOfCursor([g EXCEPT !.cursor.count = 0])
    BY <1>1, <1>6
  <2>2. t = [g EXCEPT !.cursor.buffer = 0, !.cursor.count = 0]
    BY <1>4a, <2>1 DEF Ora!EndOfCursor, Ora!None, OraShape, OraCursor
  <2>. QED
    BY <1>4, <2>2, OraEndOfCursor
<1>7. CASE ~ g.threw /\ k # 0
  <2> DEFINE c == s.cursor
             b == c.buffer
             read == c.read + 1
  <2>1. t = OraTurn(g, OraPlace(g.cursor, b, 0, k, read))
    <3>1. t = [g EXCEPT !.cursor.count = k, !.cursor.at = 0, !.cursor.read = @ + 1]
      BY <1>1, <1>7
    <3>2. OraPlace(g.cursor, b, 0, k, read)
            = [g.cursor EXCEPT !.at = 0, !.count = k, !.read = g.cursor.read + 1]
      BY <1>4a DEF OraCursor, OraPlace
    <3>3. t = [g EXCEPT !.cursor = [g.cursor EXCEPT !.at = 0, !.count = k, !.read = g.cursor.read + 1]]
      BY <1>4a, <3>1 DEF OraShape, OraCursor
    <3>. QED
      BY <3>2, <3>3 DEF OraTurn
  <2>2. /\ c.read \in Nat /\ read \in Nat /\ read = c.read + 1 /\ b = c.buffer /\ 0 \in Nat
    BY <1>2 DEF OraCursor
  <2> HIDE DEF b, read
  <2>3. OraTurns(g, b, 0, k, read, t)
    BY <1>3a, <1>4, <1>4a, <2>1, <2>2 DEF OraTurns
  <2>4. OraTurnedTo(g, b, 0, k, read, t)
    BY <2>3, OraPlacedPlain
  <2>5. /\ OraPlain(t) /\ OraMoved(g, t.cursor, t) /\ t.cursor.exec = c.exec
        /\ t.cursor.failed = c.failed
        /\ t.cursor.buffer = b /\ t.cursor.at = 0 /\ t.cursor.count = k
        /\ t.cursor.read = read
    BY <1>4a, <2>4 DEF OraTurnedTo
  <2>6. t.cursor.exec = t.exec /\ OraFills(t)
    BY <1>2, <1>4a, <2>2, <2>5 DEF OraFills, OraMoved
  <2>7. ~ t.cursor.failed => OraBatch(t.cursor, t.data[t.cursor.buffer], t.coming)
    <3>1. SUFFICES ASSUME ~ t.cursor.failed
                   PROVE  OraBatch(t.cursor, t.data[t.cursor.buffer], t.coming)
      OBVIOUS
    <3>2. \A j \in 1..Len(s.coming) : s.coming[j] = <<c.exec, c.read + j>>
      <4>1. OraBatch(c, s.data[c.buffer], s.coming)
        BY <1>2, <2>5, <3>1
      <4>2. OraCursor(c) /\ ~ (c.count > 0 /\ c.at < c.count - 1)
            /\ ~ (c.count > 0 /\ c.count < FetchSize)
        BY <1>2
      <4> HIDE DEF c
      <4>. QED
        BY <4>1, <4>2, OraFollowing
    <3>3. ~ f.threw /\ s.coming # << >> /\ t.coming = f.coming /\ t.data = f.data
      BY <1>3a, <1>4, <1>7, <2>5 DEF OraMoved
    <3>4. /\ Len(t.coming) = Len(s.coming) - k
          /\ \A j \in 1..Len(t.coming) : t.coming[j] = s.coming[k + j]
      BY <1>3, <3>3 DEF OraFetched, k
    <3>5. ASSUME NEW col \in Columns, NEW i \in 0..(k - 1)
          PROVE  t.data[b][col][i] = <<c.exec, read - 0 + i>>
      <4>1. i \in 0..(FetchSize - 1) /\ i < k /\ i + 1 \in 1..Len(s.coming)
            /\ c.read + (i + 1) = read - 0 + i
        BY <1>3a, <2>2, OraAssumption
      <4>2. s.define[col] = b /\ b # 0
        BY <1>2, <2>2 DEF OraFills
      <4>3. f.data[b][col][i] = s.coming[i + 1]
        BY <1>3, <3>3, <4>1, <4>2 DEF OraFetched, k
      <4>4. s.coming[i + 1] = <<c.exec, c.read + (i + 1)>>
        BY <3>2, <4>1
      <4>. QED
        BY <3>3, <4>1, <4>3, <4>4
    <3>6. ASSUME NEW j \in 1..Len(t.coming)
          PROVE  t.coming[j] = <<c.exec, (read - 0) + k + (j - 1)>>
      <4>0. j \in Nat /\ 1 <= j /\ j <= Len(s.coming) - k
        BY <1>3a, <3>4
      <4>1a. k + j \in 1..Len(s.coming)
        BY <1>3a, <4>0
      <4>1b. c.read + (k + j) = (read - 0) + k + (j - 1)
        <5> DEFINE x == c.read
        <5>1. x \in Nat /\ read = x + 1
          BY <2>2
        <5> HIDE DEF x
        <5>2. x + (k + j) = (read - 0) + k + (j - 1)
          BY <1>3a, <4>0, <5>1
        <5>. QED
          BY <5>2 DEF x
      <4>1. k + j \in 1..Len(s.coming) /\ c.read + (k + j) = (read - 0) + k + (j - 1)
        BY <4>1a, <4>1b
      <4> DEFINE m == k + j
      <4>2. t.coming[j] = s.coming[m] /\ m \in 1..Len(s.coming)
        BY <3>4, <4>1
      <4>3. c.read + m = (read - 0) + k + (j - 1)
        BY <4>1
      <4> HIDE DEF m
      <4>4. s.coming[m] = <<c.exec, c.read + m>>
        BY <3>2, <4>2
      <4>. QED
        BY <4>2, <4>3, <4>4
    <3>7. 0 < k /\ 0 < read
      BY <1>3a, <1>7, <2>2
    <3>. QED
      BY <1>7, <2>5, <3>5, <3>6, <3>7 DEF OraBatch
  <2>. QED
    BY <2>5, <2>6, <2>7 DEF OraMayRead
<1>. QED
  BY <1>5, <1>6, <1>7

LEMMA OraCursorFetch ==
  ASSUME NEW s, OraReads(s)
  PROVE  OraMayRead(Ora!CursorFetch(s))
<1> SUFFICES ASSUME NEW t, t = Ora!CursorFetch(s)
             PROVE  OraMayRead(t)
  OBVIOUS
<1>1. CASE s.cursor.count > 0 /\ s.cursor.at < s.cursor.count - 1
  <2>1. t = [s EXCEPT !.cursor.at = @ + 1, !.cursor.read = @ + 1]
    BY <1>1 DEF Ora!CursorFetch
  <2>. QED
    BY <1>1, <2>1, OraWithinBatch
<1>2. CASE ~ (s.cursor.count > 0 /\ s.cursor.at < s.cursor.count - 1)
           /\ s.cursor.count > 0 /\ s.cursor.count < FetchSize
  <2> DEFINE count == s.cursor.count
  <2>1. t = [s EXCEPT !.cursor.buffer = 0]
    BY <1>2 DEF Ora!CursorFetch, Ora!EndOfCursor, Ora!None
  <2>2. OraPlain(s) /\ OraShape(s) /\ OraCursor(s.cursor)
    BY OraReadsIs
  <2>3. t = [s EXCEPT !.cursor.buffer = 0, !.cursor.count = count]
    BY <2>1, <2>2 DEF OraShape, OraCursor
  <2>4. count \in Nat
    BY <2>2 DEF OraCursor
  <2> HIDE DEF count
  <2>. QED
    BY <2>2, <2>3, <2>4, OraEndOfCursor
<1>3. CASE ~ (s.cursor.count > 0 /\ s.cursor.at < s.cursor.count - 1)
           /\ ~ (s.cursor.count > 0 /\ s.cursor.count < FetchSize)
  <2>1. t = Ora!NextBatch(s)
    BY <1>3 DEF Ora!CursorFetch
  <2>. QED
    BY <1>3, <2>1, OraNextBatch
<1>. QED
  BY <1>1, <1>2, <1>3

\* A failure is remembered.
LEMMA OraAfterFetch ==
  ASSUME NEW t, OraMayRead(t), NEW u, u = [t EXCEPT !.cursor.failed = @ \/ t.threw]
  PROVE  OraLeft(u)
<1> DEFINE x == t.threw
           k == OraFailing(t.cursor, x)
<1>1. OraPlain(t) /\ OraShape(t) /\ OraCursor(t.cursor) /\ x \in BOOLEAN
  BY DEF OraMayRead, OraPlain
<1>2. u = OraTurn(t, k)
  <2>1. u = [t EXCEPT !.cursor = [t.cursor EXCEPT !.failed = @ \/ t.threw]]
    BY <1>1 DEF OraShape, OraCursor
  <2>2. [t.cursor EXCEPT !.failed = @ \/ t.threw] = [t.cursor EXCEPT !.failed = t.cursor.failed \/ x]
    BY <1>1 DEF OraCursor
  <2>. QED
    BY <2>1, <2>2 DEF OraTurn, OraFailing
<1> HIDE DEF x
<1>3. /\ OraCursor(k) /\ k.open = t.cursor.open /\ k.exec = t.cursor.exec
      /\ k.buffer = t.cursor.buffer /\ k.at = t.cursor.at /\ k.count = t.cursor.count
      /\ k.read = t.cursor.read
      /\ ~ k.failed => ~ t.cursor.failed /\ ~ x
  BY <1>1, OraFailed
<1> HIDE DEF k
<1>4. OraMoved(t, k, u)
  BY <1>1, <1>2, OraTurned
<1>5. OraPlain(u)
  <2>1. k.exec <= t.exec /\ (k.open => t.handle = "open")
    BY <1>1, <1>3 DEF OraPlain
  <2>2. \A r \in t.held : r.buffer # k.buffer
    BY <1>1, <1>3 DEF OraPlain, OraHeld
  <2>. QED
    BY <1>1, <1>3, <1>4, <2>1, <2>2, OraMovedPlain
<1>6. OraAt(u)
  <2>1. SUFFICES ASSUME u.cursor.buffer # 0
                 PROVE  /\ \A col \in Columns : u.define[col] = u.cursor.buffer
                        /\ ~ u.cursor.failed =>
                              OraBatch(u.cursor, u.data[u.cursor.buffer], u.coming)
    BY DEF OraAt
  <2>2. u.cursor = k /\ u.define = t.define /\ u.data = t.data /\ u.coming = t.coming
    BY <1>4 DEF OraMoved
  <2>3. OraFills(t)
    BY <1>3, <2>1, <2>2 DEF OraMayRead
  <2>4. ASSUME ~ k.failed
        PROVE  OraBatch(k, u.data[k.buffer], u.coming)
    <3>1. ~ t.cursor.failed /\ ~ t.threw
      BY <1>3, <2>4 DEF x
    <3>2. OraBatch(t.cursor, t.data[t.cursor.buffer], t.coming)
      BY <1>3, <2>1, <2>2, <3>1 DEF OraMayRead
    <3>. QED
      BY <1>3, <2>2, <3>2 DEF OraBatch
  <2>. QED
    BY <1>3, <2>2, <2>3, <2>4 DEF OraFills
<1>. QED
  BY <1>5, <1>6 DEF OraLeft


\* The counters of calls do not matter.
LEMMA OraResetIs ==
  ASSUME NEW s, OraLeft(s), NEW t, OraShape(t), ~ t.threw, t.threw \in BOOLEAN, OraKept(s, t)
  PROVE  OraGood(t)
BY OraKeptPlain DEF OraLeft, OraGood

LEMMA OraBegin ==
  ASSUME OraGood(sys), NEW k
  PROVE  LET s == Ora!Begin(sys, k)
         IN OraGood(s) /\ OraAlike(sys, s)
<1> SUFFICES ASSUME NEW s, s = Ora!Begin(sys, k)
             PROVE  OraGood(s) /\ OraAlike(sys, s)
  OBVIOUS
<1> DEFINE no == FALSE
<1>1. s = [sys EXCEPT !.failing = k, !.calls = 0, !.threw = no]
  BY DEF Ora!Begin
<1>2. no \in BOOLEAN /\ ~ no
  OBVIOUS
<1> HIDE DEF no
<1>3. OraShape(s) /\ OraAlike(sys, s) /\ s.threw = no
  BY <1>1 DEF OraGood, OraPlain, OraShape, OraAlike, OraKept
<1>4. ~ s.threw /\ s.threw \in BOOLEAN
  BY <1>2, <1>3
<1>5. OraLeft(sys) /\ OraKept(sys, s)
  BY <1>3 DEF OraGood, OraLeft, OraAlike
<1>. QED
  BY <1>3, <1>4, <1>5, OraResetIs

LEMMA OraEnds ==
  ASSUME NEW t, OraLeft(t), Ora!Ends(t)
  PROVE  OraGood(sys')
<1> DEFINE no == FALSE
           none == << >>
           nothing == {}
<1>1. sys' = [t EXCEPT !.local = nothing, !.rows = none, !.failing = 0, !.calls = 0, !.threw = no]
  <2>1. sys' = [[t EXCEPT !.local = {}, !.rows = << >>]
                  EXCEPT !.failing = 0, !.calls = 0, !.threw = FALSE]
    BY DEF Ora!Ends, Ora!Kept, Ora!Finished
  <2>. QED
    BY <2>1 DEF OraLeft, OraPlain, OraShape
<1>2. no \in BOOLEAN /\ ~ no
  OBVIOUS
<1> HIDE DEF no, none, nothing
<1>3. OraShape(sys') /\ OraKept(t, sys') /\ sys'.threw = no
  BY <1>1 DEF OraLeft, OraPlain, OraShape, OraKept
<1>4. ~ sys'.threw /\ sys'.threw \in BOOLEAN
  BY <1>2, <1>3
<1>. QED
  BY <1>3, <1>4, OraResetIs

LEMMA OraStart ==
  ASSUME OraGood(sys), Ora!Room, sys.handle = "open", NEW k
  PROVE  OraStarted(Ora!Begin(sys, k))
<1> DEFINE s == Ora!Begin(sys, k)
<1>1. OraGood(s) /\ OraAlike(sys, s)
  BY OraBegin
<1> HIDE DEF s
<1>2. OraFree(s) = OraFree(sys)
  BY <1>1 DEF OraFree, Ora!Referred, Ora!HeldBuffers, OraAlike, OraKept
<1>3. Cardinality(OraFree(sys)) >= BatchedRows + 1
  <2>1. Ora!Cardinality(OraFree(sys)) >= BatchedRows + 1
    BY DEF Ora!Room, Ora!HasFreeBuffers, OraFree
  <2>. QED
    BY <2>1, OraCount
<1>4. s.handle = "open"
  BY <1>1 DEF OraAlike, OraKept
<1>5. OraStarted(s)
  BY <1>1, <1>2, <1>3, <1>4 DEF OraStarted, OraGood
<1>. QED
  BY <1>5 DEF s

-----------------------------------------------------------------------------
\* The handle changes while there is no cursor.
LEMMA OraHandleIs ==
  ASSUME NEW s, OraPlain(s), ~ s.cursor.open, NEW h, NEW t, t = [s EXCEPT !.handle = h]
  PROVE  /\ OraLeft(t) /\ t.handle = h /\ t.threw = s.threw /\ t.cursor = s.cursor
<1>1. /\ OraShape(t) /\ t.handle = h /\ t.define = s.define /\ t.coming = s.coming
      /\ t.exec = s.exec /\ t.data = s.data /\ t.local = s.local /\ t.rows = s.rows
      /\ t.held = s.held /\ t.spoilt = s.spoilt /\ t.misuse = s.misuse
      /\ t.threw = s.threw /\ t.cursor = s.cursor
  BY DEF OraPlain, OraShape
<1>2. OraHeld(t)
  BY <1>1 DEF OraPlain, OraHeld
<1>3. OraComing(t)
  BY <1>1 DEF OraPlain, OraComing
<1>4. OraPlain(t)
  BY <1>1, <1>2, <1>3 DEF OraPlain
<1>5. t.cursor.buffer = 0
  BY <1>1 DEF OraPlain, OraCursor
<1>. QED
  BY <1>1, <1>4, <1>5 DEF OraLeft, OraAt

LEMMA OraPrepare ==
  ASSUME OraGood(sys), NEW k, Ora!Prepare(k)
  PROVE  OraGood(sys')
<1> DEFINE s == Ora!Begin(sys, k)
           u == [s EXCEPT !.handle = "open"]
           t == Ora!CallOn(u)
           h == IF t.threw THEN "none" ELSE "open"
           v == [t EXCEPT !.handle = h]
           no == FALSE
<1>1. OraGood(s) /\ OraAlike(sys, s) /\ sys.handle = "none"
  BY OraBegin DEF Ora!Prepare
<1>2. s.handle # "open" /\ ~ s.cursor.open
  BY <1>1 DEF OraAlike, OraKept, OraGood, OraPlain
<1>3. sys' = Ora!Finished(v)
  BY <1>2 DEF Ora!Prepare, Ora!GetHandle
<1>4. u = [s EXCEPT !.handle = "open"] /\ no \in BOOLEAN /\ ~ no
  OBVIOUS
<1>5. sys' = [v EXCEPT !.failing = 0, !.calls = 0, !.threw = no]
  BY <1>3 DEF Ora!Finished
<1> HIDE DEF s, u, no
<1>6. OraLeft(u) /\ OraPlain(u) /\ u.handle = "open" /\ ~ u.threw /\ ~ u.cursor.open
  BY <1>1, <1>2, <1>4, OraHandleIs DEF OraGood, OraLeft
<1>7. OraPlain(t) /\ t.cursor = u.cursor
  BY <1>6, OraCall DEF OraAlike, OraKept
<1> HIDE DEF t
<1>8. ~ t.cursor.open /\ v = [t EXCEPT !.handle = h]
  BY <1>6, <1>7
<1> HIDE DEF v, h
<1>9. OraLeft(v) /\ OraShape(v)
  BY <1>7, <1>8, OraHandleIs DEF OraLeft, OraPlain
<1>10. OraShape(sys') /\ OraKept(v, sys') /\ sys'.threw = no
  BY <1>5, <1>9 DEF OraShape, OraKept
<1>11. ~ sys'.threw /\ sys'.threw \in BOOLEAN
  BY <1>4, <1>10
<1>. QED
  BY <1>9, <1>10, <1>11, OraResetIs

LEMMA OraFetchCursor ==
  ASSUME OraGood(sys), NEW k, Ora!FetchCursor(k)
  PROVE  OraGood(sys')
<1> DEFINE s == Ora!Begin(sys, k)
           t == Ora!CursorFetch(s)
           u == [t EXCEPT !.cursor.failed = @ \/ t.threw]
<1>1. OraGood(s) /\ OraAlike(sys, s)
  BY OraBegin
<1>2. Ora!Ends(u) /\ sys.cursor.buffer # 0 /\ sys.cursor.exec = sys.exec
  BY DEF Ora!FetchCursor, Ora!None
<1> HIDE DEF s
<1>3. OraReads(s)
  BY <1>1, <1>2 DEF OraReads, OraGood, OraAlike, OraKept
<1>4. OraMayRead(t)
  BY <1>3, OraCursorFetch
<1>5. u = [t EXCEPT !.cursor.failed = @ \/ t.threw]
  OBVIOUS
<1> HIDE DEF t, u
<1>6. OraLeft(u)
  BY <1>4, <1>5, OraAfterFetch
<1>. QED
  BY <1>2, <1>6, OraEnds

LEMMA OraNoCursor ==
  LET k == Ora!NoCursor
  IN OraCursor(k) /\ ~ k.open /\ k.buffer = 0 /\ k.exec = 0
<1> SUFFICES ASSUME NEW k, k = Ora!NoCursor
             PROVE  OraCursor(k) /\ ~ k.open /\ k.buffer = 0 /\ k.exec = 0
  OBVIOUS
<1>1. k = [open |-> FALSE, buffer |-> 0, at |-> 0, count |-> 0, exec |-> 0, read |-> 0,
           failed |-> FALSE]
  BY DEF Ora!NoCursor, Ora!None
<1>2. k.open = FALSE /\ k.failed = FALSE
  BY <1>1
<1>3. k.buffer = 0 /\ k.at = 0 /\ k.count = 0 /\ k.exec = 0 /\ k.read = 0
  BY <1>1
<1>4. k = [open |-> k.open, buffer |-> k.buffer, at |-> k.at, count |-> k.count,
           exec |-> k.exec, read |-> k.read, failed |-> k.failed]
  BY <1>1
<1>5. ~ k.open /\ k.open \in BOOLEAN /\ k.failed \in BOOLEAN
  BY <1>2
<1>. QED
  BY <1>3, <1>4, <1>5 DEF OraCursor

LEMMA OraDropCursor ==
  ASSUME OraGood(sys), Ora!DropCursor
  PROVE  OraGood(sys')
<1> DEFINE k == Ora!NoCursor
<1>1. OraCursor(k) /\ ~ k.open /\ k.buffer = 0 /\ k.exec = 0
  BY OraNoCursor
<1>2. sys' = OraTurn(sys, k)
  BY DEF Ora!DropCursor, OraTurn
<1>3. OraPlain(sys) /\ OraShape(sys) /\ ~ sys.threw
  BY DEF OraGood, OraPlain
<1> HIDE DEF k
<1>4. OraMoved(sys, k, sys')
  BY <1>2, <1>3, OraTurned
<1>5. k.exec <= sys.exec
  BY <1>1, <1>3 DEF OraPlain
<1>6. \A r \in sys.held : r.buffer # k.buffer
  BY <1>1, <1>3, OraAssumption DEF OraPlain, OraHeld
<1>7. OraPlain(sys')
  BY <1>1, <1>3, <1>4, <1>5, <1>6, OraMovedPlain
<1>8. sys'.cursor.buffer = 0 /\ ~ sys'.threw
  BY <1>1, <1>3, <1>4 DEF OraMoved
<1>. QED
  BY <1>7, <1>8 DEF OraGood, OraAt

LEMMA OraDropRows ==
  ASSUME OraGood(sys), NEW rows, Ora!DropRows(rows)
  PROVE  OraGood(sys')
<1> DEFINE left == sys.held \ rows
<1>1. sys' = [sys EXCEPT !.held = left]
  <2>1. sys' = [sys EXCEPT !.held = @ \ rows]
    BY DEF Ora!DropRows
  <2>. QED
    BY <2>1 DEF OraGood, OraPlain, OraShape
<1>2. \A r \in left : r \in sys.held
  OBVIOUS
<1> HIDE DEF left
<1>3. /\ OraShape(sys') /\ sys'.handle = sys.handle /\ sys'.define = sys.define
      /\ sys'.coming = sys.coming /\ sys'.exec = sys.exec /\ sys'.data = sys.data
      /\ sys'.held = left /\ sys'.spoilt = sys.spoilt /\ sys'.misuse = sys.misuse
      /\ sys'.threw = sys.threw /\ sys'.cursor = sys.cursor
  BY <1>1 DEF OraGood, OraPlain, OraShape
<1>4. OraHeld(sys')
  BY <1>2, <1>3 DEF OraGood, OraPlain, OraHeld
<1>5. OraComing(sys')
  BY <1>3 DEF OraGood, OraPlain, OraComing
<1>6. OraPlain(sys')
  BY <1>3, <1>4, <1>5 DEF OraGood, OraPlain
<1>. QED
  BY <1>3, <1>6 DEF OraGood, OraAt

LEMMA OraDropStatement ==
  ASSUME OraGood(sys), Ora!DropStatement
  PROVE  OraGood(sys')
<1> DEFINE t == Ora!CallOn(sys)
           no == FALSE
           u == [t EXCEPT !.failing = 0, !.calls = 0, !.threw = no]
<1>1. sys' = [u EXCEPT !.handle = "closed"] /\ sys.handle = "open" /\ ~ sys.cursor.open
  BY DEF Ora!DropStatement, Ora!Finished
<1>2. OraLeft(t) /\ t.cursor = sys.cursor
  BY <1>1, OraCall DEF OraGood, OraLeft, OraAlike, OraKept
<1>3. u = [t EXCEPT !.failing = 0, !.calls = 0, !.threw = no] /\ no \in BOOLEAN /\ ~ no
  OBVIOUS
<1> HIDE DEF t, u, no
<1>4. OraShape(u) /\ OraKept(t, u) /\ u.threw = no
  BY <1>2, <1>3 DEF OraLeft, OraPlain, OraShape, OraKept
<1>5. ~ u.threw /\ u.threw \in BOOLEAN
  BY <1>3, <1>4
<1>6. OraGood(u) /\ ~ u.cursor.open
  BY <1>1, <1>2, <1>4, <1>5, OraResetIs DEF OraKept
<1>7. OraLeft(sys') /\ sys'.threw = u.threw
  BY <1>1, <1>6, OraHandleIs DEF OraGood
<1>. QED
  BY <1>5, <1>7 DEF OraGood, OraLeft

-----------------------------------------------------------------------------
LEMMA OraNext ==
  ASSUME OraGood(sys), Ora!Next
  PROVE  OraGood(sys')
<1>0. \A n \in 0..BatchedRows : n \in Nat /\ n <= BatchedRows
  BY OraAssumption
<1>1. ASSUME NEW n \in Nat, n <= BatchedRows, NEW k, Ora!Select(n, k)
      PROVE  OraGood(sys')
  BY <1>1, OraStart, OraNewResult, OraEnds DEF Ora!Select
<1>2. ASSUME NEW n \in Nat, NEW k, Ora!SelectRow(n, k)
      PROVE  OraGood(sys')
  BY <1>2, OraStart, OraSelectRow, OraEnds DEF Ora!SelectRow
<1>3. ASSUME NEW n \in Nat, NEW k, Ora!SelectValue(n, k)
      PROVE  OraGood(sys')
  BY <1>3, OraStart, OraSelectValue, OraEnds DEF Ora!SelectValue
<1>4. ASSUME NEW n \in Nat, NEW k, Ora!CreateCursor(n, k)
      PROVE  OraGood(sys')
  BY <1>4, OraStart, OraNewCursor, OraEnds DEF Ora!CreateCursor
<1>. QED
  BY <1>0, <1>1, <1>2, <1>3, <1>4, OraPrepare, OraFetchCursor, OraDropCursor, OraDropRows,
     OraDropStatement DEF Ora!Next

OraStartState(s, k, define, data, none, nothing, no) ==
    s = [handle |-> "none", define |-> define, coming |-> none, exec |-> 0, data |-> data,
         local |-> nothing, rows |-> none, held |-> nothing, spoilt |-> nothing, cursor |-> k,
         misuse |-> nothing, failing |-> 0, calls |-> 0, threw |-> no]
LEMMA OraInit == Ora!Init => OraGood(sys)
<1> SUFFICES ASSUME Ora!Init
             PROVE  OraGood(sys)
  OBVIOUS
<1> DEFINE define == [c \in Columns |-> 0]
           data == [b \in Buffers |-> [c \in Columns |-> [i \in 0..(FetchSize - 1) |-> Ora!Empty]]]
           none == << >>
           nothing == {}
           no == FALSE
           k == Ora!NoCursor
<1>1. OraStartState(sys, k, define, data, none, nothing, no)
  BY DEF Ora!Init, Ora!None, OraStartState
<1>2. none = << >> /\ none \in Seq(Nat \X Nat) /\ Len(none) = 0
  BY EmptySeq
<1>3. nothing = {} /\ no \in BOOLEAN /\ ~ no
  OBVIOUS
<1>4. On(define, Columns) /\ On(data, Buffers) /\ \A c \in Columns : define[c] = 0
  BY DEF On
<1>5. OraCursor(k) /\ ~ k.open /\ k.buffer = 0 /\ k.exec = 0
  BY OraNoCursor
<1> HIDE DEF define, data, none, nothing, no, k
<1>6. /\ OraShape(sys) /\ sys.define = define /\ sys.coming = none /\ sys.exec = 0
      /\ sys.data = data /\ sys.held = nothing /\ sys.cursor = k /\ sys.misuse = nothing
      /\ sys.threw = no
  BY <1>1 DEF OraStartState, OraShape
<1>7. OraHeld(sys) /\ OraComing(sys) /\ ~ sys.threw /\ sys.threw \in BOOLEAN
  BY <1>2, <1>3, <1>6 DEF OraHeld, OraComing
<1>8. OraPlain(sys)
  BY <1>3, <1>4, <1>5, <1>6, <1>7 DEF OraPlain
<1>. QED
  BY <1>5, <1>6, <1>7, <1>8 DEF OraGood, OraAt

LEMMA OraLegal == OraGood(sys) => Ora!HandlesLegal /\ Ora!DataStays
<1> SUFFICES ASSUME OraGood(sys)
             PROVE  Ora!HandlesLegal /\ Ora!DataStays
  OBVIOUS
<1>1. OraPlain(sys) /\ OraAt(sys) /\ OraCursor(sys.cursor)
  BY DEF OraGood, OraPlain
<1>2. Ora!HandlesLegal
  BY <1>1 DEF Ora!HandlesLegal, OraPlain
<1>3. \A r \in sys.held : sys.data[r.buffer][1][r.at] = r.data /\ r.data # Ora!Empty
  BY <1>1 DEF OraPlain, OraHeld
<1> DEFINE c == sys.cursor
<1>4. ASSUME c.buffer # 0, c.count > 0, ~ c.failed, c.exec = sys.exec, NEW col \in Columns
      PROVE  sys.data[c.buffer][col][c.at] = <<c.exec, c.read>>
  <2>1. OraBatch(c, sys.data[c.buffer], sys.coming)
    BY <1>1, <1>4 DEF OraAt
  <2>2. c.at \in Nat /\ c.count \in Nat /\ c.read \in Nat
    BY <1>1 DEF OraCursor
  <2>3. c.at \in 0..(c.count - 1) /\ c.read - c.at + c.at = c.read
    BY <1>4, <2>1, <2>2 DEF OraBatch
  <2>4. sys.data[c.buffer][col][c.at] = <<c.exec, c.read - c.at + c.at>>
    BY <1>4, <2>1, <2>2, <2>3 DEF OraBatch
  <2>. QED
    BY <2>3, <2>4
<1>. QED
  BY <1>2, <1>3, <1>4 DEF Ora!DataStays, Ora!None


-----------------------------------------------------------------------------
\* mysql
MyShape(s) ==
    s = [alive |-> s.alive, handle |-> s.handle, fields |-> s.fields, row |-> s.row,
         ptr |-> s.ptr, local |-> s.local, cursor |-> s.cursor, held |-> s.held,
         open |-> s.open, bound |-> s.bound, coming |-> s.coming, exec |-> s.exec,
         data |-> s.data, leaked |-> s.leaked, misuse |-> s.misuse,
         failing |-> s.failing, calls |-> s.calls, threw |-> s.threw]
MyCursor(c) ==
    c = [handle |-> c.handle, row |-> c.row, fields |-> c.fields, given |-> c.given]
MyOpen(s, h) == h \in Handles /\ s.open[h] = "open"

\* Every handle has one owner.
MyOwners(s) ==
    /\ s.handle = 0 \/ MyOpen(s, s.handle)
    /\ \A c \in Cursors : s.cursor[c].handle # 0 =>
         /\ MyOpen(s, s.cursor[c].handle) /\ s.cursor[c].handle # s.handle
         /\ \A d \in Cursors : d # c => s.cursor[d].handle # s.cursor[c].handle
    /\ \A h \in Handles : s.open[h] = "open" =>
         h = s.handle \/ h \in s.leaked \/ \E c \in Cursors : s.cursor[c].handle = h
\* The row of a cursor belongs to nobody else.
MyCursorRow(s, c) ==
    LET r == s.cursor[c].row
    IN r # 0 =>
         /\ r \in RowIds /\ r # s.row /\ r # s.ptr /\ r \notin s.local /\ r \notin DOMAIN s.held
         /\ \A d \in Cursors : d # c => s.cursor[d].row # r
         /\ s.data[r] = s.cursor[c].given
MyRows(s) ==
    /\ s.row = 0 \/ s.row \in RowIds
    /\ s.ptr = 0 \/ s.ptr \in RowIds
    /\ s.local \subseteq RowIds /\ DOMAIN s.held \subseteq RowIds
    /\ s.ptr \notin DOMAIN s.held
    /\ \A r \in DOMAIN s.held : s.data[r] = s.held[r]
    /\ \A c \in Cursors : MyCursorRow(s, c)
\* A cursor is complete: its handle fills its row.
MyComplete(s, c) ==
    LET k == s.cursor[c]
    IN k = My!NoCursor \/ (k.handle # 0 /\ (k.row # 0 => s.bound[k.handle] = k.row))
MyPlain(s) ==
    /\ MyShape(s) /\ s.threw \in BOOLEAN
    /\ \A x \in s.misuse : x = "stale fields"
    /\ On(s.open, Handles) /\ On(s.bound, Handles) /\ On(s.coming, Handles)
    /\ On(s.data, RowIds) /\ On(s.cursor, Cursors)
    /\ \A c \in Cursors : MyCursor(s.cursor[c])
MyCore(s, X) ==
    MyPlain(s) /\ MyOwners(s) /\ MyRows(s) /\ \A c \in Cursors : c \in X \/ MyComplete(s, c)
MyGood(s) == MyCore(s, {}) /\ ~ s.threw /\ s.ptr = 0 /\ s.local = {}

-----------------------------------------------------------------------------
\* All but the counters of calls as it was.
MyKept(s, t) ==
    /\ t.alive = s.alive /\ t.handle = s.handle /\ t.fields = s.fields /\ t.row = s.row
    /\ t.ptr = s.ptr /\ t.local = s.local /\ t.cursor = s.cursor /\ t.held = s.held
    /\ t.open = s.open /\ t.bound = s.bound /\ t.coming = s.coming /\ t.exec = s.exec
    /\ t.data = s.data /\ t.leaked = s.leaked
MyTold(s, t) ==
    /\ MyShape(t) /\ t.threw \in BOOLEAN
    /\ \A x \in t.misuse : x \in s.misuse \/ x = "stale fields"
LEMMA MyKeptCore ==
  ASSUME NEW s, NEW t, MyTold(s, t), MyKept(s, t), NEW X, MyCore(s, X)
  PROVE  MyCore(t, X)
<1>1. MyPlain(t)
  BY DEF MyCore, MyPlain, MyTold, MyKept
<1>2. MyOwners(t)
  BY DEF MyCore, MyOwners, MyOpen, MyKept
<1>3. MyRows(t)
  BY DEF MyCore, MyRows, MyCursorRow, MyKept
<1>4. \A c \in Cursors : c \in X \/ MyComplete(t, c)
  BY DEF MyCore, MyComplete, MyKept
<1>. QED
  BY <1>1, <1>2, <1>3, <1>4 DEF MyCore

MyCalled(s) ==
    LET t == [s EXCEPT !.calls = s.calls + 1, !.misuse = s.misuse]
    IN IF t.calls = s.failing THEN [t EXCEPT !.threw = TRUE] ELSE t
LEMMA MyCalledIs ==
  ASSUME NEW s, MyShape(s), NEW h, MyOpen(s, h)
  PROVE  My!CallOn(s, h) = MyCalled(s)
<1>1. [s EXCEPT !.calls = @ + 1, !.misuse = IF My!IsOpen(s, h) THEN @ ELSE @ \cup {"closed handle"}]
        = [s EXCEPT !.calls = s.calls + 1, !.misuse = s.misuse]
  BY MyAssumption DEF MyShape, MyOpen, My!IsOpen, My!None
<1>. QED
  BY <1>1 DEF My!CallOn, My!Call, My!Throw, MyCalled

LEMMA MyCall ==
  ASSUME NEW s, MyShape(s), s.threw \in BOOLEAN, NEW h, MyOpen(s, h)
  PROVE  LET t == My!CallOn(s, h)
         IN MyTold(s, t) /\ MyKept(s, t) /\ t.misuse = s.misuse
<1> SUFFICES ASSUME NEW t, t = My!CallOn(s, h)
             PROVE  MyTold(s, t) /\ MyKept(s, t) /\ t.misuse = s.misuse
  OBVIOUS
<1> DEFINE u == [s EXCEPT !.calls = s.calls + 1, !.misuse = s.misuse]
<1>1. u = [s EXCEPT !.calls = s.calls + 1, !.misuse = s.misuse]
  OBVIOUS
<1>2. t = u \/ t = [u EXCEPT !.threw = TRUE]
  BY MyCalledIs DEF MyCalled
<1> HIDE DEF u
<1>3. MyShape(u) /\ u.threw = s.threw /\ MyKept(s, u) /\ u.misuse = s.misuse
  BY <1>1 DEF MyShape, MyKept
<1>4. MyShape(t) /\ t.threw \in BOOLEAN /\ MyKept(s, t) /\ t.misuse = s.misuse
  BY <1>2, <1>3 DEF MyShape, MyKept
<1>. QED
  BY <1>4 DEF MyTold

\* The fields may be those of a handle that was closed.
LEMMA MyTouch ==
  ASSUME NEW s, MyShape(s), s.threw \in BOOLEAN, NEW fields
  PROVE  LET t == My!TouchFields(s, fields)
         IN MyTold(s, t) /\ MyKept(s, t) /\ t.threw = s.threw
<1> SUFFICES ASSUME NEW t, t = My!TouchFields(s, fields)
             PROVE  MyTold(s, t) /\ MyKept(s, t) /\ t.threw = s.threw
  OBVIOUS
<1>1. CASE t = s
  BY <1>1 DEF MyTold, MyKept
<1>2. CASE t # s
  <2> DEFINE more == s.misuse \cup {"stale fields"}
  <2>1. t = [s EXCEPT !.misuse = more]
    <3>1. t = [s EXCEPT !.misuse = @ \cup {"stale fields"}]
      BY <1>2 DEF My!TouchFields, My!Misuse
    <3>. QED
      BY <3>1 DEF MyShape
  <2>2. \A x \in more : x \in s.misuse \/ x = "stale fields"
    OBVIOUS
  <2> HIDE DEF more
  <2>3. MyShape(t) /\ MyKept(s, t) /\ t.threw = s.threw /\ t.misuse = more
    BY <2>1 DEF MyShape, MyKept
  <2>. QED
    BY <2>2, <2>3 DEF MyTold
<1>. QED
  BY <1>1, <1>2


\* Handles open and close; rows and data stay.
MySameRows(s, t) ==
    /\ t.alive = s.alive /\ t.fields = s.fields /\ t.row = s.row /\ t.ptr = s.ptr
    /\ t.local = s.local /\ t.cursor = s.cursor /\ t.held = s.held /\ t.bound = s.bound
    /\ t.data = s.data /\ t.leaked = s.leaked
MyClosed(s, h, t) ==
    /\ MyShape(t) /\ t.threw \in BOOLEAN /\ t.misuse = s.misuse
    /\ MySameRows(s, t) /\ t.handle = s.handle /\ t.exec = s.exec
    /\ t.open = Put(s.open, h, "closed") /\ t.coming = Put(s.coming, h, << >>)
LEMMA MyCloseHandle ==
  ASSUME NEW s, MyShape(s), s.threw \in BOOLEAN, NEW h, MyOpen(s, h)
  PROVE  /\ MyClosed(s, h, My!CloseHandle(s, h))
         /\ s.threw => My!CloseHandle(s, h).threw
<1> SUFFICES ASSUME NEW t, t = My!CloseHandle(s, h)
             PROVE  MyClosed(s, h, t) /\ (s.threw => t.threw)
  OBVIOUS
<1> DEFINE c == My!CallOn(s, h)
           open == Put(c.open, h, "closed")
           none == << >>
           coming == Put(c.coming, h, none)
<1>1. MyTold(s, c) /\ MyKept(s, c) /\ c.misuse = s.misuse
  BY MyCall
<1>1a. s.threw => c.threw
  <2> DEFINE u == [s EXCEPT !.calls = s.calls + 1, !.misuse = s.misuse]
  <2>0. u = [s EXCEPT !.calls = s.calls + 1, !.misuse = s.misuse]
    OBVIOUS
  <2>2. c = u \/ c = [u EXCEPT !.threw = TRUE]
    BY MyCalledIs DEF MyCalled
  <2> HIDE DEF u, c
  <2>1. u.threw = s.threw /\ MyShape(u)
    BY <2>0 DEF MyShape
  <2>3. CASE c = u
    BY <2>1, <2>3
  <2>4. CASE c = [u EXCEPT !.threw = TRUE]
    <3>1. c.threw = TRUE
      BY <2>1, <2>4 DEF MyShape
    <3>. QED
      BY <3>1
  <2>. QED
    BY <2>2, <2>3, <2>4
<1>2. t = [c EXCEPT !.open = open, !.coming = coming]
  <2>1. t = [c EXCEPT !.open[h] = "closed", !.coming[h] = none]
    BY DEF My!CloseHandle
  <2> HIDE DEF c, none
  <2>. QED
    BY <1>1, <2>1 DEF MyTold, MyShape, Put
<1> HIDE DEF c, open, coming
<1>3. /\ MyShape(t) /\ t.threw = c.threw /\ t.misuse = c.misuse
      /\ MySameRows(c, t) /\ t.handle = c.handle /\ t.exec = c.exec
      /\ t.open = open /\ t.coming = coming
  BY <1>1, <1>2 DEF MyTold, MyShape, MySameRows
<1>4. open = Put(s.open, h, "closed") /\ coming = Put(s.coming, h, << >>)
  BY <1>1 DEF MyKept, open, coming
<1>5. t.threw \in BOOLEAN /\ (s.threw => t.threw)
  BY <1>1, <1>1a, <1>3 DEF MyTold
<1>. QED
  BY <1>1, <1>3, <1>4, <1>5 DEF MyClosed, MySameRows, MyKept

\* What stays when rows and data do.
LEMMA MySameRowsStay ==
  ASSUME NEW s, NEW t, MySameRows(s, t), NEW X, MyCore(s, X), MyShape(t), t.threw \in BOOLEAN,
         t.misuse = s.misuse, On(t.open, Handles), On(t.coming, Handles)
  PROVE  MyPlain(t) /\ MyRows(t) /\ \A c \in Cursors : c \in X \/ MyComplete(t, c)
<1>1. MyPlain(t)
  BY DEF MyCore, MyPlain, MySameRows
<1>2. MyRows(t)
  BY DEF MyCore, MyRows, MyCursorRow, MySameRows
<1>3. \A c \in Cursors : c \in X \/ MyComplete(t, c)
  BY DEF MyCore, MyComplete, MySameRows
<1>. QED
  BY <1>1, <1>2, <1>3

-----------------------------------------------------------------------------
\* The statement gets a handle.
MyRoom(s) == s.handle # 0 \/ \E h \in Handles : s.open[h] = "none"
MyGot(s, t) ==
    /\ MySameRows(s, t) /\ t.exec = s.exec
    /\ ~ t.threw => MyOpen(t, t.handle) /\ t.handle # 0
    /\ s.handle # 0 => t = s
LEMMA MyGetStmt ==
  ASSUME NEW s, NEW X, MyCore(s, X), ~ s.threw, MyRoom(s)
  PROVE  LET t == My!GetStmt(s)
         IN MyCore(t, X) /\ MyGot(s, t)
<1> SUFFICES ASSUME NEW t, t = My!GetStmt(s)
             PROVE  MyCore(t, X) /\ MyGot(s, t)
  OBVIOUS
<1>0. MyShape(s) /\ MyPlain(s) /\ MyOwners(s)
  BY DEF MyCore, MyPlain
<1>1. CASE s.handle # 0
  <2>1. t = s
    BY <1>1 DEF My!GetStmt, My!None
  <2>2. MyOpen(s, s.handle)
    BY <1>0, <1>1 DEF MyOwners
  <2>. QED
    BY <1>1, <2>1, <2>2 DEF MyGot, MySameRows
<1>2. CASE s.handle = 0
  <2> DEFINE h == My!FreshHandle(s)
             open == Put(s.open, h, "open")
             u == [s EXCEPT !.open = open]
             p == My!CallOn(u, h)
             c == My!CloseHandle(p, h)
             v == [p EXCEPT !.handle = h]
  <2>1. h \in Handles /\ s.open[h] = "none" /\ h # 0
    BY <1>2, MyAssumption DEF MyRoom, My!FreshHandle
  <2>2. t = IF p.threw THEN c ELSE v
    <3>1. u = [s EXCEPT !.open[h] = "open"]
      BY <1>0 DEF MyShape, Put
    <3> HIDE DEF h, u
    <3>. QED
      BY <1>2, <3>1 DEF My!GetStmt, My!None, h
  <2>3. u = [s EXCEPT !.open = open]
    OBVIOUS
  <2> HIDE DEF h, u
  <2>4. On(open, Handles) /\ open[h] = "open" /\ \A g \in Handles : g # h => open[g] = s.open[g]
    <3>1. On(s.open, Handles)
      BY <1>0 DEF MyPlain
    <3> DEFINE o == s.open
               x == "open"
    <3>2. open = Put(o, h, x) /\ On(o, Handles)
      BY <3>1
    <3> HIDE DEF open, o, x
    <3>3. On(open, Handles) /\ open[h] = x /\ \A g \in Handles : g # h => open[g] = o[g]
      BY <2>1, <3>2, PutAt
    <3>. QED
      BY <3>3 DEF o, x
  <2> HIDE DEF open
  <2>5. /\ MyShape(u) /\ u.threw = s.threw /\ u.misuse = s.misuse /\ MySameRows(s, u)
        /\ u.handle = s.handle /\ u.exec = s.exec /\ u.coming = s.coming /\ u.open = open
    BY <1>0, <2>3 DEF MyShape, MySameRows
  <2>6. u.threw \in BOOLEAN /\ MyOpen(u, h)
    BY <1>0, <2>1, <2>4, <2>5 DEF MyPlain, MyOpen
  <2>7. MyTold(u, p) /\ MyKept(u, p) /\ p.misuse = u.misuse
    BY <2>5, <2>6, MyCall
  <2> HIDE DEF p
  <2>8. /\ MyShape(p) /\ p.threw \in BOOLEAN /\ p.misuse = s.misuse /\ MySameRows(s, p)
        /\ p.handle = s.handle /\ p.exec = s.exec /\ p.coming = u.coming /\ p.open = open
        /\ u.coming = s.coming
    BY <2>5, <2>7 DEF MyTold, MyKept, MySameRows
  <2>9. \A g \in Handles : s.open[g] = "open" => g # h
    BY <2>1
  <2>10. CASE p.threw
    <3>1. MyOpen(p, h)
      BY <2>1, <2>4, <2>8 DEF MyOpen
    <3>2. MyClosed(p, h, c) /\ c.threw /\ t = c
      BY <2>2, <2>8, <2>10, <3>1, MyCloseHandle
    <3> HIDE DEF c
    <3>3. On(t.open, Handles) /\ t.open[h] = "closed"
          /\ \A g \in Handles : g # h => t.open[g] = s.open[g]
      BY <2>1, <2>4, <2>8, <3>2, PutAt DEF MyClosed
    <3>4. On(t.coming, Handles)
      <4> DEFINE none == << >>
      <4>1. t.coming = Put(p.coming, h, none)
        BY <3>2 DEF MyClosed
      <4>2. On(p.coming, Handles)
        BY <1>0, <2>8 DEF MyPlain
      <4> HIDE DEF none
      <4>. QED
        BY <2>1, <4>1, <4>2, PutAt
    <3>5. MySameRows(s, t) /\ t.handle = s.handle /\ t.exec = s.exec /\ MyShape(t)
          /\ t.threw \in BOOLEAN /\ t.misuse = s.misuse /\ t.threw
      BY <2>8, <3>2 DEF MyClosed, MySameRows
    <3>6. MyOwners(t)
      BY <1>0, <1>2, <2>1, <2>9, <3>3, <3>5 DEF MyOwners, MyOpen, MySameRows
    <3>7. MyCore(t, X)
      BY <3>3, <3>4, <3>5, <3>6, MySameRowsStay DEF MyCore
    <3>. QED
      BY <1>2, <3>5, <3>7 DEF MyGot
  <2>11. CASE ~ p.threw
    <3>1. t = [p EXCEPT !.handle = h]
      BY <2>2, <2>11
    <3>2. /\ MyShape(t) /\ t.threw = p.threw /\ t.misuse = p.misuse /\ MySameRows(p, t)
          /\ t.handle = h /\ t.exec = p.exec /\ t.coming = p.coming /\ t.open = p.open
      BY <2>8, <3>1 DEF MyShape, MySameRows
    <3>3. /\ t.threw \in BOOLEAN /\ t.misuse = s.misuse /\ MySameRows(s, t) /\ t.exec = s.exec
          /\ t.coming = s.coming /\ t.open = open
      BY <2>8, <3>2 DEF MySameRows
    <3>4. On(t.open, Handles) /\ On(t.coming, Handles)
      BY <1>0, <2>4, <3>3 DEF MyPlain
    <3>5. MyOwners(t)
      <4>1. MyOpen(t, t.handle) /\ \A g \in Handles : MyOpen(s, g) => MyOpen(t, g) /\ g # h
        BY <2>1, <2>4, <2>9, <3>2, <3>3 DEF MyOpen
      <4>2. t.cursor = s.cursor /\ t.leaked = s.leaked
        BY <3>3 DEF MySameRows
      <4>3. \A x \in Cursors : t.cursor[x].handle # 0 =>
              /\ MyOpen(t, t.cursor[x].handle) /\ t.cursor[x].handle # t.handle
              /\ \A d \in Cursors : d # x => t.cursor[d].handle # t.cursor[x].handle
        BY <1>0, <3>2, <4>1, <4>2 DEF MyOwners, MyOpen
      <4>4. \A g \in Handles : t.open[g] = "open" =>
              g = t.handle \/ g \in t.leaked \/ \E x \in Cursors : t.cursor[x].handle = g
        <5>1. \A g \in Handles : t.open[g] = "open" => g = h \/ s.open[g] = "open"
          BY <2>4, <3>3
        <5>. QED
          BY <1>0, <1>2, <3>2, <4>2, <5>1, MyAssumption DEF MyOwners
      <4>. QED
        BY <4>1, <4>3, <4>4 DEF MyOwners
    <3>6. MyCore(t, X)
      BY <3>2, <3>3, <3>4, <3>5, MySameRowsStay DEF MyCore
    <3>7. MyOpen(t, t.handle) /\ t.handle # 0
      BY <2>1, <2>4, <3>2, <3>3 DEF MyOpen
    <3>. QED
      BY <1>2, <3>3, <3>6, <3>7 DEF MyGot
  <2>. QED
    BY <2>8, <2>10, <2>11
<1>. QED
  BY <1>1, <1>2

\* The descriptions of the columns.
MyHas(s, t) ==
    /\ t.alive = s.alive /\ t.row = s.row /\ t.ptr = s.ptr
    /\ t.local = s.local /\ t.cursor = s.cursor /\ t.held = s.held /\ t.bound = s.bound
    /\ t.data = s.data /\ t.leaked = s.leaked /\ t.exec = s.exec
    /\ s.handle # 0 => t.handle = s.handle /\ t.open = s.open
LEMMA MyGetFields ==
  ASSUME NEW s, NEW X, MyCore(s, X), ~ s.threw, MyRoom(s)
  PROVE  LET t == My!GetFields(s)
         IN MyCore(t, X) /\ MyHas(s, t) /\ (~ t.threw => MyRoom(t))
<1> SUFFICES ASSUME NEW t, t = My!GetFields(s)
             PROVE  MyCore(t, X) /\ MyHas(s, t) /\ (~ t.threw => MyRoom(t))
  OBVIOUS
<1>1. CASE s.fields # 0
  <2>1. t = s
    BY <1>1 DEF My!GetFields, My!None
  <2>. QED
    BY <2>1 DEF MyHas
<1>2. CASE s.fields = 0
  <2> DEFINE g == My!GetStmt(s)
             c == IF g.threw THEN g ELSE My!CallOn(g, g.handle)
             f == c.handle
             v == [c EXCEPT !.fields = f]
  <2>1. t = IF c.threw THEN c ELSE v
    BY <1>2 DEF My!GetFields, My!None, My!Then
  <2>2. MyCore(g, X) /\ MyGot(s, g)
    BY MyGetStmt
  <2> HIDE DEF g
  <2>3. MyHas(s, g) /\ MyShape(g) /\ g.threw \in BOOLEAN
    BY <2>2 DEF MyGot, MySameRows, MyHas, MyCore, MyPlain
  <2>4. CASE g.threw
    BY <2>1, <2>2, <2>3, <2>4
  <2>5. CASE ~ g.threw
    <3>1. MyOpen(g, g.handle) /\ g.handle # 0 /\ c = My!CallOn(g, g.handle)
      BY <2>2, <2>5 DEF MyGot
    <3>2. MyTold(g, c) /\ MyKept(g, c)
      BY <2>3, <3>1, MyCall
    <3> HIDE DEF c
    <3>3. MyCore(c, X) /\ c.handle # 0 /\ MyHas(s, c) /\ MyShape(c)
      BY <2>2, <2>3, <3>1, <3>2, MyKeptCore DEF MyKept, MyHas, MyTold
    <3>4. MyRoom(c)
      BY <3>3 DEF MyRoom
    <3>5. CASE c.threw
      BY <2>1, <3>3, <3>4, <3>5
    <3>6. CASE ~ c.threw
      <4>1. t = [c EXCEPT !.fields = f]
        BY <2>1, <3>6
      <4> HIDE DEF f
      <4>2. /\ MyShape(t) /\ t.alive = c.alive /\ t.handle = c.handle /\ t.row = c.row
            /\ t.ptr = c.ptr /\ t.local = c.local /\ t.cursor = c.cursor /\ t.held = c.held
            /\ t.open = c.open /\ t.bound = c.bound /\ t.coming = c.coming /\ t.exec = c.exec
            /\ t.data = c.data /\ t.leaked = c.leaked /\ t.misuse = c.misuse /\ t.threw = c.threw
        BY <3>3, <4>1 DEF MyShape
      <4>3. MyPlain(t)
        BY <3>3, <4>2 DEF MyCore, MyPlain
      <4>4. MyOwners(t)
        BY <3>3, <4>2 DEF MyCore, MyOwners, MyOpen
      <4>5. MyRows(t)
        BY <3>3, <4>2 DEF MyCore, MyRows, MyCursorRow
      <4>6. \A x \in Cursors : x \in X \/ MyComplete(t, x)
        BY <3>3, <4>2 DEF MyCore, MyComplete
      <4>7. MyHas(s, t) /\ MyRoom(t)
        BY <3>3, <4>2 DEF MyHas, MyRoom
      <4>. QED
        BY <4>3, <4>4, <4>5, <4>6, <4>7 DEF MyCore
    <3>. QED
      BY <3>5, <3>6
  <2>. QED
    BY <2>4, <2>5
<1>. QED
  BY <1>1, <1>2


(* Free rows. *)
LEMMA MyCount == ASSUME NEW S PROVE My!Cardinality(S) = Cardinality(S)
BY DEF My!Cardinality, Cardinality

MyFree(s) == RowIds \ (My!Referred(s) \cup {s.row})
LEMMA MyFreeRow ==
  ASSUME NEW s
  PROVE  /\ IsFiniteSet(MyFree(s)) /\ Cardinality(MyFree(s)) \in Nat
         /\ Cardinality(MyFree(s)) > 0 =>
              /\ My!FreeRow(s) \in RowIds /\ My!FreeRow(s) \notin My!Referred(s)
              /\ My!FreeRow(s) # s.row
<1>1. IsFiniteSet(MyFree(s))
  BY MyAssumption, FS_Subset DEF MyFree
<1>2. Cardinality(MyFree(s)) \in Nat
  BY <1>1, FS_CardinalityType
<1>3. Cardinality(MyFree(s)) > 0 => MyFree(s) # {}
  BY <1>1, FS_EmptySet
<1>4. MyFree(s) # {} => /\ My!FreeRow(s) \in RowIds /\ My!FreeRow(s) \notin My!Referred(s)
                        /\ My!FreeRow(s) # s.row
  BY DEF MyFree, My!FreeRow
<1>. QED
  BY <1>1, <1>2, <1>3, <1>4

\* One row less at most.
MyUses(s, t) == Cardinality(MyFree(t)) >= Cardinality(MyFree(s)) - 1
MyNoMore(s, t) == Cardinality(MyFree(t)) >= Cardinality(MyFree(s))
LEMMA MyOneLess ==
  ASSUME NEW s, NEW t, NEW r,
         My!Referred(t) \cup {t.row} \subseteq My!Referred(s) \cup {s.row} \cup {r}
  PROVE  MyUses(s, t)
<1>1. IsFiniteSet(MyFree(s)) /\ Cardinality(MyFree(s)) \in Nat
      /\ IsFiniteSet(MyFree(t)) /\ Cardinality(MyFree(t)) \in Nat
  BY MyFreeRow
<1> DEFINE R == MyFree(s) \ {r}
<1>2. IsFiniteSet(R) /\ Cardinality(R) = IF r \in MyFree(s) THEN Cardinality(MyFree(s)) - 1
                                         ELSE Cardinality(MyFree(s))
  BY <1>1, FS_RemoveElement
<1>3. R \subseteq MyFree(t)
  BY DEF MyFree
<1>4. Cardinality(R) <= Cardinality(MyFree(t))
  BY <1>1, <1>3, FS_Subset
<1> HIDE DEF R
<1>. QED
  BY <1>1, <1>2, <1>4 DEF MyUses
LEMMA MyNoneLess ==
  ASSUME NEW s, NEW t, My!Referred(t) \cup {t.row} \subseteq My!Referred(s) \cup {s.row}
  PROVE  MyNoMore(s, t)
<1>1. IsFiniteSet(MyFree(s)) /\ IsFiniteSet(MyFree(t)) /\ MyFree(s) \subseteq MyFree(t)
  BY MyFreeRow DEF MyFree
<1>2. Cardinality(MyFree(s)) <= Cardinality(MyFree(t))
      /\ Cardinality(MyFree(s)) \in Nat /\ Cardinality(MyFree(t)) \in Nat
  BY <1>1, FS_Subset, MyFreeRow
<1>. QED
  BY <1>2 DEF MyNoMore
LEMMA MyUsesTwo ==
  ASSUME NEW s, NEW t, NEW u
  PROVE  /\ MyNoMore(s, t) /\ MyNoMore(t, u) => MyNoMore(s, u)
         /\ MyNoMore(s, t) /\ MyUses(t, u) => MyUses(s, u)
         /\ MyUses(s, t) /\ MyNoMore(t, u) => MyUses(s, u)
         /\ MyNoMore(s, t) => MyUses(s, t)
<1>1. /\ Cardinality(MyFree(s)) \in Nat /\ Cardinality(MyFree(t)) \in Nat
      /\ Cardinality(MyFree(u)) \in Nat
  BY MyFreeRow
<1>. QED
  BY <1>1 DEF MyNoMore, MyUses
\* Of a state with the same references.
MySameRefs(s, t) ==
    /\ t.row = s.row /\ t.ptr = s.ptr /\ t.local = s.local /\ t.held = s.held
    /\ t.cursor = s.cursor
LEMMA MySameFree ==
  ASSUME NEW s, NEW t, MySameRefs(s, t)
  PROVE  My!Referred(t) = My!Referred(s) /\ MyNoMore(s, t)
<1>1. My!Referred(t) = My!Referred(s) /\ t.row = s.row
  BY DEF MySameRefs, My!Referred
<1>. QED
  BY <1>1, MyNoneLess

-----------------------------------------------------------------------------
\* A row that nobody refers to becomes the row of the statement and is given to
\* the function that runs.
MyTaken(s, r, t) ==
    /\ MyShape(t) /\ t.alive = s.alive /\ t.handle = s.handle /\ t.fields = s.fields
    /\ t.row = r /\ t.ptr = r /\ t.local = s.local /\ t.cursor = s.cursor /\ t.held = s.held
    /\ t.open = s.open /\ t.bound = s.bound /\ t.coming = s.coming /\ t.exec = s.exec
    /\ t.data = Put(s.data, r, My!Empty) /\ t.leaked = s.leaked /\ t.misuse = s.misuse
    /\ t.threw = s.threw
LEMMA MyTakenCore ==
  ASSUME NEW s, NEW X, MyCore(s, X), NEW r \in RowIds, r \notin My!Referred(s), NEW t,
         MyTaken(s, r, t)
  PROVE  MyCore(t, X) /\ MyUses(s, t)
<1>1. /\ r \notin s.local /\ r \notin DOMAIN s.held /\ \A c \in Cursors : s.cursor[c].row # r
  BY DEF My!Referred
<1>2. On(t.data, RowIds) /\ \A x \in RowIds : x # r => t.data[x] = s.data[x]
  <2>1. On(s.data, RowIds) /\ t.data = Put(s.data, r, My!Empty)
    BY DEF MyTaken, MyCore, MyPlain
  <2>. QED
    BY <2>1, PutAt
<1>3. MyPlain(t)
  BY <1>2 DEF MyCore, MyPlain, MyTaken
<1>4. MyOwners(t)
  BY DEF MyCore, MyOwners, MyOpen, MyTaken
<1>5. MyRows(t)
  <2>1. MyRows(s)
    BY DEF MyCore
  <2>2. ASSUME NEW c \in Cursors
        PROVE  MyCursorRow(t, c)
    BY <1>1, <1>2, <2>1 DEF MyRows, MyCursorRow, MyTaken
  <2>3. \A x \in DOMAIN t.held : t.data[x] = t.held[x]
    BY <1>1, <1>2, <2>1 DEF MyRows, MyTaken
  <2>. QED
    BY <1>1, <2>1, <2>2, <2>3 DEF MyRows, MyTaken
<1>6. \A c \in Cursors : c \in X \/ MyComplete(t, c)
  BY DEF MyCore, MyComplete, MyTaken
<1>7. My!Referred(t) \cup {t.row} \subseteq My!Referred(s) \cup {s.row} \cup {r}
  BY DEF MyTaken, My!Referred
<1>. QED
  BY <1>3, <1>4, <1>5, <1>6, <1>7, MyOneLess DEF MyCore

\* What a function that gets rows leaves alone.
MyOthers(s, t) ==
    /\ t.cursor = s.cursor /\ t.held = s.held /\ t.local = s.local /\ t.leaked = s.leaked
    /\ s.handle # 0 => t.handle = s.handle
LEMMA MyGetRow ==
  ASSUME NEW s, MyCore(s, {}), ~ s.threw, MyRoom(s), Cardinality(MyFree(s)) > 0
  PROVE  LET t == My!GetRow(s)
         IN /\ MyCore(t, {}) /\ MyOthers(s, t) /\ MyUses(s, t)
            /\ ~ t.threw => MyRoom(t) /\ t.ptr \in RowIds
<1> DEFINE X == {}
<1> SUFFICES ASSUME NEW t, t = My!GetRow(s)
             PROVE  /\ MyCore(t, X) /\ MyOthers(s, t) /\ MyUses(s, t)
                    /\ ~ t.threw => MyRoom(t) /\ t.ptr \in RowIds
  OBVIOUS
<1>0. MyShape(s) /\ MyRows(s) /\ s.threw \in BOOLEAN /\ MyCore(s, X)
  BY DEF MyCore, MyPlain
<1> HIDE DEF X
<1>1. CASE My!Unique(s)
  <2> DEFINE r == s.row
             data == Put(s.data, r, My!Empty)
  <2>1. t = [s EXCEPT !.ptr = r, !.data = data]
    <3>1. t = [s EXCEPT !.ptr = s.row, !.data[s.row] = My!Empty]
      BY <1>1 DEF My!GetRow
    <3>. QED
      BY <1>0, <3>1 DEF MyShape, Put
  <2>2. r \in RowIds /\ r \notin My!Referred(s) /\ r = s.row
    BY <1>0, <1>1 DEF My!Unique, My!None, MyRows
  <2>3. data = Put(s.data, r, My!Empty)
    OBVIOUS
  <2> HIDE DEF r, data
  <2>4. MyTaken(s, r, t)
    BY <1>0, <2>1, <2>2, <2>3 DEF MyShape, MyTaken
  <2>5. MyCore(t, X) /\ MyUses(s, t)
    BY <1>0, <2>2, <2>4, MyTakenCore
  <2>6. MyRoom(t) /\ t.ptr \in RowIds /\ MyOthers(s, t)
    BY <2>2, <2>4 DEF MyRoom, MyOthers, MyTaken
  <2>. QED
    BY <2>5, <2>6
<1>2. CASE ~ My!Unique(s)
  <2> DEFINE f == My!GetFields(s)
             r == My!FreeRow(f)
             data == Put(f.data, r, My!Empty)
             u == [f EXCEPT !.row = r, !.ptr = r, !.data = data]
  <2>1. MyCore(f, X) /\ MyHas(s, f) /\ (~ f.threw => MyRoom(f))
    BY <1>0, MyGetFields
  <2>2. t = IF f.threw THEN f ELSE My!NewRow(f)
    BY <1>2 DEF My!GetRow, My!Then
  <2> HIDE DEF f
  <2>3. MySameRefs(s, f) /\ MyOthers(s, f) /\ MyShape(f) /\ f.threw \in BOOLEAN
    BY <2>1 DEF MyHas, MySameRefs, MyOthers, MyCore, MyPlain
  <2>4. MyNoMore(s, f)
    BY <2>3, MySameFree
  <2>5. CASE f.threw
    BY <2>1, <2>2, <2>3, <2>4, <2>5, MyUsesTwo
  <2>6. CASE ~ f.threw
    <3>1. t = My!TouchFields(u, f.fields)
      <4>1. [f EXCEPT !.row = r, !.ptr = r, !.data[r] = My!Empty] = u
        BY <2>3 DEF MyShape, Put
      <4>. QED
        BY <2>2, <2>6, <4>1 DEF My!NewRow
    <3>2. r \in RowIds /\ r \notin My!Referred(f)
      <4>1. Cardinality(MyFree(f)) > 0
        BY <2>4, MyFreeRow DEF MyNoMore
      <4>. QED
        BY <4>1, MyFreeRow
    <3>3. data = Put(f.data, r, My!Empty) /\ u = [f EXCEPT !.row = r, !.ptr = r, !.data = data]
      OBVIOUS
    <3> HIDE DEF r, data, u
    <3>4. MyTaken(f, r, u)
      BY <2>3, <3>3 DEF MyShape, MyTaken
    <3>5. MyCore(u, X) /\ MyUses(f, u)
      BY <2>1, <3>2, <3>4, MyTakenCore
    <3>6. MyTold(u, t) /\ MyKept(u, t)
      BY <3>1, <3>5, MyTouch DEF MyCore, MyPlain
    <3>7. MyCore(t, X) /\ MySameRefs(u, t)
      BY <3>5, <3>6, MyKeptCore DEF MyKept, MySameRefs
    <3>8. MyUses(s, t)
      BY <2>4, <3>5, <3>7, MySameFree, MyUsesTwo
    <3>9. MyOthers(s, t) /\ t.ptr \in RowIds
      BY <2>3, <3>2, <3>4, <3>6 DEF MyOthers, MyTaken, MyKept
    <3>10. MyRoom(t)
      BY <2>1, <2>6, <3>4, <3>6 DEF MyRoom, MyTaken, MyKept
    <3>. QED
      BY <3>7, <3>8, <3>9, <3>10
  <2>. QED
    BY <2>5, <2>6
<1>. QED
  BY <1>1, <1>2


(* A fetch fills the buffer that is bound to the handle. *)

\* Into the row of the running function.
MyFilled(s, h, x, y, t) ==
    /\ MyShape(t) /\ t.alive = s.alive /\ t.handle = s.handle /\ t.fields = s.fields
    /\ t.row = s.row /\ t.ptr = s.ptr /\ t.local = s.local /\ t.cursor = s.cursor
    /\ t.held = s.held /\ t.open = s.open /\ t.bound = s.bound
    /\ t.coming = Put(s.coming, h, y) /\ t.exec = s.exec
    /\ t.data = Put(s.data, s.bound[h], x) /\ t.leaked = s.leaked /\ t.misuse = s.misuse
    /\ t.threw = s.threw
LEMMA MyFill ==
  ASSUME NEW s, MyShape(s), NEW h, s.bound[h] \in My!Referred(s)
  PROVE  MyFilled(s, h, Head(s.coming[h]), Tail(s.coming[h]), My!Fill(s, h))
<1> SUFFICES ASSUME NEW t, t = My!Fill(s, h), NEW x, x = Head(s.coming[h]),
                    NEW y, y = Tail(s.coming[h])
             PROVE  MyFilled(s, h, x, y, t)
  OBVIOUS
<1> DEFINE data == Put(s.data, s.bound[h], x)
           coming == Put(s.coming, h, y)
<1>1. t = [s EXCEPT !.data = data, !.coming = coming]
  <2>1. t = [s EXCEPT !.data[s.bound[h]] = Head(s.coming[h]), !.coming[h] = Tail(@)]
    BY DEF My!Fill
  <2>2. t = [s EXCEPT !.data[s.bound[h]] = x, !.coming[h] = y]
    BY <2>1 DEF MyShape
  <2>. QED
    BY <2>2 DEF MyShape, Put
<1>2. data = Put(s.data, s.bound[h], x) /\ coming = Put(s.coming, h, y)
  OBVIOUS
<1> HIDE DEF data, coming
<1>. QED
  BY <1>1, <1>2 DEF MyShape, MyFilled

LEMMA MyFilledCore ==
  ASSUME NEW s, MyCore(s, {}), NEW h, h \in Handles, NEW x, NEW y, NEW t, MyFilled(s, h, x, y, t),
         s.ptr # 0, s.bound[h] = s.ptr
  PROVE  MyCore(t, {}) /\ MySameRefs(s, t)
<1> DEFINE r == s.ptr
           X == {}
<1>0. MyPlain(s) /\ MyOwners(s) /\ MyRows(s) /\ \A c \in Cursors : c \in X \/ MyComplete(s, c)
  BY DEF MyCore
<1> HIDE DEF X
<1>1. /\ r \in RowIds /\ r \notin DOMAIN s.held /\ \A c \in Cursors : s.cursor[c].row # r
  BY <1>0 DEF MyRows, MyCursorRow
<1>2. On(t.data, RowIds) /\ \A z \in RowIds : z # r => t.data[z] = s.data[z]
  <2>1. On(s.data, RowIds) /\ t.data = Put(s.data, r, x)
    BY <1>0 DEF MyFilled, MyPlain
  <2> HIDE DEF r
  <2>. QED
    BY <1>1, <2>1, PutAt
<1>3. On(t.coming, Handles)
  <2>1. On(s.coming, Handles) /\ t.coming = Put(s.coming, h, y)
    BY <1>0 DEF MyFilled, MyPlain
  <2>. QED
    BY <2>1, PutAt
<1>4. MyPlain(t)
  BY <1>0, <1>2, <1>3 DEF MyPlain, MyFilled
<1>5. MyOwners(t)
  BY <1>0 DEF MyOwners, MyOpen, MyFilled
<1>6. MyRows(t)
  <2>1. ASSUME NEW c \in Cursors
        PROVE  MyCursorRow(t, c)
    BY <1>0, <1>1, <1>2 DEF MyRows, MyCursorRow, MyFilled
  <2>2. \A z \in DOMAIN t.held : t.data[z] = t.held[z]
    BY <1>0, <1>1, <1>2 DEF MyRows, MyFilled
  <2>. QED
    BY <1>0, <2>1, <2>2 DEF MyRows, MyFilled
<1>7. \A c \in Cursors : c \in X \/ MyComplete(t, c)
  BY <1>0 DEF MyComplete, MyFilled
<1>8. MyCore(t, X)
  BY <1>4, <1>5, <1>6, <1>7 DEF MyCore
<1>9. MySameRefs(s, t)
  BY DEF MyFilled, MySameRefs
<1>. QED
  BY <1>8, <1>9 DEF X

\* Long columns are fetched once more.
LEMMA MyFetchColumns ==
  ASSUME NEW s, MyShape(s), s.threw \in BOOLEAN, NEW h, MyOpen(s, h), NEW fields
  PROVE  LET t == My!FetchColumns(s, h, fields)
         IN MyTold(s, t) /\ MyKept(s, t)
<1> DEFINE u == My!TouchFields(s, fields)
           v == My!CallOn(u, h)
<1> SUFFICES ASSUME NEW t, t = My!FetchColumns(s, h, fields)
             PROVE  MyTold(s, t) /\ MyKept(s, t)
  OBVIOUS
<1>1. t = s \/ t = v
  BY DEF My!FetchColumns
<1>2. MyTold(s, u) /\ MyKept(s, u)
  BY MyTouch
<1> HIDE DEF u
<1>3. MyShape(u) /\ u.threw \in BOOLEAN /\ MyOpen(u, h)
  BY <1>2 DEF MyTold, MyKept, MyOpen
<1>4. MyTold(u, v) /\ MyKept(u, v)
  BY <1>3, MyCall
<1> HIDE DEF v
<1>5. MyTold(s, v) /\ MyKept(s, v)
  BY <1>2, <1>4 DEF MyTold, MyKept
<1>6. MyTold(s, s) /\ MyKept(s, s)
  BY DEF MyTold, MyKept
<1>. QED
  BY <1>1, <1>5, <1>6

-----------------------------------------------------------------------------
\* The buffer is bound to the handle of the statement.
MyBound(s, h, t) ==
    /\ MyShape(t) /\ t.alive = s.alive /\ t.handle = s.handle /\ t.fields = s.fields
    /\ t.row = s.row /\ t.ptr = s.ptr /\ t.local = s.local /\ t.cursor = s.cursor
    /\ t.held = s.held /\ t.open = s.open /\ t.bound = Put(s.bound, h, s.ptr)
    /\ t.coming = s.coming /\ t.exec = s.exec
    /\ t.data = s.data /\ t.leaked = s.leaked /\ t.misuse = s.misuse
    /\ t.threw = s.threw
LEMMA MyBoundCore ==
  ASSUME NEW s, MyCore(s, {}), s.handle # 0, NEW t, t = [s EXCEPT !.bound[s.handle] = s.ptr]
  PROVE  MyCore(t, {}) /\ MyBound(s, s.handle, t) /\ t.bound[s.handle] = s.ptr
<1> DEFINE X == {}
           h == s.handle
           r == s.ptr
           bound == Put(s.bound, h, r)
<1>0. /\ MyPlain(s) /\ MyOwners(s) /\ MyRows(s) /\ MyShape(s)
      /\ \A c \in Cursors : c \in X \/ MyComplete(s, c)
  BY DEF MyCore, MyPlain
<1> HIDE DEF X
<1>1. t = [s EXCEPT !.bound = bound]
  BY <1>0 DEF MyShape, Put
<1>2. h \in Handles /\ \A c \in Cursors : s.cursor[c].handle # 0 =>
          s.cursor[c].handle \in Handles /\ s.cursor[c].handle # h
  BY <1>0 DEF MyOwners, MyOpen
<1>3. bound = Put(s.bound, h, r) /\ On(s.bound, Handles)
  BY <1>0 DEF MyPlain
<1> HIDE DEF bound
<1>4. MyBound(s, h, t)
  BY <1>0, <1>1, <1>3 DEF MyShape, MyBound
<1>5. t.bound = bound
  BY <1>3, <1>4 DEF MyBound
<1> HIDE DEF h, r
<1>6. On(bound, Handles) /\ bound[h] = r /\ \A g \in Handles : g # h => bound[g] = s.bound[g]
  BY <1>2, <1>3, PutAt
<1>7. MyPlain(t)
  BY <1>0, <1>4, <1>5, <1>6 DEF MyPlain, MyBound
<1>8. MyOwners(t)
  BY <1>0, <1>4 DEF MyOwners, MyOpen, MyBound
<1>9. MyRows(t)
  BY <1>0, <1>4 DEF MyRows, MyCursorRow, MyBound
<1>10. \A c \in Cursors : c \in X \/ MyComplete(t, c)
  BY <1>0, <1>2, <1>4, <1>5, <1>6 DEF MyComplete, MyBound
<1>11. MyCore(t, X)
  BY <1>7, <1>8, <1>9, <1>10 DEF MyCore
<1>12. t.bound[h] = r
  BY <1>5, <1>6
<1>. QED
  BY <1>4, <1>11, <1>12 DEF X, h, r

\* The function that runs gives up its row.
LEMMA MyDropPtr ==
  ASSUME NEW s, NEW X, MyCore(s, X), NEW t, t = [s EXCEPT !.ptr = 0]
  PROVE  MyCore(t, X) /\ MyOthers(s, t) /\ t.handle = s.handle /\ t.open = s.open
         /\ t.threw = s.threw /\ t.ptr = 0 /\ MyNoMore(s, t)
<1>0. MyPlain(s) /\ MyShape(s) /\ MyOwners(s) /\ MyRows(s)
  BY DEF MyCore, MyPlain
<1>1. /\ MyShape(t) /\ t.handle = s.handle /\ t.row = s.row /\ t.ptr = 0
      /\ t.local = s.local /\ t.cursor = s.cursor /\ t.held = s.held
      /\ t.open = s.open /\ t.bound = s.bound /\ t.coming = s.coming
      /\ t.data = s.data /\ t.leaked = s.leaked /\ t.misuse = s.misuse /\ t.threw = s.threw
  BY <1>0 DEF MyShape
<1>2. MyPlain(t)
  BY <1>0, <1>1 DEF MyPlain
<1>3. MyOwners(t)
  BY <1>0, <1>1 DEF MyOwners, MyOpen
<1>4. MyRows(t)
  <2>1. 0 \notin DOMAIN t.held
    BY <1>0, <1>1, MyAssumption DEF MyRows
  <2>2. \A c \in Cursors : MyCursorRow(t, c)
    BY <1>0, <1>1 DEF MyRows, MyCursorRow
  <2>. QED
    BY <1>0, <1>1, <2>1, <2>2 DEF MyRows
<1>5. \A c \in Cursors : c \in X \/ MyComplete(t, c)
  BY <1>1 DEF MyCore, MyComplete
<1>6. MyNoMore(s, t)
  <2>1. \A c \in Cursors : t.cursor[c].row = s.cursor[c].row
    BY <1>1
  <2>2. MyFree(s) \subseteq MyFree(t) \cup {0}
    BY <1>1 DEF MyFree, My!Referred
  <2>3. MyFree(s) \subseteq MyFree(t)
    BY <2>2, MyAssumption DEF MyFree
  <2>4. Cardinality(MyFree(s)) <= Cardinality(MyFree(t))
        /\ Cardinality(MyFree(s)) \in Nat /\ Cardinality(MyFree(t)) \in Nat
    BY <2>3, FS_Subset, MyFreeRow
  <2>. QED
    BY <2>4 DEF MyNoMore
<1>7. MyOthers(s, t)
  BY <1>1 DEF MyOthers
<1>. QED
  BY <1>1, <1>2, <1>3, <1>4, <1>5, <1>6, <1>7 DEF MyCore

\* The next row of the result, or none.
MyFetched(s, t) ==
    /\ MyCore(t, {}) /\ t.handle = s.handle /\ MyUses(s, t)
LEMMA MyFetchRow ==
  ASSUME NEW s, MyCore(s, {}), ~ s.threw, s.handle # 0, Cardinality(MyFree(s)) > 0
  PROVE  MyFetched(s, My!FetchRow(s))
<1> SUFFICES ASSUME NEW t, t = My!FetchRow(s)
             PROVE  MyFetched(s, t)
  OBVIOUS
<1> DEFINE h == s.handle
           g == My!GetRow(s)
           b == IF g.threw THEN g ELSE My!CallOn(g, g.handle)
           d == [b EXCEPT !.bound[b.handle] = b.ptr]
           c == IF b.threw THEN b ELSE My!CallOn(d, d.handle)
           x == Head(c.coming[h])
           y == Tail(c.coming[h])
           f == My!Fill(c, h)
           v == My!FetchColumns(f, h, c.fields)
<1>1. t = IF c.threw THEN c ELSE IF c.coming[c.handle] = << >> THEN [c EXCEPT !.ptr = 0]
          ELSE My!Fetch(c, c.handle, c.fields)
  <2>1. b.threw \/ d.handle = b.handle
    <3>1. CASE g.threw
      BY <3>1
    <3>2. CASE ~ g.threw
      <4>1. MyRoom(s)
        BY DEF MyRoom
      <4>2. MyCore(g, {}) /\ MyOthers(s, g)
        BY <4>1, MyGetRow
      <4> HIDE DEF g
      <4>3. MyShape(g) /\ g.threw \in BOOLEAN /\ MyOpen(g, g.handle)
        BY <4>2 DEF MyCore, MyPlain, MyOwners, MyOthers
      <4>4. MyShape(b)
        BY <3>2, <4>3, MyCall DEF MyTold
      <4> HIDE DEF b
      <4>5. d.handle = b.handle
        BY <4>4 DEF MyShape
      <4>. QED
        BY <4>5
    <3>. QED
      BY <3>1, <3>2
  <2>2. c = IF b.threw THEN b ELSE My!CallOn([b EXCEPT !.bound[b.handle] = b.ptr], b.handle)
    BY <2>1
  <2> HIDE DEF c
  <2>. QED
    BY <2>2 DEF My!FetchRow, My!Then, My!None
<1>2. MyCore(g, {}) /\ MyOthers(s, g) /\ MyUses(s, g) /\ (~ g.threw => g.ptr \in RowIds)
  BY MyGetRow DEF MyRoom
<1> HIDE DEF g
<1>3. MyShape(g) /\ g.threw \in BOOLEAN /\ g.handle = h /\ MyOpen(g, h) /\ h # 0 /\ h \in Handles
  BY <1>2 DEF MyCore, MyPlain, MyOwners, MyOthers, MyOpen
<1>4. CASE g.threw
  BY <1>1, <1>2, <1>3, <1>4 DEF MyFetched
<1>5. CASE ~ g.threw
  <2>1. b = My!CallOn(g, h)
    BY <1>3, <1>5
  <2> HIDE DEF b
  <2>2. MyTold(g, b) /\ MyKept(g, b)
    BY <1>3, <2>1, MyCall
  <2>3. MyCore(b, {}) /\ MySameRefs(g, b) /\ b.handle = h /\ b.ptr \in RowIds
    BY <1>2, <1>3, <1>5, <2>2, MyKeptCore DEF MyKept, MySameRefs
  <2>4. MyUses(s, b)
    BY <1>2, <2>3, MySameFree, MyUsesTwo
  <2>5. CASE b.threw
    BY <1>1, <2>3, <2>4, <2>5 DEF MyFetched
  <2>6. CASE ~ b.threw
    <3>1. c = My!CallOn(d, d.handle) /\ d = [b EXCEPT !.bound[b.handle] = b.ptr]
      BY <2>6
    <3> HIDE DEF c, d
    <3>2. MyCore(d, {}) /\ MyBound(b, h, d) /\ d.bound[h] = b.ptr
      BY <1>3, <2>3, <3>1, MyBoundCore
    <3>3. /\ MyShape(d) /\ d.threw \in BOOLEAN /\ d.handle = h /\ MyOpen(d, h)
          /\ MySameRefs(b, d)
      BY <1>3, <2>3, <3>2 DEF MyCore, MyPlain, MyOwners, MyBound, MySameRefs
    <3>4. MyTold(d, c) /\ MyKept(d, c)
      BY <3>1, <3>3, MyCall
    <3>5. MyCore(c, {}) /\ MySameRefs(d, c) /\ c.handle = h /\ c.bound[h] = c.ptr
          /\ MyShape(c) /\ c.threw \in BOOLEAN /\ MyOpen(c, h)
      BY <3>2, <3>3, <3>4, MyKeptCore DEF MyKept, MySameRefs, MyTold, MyBound, MyOpen
    <3>6. c.ptr \in RowIds /\ c.ptr # 0
      BY <2>3, <3>3, <3>5, MyAssumption DEF MySameRefs
    <3>7. MyUses(s, c)
      BY <2>4, <3>3, <3>5, MySameFree, MyUsesTwo
    <3>8. CASE c.threw
      BY <1>1, <3>5, <3>7, <3>8 DEF MyFetched
    <3>9. CASE ~ c.threw /\ c.coming[h] = << >>
      <4>1. t = [c EXCEPT !.ptr = 0]
        BY <1>1, <3>5, <3>9
      <4>2. MyCore(t, {}) /\ t.handle = c.handle /\ MyNoMore(c, t)
        BY <3>5, <4>1, MyDropPtr
      <4>. QED
        BY <3>5, <3>7, <4>2, MyUsesTwo DEF MyFetched
    <3>10. CASE ~ c.threw /\ c.coming[h] # << >>
      <4>1. t = IF f.threw THEN f ELSE v
        BY <1>1, <3>5, <3>10 DEF My!Fetch, My!Then
      <4>2. c.bound[h] \in My!Referred(c)
        BY <3>5 DEF My!Referred
      <4>3. MyFilled(c, h, x, y, f)
        BY <3>5, <4>2, MyFill
      <4> HIDE DEF x, y, f
      <4>4. MyCore(f, {}) /\ MySameRefs(c, f)
        BY <1>3, <3>5, <3>6, <4>3, MyFilledCore
      <4>5. MyShape(f) /\ f.threw \in BOOLEAN /\ MyOpen(f, h) /\ f.handle = h
        BY <3>5, <4>3, <4>4 DEF MyCore, MyPlain, MyFilled, MyOpen
      <4>6. MyUses(s, f)
        BY <3>7, <4>4, MySameFree, MyUsesTwo
      <4>7. MyTold(f, v) /\ MyKept(f, v)
        BY <4>5, MyFetchColumns
      <4> HIDE DEF v
      <4>8. MyCore(v, {}) /\ MySameRefs(f, v) /\ v.handle = h
        BY <4>4, <4>5, <4>7, MyKeptCore DEF MyKept, MySameRefs
      <4>9. MyUses(s, v)
        BY <4>6, <4>8, MySameFree, MyUsesTwo
      <4>. QED
        BY <4>1, <4>4, <4>5, <4>6, <4>8, <4>9 DEF MyFetched
    <3>. QED
      BY <3>8, <3>9, <3>10
  <2>. QED
    BY <2>5, <2>6
<1>. QED
  BY <1>4, <1>5


\* The function keeps its row.
LEMMA MyAddRow ==
  ASSUME NEW s, MyCore(s, {})
  PROVE  LET t == My!AddRow(s)
         IN MyCore(t, {}) /\ t.handle = s.handle /\ t.threw = s.threw /\ MyNoMore(s, t)
<1> DEFINE X == {}
           own == s.local \cup ({s.ptr} \ {0})
<1> SUFFICES ASSUME NEW t, t = My!AddRow(s)
             PROVE  MyCore(t, X) /\ t.handle = s.handle /\ t.threw = s.threw /\ MyNoMore(s, t)
  OBVIOUS
<1>0. /\ MyPlain(s) /\ MyShape(s) /\ MyOwners(s) /\ MyRows(s)
      /\ \A c \in Cursors : c \in X \/ MyComplete(s, c)
  BY DEF MyCore, MyPlain
<1>1. t = [s EXCEPT !.local = own]
  BY <1>0 DEF My!AddRow, My!None, MyShape
<1>2. /\ \A x \in own : x \in s.local \/ (x = s.ptr /\ x # 0)
      /\ s.local \subseteq own
  OBVIOUS
<1> HIDE DEF X, own
<1>3. /\ MyShape(t) /\ t.handle = s.handle /\ t.row = s.row /\ t.ptr = s.ptr
      /\ t.local = own /\ t.cursor = s.cursor /\ t.held = s.held
      /\ t.open = s.open /\ t.bound = s.bound /\ t.coming = s.coming
      /\ t.data = s.data /\ t.leaked = s.leaked /\ t.misuse = s.misuse /\ t.threw = s.threw
  BY <1>0, <1>1 DEF MyShape
<1>4. MyPlain(t)
  BY <1>0, <1>3 DEF MyPlain
<1>5. MyOwners(t)
  BY <1>0, <1>3 DEF MyOwners, MyOpen
<1>6. MyRows(t)
  <2>1. own \subseteq RowIds
    BY <1>0, <1>2 DEF MyRows
  <2>2. ASSUME NEW c \in Cursors
        PROVE  MyCursorRow(t, c)
    BY <1>0, <1>2, <1>3 DEF MyRows, MyCursorRow
  <2>. QED
    BY <1>0, <1>3, <2>1, <2>2 DEF MyRows
<1>7. \A c \in Cursors : c \in X \/ MyComplete(t, c)
  BY <1>0, <1>3 DEF MyComplete
<1>8. My!Referred(t) \cup {t.row} \subseteq My!Referred(s) \cup {s.row}
  <2>1. \A x \in t.local : x \in s.local \/ x = s.ptr
    BY <1>2, <1>3
  <2>. QED
    BY <1>3, <2>1 DEF My!Referred
<1>. QED
  BY <1>3, <1>4, <1>5, <1>6, <1>7, <1>8, MyNoneLess DEF MyCore

-----------------------------------------------------------------------------
\* The rows of a result, one after the other.
MyAfter(t) ==
    LET f == IF t.threw THEN t ELSE My!FetchRow(t)
    IN IF f.threw THEN f ELSE My!AddRow(f)
LEMMA MyRounds ==
  ASSUME NEW s, NEW n \in Nat
  PROVE  \E run : /\ run[0] = s
                  /\ \A i \in 1..(n + 1) : run[i] = MyAfter(run[i - 1])
                  /\ My!FetchAll(s, n) = run[n + 1]
<1> DEFINE Run(r, m) == r = [i \in 0..m |-> IF i = 0 THEN s ELSE MyAfter(r[i - 1])]
           T == {m \in Nat : \E r : Run(r, m)}
           q == CHOOSE r : Run(r, n + 1)
<1>1. My!FetchAll(s, n) = q[n + 1]
  BY DEF My!FetchAll, My!Then, MyAfter
<1>2. 0 \in T
  <2>1. Run([i \in 0..0 |-> s], 0)
    OBVIOUS
  <2>. QED
    BY <2>1
<1>3. ASSUME NEW m \in Nat, m \in T
      PROVE  m + 1 \in T
  <2>1. PICK r : Run(r, m)
    BY <1>3
  <2> DEFINE p == [i \in 0..(m + 1) |-> IF i = m + 1 THEN MyAfter(r[m]) ELSE r[i]]
  <2>2. ASSUME NEW i \in 0..(m + 1)
        PROVE  p[i] = IF i = 0 THEN s ELSE MyAfter(p[i - 1])
    <3>1. CASE i = m + 1
      <4>1. p[m] = r[m] /\ m \in 0..(m + 1) /\ i - 1 = m /\ i # 0
        BY <3>1
      <4>2. p[i] = MyAfter(r[m])
        BY <3>1
      <4> HIDE DEF p
      <4>. QED
        BY <4>1, <4>2
    <3>2. CASE i # m + 1
      <4>1. i \in 0..m /\ p[i] = r[i]
        BY <3>2
      <4>2. r[i] = IF i = 0 THEN s ELSE MyAfter(r[i - 1])
        BY <2>1, <4>1
      <4>3. i # 0 => p[i - 1] = r[i - 1]
        BY <4>1
      <4> HIDE DEF p
      <4>. QED
        BY <4>1, <4>2, <4>3
    <3>. QED
      BY <3>1, <3>2
  <2>3. Run(p, m + 1)
    BY <2>2
  <2> HIDE DEF p, Run
  <2>. QED
    BY <2>3
<1>4. \E r : Run(r, n + 1)
  <2> HIDE DEF Run
  <2>1. n + 1 \in T
    <3>1. n + 1 \in Nat
      OBVIOUS
    <3> HIDE DEF T
    <3>. QED
      BY <1>2, <1>3, <3>1, Counting
  <2>. QED
    BY <2>1
<1>5. Run(q, n + 1)
  <2> HIDE DEF Run
  <2>. QED
    BY <1>4
<1>6. q[0] = s /\ \A i \in 1..(n + 1) : q[i] = MyAfter(q[i - 1])
  <2> HIDE DEF q
  <2>1. q = [i \in 0..(n + 1) |-> IF i = 0 THEN s ELSE MyAfter(q[i - 1])]
    BY <1>5
  <2>2. \A i \in 0..(n + 1) : q[i] = IF i = 0 THEN s ELSE MyAfter(q[i - 1])
    BY <2>1
  <2>. QED
    BY <2>2
<1> HIDE DEF q
<1>. QED
  BY <1>1, <1>6

MyRan(t, m) ==
    /\ MyCore(t, {})
    /\ ~ t.threw => t.handle # 0 /\ Cardinality(MyFree(t)) >= m
LEMMA MyAfterIs ==
  ASSUME NEW s, NEW m \in Nat, MyRan(s, m + 1)
  PROVE  MyRan(MyAfter(s), m)
<1> DEFINE f == IF s.threw THEN s ELSE My!FetchRow(s)
           a == My!AddRow(f)
<1>1. MyAfter(s) = IF f.threw THEN f ELSE a
  BY DEF MyAfter
<1>2. CASE s.threw
  BY <1>1, <1>2 DEF MyRan
<1>3. CASE ~ s.threw
  <2>1. MyCore(s, {}) /\ s.handle # 0 /\ Cardinality(MyFree(s)) >= m + 1
        /\ Cardinality(MyFree(s)) \in Nat
    BY <1>3, MyFreeRow DEF MyRan
  <2>2. f = My!FetchRow(s) /\ Cardinality(MyFree(s)) > 0
    BY <1>3, <2>1
  <2> HIDE DEF f
  <2>3. MyCore(f, {}) /\ f.handle = s.handle /\ MyUses(s, f)
    BY <1>3, <2>1, <2>2, MyFetchRow DEF MyFetched
  <2>4. MyCore(a, {}) /\ a.handle = f.handle /\ MyNoMore(f, a)
    BY <2>3, MyAddRow
  <2> HIDE DEF a
  <2>5. Cardinality(MyFree(a)) >= m
    <3>1. MyUses(s, a)
      BY <2>3, <2>4, MyUsesTwo
    <3>2. Cardinality(MyFree(a)) \in Nat
      BY MyFreeRow
    <3>. QED
      BY <2>1, <3>1, <3>2 DEF MyUses
  <2>. QED
    BY <1>1, <2>1, <2>3, <2>4, <2>5 DEF MyRan
<1>. QED
  BY <1>2, <1>3

LEMMA MyFetchAll ==
  ASSUME NEW s, NEW n \in Nat, MyRan(s, n + 1)
  PROVE  MyCore(My!FetchAll(s, n), {})
<1>1. PICK run : /\ run[0] = s
                 /\ \A i \in 1..(n + 1) : run[i] = MyAfter(run[i - 1])
                 /\ My!FetchAll(s, n) = run[n + 1]
  BY MyRounds
<1> DEFINE T == {i \in Nat : i <= n + 1 => MyRan(run[i], n + 1 - i)}
<1>2. 0 \in T
  <2>1. n + 1 - 0 = n + 1
    OBVIOUS
  <2>. QED
    BY <1>1, <2>1
<1>3. ASSUME NEW i \in Nat, i \in T
      PROVE  i + 1 \in T
  <2>1. CASE i + 1 <= n + 1
    <3> DEFINE m == n + 1 - (i + 1)
               r == run[i]
               u == run[i + 1]
    <3>1. m \in Nat /\ n + 1 - i = m + 1 /\ i + 1 \in 1..(n + 1) /\ i <= n + 1 /\ (i + 1) - 1 = i
      BY <2>1
    <3>2. MyRan(r, m + 1)
      BY <1>3, <3>1
    <3>3. u = MyAfter(r)
      BY <1>1, <3>1
    <3>4. m = n + 1 - (i + 1)
      OBVIOUS
    <3> HIDE DEF m, r, u
    <3>5. MyRan(u, m)
      BY <3>1, <3>2, <3>3, MyAfterIs
    <3>. QED
      BY <3>4, <3>5 DEF u
  <2>2. CASE ~ (i + 1 <= n + 1)
    BY <2>2
  <2>. QED
    BY <2>1, <2>2
<1>4. n + 1 \in T
  <2>1. n + 1 \in Nat
    OBVIOUS
  <2> HIDE DEF T
  <2>. QED
    BY <1>2, <1>3, <2>1, Counting
<1>5. MyRan(run[n + 1], n + 1 - (n + 1))
  BY <1>4
<1>. QED
  BY <1>1, <1>5 DEF MyRan

-----------------------------------------------------------------------------
\* The statement that the server executes.
MySent(s, t) ==
    /\ t.alive = s.alive /\ t.handle = s.handle /\ t.fields = s.fields /\ t.row = s.row
    /\ t.ptr = s.ptr /\ t.local = s.local /\ t.cursor = s.cursor /\ t.held = s.held
    /\ t.open = s.open /\ t.bound = s.bound /\ t.data = s.data /\ t.leaked = s.leaked
LEMMA MyExecuteHandle ==
  ASSUME NEW s, NEW X, MyCore(s, X), ~ s.threw, NEW h, MyOpen(s, h), NEW n
  PROVE  LET t == My!ExecuteHandle(s, h, n)
         IN MyCore(t, X) /\ MySent(s, t)
<1> SUFFICES ASSUME NEW t, t = My!ExecuteHandle(s, h, n)
             PROVE  MyCore(t, X) /\ MySent(s, t)
  OBVIOUS
<1> DEFINE a == My!CallOn(s, h)
           b == IF a.threw THEN a ELSE My!CallOn(a, h)
           c == IF b.threw THEN b ELSE My!CallOn(b, h)
           sent == My!Sent(c, n)
           exec == c.exec + 1
           coming == Put(c.coming, h, sent)
           good(u) == MyCore(u, X) /\ MySent(s, u) /\ MyShape(u) /\ u.threw \in BOOLEAN
                      /\ MyOpen(u, h)
<1>1. t = IF c.threw THEN c ELSE IF My!Busy(c, h) THEN My!Throw(c)
          ELSE [c EXCEPT !.exec = @ + 1, !.coming[h] = sent]
  BY DEF My!ExecuteHandle, My!Then
<1>2. good(s)
  BY DEF MyCore, MyPlain, MySent
<1>3. ASSUME NEW u, good(u)
      PROVE  good(My!CallOn(u, h))
  <2> DEFINE v == My!CallOn(u, h)
  <2>1. MyTold(u, v) /\ MyKept(u, v)
    BY <1>3, MyCall
  <2> HIDE DEF v
  <2>2. MyCore(v, X)
    BY <1>3, <2>1, MyKeptCore
  <2>3. MySent(s, v) /\ MyShape(v) /\ v.threw \in BOOLEAN /\ MyOpen(v, h)
    BY <1>3, <2>1 DEF MyTold, MyKept, MySent, MyOpen
  <2>. QED
    BY <2>2, <2>3 DEF v
<1> HIDE DEF good
<1>4. good(a)
  BY <1>2, <1>3
<1> HIDE DEF a
<1>5. good(b)
  BY <1>3, <1>4
<1> HIDE DEF b
<1>6. good(c)
  BY <1>3, <1>5
<1> HIDE DEF c, sent
<1> USE DEF good
<1>7. CASE c.threw
  BY <1>1, <1>6, <1>7
<1>8. CASE ~ c.threw /\ My!Busy(c, h)
  <2>1. t = [c EXCEPT !.threw = TRUE]
    BY <1>1, <1>8 DEF My!Throw
  <2>2. MyShape(t) /\ MyKept(c, t) /\ t.threw = TRUE /\ t.misuse = c.misuse
    BY <1>6, <2>1 DEF MyShape, MyKept
  <2>3. t.threw \in BOOLEAN
    BY <2>2
  <2>4. MyTold(c, t) /\ MyKept(c, t)
    BY <2>2, <2>3 DEF MyTold
  <2>. QED
    BY <1>6, <2>4, MyKeptCore DEF MySent, MyKept
<1>9. CASE ~ c.threw /\ ~ My!Busy(c, h)
  <2>1. t = [c EXCEPT !.exec = exec, !.coming = coming]
    <3>1. t = [c EXCEPT !.exec = @ + 1, !.coming[h] = sent]
      BY <1>1, <1>9
    <3>. QED
      BY <1>6, <3>1 DEF MyShape, Put
  <2>2. On(coming, Handles)
    <3>1. On(c.coming, Handles) /\ h \in Handles
      BY <1>6 DEF MyCore, MyPlain, MyOpen
    <3>. QED
      BY <3>1, PutAt
  <2> HIDE DEF exec, coming
  <2>3. /\ MyShape(t) /\ MySameRows(c, t) /\ t.handle = c.handle /\ t.open = c.open
        /\ t.coming = coming /\ t.misuse = c.misuse /\ t.threw = c.threw
    BY <1>6, <2>1 DEF MyShape, MySameRows
  <2>4. On(t.open, Handles) /\ On(t.coming, Handles) /\ t.threw \in BOOLEAN
    BY <1>6, <2>2, <2>3 DEF MyCore, MyPlain
  <2>5. MyPlain(t) /\ MyRows(t) /\ \A x \in Cursors : x \in X \/ MyComplete(t, x)
    BY <1>6, <2>3, <2>4, MySameRowsStay
  <2>6. MyOwners(t)
    BY <1>6, <2>3 DEF MyCore, MyOwners, MyOpen, MySameRows
  <2>7. MySent(s, t)
    BY <1>6, <2>3 DEF MySent, MySameRows
  <2>. QED
    BY <2>5, <2>6, <2>7 DEF MyCore
<1>. QED
  BY <1>7, <1>8, <1>9


\* What a function of the statement starts with.
MyStarted(s) ==
    /\ MyCore(s, {}) /\ ~ s.threw /\ MyRoom(s) /\ Cardinality(MyFree(s)) >= MaxRows + 2

\* A handle that is called.
LEMMA MyHandleCall ==
  ASSUME NEW s, NEW X, MyCore(s, X), NEW h, MyOpen(s, h)
  PROVE  LET t == My!CallOn(s, h)
         IN MyCore(t, X) /\ MyKept(s, t) /\ MyNoMore(s, t)
<1> DEFINE t == My!CallOn(s, h)
<1>1. MyTold(s, t) /\ MyKept(s, t)
  BY MyCall DEF MyCore, MyPlain
<1> HIDE DEF t
<1>2. MySameRefs(s, t) /\ MyCore(t, X)
  BY <1>1, MyKeptCore DEF MyKept, MySameRefs
<1>3. MyNoMore(s, t)
  BY <1>2, MySameFree
<1>. QED
  BY <1>1, <1>2, <1>3 DEF t

LEMMA MySelect0 ==
  ASSUME NEW s, MyStarted(s), NEW n
  PROVE  MyRan(My!Select0(s, n), MaxRows + 1)
<1> SUFFICES ASSUME NEW t, t = My!Select0(s, n)
             PROVE  MyRan(t, MaxRows + 1)
  OBVIOUS
<1> DEFINE r == My!GetRow(s)
           a == IF s.fields # 0 THEN [r EXCEPT !.ptr = 0] ELSE s
           g == IF a.threw THEN a ELSE My!GetStmt(a)
           e == IF g.threw THEN g ELSE My!ExecuteHandle(g, g.handle, n)
           k == IF e.threw THEN e ELSE My!CallOn(e, e.handle)
<1>1. t = k
  BY DEF My!Select0, My!Then, My!None
<1>2. MyCore(a, {}) /\ MyUses(s, a) /\ (~ a.threw => MyRoom(a))
  <2>1. CASE s.fields = 0
    <3>1. MyNoMore(s, s)
      BY MySameFree DEF MySameRefs
    <3>. QED
      BY <2>1, <3>1, MyUsesTwo DEF MyStarted
  <2>2. CASE s.fields # 0
    <3>1. Cardinality(MyFree(s)) > 0
      BY MyAssumption, MyFreeRow DEF MyStarted
    <3>2. MyCore(r, {}) /\ MyUses(s, r) /\ (~ r.threw => MyRoom(r))
      BY <3>1, MyGetRow DEF MyStarted
    <3>3. a = [r EXCEPT !.ptr = 0]
      BY <2>2
    <3> HIDE DEF r, a
    <3>4. MyCore(a, {}) /\ a.handle = r.handle /\ a.open = r.open /\ a.threw = r.threw
          /\ MyNoMore(r, a)
      BY <3>2, <3>3, MyDropPtr
    <3>. QED
      BY <3>2, <3>4, MyUsesTwo DEF MyRoom
  <2>. QED
    BY <2>1, <2>2
<1> HIDE DEF a
<1>3. CASE a.threw
  BY <1>1, <1>2, <1>3 DEF MyRan
<1>4. CASE ~ a.threw
  <2>1. g = My!GetStmt(a)
    BY <1>4
  <2> HIDE DEF g
  <2>2. MyCore(g, {}) /\ MyGot(a, g)
    BY <1>2, <1>4, <2>1, MyGetStmt
  <2>3. MyNoMore(a, g)
    BY <2>2, MySameFree DEF MyGot, MySameRows, MySameRefs
  <2>4. CASE g.threw
    BY <1>1, <2>2, <2>4 DEF MyRan
  <2>5. CASE ~ g.threw
    <3>1. MyOpen(g, g.handle) /\ g.handle # 0 /\ e = My!ExecuteHandle(g, g.handle, n)
      BY <2>2, <2>5 DEF MyGot
    <3> HIDE DEF e
    <3>2. MyCore(e, {}) /\ MySent(g, e)
      BY <2>2, <2>5, <3>1, MyExecuteHandle
    <3>3. MyNoMore(g, e) /\ e.handle # 0 /\ MyOpen(e, e.handle)
      BY <3>1, <3>2, MySameFree DEF MySent, MySameRefs, MyOpen
    <3>4. CASE e.threw
      BY <1>1, <3>2, <3>4 DEF MyRan
    <3>5. CASE ~ e.threw
      <4>1. k = My!CallOn(e, e.handle)
        BY <3>5
      <4> HIDE DEF k
      <4>2. MyCore(k, {}) /\ MyKept(e, k) /\ MyNoMore(e, k)
        BY <3>2, <3>3, <4>1, MyHandleCall
      <4>3. MyUses(s, k)
        BY <1>2, <2>3, <3>3, <4>2, MyUsesTwo
      <4>4. Cardinality(MyFree(k)) >= MaxRows + 1
        BY <4>3, MyAssumption, MyFreeRow DEF MyStarted, MyUses
      <4>5. k.handle # 0
        BY <3>3, <4>2 DEF MyKept
      <4>. QED
        BY <1>1, <4>2, <4>4, <4>5 DEF MyRan
    <3>. QED
      BY <3>4, <3>5
  <2>. QED
    BY <2>4, <2>5
<1>. QED
  BY <1>3, <1>4

LEMMA MySelectRows ==
  ASSUME NEW s, MyStarted(s), NEW n \in Nat, n <= MaxRows
  PROVE  MyCore(My!SelectRows(s, n), {})
<1> DEFINE t == My!Select0(s, n)
<1>1. MyRan(t, MaxRows + 1)
  BY MySelect0
<1>2. My!SelectRows(s, n) = IF t.threw THEN t ELSE My!FetchAll(t, n)
  BY DEF My!SelectRows, My!Then
<1> HIDE DEF t
<1>3. MyRan(t, n + 1)
  BY <1>1, MyAssumption, MyFreeRow DEF MyRan
<1>. QED
  BY <1>2, <1>3, MyFetchAll DEF MyRan

LEMMA MySelectBoundRow ==
  ASSUME NEW s, MyStarted(s), NEW n
  PROVE  MyCore(My!SelectBoundRow(s, n), {})
<1> DEFINE t == My!Select0(s, n)
           f == IF t.threw THEN t ELSE My!FetchRow(t)
           a == My!AddRow(f)
           x == My!Throw(f)
<1>1. MyRan(t, MaxRows + 1)
  BY MySelect0
<1>2. My!SelectBoundRow(s, n) = IF f.threw THEN f ELSE IF f.ptr = 0 THEN x ELSE a
  BY DEF My!SelectBoundRow, My!Then, My!None
<1> HIDE DEF t
<1>3. MyCore(f, {})
  <2>1. CASE t.threw
    BY <1>1, <2>1 DEF MyRan
  <2>2. CASE ~ t.threw
    <3>1. MyCore(t, {}) /\ t.handle # 0 /\ Cardinality(MyFree(t)) > 0
      BY <1>1, <2>2, MyAssumption, MyFreeRow DEF MyRan
    <3>. QED
      BY <2>2, <3>1, MyFetchRow DEF MyFetched
  <2>. QED
    BY <2>1, <2>2
<1> HIDE DEF f
<1>4. MyCore(a, {})
  BY <1>3, MyAddRow
<1>5. MyCore(x, {})
  <2>1. x = [f EXCEPT !.threw = TRUE] /\ MyShape(f)
    BY <1>3 DEF My!Throw, MyCore, MyPlain
  <2> HIDE DEF x
  <2>2. MyShape(x) /\ MyKept(f, x) /\ x.threw = TRUE /\ x.misuse = f.misuse
    BY <2>1 DEF MyShape, MyKept
  <2>3. x.threw \in BOOLEAN
    BY <2>2
  <2>. QED
    BY <1>3, <2>2, <2>3, MyKeptCore DEF MyTold
<1>. QED
  BY <1>2, <1>3, <1>4, <1>5

LEMMA MyExecuteStatement ==
  ASSUME NEW s, MyStarted(s)
  PROVE  MyCore(My!ExecuteStatement(s), {})
<1> DEFINE g == My!GetStmt(s)
<1>1. MyCore(g, {}) /\ MyGot(s, g)
  BY MyGetStmt DEF MyStarted
<1>2. My!ExecuteStatement(s) = IF g.threw THEN g ELSE My!ExecuteHandle(g, g.handle, 0)
  BY DEF My!ExecuteStatement, My!Then
<1> HIDE DEF g
<1>. QED
  BY <1>1, <1>2, MyExecuteHandle DEF MyGot

-----------------------------------------------------------------------------
\* A function returns: the client gets its rows.
LEMMA MyEnds ==
  ASSUME NEW t, MyCore(t, {}), My!Ends(t)
  PROVE  MyGood(sys')
<1> DEFINE X == {}
           no == FALSE
           nothing == {}
           more == [r \in t.local \cup DOMAIN t.held |-> IF r \in t.local THEN t.data[r]
                                                         ELSE t.held[r]]
           held == IF t.threw THEN t.held ELSE more
<1>0. MyPlain(t) /\ MyShape(t) /\ MyOwners(t) /\ MyRows(t)
      /\ \A c \in Cursors : c \in X \/ MyComplete(t, c)
  BY DEF MyCore, MyPlain
<1>1. sys' = [t EXCEPT !.held = held, !.ptr = 0, !.local = nothing,
                       !.failing = 0, !.calls = 0, !.threw = no]
  <2> DEFINE u == IF t.threw THEN t
                  ELSE [t EXCEPT !.held = [r \in t.local \cup DOMAIN @ |->
                                             IF r \in t.local THEN t.data[r] ELSE @[r]]]
             w == [t EXCEPT !.held = held]
  <2>1. sys' = [[u EXCEPT !.ptr = 0, !.local = {}]
                  EXCEPT !.failing = 0, !.calls = 0, !.threw = FALSE]
    BY DEF My!Ends, My!Kept, My!Finished, My!None
  <2>2. u = w
    <3>1. CASE t.threw
      <4>1. held = t.held
        BY <3>1
      <4> HIDE DEF held
      <4>2. w = t
        BY <1>0, <4>1 DEF MyShape
      <4>. QED
        BY <3>1, <4>2
    <3>2. CASE ~ t.threw
      <4>1. held = more
        BY <3>2
      <4>2. u = [t EXCEPT !.held = more]
        <5>1. u = [t EXCEPT !.held = [r \in t.local \cup DOMAIN @ |->
                                        IF r \in t.local THEN t.data[r] ELSE @[r]]]
          BY <3>2
        <5>. QED
          BY <1>0, <5>1 DEF MyShape
      <4>. QED
        BY <4>1, <4>2
    <3>. QED
      BY <3>1, <3>2
  <2>3. w = [t EXCEPT !.held = held]
    OBVIOUS
  <2> HIDE DEF u, w, held, nothing, no
  <2>4. sys' = [[w EXCEPT !.ptr = 0, !.local = nothing]
                  EXCEPT !.failing = 0, !.calls = 0, !.threw = no]
    BY <2>1, <2>2 DEF nothing, no
  <2>. QED
    BY <1>0, <2>3, <2>4 DEF MyShape
<1>2. no \in BOOLEAN /\ ~ no /\ nothing = {}
  OBVIOUS
<1>3. /\ \A r \in DOMAIN held : r \in t.local \/ r \in DOMAIN t.held
      /\ \A r \in DOMAIN held : held[r] = t.data[r]
      /\ DOMAIN held \subseteq RowIds
  <2>1. CASE t.threw
    <3>1. held = t.held
      BY <2>1
    <3> HIDE DEF held
    <3>. QED
      BY <1>0, <3>1 DEF MyRows
  <2>2. CASE ~ t.threw
    <3>1. held = more
      BY <2>2
    <3>2. /\ DOMAIN more = t.local \cup DOMAIN t.held
          /\ \A r \in DOMAIN more : more[r] = IF r \in t.local THEN t.data[r] ELSE t.held[r]
      OBVIOUS
    <3> HIDE DEF held, more
    <3>. QED
      BY <1>0, <3>1, <3>2 DEF MyRows
  <2>. QED
    BY <2>1, <2>2
<1> HIDE DEF held, nothing, no, X
<1>4. /\ MyShape(sys') /\ sys'.handle = t.handle /\ sys'.row = t.row
      /\ sys'.ptr = 0 /\ sys'.local = nothing /\ sys'.cursor = t.cursor /\ sys'.held = held
      /\ sys'.open = t.open /\ sys'.bound = t.bound /\ sys'.coming = t.coming
      /\ sys'.data = t.data /\ sys'.leaked = t.leaked /\ sys'.misuse = t.misuse
      /\ sys'.threw = no
  BY <1>0, <1>1 DEF MyShape
<1>5. ~ sys'.threw /\ sys'.threw \in BOOLEAN
  BY <1>2, <1>4
<1>6. MyPlain(sys')
  BY <1>0, <1>4, <1>5 DEF MyPlain
<1>7. MyOwners(sys')
  BY <1>0, <1>4 DEF MyOwners, MyOpen
<1>8. MyRows(sys')
  <2>1. ASSUME NEW c \in Cursors
        PROVE  MyCursorRow(sys', c)
    BY <1>0, <1>2, <1>3, <1>4 DEF MyRows, MyCursorRow
  <2>2. 0 \notin DOMAIN held
    BY <1>3, MyAssumption
  <2>. QED
    BY <1>0, <1>2, <1>3, <1>4, <2>1, <2>2 DEF MyRows
<1>9. \A c \in Cursors : c \in X \/ MyComplete(sys', c)
  BY <1>0, <1>4 DEF MyComplete
<1>10. MyCore(sys', X)
  BY <1>6, <1>7, <1>8, <1>9 DEF MyCore
<1>. QED
  BY <1>2, <1>4, <1>5, <1>10 DEF MyGood, X

LEMMA MyBegin ==
  ASSUME MyGood(sys), NEW k
  PROVE  LET s == My!Begin(sys, k)
         IN MyGood(s) /\ MyKept(sys, s)
<1> SUFFICES ASSUME NEW s, s = My!Begin(sys, k)
             PROVE  MyGood(s) /\ MyKept(sys, s)
  OBVIOUS
<1> DEFINE no == FALSE
<1>0. MyCore(sys, {}) /\ MyShape(sys)
  BY DEF MyGood, MyCore, MyPlain
<1>1. s = [sys EXCEPT !.failing = k, !.calls = 0, !.threw = no]
  BY DEF My!Begin
<1>2. no \in BOOLEAN /\ ~ no
  OBVIOUS
<1> HIDE DEF no
<1>3. MyShape(s) /\ MyKept(sys, s) /\ s.threw = no /\ s.misuse = sys.misuse
  BY <1>0, <1>1 DEF MyShape, MyKept
<1>4. ~ s.threw /\ s.threw \in BOOLEAN
  BY <1>2, <1>3
<1>5. MyCore(s, {})
  BY <1>0, <1>3, <1>4, MyKeptCore DEF MyTold
<1>. QED
  BY <1>3, <1>4, <1>5 DEF MyGood, MyKept

LEMMA MyStart ==
  ASSUME MyGood(sys), My!Room, NEW k
  PROVE  MyStarted(My!Begin(sys, k))
<1> DEFINE s == My!Begin(sys, k)
<1>1. MyGood(s) /\ MyKept(sys, s)
  BY MyBegin
<1> HIDE DEF s
<1>2. MyFree(s) = MyFree(sys)
  BY <1>1 DEF MyFree, My!Referred, MyKept
<1>3. Cardinality(MyFree(sys)) >= MaxRows + 2
  <2>1. My!Cardinality(MyFree(sys)) >= MaxRows + 2
    BY DEF My!Room, My!HasFreeRows, MyFree
  <2>. QED
    BY <2>1, MyCount
<1>4. MyRoom(s)
  BY <1>1 DEF MyRoom, My!Room, My!HasFreshHandle, MyKept
<1>5. MyStarted(s)
  BY <1>1, <1>2, <1>3, <1>4 DEF MyStarted, MyGood
<1>. QED
  BY <1>5 DEF s


(* One cursor changes. *)
MyOne(s, c, k, t) ==
    /\ On(t.cursor, Cursors) /\ t.cursor[c] = k
    /\ \A d \in Cursors : d # c => t.cursor[d] = s.cursor[d]
LEMMA MyPutOne ==
  ASSUME NEW s, MyPlain(s), NEW c \in Cursors, NEW k, NEW t, t.cursor = Put(s.cursor, c, k)
  PROVE  MyOne(s, c, k, t)
<1>1. On(s.cursor, Cursors)
  BY DEF MyPlain
<1>. QED
  BY <1>1, PutAt DEF MyOne

-----------------------------------------------------------------------------
LEMMA MyNoCursorIs ==
  LET k == My!NoCursor
  IN MyCursor(k) /\ k.handle = 0 /\ k.row = 0 /\ k.given = My!Empty
BY DEF My!NoCursor, My!None, MyCursor

\* The cursor gets a row.
MyRowOf(s, c, r) ==
    [s EXCEPT !.cursor[c].row = r, !.data[r] = My!Empty, !.cursor[c].fields = s.fields]
LEMMA MyCursorGetsRow ==
  ASSUME NEW s, NEW c \in Cursors, MyCore(s, {c}), s.cursor[c] = My!NoCursor,
         NEW r \in RowIds, r \notin My!Referred(s), r # s.row, NEW t, t = MyRowOf(s, c, r)
  PROVE  /\ MyCore(t, {c}) /\ t.cursor[c].row = r /\ t.cursor[c].handle = 0
         /\ t.threw = s.threw /\ t.handle = s.handle /\ t.open = s.open
<1> DEFINE X == {c}
           k == [My!NoCursor EXCEPT !.row = r, !.fields = s.fields]
           cursor == Put(s.cursor, c, k)
           data == Put(s.data, r, My!Empty)
<1>0. /\ MyPlain(s) /\ MyShape(s) /\ MyOwners(s) /\ MyRows(s) /\ On(s.cursor, Cursors)
      /\ On(s.data, RowIds) /\ \A d \in Cursors : d \in X \/ MyComplete(s, d)
  BY DEF MyCore, MyPlain
<1>1. t = [s EXCEPT !.cursor = cursor, !.data = data]
  <2>1. t = [s EXCEPT !.cursor[c].row = r, !.data[r] = My!Empty, !.cursor[c].fields = s.fields]
    BY DEF MyRowOf
  <2>2. [My!NoCursor EXCEPT !.row = r, !.fields = s.fields]
          = [[My!NoCursor EXCEPT !.row = r] EXCEPT !.fields = s.fields]
    BY DEF My!NoCursor
  <2>3. t = [s EXCEPT !.cursor = [[s.cursor EXCEPT ![c].row = r] EXCEPT ![c].fields = s.fields],
                      !.data = data]
    BY <1>0, <2>1 DEF MyShape, Put
  <2>4. [[s.cursor EXCEPT ![c].row = r] EXCEPT ![c].fields = s.fields] = cursor
    <3> DEFINE f == s.cursor
               e == [My!NoCursor EXCEPT !.row = r]
               g == [f EXCEPT ![c] = e]
    <3>1. [f EXCEPT ![c].row = r] = g /\ f[c] = My!NoCursor
      OBVIOUS
    <3>2. [g EXCEPT ![c].fields = s.fields] = [g EXCEPT ![c] = [g[c] EXCEPT !.fields = s.fields]]
      OBVIOUS
    <3>3. k = [e EXCEPT !.fields = s.fields]
      BY <2>2
    <3>4. cursor = [f EXCEPT ![c] = k] /\ g = [f EXCEPT ![c] = e] /\ On(f, Cursors)
      BY <1>0 DEF Put
    <3> HIDE DEF k, e, cursor, f, g
    <3>5. g[c] = e /\ [g EXCEPT ![c] = k] = cursor
      BY <3>4 DEF On
    <3>6. [g EXCEPT ![c].fields = s.fields] = cursor
      BY <3>2, <3>3, <3>5
    <3>. QED
      BY <3>1, <3>6 DEF f
  <2>. QED
    BY <2>3, <2>4
<1>2. MyCursor(k) /\ k.handle = 0 /\ k.row = r /\ k.given = My!Empty
  <2>1. k = [handle |-> 0, row |-> r, fields |-> s.fields, given |-> My!Empty]
    <3> DEFINE n == My!NoCursor
               e == My!Empty
    <3>1. n = [handle |-> 0, row |-> 0, fields |-> 0, given |-> e]
      BY DEF My!NoCursor, My!None
    <3>2. k = [n EXCEPT !.row = r, !.fields = s.fields]
      OBVIOUS
    <3> HIDE DEF n, k, e
    <3>3. k = [handle |-> 0, row |-> r, fields |-> s.fields, given |-> e]
      BY <3>1, <3>2
    <3>. QED
      BY <3>3 DEF e
  <2> HIDE DEF k
  <2>. QED
    BY <2>1 DEF MyCursor
<1>3. /\ On(data, RowIds) /\ data[r] = My!Empty
      /\ \A x \in RowIds : x # r => data[x] = s.data[x]
  BY <1>0, PutAt
<1>4. cursor = Put(s.cursor, c, k) /\ X = {c}
  OBVIOUS
<1> HIDE DEF cursor, data, k, X
<1>5. /\ MyShape(t) /\ t.handle = s.handle /\ t.row = s.row /\ t.ptr = s.ptr
      /\ t.local = s.local /\ t.cursor = cursor /\ t.held = s.held
      /\ t.open = s.open /\ t.bound = s.bound /\ t.coming = s.coming
      /\ t.data = data /\ t.leaked = s.leaked /\ t.misuse = s.misuse /\ t.threw = s.threw
  BY <1>0, <1>1 DEF MyShape
<1>6. MyOne(s, c, k, t)
  BY <1>0, <1>4, <1>5, MyPutOne
<1>7. /\ r \notin s.local /\ r \notin DOMAIN s.held /\ r # s.ptr
      /\ \A d \in Cursors : s.cursor[d].row # r
  BY DEF My!Referred
<1>8. MyPlain(t)
  BY <1>0, <1>2, <1>3, <1>5, <1>6 DEF MyPlain, MyOne
<1>9. MyOwners(t)
  <2>1. \A d \in Cursors : t.cursor[d].handle = s.cursor[d].handle
    BY <1>2, <1>6, MyNoCursorIs DEF MyOne
  <2>. QED
    BY <1>0, <1>5, <2>1 DEF MyOwners, MyOpen
<1>10. MyRows(t)
  <2>1. ASSUME NEW d \in Cursors
        PROVE  MyCursorRow(t, d)
    <3>1. CASE d = c
      <4>1. t.cursor[d].row = r /\ t.cursor[d].given = My!Empty /\ t.data[r] = My!Empty
        BY <1>2, <1>3, <1>5, <1>6, <3>1 DEF MyOne
      <4>2. \A e \in Cursors : e # d => t.cursor[e].row # r
        BY <1>6, <1>7, <3>1 DEF MyOne
      <4>. QED
        BY <1>5, <1>7, <4>1, <4>2 DEF MyCursorRow
    <3>2. CASE d # c
      <4>1. t.cursor[d] = s.cursor[d] /\ s.cursor[d].row # r
        BY <1>6, <1>7, <3>2 DEF MyOne
      <4>2. \A e \in Cursors : t.cursor[e].row = s.cursor[e].row \/ t.cursor[e].row = r
        BY <1>2, <1>6 DEF MyOne
      <4>. QED
        BY <1>0, <1>3, <1>5, <4>1, <4>2 DEF MyRows, MyCursorRow
    <3>. QED
      BY <3>1, <3>2
  <2>2. \A x \in DOMAIN t.held : t.data[x] = t.held[x]
    BY <1>0, <1>3, <1>5, <1>7 DEF MyRows
  <2>. QED
    BY <1>0, <1>5, <2>1, <2>2 DEF MyRows
<1>11. \A d \in Cursors : d \in X \/ MyComplete(t, d)
  BY <1>0, <1>4, <1>5, <1>6 DEF MyComplete, MyOne
<1>12. MyCore(t, X)
  BY <1>8, <1>9, <1>10, <1>11 DEF MyCore
<1>. QED
  BY <1>2, <1>4, <1>5, <1>6, <1>12 DEF MyOne

\* The cursor takes the handle of the statement.
LEMMA MyCursorTakes ==
  ASSUME NEW s, NEW c \in Cursors, MyCore(s, {c}), s.handle # 0, s.cursor[c].handle = 0,
         NEW t, t = [s EXCEPT !.cursor[c].handle = s.handle, !.handle = 0]
  PROVE  /\ MyCore(t, {c}) /\ t.cursor[c].handle # 0 /\ t.cursor[c].row = s.cursor[c].row
         /\ t.threw = s.threw
<1> DEFINE X == {c}
           h == s.handle
           k == [s.cursor[c] EXCEPT !.handle = h]
           cursor == Put(s.cursor, c, k)
<1>0. /\ MyPlain(s) /\ MyShape(s) /\ MyOwners(s) /\ MyRows(s) /\ MyCursor(s.cursor[c])
      /\ \A d \in Cursors : d \in X \/ MyComplete(s, d)
  BY DEF MyCore, MyPlain
<1>1. t = [s EXCEPT !.cursor = cursor, !.handle = 0]
  BY <1>0 DEF MyShape, Put
<1>2. MyCursor(k) /\ k.handle = h /\ k.row = s.cursor[c].row /\ k.given = s.cursor[c].given
  BY <1>0 DEF MyCursor
<1>3. cursor = Put(s.cursor, c, k) /\ X = {c} /\ h = s.handle
  OBVIOUS
<1> HIDE DEF cursor, k, X, h
<1>4. /\ MyShape(t) /\ t.handle = 0 /\ t.row = s.row /\ t.ptr = s.ptr
      /\ t.local = s.local /\ t.cursor = cursor /\ t.held = s.held
      /\ t.open = s.open /\ t.bound = s.bound /\ t.coming = s.coming
      /\ t.data = s.data /\ t.leaked = s.leaked /\ t.misuse = s.misuse /\ t.threw = s.threw
  BY <1>0, <1>1 DEF MyShape
<1>5. MyOne(s, c, k, t)
  BY <1>0, <1>3, <1>4, MyPutOne
<1>6. MyPlain(t)
  BY <1>0, <1>2, <1>4, <1>5 DEF MyPlain, MyOne
<1>7. MyOwners(t)
  <2>1. ASSUME NEW d \in Cursors, t.cursor[d].handle # 0
        PROVE  /\ MyOpen(t, t.cursor[d].handle) /\ t.cursor[d].handle # t.handle
               /\ \A e \in Cursors : e # d => t.cursor[e].handle # t.cursor[d].handle
    <3>1. MyOpen(s, h) /\ \A e \in Cursors : e # c => s.cursor[e].handle # h
      BY <1>0, <1>3 DEF MyOwners
    <3>2. CASE d = c
      BY <1>2, <1>4, <1>5, <2>1, <3>1, <3>2 DEF MyOpen, MyOne
    <3>3. CASE d # c
      BY <1>0, <1>2, <1>4, <1>5, <2>1, <3>1, <3>3 DEF MyOwners, MyOpen, MyOne
    <3>. QED
      BY <3>2, <3>3
  <2>2. ASSUME NEW g \in Handles, t.open[g] = "open"
        PROVE  g = t.handle \/ g \in t.leaked \/ \E d \in Cursors : t.cursor[d].handle = g
    <3>1. g = h \/ g \in s.leaked \/ \E d \in Cursors : s.cursor[d].handle = g
      BY <1>0, <1>3, <1>4, <2>2 DEF MyOwners
    <3>2. CASE g = h
      BY <1>2, <1>5, <3>2 DEF MyOne
    <3>3. CASE g \in s.leaked
      BY <1>4, <3>3
    <3>4. ASSUME NEW d \in Cursors, s.cursor[d].handle = g
          PROVE  \E e \in Cursors : t.cursor[e].handle = g
      <4>1. d # c
        BY <2>2, <3>4, MyAssumption
      <4>. QED
        BY <1>5, <3>4, <4>1 DEF MyOne
    <3>. QED
      BY <3>1, <3>2, <3>3, <3>4
  <2>. QED
    BY <1>4, <2>1, <2>2 DEF MyOwners
<1>8. MyRows(t)
  <2>1. \A d \in Cursors : t.cursor[d].row = s.cursor[d].row /\ t.cursor[d].given = s.cursor[d].given
    BY <1>2, <1>5 DEF MyOne
  <2>2. \A d \in Cursors : MyCursorRow(t, d)
    BY <1>0, <1>4, <2>1 DEF MyRows, MyCursorRow
  <2>. QED
    BY <1>0, <1>4, <2>2 DEF MyRows
<1>9. \A d \in Cursors : d \in X \/ MyComplete(t, d)
  BY <1>0, <1>3, <1>4, <1>5 DEF MyComplete, MyOne
<1>10. MyCore(t, X)
  BY <1>6, <1>7, <1>8, <1>9 DEF MyCore
<1>. QED
  BY <1>2, <1>3, <1>4, <1>5, <1>10 DEF MyOne


LEMMA MyWeaker ==
  ASSUME NEW s, NEW X, NEW Y, X \subseteq Y, MyCore(s, X)
  PROVE  MyCore(s, Y)
BY DEF MyCore

\* The row of the cursor is bound to its handle: the cursor is complete.
LEMMA MyBindCore ==
  ASSUME NEW s, NEW c \in Cursors, MyCore(s, {c}), s.cursor[c].handle # 0,
         NEW t, t = [s EXCEPT !.bound[s.cursor[c].handle] = s.cursor[c].row]
  PROVE  MyCore(t, {}) /\ t.cursor = s.cursor /\ t.open = s.open /\ t.threw = s.threw
<1> DEFINE X == {c}
           Y == {}
           h == s.cursor[c].handle
           r == s.cursor[c].row
           bound == Put(s.bound, h, r)
<1>0. /\ MyPlain(s) /\ MyShape(s) /\ MyOwners(s) /\ MyRows(s) /\ On(s.bound, Handles)
      /\ \A d \in Cursors : d \in X \/ MyComplete(s, d)
  BY DEF MyCore, MyPlain
<1>1. t = [s EXCEPT !.bound = bound]
  BY <1>0 DEF MyShape, Put
<1>2. h \in Handles /\ \A d \in Cursors : d # c => s.cursor[d].handle # h
  BY <1>0 DEF MyOwners, MyOpen
<1>3. bound = Put(s.bound, h, r) /\ X = {c} /\ h = s.cursor[c].handle /\ r = s.cursor[c].row
  OBVIOUS
<1> HIDE DEF bound, h, r, X, Y
<1>4. On(bound, Handles) /\ bound[h] = r /\ \A g \in Handles : g # h => bound[g] = s.bound[g]
  BY <1>0, <1>2, <1>3, PutAt
<1>5. /\ MyShape(t) /\ t.handle = s.handle /\ t.row = s.row /\ t.ptr = s.ptr
      /\ t.local = s.local /\ t.cursor = s.cursor /\ t.held = s.held
      /\ t.open = s.open /\ t.bound = bound /\ t.coming = s.coming
      /\ t.data = s.data /\ t.leaked = s.leaked /\ t.misuse = s.misuse /\ t.threw = s.threw
  BY <1>0, <1>1 DEF MyShape
<1>6. MyPlain(t)
  BY <1>0, <1>4, <1>5 DEF MyPlain
<1>7. MyOwners(t)
  BY <1>0, <1>5 DEF MyOwners, MyOpen
<1>8. MyRows(t)
  BY <1>0, <1>5 DEF MyRows, MyCursorRow
<1>9. ASSUME NEW d \in Cursors
      PROVE  MyComplete(t, d)
  <2>1. CASE d = c
    BY <1>3, <1>4, <1>5, <2>1 DEF MyComplete
  <2>2. CASE d # c
    <3>1. MyComplete(s, d) /\ s.cursor[d].handle # h
      BY <1>0, <1>2, <1>3, <2>2
    <3>2. s.cursor[d].handle # 0 => s.cursor[d].handle \in Handles
      BY <1>0 DEF MyOwners, MyOpen
    <3>. QED
      BY <1>4, <1>5, <3>1, <3>2 DEF MyComplete
  <2>. QED
    BY <2>1, <2>2
<1>10. MyCore(t, Y)
  BY <1>6, <1>7, <1>8, <1>9 DEF MyCore
<1>. QED
  BY <1>5, <1>10 DEF Y

LEMMA MyBindRow ==
  ASSUME NEW s, NEW c \in Cursors, MyCore(s, {c}), ~ s.threw, s.cursor[c].handle # 0
  PROVE  LET t == My!BindRow(s, c)
         IN MyCore(t, {}) /\ MyOpen(t, t.cursor[c].handle)
<1> DEFINE Y == {}
           X == {c}
           h == s.cursor[c].handle
           u == My!TouchFields(s, s.cursor[c].fields)
           b == My!CallOn(u, h)
<1> SUFFICES ASSUME NEW t, t = My!BindRow(s, c)
             PROVE  MyCore(t, Y) /\ MyOpen(t, t.cursor[c].handle)
  OBVIOUS
<1>0. MyShape(s) /\ s.threw \in BOOLEAN /\ MyOwners(s) /\ MyCore(s, X)
  BY DEF MyCore, MyPlain
<1>1. MyTold(s, u) /\ MyKept(s, u) /\ u.threw = s.threw
  BY <1>0, MyTouch
<1>2. t = [b EXCEPT !.bound[h] = u.cursor[c].row]
  BY <1>1 DEF My!BindRow, My!Then
<1>3. h = s.cursor[c].handle
  OBVIOUS
<1> HIDE DEF u, h, X
<1>4. MyCore(u, X) /\ MyOpen(u, h) /\ u.cursor = s.cursor
  BY <1>0, <1>1, <1>3, MyKeptCore DEF MyKept, MyOwners, MyOpen
<1>5. MyCore(b, X) /\ MyKept(u, b)
  BY <1>4, MyHandleCall
<1> HIDE DEF b
<1>6. b.cursor = s.cursor /\ b.cursor[c].handle = h /\ h # 0 /\ MyOpen(b, h)
  BY <1>3, <1>4, <1>5 DEF MyKept, MyOpen
<1>7. t = [b EXCEPT !.bound[b.cursor[c].handle] = b.cursor[c].row]
  BY <1>2, <1>4, <1>6
<1>8. MyCore(t, {}) /\ t.cursor = b.cursor /\ t.open = b.open
  BY <1>5, <1>6, <1>7, MyBindCore DEF X
<1>. QED
  BY <1>6, <1>8 DEF MyOpen

\* A constructor that fails: the cursor is gone and nobody has its handle.
LEMMA MyLost ==
  ASSUME NEW s, NEW c \in Cursors, MyCore(s, {c}), NEW t,
         t = [s EXCEPT !.leaked = @ \cup ({s.cursor[c].handle} \ {0}), !.cursor[c] = My!NoCursor]
  PROVE  MyCore(t, {})
<1> DEFINE X == {c}
           Y == {}
           k == My!NoCursor
           leaked == s.leaked \cup ({s.cursor[c].handle} \ {0})
           cursor == Put(s.cursor, c, k)
<1>0. /\ MyPlain(s) /\ MyShape(s) /\ MyOwners(s) /\ MyRows(s)
      /\ \A d \in Cursors : d \in X \/ MyComplete(s, d)
  BY DEF MyCore, MyPlain
<1>1. t = [s EXCEPT !.leaked = leaked, !.cursor = cursor]
  <2>1. [s EXCEPT !.leaked = @ \cup ({s.cursor[c].handle} \ {0}), !.cursor[c] = k]
          = [s EXCEPT !.leaked = leaked, !.cursor[c] = k]
    BY <1>0 DEF MyShape
  <2> HIDE DEF leaked, k
  <2>2. t = [s EXCEPT !.leaked = leaked, !.cursor[c] = k]
    BY <2>1 DEF k
  <2>. QED
    BY <1>0, <2>2 DEF MyShape, Put
<1>2. MyCursor(k) /\ k.handle = 0 /\ k.row = 0 /\ k = My!NoCursor
  BY MyNoCursorIs
<1>3. cursor = Put(s.cursor, c, k) /\ X = {c}
  OBVIOUS
<1>4. \A h \in Handles : h \in s.leaked \/ h = s.cursor[c].handle => h \in leaked
  BY MyAssumption
<1> HIDE DEF cursor, k, X, Y, leaked
<1>5. /\ MyShape(t) /\ t.handle = s.handle /\ t.row = s.row /\ t.ptr = s.ptr
      /\ t.local = s.local /\ t.cursor = cursor /\ t.held = s.held
      /\ t.open = s.open /\ t.bound = s.bound /\ t.coming = s.coming
      /\ t.data = s.data /\ t.leaked = leaked /\ t.misuse = s.misuse /\ t.threw = s.threw
  BY <1>0, <1>1 DEF MyShape
<1>6. MyOne(s, c, k, t)
  BY <1>0, <1>3, <1>5, MyPutOne
<1>7. MyPlain(t)
  BY <1>0, <1>2, <1>5, <1>6 DEF MyPlain, MyOne
<1>8. MyOwners(t)
  <2>1. ASSUME NEW d \in Cursors, t.cursor[d].handle # 0
        PROVE  /\ MyOpen(t, t.cursor[d].handle) /\ t.cursor[d].handle # t.handle
               /\ \A e \in Cursors : e # d => t.cursor[e].handle # t.cursor[d].handle
    BY <1>0, <1>2, <1>5, <1>6, <2>1 DEF MyOwners, MyOpen, MyOne
  <2>2. ASSUME NEW g \in Handles, t.open[g] = "open"
        PROVE  g = t.handle \/ g \in t.leaked \/ \E d \in Cursors : t.cursor[d].handle = g
    <3>1. g = s.handle \/ g \in s.leaked \/ \E d \in Cursors : s.cursor[d].handle = g
      BY <1>0, <1>5, <2>2 DEF MyOwners
    <3>. QED
      BY <1>4, <1>5, <1>6, <3>1 DEF MyOne
  <2>3. t.handle = 0 \/ MyOpen(t, t.handle)
    BY <1>0, <1>5 DEF MyOwners, MyOpen
  <2>. QED
    BY <2>1, <2>2, <2>3 DEF MyOwners
<1>9. MyRows(t)
  <2>1. ASSUME NEW d \in Cursors
        PROVE  MyCursorRow(t, d)
    <3>1. CASE d = c
      BY <1>2, <1>6, <3>1 DEF MyCursorRow, MyOne
    <3>2. CASE d # c
      <4>1. \A e \in Cursors : t.cursor[e].row = s.cursor[e].row \/ t.cursor[e].row = 0
        BY <1>2, <1>6 DEF MyOne
      <4>2. t.cursor[d] = s.cursor[d]
        BY <1>6, <3>2 DEF MyOne
      <4>. QED
        BY <1>0, <1>5, <4>1, <4>2 DEF MyRows, MyCursorRow
    <3>. QED
      BY <3>1, <3>2
  <2>. QED
    BY <1>0, <1>5, <2>1 DEF MyRows
<1>10. \A d \in Cursors : MyComplete(t, d)
  BY <1>0, <1>2, <1>3, <1>5, <1>6 DEF MyComplete, MyOne
<1>11. MyCore(t, Y)
  BY <1>7, <1>8, <1>9, <1>10 DEF MyCore
<1>. QED
  BY <1>11 DEF Y

\* The cursor has a row and the handle.
LEMMA MyTakenBy ==
  ASSUME NEW s, MyStarted(s), NEW c \in Cursors, s.cursor[c] = My!NoCursor
  PROVE  LET t == My!TakenBy(s, c)
         IN MyCore(t, {c}) /\ (~ t.threw => t.cursor[c].handle # 0)
<1> DEFINE X == {c}
           f == My!GetFields(s)
           r == My!FreeRow(f)
           g == IF f.threw THEN f ELSE MyRowOf(f, c, r)
           a == My!GetStmt(g)
           v == [a EXCEPT !.cursor[c].handle = a.handle]
           w == [a EXCEPT !.cursor[c].handle = a.handle, !.handle = 0]
<1> SUFFICES ASSUME NEW t, t = My!TakenBy(s, c)
             PROVE  MyCore(t, X) /\ (~ t.threw => t.cursor[c].handle # 0)
  OBVIOUS
<1>1. t = IF g.threw THEN g ELSE IF a.threw THEN a ELSE My!CreateStmt(v)
  BY DEF My!TakenBy, My!Then, MyRowOf
<1>2. MyCore(s, X)
  BY MyWeaker DEF MyStarted
<1> HIDE DEF X
<1>3. MyCore(f, X) /\ MyHas(s, f) /\ (~ f.threw => MyRoom(f))
  BY <1>2, MyGetFields DEF MyStarted
<1> HIDE DEF f
<1>4. CASE f.threw
  BY <1>1, <1>3, <1>4
<1>5. CASE ~ f.threw
  <2>1. Cardinality(MyFree(f)) > 0
    <3>1. MyNoMore(s, f)
      BY <1>3, MySameFree DEF MyHas, MySameRefs
    <3>. QED
      BY <3>1, MyAssumption, MyFreeRow DEF MyStarted, MyNoMore
  <2>2. r \in RowIds /\ r \notin My!Referred(f) /\ r # f.row
    BY <2>1, MyFreeRow
  <2>3. f.cursor[c] = My!NoCursor /\ g = MyRowOf(f, c, r)
    BY <1>3, <1>5 DEF MyHas
  <2> HIDE DEF r, g
  <2>4. MyCore(g, X) /\ g.cursor[c].handle = 0 /\ g.threw = f.threw /\ g.handle = f.handle
        /\ g.open = f.open
    BY <1>3, <2>2, <2>3, MyCursorGetsRow DEF X
  <2>5. MyRoom(g) /\ ~ g.threw
    BY <1>3, <1>5, <2>4 DEF MyRoom
  <2>6. MyCore(a, X) /\ MyGot(g, a)
    BY <2>4, <2>5, MyGetStmt
  <2> HIDE DEF a
  <2>7. CASE a.threw
    BY <1>1, <2>5, <2>6, <2>7
  <2>8. CASE ~ a.threw
    <3>1. a.handle # 0 /\ a.cursor[c].handle = 0 /\ MyShape(a)
      BY <2>4, <2>6, <2>8 DEF MyGot, MySameRows, MyCore, MyPlain
    <3>2. v.handle = a.handle /\ v.threw = a.threw
      BY <3>1 DEF MyShape
    <3>3. [v EXCEPT !.handle = 0] = w
      BY <3>1 DEF MyShape
    <3> HIDE DEF v, w
    <3>4. t = w
      BY <1>1, <2>5, <2>8, <3>1, <3>2, <3>3 DEF My!CreateStmt, My!GetStmt, My!Then, My!None
    <3>5. MyCore(w, X) /\ w.cursor[c].handle # 0
      BY <2>6, <3>1, MyCursorTakes DEF X, w
    <3>. QED
      BY <3>4, <3>5
  <2>. QED
    BY <2>7, <2>8
<1>. QED
  BY <1>4, <1>5

LEMMA MyNewCursor ==
  ASSUME NEW s, MyStarted(s), NEW c \in Cursors, s.cursor[c] = My!NoCursor, NEW n
  PROVE  MyCore(My!NewCursor(s, c, n), {})
<1> DEFINE X == {c}
           Y == {}
           k == My!TakenBy(s, c)
           b == IF k.threw THEN k ELSE My!BindRow(k, c)
           e == IF b.threw THEN b ELSE My!ExecuteHandle(b, b.cursor[c].handle, n)
           l == [e EXCEPT !.leaked = @ \cup ({e.cursor[c].handle} \ {0}),
                          !.cursor[c] = My!NoCursor]
<1>1. My!NewCursor(s, c, n) = IF ~ e.threw THEN e ELSE l
  BY DEF My!NewCursor, My!Then, My!None
<1>2. Y \subseteq X
  OBVIOUS
<1>3. MyCore(k, X) /\ (~ k.threw => k.cursor[c].handle # 0)
  BY MyTakenBy
<1> HIDE DEF k
<1>4. MyCore(e, X) /\ (~ e.threw => MyCore(e, Y))
  <2>1. CASE k.threw
    BY <1>3, <2>1
  <2>2. CASE ~ k.threw
    <3>1. MyCore(b, Y) /\ MyOpen(b, b.cursor[c].handle)
      BY <1>3, <2>2, MyBindRow
    <3> HIDE DEF b, X, Y
    <3>2. MyCore(e, Y)
      BY <3>1, MyExecuteHandle
    <3> HIDE DEF e
    <3>. QED
      BY <1>2, <3>2, MyWeaker
  <2>. QED
    BY <2>1, <2>2
<1> HIDE DEF e
<1>5. MyCore(l, {})
  BY <1>4, MyLost
<1>. QED
  BY <1>1, <1>4, <1>5


\* The cursor is at its end: it gives up its row.
LEMMA MyCursorEnds ==
  ASSUME NEW s, MyCore(s, {}), NEW c \in Cursors, NEW t, t = [s EXCEPT !.cursor[c].row = 0]
  PROVE  MyCore(t, {})
<1> DEFINE X == {}
           k == [s.cursor[c] EXCEPT !.row = 0]
           cursor == Put(s.cursor, c, k)
<1>0. /\ MyPlain(s) /\ MyShape(s) /\ MyOwners(s) /\ MyRows(s) /\ MyCursor(s.cursor[c])
      /\ \A d \in Cursors : d \in X \/ MyComplete(s, d)
  BY DEF MyCore, MyPlain
<1>1. t = [s EXCEPT !.cursor = cursor]
  BY <1>0 DEF MyShape, Put
<1>2. MyCursor(k) /\ k.handle = s.cursor[c].handle /\ k.row = 0 /\ k.fields = s.cursor[c].fields
      /\ k.given = s.cursor[c].given
  BY <1>0 DEF MyCursor
<1>3. cursor = Put(s.cursor, c, k)
  OBVIOUS
<1>4. s.cursor[c] = My!NoCursor => k = s.cursor[c]
  <2> DEFINE e == s.cursor[c]
  <2>1. MyCursor(e)
    BY <1>0
  <2>2. e = My!NoCursor => e.row = 0
    BY MyNoCursorIs
  <2>3. k = [e EXCEPT !.row = 0]
    OBVIOUS
  <2> HIDE DEF e, k
  <2>4. e.row = 0 => k = e
    BY <2>1, <2>3 DEF MyCursor
  <2>. QED
    BY <2>2, <2>4 DEF e
<1> HIDE DEF cursor, k, X
<1>5. /\ MyShape(t) /\ t.handle = s.handle /\ t.row = s.row /\ t.ptr = s.ptr
      /\ t.local = s.local /\ t.cursor = cursor /\ t.held = s.held
      /\ t.open = s.open /\ t.bound = s.bound /\ t.coming = s.coming
      /\ t.data = s.data /\ t.leaked = s.leaked /\ t.misuse = s.misuse /\ t.threw = s.threw
  BY <1>0, <1>1 DEF MyShape
<1>6. MyOne(s, c, k, t)
  BY <1>0, <1>3, <1>5, MyPutOne
<1>7. MyPlain(t)
  BY <1>0, <1>2, <1>5, <1>6 DEF MyPlain, MyOne
<1>8. MyOwners(t)
  <2>1. \A d \in Cursors : t.cursor[d].handle = s.cursor[d].handle
    BY <1>2, <1>6 DEF MyOne
  <2>. QED
    BY <1>0, <1>5, <2>1 DEF MyOwners, MyOpen
<1>9. MyRows(t)
  <2>1. ASSUME NEW d \in Cursors
        PROVE  MyCursorRow(t, d)
    <3>1. CASE d = c
      BY <1>2, <1>6, <3>1 DEF MyCursorRow, MyOne
    <3>2. CASE d # c
      <4>1. \A e \in Cursors : t.cursor[e].row = s.cursor[e].row \/ t.cursor[e].row = 0
        BY <1>2, <1>6 DEF MyOne
      <4>2. t.cursor[d] = s.cursor[d]
        BY <1>6, <3>2 DEF MyOne
      <4>. QED
        BY <1>0, <1>5, <4>1, <4>2 DEF MyRows, MyCursorRow
    <3>. QED
      BY <3>1, <3>2
  <2>. QED
    BY <1>0, <1>5, <2>1 DEF MyRows
<1>10. \A d \in Cursors : d \in X \/ MyComplete(t, d)
  BY <1>0, <1>2, <1>4, <1>5, <1>6 DEF MyComplete, MyOne
<1>11. MyCore(t, X)
  BY <1>7, <1>8, <1>9, <1>10 DEF MyCore
<1>. QED
  BY <1>11 DEF X

\* The fetch fills the row of the cursor.
MyGiven(s, c, x, y, d, t) ==
    /\ s.cursor[c].row # 0 /\ d = [s EXCEPT !.cursor[c].given = x]
    /\ MyFilled(d, s.cursor[c].handle, x, y, t)
LEMMA MyCursorFilled ==
  ASSUME NEW s, MyCore(s, {}), NEW c \in Cursors, NEW x, NEW y, NEW d, NEW t,
         MyGiven(s, c, x, y, d, t)
  PROVE  MyCore(t, {}) /\ t.open = s.open
<1> DEFINE X == {}
           k == [s.cursor[c] EXCEPT !.given = x]
           cursor == Put(s.cursor, c, k)
           h == s.cursor[c].handle
           r == s.cursor[c].row
<1>0. /\ MyPlain(s) /\ MyShape(s) /\ MyOwners(s) /\ MyRows(s) /\ MyCursor(s.cursor[c])
      /\ \A e \in Cursors : e \in X \/ MyComplete(s, e)
  BY DEF MyCore, MyPlain
<1>1. d = [s EXCEPT !.cursor = cursor]
  BY <1>0 DEF MyShape, Put, MyGiven
<1>2. MyCursor(k) /\ k.handle = h /\ k.row = r /\ k.given = x
  BY <1>0 DEF MyCursor
<1>3. cursor = Put(s.cursor, c, k) /\ r = s.cursor[c].row /\ h = s.cursor[c].handle
  OBVIOUS
<1>4. s.cursor[c] # My!NoCursor /\ r # 0
  BY MyNoCursorIs DEF MyGiven
<1>5. /\ h \in Handles /\ s.bound[h] = r /\ h # 0
  BY <1>0, <1>4 DEF MyComplete, MyOwners, MyOpen
<1>6. /\ r \in RowIds /\ r # s.row /\ r # s.ptr /\ r \notin s.local /\ r \notin DOMAIN s.held
      /\ \A e \in Cursors : e # c => s.cursor[e].row # r
  BY <1>0, <1>4 DEF MyRows, MyCursorRow
<1>6a. MyFilled(d, h, x, y, t)
  BY DEF MyGiven
<1> HIDE DEF cursor, k, X, h, r
<1>7. /\ MyShape(d) /\ d.handle = s.handle /\ d.row = s.row /\ d.ptr = s.ptr
      /\ d.local = s.local /\ d.cursor = cursor /\ d.held = s.held
      /\ d.open = s.open /\ d.bound = s.bound /\ d.coming = s.coming
      /\ d.data = s.data /\ d.leaked = s.leaked /\ d.misuse = s.misuse /\ d.threw = s.threw
  BY <1>0, <1>1 DEF MyShape
<1>8. /\ MyShape(t) /\ t.handle = s.handle /\ t.row = s.row /\ t.ptr = s.ptr
      /\ t.local = s.local /\ t.cursor = cursor /\ t.held = s.held
      /\ t.open = s.open /\ t.bound = s.bound /\ t.coming = Put(s.coming, h, y)
      /\ t.data = Put(s.data, r, x) /\ t.leaked = s.leaked /\ t.misuse = s.misuse
      /\ t.threw = s.threw
  BY <1>5, <1>6a, <1>7 DEF MyFilled
<1>9. MyOne(s, c, k, t)
  BY <1>0, <1>3, <1>8, MyPutOne
<1>10. On(t.coming, Handles)
  <2>1. On(s.coming, Handles)
    BY <1>0 DEF MyPlain
  <2>. QED
    BY <1>5, <1>8, <2>1, PutAt
<1>11. On(t.data, RowIds) /\ t.data[r] = x /\ \A z \in RowIds : z # r => t.data[z] = s.data[z]
  <2>1. On(s.data, RowIds)
    BY <1>0 DEF MyPlain
  <2>. QED
    BY <1>6, <1>8, <2>1, PutAt
<1>12. MyPlain(t)
  BY <1>0, <1>2, <1>8, <1>9, <1>10, <1>11 DEF MyPlain, MyOne
<1>13. \A e \in Cursors : t.cursor[e].handle = s.cursor[e].handle
                          /\ t.cursor[e].row = s.cursor[e].row
  BY <1>2, <1>3, <1>9 DEF MyOne
<1>14. MyOwners(t)
  BY <1>0, <1>8, <1>13 DEF MyOwners, MyOpen
<1>15. MyRows(t)
  <2>1. ASSUME NEW e \in Cursors
        PROVE  MyCursorRow(t, e)
    <3>1. CASE e = c
      <4>1. t.data[r] = t.cursor[e].given /\ t.cursor[e].row = r
        BY <1>2, <1>9, <1>11, <3>1 DEF MyOne
      <4>. QED
        BY <1>6, <1>8, <1>13, <3>1, <4>1 DEF MyCursorRow
    <3>2. CASE e # c
      <4>1. t.cursor[e] = s.cursor[e] /\ MyCursorRow(s, e) /\ s.cursor[e].row # r
        BY <1>0, <1>6, <1>9, <3>2 DEF MyOne, MyRows
      <4>. QED
        BY <1>8, <1>11, <1>13, <4>1 DEF MyCursorRow
    <3>. QED
      BY <3>1, <3>2
  <2>2. \A z \in DOMAIN t.held : t.data[z] = t.held[z]
    BY <1>0, <1>6, <1>8, <1>11 DEF MyRows
  <2>. QED
    BY <1>0, <1>8, <2>1, <2>2 DEF MyRows
<1>16. ASSUME NEW e \in Cursors
       PROVE  e \in X \/ MyComplete(t, e)
  <2>1. CASE e = c
    <3>1. t.cursor[e].handle = h /\ t.bound[h] = t.cursor[e].row
      BY <1>2, <1>5, <1>8, <1>9, <2>1 DEF MyOne
    <3>. QED
      BY <1>5, <3>1 DEF MyComplete
  <2>2. CASE e # c
    BY <1>0, <1>8, <1>9, <2>2 DEF MyComplete, MyOne
  <2>. QED
    BY <2>1, <2>2
<1>17. MyCore(t, X)
  BY <1>12, <1>14, <1>15, <1>16 DEF MyCore
<1>. QED
  BY <1>8, <1>17 DEF X

LEMMA MyCursorFetch ==
  ASSUME NEW s, MyCore(s, {}), NEW c \in Cursors, s.cursor[c].row # 0
  PROVE  MyCore(My!CursorFetch(s, c), {})
<1> DEFINE h == s.cursor[c].handle
           t == My!CallOn(s, h)
           x == Head(t.coming[h])
           y == Tail(t.coming[h])
           d == [t EXCEPT !.cursor[c].given = x]
           f == My!Fill(d, h)
           v == My!FetchColumns(f, h, t.cursor[c].fields)
           e == [t EXCEPT !.cursor[c].row = 0]
<1>1. My!CursorFetch(s, c) = IF t.threw THEN t
                             ELSE IF t.coming[h] = << >> THEN e
                             ELSE IF f.threw THEN f ELSE v
  BY DEF My!CursorFetch, My!Fetch, My!Then, My!None
<1>2. MyOpen(s, h) /\ s.bound[h] = s.cursor[c].row
  <2>1. s.cursor[c] # My!NoCursor
    BY MyNoCursorIs
  <2>. QED
    BY <2>1 DEF MyCore, MyComplete, MyOwners, MyOpen
<1>3. h = s.cursor[c].handle
  OBVIOUS
<1> HIDE DEF h
<1>4. MyCore(t, {}) /\ MyKept(s, t)
  BY <1>2, MyHandleCall
<1> HIDE DEF t
<1>5. t.cursor[c].row # 0 /\ t.cursor[c].handle = h /\ MyOpen(t, h) /\ MyShape(t)
      /\ t.bound[h] = t.cursor[c].row
  BY <1>2, <1>3, <1>4 DEF MyKept, MyOpen, MyCore, MyPlain
<1>6. MyCore(e, {})
  BY <1>4, MyCursorEnds
<1>7. MyCore(f, {}) /\ MyOpen(f, h)
  <2>1. /\ MyShape(d) /\ d.bound = t.bound /\ d.coming = t.coming /\ d.cursor[c].row = t.cursor[c].row
    <3> DEFINE k == [t.cursor[c] EXCEPT !.given = x]
               cursor == [t.cursor EXCEPT ![c] = k]
    <3>1. On(t.cursor, Cursors) /\ MyCursor(t.cursor[c])
      BY <1>4 DEF MyCore, MyPlain
    <3>2. d = [t EXCEPT !.cursor = cursor]
      BY <1>5 DEF MyShape
    <3>3. k.row = t.cursor[c].row
      BY <3>1 DEF MyCursor
    <3> HIDE DEF k
    <3>4. cursor[c].row = t.cursor[c].row
      BY <3>1, <3>3 DEF On
    <3> HIDE DEF cursor, d
    <3>5. MyShape(d) /\ d.bound = t.bound /\ d.coming = t.coming /\ d.cursor = cursor
      BY <1>5, <3>2 DEF MyShape
    <3>. QED
      BY <3>4, <3>5
  <2>2. d.bound[h] \in My!Referred(d)
    BY <1>5, <2>1 DEF My!Referred
  <2>3. MyFilled(d, h, Head(d.coming[h]), Tail(d.coming[h]), f)
    <3> HIDE DEF d
    <3>. QED
      BY <2>1, <2>2, MyFill
  <2>4. d = [t EXCEPT !.cursor[c].given = x] /\ x = Head(d.coming[h]) /\ y = Tail(d.coming[h])
    BY <2>1
  <2> HIDE DEF x, y, d, f
  <2>5. MyFilled(d, h, x, y, f)
    BY <2>3, <2>4
  <2>6. MyCore(f, {}) /\ f.open = t.open
    <3>1. MyGiven(t, c, x, y, d, f)
      BY <1>5, <2>4, <2>5 DEF MyGiven
    <3>. QED
      BY <1>4, <3>1, MyCursorFilled
  <2>. QED
    BY <1>5, <2>6 DEF MyOpen
<1> HIDE DEF f
<1>8. MyCore(v, {})
  <2>1. MyShape(f) /\ f.threw \in BOOLEAN
    BY <1>7 DEF MyCore, MyPlain
  <2>2. MyTold(f, v) /\ MyKept(f, v)
    BY <1>7, <2>1, MyFetchColumns
  <2>. QED
    BY <1>7, <2>2, MyKeptCore
<1>. QED
  BY <1>1, <1>4, <1>6, <1>7, <1>8


\* A cursor that is closed, its handle too.
LEMMA MyCloseCursor ==
  ASSUME NEW s, MyCore(s, {}), NEW c \in Cursors, s.cursor[c] # My!NoCursor
  PROVE  MyCore(My!CloseCursor(s, c), {})
<1> DEFINE Y == {}
           h == s.cursor[c].handle
           z == My!CloseHandle(s, h)
           k == My!NoCursor
           cursor == Put(z.cursor, c, k)
<1> SUFFICES ASSUME NEW t, t = My!CloseCursor(s, c)
             PROVE  MyCore(t, Y)
  OBVIOUS
<1>0. /\ MyPlain(s) /\ MyShape(s) /\ s.threw \in BOOLEAN /\ MyOwners(s) /\ MyCore(s, Y)
      /\ MyComplete(s, c) /\ On(s.open, Handles) /\ On(s.coming, Handles)
  BY DEF MyCore, MyPlain
<1>1. /\ MyOpen(s, h) /\ h # s.handle /\ h \in Handles /\ h # 0
      /\ \A d \in Cursors : d # c => s.cursor[d].handle # h
  BY <1>0 DEF MyComplete, MyOwners, MyOpen
<1>2. t = [z EXCEPT !.cursor[c] = k] /\ h = s.cursor[c].handle
  BY DEF My!CloseCursor
<1> HIDE DEF h
<1>3. MyClosed(s, h, z)
  BY <1>0, <1>1, MyCloseHandle
<1> HIDE DEF z
<1>4. /\ On(z.open, Handles) /\ z.open[h] # "open"
      /\ \A g \in Handles : g # h => z.open[g] = s.open[g]
  <2> DEFINE w == "closed"
  <2>1. z.open = Put(s.open, h, w)
    BY <1>3 DEF MyClosed
  <2>2. w # "open"
    OBVIOUS
  <2> HIDE DEF w
  <2>. QED
    BY <1>0, <1>1, <2>1, <2>2, PutAt
<1>5. On(z.coming, Handles)
  <2> DEFINE none == << >>
  <2>1. z.coming = Put(s.coming, h, none)
    BY <1>3 DEF MyClosed
  <2> HIDE DEF none
  <2>. QED
    BY <1>0, <1>1, <2>1, PutAt
<1>6. MyPlain(z) /\ MyRows(z) /\ \A d \in Cursors : d \in Y \/ MyComplete(z, d)
  <2> HIDE DEF Y
  <2>. QED
    BY <1>0, <1>3, <1>4, <1>5, MySameRowsStay DEF MyClosed
<1>7. MyCursor(k) /\ k.handle = 0 /\ k.row = 0 /\ k = My!NoCursor
  BY MyNoCursorIs
<1>8. t = [z EXCEPT !.cursor = cursor] /\ cursor = Put(z.cursor, c, k)
  BY <1>2, <1>6 DEF MyPlain, MyShape, Put
<1> HIDE DEF cursor, k, Y
<1>9. /\ MyShape(t) /\ t.handle = z.handle /\ t.row = z.row /\ t.ptr = z.ptr
      /\ t.local = z.local /\ t.cursor = cursor /\ t.held = z.held
      /\ t.open = z.open /\ t.bound = z.bound /\ t.coming = z.coming
      /\ t.data = z.data /\ t.leaked = z.leaked /\ t.misuse = z.misuse /\ t.threw = z.threw
  BY <1>6, <1>8 DEF MyShape, MyPlain
<1>10. MyOne(z, c, k, t)
  BY <1>6, <1>8, <1>9, MyPutOne
<1>11. MyPlain(t)
  BY <1>6, <1>7, <1>9, <1>10 DEF MyPlain, MyOne
<1>12. MyOwners(t)
  <2>1. z.handle = s.handle /\ z.cursor = s.cursor /\ z.leaked = s.leaked
    BY <1>3 DEF MyClosed, MySameRows
  <2>2. \A g \in Handles : MyOpen(s, g) /\ g # h => MyOpen(t, g)
    BY <1>4, <1>9 DEF MyOpen
  <2>3. ASSUME NEW d \in Cursors, t.cursor[d].handle # 0
        PROVE  /\ MyOpen(t, t.cursor[d].handle) /\ t.cursor[d].handle # t.handle
               /\ \A e \in Cursors : e # d => t.cursor[e].handle # t.cursor[d].handle
    <3>1. d # c /\ t.cursor[d] = s.cursor[d]
      BY <1>7, <1>10, <2>1, <2>3 DEF MyOne
    <3>2. /\ MyOpen(s, s.cursor[d].handle) /\ s.cursor[d].handle # s.handle
          /\ \A e \in Cursors : e # d => s.cursor[e].handle # s.cursor[d].handle
      BY <1>0, <2>3, <3>1 DEF MyOwners
    <3>3. MyOpen(t, s.cursor[d].handle)
      BY <1>1, <2>2, <3>1, <3>2 DEF MyOpen
    <3>4. \A e \in Cursors : t.cursor[e].handle = s.cursor[e].handle \/ t.cursor[e].handle = 0
      BY <1>7, <1>10, <2>1 DEF MyOne
    <3>. QED
      BY <1>9, <2>1, <2>3, <3>1, <3>2, <3>3, <3>4
  <2>4. ASSUME NEW g \in Handles, t.open[g] = "open"
        PROVE  g = t.handle \/ g \in t.leaked \/ \E d \in Cursors : t.cursor[d].handle = g
    <3>1. g # h /\ s.open[g] = "open"
      BY <1>4, <1>9, <2>4
    <3>2. g = s.handle \/ g \in s.leaked \/ \E d \in Cursors : s.cursor[d].handle = g
      BY <1>0, <3>1 DEF MyOwners
    <3>3. ASSUME NEW d \in Cursors, s.cursor[d].handle = g
          PROVE  t.cursor[d].handle = g
      BY <1>2, <1>10, <2>1, <3>1, <3>3 DEF MyOne
    <3>. QED
      BY <1>9, <2>1, <3>2, <3>3
  <2>5. t.handle = 0 \/ MyOpen(t, t.handle)
    BY <1>0, <1>1, <1>9, <2>1, <2>2 DEF MyOwners, MyOpen
  <2>. QED
    BY <2>3, <2>4, <2>5 DEF MyOwners
<1>13. MyRows(t)
  <2>1. ASSUME NEW d \in Cursors
        PROVE  MyCursorRow(t, d)
    <3>1. CASE d = c
      BY <1>7, <1>10, <3>1 DEF MyCursorRow, MyOne
    <3>2. CASE d # c
      <4>1. \A e \in Cursors : t.cursor[e].row = z.cursor[e].row \/ t.cursor[e].row = 0
        BY <1>7, <1>10 DEF MyOne
      <4>2. t.cursor[d] = z.cursor[d]
        BY <1>10, <3>2 DEF MyOne
      <4>. QED
        BY <1>6, <1>9, <4>1, <4>2 DEF MyRows, MyCursorRow
    <3>. QED
      BY <3>1, <3>2
  <2>. QED
    BY <1>6, <1>9, <2>1 DEF MyRows
<1>14. \A d \in Cursors : d \in Y \/ MyComplete(t, d)
  BY <1>6, <1>7, <1>9, <1>10 DEF MyComplete, MyOne
<1>. QED
  BY <1>11, <1>12, <1>13, <1>14 DEF MyCore

\* A statement that is destroyed.
LEMMA MyCloseStatement ==
  ASSUME NEW s, MyCore(s, {})
  PROVE  MyCore(My!CloseStatement(s), {})
<1> DEFINE Y == {}
           h == s.handle
           c == My!CloseHandle(s, h)
           z == IF h # 0 THEN c ELSE s
           no == FALSE
<1> SUFFICES ASSUME NEW t, t = My!CloseStatement(s)
             PROVE  MyCore(t, Y)
  OBVIOUS
<1>0. /\ MyPlain(s) /\ MyShape(s) /\ s.threw \in BOOLEAN /\ MyOwners(s) /\ MyCore(s, Y)
      /\ On(s.open, Handles) /\ On(s.coming, Handles)
  BY DEF MyCore, MyPlain
<1>1. t = [z EXCEPT !.alive = no, !.handle = 0, !.row = 0]
  BY DEF My!CloseStatement, My!None
<1>2. /\ MyPlain(z) /\ MyRows(z) /\ \A d \in Cursors : d \in Y \/ MyComplete(z, d)
      /\ z.cursor = s.cursor /\ z.leaked = s.leaked
      /\ \A g \in Handles : (z.open[g] = "open" => g # h) /\ (g # h => z.open[g] = s.open[g])
  <2>1. CASE h = 0
    <3>1. z = s
      BY <2>1
    <3> HIDE DEF z, Y
    <3>2. \A g \in Handles : g # h
      BY <2>1, MyAssumption
    <3>. QED
      BY <1>0, <3>1, <3>2 DEF MyCore
  <2>2. CASE h # 0
    <3>1. z = c
      BY <2>2
    <3>2. MyOpen(s, h) /\ h \in Handles
      BY <1>0, <2>2 DEF MyOwners, MyOpen
    <3> HIDE DEF h
    <3>3. MyClosed(s, h, c)
      BY <1>0, <3>2, MyCloseHandle
    <3> HIDE DEF z, c, Y
    <3>4. MyClosed(s, h, z)
      BY <3>1, <3>3
    <3>5. /\ On(z.open, Handles) /\ z.open[h] # "open"
          /\ \A g \in Handles : g # h => z.open[g] = s.open[g]
      <4> DEFINE w == "closed"
      <4>1. z.open = Put(s.open, h, w)
        BY <3>4 DEF MyClosed
      <4>2. w # "open"
        OBVIOUS
      <4> HIDE DEF w
      <4>. QED
        BY <1>0, <3>2, <4>1, <4>2, PutAt
    <3>6. On(z.coming, Handles)
      <4> DEFINE none == << >>
      <4>1. z.coming = Put(s.coming, h, none)
        BY <3>4 DEF MyClosed
      <4> HIDE DEF none
      <4>. QED
        BY <1>0, <3>2, <4>1, PutAt
    <3>7. MyPlain(z) /\ MyRows(z) /\ \A d \in Cursors : d \in Y \/ MyComplete(z, d)
      BY <1>0, <3>4, <3>5, <3>6, MySameRowsStay DEF MyClosed
    <3>8. z.cursor = s.cursor /\ z.leaked = s.leaked
      BY <3>4 DEF MyClosed, MySameRows
    <3>. QED
      BY <3>5, <3>7, <3>8
  <2>. QED
    BY <2>1, <2>2
<1>3. h = s.handle
  OBVIOUS
<1> HIDE DEF z, no, Y, h
<1>4. /\ MyShape(t) /\ t.handle = 0 /\ t.row = 0 /\ t.ptr = z.ptr
      /\ t.local = z.local /\ t.cursor = z.cursor /\ t.held = z.held
      /\ t.open = z.open /\ t.bound = z.bound /\ t.coming = z.coming
      /\ t.data = z.data /\ t.leaked = z.leaked /\ t.misuse = z.misuse /\ t.threw = z.threw
  BY <1>1, <1>2 DEF MyShape, MyPlain
<1>5. MyPlain(t)
  BY <1>2, <1>4 DEF MyPlain
<1>6. MyOwners(t)
  <2>1. ASSUME NEW d \in Cursors, t.cursor[d].handle # 0
        PROVE  /\ MyOpen(t, t.cursor[d].handle)
               /\ \A e \in Cursors : e # d => t.cursor[e].handle # t.cursor[d].handle
    BY <1>0, <1>2, <1>3, <1>4, <2>1 DEF MyOwners, MyOpen
  <2>2. ASSUME NEW g \in Handles, t.open[g] = "open"
        PROVE  g \in t.leaked \/ \E d \in Cursors : t.cursor[d].handle = g
    <3>1. g # h /\ s.open[g] = "open"
      BY <1>2, <1>4, <2>2
    <3>2. g \in s.leaked \/ \E d \in Cursors : s.cursor[d].handle = g
      BY <1>0, <1>3, <3>1 DEF MyOwners
    <3>. QED
      BY <1>2, <1>4, <3>2
  <2>. QED
    BY <1>4, <2>1, <2>2 DEF MyOwners
<1>7. MyRows(t)
  <2>1. ASSUME NEW d \in Cursors
        PROVE  MyCursorRow(t, d)
    BY <1>2, <1>4 DEF MyRows, MyCursorRow
  <2>. QED
    BY <1>2, <1>4, <2>1 DEF MyRows
<1>8. \A d \in Cursors : d \in Y \/ MyComplete(t, d)
  BY <1>2, <1>4 DEF MyComplete
<1>. QED
  BY <1>5, <1>6, <1>7, <1>8 DEF MyCore

\* The client gives up rows.
LEMMA MyDropRows ==
  ASSUME MyGood(sys), NEW rows, My!DropRows(rows)
  PROVE  MyGood(sys')
<1> DEFINE X == {}
           held == [r \in DOMAIN sys.held \ rows |-> sys.held[r]]
<1>0. MyPlain(sys) /\ MyShape(sys) /\ MyOwners(sys) /\ MyRows(sys)
      /\ \A c \in Cursors : c \in X \/ MyComplete(sys, c)
  BY DEF MyGood, MyCore, MyPlain
<1>1. sys' = [sys EXCEPT !.held = held]
  BY DEF My!DropRows
<1>2. /\ \A r \in DOMAIN held : r \in DOMAIN sys.held /\ held[r] = sys.held[r]
  OBVIOUS
<1> HIDE DEF held, X
<1>4. /\ MyShape(sys') /\ sys'.handle = sys.handle /\ sys'.row = sys.row
      /\ sys'.ptr = sys.ptr /\ sys'.local = sys.local /\ sys'.cursor = sys.cursor
      /\ sys'.held = held /\ sys'.open = sys.open /\ sys'.bound = sys.bound
      /\ sys'.coming = sys.coming /\ sys'.data = sys.data /\ sys'.leaked = sys.leaked
      /\ sys'.misuse = sys.misuse /\ sys'.threw = sys.threw
  BY <1>0, <1>1 DEF MyShape
<1>6. MyPlain(sys')
  BY <1>0, <1>4 DEF MyPlain
<1>7. MyOwners(sys')
  BY <1>0, <1>4 DEF MyOwners, MyOpen
<1>8. MyRows(sys')
  <2>1. ASSUME NEW c \in Cursors
        PROVE  MyCursorRow(sys', c)
    BY <1>0, <1>2, <1>4 DEF MyRows, MyCursorRow
  <2>2. sys'.ptr \notin DOMAIN held /\ DOMAIN held \subseteq RowIds
    BY <1>0, <1>2, <1>4 DEF MyRows
  <2>3. \A r \in DOMAIN held : sys'.data[r] = held[r]
    BY <1>0, <1>2, <1>4 DEF MyRows
  <2>. QED
    BY <1>0, <1>4, <2>1, <2>2, <2>3 DEF MyRows
<1>9. \A c \in Cursors : c \in X \/ MyComplete(sys', c)
  BY <1>0, <1>4 DEF MyComplete
<1>10. MyCore(sys', X)
  BY <1>6, <1>7, <1>8, <1>9 DEF MyCore
<1>. QED
  BY <1>4, <1>10 DEF MyGood, X


LEMMA MyNext == MyGood(sys) /\ My!Next => MyGood(sys')
<1> SUFFICES ASSUME MyGood(sys), My!Next
             PROVE  MyGood(sys')
  OBVIOUS
<1>0. MyCore(sys, {})
  BY DEF MyGood
<1>1. ASSUME NEW k, My!Execute(k)
      PROVE  MyGood(sys')
  <2> DEFINE s == My!Begin(sys, k)
  <2>1. MyStarted(s)
    BY <1>1, MyStart DEF My!Execute
  <2>2. MyCore(My!ExecuteStatement(s), {})
    <3> HIDE DEF s
    <3>. QED
      BY <2>1, MyExecuteStatement
  <2>. QED
    BY <1>1, <2>2, MyEnds DEF My!Execute
<1>2. ASSUME NEW n \in 0..MaxRows, NEW k, My!Select(n, k)
      PROVE  MyGood(sys')
  <2> DEFINE s == My!Begin(sys, k)
  <2>1. MyStarted(s)
    BY <1>2, MyStart DEF My!Select
  <2>2. n \in Nat /\ n <= MaxRows
    BY MyAssumption
  <2>3. MyCore(My!SelectRows(s, n), {})
    <3> HIDE DEF s
    <3>. QED
      BY <2>1, <2>2, MySelectRows
  <2>. QED
    BY <1>2, <2>3, MyEnds DEF My!Select
<1>3. ASSUME NEW n, NEW k, My!SelectOne(n, k)
      PROVE  MyGood(sys')
  <2> DEFINE s == My!Begin(sys, k)
  <2>1. MyStarted(s)
    BY <1>3, MyStart DEF My!SelectOne
  <2>2. MyCore(My!SelectBoundRow(s, n), {})
    <3> HIDE DEF s
    <3>. QED
      BY <2>1, MySelectBoundRow
  <2>. QED
    BY <1>3, <2>2, MyEnds DEF My!SelectOne
<1>4. ASSUME NEW c \in Cursors, NEW n, NEW k, My!CreateCursor(c, n, k)
      PROVE  MyGood(sys')
  <2> DEFINE s == My!Begin(sys, k)
  <2>1. MyStarted(s)
    BY <1>4, MyStart DEF My!CreateCursor
  <2>2. s.cursor[c] = My!NoCursor
    <3>1. MyKept(sys, s)
      BY MyBegin
    <3> HIDE DEF s
    <3>. QED
      BY <1>4, <3>1 DEF My!CreateCursor, MyKept
  <2>3. MyCore(My!NewCursor(s, c, n), {})
    <3> HIDE DEF s
    <3>. QED
      BY <2>1, <2>2, MyNewCursor
  <2>. QED
    BY <1>4, <2>3, MyEnds DEF My!CreateCursor
<1>5. ASSUME NEW c \in Cursors, NEW k, My!FetchCursor(c, k)
      PROVE  MyGood(sys')
  <2> DEFINE s == My!Begin(sys, k)
  <2>1. MyCore(s, {}) /\ s.cursor[c].row # 0
    <3>1. MyKept(sys, s) /\ MyGood(s)
      BY MyBegin
    <3> HIDE DEF s
    <3>. QED
      BY <1>5, <3>1 DEF My!FetchCursor, My!None, MyKept, MyGood
  <2>2. MyCore(My!CursorFetch(s, c), {})
    <3> HIDE DEF s
    <3>. QED
      BY <2>1, MyCursorFetch
  <2>. QED
    BY <1>5, <2>2, MyEnds DEF My!FetchCursor
<1>6. ASSUME NEW c \in Cursors, My!DropCursor(c)
      PROVE  MyGood(sys')
  <2>1. MyCore(My!CloseCursor(sys, c), {})
    BY <1>0, <1>6, MyCloseCursor DEF My!DropCursor
  <2>. QED
    BY <1>6, <2>1, MyEnds DEF My!DropCursor
<1>7. ASSUME NEW rows, My!DropRows(rows)
      PROVE  MyGood(sys')
  BY <1>7, MyDropRows
<1>8. CASE My!DropStatement
  <2>1. MyCore(My!CloseStatement(sys), {})
    BY <1>0, MyCloseStatement
  <2>. QED
    BY <1>8, <2>1, MyEnds DEF My!DropStatement
<1>. QED
  BY <1>1, <1>2, <1>3, <1>4, <1>5, <1>6, <1>7, <1>8 DEF My!Next

MyStartState(s, cursor, held, open, bound, coming, data, nothing, yes, no) ==
    s = [alive |-> yes, handle |-> 0, fields |-> 0, row |-> 0, ptr |-> 0, local |-> nothing,
         cursor |-> cursor, held |-> held, open |-> open, bound |-> bound, coming |-> coming,
         exec |-> 0, data |-> data, leaked |-> nothing, misuse |-> nothing, failing |-> 0,
         calls |-> 0, threw |-> no]
LEMMA MyInit == My!Init => MyGood(sys)
<1> SUFFICES ASSUME My!Init
             PROVE  MyGood(sys)
  OBVIOUS
<1> DEFINE k == My!NoCursor
           cursor == [c \in Cursors |-> k]
           held == << >>
           open == [h \in Handles |-> "none"]
           bound == [h \in Handles |-> 0]
           coming == [h \in Handles |-> << >>]
           data == [r \in RowIds |-> My!Empty]
           nothing == {}
           yes == TRUE
           no == FALSE
<1>1. MyStartState(sys, cursor, held, open, bound, coming, data, nothing, yes, no)
  BY DEF My!Init, My!None, MyStartState
<1>2. DOMAIN held = {}
  <2>1. held = << >> /\ Len(held) = 0 /\ held \in Seq(Nat)
    BY EmptySeq
  <2> HIDE DEF held
  <2>. QED
    BY <2>1
<1>3. nothing = {} /\ no \in BOOLEAN /\ ~ no
  OBVIOUS
<1>4. /\ On(cursor, Cursors) /\ On(open, Handles) /\ On(bound, Handles) /\ On(coming, Handles)
      /\ On(data, RowIds)
  BY DEF On
<1>5. (\A h \in Handles : open[h] # "open") /\ \A c \in Cursors : cursor[c] = k
  OBVIOUS
<1>6. MyCursor(k) /\ k.handle = 0 /\ k.row = 0 /\ k = My!NoCursor
  BY MyNoCursorIs
<1> HIDE DEF k, cursor, held, open, bound, coming, data, nothing, yes, no
<1>7. /\ MyShape(sys) /\ sys.handle = 0 /\ sys.row = 0 /\ sys.ptr = 0 /\ sys.local = nothing
      /\ sys.cursor = cursor /\ sys.held = held /\ sys.open = open /\ sys.bound = bound
      /\ sys.coming = coming /\ sys.data = data /\ sys.leaked = nothing /\ sys.misuse = nothing
      /\ sys.threw = no
  BY <1>1 DEF MyStartState, MyShape
<1>8. MyPlain(sys)
  BY <1>3, <1>4, <1>5, <1>6, <1>7 DEF MyPlain
<1>9. MyOwners(sys)
  BY <1>5, <1>6, <1>7 DEF MyOwners
<1>10. MyRows(sys)
  <2>1. \A c \in Cursors : MyCursorRow(sys, c)
    BY <1>5, <1>6, <1>7 DEF MyCursorRow
  <2>2. sys.local \subseteq RowIds /\ DOMAIN sys.held \subseteq RowIds
        /\ sys.ptr \notin DOMAIN sys.held /\ \A r \in DOMAIN sys.held : sys.data[r] = sys.held[r]
    BY <1>2, <1>3, <1>7
  <2>. QED
    BY <1>7, <2>1, <2>2 DEF MyRows
<1>11. \A c \in Cursors : MyComplete(sys, c)
  BY <1>5, <1>6, <1>7 DEF MyComplete
<1>12. MyCore(sys, {})
  BY <1>8, <1>9, <1>10, <1>11 DEF MyCore
<1>. QED
  BY <1>3, <1>7, <1>12 DEF MyGood

LEMMA MyLegal == MyGood(sys) => My!HandlesLegal /\ My!DataStays
<1> SUFFICES ASSUME MyGood(sys)
             PROVE  My!HandlesLegal /\ My!DataStays
  OBVIOUS
<1>1. MyPlain(sys) /\ MyOwners(sys) /\ MyRows(sys)
  BY DEF MyGood, MyCore
<1>2. My!HandlesLegal
  BY <1>1 DEF My!HandlesLegal, MyPlain, MyOwners
<1>3. My!DataStays
  BY <1>1 DEF My!DataStays, My!None, MyRows, MyCursorRow
<1>. QED
  BY <1>2, <1>3

-----------------------------------------------------------------------------
\* The three statements, each by itself.

LiteInvariant == LiteGood(sys)
OraInvariant == OraGood(sys)
MyInvariant == MyGood(sys)

\* sqlite: the handle is closed once and used while it is open only, a select
\* answers the rows of one execution in order, and so does a cursor, which shares
\* the handle with the statement, as long as nothing else uses the statement,
\* whatever calls fail (sqlite::Statement, sqlite::Cursor).
THEOREM LiteStatementSafe ==
  Lite!Init /\ [][Lite!Next]_sys => [](Lite!HandlesLegal /\ Lite!DataStays)
<1>1. Lite!Init => LiteInvariant
  BY LiteInit DEF LiteInvariant
<1>2. LiteInvariant /\ [Lite!Next]_sys => LiteInvariant'
  BY LiteNext, MyAssumption DEF LiteInvariant
<1>3. LiteInvariant => Lite!HandlesLegal /\ Lite!DataStays
  BY LiteLegal DEF LiteInvariant
<1>. QED
  BY <1>1, <1>2, <1>3, PTL

\* oracle: the buffers that the statement handle fetches into live as long as the
\* handle knows them, and a row that the client holds keeps what was fetched into
\* its place of the batch, for any number of rows in a batch and any number of
\* executions, except in the buffers that a later selectValue leaves defined and
\* writes to (oracle::Statement, Cursor, MultiRow, SingleRow).
THEOREM OraStatementSafe ==
  Ora!Init /\ [][Ora!Next]_sys => [](Ora!HandlesLegal /\ Ora!DataStays)
<1>1. Ora!Init => OraInvariant
  BY OraInit DEF OraInvariant
<1>2. OraInvariant /\ [Ora!Next]_sys => OraInvariant'
  BY OraNext DEF OraInvariant
<1>3. OraInvariant => Ora!HandlesLegal /\ Ora!DataStays
  BY OraLegal DEF OraInvariant
<1>. QED
  BY <1>1, <1>2, <1>3, PTL

\* mysql: an open handle has an owner although statement and cursors pass it on,
\* unless the constructor of a cursor failed with it; a row of buffers that is
\* bound to a handle lives, and what the client or a cursor holds of a row stays
\* although the statement fetches again (mysql::Statement, Cursor, BoundRow).
THEOREM MyStatementSafe ==
  My!Init /\ [][My!Next]_sys => [](My!HandlesLegal /\ My!DataStays)
<1>1. My!Init => MyInvariant
  BY MyInit DEF MyInvariant
<1>2. MyInvariant /\ [My!Next]_sys => MyInvariant'
  BY MyNext DEF MyInvariant
<1>3. MyInvariant => My!HandlesLegal /\ My!DataStays
  BY MyLegal DEF MyInvariant
<1>. QED
  BY <1>1, <1>2, <1>3, PTL
=============================================================================
