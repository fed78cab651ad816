--------------------------- MODULE LiteStatement ---------------------------
(***************************************************************************
 A statement of the sqlite driver and a cursor of it.  Both step through the
 same handle of sqlite; needReset remembers that the handle may have to be
 reset before it is used for something else.  The rows of select() are copies,
 a row of a cursor shows what the handle stands at.
 ***************************************************************************)
EXTENDS Calls, Sequences

CONSTANTS MaxRows,      \* a select has at most so many rows
          MaxExec       \* there are so many executions

VARIABLE sys

NoCursor == [open |-> FALSE, exec |-> 0, read |-> 0, alone |-> FALSE, ended |-> FALSE]

\* run: ready, row (the handle stands at a row), done or failed
Init == sys = [
    stmt |-> "none", needReset |-> FALSE,
    run |-> "ready", exec |-> 0, of |-> 0, at |-> 0,
    cursor |-> NoCursor, answer |-> << >>, dropped |-> FALSE,
    misuse |-> {}, failing |-> 0, calls |-> 0, threw |-> FALSE]
-----------------------------------------------------------------------------
(* The library: a step of a handle that is done or failed starts again, and a
   reset reports the failure of the last step once more. *)

SqliteReset(s) ==
    LET t == [s EXCEPT !.run = "ready"]
    IN IF s.run = "failed" THEN Throw(t) ELSE t
SqliteStep(s, n) ==
    LET t == Call(s, s.stmt = "open")
        from == IF s.run = "row" THEN s.at ELSE 0
        rows == IF s.run = "row" THEN s.of ELSE n
        u == [t EXCEPT !.exec = IF s.run = "row" THEN @ ELSE @ + 1, !.of = rows]
    IN IF t.threw THEN [t EXCEPT !.run = "failed"]
       ELSE IF from < rows THEN [u EXCEPT !.run = "row", !.at = from + 1]
       ELSE [u EXCEPT !.run = "done"]
SqliteBind(s) ==
    LET t == Call(s, s.stmt = "open")
    IN IF s.run = "ready" THEN t ELSE Misuse(Throw(t), "bound while it runs")
-----------------------------------------------------------------------------
Reset(s) ==
    IF ~ s.needReset THEN s
    ELSE Then(SqliteReset(s), LAMBDA t : [t EXCEPT !.needReset = FALSE])
GetBindStmt(s) ==
    IF s.stmt = "open" THEN Reset(s)
    ELSE LET t == Call(s, TRUE)
         IN IF t.threw THEN t ELSE [t EXCEPT !.stmt = "open"]
GetBindIndex(s) == Then(GetBindStmt(s), LAMBDA t : Call(t, t.stmt = "open"))

\* Every setter of a host variable.
SetHostVar(s) == Then(GetBindIndex(s), LAMBDA t : Then(Reset(t), SqliteBind))
\* All host variables become null, here two.
ClearHostVars(s) == Then(Then(GetBindStmt(s), SqliteBind), SqliteBind)

\* What every execution begins with.
Begun(s) ==
    Then(IF s.stmt = "open" THEN Reset(s) ELSE GetBindStmt(s),
         LAMBDA t : [t EXCEPT !.needReset = TRUE])

ExecuteStatement(s, n) == Then(Then(Begun(s), LAMBDA t : SqliteStep(t, n)), Reset)

Answered(s) == IF s.run = "row" THEN [s EXCEPT !.answer = Append(@, <<s.exec, s.at>>)] ELSE s
Round(s, n) == Then(Then(s, LAMBDA t : SqliteStep(t, n)), Answered)
SelectRows(s, n) ==
    LET run[i \in 0..n] ==
            IF i = 0 THEN Round(Begun(s), n)
            ELSE IF run[i - 1].run = "row" THEN Round(run[i - 1], n)
            ELSE run[i - 1]
    IN run[n]

\* A row or a value.  Without one, NotFound is thrown and the reset is left to
\* the next function.
SelectFirst(s, n) ==
    LET t == Then(Begun(s), LAMBDA u : SqliteStep(u, n))
    IN IF t.threw THEN IF t.run = "failed" THEN SqliteReset(t) ELSE t
       ELSE IF t.run = "done" THEN Throw(t)
       ELSE Reset(Answered(t))

NewCursor(s) ==
    Then(GetBindStmt(s), LAMBDA t : [t EXCEPT !.cursor = [NoCursor EXCEPT !.open = TRUE,
                                                          !.alone = TRUE]])
CursorFetch(s, n) ==
    LET t == SqliteStep([s EXCEPT !.needReset = TRUE], n)
    IN IF t.threw THEN [t EXCEPT !.cursor.alone = FALSE]
       ELSE IF t.run = "done" THEN [t EXCEPT !.cursor.ended = TRUE]
       ELSE [t EXCEPT !.cursor.read = @ + 1,
                      !.cursor.exec = IF s.cursor.read = 0 THEN t.exec ELSE @]
-----------------------------------------------------------------------------
(* The steps of the client.  It may use the statement while a cursor reads from
   it: then the cursor is no longer alone.  The cursor goes before the
   statement. *)

Usable == sys.stmt # "closed" /\ sys.exec < MaxExec
Start(failing) ==
    Begin([sys EXCEPT !.cursor.alone = FALSE, !.answer = << >>, !.dropped = FALSE], failing)
Ends(t) == Reached(t) /\ sys' = Finished(t)
Returns(t) == Reached(t) /\ sys' = Finished([t EXCEPT !.answer = IF t.threw THEN << >> ELSE @])

SetValue(failing) == Usable /\ Ends(SetHostVar(Start(failing)))
Clear(failing) == Usable /\ Ends(ClearHostVars(Start(failing)))
Execute(n, failing) == Usable /\ Ends(ExecuteStatement(Start(failing), n))
Select(n, failing) == Usable /\ Returns(SelectRows(Start(failing), n))
SelectOne(n, failing) == Usable /\ Returns(SelectFirst(Start(failing), n))
CreateCursor(failing) == Usable /\ ~ sys.cursor.open /\ Ends(NewCursor(Start(failing)))
\* The iterators stop at the end.
FetchCursor(n, failing) ==
    /\ Usable /\ sys.cursor.open /\ ~ sys.cursor.ended
    /\ Ends(CursorFetch(Begin([sys EXCEPT !.answer = << >>], failing), n))
DropCursor ==
    /\ sys.cursor.open
    /\ sys' = [sys EXCEPT !.cursor = NoCursor, !.dropped = sys.run = "row"]
DropStatement ==
    /\ sys.stmt = "open" /\ ~ sys.cursor.open
    /\ sys' = [sys EXCEPT !.stmt = "closed", !.run = "ready", !.answer = << >>, !.dropped = FALSE]

Next ==
    \/ \E k \in 0..3 : SetValue(k) \/ Clear(k) \/ CreateCursor(k)
    \/ \E n \in 0..MaxRows, k \in 0..(MaxRows + 2) :
         Execute(n, k) \/ Select(n, k) \/ SelectOne(n, k) \/ FetchCursor(n, k)
    \/ DropCursor
    \/ DropStatement
-----------------------------------------------------------------------------
(* What the composition says of this driver. *)

\* Host variables are set only while the handle is ready; it stands at a row
\* (and keeps the database locked) only for a cursor.
HandlesLegal ==
    /\ sys.misuse = {}
    /\ sys.run = "row" => sys.needReset /\ (sys.cursor.open \/ sys.dropped)

\* A select delivers the rows of one execution from the first one on, and so
\* does a cursor as long as the statement is used for nothing else.
DataStays ==
    /\ \A i \in DOMAIN sys.answer : sys.answer[i] = <<sys.exec, i>>
    /\ (sys.cursor.alone /\ sys.cursor.read > 0 /\ ~ sys.cursor.ended) =>
         sys.run = "row" /\ <<sys.exec, sys.at>> = <<sys.cursor.exec, sys.cursor.read>>
=============================================================================
