---------------------------- MODULE MyStatement ----------------------------
(***************************************************************************
 A prepared statement of the mysql driver, its cursors and the rows which the
 client holds.  A row (BoundRow) is a buffer that is bound to a handle and
 filled by a fetch.  The statement keeps the last one and uses it again when
 nobody else refers to it.  The descriptions of the columns (fields) belong to
 a handle.  A cursor takes the handle of the statement with it.

 Data that the server sends are pairs of the execution and the row number.
 ***************************************************************************)
EXTENDS Calls, Sequences, FiniteSets

CONSTANTS Handles,      \* the handles there can ever be: 1..n
          RowIds,       \* the buffers: 1..n
          Cursors,      \* the cursors
          MaxRows,      \* a select has at most so many rows
          MaxExec,      \* there are so many executions
          Long          \* the row numbers that need a longer buffer

VARIABLE sys

None == 0
Empty == <<0, 0>>       \* a buffer without data
NoCursor == [handle |-> None, row |-> None, fields |-> None, given |-> Empty]

Init == sys = [
    alive |-> TRUE, handle |-> None, fields |-> None, row |-> None,
    ptr |-> None, local |-> {},                      \* of the function that runs
    cursor |-> [c \in Cursors |-> NoCursor],
    held |-> << >>,                                  \* rows of the client and their data
    open |-> [h \in Handles |-> "none"], bound |-> [h \in Handles |-> None],
    coming |-> [h \in Handles |-> << >>], exec |-> 0,
    data |-> [r \in RowIds |-> Empty], leaked |-> {},
    misuse |-> {}, failing |-> 0, calls |-> 0, threw |-> FALSE]

IsOpen(s, h) == h # None /\ s.open[h] = "open"
CallOn(s, h) == Call(s, IsOpen(s, h))

\* The buffers that somebody refers to beside the statement.
Referred(s) == {s.ptr} \cup s.local \cup DOMAIN s.held \cup {s.cursor[c].row : c \in Cursors}
FreeRow(s) == CHOOSE r \in RowIds : r \notin Referred(s) \cup {s.row}
HasFreeRows(s, n) == Cardinality(RowIds \ (Referred(s) \cup {s.row})) >= n
\* Mutant: nobody is asked whether the row is still in use.
Unique_Unasked(s) == s.row # None

Unique(s) == s.row # None /\ s.row \notin Referred(s)

CloseHandle(s, h) == [CallOn(s, h) EXCEPT !.open[h] = "closed", !.coming[h] = << >>]
TouchFields(s, fields) == IF IsOpen(s, fields) THEN s ELSE Misuse(s, "stale fields")
-----------------------------------------------------------------------------
FreshHandle(s) == CHOOSE h \in Handles : s.open[h] = "none"
HasFreshHandle(s) == \E h \in Handles : s.open[h] = "none"

\* The handle is closed when it could not be prepared.
GetStmt(s) ==
    IF s.handle # None THEN s
    ELSE LET h == FreshHandle(s)
             prepared == CallOn([s EXCEPT !.open[h] = "open"], h)
         IN IF prepared.threw THEN CloseHandle(prepared, h)
            ELSE [prepared EXCEPT !.handle = h]

GetFields(s) ==
    IF s.fields # None THEN s
    ELSE Then(Then(GetStmt(s), LAMBDA t : CallOn(t, t.handle)),
              LAMBDA t : [t EXCEPT !.fields = t.handle])

\* The buffers of a new row are as large as the fields say.
NewRow(s) ==
    LET r == FreeRow(s)
    IN TouchFields([s EXCEPT !.row = r, !.ptr = r, !.data[r] = Empty], s.fields)
GetRow(s) ==
    IF Unique(s) THEN [s EXCEPT !.ptr = s.row, !.data[s.row] = Empty]
    ELSE Then(GetFields(s), NewRow)

\* The fetch fills the buffer that is bound.
Fill(s, h) ==
    LET r == s.bound[h]
        t == [s EXCEPT !.data[r] = Head(s.coming[h]), !.coming[h] = Tail(@)]
    IN IF r \in Referred(s) THEN t ELSE Misuse(t, "released row")
FetchColumns(s, h, fields) ==
    IF s.data[s.bound[h]][2] \in Long THEN CallOn(TouchFields(s, fields), h) ELSE s
Fetch(s, h, fields) == Then(Fill(s, h), LAMBDA t : FetchColumns(t, h, fields))

FetchRow(s) ==
    LET bound == Then(Then(s, GetRow), LAMBDA t : CallOn(t, t.handle))
        called == Then(bound, LAMBDA t : CallOn([t EXCEPT !.bound[t.handle] = t.ptr], t.handle))
    IN Then(called, LAMBDA t : IF t.coming[t.handle] = << >> THEN [t EXCEPT !.ptr = None]
                               ELSE Fetch(t, t.handle, t.fields))

\* A cursor that is not read to its end keeps the connection busy: the server
\* refuses other statements.
Busy(s, h) == \E c \in Cursors : s.cursor[c].handle \notin {None, h} /\ s.coming[s.cursor[c].handle] # << >>
Sent(s, n) == [i \in 1..n |-> <<s.exec + 1, i>>]
ExecuteHandle(s, h, n) ==
    LET t == Then(Then(CallOn(s, h), LAMBDA u : CallOn(u, h)), LAMBDA u : CallOn(u, h))
    IN IF t.threw THEN t
       ELSE IF Busy(t, h) THEN Throw(t)
       ELSE [t EXCEPT !.exec = @ + 1, !.coming[h] = Sent(t, n)]
-----------------------------------------------------------------------------
\* The rows of the container stay referred to while the next ones are fetched.
AddRow(s) == [s EXCEPT !.local = @ \cup ({s.ptr} \ {None})]
FetchAll(s, n) ==
    LET run[i \in 0..(n + 1)] ==
            IF i = 0 THEN s ELSE Then(Then(run[i - 1], FetchRow), AddRow)
    IN run[n + 1]

\* What every select begins with: the kept row is used again or replaced.
Select0(s, n) ==
    LET t == IF s.fields # None THEN [GetRow(s) EXCEPT !.ptr = None] ELSE s
        u == Then(Then(t, GetStmt), LAMBDA v : ExecuteHandle(v, v.handle, n))
    IN Then(u, LAMBDA v : CallOn(v, v.handle))       \* mysql_stmt_store_result

SelectRows(s, n) == Then(Select0(s, n), LAMBDA t : FetchAll(t, n))
SelectBoundRow(s, n) ==
    Then(Then(Select0(s, n), FetchRow),
         LAMBDA t : IF t.ptr = None THEN Throw(t) ELSE AddRow(t))      \* NotFound

ExecuteStatement(s) == Then(GetStmt(s), LAMBDA t : ExecuteHandle(t, t.handle, 0))

\* The handle changes hands; if the constructor fails then nobody has it.
CreateStmt(s) == Then(GetStmt(s), LAMBDA t : [t EXCEPT !.handle = None])
TakenBy(s, c) ==
    Then(Then(GetFields(s), LAMBDA t : LET r == FreeRow(t)
                                       IN [t EXCEPT !.cursor[c].row = r, !.data[r] = Empty,
                                                    !.cursor[c].fields = t.fields]),
         LAMBDA t : Then(GetStmt(t), LAMBDA u :
             CreateStmt([u EXCEPT !.cursor[c].handle = u.handle])))
BindRow(s, c) ==
    LET h == s.cursor[c].handle
    IN Then(TouchFields(s, s.cursor[c].fields),
            LAMBDA t : [CallOn(t, h) EXCEPT !.bound[h] = t.cursor[c].row])
NewCursor(s, c, n) ==
    LET t == Then(Then(TakenBy(s, c), LAMBDA u : BindRow(u, c)),
                  LAMBDA u : ExecuteHandle(u, u.cursor[c].handle, n))
    IN IF ~ t.threw THEN t
       ELSE [t EXCEPT !.leaked = @ \cup ({t.cursor[c].handle} \ {None}), !.cursor[c] = NoCursor]

CursorFetch(s, c) ==
    LET h == s.cursor[c].handle
        t == CallOn(s, h)
    IN IF t.threw THEN t
       ELSE IF t.coming[h] = << >> THEN [t EXCEPT !.cursor[c].row = None]
       ELSE Fetch([t EXCEPT !.cursor[c].given = Head(t.coming[h])], h, t.cursor[c].fields)
CloseCursor(s, c) == [CloseHandle(s, s.cursor[c].handle) EXCEPT !.cursor[c] = NoCursor]

CloseStatement(s) ==
    [(IF s.handle # None THEN CloseHandle(s, s.handle) ELSE s)
       EXCEPT !.alive = FALSE, !.handle = None, !.row = None]
-----------------------------------------------------------------------------
(* The steps of the client.  What a failed function leaves behind are the
   members; its local pointers go. *)

\* The client holds the rows of a function that returned.
Kept(s) ==
    LET t == IF s.threw THEN s
             ELSE [s EXCEPT !.held = [r \in s.local \cup DOMAIN @ |->
                                        IF r \in s.local THEN s.data[r] ELSE @[r]]]
    IN Finished([t EXCEPT !.ptr = None, !.local = {}])
Ends(t) == Reached(t) /\ sys' = Kept(t)
Room == HasFreshHandle(sys) /\ sys.exec < MaxExec /\ HasFreeRows(sys, MaxRows + 2)

Execute(failing) == Room /\ sys.alive /\ Ends(ExecuteStatement(Begin(sys, failing)))
Select(n, failing) == Room /\ sys.alive /\ Ends(SelectRows(Begin(sys, failing), n))
SelectOne(n, failing) == Room /\ sys.alive /\ Ends(SelectBoundRow(Begin(sys, failing), n))
CreateCursor(c, n, failing) ==
    /\ Room /\ sys.alive /\ sys.cursor[c] = NoCursor
    /\ Ends(NewCursor(Begin(sys, failing), c, n))
\* The iterators stop at the end.
FetchCursor(c, failing) ==
    sys.cursor[c].row # None /\ Ends(CursorFetch(Begin(sys, failing), c))
DropCursor(c) == sys.cursor[c] # NoCursor /\ Ends(CloseCursor(sys, c))
DropRows(rows) ==
    /\ rows # {}
    /\ sys' = [sys EXCEPT !.held = [r \in DOMAIN sys.held \ rows |-> sys.held[r]]]
DropStatement == sys.alive /\ Ends(CloseStatement(sys))

Failures == 0..(7 + 4 * MaxRows)
Next ==
    \/ \E k \in Failures : Execute(k)
    \/ \E n \in 0..MaxRows, k \in Failures :
         \/ Select(n, k)
         \/ SelectOne(n, k)
         \/ \E c \in Cursors : CreateCursor(c, n, k)
    \/ \E c \in Cursors, k \in 0..2 : FetchCursor(c, k)
    \/ \E c \in Cursors : DropCursor(c)
    \/ \E rows \in {DOMAIN sys.held} \cup {{r} : r \in DOMAIN sys.held} : DropRows(rows)
    \/ DropStatement
-----------------------------------------------------------------------------
(* What the composition says of this driver. *)

\* The fields of a statement stay those of a handle which a cursor took and
\* closed.
HandlesLegal ==
    /\ sys.misuse \subseteq {"stale fields"}
    /\ \A h \in Handles : sys.open[h] = "open" =>
         h = sys.handle \/ h \in sys.leaked \/ \E c \in Cursors : sys.cursor[c].handle = h

DataStays ==
    /\ \A r \in DOMAIN sys.held : sys.data[r] = sys.held[r]
    /\ \A c \in Cursors : sys.cursor[c].row # None =>
         sys.data[sys.cursor[c].row] = sys.cursor[c].given
=============================================================================
