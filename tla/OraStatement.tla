---------------------------- MODULE OraStatement ----------------------------
(***************************************************************************
 A statement of the oracle driver.  The handle has a define for each column:
 the buffer that a fetch fills.  Buffers hold one row (Row, Value) or as many
 as are fetched at once (MultiRow); the rows of a result are places in them
 (SingleRow).  A cursor has one row, which it moves through its buffer.

 Data that the server sends are pairs of the execution and the row number.
 ***************************************************************************)
EXTENDS Calls, Integers, Sequences, SequencesExt, FiniteSets, TLC

CONSTANTS Buffers,      \* the buffers: 1..n
          Columns,      \* the columns of the select
          FetchSize,    \* the rows fetched at once
          MaxRows,      \* a select has at most so many rows
          MaxExec       \* there are so many executions

VARIABLE sys

None == 0
Empty == <<0, 0>>
NoCursor == [open |-> FALSE, buffer |-> None, at |-> 0, count |-> 0, exec |-> 0, read |-> 0,
             failed |-> FALSE]

Init == sys = [
    handle |-> "none",                                \* none, open, closed
    define |-> [c \in Columns |-> None], coming |-> << >>, exec |-> 0,
    data |-> [b \in Buffers |-> [c \in Columns |-> [i \in 0..(FetchSize - 1) |-> Empty]]],
    local |-> {}, rows |-> << >>,                     \* of the function that runs
    held |-> {},                                      \* the client's rows
    spoilt |-> {},                                    \* buffers that selectValue wrote to
    cursor |-> NoCursor,
    misuse |-> {}, failing |-> 0, calls |-> 0, threw |-> FALSE]

CallOn(s) == Call(s, s.handle = "open")

HeldBuffers(s) == {h.buffer : h \in s.held}
Referred(s) == s.local \cup HeldBuffers(s) \cup {s.cursor.buffer}
FreeBuffer(s) == CHOOSE b \in Buffers : b \notin Referred(s)
HasFreeBuffers(s, n) == Cardinality(Buffers \ Referred(s)) >= n
-----------------------------------------------------------------------------
\* The constructor prepares the statement; if that fails then nobody has the
\* handle.
GetHandle(s) ==
    IF s.handle = "open" THEN s ELSE CallOn([s EXCEPT !.handle = "open"])

\* OCIStmtExecute with no row: a new result.
ExecuteSelect(s, n) ==
    LET t == CallOn(s)
    IN IF t.threw THEN t
       ELSE [t EXCEPT !.exec = @ + 1, !.coming = [i \in 1..n |-> <<t.exec + 1, i>>]]

\* MultiRow, Row and Value define their columns; the others stay as they were.
DefineColumns(s, columns) ==
    LET b == FreeBuffer(s)
        t == CallOn([s EXCEPT !.local = @ \cup {b}])
    IN IF t.threw THEN t
       ELSE [t EXCEPT !.define = [c \in Columns |-> IF c \in columns THEN b ELSE @[c]],
                      !.data[b] = [c \in Columns |-> [i \in 0..(FetchSize - 1) |-> Empty]]]
NewBuffer(s) == s.define[1]

\* OCIStmtFetch fills the defined buffers.
Smaller(m, n) == IF m <= n THEN m ELSE n
Delivered(s, count) == Smaller(count, Len(s.coming))
Filled(s, count) ==
    [b \in Buffers |-> [c \in Columns |-> [i \in 0..(FetchSize - 1) |->
        IF s.define[c] = b /\ i < Delivered(s, count) THEN s.coming[i + 1] ELSE s.data[b][c][i]]]]
Targets(s) == {s.define[c] : c \in Columns} \ {None}
FetchRows(s, count) ==
    LET t == CallOn(s)
    IN IF t.threw \/ t.coming = << >> THEN t
       ELSE [t EXCEPT !.data = Filled(t, count),
                      !.coming = SubSeq(@, Delivered(t, count) + 1, Len(@)),
                      !.misuse = IF Targets(t) \subseteq Referred(t) \cup t.spoilt THEN @
                                 ELSE @ \cup {"released buffer"}]
-----------------------------------------------------------------------------
(* Results: batch after batch into a new buffer until one is not full. *)

RowAt(s, b, i) == [buffer |-> b, at |-> i, data |-> s.data[b][1][i]]

ResultBatch(s) ==
    IF s.rows # << >> /\ Last(s.rows) < FetchSize THEN s
    ELSE LET t == Then(DefineColumns(s, Columns), LAMBDA u : FetchRows(u, FetchSize))
             count == Delivered(s, FetchSize)
         IN Then(Then(t, CallOn),                   \* OCI_ATTR_ROWS_FETCHED
                 LAMBDA u : [u EXCEPT !.rows = Append(@, count),
                     !.held = @ \cup {RowAt(u, NewBuffer(u), i) : i \in 0..(count - 1)}])
NewResult(s, n) ==
    LET run[i \in 0..(n + 1)] ==
            IF i = 0 THEN Then(Then(GetHandle(s), LAMBDA t : ExecuteSelect(t, n)), CallOn)
            ELSE Then(run[i - 1], ResultBatch)
        all == run[n + 1]
    IN IF all.threw THEN [all EXCEPT !.held = s.held] ELSE all

\* A single row; without one the fetch throws NotFound.
FetchOne(s, n, columns) ==
    LET executed == Then(GetHandle(s), LAMBDA u : ExecuteSelect(u, n))
        defined == Then(executed, LAMBDA u : DefineColumns(u, columns))
        fetched == Then(defined, LAMBDA u : IF u.coming = << >> THEN Throw(CallOn(u)) ELSE FetchRows(u, 1))
    IN Then(fetched, LAMBDA u : [u EXCEPT !.held = @ \cup {RowAt(u, NewBuffer(u), 0)}])
SelectRowOp(s, n) == FetchOne(s, n, Columns)

\* Only the first column is defined: a fetch fills the buffers of the others
\* once more.
Stale(s) == {s.define[c] : c \in Columns \ {1}} \ {None}
SelectValueOp(s, n) == FetchOne([s EXCEPT !.spoilt = @ \cup Stale(s)], n, {1})
-----------------------------------------------------------------------------
(* Cursors. *)

NewCursor(s, n) ==
    LET t == Then(Then(GetHandle(s), LAMBDA u : ExecuteSelect(u, n)),
                  LAMBDA u : Then(CallOn(u), LAMBDA v : DefineColumns(v, Columns)))
    IN Then(t, LAMBDA u : [u EXCEPT !.cursor = [NoCursor EXCEPT !.open = TRUE,
                               !.buffer = NewBuffer(u), !.exec = u.exec]])

EndOfCursor(s) == [s EXCEPT !.cursor.buffer = None]
NextBatch(s) ==
    LET count == Delivered(s, FetchSize)
    IN Then(Then(FetchRows(s, FetchSize), CallOn),
            LAMBDA t : IF count = 0 THEN EndOfCursor([t EXCEPT !.cursor.count = 0])
                       ELSE [t EXCEPT !.cursor.count = count, !.cursor.at = 0,
                                      !.cursor.read = @ + 1])
CursorFetch(s) ==
    LET c == s.cursor
    IN IF c.count > 0 /\ c.at < c.count - 1
       THEN [s EXCEPT !.cursor.at = @ + 1, !.cursor.read = @ + 1]
       ELSE IF c.count > 0 /\ c.count < FetchSize THEN EndOfCursor(s)
       ELSE NextBatch(s)
-----------------------------------------------------------------------------
(* The steps of the client.  A cursor is read to its end at most, while the
   statement exists and is not executed again; execute() is for statements that
   are no selects. *)

Kept(s) == Finished([s EXCEPT !.local = {}, !.rows = << >>])
Ends(t) == Reached(t) /\ sys' = Kept(t)
Room == sys.handle # "closed" /\ sys.exec < MaxExec /\ HasFreeBuffers(sys, MaxRows + 1)

Prepare(failing) ==
    /\ sys.handle = "none"
    /\ LET t == GetHandle(Begin(sys, failing))
       IN Reached(t) /\ sys' = Finished([t EXCEPT !.handle = IF t.threw THEN "none" ELSE "open"])
Select(n, failing) == Room /\ sys.handle = "open" /\ Ends(NewResult(Begin(sys, failing), n))
SelectRow(n, failing) == Room /\ sys.handle = "open" /\ Ends(SelectRowOp(Begin(sys, failing), n))
SelectValue(n, failing) == Room /\ sys.handle = "open" /\ Ends(SelectValueOp(Begin(sys, failing), n))
CreateCursor(n, failing) ==
    /\ Room /\ sys.handle = "open" /\ ~ sys.cursor.open
    /\ Ends(NewCursor(Begin(sys, failing), n))
FetchCursor(failing) ==
    /\ sys.cursor.buffer # None /\ sys.cursor.exec = sys.exec
    /\ LET t == CursorFetch(Begin(sys, failing))
       IN Ends([t EXCEPT !.cursor.failed = @ \/ t.threw])
DropCursor == sys.cursor.open /\ sys' = [sys EXCEPT !.cursor = NoCursor]
DropRows(rows) == rows # {} /\ sys' = [sys EXCEPT !.held = @ \ rows]
DropStatement ==
    /\ sys.handle = "open" /\ ~ sys.cursor.open
    /\ sys' = [Finished(CallOn(sys)) EXCEPT !.handle = "closed"]

Failures == 0..(4 + 3 * MaxRows)
Next ==
    \/ \E k \in 0..1 : Prepare(k)
    \/ \E n \in 0..MaxRows, k \in Failures :
         Select(n, k) \/ SelectRow(n, k) \/ SelectValue(n, k) \/ CreateCursor(n, k)
    \/ \E k \in 0..2 : FetchCursor(k)
    \/ DropCursor
    \/ \E rows \in {sys.held} \cup {{r} : r \in sys.held} : DropRows(rows)
    \/ DropStatement
-----------------------------------------------------------------------------
(* What the composition says of this driver. *)

HandlesLegal == sys.misuse = {}

DataStays ==
    /\ \A r \in sys.held : r.buffer \notin sys.spoilt =>
         sys.data[r.buffer][1][r.at] = r.data /\ r.data # Empty
    /\ LET c == sys.cursor
       IN (/\ c.buffer # None /\ c.count > 0 /\ ~ c.failed
           /\ c.exec = sys.exec /\ c.buffer \notin sys.spoilt) =>
            \A col \in Columns : sys.data[c.buffer][col][c.at] = <<c.exec, c.read>>
=============================================================================
