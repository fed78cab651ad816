----------------------------- MODULE Statements -----------------------------
(***************************************************************************
 The statements of mysql, oracle and sqlite, each with its cursors, its rows
 and the calls of the client library, any of which may fail.  They have a
 module of their own because they are proved about together; Holdings composes
 them with the other objects that hold something for the client.
 ***************************************************************************)
EXTENDS Integers, FiniteSets

CONSTANTS Handles, RowIds, Cursors, Long,            \* mysql
          Buffers, Columns, FetchSize                \* oracle
CONSTANTS MaxRows,                                   \* rows of a select: at most so many
          BatchedRows,                               \* those of oracle
          MaxExec                                    \* executions of a statement

\* None is 0.  oracle fetches FetchSize rows at once, into buffers with at least
\* one column.
ASSUME MyAssumption ==
    0 \notin Handles /\ IsFiniteSet(RowIds) /\ 0 \notin RowIds /\ MaxRows \in Nat
ASSUME OraAssumption ==
    /\ IsFiniteSet(Buffers) /\ 0 \notin Buffers /\ 1 \in Columns
    /\ FetchSize \in Nat \ {0} /\ BatchedRows \in Nat

VARIABLE sys       \* the state of the statement

My == INSTANCE MyStatement
Ora == INSTANCE OraStatement WITH MaxRows <- BatchedRows
Lite == INSTANCE LiteStatement
=============================================================================
