--------------------------- MODULE ReplStatement ---------------------------
(***************************************************************************
 A prepared statement of the replication driver: one statement for each
 database, in their order.  A setter goes from one to the next, and so does
 execute within a transaction.  The databases are numbers, the statement has
 one host variable and inserts it as a row.
 ***************************************************************************)
EXTENDS Sequences, Naturals

CONSTANTS Databases,    \* 1..n
          HostValues,
          MaxExec

VARIABLE sys

None == 0   \* null

\* bound: the host variable of each statement; rows: what was committed.
\* given: what the last setter was called with; spoilt: it threw.  differ: the
\* statement was executed with a variable whose setter had thrown.
Init == sys = [bound |-> [d \in Databases |-> None], rows |-> [d \in Databases |-> << >>],
               given |-> None, spoilt |-> FALSE, differ |-> FALSE, log |-> << >>]
-----------------------------------------------------------------------------
\* The loop gets through all statements before the one that throws.
Reaches(failing, d) == failing = 0 \/ d < failing

\* A setter that throws may have left its own statement either way.
SetHostVar(v, failing) ==
    \E own \in {TRUE, FALSE} :
      sys' = [sys EXCEPT !.bound = [d \in Databases |->
                            IF Reaches(failing, d) \/ (d = failing /\ own) THEN v ELSE @[d]],
                         !.given = v, !.spoilt = failing # 0]
Clear(failing) == SetHostVar(None, failing)

\* What was done before a statement threw is rolled back with the transaction.
Execute(failing) ==
    /\ Len(sys.log) < MaxExec
    /\ sys' = IF failing # 0 THEN sys
              ELSE [sys EXCEPT !.rows = [d \in Databases |-> Append(@[d], sys.bound[d])],
                               !.log = Append(@, sys.given), !.differ = @ \/ sys.spoilt]

Next == \E failing \in Databases \cup {0} :
    \/ \E v \in HostValues : SetHostVar(v, failing)
    \/ Clear(failing)
    \/ Execute(failing)
-----------------------------------------------------------------------------
\* Every database has the rows of the executions that returned, with the values
\* that were set, unless the program went on after a setter that threw.
DataStays ==
    /\ ~ sys.spoilt => \A d \in Databases : sys.bound[d] = sys.given
    /\ ~ sys.differ => \A d \in Databases : sys.rows[d] = sys.log
=============================================================================
