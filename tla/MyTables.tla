------------------------------ MODULE MyTables ------------------------------
(***************************************************************************
 Table locks of mysql connections.  Transaction::lockTable asks the driver
 while the transaction runs; the locks go with the end of the transaction.
 LOCK TABLES takes a list, and gives back what the session had locked before:
 the driver remembers the list (lockTablesQuery) and sends all of it each time.

 Several sessions of one server, each with its client.  A call that waits for
 a lock blocks its client.
 ***************************************************************************)
EXTENDS Naturals, Sequences, SequencesExt, FiniteSets

CONSTANTS Sessions,     \* the connections
          Tables,       \* the tables
          MaxNesting,   \* transactions are nested so deep
          MaxLocks      \* a list has at most so many tables

VARIABLE sys

Modes == {"READ", "WRITE"}
Lock(t, exclusive) == <<t, IF exclusive THEN "WRITE" ELSE "READ">>

\* transactionActive and lockTablesQuery are the driver's; autocommit, locks,
\* dirty (work that is not committed) and wants (the locks it waits for) the
\* server's.  asked: the locks of the calls that returned, guarded: those that
\* were there at the work which is not committed, sound: no call failed since
\* the last end of a transaction.
Fresh == [transactionActive |-> 0, lockTablesQuery |-> << >>,
          autocommit |-> TRUE, locks |-> {}, dirty |-> FALSE, wants |-> {},
          asked |-> {}, guarded |-> {}, sound |-> TRUE]

Init == sys = [c \in Sessions |-> Fresh]

Changed(c, session) == sys' = [sys EXCEPT ![c] = session]
Free(c) == sys[c].wants = {}       \* the client does not wait
Failed(s) == [s EXCEPT !.sound = FALSE]
-----------------------------------------------------------------------------
(* The server. *)

Committed(s) == [s EXCEPT !.dirty = FALSE, !.guarded = {}]
Conflict(l, m) == l[1] = m[1] /\ "WRITE" \in {l[2], m[2]}
Available(c, wanted) ==
    \A d \in Sessions \ {c}, l \in wanted : \A m \in sys[d].locks : ~ Conflict(l, m)
NamedTwice(list) == \E i, j \in DOMAIN list : i # j /\ list[i][1] = list[j][1]

\* LOCK TABLES commits, gives back all locks and waits for the new ones; it
\* refuses a list with a table named twice.
LockTables(s) ==
    LET given == [Committed(s) EXCEPT !.locks = {}]
    IN IF NamedTwice(s.lockTablesQuery) THEN Failed(given)
       ELSE [given EXCEPT !.wants = ToSet(s.lockTablesQuery)]

Granted(c) ==
    /\ ~ Free(c) /\ Available(c, sys[c].wants)
    /\ Changed(c, [sys[c] EXCEPT !.locks = @ \cup sys[c].wants, !.asked = @ \cup sys[c].wants,
                                 !.wants = {}])
\* The wait is given up, or the server refuses for another reason.
NotGranted(c) == ~ Free(c) /\ Changed(c, Failed([sys[c] EXCEPT !.wants = {}]))
-----------------------------------------------------------------------------
(* The driver. *)

BeginTransaction(c, fails) ==
    /\ Free(c) /\ sys[c].transactionActive < MaxNesting
    /\ fails => sys[c].transactionActive = 0
    /\ Changed(c, IF fails THEN sys[c]
                  ELSE [sys[c] EXCEPT !.transactionActive = @ + 1, !.autocommit = FALSE])

\* Mutant: only the last table is sent.
LockTable_One(s, l) == LockTables([s EXCEPT !.lockTablesQuery = <<l>>])

\* The list is longer also when the server refuses it.
LockTable(s, l) == LockTables([s EXCEPT !.lockTablesQuery = Append(@, l)])
LockTableOf(c, l) ==
    /\ Free(c) /\ Len(sys[c].lockTablesQuery) < MaxLocks
    /\ Changed(c, LockTable(sys[c], l))

\* Commit or roll back, unlock, switch autocommit on: the call that fails is the
\* last one.  A rollback undoes the work, which is not dirty any more either.
Unlocked(s) == [s EXCEPT !.locks = {}, !.lockTablesQuery = << >>]
EndOutermost(s, failing) ==
    LET down == [s EXCEPT !.transactionActive = IF @ = 0 THEN 0 ELSE @ - 1]
        locked == s.lockTablesQuery # << >>
        ended == IF locked THEN Unlocked(Committed(down)) ELSE Committed(down)
    IN CASE failing = "end" -> Failed(down)
         [] failing = "unlock" /\ locked -> Failed(Committed(down))
         [] failing = "autocommit" -> Failed([ended EXCEPT !.asked = {}])
         [] OTHER -> [ended EXCEPT !.autocommit = TRUE, !.asked = {}, !.sound = TRUE]

\* commitTransaction and rollbackTransaction
EndTransaction(c, failing) ==
    /\ Free(c)
    /\ Changed(c, IF sys[c].transactionActive <= 1 THEN EndOutermost(sys[c], failing)
                  ELSE [sys[c] EXCEPT !.transactionActive = @ - 1])

Execute(c) ==
    /\ Free(c) /\ ~ sys[c].autocommit
    /\ Changed(c, [sys[c] EXCEPT !.dirty = TRUE, !.guarded = sys[c].locks])

\* ~Connection: the server drops what the session had.
Close(c) == Free(c) /\ Changed(c, Fresh)

Next ==
    \E c \in Sessions :
      \/ \E fails \in BOOLEAN : BeginTransaction(c, fails)
      \/ \E t \in Tables, exclusive \in BOOLEAN : LockTableOf(c, Lock(t, exclusive))
      \/ \E failing \in {"none", "end", "unlock", "autocommit"} : EndTransaction(c, failing)
      \/ Execute(c)
      \/ Close(c)
      \/ Granted(c)
      \/ NotGranted(c)
-----------------------------------------------------------------------------
(* What the composition says of this part. *)

\* Without a failure a session has exactly the locks that it asked for since the
\* last end of a transaction, and none after it.  Whatever fails, the driver
\* knows of every lock, the locks under which work was done are there until the
\* work is committed or undone, and no session has locks while it waits.
TablesLocked ==
    \A c \in Sessions :
      LET s == sys[c]
      IN /\ (s.sound /\ Free(c)) => s.locks = s.asked
         /\ s.locks \subseteq ToSet(s.lockTablesQuery)
         /\ s.dirty => s.guarded \subseteq s.locks
         /\ ~ Free(c) => s.locks = {}
=============================================================================
