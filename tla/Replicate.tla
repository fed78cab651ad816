------------------------------- MODULE Replicate -------------------------------
(***************************************************************************)
(* The replication driver: every program connects to the same databases    *)
(* and executes each modifying statement on all of them, one after the     *)
(* other, inside a transaction on each.  A step is one call of a database's *)
(* driver; the loops over the connections, the Transaction object that     *)
(* guards execute() and what it does when a call throws are the program's. *)
(* A database makes a transaction that modifies data wait for another one  *)
(* that did and has not ended.  Sessions are not lost here.                *)
(***************************************************************************)
EXTENDS DriverTxn, Sequences, SequencesExt

CONSTANTS
    Client,     \* programs, each with one replicate::Connection
    NoClient,   \* nobody's transaction has modified the database
    Backend,    \* the databases; a number for a url, in the order of the urls
    UrlList,    \* the databases as each client lists them
    Work,       \* modifying statements, each executed at most once
    NoWork,     \* no statement is being executed
    Immediates, \* which databases may lock when a transaction begins (sqlite)
    MaxTxn,     \* bound: the transactions a program begins itself
    Faults      \* the kinds of call that can throw, outside (FALSE) and inside
                \* (TRUE) of such a transaction

ASSUME NoAssumption == NoClient \notin Client /\ NoWork \notin Work
ASSUME MaxTxnAssumption == MaxTxn \in Nat
ASSUME FaultsAssumption ==
    Faults \in [BOOLEAN -> SUBSET {"begin", "statement", "commit", "rollback"}]
ASSUME BackendAssumption == Backend \subseteq Int /\ Backend # {}
ASSUME ImmediatesAssumption == Immediates \subseteq SUBSET Backend
ASSUME UrlListAssumption ==
    /\ UrlList \in [Client -> Seq(Backend)]
    /\ \A cl \in Client : Range(UrlList[cl]) = Backend /\ IsInjective(UrlList[cl])

VARIABLES
    immediate,  \* the databases that lock when a transaction begins
    pc,         \* the loop each client is in
    pos,        \* the position of that loop in connections
    stmt,       \* the statement execute() was called with, or NoWork
    inTxn,      \* the client is in a transaction it began itself
    sess,       \* the driver session of each client at each database
    pend,       \* what each session has modified since its transaction began
    log,        \* the committed statements of each database
    lock,       \* whose transaction has modified the database
    unused,     \* statements not executed yet
    threw,      \* history: statements whose execute() threw
    returned,   \* history: statements whose execute() returned, if it was
                \* not called inside a transaction of the client's own
    txns        \* how many transactions each client began itself

vars == <<immediate, pc, pos, stmt, inTxn, sess, pend, log, lock, unused, threw,
          returned, txns>>


(* Mutant: the urls are not sorted.                                         *)
Connections_AsListed(cl) == UrlList[cl]

(* The constructor sorts the urls and connects in that order.               *)
Increasing(s) == \A i, j \in DOMAIN s : i < j => s[i] < s[j]
Sorted == [cl \in Client |->
    CHOOSE s \in [DOMAIN UrlList[cl] -> Range(UrlList[cl])] : Increasing(s)]
Connections(cl) == Sorted[cl]

At(cl)    == Connections(cl)[pos[cl]]
AtEnd(cl) == pos[cl] = Len(Connections(cl))

Init ==
    /\ immediate \in Immediates
    /\ pc = [cl \in Client |-> "idle"]
    /\ pos = [cl \in Client |-> 1]
    /\ stmt = [cl \in Client |-> NoWork]
    /\ inTxn = [cl \in Client |-> FALSE]
    /\ sess = [cl \in Client |-> [b \in Backend |-> Fresh]]
    /\ pend = [cl \in Client |-> [b \in Backend |-> <<>>]]
    /\ log = [b \in Backend |-> <<>>]
    /\ lock = [b \in Backend |-> NoClient]
    /\ unused = Work
    /\ threw = {}
    /\ returned = {}
    /\ txns = [cl \in Client |-> 0]

-------------------------------------------------------------------------------
(* Loops over the connections                                               *)

StartLoop(cl, loop) ==
    /\ pc' = [pc EXCEPT ![cl] = loop]
    /\ pos' = [pos EXCEPT ![cl] = 1]

Advance(cl) ==
    /\ pos' = [pos EXCEPT ![cl] = @ + 1]
    /\ UNCHANGED <<pc, stmt, inTxn, threw, returned>>

(* The client's call ends and leaves it in a transaction of its own or not. *)
Finish(cl, txn, thrown) ==
    /\ StartLoop(cl, "idle")
    /\ stmt' = [stmt EXCEPT ![cl] = NoWork]
    /\ inTxn' = [inTxn EXCEPT ![cl] = txn]
    /\ threw' = IF thrown THEN threw \cup ({stmt[cl]} \ {NoWork}) ELSE threw
    /\ returned' = IF thrown \/ inTxn[cl] THEN returned
                   ELSE returned \cup ({stmt[cl]} \ {NoWork})

MayThrow(cl, call) == call \in Faults[inTxn[cl]]

(* A modification waits for another client's transaction.                   *)
LockFree(cl, b) == lock[b] \in {cl, NoClient}

-------------------------------------------------------------------------------
(* What a client calls                                                      *)

(* execute() of the connection or of a prepared statement: the Transaction  *)
(* object's constructor begins on every connection.                         *)
Execute(cl, w) ==
    /\ pc[cl] = "idle"
    /\ w \in unused
    /\ StartLoop(cl, "begin")
    /\ stmt' = [stmt EXCEPT ![cl] = w]
    /\ unused' = unused \ {w}
    /\ UNCHANGED <<immediate, inTxn, sess, pend, log, lock, threw, returned, txns>>

(* beginTransaction, commitTransaction and rollbackTransaction, called by a *)
(* Transaction object of the program.                                       *)
ExplicitBegin(cl) ==
    /\ pc[cl] = "idle"
    /\ ~inTxn[cl]
    /\ txns[cl] < MaxTxn
    /\ txns' = [txns EXCEPT ![cl] = @ + 1]
    /\ StartLoop(cl, "begin")
    /\ UNCHANGED <<immediate, stmt, inTxn, sess, pend, log, lock, unused, threw, returned>>

ExplicitEnd(cl) ==
    /\ pc[cl] = "idle"
    /\ inTxn[cl]
    /\ \E loop \in {"commit", "rollback"} : StartLoop(cl, loop)
    /\ UNCHANGED <<immediate, stmt, inTxn, sess, pend, log, lock, unused, threw,
                   returned, txns>>

-------------------------------------------------------------------------------
(* One turn of the loop of beginTransaction.  When it throws, the           *)
(* Transaction's constructor does not finish and no destructor runs.        *)
BeginOne(cl) ==
    LET b == At(cl) IN
    /\ pc[cl] = "begin"
    /\ \/ /\ b \in immediate => LockFree(cl, b)
          /\ sess' = [sess EXCEPT ![cl][b] = Begun(@, TRUE)]
          /\ lock' = IF b \in immediate THEN [lock EXCEPT ![b] = cl] ELSE lock
          /\ IF ~AtEnd(cl)
             THEN Advance(cl)
             ELSE IF stmt[cl] = NoWork
                  THEN Finish(cl, TRUE, FALSE)
                  ELSE StartLoop(cl, "exec") /\ UNCHANGED <<stmt, inTxn, threw, returned>>
       \/ /\ MayThrow(cl, "begin")
          /\ Finish(cl, inTxn[cl], TRUE)
          /\ UNCHANGED <<sess, lock>>
    /\ UNCHANGED <<immediate, pend, log, unused, txns>>

(* Mutants: an error is caught and forgotten; execute has no Transaction    *)
(* object, and calls beginTransaction and commitTransaction itself.         *)
ExecOne_ErrorForgotten(cl) ==
    LET b == At(cl) IN
    /\ pc[cl] = "exec"
    /\ \/ /\ LockFree(cl, b)
          /\ lock' = [lock EXCEPT ![b] = cl]
          /\ pend' = [pend EXCEPT ![cl][b] = Append(@, stmt[cl])]
       \/ MayThrow(cl, "statement") /\ UNCHANGED <<lock, pend>>
    /\ IF ~AtEnd(cl)
       THEN Advance(cl)
       ELSE StartLoop(cl, "commit") /\ UNCHANGED <<stmt, inTxn, threw, returned>>
    /\ UNCHANGED <<immediate, sess, log, unused, txns>>

ExecOne_NoTransaction(cl) ==
    LET b == At(cl) IN
    /\ pc[cl] = "exec"
    /\ \/ /\ LockFree(cl, b)
          /\ lock' = [lock EXCEPT ![b] = cl]
          /\ pend' = [pend EXCEPT ![cl][b] = Append(@, stmt[cl])]
          /\ IF ~AtEnd(cl)
             THEN Advance(cl)
             ELSE StartLoop(cl, "commit") /\ UNCHANGED <<stmt, inTxn, threw, returned>>
       \/ /\ MayThrow(cl, "statement")
          /\ Finish(cl, inTxn[cl], TRUE)
          /\ UNCHANGED <<lock, pend>>
    /\ UNCHANGED <<immediate, sess, log, unused, txns>>

(* One turn of the loop of execute; the statement waits for the database's  *)
(* lock.  When it throws, the destructor of the Transaction rolls back.     *)
ExecOne(cl) ==
    LET b == At(cl) IN
    /\ pc[cl] = "exec"
    /\ \/ /\ LockFree(cl, b)
          /\ lock' = [lock EXCEPT ![b] = cl]
          /\ pend' = [pend EXCEPT ![cl][b] = Append(@, stmt[cl])]
          /\ IF ~AtEnd(cl)
             THEN Advance(cl)
             ELSE StartLoop(cl, "commit") /\ UNCHANGED <<stmt, inTxn, threw, returned>>
       \/ /\ MayThrow(cl, "statement")
          /\ StartLoop(cl, "rollback")
          /\ UNCHANGED <<lock, pend, stmt, inTxn, threw, returned>>
    /\ UNCHANGED <<immediate, sess, log, unused, txns>>

(* A database's session ends its transaction, or only counts.               *)
EndAt(cl, b, ok, pending) ==
    /\ EndMay(sess[cl][b], ok, pending)
    /\ sess' = [sess EXCEPT ![cl][b] = Ended(@, pending)]
    /\ pend' = IF pending THEN pend ELSE [pend EXCEPT ![cl][b] = <<>>]
    /\ lock' = IF pending \/ lock[b] # cl THEN lock ELSE [lock EXCEPT ![b] = NoClient]

(* One turn of the loop of commitTransaction.  When it throws, the          *)
(* Transaction is still active and its destructor rolls back.               *)
CommitOne(cl) ==
    LET b == At(cl) IN
    /\ pc[cl] = "commit"
    /\ \E pending \in BOOLEAN :
        \/ /\ EndAt(cl, b, TRUE, pending)
           /\ log' = IF pending THEN log ELSE [log EXCEPT ![b] = @ \o pend[cl][b]]
           /\ IF ~AtEnd(cl)
              THEN Advance(cl)
              ELSE Finish(cl, inTxn[cl] /\ stmt[cl] # NoWork, FALSE)
        \/ /\ MayThrow(cl, "commit")
           /\ EndAt(cl, b, FALSE, pending)
           /\ StartLoop(cl, "rollback")
           /\ UNCHANGED <<log, stmt, inTxn, threw, returned>>
    /\ UNCHANGED <<immediate, unused, txns>>

(* Mutant: the loop was copied from commitTransaction.                      *)
RollbackOne_Commits(cl) ==
    LET b == At(cl)
        Done == Finish(cl, inTxn[cl] /\ stmt[cl] # NoWork, TRUE)
    IN
    /\ pc[cl] = "rollback"
    /\ \E pending \in BOOLEAN :
        /\ EndAt(cl, b, TRUE, pending)
        /\ log' = IF pending THEN log ELSE [log EXCEPT ![b] = @ \o pend[cl][b]]
        /\ IF ~AtEnd(cl) THEN Advance(cl) ELSE Done
    /\ UNCHANGED <<immediate, unused, txns>>

(* One turn of the loop of rollbackTransaction.  When it throws the loop    *)
(* ends, and the destructor swallows the exception.                         *)
RollbackOne(cl) ==
    LET b == At(cl)
        Done == Finish(cl, inTxn[cl] /\ stmt[cl] # NoWork, TRUE)
    IN
    /\ pc[cl] = "rollback"
    /\ \E pending \in BOOLEAN :
        \/ /\ EndAt(cl, b, TRUE, pending)
           /\ IF ~AtEnd(cl) THEN Advance(cl) ELSE Done
        \/ /\ MayThrow(cl, "rollback")
           /\ EndAt(cl, b, FALSE, pending)
           /\ Done
    /\ UNCHANGED <<immediate, log, unused, txns>>

-------------------------------------------------------------------------------
Running(cl) == BeginOne(cl) \/ ExecOne(cl) \/ CommitOne(cl) \/ RollbackOne(cl)

Next ==
    \E cl \in Client :
        \/ \E w \in Work : Execute(cl, w)
        \/ ExplicitBegin(cl) \/ ExplicitEnd(cl)
        \/ Running(cl)

Spec == Init /\ [][Next]_vars

(* A call of a database's driver returns unless it waits for a lock, and a  *)
(* program ends the transactions it began: Transaction objects are local    *)
(* variables.                                                               *)
FairSpec ==
    /\ Spec
    /\ \A cl \in Client : WF_vars(Running(cl)) /\ WF_vars(ExplicitEnd(cl))

-------------------------------------------------------------------------------
(* Properties                                                               *)

(* "If the statement fails on one connection, all transactions are rolled   *)
(* back to ensure consistency" (doc/tntdb.markdown): no database keeps a    *)
(* statement whose execute() threw.                                         *)
FailedNowhere ==
    \A b \in Backend : Range(log[b]) \cap threw = {}

(* A statement whose execute() returned outside of a transaction of the     *)
(* program is committed on every database.                                  *)
ReturnedEverywhere ==
    \A b \in Backend : returned \subseteq Range(log[b])

(* Statements of concurrent programs take effect in the same order on every *)
(* database: a later one in the order of the urls lags behind an earlier    *)
(* one, and never differs from it.                                          *)
ReplicasInStep ==
    \A a, b \in Backend : a < b => IsPrefix(log[b], log[a])

(* "The constructor starts a transaction and the destructor rolls the       *)
(* transaction back": when no client is in a call or a transaction, no      *)
(* database has an open transaction or a lock, and all hold the same data.  *)
QuietMeansSettled ==
    (\A cl \in Client : pc[cl] = "idle" /\ ~inTxn[cl]) =>
        /\ \A cl \in Client, b \in Backend : sess[cl][b].depth = 0 /\ ~sess[cl][b].open
        /\ \A b \in Backend : lock[b] = NoClient
        /\ \A a, b \in Backend : log[a] = log[b]

(* "the connection urls are ordered alphabetically to prevent deadlocks     *)
(* when different applications use the replication driver with different    *)
(* ordering of database urls": no clients wait for each other in a circle.  *)
Waits(cl) ==
    /\ \/ pc[cl] = "exec"
       \/ pc[cl] = "begin" /\ At(cl) \in immediate
    /\ ~LockFree(cl, At(cl))
NoDeadlock ==
    \A S \in (SUBSET Client) \ {{}} :
        \E cl \in S : ~(Waits(cl) /\ lock[At(cl)] \in S)

(* Every call returns or throws, however many programs contend for the      *)
(* databases, as long as each of them ends its transactions.                *)
StatementEnds == \A cl \in Client : (pc[cl] # "idle") ~> (pc[cl] = "idle")
===============================================================================
