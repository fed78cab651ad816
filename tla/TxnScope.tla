------------------------------- MODULE TxnScope -------------------------------
(***************************************************************************)
(* tntdb::Transaction, the scope guard, on one driver connection.          *)
(* Transaction objects are local variables, so they are created and        *)
(* destroyed in stack order and the innermost one is used; each keeps the  *)
(* flag _active and asks the driver's counting session (DriverTxn).  The   *)
(* data are pieces of work, each executed at most once, which the server   *)
(* holds pending or has made durable.                                      *)
(***************************************************************************)
EXTENDS DriverTxn, Sequences, SequencesExt

CONSTANTS
    Work,       \* pieces of work the program executes
    MaxNest     \* bound: Transaction objects alive at the same time

ASSUME MaxNestAssumption == MaxNest \in Nat

VARIABLES
    scopes,         \* the Transaction objects, outermost first
    sess,           \* the driver's session
    unused,         \* work not executed yet
    pending,        \* work the server would lose now
    durable,        \* work the server has made permanent
    undone,         \* history: work of outermost scopes rolled back at first try
    committed,      \* history: work of outermost scopes committed at first try
    rollbackFailed  \* history: a rollback of a destructor threw

vars == <<scopes, sess, unused, pending, durable, undone, committed, rollbackFailed>>

(* _active, and what the properties need to know of a scope: whether its    *)
(* end was tried since begin, and the work executed before.  When that end  *)
(* throws, the scope stays active although the server may have ended the    *)
(* transaction: what is executed after it is no longer the scope's work.    *)
Scope == [active: BOOLEAN, tried: BOOLEAN, work: SUBSET Work]

Begin0   == [active |-> TRUE,  tried |-> FALSE, work |-> {}]
Inactive == [active |-> FALSE, tried |-> FALSE, work |-> {}]

TypeOK ==
    /\ scopes \in Seq(Scope)
    /\ Len(scopes) <= MaxNest
    /\ sess \in Session
    /\ unused \subseteq Work
    /\ pending \subseteq Work \ unused
    /\ durable \subseteq Work \ unused
    /\ undone \subseteq Work
    /\ committed \subseteq Work
    /\ rollbackFailed \in BOOLEAN

Init ==
    /\ scopes = <<>>
    /\ sess = Fresh
    /\ unused = Work
    /\ pending = {}
    /\ durable = {}
    /\ undone = {}
    /\ committed = {}
    /\ rollbackFailed = FALSE

Top == Last(scopes)
SetTop(s) == scopes' = [scopes EXCEPT ![Len(scopes)] = s]

-------------------------------------------------------------------------------
(* The driver calls a member makes, and what they do to the data            *)

DriverBegin(ok) ==
    /\ BeginMay(sess, ok)
    /\ sess' = Begun(sess, ok)
    /\ UNCHANGED <<pending, durable>>

(* Mutant: the answer of the server to the commit is not checked.           *)
DriverCommit_Unchecked(ok) ==
    \E pend, answer \in BOOLEAN :
        /\ ok
        /\ EndMay(sess, answer, pend)
        /\ sess' = Ended(sess, pend)
        /\ pending' = IF CountDown(sess) > 0 \/ pend THEN pending ELSE {}
        /\ durable' = IF CountDown(sess) = 0 /\ answer THEN durable \cup pending ELSE durable

(* A call that the counter keeps from the server changes no data.  One that *)
(* the server fails leaves the work pending, or loses it, or - a commit     *)
(* whose answer is lost - has made it durable.                              *)
DriverCommit(ok) ==
    \E pend \in BOOLEAN :
        /\ EndMay(sess, ok, pend)
        /\ sess' = Ended(sess, pend)
        /\ IF CountDown(sess) > 0 \/ pend
           THEN UNCHANGED <<pending, durable>>
           ELSE /\ pending' = {}
                /\ \/ durable' = durable \cup pending
                   \/ ~ok /\ durable' = durable

(* Mutant: the counter goes down, but the server is not told.               *)
DriverRollback_NotTold(ok) ==
    /\ ok
    /\ sess' = [sess EXCEPT !.depth = CountDown(sess)]
    /\ UNCHANGED <<pending, durable>>

DriverRollback(ok) ==
    \E pend \in BOOLEAN :
        /\ EndMay(sess, ok, pend)
        /\ sess' = Ended(sess, pend)
        /\ pending' = IF CountDown(sess) > 0 \/ pend THEN pending ELSE {}
        /\ UNCHANGED durable

(* Only the outermost active scope decides what becomes of its work; the    *)
(* ends of those within it are counted.                                     *)
Outermost == \A i \in DOMAIN scopes : i < Len(scopes) => ~scopes[i].active
Abandoned == IF Outermost /\ ~Top.tried THEN Top.work ELSE {}

-------------------------------------------------------------------------------
(* The constructor: it begins, and throws when that fails; or it does not   *)
(* begin (starttransaction = false).                                        *)
Construct ==
    /\ Len(scopes) < MaxNest
    /\ \/ \E ok \in BOOLEAN :
            /\ DriverBegin(ok)
            /\ scopes' = IF ok THEN Append(scopes, Begin0) ELSE scopes
       \/ /\ scopes' = Append(scopes, Inactive)
          /\ UNCHANGED <<sess, pending, durable>>
    /\ UNCHANGED <<unused, undone, committed, rollbackFailed>>

(* begin() of a scope that is not active.                                   *)
Begin ==
    /\ scopes # <<>>
    /\ ~Top.active
    /\ \E ok \in BOOLEAN :
        /\ DriverBegin(ok)
        /\ SetTop(IF ok THEN Begin0 ELSE Top)
    /\ UNCHANGED <<unused, undone, committed, rollbackFailed>>

(* begin() of an active scope rolls back first; when that throws the scope  *)
(* stays active, when the begin that follows throws it does not.            *)
BeginAgain ==
    /\ scopes # <<>>
    /\ Top.active
    /\ \/ /\ DriverRollback(FALSE)
          /\ SetTop([Top EXCEPT !.tried = TRUE])
          /\ UNCHANGED undone
       \/ \E ok \in BOOLEAN :
            LET between == Ended(sess, sess.open /\ CountDown(sess) > 0)
            IN  /\ EndMay(sess, TRUE, between.open)
                /\ BeginMay(between, ok)
                /\ sess' = Begun(between, ok)
                /\ pending' = IF CountDown(sess) > 0 THEN pending ELSE {}
                /\ SetTop(IF ok THEN Begin0 ELSE Inactive)
                /\ undone' = undone \cup Abandoned
                /\ UNCHANGED durable
    /\ UNCHANGED <<unused, committed, rollbackFailed>>

(* commit(): a scope that is not active only logs a warning.                *)
Commit ==
    /\ scopes # <<>>
    /\ Top.active
    /\ \E ok \in BOOLEAN :
        /\ DriverCommit(ok)
        /\ SetTop([Top EXCEPT !.active = ~ok, !.tried = TRUE])
        /\ committed' = IF ok /\ Outermost /\ ~Top.tried
                        THEN committed \cup Top.work ELSE committed
    /\ UNCHANGED <<unused, undone, rollbackFailed>>

Rollback ==
    /\ scopes # <<>>
    /\ Top.active
    /\ \E ok \in BOOLEAN :
        /\ DriverRollback(ok)
        /\ SetTop([Top EXCEPT !.active = ~ok, !.tried = TRUE])
        /\ undone' = IF ok THEN undone \cup Abandoned ELSE undone
    /\ UNCHANGED <<unused, committed, rollbackFailed>>

(* Mutant: the destructor does not roll back.                               *)
Destruct_NoRollback ==
    /\ scopes # <<>>
    /\ scopes' = Front(scopes)
    /\ undone' = IF Top.active THEN undone \cup Abandoned ELSE undone
    /\ UNCHANGED <<sess, unused, pending, durable, committed, rollbackFailed>>

(* The destructor rolls back an active scope and swallows the exception.    *)
Destruct ==
    /\ scopes # <<>>
    /\ scopes' = Front(scopes)
    /\ \/ /\ Top.active
          /\ \E ok \in BOOLEAN :
                /\ DriverRollback(ok)
                /\ undone' = IF ok THEN undone \cup Abandoned ELSE undone
                /\ rollbackFailed' = (rollbackFailed \/ ~ok)
       \/ /\ ~Top.active
          /\ UNCHANGED <<sess, pending, durable, undone, rollbackFailed>>
    /\ UNCHANGED <<unused, committed>>

(* The program executes w on the connection: within a transaction it stays  *)
(* pending, else the server makes it durable at once.                       *)
Execute(w) ==
    /\ w \in unused
    /\ sess.up
    /\ unused' = unused \ {w}
    /\ sess' = Executed(sess)
    /\ IF sess'.open
       THEN pending' = pending \cup {w} /\ UNCHANGED durable
       ELSE durable' = durable \cup {w} /\ UNCHANGED pending
    /\ scopes' = [i \in DOMAIN scopes |->
                    IF scopes[i].active /\ ~scopes[i].tried
                    THEN [scopes[i] EXCEPT !.work = @ \cup {w}]
                    ELSE scopes[i]]
    /\ UNCHANGED <<undone, committed, rollbackFailed>>

(* The server ends the session. *)
ServerLoss ==
    /\ sess.up
    /\ sess' = Lost(sess)
    /\ pending' = {}
    /\ UNCHANGED <<scopes, unused, durable, undone, committed, rollbackFailed>>

Next ==
    \/ Construct \/ Begin \/ BeginAgain \/ Commit \/ Rollback \/ Destruct
    \/ ServerLoss
    \/ \E w \in Work : Execute(w)

Spec == Init /\ [][Next]_vars

-------------------------------------------------------------------------------
(* Properties                                                               *)

(* "This guarantees, that the transaction is never left open (except when   *)
(* the rollback fails)" (doc/tntdb.markdown): when the last scope is gone   *)
(* the session is out of every transaction, on the server and in the        *)
(* driver's counter, whatever commits failed and however scopes nested.     *)
NeverLeftOpen ==
    scopes = <<>> /\ ~rollbackFailed => ~sess.open /\ sess.depth = 0

(* The work of an active scope is not durable before its end is asked for:  *)
(* a commit of an inner scope does not reach the server.                    *)
ActiveNotDurable ==
    \A i \in DOMAIN scopes :
        scopes[i].active /\ ~scopes[i].tried => scopes[i].work \cap durable = {}

(* "The destructor rolls back the transaction if it isn't explicitely       *)
(* commited or rolled back" (transaction.h): the work of an outermost scope *)
(* that was rolled back, with the scopes nested in it, never becomes        *)
(* durable, whatever is begun, committed or lost on the connection later.   *)
UndoneNeverDurable == undone \cap durable = {}

(* When the first commit of an outermost scope returns, its work is         *)
(* durable, also the work executed inside scopes nested in it, and also     *)
(* when the server was lost or a call failed before.                        *)
CommittedIsDurable == committed \subseteq durable
===============================================================================
