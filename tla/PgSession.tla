------------------------------ MODULE PgSession ------------------------------
(***************************************************************************)
(* One connection of the postgresql driver with its prepared statements    *)
(* and cursors (src/postgresql).  Postgresql refuses every command once a  *)
(* command failed inside a transaction, until the transaction ends; so a   *)
(* destroyed Statement is deallocated at the end of the transaction, while *)
(* a destroyed Cursor is closed at once.                                   *)
(*                                                                         *)
(* A call of a member is one step, with every command it sends; a command  *)
(* the server can execute may fail as well.                                *)
(***************************************************************************)
EXTENDS Integers

CONSTANTS
    Stmt,       \* Statement objects of the program
    LastVal,    \* the Statement object the connection keeps for lastInsertId
    Cursor,     \* Cursor objects; the name at the server is the object's address
    NoStmt,     \* the absence of a Cursor object
    Work,       \* modifications, each executed at most once
    Scoped,     \* TRUE: no cursor lives across the begin or end of a transaction
    MaxNumber,  \* bound: stmtCounter
    MaxDepth    \* bound: transactionActive

ASSUME ConstAssumption ==
    /\ LastVal \notin Stmt
    /\ NoStmt \notin Stmt
    /\ Scoped \in BOOLEAN
    /\ MaxNumber \in Nat
    /\ MaxDepth \in Nat

VARIABLES
    transactionActive,  \* Connection::transactionActive
    stmtCounter,        \* Connection::stmtCounter
    stmtsToDeallocate,  \* Connection::stmtsToDeallocate, the order left out
    objects,            \* the Statement objects that exist
    stmtName,           \* number of a Statement's name at the server, 0: not prepared
    cursorOf,           \* the Statement of each Cursor object, or NoStmt
    srv,                \* the session at the server
    durable,            \* work the server has committed
    mine,               \* history: work of the current transaction
    clean,              \* history: no call of the current transaction threw
    told,               \* history: work whose commit returned, in clean transactions
    endThrew            \* history: the last end of a transaction threw

connVars == <<transactionActive, stmtCounter, stmtsToDeallocate>>
objVars == <<objects, stmtName, cursorOf>>
history == <<mine, clean, told, endThrew>>
vars == <<connVars, objVars, srv, durable, history>>

Object == Stmt \cup {LastVal}
Number == 1 .. MaxNumber

(* What one command modifies: nothing, or one piece of work. *)
Modification == {{}} \cup {{w} : w \in Work}

Owned == {stmtName[o] : o \in objects} \ {0}
LiveCursors == {c \in Cursor : cursorOf[c] # NoStmt}

-------------------------------------------------------------------------------
(* The session at the server                                                *)

Server ==
    [up:       BOOLEAN,
     txn:      {"none", "active", "failed"},
     prepared: SUBSET Number,
     held:     SUBSET Cursor,   \* cursors that outlive the transaction
     declared: SUBSET Cursor,   \* cursors of the current transaction
     pending:  SUBSET Work]

NewServer ==
    [up |-> TRUE, txn |-> "none", prepared |-> {}, held |-> {}, declared |-> {}, pending |-> {}]

Open(s) == s.held \cup s.declared

(* A failed transaction refuses every command but its end. *)
Accepts(s) == s.up /\ s.txn # "failed"

(* An error inside of a transaction makes it a failed one. *)
Refused(s) == IF s.txn = "active" THEN [s EXCEPT !.txn = "failed"] ELSE s

Prepared(s, n) == [s EXCEPT !.prepared = @ \cup {n}]

(* A modification stays pending in a transaction. *)
Modified(s, w) == IF s.txn = "none" THEN s ELSE [s EXCEPT !.pending = @ \cup w]

(* DECLARE ... WITH HOLD: the cursor is of the transaction until it commits. *)
Declared(s, c) ==
    IF s.txn = "none" THEN [s EXCEPT !.held = @ \cup {c}]
                      ELSE [s EXCEPT !.declared = @ \cup {c}]

(* The end of a transaction; a commit of a failed one is a rollback. *)
EndedAs(s, committed) ==
    [s EXCEPT !.txn = "none", !.pending = {}, !.declared = {},
              !.held = IF committed THEN @ \cup s.declared ELSE @]

(* DEALLOCATE and CLOSE; their errors are logged only. *)
Deallocated(s, names) ==
    IF Accepts(s) THEN [s EXCEPT !.prepared = @ \ names] ELSE s

Closed(s, c) ==
    IF Accepts(s) /\ c \in Open(s)
    THEN [s EXCEPT !.held = @ \ {c}, !.declared = @ \ {c}]
    ELSE Refused(s)

-------------------------------------------------------------------------------
TypeOK ==
    /\ transactionActive \in 0 .. MaxDepth
    /\ stmtCounter \in 0 .. MaxNumber
    /\ stmtsToDeallocate \subseteq Number
    /\ objects \subseteq Object
    /\ stmtName \in [Object -> 0 .. MaxNumber]
    /\ cursorOf \in [Cursor -> Stmt \cup {NoStmt}]
    /\ srv \in Server
    /\ durable \subseteq Work
    /\ mine \subseteq Work
    /\ clean \in BOOLEAN
    /\ told \subseteq Work
    /\ endThrew \in BOOLEAN

Init ==
    /\ transactionActive = 0
    /\ stmtCounter = 0
    /\ stmtsToDeallocate = {}
    /\ objects = {}
    /\ stmtName = [o \in Object |-> 0]
    /\ cursorOf = [c \in Cursor |-> NoStmt]
    /\ srv = NewServer
    /\ durable = {}
    /\ mine = {}
    /\ clean = TRUE
    /\ told = {}
    /\ endThrew = FALSE

(* What a call that throws means for the transaction it is part of. *)
Throws(threw) == clean' = (clean /\ ~(threw /\ transactionActive > 0))

-------------------------------------------------------------------------------
(* Transactions                                                             *)

(* Mutant: the counter goes up before the server is asked. *)
BeginTransaction_CountedFirst ==
    /\ transactionActive = 0
    /\ srv.up
    /\ transactionActive' = 1
    /\ UNCHANGED <<stmtCounter, stmtsToDeallocate, objVars, srv, durable, history>>

(* beginTransaction: the outermost one sends BEGIN. *)
BeginTransaction ==
    /\ transactionActive < MaxDepth
    /\ Scoped => LiveCursors = {} \/ transactionActive > 0
    /\ IF transactionActive > 0
       THEN /\ transactionActive' = transactionActive + 1
            /\ UNCHANGED <<srv, mine, clean>>
       ELSE \/ /\ srv.up
               /\ transactionActive' = 1
               /\ srv' = [srv EXCEPT !.txn = "active"]
               /\ mine' = {}
               /\ clean' = TRUE
            \/ UNCHANGED <<transactionActive, srv, mine, clean>>
    /\ UNCHANGED <<stmtCounter, stmtsToDeallocate, objVars, durable, told, endThrew>>

(* Mutants: the counter goes below zero; the deferred deallocation is lost. *)
CountedDown_Unguarded == transactionActive - 1
EndReturned_NotDrained(s) ==
    /\ srv' = s
    /\ UNCHANGED stmtsToDeallocate
    /\ endThrew' = FALSE

(* "transactionActive == 0 || --transactionActive == 0" *)
CountedDown == IF transactionActive = 0 THEN 0 ELSE transactionActive - 1

(* After COMMIT or ROLLBACK returned: deallocateStatements. *)
EndReturned(s) ==
    /\ srv' = Deallocated(s, stmtsToDeallocate)
    /\ stmtsToDeallocate' = {}
    /\ endThrew' = FALSE

EndThrew(s) ==
    /\ srv' = s
    /\ UNCHANGED stmtsToDeallocate
    /\ endThrew' = TRUE

(* An inner commit or rollback only counts. *)
EndInner ==
    /\ transactionActive > 1
    /\ transactionActive' = CountedDown
    /\ UNCHANGED <<stmtCounter, stmtsToDeallocate, objVars, srv, durable, history>>

EndOutermost ==
    /\ transactionActive <= 1
    /\ Scoped => LiveCursors = {}
    /\ transactionActive' = CountedDown
    /\ mine' = {}
    /\ clean' = TRUE
    /\ UNCHANGED <<stmtCounter, objVars>>

(* COMMIT returns without an error in a failed transaction too, where the   *)
(* server rolls back.  One that throws has committed when only the answer   *)
(* was lost.                                                                *)
CommitTransaction ==
    \/ EndInner
    \/ /\ EndOutermost
       /\ \/ /\ srv.up
             /\ EndReturned(EndedAs(srv, srv.txn = "active"))
             /\ durable' = IF srv.txn = "active" THEN durable \cup srv.pending ELSE durable
             /\ told' = IF clean THEN told \cup mine ELSE told
          \/ /\ EndThrew(EndedAs(srv, FALSE))
             /\ \/ durable' = durable
                \/ srv.txn = "active" /\ durable' = durable \cup srv.pending
             /\ UNCHANGED told

RollbackTransaction ==
    \/ EndInner
    \/ /\ EndOutermost
       /\ \/ srv.up /\ EndReturned(EndedAs(srv, FALSE))
          \/ EndThrew(EndedAs(srv, FALSE))
       /\ UNCHANGED <<durable, told>>

-------------------------------------------------------------------------------
(* Statements                                                               *)

(* prepare() makes the object only; the server hears of it at first use. *)
Prepare(o) ==
    /\ o \in Stmt \ objects
    /\ objects' = objects \cup {o}
    /\ stmtName' = [stmtName EXCEPT ![o] = 0]
    /\ UNCHANGED <<connVars, cursorOf, srv, durable, history>>

(* execPrepared of o, with doPrepare when it has no name yet.  The new name *)
(* is used up even when PQprepare fails, and set only when it succeeds.     *)
ExecPrepared(o, ok, w) ==
    LET new == stmtName[o] = 0
        n == IF new THEN stmtCounter + 1 ELSE stmtName[o]
        s == IF new THEN Prepared(srv, n) ELSE srv
    IN  /\ n <= MaxNumber
        /\ stmtCounter' = IF new THEN n ELSE stmtCounter
        /\ \/ \* PQprepare fails
              /\ new /\ ~ok
              /\ srv' = Refused(srv)
              /\ UNCHANGED stmtName
           \/ \* PQexecPrepared succeeds or fails
              /\ new => Accepts(srv)
              /\ ok => Accepts(s) /\ n \in s.prepared
              /\ srv' = IF ok THEN Modified(s, w) ELSE Refused(s)
              /\ stmtName' = [stmtName EXCEPT ![o] = n]
        /\ durable' = IF ok /\ srv.txn = "none" THEN durable \cup w ELSE durable

(* Mutant: the status of the result is not looked at. *)
Execute_Unchecked(o, w) ==
    /\ o \in objects \cap Stmt
    /\ w \cap (mine \cup told \cup durable) = {}
    /\ \E ok \in BOOLEAN : ExecPrepared(o, ok, w)
    /\ mine' = IF transactionActive > 0 THEN mine \cup w ELSE mine
    /\ told' = IF transactionActive = 0 THEN told \cup w ELSE told
    /\ Throws(FALSE)
    /\ UNCHANGED <<transactionActive, stmtsToDeallocate, objects, cursorOf, endThrew>>

(* execute, select, selectRow and selectValue; w is what it modifies. *)
Execute(o, w) ==
    /\ o \in objects \cap Stmt
    /\ w \cap (mine \cup told \cup durable) = {}
    /\ \E ok \in BOOLEAN :
        /\ ExecPrepared(o, ok, w)
        /\ mine' = IF ok /\ transactionActive > 0 THEN mine \cup w ELSE mine
        /\ told' = IF ok /\ transactionActive = 0 THEN told \cup w ELSE told
        /\ Throws(~ok)
    /\ UNCHANGED <<transactionActive, stmtsToDeallocate, objects, cursorOf, endThrew>>

(* execute, select, selectRow and selectValue of the connection, without a  *)
(* Statement.                                                               *)
ExecuteQuery(w) ==
    /\ w \cap (mine \cup told \cup durable) = {}
    /\ \E ok \in BOOLEAN :
        /\ ok => Accepts(srv)
        /\ srv' = IF ok THEN Modified(srv, w) ELSE Refused(srv)
        /\ durable' = IF ok /\ srv.txn = "none" THEN durable \cup w ELSE durable
        /\ mine' = IF ok /\ transactionActive > 0 THEN mine \cup w ELSE mine
        /\ told' = IF ok /\ transactionActive = 0 THEN told \cup w ELSE told
        /\ Throws(~ok)
    /\ UNCHANGED <<connVars, objVars, endThrew>>

(* lastInsertId makes its Statement at the first call and keeps it. *)
LastInsertId ==
    /\ objects' = objects \cup {LastVal}
    /\ \E ok \in BOOLEAN : ExecPrepared(LastVal, ok, {}) /\ Throws(~ok)
    /\ UNCHANGED <<transactionActive, stmtsToDeallocate, cursorOf, mine, told, endThrew>>

(* Mutant: the server is told at once, whatever the transaction's state. *)
DeallocateStatement_AtOnce(n, s) ==
    /\ srv' = Deallocated(s, {n})
    /\ UNCHANGED stmtsToDeallocate

(* deallocateStatement, which empties the whole list outside of a           *)
(* transaction.                                                             *)
DeallocateStatement(n, s) ==
    LET names == stmtsToDeallocate \cup {n}
    IN  IF transactionActive = 0
        THEN srv' = Deallocated(s, names) /\ stmtsToDeallocate' = {}
        ELSE srv' = s /\ stmtsToDeallocate' = names

(* ~Statement.  A cursor refers to its Statement without owning it, so      *)
(* programs destroy their cursors first.                                    *)
DestroyStatement(o) ==
    /\ o \in objects \cap Stmt
    /\ \A c \in Cursor : cursorOf[c] # o
    /\ objects' = objects \ {o}
    /\ stmtName' = [stmtName EXCEPT ![o] = 0]
    /\ IF stmtName[o] # 0
       THEN DeallocateStatement(stmtName[o], srv)
       ELSE UNCHANGED <<srv, stmtsToDeallocate>>
    /\ UNCHANGED <<transactionActive, stmtCounter, cursorOf, durable, history>>

(* lockTable prepares, executes and destroys a Statement of its own.  The   *)
(* server locks tables in transactions only.                                *)
LockTable ==
    LET n == stmtCounter + 1
        s == Prepared(srv, n)
    IN  /\ n <= MaxNumber
        /\ stmtCounter' = n
        /\ \/ /\ srv' = Refused(srv)
              /\ UNCHANGED stmtsToDeallocate
              /\ Throws(TRUE)
           \/ /\ Accepts(srv)
              /\ \E ok \in BOOLEAN :
                    /\ ok => srv.txn = "active"
                    /\ DeallocateStatement(n, IF ok THEN s ELSE Refused(s))
                    /\ Throws(~ok)
        /\ UNCHANGED <<transactionActive, objVars, durable, mine, told, endThrew>>

-------------------------------------------------------------------------------
(* Cursors.  The program sees them as iterators: begin() makes the object   *)
(* and fetches, ++ fetches, and the object is destroyed when no row is left *)
(* or its last iterator is.  An object the program holds has its cursorName *)
(* set, since the first fetch happens in begin().                           *)

(* Mutant: the name is remembered only when the first FETCH succeeds, so    *)
(* that nothing is closed when it fails.                                    *)
BeginIterator_NamedLate(c, o) ==
    /\ cursorOf[c] = NoStmt
    /\ o \in objects \cap Stmt
    /\ Accepts(srv) /\ c \notin Open(srv)
    /\ srv' = Refused(Declared(srv, c))
    /\ Throws(TRUE)
    /\ UNCHANGED <<connVars, objVars, durable, mine, told, endThrew>>

(* begin(): createCursor, DECLARE, FETCH.  When a command fails, or there   *)
(* is no row, the object is destroyed, and closes what it has declared.     *)
BeginIterator(c, o) ==
    /\ cursorOf[c] = NoStmt
    /\ o \in objects \cap Stmt
    /\ \/ \* DECLARE fails
          /\ srv' = Refused(srv)
          /\ Throws(TRUE)
          /\ UNCHANGED cursorOf
       \/ \* DECLARE succeeds
          /\ Accepts(srv) /\ c \notin Open(srv)
          /\ LET s == Declared(srv, c)
             IN \/ \* FETCH returns a row
                   /\ srv' = s
                   /\ cursorOf' = [cursorOf EXCEPT ![c] = o]
                   /\ Throws(FALSE)
                \/ \* FETCH fails or returns no row
                   /\ \E failed \in BOOLEAN :
                        /\ srv' = Closed(IF failed THEN Refused(s) ELSE s, c)
                        /\ Throws(failed)
                   /\ UNCHANGED cursorOf
    /\ UNCHANGED <<connVars, objects, stmtName, durable, mine, told, endThrew>>

(* ~Cursor *)
DestroyCursor(c) ==
    /\ cursorOf[c] # NoStmt
    /\ cursorOf' = [cursorOf EXCEPT ![c] = NoStmt]
    /\ srv' = Closed(srv, c)
    /\ UNCHANGED <<connVars, objects, stmtName, durable, history>>

(* ++ fetches the next row from the block at hand or from the server.  With *)
(* no row left the object is destroyed; when FETCH fails it lives on.       *)
NextRow(c) ==
    /\ cursorOf[c] # NoStmt
    /\ \/ Accepts(srv) /\ c \in Open(srv) /\ DestroyCursor(c)
       \/ /\ srv' = Refused(srv)
          /\ Throws(TRUE)
          /\ UNCHANGED <<connVars, objVars, durable, mine, told, endThrew>>

-------------------------------------------------------------------------------
(* The server ends the session, and with it all it keeps for it. *)
ServerLoss ==
    /\ srv.up
    /\ srv' = [NewServer EXCEPT !.up = FALSE]
    /\ UNCHANGED <<connVars, objVars, durable, history>>

(* ~Connection destroys its own statements and ends the session; statements *)
(* of the program refer to the connection without owning it, so they are    *)
(* gone.  A new connection starts from the beginning.                       *)
Reconnect ==
    /\ objects \subseteq {LastVal}
    /\ LiveCursors = {}
    /\ transactionActive' = 0
    /\ stmtCounter' = 0
    /\ stmtsToDeallocate' = {}
    /\ objects' = {}
    /\ stmtName' = [o \in Object |-> 0]
    /\ srv' = NewServer
    /\ mine' = {}
    /\ clean' = TRUE
    /\ endThrew' = FALSE
    /\ UNCHANGED <<cursorOf, durable, told>>

Next ==
    \/ BeginTransaction \/ CommitTransaction \/ RollbackTransaction
    \/ LastInsertId \/ LockTable \/ ServerLoss \/ Reconnect
    \/ \E w \in Modification : ExecuteQuery(w)
    \/ \E o \in Stmt :
        \/ Prepare(o)
        \/ DestroyStatement(o)
        \/ \E w \in Modification : Execute(o, w)
        \/ \E c \in Cursor : BeginIterator(c, o)
    \/ \E c \in Cursor : NextRow(c) \/ DestroyCursor(c)

Spec == Init /\ [][Next]_vars

-------------------------------------------------------------------------------
(* Properties                                                               *)

(* While the session lives, what the server has prepared is what the        *)
(* statements own and what waits to be deallocated, nothing twice: no       *)
(* statement is executed after it was given up, none is left behind, also   *)
(* when it was destroyed in a failed transaction ("Delay deallocation since *)
(* a postgresql fail to execute anything including deallocate statements    *)
(* when a failed transaction is active", connection.cpp).                   *)
HandlesAgree ==
    srv.up =>
        /\ srv.prepared = Owned \cup stmtsToDeallocate
        /\ Owned \cap stmtsToDeallocate = {}
        /\ \A o, p \in objects : stmtName[o] = stmtName[p] => o = p \/ stmtName[o] = 0

(* Deallocation waits for the end of the transaction and no longer, unless  *)
(* that end threw.                                                          *)
QueueDrained ==
    transactionActive = 0 /\ ~endThrew => stmtsToDeallocate = {}

(* A cursor at the server is that of a living object, once the transaction  *)
(* is over: the next object at the same address can declare its own.        *)
CursorsClosed ==
    srv.txn = "none" => Open(srv) \subseteq LiveCursors

(* "Commit the current transaction" (transaction.h): when a commit returns  *)
(* and no call before it threw since begin, the work is durable.            *)
CommitKeepsWork == told \subseteq durable

(* The driver is the counting session the other modules rely on. *)
sess == [up |-> srv.up, depth |-> transactionActive, open |-> srv.txn # "none"]
Driver == INSTANCE DriverSession WITH LazyBegin <- FALSE
ImplementsDriver == Driver!Spec
==============================================================================
