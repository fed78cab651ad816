------------------------------- MODULE ConnPool -------------------------------
(***************************************************************************)
(* ConnectionPool and PoolConnection: one pool of spare connections to one *)
(* database, shared by concurrent clients.  A client holds at most one     *)
(* PoolConnection at a time; a thread that holds several is several        *)
(* clients.  connect() runs under the pool's mutex but calls the server    *)
(* (ping, tntdb::connect) while it holds it, so it is modelled step by     *)
(* step; put, drop and setMaxSpare only touch the vector and are one step. *)
(***************************************************************************)
EXTENDS Integers, Sequences, SequencesExt, DriverTxn

CONSTANTS
    Client,     \* concurrent users of the pool
    NoClient,   \* the mutex is free
    Conn,       \* identities of raw driver connections
    NoConn,     \* no raw connection is held
    Spares,     \* limits setMaxSpare and drop are called with; 0 is "no limit"
    MaxDepth    \* bound: how deep a client nests its transactions

ASSUME NoClientAssumption == NoClient \notin Client
ASSUME NoConnAssumption == NoConn \notin Conn
ASSUME SparesAssumption == Spares \subseteq Nat
ASSUME MaxDepthAssumption == MaxDepth \in Nat

VARIABLES
    mutex,          \* the client inside connect(), or NoClient
    pool,           \* _connectionPool; the last element is back()
    maxSpare,       \* _maxSpare
    pc,             \* where each client is
    held,           \* PoolConnection::_connection of each client
    inTransaction,  \* PoolConnection::_inTransaction
    dropFlag,       \* PoolConnection::_drop
    sess,           \* the driver session behind each raw connection
    suspect,        \* history: a rollback or a failed ping was seen on these
    deadAtLock      \* history: pooled connections already dead when connect() began

wrapperVars == <<held, inTransaction, dropFlag>>
vars == <<mutex, pool, maxSpare, pc, wrapperVars, sess, suspect, deadAtLock>>

Pooled == Range(pool)
Owned  == Pooled \cup {held[cl] : cl \in Client}

(* Where a client can be: without a connection; at the top of the while    *)
(* loop of connect(); past a ping that back() answered; using a connection. *)
PC == {"idle", "scan", "answered", "using"}

TypeOK ==
    /\ mutex \in Client \cup {NoClient}
    /\ pool \in Seq(Conn)
    /\ maxSpare \in Nat
    /\ pc \in [Client -> PC]
    /\ held \in [Client -> Conn \cup {NoConn}]
    /\ inTransaction \in [Client -> BOOLEAN]
    /\ dropFlag \in [Client -> BOOLEAN]
    /\ sess \in [Conn -> Session]
    /\ suspect \subseteq Conn
    /\ deadAtLock \subseteq Conn

Init ==
    /\ mutex = NoClient
    /\ pool = <<>>
    /\ maxSpare \in Spares
    /\ pc = [cl \in Client |-> "idle"]
    /\ held = [cl \in Client |-> NoConn]
    /\ inTransaction = [cl \in Client |-> FALSE]
    /\ dropFlag = [cl \in Client |-> FALSE]
    /\ sess = [c \in Conn |-> Closed]
    /\ suspect = {}
    /\ deadAtLock = {}

(* The raw connections of S are destroyed: their sessions end, and their    *)
(* identities (addresses) may be those of later connections.                *)
Destroy(S) ==
    /\ sess' = [c \in Conn |-> IF c \in S THEN Closed ELSE sess[c]]
    /\ suspect' = suspect \ S
    /\ deadAtLock' = deadAtLock \ S

(* vector::resize(n) to a smaller size drops the newest connections.        *)
Resize(n) ==
    /\ pool' = SubSeq(pool, 1, n)
    /\ Destroy(Pooled \ Range(SubSeq(pool, 1, n)))

-------------------------------------------------------------------------------
(* ConnectionPool::connect                                                  *)

(* lock_guard at the top of connect().                                      *)
Lock(cl) ==
    /\ pc[cl] = "idle"
    /\ mutex = NoClient
    /\ mutex' = cl
    /\ pc' = [pc EXCEPT ![cl] = "scan"]
    /\ deadAtLock' = {c \in Pooled : ~sess[c].up}
    /\ UNCHANGED <<pool, maxSpare, wrapperVars, sess, suspect>>

(* back()->ping() of the loop condition returned true.                      *)
PingAnswered(cl) ==
    /\ pc[cl] = "scan"
    /\ pool # <<>>
    /\ sess[Last(pool)].up
    /\ pc' = [pc EXCEPT ![cl] = "answered"]
    /\ UNCHANGED <<mutex, pool, maxSpare, wrapperVars, sess, suspect, deadAtLock>>

(* Mutant: the loop body forgets to pop the dead connection.                *)
PingFailed_NotPopped(cl) ==
    /\ pc[cl] = "scan"
    /\ pool # <<>>
    /\ UNCHANGED vars

(* back()->ping() returned false, because the server is gone or too slow    *)
(* (postgresql gives up after 10 s): the loop body drops the connection.    *)
PingFailed(cl) ==
    /\ pc[cl] = "scan"
    /\ pool # <<>>
    /\ pool' = Front(pool)
    /\ Destroy({Last(pool)})
    /\ UNCHANGED <<mutex, maxSpare, pc, wrapperVars>>

(* connect() leaves: the client has a PoolConnection around c with clear    *)
(* flags, and the lock_guard's destructor releases the mutex.               *)
HandOut(cl, c) ==
    /\ held' = [held EXCEPT ![cl] = c]
    /\ inTransaction' = [inTransaction EXCEPT ![cl] = FALSE]
    /\ dropFlag' = [dropFlag EXCEPT ![cl] = FALSE]
    /\ pc' = [pc EXCEPT ![cl] = "using"]
    /\ mutex' = NoClient
    /\ deadAtLock' = {}

(* Mutants: the connection stays in the vector; front() is taken although   *)
(* back() was pinged.                                                       *)
Take_NotPopped(cl) ==
    /\ pc[cl] = "answered"
    /\ HandOut(cl, Last(pool))
    /\ UNCHANGED <<pool, maxSpare, sess, suspect>>

Take_Front(cl) ==
    /\ pc[cl] = "answered"
    /\ HandOut(cl, Head(pool))
    /\ pool' = Tail(pool)
    /\ UNCHANGED <<maxSpare, sess, suspect>>

(* The pool is not empty: back() is moved out and popped.                   *)
Take(cl) ==
    /\ pc[cl] = "answered"
    /\ HandOut(cl, Last(pool))
    /\ pool' = Front(pool)
    /\ UNCHANGED <<maxSpare, sess, suspect>>

(* Mutant: a new connection is opened although a spare one is waiting.      *)
Create_DespiteSpares(cl) ==
    /\ pc[cl] = "scan"
    /\ \E c \in Conn \ Owned :
        /\ HandOut(cl, c)
        /\ sess' = [sess EXCEPT ![c] = Fresh]
    /\ UNCHANGED <<pool, maxSpare, suspect>>

(* The pool is empty: tntdb::connect opens a new connection.                *)
Create(cl) ==
    /\ pc[cl] = "scan"
    /\ pool = <<>>
    /\ \E c \in Conn \ Owned :
        /\ HandOut(cl, c)
        /\ sess' = [sess EXCEPT ![c] = Fresh]
    /\ UNCHANGED <<pool, maxSpare, suspect>>

(* tntdb::connect throws; unwinding releases the mutex.                     *)
CreateFailed(cl) ==
    /\ pc[cl] = "scan"
    /\ pool = <<>>
    /\ pc' = [pc EXCEPT ![cl] = "idle"]
    /\ mutex' = NoClient
    /\ deadAtLock' = {}
    /\ UNCHANGED <<pool, maxSpare, wrapperVars, sess, suspect>>

-------------------------------------------------------------------------------
(* PoolConnection, in the hands of client cl                                *)

(* Mutant: the flag is not set.                                             *)
BeginTransaction_NoFlag(cl) ==
    /\ pc[cl] = "using"
    /\ sess[held[cl]].depth < MaxDepth
    /\ \E ok \in BOOLEAN :
        /\ BeginMay(sess[held[cl]], ok)
        /\ sess' = [sess EXCEPT ![held[cl]] = Begun(@, ok)]
    /\ UNCHANGED <<mutex, pool, maxSpare, pc, wrapperVars, suspect, deadAtLock>>

(* The wrapper's flag follows the driver's call: it is set or cleared only  *)
(* when that call returned.                                                 *)
BeginTransaction(cl) ==
    /\ pc[cl] = "using"
    /\ sess[held[cl]].depth < MaxDepth
    /\ \E ok \in BOOLEAN :
        /\ BeginMay(sess[held[cl]], ok)
        /\ sess' = [sess EXCEPT ![held[cl]] = Begun(@, ok)]
        /\ inTransaction' = [inTransaction EXCEPT ![cl] = inTransaction[cl] \/ ok]
    /\ UNCHANGED <<mutex, pool, maxSpare, pc, held, dropFlag, suspect, deadAtLock>>

(* Mutant: the flag is cleared before the call that may throw.              *)
EndTransaction_ClearedFirst(cl, ok) ==
    /\ pc[cl] = "using"
    /\ \E pending \in BOOLEAN :
        /\ EndMay(sess[held[cl]], ok, pending)
        /\ sess' = [sess EXCEPT ![held[cl]] = Ended(@, pending)]
    /\ inTransaction' = [inTransaction EXCEPT ![cl] = FALSE]
    /\ UNCHANGED <<mutex, pool, maxSpare, pc, held, deadAtLock>>

(* What commit and rollback do to the driver's session and to the flag.     *)
EndTransaction(cl, ok) ==
    /\ pc[cl] = "using"
    /\ \E pending \in BOOLEAN :
        /\ EndMay(sess[held[cl]], ok, pending)
        /\ sess' = [sess EXCEPT ![held[cl]] = Ended(@, pending)]
    /\ inTransaction' = [inTransaction EXCEPT ![cl] = inTransaction[cl] /\ ~ok]
    /\ UNCHANGED <<mutex, pool, maxSpare, pc, held, deadAtLock>>

CommitTransaction(cl) ==
    /\ \E ok \in BOOLEAN : EndTransaction(cl, ok)
    /\ UNCHANGED <<dropFlag, suspect>>

(* Mutant: a rolled back connection is reused.                              *)
RollbackTransaction_Reused(cl) ==
    \E ok \in BOOLEAN :
        /\ EndTransaction(cl, ok)
        /\ UNCHANGED dropFlag
        /\ suspect' = IF ok THEN suspect \cup {held[cl]} ELSE suspect

RollbackTransaction(cl) ==
    \E ok \in BOOLEAN :
        /\ EndTransaction(cl, ok)
        /\ dropFlag' = [dropFlag EXCEPT ![cl] = dropFlag[cl] \/ ok]
        /\ suspect' = IF ok THEN suspect \cup {held[cl]} ELSE suspect

(* execute, select and the statements delegate to the driver.               *)
Execute(cl) ==
    /\ pc[cl] = "using"
    /\ sess[held[cl]].up
    /\ sess' = [sess EXCEPT ![held[cl]] = Executed(@)]
    /\ UNCHANGED <<mutex, pool, maxSpare, pc, wrapperVars, suspect, deadAtLock>>

(* A ping that fails marks the wrapper; one that succeeds changes nothing.  *)
PingByClient(cl) ==
    /\ pc[cl] = "using"
    /\ dropFlag' = [dropFlag EXCEPT ![cl] = TRUE]
    /\ suspect' = suspect \cup {held[cl]}
    /\ UNCHANGED <<mutex, pool, maxSpare, pc, held, inTransaction, sess, deadAtLock>>

(* The wrapper is gone and the client is without a connection again.        *)
LetGo(cl) ==
    /\ pc[cl] = "using"
    /\ pc' = [pc EXCEPT ![cl] = "idle"]
    /\ held' = [held EXCEPT ![cl] = NoConn]
    /\ inTransaction' = [inTransaction EXCEPT ![cl] = FALSE]
    /\ dropFlag' = [dropFlag EXCEPT ![cl] = FALSE]
    /\ UNCHANGED <<mutex, maxSpare>>

Reusable(cl) == ~(inTransaction[cl] \/ dropFlag[cl])

(* ~PoolConnection with a pending transaction or the drop flag set.         *)
DestroyDropped(cl) ==
    /\ ~Reusable(cl)
    /\ LetGo(cl)
    /\ Destroy({held[cl]})
    /\ UNCHANGED pool

(* Mutant: off by one.                                                      *)
RoomToSpare_OffByOne == maxSpare = 0 \/ Len(pool) <= maxSpare

(* put() keeps the connection while there is room; the rest are destroyed.  *)
RoomToSpare == maxSpare = 0 \/ Len(pool) < maxSpare

(* ~PoolConnection calls put(), which waits for the mutex.                  *)
DestroyPut(cl) ==
    /\ Reusable(cl)
    /\ mutex = NoClient
    /\ LetGo(cl)
    /\ IF RoomToSpare
       THEN pool' = Append(pool, held[cl]) /\ UNCHANGED <<sess, suspect, deadAtLock>>
       ELSE UNCHANGED pool /\ Destroy({held[cl]})

-------------------------------------------------------------------------------
(* ConnectionPool::drop and setMaxSpare, called by any thread               *)

DropSpares(keep) ==
    /\ mutex = NoClient
    /\ Len(pool) > keep
    /\ Resize(keep)
    /\ UNCHANGED <<mutex, maxSpare, pc, wrapperVars>>

SetMaxSpare(m) ==
    /\ mutex = NoClient
    /\ maxSpare' = m
    /\ IF Len(pool) > m THEN Resize(m) ELSE UNCHANGED <<pool, sess, suspect, deadAtLock>>
    /\ UNCHANGED <<mutex, pc, wrapperVars>>

(* The server ends a session: restart, network failure, idle timeout.       *)
ServerLoss(c) ==
    /\ sess[c].up
    /\ sess' = [sess EXCEPT ![c] = Lost(@)]
    /\ UNCHANGED <<mutex, pool, maxSpare, pc, wrapperVars, suspect, deadAtLock>>

-------------------------------------------------------------------------------
InsideConnect(cl) ==
    PingAnswered(cl) \/ PingFailed(cl) \/ Take(cl) \/ Create(cl) \/ CreateFailed(cl)

Next ==
    \/ \E cl \in Client :
        \/ Lock(cl) \/ InsideConnect(cl)
        \/ BeginTransaction(cl) \/ CommitTransaction(cl) \/ RollbackTransaction(cl)
        \/ Execute(cl) \/ PingByClient(cl)
        \/ DestroyDropped(cl) \/ DestroyPut(cl)
    \/ \E m \in Spares : DropSpares(m) \/ SetMaxSpare(m)
    \/ \E c \in Conn : ServerLoss(c)

Spec == Init /\ [][Next]_vars

(* Every call inside connect() returns: a driver's ping and connect answer  *)
(* or give up, so the thread that holds the mutex keeps running.            *)
FairSpec == Spec /\ \A cl \in Client : WF_vars(InsideConnect(cl))

-------------------------------------------------------------------------------
(* Properties                                                               *)

(* Nobody else uses a connection a client holds: no two clients hold the    *)
(* same raw connection, none held is also in _connectionPool, and           *)
(* _connectionPool holds no connection twice.  This is what moving out of   *)
(* back() and popping it in one critical section of connect() is for.       *)
ExclusiveUse ==
    /\ IsInjective(pool)
    /\ \A cl \in Client : held[cl] \notin Pooled
    /\ \A a, b \in Client : held[a] = held[b] /\ held[a] # NoConn => a = b

(* "don't put the connection back to the free pool, when there is a pending *)
(* transaction" (~PoolConnection): a spare connection has no transaction    *)
(* open on the server and counts none, whatever begin, commit and rollback  *)
(* calls failed before it came back.                                        *)
SparesAreSettled ==
    \A c \in Pooled : sess[c].depth = 0 /\ ~sess[c].open

(* put() and setMaxSpare() together keep the vector within the limit, in    *)
(* whatever order connections come back and the limit changes.              *)
SpareLimit == maxSpare = 0 \/ Len(pool) <= maxSpare

(* "we do not reuse that connection" (rollbackTransaction): once a rollback *)
(* was done or a ping failed on it, no later begin, commit or ping of the   *)
(* same client brings a connection back into the pool.                      *)
SuspectNeverPooled == Pooled \cap suspect = {}

(* A connection whose server session had ended before connect() took the    *)
(* lock is never what connect() returns: the loop pings what it hands out.  *)
NoStaleHandout ==
    [][\A cl \in Client : pc[cl] # "using" /\ pc'[cl] = "using"
                              => held'[cl] \notin deadAtLock]_vars

(* connect() terminates and releases the mutex, however many spare          *)
(* connections are dead: nobody waits for the pool forever because of it.   *)
MutexReleased == \A cl \in Client : (mutex = cl) ~> (mutex # cl)

(* The pool implements the lease promised by connectCached.                 *)
Lease == INSTANCE SessionLease WITH idle <- Pooled, lease <- held
ImplementsLease == Lease!Spec
===============================================================================
