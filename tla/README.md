# Verification of tntdb

tntdb is a C++ library that gives programs one interface to several databases
(mysql, postgresql, sqlite, oracle), with a pool of connections, a guard class
for transactions, a replication driver and a cache of prepared statements. This
directory holds TLA+ models of the parts of it whose behaviour depends on
interleaving, on failing calls or on long sequences of calls, TLC
configurations that check them, and proofs that the TLA+ proof system checks.

    tlc -config ConnPool.cfg MCConnPool.tla       # one run
    tlapm ConnPoolProofs.tla                      # the proofs of one module

## The system

| Component | State | Operations | Module |
|---|---|---|---|
| `ConnectionPool`, `PoolConnection` (`src/connectionpool.cpp`, `src/poolconnection.cpp`) | mutex, vector of spare connections, limit; per wrapper two flags | `connect`, `put`, `drop`, `setMaxSpare`; begin, commit, rollback, ping, execute, destruction | `ConnPool` |
| `ConnectionPools`, `connectCached`, `dropCached`, `setMaxPoolSize` (`src/connectionpool.cpp`, `src/connect.cpp`) | mutex, map from url, user and password to pools, limit for new pools | `connect`, `drop` for all or one key, `setMaxSpare` | `ConnPools` |
| Driver connections (`src/mysql`, `src/postgresql`, `src/sqlite`, `src/oracle`) | the counter `transactionActive`, the session at the server | begin, commit, rollback, execute, ping | `DriverTxn` (operators), `DriverSession` |
| `Transaction` (`src/transaction.cpp`) | the flag `_active` | constructor, begin, commit, rollback, destructor | `TxnScope` |
| Replication driver (`src/replicate`) | connections in the order of their urls | transactions and statements over all of them | `Replicate` |
| Statements and cursors of postgresql (`src/postgresql`) | names of statements and cursors at the server, statements to deallocate, the state of the transaction | prepare, execute, select, iterate, destroy, `lastInsertId`, `lockTable` | `PgSession` |
| Table locks of mysql (`src/mysql/connection.cpp`) | the list `lockTablesQuery`, autocommit, the server's locks | `lockTable`, begin, commit, rollback | `MyTables` |
| Statements, cursors and rows of mysql, oracle and sqlite | handles of the client library, result buffers, defines, the flag `needReset` | prepare, bind, execute, select, fetch, destroy | `MyStatement`, `OraStatement`, `LiteStatement` |
| Connections and timestamps of oracle | environment, session, statements of `lastInsertId`; descriptors | construct, ping after a fork, destroy; copy, assign, fetch | `OraSession`, `OraDescriptor` |
| `ping` of postgresql | results that are not read yet | ping, commands, late answers | `PgPing` |
| Statements of the replication driver | one statement per database | setters, `clear`, `execute` | `ReplStatement` |
| Host variables and columns of the four drivers, `ValueImpl`, the facade's setters | buffers with type, length and null flag | setters and getters of every type | `MyBind`, `OraValue`, `PgValue`, `LiteValue`, `Conversions`, `Values` |
| `PSCConnection` (`src/pscconnection.cpp`) | shared cache of prepared statements | prepare, clear, copy, close, assign | `StmtCache` |
| `Blob` (`src/blob.cpp`, `bits/blob.h`) | shared buffers | construct, assign, reserve, copy | `Blobs` |
| Iterators of results and rows | an unsigned offset, a copy of the element | `++`, `--`, `+=`, `-=` | `Holdings` |
| `StmtParser`, `SqlBuilder`, `prepareWithLimit`, host variables of the drivers | none: pure algorithms | parse, substitute, number, limit | `HostVars` |
| `Decimal`; dates and times as texts; urls and connection strings | none: pure algorithms | parse, convert, compare | `Decimals`, `IsoTexts`, `ConnStrings` |
| Driver loading (`src/librarymanager.cpp`) | a map of libraries | load | not modelled |

A program calls `connectCached`. `ConnectionPools` finds or creates the pool of
that url, user and password under its own mutex, releases it, and calls the
pool's `connect`, which takes the pool's mutex, pings the spare connections from
the back of the vector, drops the dead ones, and hands out the first that answers
or opens a new one. The result is wrapped in a `PoolConnection`, which keeps a
reference to the pool and, when it is destroyed, puts the raw connection back,
unless a transaction is pending or a rollback or a failed ping made it suspect.
`Transaction` objects call begin, commit and rollback of a connection, be it
raw, pooled or replicated. Each driver counts nested begins, so that only the
outermost begin and end reach the server. The replication driver is a connection
made of connections; its `execute` uses a `Transaction` on itself.

What is hard here: pools are shared by threads, and `connect` talks to servers
while it holds a mutex; the map of pools and the pools have mutexes of their own
and an iterator of the map is used after the mutex is released; every call to a
server can throw, on either side of its effect; a wrapper's flag, a guard's flag
and a driver's counter describe the same transaction and can disagree; the
replication driver repeats each step at several databases and can fail between
any two; programs contend for the databases' locks. The list of hazards, line by
line, is in `PROJECT.json`.

## The modules

**`DriverTxn`** gives a driver's session as a record (`up`, `depth`, `open`) and
each operation as a pair of operators: whether the call may return or throw, and
the session it leaves. It is common to the four drivers, which share the idiom
`transactionActive == 0 || --transactionActive == 0`. `LazyBegin` tells oracle,
whose begin only counts, from the others. A commit or rollback that throws has
already decremented the counter, and leaves the server's transaction pending or
ended; both happen (a busy sqlite file; a deferred constraint in postgresql).

**`SessionLease`** is the abstract specification: clients acquire connections
nobody else holds, an idle one before a new one, and release them.

**`ConnPool`** models one pool. `connect` is several steps (`Lock`,
`PingAnswered`, `PingFailed`, `Take`, `Create`, `CreateFailed`), as it calls a
server while it holds the mutex; `put`, `drop` and `setMaxSpare` only change the
vector and are one step each, enabled when the mutex is free. `BeginTransaction`
to `PingByClient` are the members of `PoolConnection`, `DestroyDropped` and
`DestroyPut` its destructor. `ServerLoss` ends a session at any time. The
variable `sess` is the driver session of every raw connection, `suspect` and
`deadAtLock` are history for two properties. A client holds at most one
`PoolConnection`; a thread with several is several clients.

**`ConnPools`** models the directory of pools. The walk of `drop` and
`setMaxSpare` over the pools holds the map's mutex (`walk`) and waits for each
pool's mutex in turn (`Visit`); `drop(url, ...)` trims the pool and then, in a
step of its own, reads its size without the pool's mutex and erases it.
`FindPool` is the part of `connect` under the map's mutex; `EnterConnect`,
`Reuse`, `DropDead`, `Open` and `OpenFailed` are the pool's `connect`, with the
vector abstracted to a set (`ConnPool` has the order). Keys are triples of
numbers that stand for strings in the order of `std::string::compare`, and are
looked up through `Less`, as `std::map` does. The constant `Careful` says whether
programs call `dropCached(url)` only when none of them uses or requests a
connection to that url.

**`TxnScope`** models `Transaction` objects on one connection, in stack order
because they are local variables. Pieces of work move from `unused` to `pending`
to `durable` or are lost. A commit whose answer is lost may have taken effect.

**`Replicate`** models programs that share databases, each with one replicated
connection. A step is one call of one database's driver; `pc` is the loop a
client is in and `pos` its position. The loops, the exception paths and the
guarding `Transaction` of `execute` are those of the code. A database lets one
transaction at a time modify data; others wait. `immediate` are the databases
that lock at begin (sqlite's `BEGIN IMMEDIATE TRANSACTION`); the run starts with
none, or with one in the middle of the order, since a database that locks at
begin before any other is modified serialises the programs and hides deadlocks.

**`DriverSession`** makes a specification of `DriverTxn`'s operators, so that the
model of a whole driver can be shown to implement it.

**`PgSession`** models one postgresql connection with its `Statement` and `Cursor`
objects. Postgresql refuses every command after an error inside a transaction,
until the transaction ends. `srv` is the session at the server: the state of its
transaction, the prepared names, the cursors (those held over transactions and
those declared in this one) and the pending work; the operators on it are the
server's behaviour, as the driver relies on it, and external to the code. A call
of a member is one step, with every command it sends, since nothing else can use
the connection meanwhile; which of its commands fails is a choice. `stmtName` and
`stmtsToDeallocate` are what `doPrepare`, `~Statement` and `deallocateStatement`
read and write. A commit that throws may have taken effect, if only its answer
was lost. Programs destroy the cursors of a statement before the statement, and
statements before the connection, since neither owns what it refers to. The
constant `Scoped` says whether programs also keep cursors from crossing the begin
or the end of a transaction.

The other modules are parts of three compositions. The parts of a composition are
alternatives: its initial state chooses one, and a behaviour is one of that part.
What is asked of them is one question with an answer per part, so that each
question is stated, and checked, once.

**`Holdings`** composes what the library holds for the program. Each part has its
state in the record `sys`, and says what `HandlesLegal` and `DataStays` mean for it.
`Statements`, which it extends, has the parts that are statements of a driver, with
their constants:

* `MyStatement`, `OraStatement`, `LiteStatement`: a prepared statement of the
  driver, its cursor and the rows the program keeps. `Calls` says how they are
  written: a function of the code is an operator from state to state, a call of the
  client library may be the one that throws, and what follows is not executed then.
  So a member function is one step, with every point at which it can be left.
  Handles and buffers are numbers; data are pairs of an execution and a row number.
  In `OraStatement` a fetch fills the buffers that are defined, wherever they are.
* `OraSession`: the handles of a connection in two processes, since the driver
  compares process ids after a fork. `OraDescriptor`: who owns a timestamp.
* `StmtCache`: copies of a `PSCConnection`. `Blobs`: copy on write, with memory that can be
  refused. The iterators, in `Holdings` itself: offsets beside the range, modulo the
  width of an unsigned.
* `MyTables`: sessions that lock tables; the server's rule, that `LOCK TABLES` first
  frees what the session had, is external. A session waits while another has a lock
  it wants.
* `PgPing`: results that come when ping has given up. `ReplStatement`: the loops over
  the statements of all databases, left in the middle.

**`Values`** composes the ways of a value: `MyBind`, `OraValue`, `PgValue` and
`LiteValue` are one host variable or column of a driver, set or delivered again
and again; the variables are `cell` (the memory and what the client library was
told of it), `said` (what the last call promises: the datum a setter was given, null after
`clear`, nothing after a setter that threw) and `answer` (the last getter).
`Conversions` has the conversions between integer types modulo their width, and
what a text or decimal gives as a number. How many values a byte has is a constant. In
the run it is two instead of 256, so that a short has four and an integer sixteen: what
does not fit is then close. A double has every integer up to a constant `Exact` (64 in
the run; it has room for 32 bits) and beyond it only some near by, and of decimals the halves. The
setters of the facade (`Statement::set`, `setIf`, optional values, members of
serialized objects) choose the setter of the driver; `ValueImpl` is the part without
a driver.

**`Texts`** composes what reads texts: `Decimals`, `IsoTexts`, `HostVars` (the
statement parser, the builder, the four drivers' host variables and limits) and
`ConnStrings`. A text grows by a character or by a piece, and beside it grows
what it means. The references do not share the states of the readers: a decimal
is compared by the places of its digits, a statement is a list of pieces of which
it is known what they are, a connection string is made of the parameters it must
give.

The modules with `MC` in their name give the constants values for TLC; for `TxnScope`
and `Texts` the configuration does. Operators
that have a name with a suffix (`Take_Front`, `CountDown_NotCounted`) are mutants:
plausible mistakes, each of which makes TLC find one property violated. No
specification uses them.

## The runs

| Run | Shows | Bounds | Distinct states |
|---|---|---|---|
| `ConnPool` | `ExclusiveUse`, `SparesAreSettled`, `SpareLimit`, `SuspectNeverPooled`, `NoStaleHandout`, `MutexReleased`, and that the pool implements `SessionLease` | 2 clients, 3 connections, limits 0 to 2 | 8 085 |
| `ConnPoolNested` | violated: a connection comes back inside a transaction after begin, begin, commit | transactions nested twice | |
| `ConnPools` | `ReferencedPoolLives`, `RightDatabase`, `LimitAgreed`, `LeasePerDatabase`; no deadlock between the two levels of mutexes | 2 clients, 2 keys, 2 pools, 3 connections, limits 0 to 2 | 11 511 |
| `ConnPoolsErase` | violated: `dropCached(url)` destroys a pool that is in use | the same, careless programs | |
| `TxnScope` | `NeverLeftOpen`, `ActiveNotDurable`, `UndoneNeverDurable`, `CommittedIsDurable` | 3 nested objects, 2 pieces of work | 29 824 |
| `Replicate` | `FailedNowhere`, `ReturnedEverywhere`, `ReplicasInStep`, `QuietMeansSettled`, `NoDeadlock`, `StatementEnds` | 2 programs, 3 databases listed in opposite orders, 3 statements, one transaction of its own per program | 181 222 |
| `ReplicateInner` | violated: a failed statement stays on some databases | the same, statements failing inside the programs' transactions | |
| `PgSession` | `HandlesAgree`, `QueueDrained`, `CursorsClosed`, `CommitKeepsWork`, and that the connection implements `DriverSession` | 2 statements and that of `lastInsertId`, 2 cursors, 1 piece of work, 4 names, transactions nested twice, `Scoped` | 225 010 |
| `PgSilent` | violated: a commit returns after calls that all returned, and the server rolled back | the same, not `Scoped` | |
| `Holdings` | `HandlesLegal`, `DataStays`, `TablesLocked` | 3 handles, 6 rows, 2 rows of a select (3 of oracle, fetched by 2), 3 executions; 2 timestamps, 3 descriptors of their own per pair; 2 copies, 2 queries, 3 statements; 2 blobs; 2 sessions, 2 tables, `MaxNesting` 2, `MaxLocks` 2; offsets modulo 8; 4 commands; 3 databases | 693 977 |
| `Values` | `SentAsSet`, `NumbersKept`, `NullIsReported` | numbers, fractions, texts, dates and null; bytes with 2 values, `Exact` 64 | 75 385 |
| `Texts` | `DecimalAsWritten`, `TextsKeepValues`, `StatementAsMeant`, `ConnectionAsMeant` | decimals of 5 characters out of 9, other texts of 3 pieces, exponents up to 127 | 56 948 |

Why these bounds are enough: in `ConnPool` a client can be inside `connect` while
the other puts a connection back or holds one, two connections can be dead behind
each other, and the limit can be below, at and above the number of spare ones;
the proofs cover all other sizes. In `ConnPools` each client can have a pool of
its own or share one, and pools are created again after they were erased. Three
nested `Transaction` objects have an outermost, a middle and an innermost one.
Three databases give a loop a first, a middle and a last turn, and two programs
with opposite lists are the smallest circle of waits. In `PgSession` one statement
can wait to be deallocated while another is prepared, one cursor can be closed
while another stays open, and four names let each statement be prepared twice in
a session (a number is used up by every attempt); the proofs cover all other
sizes. In `Holdings` a handle can be taken by a cursor and another prepared, a row
kept while its buffer is needed, a batch of rows be full and the next one not, and
every call of the client library be the one that throws. In `Values` the memory of a
host variable or column keeps what the value before left in it, and the numbers
lie on both sides of each integer type's range and of what a double has. In `Texts` three pieces have all
neighbours, and five characters hold a sign, a point, an exponent and zeros
before and after digits. TLC uses symmetry among clients, pools and connections in
`ConnPools` and among statements and cursors in `PgSession`, none with liveness
properties.

The deadlock check is off for `Replicate` and `ReplicateInner`: when all
statements and transactions are used up, the programs have nothing left to do. It
is off for `Holdings` and `Texts`, whose behaviours end: the executions are used up,
or a text is complete. `Replicate` has no type invariant of its own; the properties of
its run speak of all its variables.

### Fairness

`MutexReleased` assumes weak fairness of what a client does inside `connect`: the
code waits for nothing there but a ping or a connect of a driver, which answer or
give up. `StatementEnds` assumes weak fairness of each driver call that does not
wait for a lock, and that programs end the transactions they begin (a
`Transaction` is a local variable). No fairness of mutexes or of a database's
locks is assumed; the number of statements is finite, so nobody is overtaken
forever.

### What the violations show

* `ConnPoolNested`: `PoolConnection` has one boolean where the driver has a
  counter. After begin, begin, commit the connection goes back to the pool with
  its transaction pending, which the comment in `~PoolConnection` excludes.
* `ConnPoolsErase`: `ConnectionPools::drop(url, ...)` destroys the pool when no
  spare connection is left, while `PoolConnection`s hold references to it.
* `ReplicateInner`: inside a transaction of the program, the rollback of the
  guard in `execute` is a nested one and only counts. The statement that failed
  on the second database stays pending on the first and is committed with the
  rest. The documentation promises that all transactions are rolled back.

* `PgSilent`: a cursor that is opened in a transaction is gone at the server once
  the transaction is rolled back. When its object is destroyed in a later one, `~Cursor` sends a `CLOSE` that fails; the error is only
  logged (`src/postgresql/cursor.cpp:47-62`), but the transaction has failed. What
  was executed before is lost, and `COMMIT` returns without an error. The
  destructor of a statement avoids this by deferring its `DEALLOCATE`.

Disagreements without a run of their own: `connectCached` never blocks at the
maximum, and `setMaxPoolSize` does change pools in use (`connect.h:104-109` says
the opposite of both); selects of the replication driver use the alphabetically
first database (`doc/tntdb.markdown:153` says the first in the list;
`primaryConnection` is computed and never used). And with `"begin"` among `Faults`,
`QuietMeansSettled` fails: a `Transaction` whose constructor throws on the second
database leaves the first in a transaction.

### Known differences

The properties of the three compositions name what they leave out. The list is what
the models show and a reader of the code can follow:

* mysql statements: `fields` points into a handle that a cursor took and closed, and
  is used by the next select with a cursor (`mysql/statement.cpp:606,691`); a cursor
  whose constructor throws after `createStmt` loses the handle; rows and values of
  `Connection::selectRow` point into a result that is freed (`mysql/result.cpp:61-72`).
* mysql values: `clear` sets the null flags of variables that no longer point to them, so
  the old values are sent (`mysql/bindvalues.cpp:112-116`), though `bits/statement.h:86`
  says "Set all host variables to NULL" and `test/statement-test.cpp:139-154` tests it with
  a driver of its own. `setShort` stores two bytes and announces four; a long is passed and
  read as an int, though `test/types-test.cpp:231-297` expects the largest one back.
  mysql locks: a `LOCK TABLES` commits the work before it, a failed
  one loses the earlier locks and stays in `lockTablesQuery` until the transaction
  ends, and outside of a transaction nothing unlocks, though `transaction.h:78`
  says that the locks go with the transaction.
* oracle: `~Connection` frees the environment before the statements of `lastInsertId`;
  a constructor that throws loses its handles; a child that destroys a connection it
  did not ping ends the parent's session. `selectValue` defines one column only, and
  executing a select writes into the buffers that are defined at that time. An unsigned
  column of a single row is read from the wrong member, `getBlob` of a text drops its
  last byte. `clear` binds the null flag without telling `boundPtr`, `boundType` and
  `boundLength` (`oracle/statement.cpp:76-89`), so that a setter with the type and length
  of before `clear` binds nothing and null is sent instead of its value. Timestamps whose constructor throws lose their descriptor.
* sqlite: after a step failed, the next use of the statement throws once more;
  a cursor that is dropped leaves its statement at a row, which keeps the file
  locked until the next use; unsigned 64 bit numbers are stored as signed; an unsigned
  long beyond the longs and a decimal are stored as a double, which may be near the number
  only (`sqlite/statement.cpp:232-242,270-283`; the code warns of it, and
  `test/types-test.cpp:231-297` expects the largest unsigned long back).
* Rows of a cursor are views of the cursor's place in all drivers.
* `PSCConnection`: copies share statements with the values bound to them; `close` and
  assignment release the connection before the cached statements.
* `Blob`: a `new` that throws after `delete[]` leaves a dangling pointer
  (`blob.cpp:84`); comparison stops at a zero byte (`iblob.h:99-103`).
* Replicated statements: a setter that throws on a later database leaves different
  values; `prepareWithLimit` of a statement that is no select drops the limit.
* `StmtParser`: the character after a colon that begins no name is dropped; a quote
  directly after a name begins no string. `SqlBuilder` takes one level of backslashes
  per pass; `sqlbuilder.h:89` shows names from `:set1`, the code and
  `test/sqlbuilder-test.cpp:52` count from 0. An offset without a limit is a syntax error in mysql and sqlite; oracle's
  `prepareWithLimit` adds a column.
* `Decimal`: order is wrong for negative numbers and zero; the overflow check of
  exponents lets too large ones through; `1e--5` and `.` are accepted, "0 " is read as nan (`decimal.cpp:328`); all nines
  rounded to fewer digits give zero.
* Dates and times: the seconds of a postgresql time can become 60 by rounding; styles
  with `/` or `.` lose the fraction of a datetime.
* Urls: `connect.h` documents `%u` and `%p` for mysql and oracle, only postgresql
  replaces them. In mysql's connection string a `;` after a quoted value becomes part
  of the next key; a field given again is refused, but not a port, nor a field whose first
  value was empty (`mysql/connection.cpp:129,161`).
* `serialization.cpp:44`: `operator<<=` of a `Value` calls itself without end.

## The proofs

`ConnPoolProofs` proves, for any numbers of clients and connections, any limits
and both values of `LazyBegin`:

| Theorem | Statement |
|---|---|
| `TypeCorrect` | `Spec => []TypeOK` |
| `ExclusiveUseHolds` | `Spec => []ExclusiveUse` |
| `SpareLimitHolds` | `Spec => []SpareLimit` |
| `SuspectNeverPooledHolds` | `Spec => []SuspectNeverPooled` |
| `SparesAreSettledHolds` | `Spec => []SparesAreSettled` when `MaxDepth <= 1` |
| `NoStaleHandoutHolds` | `Spec => NoStaleHandout` |
| `ImplementsLeaseHolds` | `Spec => ImplementsLease` |

The argument goes in layers, each an invariant that assumes the ones before.
Types come first, then the coherence of `pc`, `mutex` and `held` (a client inside
`connect` owns the mutex; it holds a connection exactly when it is using one),
with `ExclusiveUse`. `SuspectNeverPooled` is not inductive: it needs that a suspect
connection is held by a client whose drop flag is set. `SparesAreSettled` needs
that whatever a held connection has pending is known to its wrapper: a positive
counter or an open transaction implies one of the two flags. That is where
`MaxDepth <= 1` is used, and what `ConnPoolNested` shows to be false without it.
`NoStaleHandout` needs that a session known dead when the mutex was taken is
still dead, and that the connection that answered is not one of them. Facts about
removing from and appending to an injective sequence, and about the driver's session,
come first; the proofs of the guard and the replication driver begin with theirs.

The assumptions are the named ones of `ConnPool` and `DriverTxn`: the values for
"none" are not elements of the sets, the limits are natural numbers.

`FacadeProofs` has the proofs of the two parts of the facade that no driver has a share
in, the directory and the transaction guard. Of the directory it proves, for any numbers of clients, pools, connections and
databases and any limits, assuming `Careful` (`dropCached(url)` is called for
unused pools only; `ConnPoolsErase` is the counterexample without it):

| Theorem | Statement |
|---|---|
| `PoolsTypeCorrect` | `PoolsSpec => []PoolsTypeOK` |
| `RightDatabaseHolds` | `PoolsSpec => []RightDatabase` |
| `ReferencedPoolLivesHolds` | `PoolsSpec => []ReferencedPoolLives` |
| `LimitAgreedHolds` | `PoolsSpec => []LimitAgreed` |
| `LeasePerDatabaseHolds` | `PoolsSpec => LeasePerDatabase` |

Its inductive invariant relates the client's reference to the directory (a
referenced pool is stored under the client's key), the spare connections to the
pool (live, and opened to its key), and the walk to the clients (the pool
`drop(url, ...)` visits is one nobody refers to, since the walk keeps the map's
mutex and nobody can find it meanwhile). `RightDatabase` alone is not inductive:
it needs that the spare connections of the pool are of the pool's database, and
that in turn that closing a connection does not touch one in use. `LimitAgreed`
needs which pools a walk has yet to visit. `LeasePerDatabase` needs in addition
that no two live pools have the same key, which rests on the lemma that
`operator<` of `ConnectionParameter` tells any two different keys apart.

`DriverProofs` has the proofs about single drivers: of the postgresql session, and,
below, of the way of a value. Of `PgSession` it proves, for any statements, cursors and
work, any bounds of the counters and any nesting:

| Theorem | Statement |
|---|---|
| `TypeCorrect` | `Spec => []TypeOK` |
| `HandlesAgreeHolds` | `Spec => []HandlesAgree` |
| `QueueDrainedHolds` | `Spec => []QueueDrained` |
| `CursorsClosedHolds` | `Spec => []CursorsClosed` when `Scoped` |
| `CommitKeepsWorkHolds` | `Spec => []CommitKeepsWork` when `Scoped` |
| `ImplementsDriverHolds` | `Spec => ImplementsDriver` |

The first part says what each command does to the session, as lemmas about the
server's operators. `HandlesAgree` is not inductive: it needs that no name in use
or in the queue is above `stmtCounter`, so that a new name is nobody's; that an
object that does not exist has no name; and that the server is in a transaction
only when the driver counts one, so that a `DEALLOCATE` sent at counter 0 is not
refused. `CommitKeepsWork` needs that a transaction fails only by a call that
throws: in a living transaction the open cursors are exactly those of the
program's objects, so that closing one succeeds. That is where `Scoped` is used.
The invariant adds that the work of a clean transaction is pending at the server.
`ImplementsDriver` follows from the types: an outermost end that throws maps to
one that leaves nothing open.

Of the guard, `FacadeProofs` proves, for any nesting of scopes, any work and both values of
`LazyBegin`:

| Theorem | Statement |
|---|---|
| `TypeCorrect` | `Spec => []TypeOK` |
| `NeverLeftOpenHolds` | `Spec => []NeverLeftOpen` |
| `ActiveNotDurableHolds` | `Spec => []ActiveNotDurable` |
| `UndoneNeverDurableHolds` | `Spec => []UndoneNeverDurable` |
| `CommittedIsDurableHolds` | `Spec => []CommittedIsDurable` |

The invariant: the driver's counter is at most the number of active scopes (less
when an end threw and left its scope active), and a transaction is open only
when some scope is active or a rollback of a destructor failed. So when the last
active scope ends its transaction the counter is at most 1, and the call reaches
the server.

The properties about data need the other side as well (`DInv`): the counter is at
least the number of scopes that are active and whose end was not tried. A call that
throws is one that was told to the server, so it finds only one such scope: below a
scope whose end threw there is none (`TriedInv`). Hence, as long as such a scope
stays on the stack, no end above it reaches the server, and its work is still pending,
unless the server was lost (`WorkInv`). When the outermost scope ends, exactly that
work is made durable or dropped, and what was dropped is nowhere anymore (`GoneInv`).

`ReplicateProofs` proves, for any numbers of programs, databases and statements, any
orders in which the programs list the databases, and any set of databases that lock at
begin:

| Theorem | Statement, when `OnlyStatementsFail` |
|---|---|
| `FailedNowhereHolds` | `Spec => []FailedNowhere` |
| `ReturnedEverywhereHolds` | `Spec => []ReturnedEverywhere` |
| `ReplicasInStepHolds` | `Spec => []ReplicasInStep` |
| `QuietMeansSettledHolds` | `Spec => []QuietMeansSettled` |
| `NoDeadlockHolds` | `Spec => []NoDeadlock` |

`OnlyStatementsFail` says that no begin, commit or rollback throws, that statements
throw only outside of the programs' own transactions, and that begin reaches the
database (not oracle). The code does not keep what the theorems say without it: a
begin or commit that throws on a later database leaves the earlier ones behind, and
`ReplicateInner` is the counterexample for statements within a transaction.

The first lemma is that the urls can be sorted: the place of a url is the number of
urls up to it. So all programs go through the databases in one order, whatever their
lists. The invariant has three layers. `ControlInv` has the types and the counter of
each session, which follows from the client's loop and its place in it. `SessionInv`
adds what a session has modified, which is the same at all databases but for the loop
the client is in, and who has a database's lock: who modified it, or is in a transaction
at one that locks at begin. `DataInv` adds that each statement is unused, one client's,
committed or failed; that the databases a commit has passed have the statement; and
that all logs are equal, except that those a commit has passed are longer by its
transaction. Two commits cannot overlap: until one is over, its client has the lock of
the last database, and the other needs it.
For `NoDeadlock`, a client that executes waits for one that executes further on in the
order, and one that begins for one that begins further on or executes; so in any set of
waiting clients, one that is furthest waits for nobody in it.

`StatementProofs` and `HoldingsProofs` prove the properties of `Holdings`, for any
numbers of handles, rows, buffers, columns, cursors, executions, rows of a select and
of a batch, descriptors, holders of a timestamp, copies of a connection, statements,
blobs, sequences, sessions, tables and databases, and for any call that fails:

| Theorem | Statement |
|---|---|
| `MyStatementSafe`, `OraStatementSafe`, `LiteStatementSafe` | the statement of one driver by itself: `Init /\ [][Next]_sys => [](HandlesLegal /\ DataStays)` |
| `HandlesLegalHolds` | `Spec => []HandlesLegal` |
| `DataStaysHolds` | `Spec => []DataStays` |
| `TablesLockedHolds` | `Spec => []TablesLocked` |

Each part has an inductive invariant of its own; `Good` says that the part that was
chosen has its invariant. In the models an operation is one step that is composed of
the functions it calls, any of which may be left by an exception. So the proofs follow
the code: every function has a lemma that says what it needs, what it establishes and
what it leaves alone, both when it returns and when it throws, and the lemma about an
operation puts them together. What is true between two functions is weaker than the
invariant of the states that the program sees, so most parts have a weaker form of it
with the exception named: `MyCore(s, X)` for all cursors but those of `X`, `StampKept(s, X)`
for all timestamps but those of `X`, `BlobBut(s, b)` for all blobs but `b`.

* mysql (`MyGood`). `HandlesLegal` needs that a handle has one owner: statement and
  cursors have different ones, all open, and an open handle is somebody's. `DataStays`
  needs that the row of a cursor is nobody else's, neither the statement's row nor one
  that the client has, and that the handle of a cursor fills the cursor's row and no
  other; a fetch writes through the binding of the handle, not through the object.
* oracle (`OraGood`). A row that the client has is in no cursor's buffer, with the data
  it was given. While the cursor's execution is the last one, all columns are defined to
  its buffer, and (`OraBatch`) buffer and server together have the rest of the rows in
  order: the place in the batch and the number of rows read determine each. Fetching
  the next batch keeps this for every size of a batch. After another execution the cursor
  is not said to have the right row (`OraPast`), but the client's rows stay.
* sqlite (`LiteGood`). A handle that is not ready will be reset, a select has the first
  rows of one execution, and a cursor that nobody disturbed stands at the row it read.
* Connections of oracle (`LoginGood`): what each process has open and that the parent's
  session lives as long as its object, unless a child that did not ping destroyed it.
* Timestamps (`StampGood`): a live holder owns an open descriptor or looks at a foreign
  one, no two own the same, what is open is owned or leaked, and each holder shows what
  was said of it.
* Statement cache (`CacheGood`): the keys of entries and statements match, all copies have
  statements that live, and who has a statement has a cache.
* Blobs (`BlobGood`): what a blob refers to has the bytes it was told, unless memory was
  refused (`Telling`); an implementation object that exists is some blob's. Copy on
  write comes in as `Alone`: the object that is about to be written is nobody else's.
* Table locks (`LocksGood`): a session that waits has no locks, so no circle of waits
  exists; what it has are tables of its list, and while it has work those it guards.
* Iterators, ping and the replicated statement have invariants of two or three lines.

The loops of the code over rows (`FetchAll`, `Select`, the batches of a result) are
recursive functions in the models. That they are what their equation says, and that what
a turn preserves holds after the last, is proved from one lemma, `Counting`: a set with 0
that has `n + 1` with every `n` has all naturals, because otherwise a finite set would
have a one to one function into a smaller one. So these loops are covered for every
number of rows.

The assumptions are `MyAssumption` and `OraAssumption` of `Statements`, `StampAssumption`
and `BlobAssumption` of `Holdings`: 0, which stands for no object, is none of the
numbers of objects; the sets of rows, buffers, descriptors and blobs are finite and the batch
has a size; there is a column; foreign descriptors are descriptors; there is a moment,
and none is 0; the contents of blobs are sequences of numbers. TLC evaluates
them in the run `Holdings`. Finite sets are needed since a fetch or an allocation takes
an object that is free, which the models say by comparing cardinalities.

The second half of `DriverProofs` proves the properties of `Values`, for every even number of values of a
byte (`ByteValues`), any data to set and to deliver, and whatever memory means that
nobody wrote (`Garbage`):

| Theorem | Statement |
|---|---|
| `SentAsSetHolds` | `ValueSpec => []SentAsSet` |
| `NumbersKeptHolds` | `ValueSpec => []NumbersKept` |
| `NullIsReportedHolds` | `ValueSpec => []NullIsReported` |

So the small bytes of the run stand for bytes with 256 values. The argument has three
layers. The first is arithmetic: the number of values of eight bytes is the square of
that of four, and so on; a number is itself modulo a width that has room for it
(`Signed`, `Unsigned`, `CastKeeps`); of a number stored in the low bytes of a longer
word these bytes read the same (`StoredBytes`, `LowerBytes`), which is why the two bytes
that mysql stores of a short are right although four are announced. The second says of
every conversion what it may give of a datum (`Rightly`): never the null that `get`
reports, and of a number the type has room for that number or a refusal. The third is an
invariant for each driver, which its setters, fetches and getters preserve:

* postgresql, sqlite and `ValueImpl` (`PgRight`, `LiteRight`, `PlainRight`): the null flag
  and the value are what was said; of an unsigned long or a decimal that sqlite stores as
  a double it is one of the doubles near by, and an unsigned of 32 bits is a double itself
  (`LiteExact`).
* mysql (`MyRight`): a host variable is null or points to no null flag, and its bytes, read
  with the type, the sign and the length that are announced, are what the driver passes of
  what was said; after `clear` it is a null or no null as before. A column that is not null has bytes or a content that mean what was
  said, and points to its null flag, whichever row it held before.
* oracle (`OraRight`): the server reads what was said, or null of a cleared variable. That
  is not inductive, since a setter that finds its place bound does not tell OCI anything.
  What it needs is `OraMemory`: unless the variable was cleared, OCI has the address, the
  length and the place that the driver remembers for the type it remembers, and reads the
  null flag exactly when the type is that of a null (`OraInStep`); a cleared variable has
  the flag set, and so has one that remembers the type of a null. A call that throws in the
  middle forgets the type and keeps this true. `OraLast` adds that what the driver
  remembers is what the last setter bound for: so a variable that is set with another type
  or length after `clear` is bound again and cleared no more, and only one that is set with
  the same may stay null.

`Right` puts the drivers together, with the calls of the facade, which give a setter the
datum or null (`CallsAre`). The assumptions are `ByteAssumption` and `GarbageAssumption` of
`Conversions` and `DataAssumption` and `ExactAssumption` of `Values`: data have one of the
kinds and an integer, only the facade is given null, and a double has every integer of 32
bits. `SentAsSet` says what the server reads through `Kept`, which has one arm for each of
the data that a driver does not send as they are set; these are the proved statement as
much as the rule is. The proofs use that the arms of a `CASE` exclude each
other; where the models relied on the order of the arms, which TLA+ does not give a
meaning (getters that look at null first, `Seen` of oracle, the url of a connection),
they now say `IF` or the whole condition.

`TextsProofs` proves `ConnectionsAsMeant`, `TextSpec => []ConnectionAsMeant`: the urls
of postgresql, mysql and oracle are read as they are meant, however many pieces they have
and whatever is quoted or escaped. `TextInv` has a part for each url:

* postgresql (`UrlInv`): outside of a piece the reader is in its state `0` and what it
  has put out is what the pieces mean.
* mysql (`MyInv`): behind a parameter the automaton expects a keyword and has the values
  and the port that are meant, or a field that has a value was given again and it is in its error state,
  which it never leaves. That a value is read as it is meant is an induction over the
  value, once with backslashes and once in quotes.
* oracle (`OraInv`): the text is the name of the database with the user and the password
  behind it in either order; `extractAttribute` cuts each out of the other.

The readers are left folds over the text, and `FoldLeft` of the community modules is a
recursive function on sets of positions. The first part of the module shows, by `Counting`
again, that there is such a function for every text, that it is unique, and that one more
symbol is one more step (`ReadFirst`, `ReadNext`); `FlattenSeq` is treated in the same way.
A piece of text is then what `Leads` from one state of the reader to another, and
pieces are put together (`LeadsThen`). The module needs no assumption on the constants.

`ParserProofs` goes on with `StatementsAsMeant`, `TextSpec => []StatementAsMeant`: however
many pieces a statement has, the parser finds the host variables that are meant, a value
that is set reaches exactly the places of its name in mysql and postgresql, the builder
leaves a statement that means what was meant, and a limit and an offset select the same
rows with every driver that takes them. `StatementsInv` is the inductive invariant:

* `StatementInv`, while a statement or a text for the builder is written: `At` says that
  `StmtParser`, outside of a piece, has put out the items that are meant, and that the text
  ends with a name only if the last piece does. A piece brings the parser from there to
  there (`OnePass`, `PassGrows`), which is shown by the kind of the piece: plain and escaped
  characters and strings by induction over the piece, names and doubled prefixes by their
  steps.
  `StatementAsMeant` alone is not inductive: the same items may be found in the middle of
  a name, and what comes next would be read as a part of it.
* The builder parses its text twice with the prefix `%`, and what it leaves is parsed with
  `:`. `BuilderAt` has the two texts in between: each is what the items of the pass before
  are replaced by (`Rep`), and `Rep` of items put together is the texts put together. So
  every piece has its own three passes (`Built`), and these are calculated: lists of no, one
  and two elements, tables, and the pieces that mean the same with both prefixes.
* `LimitInv`, after `prepareWithLimit`: the text is the select and the clauses the driver
  appends for a limit, an offset, both or neither (`Clauses`, `Above`, `Numbered`), also
  behind the replication driver; and what the server selects by these clauses are the rows
  that are meant (`RowsBetween`, `OracleLimit`).

The numbering of host variables follows from the invariant for any items: mysql counts
the variables that stand before a place (`Rank`), no two of which have the same number;
postgresql gives a name the next number when it meets it first, and the fold `Numbers`
keeps that different names have different numbers and that every place shows the number of
its name (`NumberedAs`).

Only model-checked:

* `MutexReleased` and `StatementEnds`: liveness is outside of what the prover can do.
* `DecimalAsWritten` and `TextsKeepValues` of `Texts`: their references are written for
  the texts of the run (no blanks, an `e` in lower case, exponents of two digits, integers below a
  limit, doubles of three digits, samples of years and fractions), and both compare
  arithmetic over the digits of such a text; they are not stated for every length.

The runs that expect a violation have no theorem. Every other property of a run, 36 of 40,
is the statement of one.

## Not modelled

* Driver libraries and their loading; metadata; the wording of errors and logs.
* Bytes of texts: code pages, bytea escapes, blob locators of oracle, the arithmetic
  of floating point. A double is its digits, a text is what its first characters mean. Which
  doubles a number is near to is modelled for sqlite, where the code warns of it; the other
  getters of floating numbers, and a float that narrows a double, give the number itself.
* Calendar arithmetic of `Date` (julian days, weekdays) and of intervals.
* `nvstatement.cpp` of sqlite, which is not compiled.
* Statements that fail inside a transaction in `TxnScope`: its commits keep what
  was executed. On postgresql a commit after an error returns and rolls back;
  `PgSession` models that.
* Unsynchronised reads of a pool's size (`getCurrentSize`) other than the one
  `drop(url, ...)` acts on: they feed log messages and statistics.
* The loss of a session in `ConnPools` (a spare connection may be dead at any
  time) and in `Replicate` (calls may throw, sessions stay).
* The time a ping or a connect takes while the mutexes are held: it has no bound
  an untimed model can state.

## Plan

Done, in this order: the pool, the directory of pools, the guard, the replication
driver, the postgresql driver; statements, values and texts of all drivers; the
proofs of the pool, the directory, the guard, the replication driver and the
postgresql driver; the proofs of what the library holds for the program, of the
way of a value, of connection strings and of statements. What may follow:

1. A table of metadata and the rows of unprepared selects (`mysql/result.cpp`), whose
   lifetime is looser than that of statements.
2. Refinement of `DriverTxn`'s session by a mysql connection with autocommit.
