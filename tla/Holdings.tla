------------------------------ MODULE Holdings ------------------------------
(***************************************************************************
 What the objects of the library hold for the client: handles, descriptors,
 buffers, rows, memory, statements, table locks.  The parts are alternatives,
 a behaviour is one of a single part: a statement of a driver with its cursors
 and rows while calls of the client library fail, the connections and the
 timestamps of oracle, a cache of statements, blobs that share data, an
 iterator, the table locks of mysql connections, a ping of postgresql, a
 statement of the replication driver.
 ***************************************************************************)
EXTENDS Statements, Sequences

CONSTANTS SequenceNames,                             \* oracle's connections
          Objects, Descriptors, Foreign, Moments,    \* oracle's timestamps
          Holders, Queries, Prepared,                \* the cache
          Names, Contents,                           \* blobs
          Sizes, Offsets,                            \* iterators: the size of a range
                                                     \* and how many numbers an unsigned is
          Databases, HostValues,                     \* the replication driver
          Sessions, Tables                           \* table locks
CONSTANTS MaxNesting,                                \* transactions within transactions
          MaxLocks,                                  \* tables in a list of locks
          MaxCommands                                \* commands around a ping

\* None is 0.  A blob is a sequence of bytes.
ASSUME StampAssumption ==
    /\ IsFiniteSet(Descriptors) /\ 0 \notin Descriptors /\ Foreign \subseteq Descriptors
    /\ Moments # {} /\ 0 \notin Moments
ASSUME BlobAssumption == IsFiniteSet(Names) /\ Contents \subseteq Seq(Nat)

VARIABLE part         \* the part that is looked at; sys is its state

Login == INSTANCE OraSession
Stamp == INSTANCE OraDescriptor
Cache == INSTANCE StmtCache WITH Keys <- Queries, Objects <- Prepared
Shared == INSTANCE Blobs
Locks == INSTANCE MyTables
Answer == INSTANCE PgPing
Copies == INSTANCE ReplStatement

-----------------------------------------------------------------------------
\* Result::const_iterator and Row::const_iterator: an unsigned offset and a copy
\* of the element there, which is fetched when the offset changes.  The offset
\* may leave the range on both sides and come back.
Unsigned(n) == n % Offsets
NoElement == -1

\* The element is the one at that offset: elements are named by their place.
Loaded(s, off) == IF off < s.size THEN off ELSE s.current
IteratorInit == \E size \in 0..Sizes, off \in 0..Sizes :
    sys = [size |-> size, offset |-> off,
           current |-> IF off < size THEN off ELSE NoElement]

SetOffset(s, off) ==
    IF off = s.offset THEN s ELSE [s EXCEPT !.offset = off, !.current = Loaded(s, off)]

\* ++ and --
Step(n) == n \in {-1, 1} /\ sys' = SetOffset(sys, Unsigned(sys.offset + n))
\* +=, -=, + and -: the difference is an int
Jump(n) == sys' = SetOffset(sys, Unsigned(sys.offset + Unsigned(n)))

IteratorNext == \E n \in -(Offsets \div 2)..((Offsets \div 2) - 1) : Step(n) \/ Jump(n)

-----------------------------------------------------------------------------
Init ==
    \/ part = "mysql" /\ My!Init
    \/ part = "oracle" /\ Ora!Init
    \/ part = "sqlite" /\ Lite!Init
    \/ part = "session" /\ Login!Init
    \/ part = "timestamp" /\ Stamp!Init
    \/ part = "cache" /\ Cache!Init
    \/ part = "blobs" /\ Shared!Init
    \/ part = "iterator" /\ IteratorInit
    \/ part = "tables" /\ Locks!Init
    \/ part = "ping" /\ Answer!Init
    \/ part = "replicated" /\ Copies!Init

Next ==
    /\ \/ part = "mysql" /\ My!Next
       \/ part = "oracle" /\ Ora!Next
       \/ part = "sqlite" /\ Lite!Next
       \/ part = "session" /\ Login!Next
       \/ part = "timestamp" /\ Stamp!Next
       \/ part = "cache" /\ Cache!Next
       \/ part = "blobs" /\ Shared!Next
       \/ part = "iterator" /\ IteratorNext
       \/ part = "tables" /\ Locks!Next
       \/ part = "ping" /\ Answer!Next
       \/ part = "replicated" /\ Copies!Next
    /\ UNCHANGED part

Spec == Init /\ [][Next]_<<part, sys>>
-----------------------------------------------------------------------------
\* Whatever call fails, no handle, descriptor, buffer or memory is used after it
\* was released, none is released twice and none is left without an owner, with
\* the exceptions that each part names: in mysql the descriptions of the
\* columns after a cursor took the handle, and what a constructor that throws
\* had allocated; the statements of oracle's lastInsertId; blobs whose memory
\* could not be renewed; cached statements after close() of the connection.
\* sqlite's host variables are bound only to a handle that was reset, and a ping
\* that succeeds leaves no result of postgresql unread (Statement, Cursor,
\* BoundRow, MultiValue, oracle::Connection and Datetime, PSCConnection,
\* BlobImpl, postgresql::Connection::ping).
HandlesLegal ==
    CASE part = "mysql" -> My!HandlesLegal
      [] part = "oracle" -> Ora!HandlesLegal
      [] part = "sqlite" -> Lite!HandlesLegal
      [] part = "session" -> Login!HandlesLegal
      [] part = "timestamp" -> Stamp!HandlesLegal
      [] part = "cache" -> Cache!HandlesLegal
      [] part = "blobs" -> Shared!HandlesLegal
      [] part = "ping" -> Answer!HandlesLegal
      [] OTHER -> TRUE

\* What the client holds keeps its data when the object it came from is used
\* again: a row that is held while the statement goes on, the row that a cursor
\* read last, the statement that was prepared for a query, a blob while its
\* copies are written, the element of an iterator; a result is the one of the
\* command that asked, and all databases of a replicated statement get its values
\* (the kept row of mysql, the batches of oracle, the handle that sqlite's cursor
\* shares with the statement, copy on write in Blob, setOffset, ping,
\* replicate::Statement).
DataStays ==
    CASE part = "mysql" -> My!DataStays
      [] part = "oracle" -> Ora!DataStays
      [] part = "sqlite" -> Lite!DataStays
      [] part = "timestamp" -> Stamp!DataStays
      [] part = "cache" -> Cache!DataStays
      [] part = "blobs" -> Shared!DataStays
      [] part = "iterator" -> (sys.offset < sys.size => sys.current = sys.offset)
      [] part = "ping" -> Answer!DataStays
      [] part = "replicated" -> Copies!DataStays
      [] OTHER -> TRUE

\* A mysql session has the table locks that it asked for, all of them and until
\* the transaction ends, although each LOCK TABLES gives back the earlier ones,
\* and no two sessions wait for each other (lockTable, lockTablesQuery).
TablesLocked == part = "tables" => Locks!TablesLocked
=============================================================================
