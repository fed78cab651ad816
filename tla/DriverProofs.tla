----------------------------- MODULE DriverProofs -----------------------------
(***************************************************************************)
(* Proofs about what a driver keeps for its client: one postgresql         *)
(* connection (PgSession), and the values that pass through each of the    *)
(* drivers (Values).                                                       *)
(*                                                                         *)
(* PgSession, for any statements, cursors and work: handles are released   *)
(* exactly once, deferred deallocation happens at the end of the           *)
(* transaction, commits keep what they say when cursors stay within        *)
(* transactions, and the driver is the counting session.                   *)
(*                                                                         *)
(* Values, for every even number of values of a byte, all data and         *)
(* whatever memory holds that nobody wrote.  The first part of it is about *)
(* integers of a fixed width: a cast keeps what its type has room for, and *)
(* of what does not fit it keeps the low bytes.  The second part says what *)
(* a conversion may give (Rightly).  For each driver there is then an      *)
(* invariant of its host variables and columns (PlainRight, PgRight,       *)
(* LiteRight, MyRight, OraRight), which says what the memory of the one or *)
(* the other has to do with the datum that the last call promises.  The    *)
(* last part puts them together (Right).  The modules of the drivers are   *)
(* instances, and so are the conversions in them: the lemmas called        *)
(* ...Conversions and ...Readings say that these are the conversions of    *)
(* this module.                                                            *)
(***************************************************************************)
EXTENDS PgSession, Values, TLAPS

-------------------------------------------------------------------------------
(* What one command does to the session.                                    *)

Agree(s, t) == /\ t.up = s.up
               /\ t.prepared = s.prepared
               /\ t.held = s.held
               /\ t.declared = s.declared
               /\ t.pending = s.pending

LEMMA NewServerLemma ==
  /\ NewServer \in Server
  /\ [NewServer EXCEPT !.up = FALSE] \in Server
BY DEF NewServer, Server

LEMMA RefusedLemma ==
  ASSUME NEW s \in Server
  PROVE  /\ Refused(s) \in Server
         /\ Agree(s, Refused(s))
         /\ Refused(s).txn = IF s.txn = "active" THEN "failed" ELSE s.txn
BY DEF Refused, Server, Agree

LEMMA PreparedLemma ==
  ASSUME NEW s \in Server, NEW n \in Number
  PROVE  /\ Prepared(s, n) \in Server
         /\ Prepared(s, n).prepared = s.prepared \cup {n}
         /\ Prepared(s, n).txn = s.txn
         /\ Prepared(s, n).up = s.up
         /\ Prepared(s, n).held = s.held
         /\ Prepared(s, n).declared = s.declared
         /\ Prepared(s, n).pending = s.pending
<1>1. s.prepared \cup {n} \in SUBSET Number
  BY DEF Server
<1>. QED
  BY <1>1 DEF Prepared, Server

LEMMA ModifiedLemma ==
  ASSUME NEW s \in Server, NEW w \in SUBSET Work
  PROVE  /\ Modified(s, w) \in Server
         /\ Modified(s, w).prepared = s.prepared
         /\ Modified(s, w).txn = s.txn
         /\ Modified(s, w).up = s.up
         /\ Modified(s, w).held = s.held
         /\ Modified(s, w).declared = s.declared
         /\ Modified(s, w).pending = IF s.txn = "none" THEN s.pending ELSE s.pending \cup w
<1>1. s.pending \cup w \in SUBSET Work
  BY DEF Server
<1>. QED
  BY <1>1 DEF Modified, Server

LEMMA DeclaredLemma ==
  ASSUME NEW s \in Server, NEW c \in Cursor
  PROVE  /\ Declared(s, c) \in Server
         /\ Declared(s, c).prepared = s.prepared
         /\ Declared(s, c).txn = s.txn
         /\ Declared(s, c).up = s.up
         /\ Declared(s, c).pending = s.pending
         /\ Declared(s, c).held = IF s.txn = "none" THEN s.held \cup {c} ELSE s.held
         /\ Declared(s, c).declared = IF s.txn = "none" THEN s.declared ELSE s.declared \cup {c}
<1>1. s.held \cup {c} \in SUBSET Cursor /\ s.declared \cup {c} \in SUBSET Cursor
  BY DEF Server
<1>. QED
  BY <1>1 DEF Declared, Server

LEMMA EndedLemma ==
  ASSUME NEW s \in Server, NEW committed \in BOOLEAN
  PROVE  /\ EndedAs(s, committed) \in Server
         /\ EndedAs(s, committed).prepared = s.prepared
         /\ EndedAs(s, committed).up = s.up
         /\ EndedAs(s, committed).txn = "none"
         /\ EndedAs(s, committed).pending = {}
         /\ EndedAs(s, committed).declared = {}
         /\ EndedAs(s, committed).held = IF committed THEN s.held \cup s.declared ELSE s.held
<1>1. (IF committed THEN s.held \cup s.declared ELSE s.held) \in SUBSET Cursor
  BY DEF Server
<1>. QED
  BY <1>1 DEF EndedAs, Server

LEMMA DeallocatedLemma ==
  ASSUME NEW s \in Server, NEW names
  PROVE  /\ Deallocated(s, names) \in Server
         /\ Deallocated(s, names).prepared = IF Accepts(s) THEN s.prepared \ names ELSE s.prepared
         /\ Deallocated(s, names).up = s.up
         /\ Deallocated(s, names).txn = s.txn
         /\ Deallocated(s, names).held = s.held
         /\ Deallocated(s, names).declared = s.declared
         /\ Deallocated(s, names).pending = s.pending
<1>1. s.prepared \ names \in SUBSET Number
  BY DEF Server
<1>. QED
  BY <1>1 DEF Deallocated, Server

LEMMA ClosedLemma ==
  ASSUME NEW s \in Server, NEW c
  PROVE  /\ Closed(s, c) \in Server
         /\ Closed(s, c).prepared = s.prepared
         /\ Closed(s, c).up = s.up
         /\ Closed(s, c).pending = s.pending
         /\ Accepts(s) /\ c \in Open(s) =>
                /\ Closed(s, c).txn = s.txn
                /\ Closed(s, c).held = s.held \ {c}
                /\ Closed(s, c).declared = s.declared \ {c}
         /\ ~(Accepts(s) /\ c \in Open(s)) => Closed(s, c) = Refused(s)
<1>1. s.held \ {c} \in SUBSET Cursor /\ s.declared \ {c} \in SUBSET Cursor
  BY DEF Server
<1>2. CASE Accepts(s) /\ c \in Open(s)
  BY <1>1, <1>2 DEF Closed, Server
<1>3. CASE ~(Accepts(s) /\ c \in Open(s))
  BY <1>3, RefusedLemma DEF Closed, Agree
<1>. QED
  BY <1>2, <1>3

-------------------------------------------------------------------------------
(* execPrepared: either no name is made, or the next number is prepared and *)
(* becomes the name of the statement; only an error changes the state of    *)
(* the transaction.                                                         *)
NoNewName(s) == srv'.prepared = s /\ stmtName' = stmtName /\ stmtCounter' \in {stmtCounter, stmtCounter + 1}
NewName(o, s) ==
    /\ stmtName[o] = 0
    /\ stmtCounter' = stmtCounter + 1
    /\ srv'.prepared = s \cup {stmtCounter + 1}
    /\ stmtName' = [stmtName EXCEPT ![o] = stmtCounter + 1]

LEMMA ExecLemma ==
  ASSUME TypeOK, NEW o \in Object, NEW ok \in BOOLEAN, NEW w \in SUBSET Work,
         ExecPrepared(o, ok, w)
  PROVE  /\ stmtCounter' \in 0 .. MaxNumber
         /\ stmtName' \in [Object -> 0 .. MaxNumber]
         /\ srv' \in Server
         /\ durable' \subseteq Work
         /\ NoNewName(srv.prepared) \/ NewName(o, srv.prepared)
         /\ srv'.up = srv.up /\ srv'.held = srv.held /\ srv'.declared = srv.declared
         /\ srv'.txn = IF ~ok /\ srv.txn = "active" THEN "failed" ELSE srv.txn
         /\ ok => Accepts(srv)
         /\ srv'.pending = IF ok /\ srv.txn # "none" THEN srv.pending \cup w ELSE srv.pending
         /\ durable' = IF ok /\ srv.txn = "none" THEN durable \cup w ELSE durable
<1>. DEFINE n == stmtCounter + 1
<1>. USE ConstAssumption
<1>1. /\ srv \in Server /\ stmtCounter \in Nat /\ stmtName \in [Object -> 0 .. MaxNumber]
      /\ stmtName[o] \in 0 .. MaxNumber /\ durable \subseteq Work
      /\ [stmtName EXCEPT ![o] = stmtName[o]] = stmtName
  BY DEF TypeOK
<1>2. durable' = IF ok /\ srv.txn = "none" THEN durable \cup w ELSE durable
  BY DEF ExecPrepared
<1>3. durable' \subseteq Work
  BY <1>1, <1>2
<1>4. CASE stmtName[o] = 0
  <2>1. n \in Number /\ stmtCounter' = n
    BY <1>1, <1>4 DEF ExecPrepared, Number
  <2>2. CASE ~ok /\ srv' = Refused(srv) /\ stmtName' = stmtName
    <3>1. NoNewName(srv.prepared)
      BY <1>1, <2>1, <2>2, RefusedLemma DEF Agree, NoNewName
    <3>. QED
      BY <1>1, <1>2, <1>3, <2>1, <2>2, <3>1, RefusedLemma DEF Agree, Number
  <2>3. CASE /\ Accepts(srv)
             /\ srv' = IF ok THEN Modified(Prepared(srv, n), w) ELSE Refused(Prepared(srv, n))
             /\ stmtName' = [stmtName EXCEPT ![o] = n]
    <3>1. Prepared(srv, n) \in Server
      BY <1>1, <2>1, PreparedLemma
    <3>2. /\ srv' \in Server
          /\ srv'.prepared = Prepared(srv, n).prepared
          /\ srv'.up = Prepared(srv, n).up
          /\ srv'.held = Prepared(srv, n).held
          /\ srv'.declared = Prepared(srv, n).declared
          /\ srv'.txn = IF ~ok /\ Prepared(srv, n).txn = "active" THEN "failed" ELSE Prepared(srv, n).txn
          /\ srv'.pending = IF ok /\ Prepared(srv, n).txn # "none"
                            THEN Prepared(srv, n).pending \cup w ELSE Prepared(srv, n).pending
      BY <2>3, <3>1, RefusedLemma, ModifiedLemma DEF Agree
    <3>3. NewName(o, srv.prepared)
      BY <1>1, <1>4, <2>1, <2>3, <3>2, PreparedLemma DEF NewName
    <3>4. stmtName' \in [Object -> 0 .. MaxNumber] /\ stmtCounter' \in 0 .. MaxNumber
      BY <1>1, <2>1, <2>3 DEF Number
    <3>. QED
      BY <1>1, <1>2, <1>3, <2>1, <2>3, <3>2, <3>3, <3>4, PreparedLemma
  <2>. QED
    BY <1>4, <2>2, <2>3 DEF ExecPrepared
<1>5. CASE stmtName[o] # 0
  <2>1. /\ stmtCounter' = stmtCounter
        /\ ok => Accepts(srv)
        /\ srv' = IF ok THEN Modified(srv, w) ELSE Refused(srv)
        /\ stmtName' = stmtName
    BY <1>1, <1>5 DEF ExecPrepared
  <2>2. NoNewName(srv.prepared)
    BY <1>1, <2>1, RefusedLemma, ModifiedLemma DEF Agree, NoNewName
  <2>. QED
    BY <1>1, <1>2, <1>3, <2>1, <2>2, RefusedLemma, ModifiedLemma DEF Agree, TypeOK
<1>. QED
  BY <1>4, <1>5

-------------------------------------------------------------------------------
(* The effect of the two helpers that talk to the server at the end of a    *)
(* transaction and of a statement.                                          *)
LEMMA DeallocateLemma ==
  ASSUME TypeOK, NEW s \in Server, NEW n \in Number, DeallocateStatement(n, s)
  PROVE  /\ srv' \in Server /\ stmtsToDeallocate' \subseteq Number
         /\ srv'.up = s.up /\ srv'.txn = s.txn /\ srv'.pending = s.pending
         /\ srv'.held = s.held /\ srv'.declared = s.declared
         /\ transactionActive = 0 =>
                /\ stmtsToDeallocate' = {}
                /\ Accepts(s) => srv'.prepared = s.prepared \ (stmtsToDeallocate \cup {n})
         /\ transactionActive # 0 =>
                /\ stmtsToDeallocate' = stmtsToDeallocate \cup {n}
                /\ srv'.prepared = s.prepared
<1>1. CASE transactionActive = 0
  <2>1. srv' = Deallocated(s, stmtsToDeallocate \cup {n}) /\ stmtsToDeallocate' = {}
    BY <1>1 DEF DeallocateStatement
  <2>. QED
    BY <1>1, <2>1, DeallocatedLemma
<1>2. CASE transactionActive # 0
  BY <1>2 DEF DeallocateStatement, TypeOK
<1>. QED
  BY <1>1, <1>2

LEMMA EndReturnedLemma ==
  ASSUME TypeOK, NEW s \in Server, EndReturned(s)
  PROVE  /\ srv' \in Server /\ stmtsToDeallocate' = {}
         /\ srv'.up = s.up /\ srv'.txn = s.txn /\ srv'.pending = s.pending
         /\ srv'.held = s.held /\ srv'.declared = s.declared
         /\ Accepts(s) => srv'.prepared = s.prepared \ stmtsToDeallocate
BY DeallocatedLemma DEF EndReturned

-------------------------------------------------------------------------------
(* Types                                                                    *)

LEMMA InitType == Init => TypeOK
<1>1. /\ 0 \in 0 .. MaxDepth /\ 0 \in 0 .. MaxNumber
      /\ [o \in Object |-> 0] \in [Object -> 0 .. MaxNumber]
      /\ [c \in Cursor |-> NoStmt] \in [Cursor -> Stmt \cup {NoStmt}]
  BY ConstAssumption
<1>. QED
  BY <1>1, NewServerLemma DEF Init, TypeOK

LEMMA ThrowsType ==
  ASSUME NEW threw \in BOOLEAN, Throws(threw)
  PROVE  clean' \in BOOLEAN
BY DEF Throws

(* The end of a transaction, seen from outside: an inner one counts, the    *)
(* outermost one returns or throws, and its work is kept, lost or both.     *)
EndStep(s, committed) ==
    /\ committed => srv.txn = "active"
    /\ s = EndedAs(srv, committed)
    /\ EndOutermost
    /\ (srv.up /\ EndReturned(s)) \/ EndThrew(s)

LEMMA CommitCases ==
  ASSUME CommitTransaction
  PROVE  \/ EndInner
         \/ /\ \E committed \in BOOLEAN : EndStep(EndedAs(srv, committed), committed)
            /\ durable' \in {durable, durable \cup srv.pending}
            /\ told' \in {told, told \cup mine}
<1>1. (srv.txn = "active") \in BOOLEAN
  OBVIOUS
<1>. QED
  BY <1>1 DEF CommitTransaction, EndStep

LEMMA RollbackCases ==
  ASSUME RollbackTransaction
  PROVE  \/ EndInner
         \/ /\ \E committed \in BOOLEAN : EndStep(EndedAs(srv, committed), committed)
            /\ durable' = durable
            /\ told' = told
BY DEF RollbackTransaction, EndStep

LEMMA EndStepType ==
  ASSUME TypeOK, NEW committed \in BOOLEAN, EndStep(EndedAs(srv, committed), committed),
         durable' \subseteq Work, told' \subseteq Work
  PROVE  TypeOK'
<1>. DEFINE s == EndedAs(srv, committed)
<1>1. s \in Server
  BY EndedLemma DEF TypeOK
<1>2. /\ srv' \in Server /\ stmtsToDeallocate' \subseteq Number
      /\ endThrew' \in BOOLEAN
  <2>1. CASE EndReturned(s)
    BY <1>1, <2>1, EndReturnedLemma DEF EndReturned
  <2>2. CASE EndThrew(s)
    BY <1>1, <2>2 DEF EndThrew, TypeOK
  <2>. QED
    BY <2>1, <2>2 DEF EndStep
<1>3. transactionActive' \in 0 .. MaxDepth
  BY ConstAssumption DEF EndStep, EndOutermost, CountedDown, TypeOK
<1>. QED
  BY <1>2, <1>3 DEF EndStep, EndOutermost, TypeOK, objVars, LiveCursors

LEMMA EndInnerType == ASSUME TypeOK, EndInner PROVE TypeOK'
<1>1. transactionActive' \in 0 .. MaxDepth
  BY ConstAssumption DEF EndInner, CountedDown, TypeOK
<1>. QED
  BY <1>1 DEF EndInner, TypeOK, objVars, history

LEMMA BeginType == ASSUME TypeOK, BeginTransaction PROVE TypeOK'
<1>1. transactionActive' \in 0 .. MaxDepth
  BY ConstAssumption DEF BeginTransaction, TypeOK
<1>2. srv' \in Server
  BY DEF BeginTransaction, TypeOK, Server
<1>. QED
  BY <1>1, <1>2 DEF BeginTransaction, TypeOK, objVars

(* Statements *)
LEMMA ModificationLemma == ASSUME NEW w \in Modification PROVE w \in SUBSET Work
BY DEF Modification

LEMMA ExecuteType ==
  ASSUME TypeOK, NEW o, NEW w \in SUBSET Work, Execute(o, w) PROVE TypeOK'
<1>1. PICK ok \in BOOLEAN :
        /\ ExecPrepared(o, ok, w)
        /\ mine' = IF ok /\ transactionActive > 0 THEN mine \cup w ELSE mine
        /\ told' = IF ok /\ transactionActive = 0 THEN told \cup w ELSE told
        /\ Throws(~ok)
  BY DEF Execute
<1>2. o \in Object
  BY DEF Execute, Object
<1>3. mine' \subseteq Work /\ told' \subseteq Work /\ clean' \in BOOLEAN
  BY <1>1, ThrowsType DEF TypeOK
<1>. QED
  BY <1>1, <1>2, <1>3, ExecLemma DEF Execute, TypeOK

LEMMA LastInsertIdType == ASSUME TypeOK, LastInsertId PROVE TypeOK'
<1>1. PICK ok \in BOOLEAN : ExecPrepared(LastVal, ok, {}) /\ Throws(~ok)
  BY DEF LastInsertId
<1>2. LastVal \in Object /\ {} \in SUBSET Work
  BY DEF Object
<1>3. clean' \in BOOLEAN
  BY <1>1, ThrowsType
<1>. QED
  BY <1>1, <1>2, <1>3, ExecLemma DEF LastInsertId, TypeOK

LEMMA ExecuteQueryType ==
  ASSUME TypeOK, NEW w \in SUBSET Work, ExecuteQuery(w) PROVE TypeOK'
<1>1. PICK ok \in BOOLEAN :
        /\ ok => Accepts(srv)
        /\ srv' = IF ok THEN Modified(srv, w) ELSE Refused(srv)
        /\ durable' = IF ok /\ srv.txn = "none" THEN durable \cup w ELSE durable
        /\ mine' = IF ok /\ transactionActive > 0 THEN mine \cup w ELSE mine
        /\ told' = IF ok /\ transactionActive = 0 THEN told \cup w ELSE told
        /\ Throws(~ok)
  BY DEF ExecuteQuery
<1>2. srv' \in Server
  BY <1>1, RefusedLemma, ModifiedLemma DEF TypeOK
<1>3. /\ mine' \subseteq Work /\ told' \subseteq Work /\ durable' \subseteq Work
      /\ clean' \in BOOLEAN
  BY <1>1, ThrowsType DEF TypeOK
<1>. QED
  BY <1>2, <1>3 DEF ExecuteQuery, TypeOK, connVars, objVars

LEMMA DestroyStatementType ==
  ASSUME TypeOK, NEW o, DestroyStatement(o) PROVE TypeOK'
<1>1. o \in Object /\ o \in objects
  BY DEF DestroyStatement, Object
<1>2. stmtName' \in [Object -> 0 .. MaxNumber] /\ objects' \subseteq Object
  BY <1>1, ConstAssumption DEF DestroyStatement, TypeOK
<1>3. srv' \in Server /\ stmtsToDeallocate' \subseteq Number
  <2>1. CASE stmtName[o] # 0
    <3>1. stmtName[o] \in Number /\ srv \in Server
      BY <1>1, <2>1, ConstAssumption DEF TypeOK, Number
    <3>. QED
      BY <2>1, <3>1, DeallocateLemma DEF DestroyStatement
  <2>2. CASE stmtName[o] = 0
    BY <2>2 DEF DestroyStatement, TypeOK
  <2>. QED
    BY <2>1, <2>2
<1>. QED
  BY <1>2, <1>3 DEF DestroyStatement, TypeOK, history

(* lockTable: the statement is prepared and released, or not prepared.      *)
LEMMA LockTableCases ==
  ASSUME TypeOK, LockTable
  PROVE  /\ stmtCounter + 1 \in Number
         /\ stmtCounter' = stmtCounter + 1
         /\ \/ /\ srv' = Refused(srv)
               /\ stmtsToDeallocate' = stmtsToDeallocate
               /\ Throws(TRUE)
            \/ /\ Accepts(srv)
               /\ \E ok \in BOOLEAN, s \in Server :
                    /\ DeallocateStatement(stmtCounter + 1, s)
                    /\ Throws(~ok)
                    /\ s.up = srv.up /\ s.held = srv.held /\ s.declared = srv.declared
                    /\ s.prepared = srv.prepared \cup {stmtCounter + 1}
                    /\ s.pending = srv.pending
                    /\ s.txn = IF ~ok /\ srv.txn = "active" THEN "failed" ELSE srv.txn
<1>. DEFINE n == stmtCounter + 1
<1>1. n \in Number /\ stmtCounter' = n /\ srv \in Server
  BY ConstAssumption DEF LockTable, TypeOK, Number
<1>2. Prepared(srv, n) \in Server
  BY <1>1, PreparedLemma
<1>3. CASE /\ Accepts(srv)
           /\ \E ok \in BOOLEAN :
                /\ DeallocateStatement(n, IF ok THEN Prepared(srv, n) ELSE Refused(Prepared(srv, n)))
                /\ Throws(~ok)
  <2>1. PICK ok \in BOOLEAN :
           /\ DeallocateStatement(n, IF ok THEN Prepared(srv, n) ELSE Refused(Prepared(srv, n)))
           /\ Throws(~ok)
    BY <1>3
  <2>. DEFINE s == IF ok THEN Prepared(srv, n) ELSE Refused(Prepared(srv, n))
  <2>2. /\ s \in Server /\ s.up = Prepared(srv, n).up /\ s.held = Prepared(srv, n).held
        /\ s.declared = Prepared(srv, n).declared /\ s.prepared = Prepared(srv, n).prepared
        /\ s.pending = Prepared(srv, n).pending
        /\ s.txn = IF ~ok /\ Prepared(srv, n).txn = "active" THEN "failed" ELSE Prepared(srv, n).txn
    BY <1>2, RefusedLemma DEF Agree
  <2>3. /\ s.up = srv.up /\ s.held = srv.held /\ s.declared = srv.declared
        /\ s.prepared = srv.prepared \cup {n} /\ s.pending = srv.pending
        /\ s.txn = IF ~ok /\ srv.txn = "active" THEN "failed" ELSE srv.txn
    BY <1>1, <2>2, PreparedLemma
  <2>4. DeallocateStatement(n, s) /\ Throws(~ok)
    BY <2>1
  <2>. HIDE DEF s
  <2>. QED
    BY <1>1, <1>3, <2>2, <2>3, <2>4
<1>. QED
  BY <1>1, <1>3 DEF LockTable

LEMMA LockTableType == ASSUME TypeOK, LockTable PROVE TypeOK'
<1>1. /\ srv' \in Server /\ stmtsToDeallocate' \subseteq Number /\ clean' \in BOOLEAN
      /\ stmtCounter' \in 0 .. MaxNumber
  <2>1. /\ stmtCounter + 1 \in Number /\ stmtCounter' = stmtCounter + 1
        /\ stmtCounter' \in 0 .. MaxNumber
    BY LockTableCases, ConstAssumption DEF Number
  <2>2. CASE srv' = Refused(srv) /\ stmtsToDeallocate' = stmtsToDeallocate /\ Throws(TRUE)
    BY <2>1, <2>2, RefusedLemma, ThrowsType DEF TypeOK
  <2>3. CASE \E ok \in BOOLEAN, s \in Server :
                DeallocateStatement(stmtCounter + 1, s) /\ Throws(~ok)
    <3>1. PICK ok \in BOOLEAN, s \in Server :
                DeallocateStatement(stmtCounter + 1, s) /\ Throws(~ok)
      BY <2>3
    <3>2. clean' \in BOOLEAN
      BY <3>1 DEF Throws
    <3>. QED
      BY <2>1, <3>1, <3>2, DeallocateLemma
  <2>. QED
    BY <2>2, <2>3, LockTableCases
<1>. QED
  BY <1>1 DEF LockTable, TypeOK, objVars

(* Cursors.  begin() changes nothing but what an error does to the          *)
(* transaction, or leaves a cursor the program holds, or one that could not *)
(* be closed in the transaction that failed.                                *)
LEMMA BeginIteratorCases ==
  ASSUME TypeOK, NEW c \in Cursor, NEW o \in Stmt, BeginIterator(c, o)
  PROVE  /\ srv' \in Server /\ srv'.up = srv.up
         /\ srv'.prepared = srv.prepared /\ srv'.pending = srv.pending
         /\ \/ /\ srv' = Refused(srv)
               /\ cursorOf' = cursorOf
               /\ Throws(TRUE)
            \/ /\ Accepts(srv)
               /\ cursorOf' = [cursorOf EXCEPT ![c] = o]
               /\ srv' = Declared(srv, c)
               /\ Throws(FALSE)
            \/ /\ cursorOf' = cursorOf
               /\ srv'.held = srv.held /\ srv'.declared = srv.declared /\ srv'.txn = srv.txn
               /\ Throws(FALSE) \/ (Throws(TRUE) /\ srv.txn = "none")
            \/ /\ cursorOf' = cursorOf
               /\ srv.txn = "active" /\ srv'.txn = "failed"
               /\ srv'.held = srv.held
               /\ Throws(TRUE)
<1>. DEFINE s == Declared(srv, c)
            r == Refused(s)
<1>1. /\ srv \in Server /\ s \in Server /\ r \in Server
      /\ s.prepared = srv.prepared /\ s.up = srv.up /\ s.pending = srv.pending
      /\ s.txn = srv.txn
  BY DeclaredLemma, RefusedLemma DEF TypeOK
<1>2. /\ s.held = IF srv.txn = "none" THEN srv.held \cup {c} ELSE srv.held
      /\ s.declared = IF srv.txn = "none" THEN srv.declared ELSE srv.declared \cup {c}
  BY <1>1, DeclaredLemma
<1>3. /\ r.prepared = s.prepared /\ r.up = s.up /\ r.pending = s.pending
      /\ r.held = s.held /\ r.declared = s.declared
      /\ r.txn = IF s.txn = "active" THEN "failed" ELSE s.txn
  BY <1>1, RefusedLemma DEF Agree
<1>4. \/ srv' = Refused(srv) /\ cursorOf' = cursorOf /\ Throws(TRUE)
      \/ /\ Accepts(srv) /\ c \notin Open(srv)
         /\ \/ srv' = s /\ cursorOf' = [cursorOf EXCEPT ![c] = o] /\ Throws(FALSE)
            \/ /\ cursorOf' = cursorOf
               /\ \E failed \in BOOLEAN : srv' = Closed(IF failed THEN r ELSE s, c) /\ Throws(failed)
  BY DEF BeginIterator
<1>5. ASSUME NEW failed \in BOOLEAN, srv' = Closed(IF failed THEN r ELSE s, c), Throws(failed)
      PROVE  (srv' = Closed(s, c) /\ Throws(FALSE)) \/ (srv' = Closed(r, c) /\ Throws(TRUE))
  <2>1. CASE failed
    BY <1>5, <2>1 DEF Throws
  <2>2. CASE ~failed
    BY <1>5, <2>2 DEF Throws
  <2>. QED
    BY <2>1, <2>2
<1>6. CASE srv' = Refused(srv) /\ cursorOf' = cursorOf /\ Throws(TRUE)
  BY <1>1, <1>6, RefusedLemma DEF Agree
<1>7. CASE /\ Accepts(srv) /\ srv' = s
           /\ cursorOf' = [cursorOf EXCEPT ![c] = o] /\ Throws(FALSE)
  BY <1>1, <1>7
<1>. HIDE DEF s, r
<1>8. CASE /\ Accepts(srv) /\ c \notin Open(srv) /\ cursorOf' = cursorOf
           /\ srv' = Closed(s, c) /\ Throws(FALSE)
  <2>1. Accepts(s) /\ c \in Open(s)
    BY <1>1, <1>2, <1>8 DEF Accepts, Open
  <2>2. /\ srv' \in Server /\ srv'.prepared = s.prepared /\ srv'.up = s.up
        /\ srv'.pending = s.pending /\ srv'.txn = s.txn
        /\ srv'.held = s.held \ {c} /\ srv'.declared = s.declared \ {c}
    BY <1>1, <1>8, <2>1, ClosedLemma
  <2>3. srv'.held = srv.held /\ srv'.declared = srv.declared
    BY <1>2, <1>8, <2>2 DEF Open
  <2>. QED
    BY <1>1, <1>8, <2>2, <2>3
<1>9. CASE /\ Accepts(srv) /\ c \notin Open(srv) /\ cursorOf' = cursorOf
           /\ srv' = Closed(r, c) /\ Throws(TRUE)
  <2>1. CASE srv.txn = "active"
    <3>1. ~Accepts(r)
      BY <1>1, <1>3, <2>1 DEF Accepts
    <3>2. srv' = Refused(r)
      BY <1>1, <1>9, <3>1, ClosedLemma
    <3>3. /\ srv' \in Server /\ srv'.prepared = r.prepared /\ srv'.up = r.up
          /\ srv'.pending = r.pending /\ srv'.held = r.held /\ srv'.txn = r.txn
      BY <1>1, <1>3, <2>1, <3>2, RefusedLemma DEF Agree
    <3>. QED
      BY <1>1, <1>2, <1>3, <1>9, <2>1, <3>3
  <2>2. CASE srv.txn # "active"
    <3>1. srv.txn = "none" /\ Accepts(r) /\ c \in Open(r)
      BY <1>1, <1>2, <1>3, <1>9, <2>2 DEF Accepts, Open, Server
    <3>2. /\ srv' \in Server /\ srv'.prepared = r.prepared /\ srv'.up = r.up
          /\ srv'.pending = r.pending /\ srv'.txn = r.txn
          /\ srv'.held = r.held \ {c} /\ srv'.declared = r.declared \ {c}
      BY <1>1, <1>9, <3>1, ClosedLemma
    <3>3. srv'.held = srv.held /\ srv'.declared = srv.declared
      BY <1>2, <1>3, <1>9, <3>1, <3>2 DEF Open
    <3>. QED
      BY <1>1, <1>3, <1>9, <3>1, <3>2, <3>3
  <2>. QED
    BY <2>1, <2>2
<1>. QED
  BY <1>4, <1>5, <1>6, <1>7, <1>8, <1>9

LEMMA BeginIteratorType ==
  ASSUME TypeOK, NEW c \in Cursor, NEW o \in Stmt, BeginIterator(c, o) PROVE TypeOK'
<1>1. srv' \in Server
  BY BeginIteratorCases
<1>2. clean' \in BOOLEAN
  BY DEF BeginIterator, Throws
<1>3. cursorOf' \in [Cursor -> Stmt \cup {NoStmt}]
  BY DEF BeginIterator, TypeOK
<1>. QED
  BY <1>1, <1>2, <1>3 DEF BeginIterator, TypeOK, connVars

LEMMA DestroyCursorType ==
  ASSUME TypeOK, NEW c \in Cursor, DestroyCursor(c) PROVE TypeOK'
<1>1. srv' \in Server
  BY ClosedLemma DEF DestroyCursor, TypeOK
<1>2. cursorOf' \in [Cursor -> Stmt \cup {NoStmt}]
  BY DEF DestroyCursor, TypeOK
<1>. QED
  BY <1>1, <1>2 DEF DestroyCursor, TypeOK, connVars, history

(* ++ destroys the cursor or fails. *)
FetchFails == /\ srv' = Refused(srv)
              /\ Throws(TRUE)
              /\ UNCHANGED <<connVars, objVars, durable, mine, told, endThrew>>

LEMMA NextRowCases ==
  ASSUME NEW c, NextRow(c)
  PROVE  (Accepts(srv) /\ c \in Open(srv) /\ DestroyCursor(c)) \/ FetchFails
BY DEF NextRow, FetchFails

LEMMA FetchFailsType == ASSUME TypeOK, FetchFails PROVE TypeOK'
<1>1. srv' \in Server /\ clean' \in BOOLEAN
  BY RefusedLemma, ThrowsType DEF FetchFails, TypeOK
<1>. QED
  BY <1>1 DEF FetchFails, TypeOK, connVars, objVars

LEMMA ServerLossType == ASSUME TypeOK, ServerLoss PROVE TypeOK'
<1>1. srv' \in Server
  BY NewServerLemma DEF ServerLoss
<1>. QED
  BY <1>1 DEF ServerLoss, TypeOK, connVars, objVars, history

LEMMA ReconnectType == ASSUME TypeOK, Reconnect PROVE TypeOK'
<1>1. /\ 0 \in 0 .. MaxDepth /\ 0 \in 0 .. MaxNumber
      /\ [o \in Object |-> 0] \in [Object -> 0 .. MaxNumber]
  BY ConstAssumption
<1>. QED
  BY <1>1, NewServerLemma DEF Reconnect, TypeOK

LEMMA PrepareType == ASSUME TypeOK, NEW o \in Stmt, Prepare(o) PROVE TypeOK'
BY ConstAssumption DEF Prepare, TypeOK, connVars, history, Object

LEMMA TypeStep == TypeOK /\ [Next]_vars => TypeOK'
<1>. SUFFICES ASSUME TypeOK, [Next]_vars PROVE TypeOK'
  OBVIOUS
<1>1. CASE BeginTransaction
  BY <1>1, BeginType
<1>2. CASE CommitTransaction \/ RollbackTransaction
  <2>1. CASE EndInner
    BY <2>1, EndInnerType
  <2>2. ASSUME NEW committed \in BOOLEAN, EndStep(EndedAs(srv, committed), committed),
               durable' \in {durable, durable \cup srv.pending}, told' \in {told, told \cup mine}
        PROVE  TypeOK'
    <3>1. durable' \subseteq Work /\ told' \subseteq Work
      BY <2>2 DEF TypeOK, Server
    <3>. QED
      BY <2>2, <3>1, EndStepType
  <2>. QED
    BY <1>2, <2>1, <2>2, CommitCases, RollbackCases
<1>3. CASE LastInsertId
  BY <1>3, LastInsertIdType
<1>4. CASE LockTable
  BY <1>4, LockTableType
<1>5. CASE ServerLoss
  BY <1>5, ServerLossType
<1>6. CASE Reconnect
  BY <1>6, ReconnectType
<1>7. ASSUME NEW w \in Modification, ExecuteQuery(w) PROVE TypeOK'
  BY <1>7, ExecuteQueryType, ModificationLemma
<1>8. ASSUME NEW o \in Stmt, Prepare(o) PROVE TypeOK'
  BY <1>8, PrepareType
<1>9. ASSUME NEW o \in Stmt, DestroyStatement(o) PROVE TypeOK'
  BY <1>9, DestroyStatementType
<1>10. ASSUME NEW o \in Stmt, NEW w \in Modification, Execute(o, w) PROVE TypeOK'
  BY <1>10, ExecuteType, ModificationLemma
<1>11. ASSUME NEW o \in Stmt, NEW c \in Cursor, BeginIterator(c, o) PROVE TypeOK'
  BY <1>11, BeginIteratorType
<1>12. ASSUME NEW c \in Cursor, NextRow(c) PROVE TypeOK'
  BY <1>12, NextRowCases, DestroyCursorType, FetchFailsType
<1>13. ASSUME NEW c \in Cursor, DestroyCursor(c) PROVE TypeOK'
  BY <1>13, DestroyCursorType
<1>14. CASE UNCHANGED vars
  BY <1>14 DEF vars, connVars, objVars, history, TypeOK
<1>. QED
  BY <1>1, <1>2, <1>3, <1>4, <1>5, <1>6, <1>7, <1>8, <1>9, <1>10, <1>11, <1>12, <1>13, <1>14 DEF Next

(* The variables keep their types: the counter of transactions never falls  *)
(* below zero, names at the server are ones the counter has given.          *)
THEOREM TypeCorrect == Spec => []TypeOK
<1>1. Init => TypeOK
  BY InitType
<1>2. TypeOK /\ [Next]_vars => TypeOK'
  BY TypeStep
<1>. QED
  BY <1>1, <1>2, PTL DEF Spec

-------------------------------------------------------------------------------
(* Handles.  Agreement is HandlesAgree of any values, so that a step is a   *)
(* chain of changes of them.                                                *)

Names(objs, name) == {name[o] : o \in objs} \ {0}

Agreement(prep, objs, name, queue) ==
    /\ prep = Names(objs, name) \cup queue
    /\ Names(objs, name) \cap queue = {}
    /\ \A o, p \in objs : name[o] = name[p] => o = p \/ name[o] = 0

(* Every name in use was given by the counter; what does not exist has no   *)
(* name; the server has a transaction only when the driver counts one.      *)
HandleInv ==
    /\ srv.up => Agreement(srv.prepared, objects, stmtName, stmtsToDeallocate)
    /\ \A o \in Object : stmtName[o] <= stmtCounter
    /\ \A o \in Object \ objects : stmtName[o] = 0
    /\ \A n \in stmtsToDeallocate : n <= stmtCounter
    /\ transactionActive = 0 => srv.txn = "none"
    /\ QueueDrained

(* A statement gets a name nobody has, or an object without a name appears. *)
LEMMA NewNameAgrees ==
  ASSUME NEW prep, NEW objs, NEW name \in [Object -> Nat], NEW queue, NEW k \in Nat,
         objs \subseteq Object, NEW o \in Object, name[o] = 0,
         \A p \in Object : name[p] <= k, \A n \in queue : n \in Nat /\ n <= k,
         Agreement(prep, objs, name, queue)
  PROVE  Agreement(prep \cup {k + 1}, objs \cup {o}, [name EXCEPT ![o] = k + 1], queue)
<1>. DEFINE new == [name EXCEPT ![o] = k + 1]
<1>1. /\ new[o] = k + 1
      /\ \A p \in Object : p # o => new[p] = name[p]
      /\ \A p \in Object : name[p] # k + 1
      /\ k + 1 \notin queue /\ k + 1 # 0
  OBVIOUS
<1>. HIDE DEF new
<1>2. Names(objs \cup {o}, new) = Names(objs, name) \cup {k + 1}
  <2>1. ASSUME NEW n \in Names(objs \cup {o}, new) PROVE n \in Names(objs, name) \cup {k + 1}
    <3>1. PICK p \in objs \cup {o} : n = new[p] /\ n # 0
      BY <2>1 DEF Names
    <3>. QED
      BY <1>1, <3>1 DEF Names
  <2>2. ASSUME NEW n \in Names(objs, name) PROVE n \in Names(objs \cup {o}, new)
    <3>1. PICK p \in objs : n = name[p] /\ n # 0
      BY <2>2 DEF Names
    <3>2. p # o
      BY <3>1
    <3>. QED
      BY <1>1, <3>1, <3>2 DEF Names
  <2>3. k + 1 \in Names(objs \cup {o}, new)
    BY <1>1 DEF Names
  <2>. QED
    BY <2>1, <2>2, <2>3
<1>3. ASSUME NEW p \in objs \cup {o}, NEW q \in objs \cup {o}, new[p] = new[q]
      PROVE  p = q \/ new[p] = 0
  <2>1. CASE p # o /\ q # o
    BY <1>1, <1>3, <2>1 DEF Agreement
  <2>2. CASE p = o \/ q = o
    BY <1>1, <1>3, <2>2
  <2>. QED
    BY <2>1, <2>2
<1>. QED
  BY <1>1, <1>2, <1>3 DEF Agreement, new

LEMMA NewObjectAgrees ==
  ASSUME NEW prep, NEW objs, NEW name \in [Object -> Nat], NEW queue,
         objs \subseteq Object, NEW o \in Object, name[o] = 0,
         Agreement(prep, objs, name, queue)
  PROVE  Agreement(prep, objs \cup {o}, name, queue)
<1>1. Names(objs \cup {o}, name) = Names(objs, name)
  BY DEF Names
<1>. QED
  BY <1>1 DEF Agreement

(* A destroyed statement's name is queued. *)
LEMMA DestroyedAgrees ==
  ASSUME NEW prep, NEW objs, NEW name \in [Object -> Nat], NEW queue,
         objs \subseteq Object, NEW o \in objs,
         Agreement(prep, objs, name, queue)
  PROVE  LET new == [name EXCEPT ![o] = 0]
         IN  /\ name[o] = 0 => Agreement(prep, objs \ {o}, new, queue)
             /\ name[o] # 0 => Agreement(prep, objs \ {o}, new, queue \cup {name[o]})
<1>. DEFINE new == [name EXCEPT ![o] = 0]
<1>1. \A p \in objs : p # o => new[p] = name[p]
  OBVIOUS
<1>. HIDE DEF new
<1>2. Names(objs \ {o}, new) = Names(objs, name) \ {name[o]}
  <2>1. ASSUME NEW n \in Names(objs \ {o}, new) PROVE n \in Names(objs, name) \ {name[o]}
    <3>1. PICK p \in objs \ {o} : n = new[p] /\ n # 0
      BY <2>1 DEF Names
    <3>2. n = name[p] /\ n # name[o]
      BY <1>1, <3>1 DEF Agreement
    <3>. QED
      BY <3>1, <3>2 DEF Names
  <2>2. ASSUME NEW n \in Names(objs, name), n # name[o] PROVE n \in Names(objs \ {o}, new)
    <3>1. PICK p \in objs : n = name[p] /\ n # 0
      BY <2>2 DEF Names
    <3>2. p # o
      BY <2>2, <3>1
    <3>. QED
      BY <1>1, <3>1, <3>2 DEF Names
  <2>. QED
    BY <2>1, <2>2
<1>3. \A p, q \in objs \ {o} : new[p] = new[q] => p = q \/ new[p] = 0
  BY <1>1 DEF Agreement
<1>4. CASE name[o] = 0
  <2>1. Names(objs \ {o}, new) = Names(objs, name)
    BY <1>2, <1>4 DEF Names
  <2>. QED
    BY <1>3, <1>4, <2>1 DEF Agreement, new
<1>5. CASE name[o] # 0
  <2>1. name[o] \in Names(objs, name)
    BY <1>5 DEF Names
  <2>. QED
    BY <1>2, <1>3, <1>5, <2>1 DEF Agreement, new
<1>. QED
  BY <1>4, <1>5

LEMMA DrainedAgrees ==
  ASSUME NEW prep, NEW objs, NEW name, NEW queue, Agreement(prep, objs, name, queue)
  PROVE  Agreement(prep \ queue, objs, name, {})
BY DEF Agreement

(* A name that is made and queued at once. *)
LEMMA QueuedAgrees ==
  ASSUME NEW prep, NEW objs, NEW name \in [Object -> Nat], NEW queue, NEW k \in Nat,
         objs \subseteq Object, \A p \in Object : name[p] <= k,
         Agreement(prep, objs, name, queue)
  PROVE  Agreement(prep \cup {k + 1}, objs, name, queue \cup {k + 1})
<1>1. k + 1 \notin Names(objs, name)
  BY DEF Names
<1>. QED
  BY <1>1 DEF Agreement

LEMMA NameType ==
  ASSUME TypeOK
  PROVE  /\ stmtName \in [Object -> Nat] /\ objects \subseteq Object
         /\ stmtCounter \in Nat /\ transactionActive \in Nat
         /\ \A n \in stmtsToDeallocate : n \in Nat
         /\ srv \in Server
BY ConstAssumption DEF TypeOK, Number

LEMMA InitHandles == Init => HandleInv
<1>. SUFFICES ASSUME Init PROVE HandleInv
  OBVIOUS
<1>1. Names(objects, stmtName) = {}
  BY DEF Init, Names
<1>. QED
  BY <1>1, ConstAssumption DEF Init, HandleInv, Agreement, NewServer, QueueDrained, Object

(* Steps that change neither handles nor counters.                          *)
LEMMA HandlesKept ==
  ASSUME TypeOK, HandleInv,
         UNCHANGED <<stmtCounter, stmtsToDeallocate, objects, stmtName, transactionActive, endThrew>>,
         srv'.up = srv.up, srv'.prepared = srv.prepared,
         srv.txn = "none" => srv'.txn = "none"
  PROVE  HandleInv'
BY DEF HandleInv, QueueDrained

LEMMA BeginHandles == ASSUME TypeOK, HandleInv, BeginTransaction PROVE HandleInv'
<1>1. srv'.up = srv.up /\ srv'.prepared = srv.prepared
  BY NameType DEF BeginTransaction, Server
<1>2. transactionActive' = 0 => transactionActive = 0 /\ srv' = srv
  BY NameType DEF BeginTransaction
<1>. QED
  BY <1>1, <1>2 DEF BeginTransaction, HandleInv, QueueDrained, objVars

LEMMA EndInnerHandles == ASSUME TypeOK, HandleInv, EndInner PROVE HandleInv'
<1>1. transactionActive' # 0
  BY NameType DEF EndInner, CountedDown
<1>. QED
  BY <1>1 DEF EndInner, HandleInv, QueueDrained, objVars, history

LEMMA EndHandles ==
  ASSUME TypeOK, HandleInv, NEW committed \in BOOLEAN, EndStep(EndedAs(srv, committed), committed)
  PROVE  HandleInv'
<1>. DEFINE s == EndedAs(srv, committed)
<1>1. s \in Server /\ s.prepared = srv.prepared /\ s.up = srv.up /\ s.txn = "none"
  BY NameType, EndedLemma
<1>2. UNCHANGED <<stmtCounter, objects, stmtName>>
  BY DEF EndStep, EndOutermost, objVars
<1>. HIDE DEF s
<1>3. CASE srv.up /\ EndReturned(s)
  <2>1. /\ stmtsToDeallocate' = {} /\ srv'.up = srv.up /\ srv'.txn = "none"
        /\ srv'.prepared = srv.prepared \ stmtsToDeallocate
    BY <1>1, <1>3, EndReturnedLemma DEF Accepts
  <2>2. Agreement(srv'.prepared, objects', stmtName', stmtsToDeallocate')
    BY <1>2, <1>3, <2>1, DrainedAgrees DEF HandleInv
  <2>. QED
    BY <1>2, <2>1, <2>2 DEF HandleInv, QueueDrained
<1>4. CASE EndThrew(s)
  BY <1>1, <1>2, <1>4 DEF HandleInv, QueueDrained, EndThrew
<1>. QED
  BY <1>3, <1>4 DEF EndStep, s

(* The steps that execute a statement. *)
LEMMA ExecHandles ==
  ASSUME TypeOK, HandleInv, NEW o \in Object, NEW ok \in BOOLEAN, NEW w \in SUBSET Work,
         ExecPrepared(o, ok, w), objects' = objects \cup {o},
         UNCHANGED <<transactionActive, stmtsToDeallocate, endThrew>>
  PROVE  HandleInv'
<1>1. /\ stmtName \in [Object -> Nat] /\ objects \subseteq Object /\ stmtCounter \in Nat
      /\ srv'.up = srv.up
      /\ srv.txn = "none" => srv'.txn = "none"
      /\ NoNewName(srv.prepared) \/ NewName(o, srv.prepared)
  BY NameType, ExecLemma
<1>2. CASE NoNewName(srv.prepared)
  <2>1. /\ srv'.prepared = srv.prepared /\ stmtName' = stmtName
        /\ stmtCounter' \in {stmtCounter, stmtCounter + 1}
    BY <1>2 DEF NoNewName
  <2>2. ASSUME srv.up
        PROVE  Agreement(srv.prepared, objects \cup {o}, stmtName, stmtsToDeallocate)
    <3>1. CASE o \in objects
      <4>1. objects \cup {o} = objects
        BY <3>1
      <4>. QED
        BY <2>2, <4>1 DEF HandleInv
    <3>2. CASE o \notin objects
      BY <1>1, <2>2, <3>2, NewObjectAgrees DEF HandleInv
    <3>. QED
      BY <3>1, <3>2
  <2>3. /\ \A p \in Object : stmtName'[p] <= stmtCounter'
        /\ \A n \in stmtsToDeallocate' : n <= stmtCounter'
    BY <1>1, <2>1, NameType DEF HandleInv
  <2>. QED
    BY <1>1, <2>1, <2>2, <2>3 DEF HandleInv, QueueDrained
<1>3. CASE NewName(o, srv.prepared)
  <2>1. /\ stmtName[o] = 0
        /\ srv'.prepared = srv.prepared \cup {stmtCounter + 1}
        /\ stmtName' = [stmtName EXCEPT ![o] = stmtCounter + 1]
        /\ stmtCounter' = stmtCounter + 1
    BY <1>3 DEF NewName
  <2>2. ASSUME srv.up
        PROVE  Agreement(srv'.prepared, objects', stmtName', stmtsToDeallocate')
    <3>1. /\ \A p \in Object : stmtName[p] <= stmtCounter
          /\ \A n \in stmtsToDeallocate : n \in Nat /\ n <= stmtCounter
          /\ Agreement(srv.prepared, objects, stmtName, stmtsToDeallocate)
      BY <2>2, NameType DEF HandleInv
    <3>2. Agreement(srv.prepared \cup {stmtCounter + 1}, objects \cup {o},
                    [stmtName EXCEPT ![o] = stmtCounter + 1], stmtsToDeallocate)
      BY <1>1, <2>1, <3>1, NewNameAgrees
    <3>. QED
      BY <2>1, <3>2
  <2>3. /\ \A p \in Object : stmtName'[p] <= stmtCounter'
        /\ \A n \in stmtsToDeallocate' : n <= stmtCounter'
        /\ \A p \in Object \ objects' : stmtName'[p] = 0
    BY <1>1, <2>1, NameType DEF HandleInv
  <2>. QED
    BY <1>1, <2>2, <2>3 DEF HandleInv, QueueDrained
<1>. QED
  BY <1>1, <1>2, <1>3

LEMMA PrepareHandles ==
  ASSUME TypeOK, HandleInv, NEW o \in Stmt, Prepare(o) PROVE HandleInv'
<1>1. o \in Object \ objects /\ stmtName[o] = 0
  BY DEF Prepare, HandleInv, Object
<1>2. stmtName' = stmtName /\ objects' = objects \cup {o}
  BY <1>1, NameType DEF Prepare
<1>3. srv.up => Agreement(srv.prepared, objects', stmtName, stmtsToDeallocate)
  BY <1>1, <1>2, NameType, NewObjectAgrees DEF HandleInv
<1>. QED
  BY <1>2, <1>3 DEF Prepare, HandleInv, QueueDrained, connVars, history

(* Outside of a transaction, the queue goes with the statement. *)
LEMMA DestroyHandles ==
  ASSUME TypeOK, HandleInv, NEW o, DestroyStatement(o) PROVE HandleInv'
<1>1. /\ o \in objects /\ o \in Object /\ objects' = objects \ {o}
      /\ stmtName' = [stmtName EXCEPT ![o] = 0]
      /\ UNCHANGED <<transactionActive, stmtCounter, endThrew>>
  BY DEF DestroyStatement, Object, history
<1>2. /\ \A p \in Object : stmtName'[p] <= stmtCounter'
      /\ \A p \in Object \ objects' : stmtName'[p] = 0
  BY <1>1, NameType DEF HandleInv
<1>3. CASE stmtName[o] = 0
  <2>1. UNCHANGED <<srv, stmtsToDeallocate>>
    BY <1>3 DEF DestroyStatement
  <2>2. srv.up => Agreement(srv.prepared, objects', stmtName', stmtsToDeallocate)
    BY <1>1, <1>3, NameType, DestroyedAgrees DEF HandleInv
  <2>. QED
    BY <1>1, <1>2, <2>1, <2>2 DEF HandleInv, QueueDrained
<1>4. CASE stmtName[o] # 0
  <2>. DEFINE n == stmtName[o]
              queue == stmtsToDeallocate \cup {n}
  <2>1. n \in Number /\ n <= stmtCounter /\ DeallocateStatement(n, srv)
    BY <1>1, <1>4, NameType DEF HandleInv, TypeOK, Number, DestroyStatement
  <2>2. srv.up => Agreement(srv.prepared, objects', stmtName', queue)
    BY <1>1, <1>4, NameType, DestroyedAgrees DEF HandleInv
  <2>3. /\ srv'.up = srv.up /\ srv'.txn = srv.txn
        /\ transactionActive = 0 =>
              /\ stmtsToDeallocate' = {}
              /\ Accepts(srv) => srv'.prepared = srv.prepared \ queue
        /\ transactionActive # 0 =>
              /\ stmtsToDeallocate' = queue
              /\ srv'.prepared = srv.prepared
    BY <2>1, NameType, DeallocateLemma
  <2>. HIDE DEF n, queue
  <2>4. CASE transactionActive = 0
    <3>1. srv.up => Accepts(srv)
      BY <2>4 DEF HandleInv, Accepts
    <3>2. srv.up => Agreement(srv'.prepared, objects', stmtName', {})
      BY <2>2, <2>3, <2>4, <3>1, DrainedAgrees
    <3>. QED
      BY <1>1, <1>2, <2>3, <2>4, <3>2 DEF HandleInv, QueueDrained
  <2>5. CASE transactionActive # 0
    <3>1. \A k \in stmtsToDeallocate' : k <= stmtCounter'
      BY <1>1, <2>1, <2>3, <2>5 DEF HandleInv, queue
    <3>. QED
      BY <1>1, <1>2, <2>2, <2>3, <2>5, <3>1 DEF HandleInv, QueueDrained
  <2>. QED
    BY <2>4, <2>5
<1>. QED
  BY <1>3, <1>4

LEMMA LockTableHandles ==
  ASSUME TypeOK, HandleInv, LockTable PROVE HandleInv'
<1>. DEFINE n == stmtCounter + 1
            queue == stmtsToDeallocate \cup {n}
<1>1. /\ n \in Number /\ stmtCounter' = n
      /\ UNCHANGED <<transactionActive, objects, stmtName, endThrew>>
  BY LockTableCases DEF LockTable, objVars
<1>2. \A p \in Object : stmtName'[p] <= stmtCounter'
  BY <1>1, NameType DEF HandleInv
<1>3. CASE srv' = Refused(srv) /\ stmtsToDeallocate' = stmtsToDeallocate
  <2>1. /\ srv'.up = srv.up /\ srv'.prepared = srv.prepared
        /\ srv.txn = "none" => srv'.txn = "none"
    BY <1>3, NameType, RefusedLemma DEF Agree
  <2>2. \A k \in stmtsToDeallocate' : k <= stmtCounter'
    BY <1>1, <1>3, NameType DEF HandleInv
  <2>. QED
    BY <1>1, <1>2, <1>3, <2>1, <2>2 DEF HandleInv, QueueDrained
<1>4. ASSUME NEW ok \in BOOLEAN, NEW s \in Server,
             DeallocateStatement(n, s), s.up = srv.up,
             s.prepared = srv.prepared \cup {n},
             s.txn = IF ~ok /\ srv.txn = "active" THEN "failed" ELSE srv.txn
      PROVE  HandleInv'
  <2>1. srv.up => Agreement(s.prepared, objects, stmtName, queue)
    BY <1>4, NameType, QueuedAgrees DEF HandleInv
  <2>2. /\ srv'.up = s.up /\ srv'.txn = s.txn
        /\ transactionActive = 0 =>
              /\ stmtsToDeallocate' = {}
              /\ Accepts(s) => srv'.prepared = s.prepared \ queue
        /\ transactionActive # 0 =>
              /\ stmtsToDeallocate' = queue
              /\ srv'.prepared = s.prepared
    BY <1>1, <1>4, DeallocateLemma
  <2>3. /\ srv'.up = srv.up
        /\ transactionActive = 0 => srv'.txn = "none" /\ (srv.up => Accepts(s))
    BY <1>4, <2>2 DEF HandleInv, Accepts
  <2>4. CASE transactionActive = 0
    <3>1. srv.up => Agreement(srv'.prepared, objects, stmtName, {})
      <4>. HIDE DEF queue
      <4>. QED
        BY <2>1, <2>2, <2>3, <2>4, DrainedAgrees
    <3>. QED
      BY <1>1, <1>2, <2>2, <2>3, <2>4, <3>1 DEF HandleInv, QueueDrained
  <2>5. CASE transactionActive # 0
    <3>1. \A k \in stmtsToDeallocate' : k <= stmtCounter'
      BY <1>1, <2>2, <2>5, NameType DEF HandleInv
    <3>. HIDE DEF queue
    <3>. QED
      BY <1>1, <1>2, <2>1, <2>2, <2>3, <2>5, <3>1 DEF HandleInv, QueueDrained
  <2>. QED
    BY <2>4, <2>5
<1>. QED
  BY <1>3, <1>4, LockTableCases

LEMMA ReconnectHandles == ASSUME TypeOK, Reconnect PROVE HandleInv'
<1>1. stmtName' = [o \in Object |-> 0] /\ objects' = {} /\ stmtsToDeallocate' = {}
  BY DEF Reconnect
<1>2. Names(objects', stmtName') = {}
  BY <1>1 DEF Names
<1>. QED
  BY <1>1, <1>2, ConstAssumption DEF Reconnect, HandleInv, Agreement, NewServer, QueueDrained

LEMMA CursorHandles ==
  ASSUME TypeOK, HandleInv, NEW c \in Cursor, DestroyCursor(c) \/ FetchFails
  PROVE  HandleInv'
<1>1. CASE DestroyCursor(c)
  <2>1. /\ srv'.up = srv.up /\ srv'.prepared = srv.prepared
        /\ srv.txn = "none" => srv'.txn = "none"
    BY <1>1, NameType, ClosedLemma, RefusedLemma DEF DestroyCursor
  <2>. QED
    BY <1>1, <2>1, HandlesKept DEF DestroyCursor, connVars, history
<1>2. CASE FetchFails
  <2>1. /\ srv'.up = srv.up /\ srv'.prepared = srv.prepared
        /\ srv.txn = "none" => srv'.txn = "none"
    BY <1>2, NameType, RefusedLemma DEF FetchFails, Agree
  <2>. QED
    BY <1>2, <2>1, HandlesKept DEF FetchFails, connVars, objVars
<1>. QED
  BY <1>1, <1>2

LEMMA HandleStep == TypeOK /\ HandleInv /\ [Next]_vars => HandleInv'
<1>. SUFFICES ASSUME TypeOK, HandleInv, [Next]_vars PROVE HandleInv'
  OBVIOUS
<1>1. CASE BeginTransaction
  BY <1>1, BeginHandles
<1>2. CASE CommitTransaction \/ RollbackTransaction
  BY <1>2, CommitCases, RollbackCases, EndInnerHandles, EndHandles
<1>3. CASE LastInsertId
  <2>1. PICK ok \in BOOLEAN : ExecPrepared(LastVal, ok, {})
    BY <1>3 DEF LastInsertId
  <2>2. LastVal \in Object /\ {} \in SUBSET Work
    BY DEF Object
  <2>. QED
    BY <1>3, <2>1, <2>2, ExecHandles DEF LastInsertId
<1>4. CASE LockTable
  BY <1>4, LockTableHandles
<1>5. CASE ServerLoss
  <2>1. srv'.up = FALSE /\ srv'.txn = "none"
    BY <1>5 DEF ServerLoss, NewServer
  <2>. QED
    BY <1>5, <2>1 DEF ServerLoss, HandleInv, QueueDrained, connVars, objVars, history
<1>6. CASE Reconnect
  BY <1>6, ReconnectHandles
<1>7. ASSUME NEW w \in Modification, ExecuteQuery(w) PROVE HandleInv'
  <2>1. /\ srv'.up = srv.up /\ srv'.prepared = srv.prepared
        /\ srv.txn = "none" => srv'.txn = "none"
    <3>1. srv' = Modified(srv, w) \/ srv' = Refused(srv)
      BY <1>7 DEF ExecuteQuery
    <3>2. srv \in Server /\ w \in SUBSET Work
      BY NameType, ModificationLemma
    <3>3. CASE srv' = Modified(srv, w)
      BY <3>2, <3>3, ModifiedLemma
    <3>4. CASE srv' = Refused(srv)
      BY <3>2, <3>4, RefusedLemma DEF Agree
    <3>. QED
      BY <3>1, <3>3, <3>4
  <2>. QED
    BY <1>7, <2>1, HandlesKept DEF ExecuteQuery, connVars, objVars
<1>8. ASSUME NEW o \in Stmt, Prepare(o) PROVE HandleInv'
  BY <1>8, PrepareHandles
<1>9. ASSUME NEW o \in Stmt, DestroyStatement(o) PROVE HandleInv'
  BY <1>9, DestroyHandles
<1>10. ASSUME NEW o \in Stmt, NEW w \in Modification, Execute(o, w) PROVE HandleInv'
  <2>1. PICK ok \in BOOLEAN : ExecPrepared(o, ok, w)
    BY <1>10 DEF Execute
  <2>2. o \in Object /\ objects' = objects \cup {o}
    BY <1>10 DEF Execute, Object
  <2>3. UNCHANGED <<transactionActive, stmtsToDeallocate, endThrew>>
    BY <1>10 DEF Execute
  <2>. QED
    BY <2>1, <2>2, <2>3, ExecHandles, ModificationLemma
<1>11. ASSUME NEW o \in Stmt, NEW c \in Cursor, BeginIterator(c, o) PROVE HandleInv'
  <2>1. /\ srv'.up = srv.up /\ srv'.prepared = srv.prepared
        /\ srv.txn = "none" => srv'.txn = "none"
    BY <1>11, NameType, BeginIteratorCases, RefusedLemma, DeclaredLemma
  <2>. QED
    BY <1>11, <2>1, HandlesKept DEF BeginIterator, connVars
<1>12. ASSUME NEW c \in Cursor, NextRow(c) PROVE HandleInv'
  BY <1>12, NextRowCases, CursorHandles
<1>13. ASSUME NEW c \in Cursor, DestroyCursor(c) PROVE HandleInv'
  BY <1>13, CursorHandles
<1>14. CASE UNCHANGED vars
  BY <1>14 DEF vars, connVars, objVars, history, HandleInv, QueueDrained
<1>. QED
  BY <1>1, <1>2, <1>3, <1>4, <1>5, <1>6, <1>7, <1>8, <1>9, <1>10, <1>11, <1>12, <1>13, <1>14 DEF Next

LEMMA HandlesHold == Spec => []HandleInv
<1>1. Init => HandleInv
  BY InitHandles
<1>2. TypeOK /\ HandleInv /\ [Next]_vars => HandleInv'
  BY HandleStep
<1>. QED
  BY <1>1, <1>2, TypeCorrect, PTL DEF Spec

(* What the server has prepared is what the statements own and what waits   *)
(* to be deallocated.                                                       *)
THEOREM HandlesAgreeHolds == Spec => []HandlesAgree
<1>1. HandleInv => HandlesAgree
  BY DEF HandleInv, Agreement, Names, HandlesAgree, Owned
<1>. QED
  BY <1>1, HandlesHold, PTL

(* Nothing waits to be deallocated when no transaction is active.           *)
THEOREM QueueDrainedHolds == Spec => []QueueDrained
<1>1. HandleInv => QueueDrained
  BY DEF HandleInv
<1>. QED
  BY <1>1, HandlesHold, PTL


-------------------------------------------------------------------------------
(* Cursors and commits.  With cursors that stay within transactions, the    *)
(* open cursors of a living transaction are exactly the program's, so that  *)
(* closing one never fails, and a transaction only fails by a call that     *)
(* throws; a transaction that did not fail holds the program's work.        *)

SessionOrder(s, live) ==
    /\ ~s.up => s.txn = "none" /\ s.held = {} /\ s.declared = {}
    /\ s.txn = "none" => s.declared = {}
    /\ s.txn # "none" => s.held = {}
    /\ s.txn # "failed" => Open(s) \subseteq live
    /\ s.txn = "active" => live \subseteq s.declared

Counted(s, depth) ==
    /\ s.up /\ depth > 0 => s.txn # "none"
    /\ depth = 0 => s.txn = "none"

WorkKept ==
    /\ told \subseteq durable
    /\ transactionActive = 0 => mine = {}
    /\ srv.txn = "active" /\ clean => mine \subseteq srv.pending
    /\ srv.txn = "failed" => ~clean

CursorInv == SessionOrder(srv, LiveCursors) /\ Counted(srv, transactionActive) /\ WorkKept

LEMMA InitCursors == Init => CursorInv
<1>. SUFFICES ASSUME Init PROVE CursorInv
  OBVIOUS
<1>1. LiveCursors = {} /\ Open(srv) = {}
  BY DEF Init, LiveCursors, NewServer, Open
<1>. QED
  BY <1>1 DEF Init, CursorInv, SessionOrder, Counted, WorkKept, NewServer

(* What an error or nothing at all leaves of the order. *)
LEMMA OrderKept ==
  ASSUME NEW s \in Server, NEW r \in Server, NEW live, NEW depth,
         SessionOrder(s, live), Counted(s, depth),
         r.up = s.up, r.held = s.held, r.declared = s.declared,
         r.txn = s.txn \/ (s.txn = "active" /\ r.txn = "failed")
  PROVE  SessionOrder(r, live) /\ Counted(r, depth)
BY DEF SessionOrder, Counted, Open

(* A step that changes no cursor and no work. *)
LEMMA NothingDone ==
  ASSUME TypeOK, CursorInv, srv' \in Server,
         srv'.up = srv.up, srv'.held = srv.held, srv'.declared = srv.declared,
         srv'.pending = srv.pending,
         \/ srv'.txn = srv.txn /\ (Throws(TRUE) \/ Throws(FALSE) \/ clean' = clean)
         \/ srv.txn = "active" /\ srv'.txn = "failed" /\ Throws(TRUE),
         UNCHANGED <<transactionActive, cursorOf, durable, mine, told>>
  PROVE  CursorInv'
<1>1. SessionOrder(srv', LiveCursors) /\ Counted(srv', transactionActive)
  BY NameType, OrderKept DEF CursorInv
<1>2. LiveCursors' = LiveCursors
  BY DEF LiveCursors
<1>3. WorkKept'
  <2>1. CASE srv'.txn = srv.txn /\ (Throws(TRUE) \/ Throws(FALSE) \/ clean' = clean)
    <3>1. clean' => clean
      BY <2>1 DEF Throws, TypeOK
    <3>. QED
      BY <2>1, <3>1 DEF CursorInv, WorkKept
  <2>2. CASE srv.txn = "active" /\ srv'.txn = "failed" /\ Throws(TRUE)
    <3>1. transactionActive > 0
      BY <2>2, NameType DEF CursorInv, Counted
    <3>2. ~clean'
      BY <2>2, <3>1 DEF Throws
    <3>. QED
      BY <2>2, <3>2 DEF CursorInv, WorkKept
  <2>. QED
    BY <2>1, <2>2
<1>. QED
  BY <1>1, <1>2, <1>3 DEF CursorInv

LEMMA BeginCursors ==
  ASSUME Scoped, TypeOK, CursorInv, BeginTransaction PROVE CursorInv'
<1>1. LiveCursors' = LiveCursors /\ told' = told /\ durable' = durable
  BY DEF BeginTransaction, LiveCursors, objVars
<1>2. CASE UNCHANGED <<srv, mine, clean>>
  <2>1. transactionActive' = 0 <=> transactionActive = 0
    <3>1. CASE transactionActive > 0
      BY <3>1, NameType DEF BeginTransaction
    <3>2. CASE transactionActive = 0
      <4>1. CASE transactionActive' = transactionActive
        BY <4>1
      <4>2. CASE srv' = [srv EXCEPT !.txn = "active"]
        <5>1. srv'.txn = "active"
          BY <4>2, NameType DEF Server
        <5>2. srv.txn = "active"
          BY <1>2, <5>1
        <5>. QED
          BY <3>2, <5>2 DEF CursorInv, Counted
      <4>. QED
        BY <3>2, <4>1, <4>2 DEF BeginTransaction
    <3>. QED
      BY <3>1, <3>2, NameType
  <2>2. transactionActive' \in Nat
    BY BeginType, ConstAssumption DEF TypeOK
  <2>. QED
    BY <1>1, <1>2, <2>1, <2>2, NameType DEF CursorInv, Counted, WorkKept
<1>3. CASE /\ transactionActive = 0 /\ srv.up /\ transactionActive' = 1
           /\ srv' = [srv EXCEPT !.txn = "active"] /\ mine' = {}
  <2>1. LiveCursors = {}
    BY <1>3 DEF BeginTransaction
  <2>2. srv.held = {} /\ srv.declared = {}
    BY <1>3, <2>1 DEF CursorInv, Counted, SessionOrder, Open
  <2>3. /\ srv'.txn = "active" /\ srv'.up /\ srv'.held = {} /\ srv'.declared = {}
    BY <1>3, <2>2, NameType DEF Server
  <2>. QED
    BY <1>1, <1>3, <2>1, <2>3 DEF CursorInv, SessionOrder, Counted, WorkKept, Open
<1>. QED
  BY <1>2, <1>3, NameType DEF BeginTransaction

LEMMA EndInnerCursors == ASSUME TypeOK, CursorInv, EndInner PROVE CursorInv'
<1>1. transactionActive' \in Nat /\ transactionActive' # 0 /\ transactionActive > 0
  BY NameType DEF EndInner, CountedDown
<1>2. LiveCursors' = LiveCursors /\ UNCHANGED <<srv, durable, told, mine, clean>>
  BY DEF EndInner, LiveCursors, objVars, history
<1>. QED
  BY <1>1, <1>2 DEF CursorInv, Counted, WorkKept

(* The outermost end leaves no cursor and no transaction. *)
LEMMA EndCursors ==
  ASSUME Scoped, TypeOK, CursorInv,
         NEW committed \in BOOLEAN, EndStep(EndedAs(srv, committed), committed),
         told' \subseteq durable'
  PROVE  CursorInv'
<1>. DEFINE s == EndedAs(srv, committed)
<1>1. /\ LiveCursors = {} /\ LiveCursors' = {} /\ mine' = {}
  BY DEF EndStep, EndOutermost, LiveCursors, objVars
<1>2. s \in Server /\ s.txn = "none" /\ s.declared = {} /\ s.held = {}
  <2>1. srv.held = {}
    BY <1>1 DEF CursorInv, SessionOrder, Open
  <2>2. committed => srv.declared = {}
    BY <1>1 DEF CursorInv, SessionOrder, Open, EndStep
  <2>. QED
    BY <2>1, <2>2, NameType, EndedLemma
<1>3. EndReturned(s) \/ EndThrew(s)
  BY DEF EndStep
<1>. HIDE DEF s
<1>4. srv' \in Server /\ srv'.txn = "none" /\ srv'.declared = {} /\ srv'.held = {}
  BY <1>2, <1>3, EndReturnedLemma DEF EndThrew
<1>5. transactionActive' = 0
  BY NameType DEF EndStep, EndOutermost, CountedDown
<1>. QED
  BY <1>1, <1>4, <1>5 DEF CursorInv, SessionOrder, Counted, WorkKept, Open

(* A commit that returns has committed what the program did, when nothing   *)
(* threw before it.                                                         *)
LEMMA CommitKeeps ==
  ASSUME TypeOK, CursorInv, CommitTransaction PROVE told' \subseteq durable'
<1>1. CASE EndInner
  BY <1>1 DEF EndInner, history, CursorInv, WorkKept
<1>2. CASE /\ srv.up
           /\ durable' = IF srv.txn = "active" THEN durable \cup srv.pending ELSE durable
           /\ told' = IF clean THEN told \cup mine ELSE told
  <2>1. CASE clean
    <3>1. srv.txn = "active" \/ mine = {}
      BY <1>2, <2>1, NameType DEF CursorInv, WorkKept, Counted, Server
    <3>. QED
      BY <1>2, <2>1, <3>1 DEF CursorInv, WorkKept
  <2>2. CASE ~clean
    BY <1>2, <2>2 DEF CursorInv, WorkKept
  <2>. QED
    BY <2>1, <2>2
<1>3. CASE durable \subseteq durable' /\ told' = told
  BY <1>3 DEF CursorInv, WorkKept
<1>. QED
  BY <1>1, <1>2, <1>3 DEF CommitTransaction

(* A modification is pending with the transaction's, or durable. *)
LEMMA WorkDone ==
  ASSUME TypeOK, CursorInv, NEW ok \in BOOLEAN, NEW w \in SUBSET Work,
         srv' \in Server,
         ok => Accepts(srv),
         srv'.up = srv.up, srv'.held = srv.held, srv'.declared = srv.declared,
         srv'.txn = IF ~ok /\ srv.txn = "active" THEN "failed" ELSE srv.txn,
         srv'.pending = IF ok /\ srv.txn # "none" THEN srv.pending \cup w ELSE srv.pending,
         durable' = IF ok /\ srv.txn = "none" THEN durable \cup w ELSE durable,
         mine' = IF ok /\ transactionActive > 0 THEN mine \cup w ELSE mine,
         told' = IF ok /\ transactionActive = 0 THEN told \cup w ELSE told,
         Throws(~ok),
         UNCHANGED <<transactionActive, cursorOf>>
  PROVE  CursorInv'
<1>1. CASE ok
  <2>1. /\ srv.up /\ srv.txn # "failed" /\ srv'.txn = srv.txn
        /\ transactionActive = 0 <=> srv.txn = "none"
        /\ transactionActive > 0 <=> srv.txn # "none"
    BY <1>1, NameType DEF CursorInv, Counted, Accepts
  <2>2. SessionOrder(srv', LiveCursors) /\ Counted(srv', transactionActive)
    BY <2>1, NameType, OrderKept DEF CursorInv
  <2>3. LiveCursors' = LiveCursors /\ (clean' => clean)
    BY <1>1 DEF LiveCursors, Throws, TypeOK
  <2>4. WorkKept'
    <3>1. CASE srv.txn = "none"
      BY <1>1, <2>1, <3>1 DEF CursorInv, WorkKept
    <3>2. CASE srv.txn # "none"
      BY <1>1, <2>1, <2>3, <3>2 DEF CursorInv, WorkKept
    <3>. QED
      BY <3>1, <3>2
  <2>. QED
    BY <2>2, <2>3, <2>4 DEF CursorInv
<1>2. CASE ~ok
  <2>1. Throws(TRUE)
    BY <1>2 DEF Throws
  <2>2. \/ srv'.txn = srv.txn
        \/ srv.txn = "active" /\ srv'.txn = "failed"
    BY <1>2
  <2>. QED
    BY <1>2, <2>1, <2>2, NothingDone
<1>. QED
  BY <1>1, <1>2

LEMMA ExecuteQueryCursors ==
  ASSUME TypeOK, CursorInv, NEW w \in SUBSET Work, ExecuteQuery(w) PROVE CursorInv'
<1>1. PICK ok \in BOOLEAN :
        /\ ok => Accepts(srv)
        /\ srv' = IF ok THEN Modified(srv, w) ELSE Refused(srv)
        /\ durable' = IF ok /\ srv.txn = "none" THEN durable \cup w ELSE durable
        /\ mine' = IF ok /\ transactionActive > 0 THEN mine \cup w ELSE mine
        /\ told' = IF ok /\ transactionActive = 0 THEN told \cup w ELSE told
        /\ Throws(~ok)
  BY DEF ExecuteQuery
<1>2. /\ srv' \in Server
      /\ srv'.up = srv.up /\ srv'.held = srv.held /\ srv'.declared = srv.declared
      /\ srv'.txn = IF ~ok /\ srv.txn = "active" THEN "failed" ELSE srv.txn
      /\ srv'.pending = IF ok /\ srv.txn # "none" THEN srv.pending \cup w ELSE srv.pending
  <2>1. CASE ok
    BY <1>1, <2>1, NameType, ModifiedLemma
  <2>2. CASE ~ok
    BY <1>1, <2>2, NameType, RefusedLemma DEF Agree
  <2>. QED
    BY <2>1, <2>2
<1>3. UNCHANGED <<transactionActive, cursorOf>>
  BY DEF ExecuteQuery, connVars, objVars
<1>. QED
  BY <1>1, <1>2, <1>3, WorkDone

LEMMA ExecuteCursors ==
  ASSUME TypeOK, CursorInv, NEW o, NEW w \in SUBSET Work, Execute(o, w) PROVE CursorInv'
<1>1. PICK ok \in BOOLEAN :
        /\ ExecPrepared(o, ok, w)
        /\ mine' = IF ok /\ transactionActive > 0 THEN mine \cup w ELSE mine
        /\ told' = IF ok /\ transactionActive = 0 THEN told \cup w ELSE told
        /\ Throws(~ok)
  BY DEF Execute
<1>2. o \in Object /\ UNCHANGED <<transactionActive, cursorOf>>
  BY DEF Execute, Object
<1>3. /\ srv' \in Server /\ (ok => Accepts(srv))
      /\ srv'.up = srv.up /\ srv'.held = srv.held /\ srv'.declared = srv.declared
      /\ srv'.txn = IF ~ok /\ srv.txn = "active" THEN "failed" ELSE srv.txn
      /\ srv'.pending = IF ok /\ srv.txn # "none" THEN srv.pending \cup w ELSE srv.pending
      /\ durable' = IF ok /\ srv.txn = "none" THEN durable \cup w ELSE durable
  BY <1>1, <1>2, ExecLemma
<1>. QED
  BY <1>1, <1>2, <1>3, WorkDone

LEMMA LastInsertIdCursors ==
  ASSUME TypeOK, CursorInv, LastInsertId PROVE CursorInv'
<1>1. PICK ok \in BOOLEAN : ExecPrepared(LastVal, ok, {}) /\ Throws(~ok)
  BY DEF LastInsertId
<1>2. /\ LastVal \in Object /\ {} \in SUBSET Work
      /\ mine' = IF ok /\ transactionActive > 0 THEN mine \cup {} ELSE mine
      /\ told' = IF ok /\ transactionActive = 0 THEN told \cup {} ELSE told
      /\ UNCHANGED <<transactionActive, cursorOf>>
  BY DEF LastInsertId, Object
<1>3. /\ srv' \in Server /\ (ok => Accepts(srv))
      /\ srv'.up = srv.up /\ srv'.held = srv.held /\ srv'.declared = srv.declared
      /\ srv'.txn = IF ~ok /\ srv.txn = "active" THEN "failed" ELSE srv.txn
      /\ srv'.pending = IF ok /\ srv.txn # "none" THEN srv.pending \cup {} ELSE srv.pending
      /\ durable' = IF ok /\ srv.txn = "none" THEN durable \cup {} ELSE durable
  BY <1>1, <1>2, ExecLemma
<1>. QED
  BY <1>1, <1>2, <1>3, WorkDone

LEMMA LockTableCursors == ASSUME TypeOK, CursorInv, LockTable PROVE CursorInv'
<1>1. UNCHANGED <<transactionActive, cursorOf, durable, mine, told>>
  BY DEF LockTable, objVars
<1>2. CASE srv' = Refused(srv) /\ Throws(TRUE)
  BY <1>1, <1>2, NameType, RefusedLemma, NothingDone DEF Agree
<1>3. ASSUME NEW ok \in BOOLEAN, NEW s \in Server,
             DeallocateStatement(stmtCounter + 1, s), Throws(~ok),
             s.up = srv.up, s.held = srv.held, s.declared = srv.declared,
             s.pending = srv.pending,
             s.txn = IF ~ok /\ srv.txn = "active" THEN "failed" ELSE srv.txn
      PROVE  CursorInv'
  <2>1. /\ srv' \in Server /\ srv'.up = srv.up /\ srv'.held = srv.held
        /\ srv'.declared = srv.declared /\ srv'.pending = srv.pending /\ srv'.txn = s.txn
    BY <1>3, LockTableCases, DeallocateLemma
  <2>2. CASE ok
    <3>1. Throws(FALSE)
      BY <1>3, <2>2 DEF Throws
    <3>. QED
      BY <1>1, <1>3, <2>1, <2>2, <3>1, NothingDone
  <2>3. CASE ~ok
    <3>1. Throws(TRUE)
      BY <1>3, <2>3 DEF Throws
    <3>. QED
      BY <1>1, <1>3, <2>1, <2>3, <3>1, NothingDone
  <2>. QED
    BY <2>2, <2>3
<1>. QED
  BY <1>2, <1>3, LockTableCases

LEMMA DestroyStatementCursors ==
  ASSUME TypeOK, CursorInv, NEW o, DestroyStatement(o) PROVE CursorInv'
<1>1. UNCHANGED <<transactionActive, cursorOf, durable, mine, told, clean>>
  BY DEF DestroyStatement, history
<1>2. /\ srv' \in Server /\ srv'.up = srv.up /\ srv'.held = srv.held
      /\ srv'.declared = srv.declared /\ srv'.pending = srv.pending /\ srv'.txn = srv.txn
  <2>1. CASE stmtName[o] = 0
    BY <2>1, NameType DEF DestroyStatement
  <2>2. CASE stmtName[o] # 0
    <3>1. stmtName[o] \in Number /\ DeallocateStatement(stmtName[o], srv)
      BY <2>2, ConstAssumption DEF DestroyStatement, TypeOK, Number, Object
    <3>. QED
      BY <3>1, NameType, DeallocateLemma
  <2>. QED
    BY <2>1, <2>2
<1>. QED
  BY <1>1, <1>2, NothingDone

(* In a living transaction the cursor is open, so that closing it succeeds. *)
LEMMA DestroyCursorCursors ==
  ASSUME TypeOK, CursorInv, NEW c \in Cursor, DestroyCursor(c) PROVE CursorInv'
<1>1. LiveCursors' = LiveCursors \ {c} /\ c \in LiveCursors
  BY DEF DestroyCursor, LiveCursors, TypeOK
<1>2. UNCHANGED <<transactionActive, durable, mine, told, clean>> /\ srv' = Closed(srv, c)
  BY DEF DestroyCursor, connVars, history
<1>3. /\ srv' \in Server /\ srv'.up = srv.up /\ srv'.pending = srv.pending
      /\ srv'.txn = srv.txn
      /\ SessionOrder(srv', LiveCursors \ {c})
  <2>1. CASE Accepts(srv) /\ c \in Open(srv)
    <3>1. /\ srv' \in Server /\ srv'.up = srv.up /\ srv'.pending = srv.pending
          /\ srv'.txn = srv.txn
          /\ srv'.held = srv.held \ {c} /\ srv'.declared = srv.declared \ {c}
      BY <1>2, <2>1, NameType, ClosedLemma
    <3>. QED
      BY <3>1 DEF CursorInv, SessionOrder, Open
  <2>2. CASE ~(Accepts(srv) /\ c \in Open(srv))
    <3>1. srv.txn # "active"
      BY <1>1, <2>2 DEF CursorInv, SessionOrder, Open, Accepts
    <3>2. /\ srv' \in Server /\ srv'.up = srv.up /\ srv'.pending = srv.pending
          /\ srv'.txn = srv.txn /\ srv'.held = srv.held /\ srv'.declared = srv.declared
      BY <1>2, <2>2, <3>1, NameType, ClosedLemma, RefusedLemma DEF Agree
    <3>3. srv.txn # "failed" => c \notin Open(srv)
      BY <2>2 DEF CursorInv, SessionOrder, Open, Accepts
    <3>. QED
      BY <3>1, <3>2, <3>3 DEF CursorInv, SessionOrder, Open
  <2>. QED
    BY <2>1, <2>2
<1>. QED
  BY <1>1, <1>2, <1>3 DEF CursorInv, Counted, WorkKept

LEMMA FetchFailsCursors == ASSUME TypeOK, CursorInv, FetchFails PROVE CursorInv'
BY NameType, RefusedLemma, NothingDone DEF FetchFails, connVars, objVars, Agree

LEMMA BeginIteratorCursors ==
  ASSUME TypeOK, CursorInv, NEW c \in Cursor, NEW o \in Stmt, BeginIterator(c, o)
  PROVE  CursorInv'
<1>1. UNCHANGED <<transactionActive, durable, mine, told>>
  BY DEF BeginIterator, connVars
<1>2. /\ srv' \in Server /\ srv'.up = srv.up /\ srv'.pending = srv.pending
  BY BeginIteratorCases
<1>3. CASE srv' = Refused(srv) /\ cursorOf' = cursorOf /\ Throws(TRUE)
  BY <1>1, <1>3, NameType, RefusedLemma, NothingDone DEF Agree
<1>4. CASE /\ Accepts(srv) /\ cursorOf' = [cursorOf EXCEPT ![c] = o]
           /\ srv' = Declared(srv, c) /\ Throws(FALSE)
  <2>1. LiveCursors' = LiveCursors \cup {c}
    BY <1>4, ConstAssumption DEF LiveCursors, TypeOK
  <2>2. /\ srv'.txn = srv.txn
        /\ srv'.held = IF srv.txn = "none" THEN srv.held \cup {c} ELSE srv.held
        /\ srv'.declared = IF srv.txn = "none" THEN srv.declared ELSE srv.declared \cup {c}
    BY <1>4, NameType, DeclaredLemma
  <2>3. SessionOrder(srv', LiveCursors \cup {c})
    BY <1>2, <1>4, <2>2 DEF CursorInv, SessionOrder, Open, Accepts
  <2>4. clean' => clean
    BY <1>4 DEF Throws, TypeOK
  <2>. QED
    BY <1>1, <1>2, <2>1, <2>2, <2>3, <2>4 DEF CursorInv, Counted, WorkKept
<1>5. CASE /\ cursorOf' = cursorOf
           /\ srv'.held = srv.held /\ srv'.declared = srv.declared /\ srv'.txn = srv.txn
           /\ Throws(FALSE) \/ (Throws(TRUE) /\ srv.txn = "none")
  BY <1>1, <1>2, <1>5, NothingDone
<1>6. CASE /\ cursorOf' = cursorOf
           /\ srv.txn = "active" /\ srv'.txn = "failed"
           /\ srv'.held = srv.held
           /\ Throws(TRUE)
  <2>1. srv.up /\ transactionActive > 0 /\ srv.held = {}
    BY <1>6, NameType DEF CursorInv, SessionOrder, Counted
  <2>2. ~clean'
    BY <1>6, <2>1 DEF Throws
  <2>3. SessionOrder(srv', LiveCursors') /\ Counted(srv', transactionActive')
    BY <1>1, <1>2, <1>6, <2>1 DEF SessionOrder, Counted
  <2>. QED
    BY <1>1, <1>6, <2>1, <2>2, <2>3 DEF CursorInv, WorkKept
<1>. QED
  BY <1>3, <1>4, <1>5, <1>6, BeginIteratorCases

LEMMA ServerLossCursors == ASSUME TypeOK, CursorInv, ServerLoss PROVE CursorInv'
<1>1. /\ srv'.up = FALSE /\ srv'.txn = "none" /\ srv'.held = {} /\ srv'.declared = {}
  BY DEF ServerLoss, NewServer
<1>2. UNCHANGED <<transactionActive, durable, mine, told>>
  BY DEF ServerLoss, connVars, history
<1>. QED
  BY <1>1, <1>2 DEF CursorInv, SessionOrder, Counted, WorkKept, Open

LEMMA ReconnectCursors == ASSUME TypeOK, CursorInv, Reconnect PROVE CursorInv'
<1>1. /\ srv'.up = TRUE /\ srv'.txn = "none" /\ srv'.held = {} /\ srv'.declared = {}
  BY DEF Reconnect, NewServer
<1>2. transactionActive' = 0 /\ mine' = {} /\ UNCHANGED <<durable, told>>
  BY DEF Reconnect
<1>. QED
  BY <1>1, <1>2 DEF CursorInv, SessionOrder, Counted, WorkKept, Open

LEMMA CursorStep == ASSUME Scoped PROVE TypeOK /\ CursorInv /\ [Next]_vars => CursorInv'
<1>. SUFFICES ASSUME TypeOK, CursorInv, [Next]_vars PROVE CursorInv'
  OBVIOUS
<1>1. CASE BeginTransaction
  BY <1>1, BeginCursors
<1>2. CASE CommitTransaction
  BY <1>2, CommitCases, EndInnerCursors, EndCursors, CommitKeeps
<1>3. CASE RollbackTransaction
  <2>1. CASE EndInner
    BY <2>1, EndInnerCursors
  <2>2. CASE durable' = durable /\ told' = told
    BY <1>3, <2>2, RollbackCases, EndInnerCursors, EndCursors DEF CursorInv, WorkKept
  <2>. QED
    BY <1>3, <2>1, <2>2, RollbackCases
<1>4. CASE LastInsertId
  BY <1>4, LastInsertIdCursors
<1>5. CASE LockTable
  BY <1>5, LockTableCursors
<1>6. CASE ServerLoss
  BY <1>6, ServerLossCursors
<1>7. CASE Reconnect
  BY <1>7, ReconnectCursors
<1>8. ASSUME NEW w \in Modification, ExecuteQuery(w) PROVE CursorInv'
  BY <1>8, ExecuteQueryCursors, ModificationLemma
<1>9. ASSUME NEW o \in Stmt, Prepare(o) PROVE CursorInv'
  <2>1. /\ UNCHANGED <<transactionActive, srv, durable, mine, told, clean>>
        /\ LiveCursors' = LiveCursors
    BY <1>9 DEF Prepare, connVars, history, LiveCursors
  <2>. QED
    BY <2>1 DEF CursorInv, WorkKept
<1>10. ASSUME NEW o \in Stmt, DestroyStatement(o) PROVE CursorInv'
  BY <1>10, DestroyStatementCursors
<1>11. ASSUME NEW o \in Stmt, NEW w \in Modification, Execute(o, w) PROVE CursorInv'
  BY <1>11, ExecuteCursors, ModificationLemma
<1>12. ASSUME NEW o \in Stmt, NEW c \in Cursor, BeginIterator(c, o) PROVE CursorInv'
  BY <1>12, BeginIteratorCursors
<1>13. ASSUME NEW c \in Cursor, NextRow(c) PROVE CursorInv'
  BY <1>13, NextRowCases, DestroyCursorCursors, FetchFailsCursors
<1>14. ASSUME NEW c \in Cursor, DestroyCursor(c) PROVE CursorInv'
  BY <1>14, DestroyCursorCursors
<1>15. CASE UNCHANGED vars
  BY <1>15 DEF vars, connVars, objVars, history, CursorInv, WorkKept, LiveCursors
<1>. QED
  BY <1>1, <1>2, <1>3, <1>4, <1>5, <1>6, <1>7, <1>8, <1>9, <1>10, <1>11, <1>12, <1>13,
     <1>14, <1>15 DEF Next

LEMMA CursorsHold == ASSUME Scoped PROVE Spec => []CursorInv
<1>1. Init => CursorInv
  BY InitCursors
<1>2. TypeOK /\ CursorInv /\ [Next]_vars => CursorInv'
  BY CursorStep
<1>. QED
  BY <1>1, <1>2, TypeCorrect, PTL DEF Spec

(* When no cursor crosses the begin or end of a transaction, the server     *)
(* keeps no cursor that has lost its object.                                *)
THEOREM CursorsClosedHolds == ASSUME Scoped PROVE Spec => []CursorsClosed
<1>1. CursorInv => CursorsClosed
  BY DEF CursorInv, SessionOrder, CursorsClosed
<1>. QED
  BY <1>1, CursorsHold, PTL

(* When no cursor crosses the begin or end of a transaction, a commit that  *)
(* returns after calls that all returned has made the work durable.         *)
THEOREM CommitKeepsWorkHolds == ASSUME Scoped PROVE Spec => []CommitKeepsWork
<1>1. CursorInv => CommitKeepsWork
  BY DEF CursorInv, WorkKept, CommitKeepsWork
<1>. QED
  BY <1>1, CursorsHold, PTL

-------------------------------------------------------------------------------
(* The driver is the counting session the other modules rely on.            *)

SessIs(s, up, depth, open) ==
    /\ s \in Driver!Session
    /\ s.depth = depth
    /\ s.up <=> up
    /\ s.open <=> open

LEMMA SessionValue ==
  /\ TypeOK => SessIs(sess, srv.up, transactionActive, srv.txn # "none")
  /\ TypeOK' => SessIs(sess', srv'.up, transactionActive', srv'.txn # "none")
<1>1. TypeOK => SessIs(sess, srv.up, transactionActive, srv.txn # "none")
  BY NameType DEF SessIs, sess, Server, Driver!Session
<1>2. TypeOK' => srv' \in Server /\ transactionActive' \in Nat
  BY ConstAssumption DEF TypeOK
<1>3. TypeOK' => SessIs(sess', srv'.up, transactionActive', srv'.txn # "none")
  BY <1>2 DEF SessIs, sess, Server, Driver!Session
<1>. QED
  BY <1>1, <1>3

LEMMA SessionEq ==
  ASSUME NEW s, NEW t, NEW up, NEW depth, NEW open,
         SessIs(s, up, depth, open), SessIs(t, up, depth, open)
  PROVE  s = t
BY DEF SessIs, Driver!Session

(* A command does not begin or end a transaction of the server. *)
LEMMA SessionKept ==
  ASSUME TypeOK, UNCHANGED transactionActive, srv'.up = srv.up,
         (srv'.txn # "none") = (srv.txn # "none")
  PROVE  UNCHANGED sess
BY DEF sess

LEMMA FreshSession == SessIs(Driver!Fresh, TRUE, 0, FALSE)
BY DEF SessIs, Driver!Fresh, Driver!Session

LEMMA DriverInit == Init => Driver!Init
<1>. SUFFICES ASSUME Init PROVE Driver!Init
  OBVIOUS
<1>1. srv.txn = "none" /\ srv.up = TRUE /\ transactionActive = 0
  BY DEF Init, NewServer
<1>2. SessIs(sess, TRUE, 0, FALSE)
  BY <1>1, InitType, SessionValue
<1>. QED
  BY <1>2, FreshSession, SessionEq DEF Driver!Init

LEMMA DriverBegun ==
  ASSUME NEW s, NEW up, NEW depth, NEW open, SessIs(s, up, depth, open)
  PROVE  /\ depth > 0 => /\ Driver!BeginMay(s, TRUE)
                         /\ SessIs(Driver!Begun(s, TRUE), up, depth + 1, open)
         /\ depth = 0 /\ up => /\ Driver!BeginMay(s, TRUE)
                               /\ SessIs(Driver!Begun(s, TRUE), up, depth + 1, TRUE)
<1>1. s \in Driver!Session /\ s.depth = depth /\ (s.up <=> up) /\ (s.open <=> open)
  BY DEF SessIs
<1>2. Driver!Begun(s, TRUE) = [s EXCEPT !.depth = @ + 1, !.open = s.open \/ Driver!TellsBegin(s)]
  BY DEF Driver!Begun
<1>3. s.depth + 1 \in Nat /\ (s.open \/ Driver!TellsBegin(s)) \in BOOLEAN
  BY <1>1 DEF Driver!Session
<1>4. /\ Driver!Begun(s, TRUE) \in Driver!Session
      /\ Driver!Begun(s, TRUE).depth = depth + 1
      /\ Driver!Begun(s, TRUE).up <=> up
      /\ Driver!Begun(s, TRUE).open <=> open \/ Driver!TellsBegin(s)
  BY <1>1, <1>2, <1>3 DEF Driver!Session
<1>5. Driver!TellsBegin(s) <=> depth = 0
  BY <1>1 DEF Driver!TellsBegin
<1>6. CASE depth > 0
  <2>1. depth # 0
    BY <1>6
  <2>2. Driver!BeginMay(s, TRUE)
    BY <1>5, <2>1 DEF Driver!BeginMay
  <2>. QED
    BY <1>4, <1>5, <2>1, <2>2 DEF SessIs
<1>7. CASE depth = 0
  <2>1. up => Driver!BeginMay(s, TRUE)
    BY <1>1 DEF Driver!BeginMay
  <2>2. SessIs(Driver!Begun(s, TRUE), up, depth + 1, TRUE)
    BY <1>4, <1>5, <1>7 DEF SessIs
  <2>3. ~(depth > 0)
    BY <1>7
  <2>. QED
    BY <2>1, <2>2, <2>3
<1>. QED
  BY <1>1, <1>6, <1>7 DEF Driver!Session

LEMMA DriverEnded ==
  ASSUME NEW s, NEW up, NEW depth, NEW open \in BOOLEAN, SessIs(s, up, depth, open)
  PROVE  /\ depth > 1 => /\ Driver!EndMay(s, TRUE, open)
                         /\ SessIs(Driver!Ended(s, open), up, depth - 1, open)
         /\ depth <= 1 => /\ Driver!EndMay(s, FALSE, FALSE)
                          /\ SessIs(Driver!Ended(s, FALSE), up, 0, FALSE)
<1>1. /\ s \in Driver!Session /\ s.depth = depth /\ (s.up <=> up) /\ (s.open <=> open)
      /\ depth \in Nat /\ s.open \in BOOLEAN
  BY DEF SessIs, Driver!Session
<1>2. Driver!CountDown(s) = IF depth > 1 THEN depth - 1 ELSE 0
  BY <1>1 DEF Driver!CountDown
<1>3. Driver!CountDown(s) \in Nat
  BY <1>1, <1>2
<1>4. /\ SessIs(Driver!Ended(s, open), up, Driver!CountDown(s), open)
      /\ SessIs(Driver!Ended(s, FALSE), up, Driver!CountDown(s), FALSE)
  BY <1>1, <1>3 DEF SessIs, Driver!Ended, Driver!Session
<1>5. CASE depth > 1
  <2>1. Driver!CountDown(s) = depth - 1 /\ Driver!CountDown(s) > 0
    BY <1>1, <1>2, <1>5
  <2>2. open = s.open
    BY <1>1
  <2>3. Driver!EndMay(s, TRUE, open)
    BY <2>1, <2>2 DEF Driver!EndMay
  <2>4. SessIs(Driver!Ended(s, open), up, depth - 1, open)
    BY <1>4, <2>1
  <2>5. ~(depth <= 1)
    BY <1>1, <1>5
  <2>. QED
    BY <2>3, <2>4, <2>5
<1>6. CASE depth <= 1
  <2>1. Driver!CountDown(s) = 0
    BY <1>1, <1>2, <1>6
  <2>2. Driver!EndMay(s, FALSE, FALSE)
    BY <2>1 DEF Driver!EndMay
  <2>3. SessIs(Driver!Ended(s, FALSE), up, 0, FALSE)
    BY <1>4, <2>1
  <2>4. ~(depth > 1)
    BY <1>1, <1>6
  <2>. QED
    BY <2>2, <2>3, <2>4
<1>. QED
  BY <1>1, <1>5, <1>6

LEMMA DriverBegin ==
  ASSUME TypeOK, BeginTransaction PROVE Driver!BeginTransaction \/ UNCHANGED sess
<1>1. /\ SessIs(sess, srv.up, transactionActive, srv.txn # "none")
      /\ SessIs(sess', srv'.up, transactionActive', srv'.txn # "none")
  BY BeginType, SessionValue
<1>2. CASE transactionActive > 0
  <2>1. transactionActive' = transactionActive + 1 /\ srv' = srv
    BY <1>2 DEF BeginTransaction
  <2>2. /\ Driver!BeginMay(sess, TRUE)
        /\ SessIs(Driver!Begun(sess, TRUE), srv'.up, transactionActive', srv'.txn # "none")
    BY <1>1, <1>2, <2>1, DriverBegun
  <2>3. sess' = Driver!Begun(sess, TRUE)
    BY <1>1, <2>2, SessionEq
  <2>. QED
    BY <2>2, <2>3 DEF Driver!BeginTransaction
<1>3. CASE UNCHANGED <<transactionActive, srv>>
  BY <1>3 DEF sess
<1>4. CASE /\ transactionActive = 0 /\ srv.up /\ transactionActive' = 1
           /\ srv' = [srv EXCEPT !.txn = "active"]
  <2>1. srv'.txn = "active" /\ srv'.up = srv.up
    BY <1>4, NameType DEF Server
  <2>2. (srv'.txn # "none") = TRUE
    BY <2>1
  <2>3. SessIs(sess', srv.up, transactionActive + 1, TRUE)
    BY <1>1, <1>4, <2>1, <2>2 DEF SessIs
  <2>4. /\ Driver!BeginMay(sess, TRUE)
        /\ SessIs(Driver!Begun(sess, TRUE), srv.up, transactionActive + 1, TRUE)
    BY <1>1, <1>4, DriverBegun
  <2>5. sess' = Driver!Begun(sess, TRUE)
    BY <2>3, <2>4, SessionEq
  <2>. QED
    BY <2>4, <2>5 DEF Driver!BeginTransaction
<1>. QED
  BY <1>2, <1>3, <1>4, NameType DEF BeginTransaction

LEMMA DriverEnd ==
  ASSUME TypeOK, TypeOK', CommitTransaction \/ RollbackTransaction PROVE Driver!EndTransaction
<1>1. /\ SessIs(sess, srv.up, transactionActive, srv.txn # "none")
      /\ SessIs(sess', srv'.up, transactionActive', srv'.txn # "none")
  BY SessionValue
<1>2. CASE EndInner
  <2>1. transactionActive' = transactionActive - 1 /\ transactionActive > 1 /\ srv' = srv
    BY <1>2, NameType DEF EndInner, CountedDown
  <2>. DEFINE open == srv.txn # "none"
  <2>2. /\ Driver!EndMay(sess, TRUE, open)
        /\ SessIs(Driver!Ended(sess, open), srv'.up, transactionActive', srv'.txn # "none")
    BY <1>1, <2>1, DriverEnded
  <2>3. sess' = Driver!Ended(sess, open)
    BY <1>1, <2>2, SessionEq
  <2>4. open \in BOOLEAN
    OBVIOUS
  <2>. HIDE DEF open
  <2>. QED
    BY <2>2, <2>3, <2>4 DEF Driver!EndTransaction
<1>3. ASSUME NEW committed \in BOOLEAN, EndStep(EndedAs(srv, committed), committed)
      PROVE  Driver!EndTransaction
  <2>. DEFINE s == EndedAs(srv, committed)
  <2>1. s \in Server /\ s.up = srv.up /\ s.txn = "none"
    BY NameType, EndedLemma
  <2>2. (srv.up /\ EndReturned(s)) \/ EndThrew(s)
    BY <1>3 DEF EndStep
  <2>. HIDE DEF s
  <2>3. srv'.up = srv.up /\ srv'.txn = "none"
    BY <2>1, <2>2, EndReturnedLemma DEF EndThrew
  <2>4. transactionActive <= 1 /\ transactionActive' = 0
    BY <1>3, NameType DEF EndStep, EndOutermost, CountedDown
  <2>5. (srv'.txn # "none") = FALSE
    BY <2>3
  <2>6. SessIs(sess', srv.up, 0, FALSE)
    BY <1>1, <2>3, <2>4, <2>5
  <2>7. Driver!EndMay(sess, FALSE, FALSE) /\ SessIs(Driver!Ended(sess, FALSE), srv.up, 0, FALSE)
    BY <1>1, <2>4, DriverEnded
  <2>8. sess' = Driver!Ended(sess, FALSE)
    BY <2>6, <2>7, SessionEq
  <2>. QED
    BY <2>7, <2>8 DEF Driver!EndTransaction
<1>. QED
  BY <1>2, <1>3, CommitCases, RollbackCases

LEMMA DriverStep == TypeOK /\ [Next]_vars => [Driver!Next]_sess
<1>. SUFFICES ASSUME TypeOK, [Next]_vars PROVE Driver!Next \/ UNCHANGED sess
  OBVIOUS
<1>0. TypeOK'
  BY TypeStep
<1>1. CASE BeginTransaction
  BY <1>1, DriverBegin DEF Driver!Next
<1>2. CASE CommitTransaction \/ RollbackTransaction
  BY <1>0, <1>2, DriverEnd DEF Driver!Next
<1>3. CASE LastInsertId
  <2>1. PICK ok \in BOOLEAN : ExecPrepared(LastVal, ok, {})
    BY <1>3 DEF LastInsertId
  <2>2. LastVal \in Object /\ {} \in SUBSET Work
    BY DEF Object
  <2>. QED
    BY <1>3, <2>1, <2>2, ExecLemma, SessionKept DEF LastInsertId
<1>4. CASE LockTable
  <2>1. CASE srv' = Refused(srv)
    BY <1>4, <2>1, NameType, RefusedLemma, SessionKept DEF LockTable, Agree
  <2>2. ASSUME NEW ok \in BOOLEAN, NEW s \in Server,
               DeallocateStatement(stmtCounter + 1, s), s.up = srv.up,
               s.txn = IF ~ok /\ srv.txn = "active" THEN "failed" ELSE srv.txn
        PROVE  UNCHANGED sess
    <3>1. srv'.up = s.up /\ srv'.txn = s.txn
      BY <1>4, <2>2, LockTableCases, DeallocateLemma
    <3>. QED
      BY <1>4, <2>2, <3>1, SessionKept DEF LockTable
  <2>. QED
    BY <1>4, <2>1, <2>2, LockTableCases
<1>5. CASE ServerLoss
  <2>1. srv'.up = FALSE /\ srv'.txn = "none" /\ UNCHANGED transactionActive
    BY <1>5 DEF ServerLoss, NewServer, connVars
  <2>2. (srv'.txn # "none") = FALSE
    BY <2>1
  <2>3. SessIs(sess', FALSE, transactionActive, FALSE)
    BY <1>0, <2>1, <2>2, SessionValue
  <2>4. SessIs(Driver!Lost(sess), FALSE, transactionActive, FALSE)
    BY SessionValue DEF SessIs, Driver!Lost, Driver!Session
  <2>5. sess' = Driver!Lost(sess)
    BY <2>3, <2>4, SessionEq
  <2>. QED
    BY <2>5 DEF Driver!Next, Driver!ServerLoss
<1>6. CASE Reconnect
  <2>1. srv'.up = TRUE /\ srv'.txn = "none" /\ transactionActive' = 0
    BY <1>6 DEF Reconnect, NewServer
  <2>2. (srv'.txn # "none") = FALSE
    BY <2>1
  <2>3. SessIs(sess', TRUE, 0, FALSE)
    BY <1>0, <2>1, <2>2, SessionValue
  <2>4. sess' = Driver!Fresh
    BY <2>3, FreshSession, SessionEq
  <2>. QED
    BY <2>4 DEF Driver!Next, Driver!Reconnect
<1>7. ASSUME NEW w \in Modification, ExecuteQuery(w) PROVE UNCHANGED sess
  <2>1. srv' = Modified(srv, w) \/ srv' = Refused(srv)
    BY <1>7 DEF ExecuteQuery
  <2>2. CASE srv' = Modified(srv, w)
    BY <1>7, <2>2, NameType, ModificationLemma, ModifiedLemma, SessionKept DEF ExecuteQuery, connVars
  <2>3. CASE srv' = Refused(srv)
    BY <1>7, <2>3, NameType, RefusedLemma, SessionKept DEF ExecuteQuery, connVars, Agree
  <2>. QED
    BY <2>1, <2>2, <2>3
<1>8. ASSUME NEW o \in Stmt, Prepare(o) PROVE UNCHANGED sess
  BY <1>8, SessionKept DEF Prepare, connVars
<1>9. ASSUME NEW o \in Stmt, DestroyStatement(o) PROVE UNCHANGED sess
  <2>1. CASE stmtName[o] = 0
    BY <1>9, <2>1, SessionKept DEF DestroyStatement
  <2>2. CASE stmtName[o] # 0
    <3>1. stmtName[o] \in Number /\ DeallocateStatement(stmtName[o], srv)
      BY <1>9, <2>2, ConstAssumption DEF DestroyStatement, TypeOK, Number, Object
    <3>. QED
      BY <1>9, <3>1, NameType, DeallocateLemma, SessionKept DEF DestroyStatement
  <2>. QED
    BY <2>1, <2>2
<1>10. ASSUME NEW o \in Stmt, NEW w \in Modification, Execute(o, w) PROVE UNCHANGED sess
  <2>1. PICK ok \in BOOLEAN : ExecPrepared(o, ok, w)
    BY <1>10 DEF Execute
  <2>2. o \in Object /\ UNCHANGED transactionActive
    BY <1>10 DEF Execute, Object
  <2>. QED
    BY <2>1, <2>2, ExecLemma, ModificationLemma, SessionKept
<1>11. ASSUME NEW o \in Stmt, NEW c \in Cursor, BeginIterator(c, o) PROVE UNCHANGED sess
  <2>1. srv'.up = srv.up /\ (srv'.txn # "none") = (srv.txn # "none")
    <3>1. CASE srv' = Refused(srv)
      BY <3>1, NameType, RefusedLemma DEF Agree
    <3>2. CASE srv' = Declared(srv, c)
      BY <3>2, NameType, DeclaredLemma
    <3>. QED
      BY <1>11, <3>1, <3>2, BeginIteratorCases
  <2>. QED
    BY <1>11, <2>1, SessionKept DEF BeginIterator, connVars
<1>12. ASSUME NEW c \in Cursor, DestroyCursor(c) PROVE UNCHANGED sess
  <2>1. srv'.up = srv.up /\ (srv'.txn # "none") = (srv.txn # "none")
    BY <1>12, NameType, ClosedLemma, RefusedLemma DEF DestroyCursor
  <2>. QED
    BY <1>12, <2>1, SessionKept DEF DestroyCursor, connVars
<1>13. ASSUME NEW c \in Cursor, NextRow(c) PROVE UNCHANGED sess
  <2>1. CASE FetchFails
    BY <2>1, NameType, RefusedLemma, SessionKept DEF FetchFails, connVars, Agree
  <2>. QED
    BY <1>12, <1>13, <2>1, NextRowCases
<1>14. CASE UNCHANGED vars
  BY <1>14 DEF vars, connVars, sess
<1>. QED
  BY <1>1, <1>2, <1>3, <1>4, <1>5, <1>6, <1>7, <1>8, <1>9, <1>10, <1>11, <1>12, <1>13,
     <1>14 DEF Next

(* Whatever statements, cursors and errors do, the connection's transactions *)
(* are those of the session the pool, the guard and the replication driver   *)
(* are modelled with.                                                        *)
THEOREM ImplementsDriverHolds == Spec => ImplementsDriver
<1>1. Init => Driver!Init
  BY DriverInit
<1>2. TypeOK /\ [Next]_vars => [Driver!Next]_sess
  BY DriverStep
<1>. QED
  BY <1>1, <1>2, TypeCorrect, PTL DEF Spec, ImplementsDriver, Driver!Spec

-----------------------------------------------------------------------------
\* The number of values of b bytes, for the widths that integers have.

Widths == {1, 2, 3, 4, 8}
Powers(q, n) == q = [i \in 0..n |-> IF i = 0 THEN 1 ELSE ByteValues * q[i - 1]]

LEMMA PowersNext ==
  ASSUME NEW n \in Nat, NEW q, Powers(q, n)
  PROVE  \E r : Powers(r, n + 1)
<1> DEFINE r == [i \in 0..(n + 1) |-> IF i <= n THEN q[i] ELSE ByteValues * q[n]]
<1>1. q = [i \in 0..n |-> IF i = 0 THEN 1 ELSE ByteValues * q[i - 1]]
  BY DEF Powers
<1>2. ASSUME NEW i \in 0..(n + 1) PROVE r[i] = IF i = 0 THEN 1 ELSE ByteValues * r[i - 1]
  <2>1. CASE i = 0
    BY <1>1, <2>1
  <2>2. CASE i # 0 /\ i <= n
    <3>1. i - 1 \in 0..(n + 1) /\ i - 1 <= n /\ i \in 0..n
      BY <2>2
    <3>2. r[i] = q[i] /\ r[i - 1] = q[i - 1]
      BY <2>2, <3>1
    <3>. QED
      BY <1>1, <2>2, <3>1, <3>2
  <2>3. CASE i = n + 1
    <3>1. n \in 0..(n + 1) /\ i - 1 = n /\ ~ (i <= n) /\ i # 0
      BY <2>3
    <3>. QED
      BY <3>1
  <2>. QED
    BY <2>1, <2>2, <2>3
<1>3. r = [i \in 0..(n + 1) |-> r[i]]
  OBVIOUS
<1> HIDE DEF r
<1>4. Powers(r, n + 1)
  BY <1>2, <1>3 DEF Powers
<1>. QED
  BY <1>4

LEMMA PowersExist == \A n \in 0..8 : \E q : Powers(q, n)
<1> DEFINE E(n) == \E q : Powers(q, n)
<1>1. E(0)
  <2> DEFINE q == [i \in 0..0 |-> 1]
  <2>1. q = [i \in 0..0 |-> IF i = 0 THEN 1 ELSE ByteValues * q[i - 1]]
    OBVIOUS
  <2> HIDE DEF q
  <2>2. Powers(q, 0)
    BY <2>1 DEF Powers
  <2>. QED
    BY <2>2
<1>2. \A n \in Nat : E(n) => E(n + 1)
  BY PowersNext
<1> HIDE DEF E
<1>3. E(0) /\ E(1) /\ E(2) /\ E(3) /\ E(4) /\ E(5) /\ E(6) /\ E(7) /\ E(8)
  <2>1. E(0 + 1)
    BY <1>1, <1>2
  <2>2. E(1 + 1)
    BY <1>2, <2>1
  <2>3. E(2 + 1)
    BY <1>2, <2>2
  <2>4. E(3 + 1)
    BY <1>2, <2>3
  <2>5. E(4 + 1)
    BY <1>2, <2>4
  <2>6. E(5 + 1)
    BY <1>2, <2>5
  <2>7. E(6 + 1)
    BY <1>2, <2>6
  <2>8. E(7 + 1)
    BY <1>2, <2>7
  <2>. QED
    BY <1>1, <2>1, <2>2, <2>3, <2>4, <2>5, <2>6, <2>7, <2>8
<1>4. \A n \in 0..8 : E(n)
  BY <1>3
<1>. QED
  BY <1>4 DEF E

LEMMA PowerUnfolds ==
  ASSUME NEW n \in 0..8
  PROVE  \E p : /\ p[0] = 1 /\ Power(n) = p[n]
                /\ \A i \in 1..n : p[i] = ByteValues * p[i - 1]
<1> DEFINE p == CHOOSE q : Powers(q, n)
<1>1. Power(n) = p[n]
  BY DEF Power, Powers
<1>2. Powers(p, n)
  BY PowersExist
<1> HIDE DEF p
<1>3. p = [i \in 0..n |-> IF i = 0 THEN 1 ELSE ByteValues * p[i - 1]]
  BY <1>2 DEF Powers
<1>4. p[0] = 1 /\ \A i \in 1..n : p[i] = ByteValues * p[i - 1]
  <2>1. \A i \in 0..n : p[i] = IF i = 0 THEN 1 ELSE ByteValues * p[i - 1]
    BY <1>3
  <2>. QED
    BY <2>1
<1>. QED
  BY <1>1, <1>4

LEMMA PowerIs ==
  LET B == ByteValues
  IN /\ Power(1) = B
     /\ Power(2) = B * B
     /\ Power(3) = B * (B * B)
     /\ Power(4) = Power(2) * Power(2)
     /\ Power(8) = Power(4) * Power(4)
<1> DEFINE B == ByteValues
<1>0. B \in Nat
  BY ByteAssumption
<1>1. Power(1) = B
  <2>1. PICK p : p[0] = 1 /\ Power(1) = p[1] /\ \A i \in 1..1 : p[i] = B * p[i - 1]
    BY PowerUnfolds
  <2>. QED
    BY <1>0, <2>1
<1>2. Power(2) = B * B
  <2>1. PICK p : p[0] = 1 /\ Power(2) = p[2] /\ \A i \in 1..2 : p[i] = B * p[i - 1]
    BY PowerUnfolds
  <2>2. p[1] = B * p[0] /\ p[2] = B * p[1]
    BY <2>1
  <2>. QED
    BY <1>0, <2>1, <2>2
<1>3. Power(3) = B * (B * B)
  <2>1. PICK p : p[0] = 1 /\ Power(3) = p[3] /\ \A i \in 1..3 : p[i] = B * p[i - 1]
    BY PowerUnfolds
  <2>2. p[1] = B * p[0] /\ p[2] = B * p[1] /\ p[3] = B * p[2]
    BY <2>1
  <2>. QED
    BY <1>0, <2>1, <2>2
<1>4. Power(4) = B * (B * (B * B))
  <2>1. PICK p : p[0] = 1 /\ Power(4) = p[4] /\ \A i \in 1..4 : p[i] = B * p[i - 1]
    BY PowerUnfolds
  <2>2. p[1] = B * p[0] /\ p[2] = B * p[1] /\ p[3] = B * p[2] /\ p[4] = B * p[3]
    BY <2>1
  <2>. QED
    BY <1>0, <2>1, <2>2
<1>5. Power(8) = B * (B * (B * (B * (B * (B * (B * B))))))
  <2>1. PICK p : p[0] = 1 /\ Power(8) = p[8] /\ \A i \in 1..8 : p[i] = B * p[i - 1]
    BY PowerUnfolds
  <2>2. /\ p[1] = B * p[0] /\ p[2] = B * p[1] /\ p[3] = B * p[2] /\ p[4] = B * p[3]
        /\ p[5] = B * p[4] /\ p[6] = B * p[5] /\ p[7] = B * p[6] /\ p[8] = B * p[7]
    BY <2>1
  <2>. QED
    BY <1>0, <2>1, <2>2
<1>6. \A x, y, z \in Nat : x * (y * z) = (x * y) * z /\ x * y \in Nat
  OBVIOUS
<1>7. B * B \in Nat /\ B * (B * B) \in Nat /\ B * (B * (B * B)) \in Nat
  BY <1>0, <1>6
<1> HIDE DEF B
<1>8. B * (B * (B * B)) = (B * B) * (B * B)
  BY <1>0, <1>6, <1>7
<1>9. B * (B * (B * (B * (B * (B * (B * B)))))) = (B * (B * (B * B))) * (B * (B * (B * B)))
  <2> DEFINE C == B * (B * (B * B))
  <2>1. C \in Nat /\ B * C \in Nat /\ B * (B * C) \in Nat /\ B * B \in Nat
    BY <1>0, <1>6, <1>7
  <2>2. B * (B * (B * (B * C))) = (B * (B * (B * B))) * C
    <3> HIDE DEF C
    <3>1. B * (B * C) = (B * B) * C
      BY <1>0, <1>6, <2>1
    <3>2. B * (B * (B * C)) = (B * (B * B)) * C
      BY <1>0, <1>6, <1>7, <2>1, <3>1
    <3>. QED
      BY <1>0, <1>6, <1>7, <2>1, <3>2
  <2>. QED
    BY <2>2
<1>. QED
  BY <1>1, <1>2, <1>3, <1>4, <1>5, <1>8, <1>9 DEF B

-----------------------------------------------------------------------------
\* Numbers modulo a width, signed and unsigned.

LEMMA Modulo ==
  ASSUME NEW P \in Nat, P > 0, NEW x \in Int
  PROVE  x % P \in 0..(P - 1) /\ x \div P \in Int /\ x = P * (x \div P) + (x % P)
<1>1. x % P \in 0..(P - 1) /\ x \div P \in Int
  OBVIOUS
<1>2. x % P = x - P * (x \div P)
  OBVIOUS
<1>3. P * (x \div P) \in Int
  BY <1>1
<1>. QED
  BY <1>1, <1>2, <1>3

LEMMA ModuloIs ==
  ASSUME NEW P \in Nat, P > 0, NEW q \in Int, NEW r \in 0..(P - 1), NEW x \in Int, x = P * q + r
  PROVE  x % P = r
<1>1. x % P = x - P * (x \div P) /\ x % P \in 0..(P - 1) /\ x \div P \in Int
  OBVIOUS
<1> DEFINE d == x \div P
           s == x % P
<1>2. d \in Int /\ s \in 0..(P - 1) /\ P * q + r = P * d + s
  BY <1>1
<1> HIDE DEF d, s
<1>3. P * (q - d) = s - r
  BY <1>2
<1>4. ASSUME NEW e \in Int, e >= 1 PROVE P * e >= P
  BY <1>4
<1>5. q - d = 0
  <2>1. CASE q - d >= 1
    BY <1>2, <1>3, <1>4, <2>1
  <2>2. CASE d - q >= 1
    <3>1. P * (d - q) = r - s
      BY <1>2
    <3>. QED
      BY <1>2, <1>4, <2>2, <3>1
  <2>. QED
    BY <1>2, <2>1, <2>2
<1>. QED
  BY <1>2, <1>3, <1>5 DEF s

LEMMA ModuloAdd ==
  ASSUME NEW P \in Nat, P > 0, NEW q \in Int, NEW x \in Int, NEW y \in Int
  PROVE  y = x + P * q => y % P = x % P
<1> DEFINE d == x \div P
           r == x % P
           e == d + q
<1>1. r \in 0..(P - 1) /\ d \in Int /\ x = P * d + r
  BY Modulo
<1> HIDE DEF d
<1>2. x % P = r
  OBVIOUS
<1> HIDE DEF r
<1>3. P * (d + q) = P * d + P * q /\ P * d \in Int /\ P * q \in Int /\ e \in Int
  BY <1>1
<1>4. ASSUME y = x + P * q
      PROVE  y = P * e + r
  BY <1>1, <1>3, <1>4
<1> HIDE DEF e
<1>5. ASSUME y = P * e + r
      PROVE  y % P = r
  BY <1>1, <1>3, <1>5, ModuloIs
<1>. QED
  BY <1>2, <1>4, <1>5

\* Of a wide number the lower bytes.
LEMMA ModuloOfModulo ==
  ASSUME NEW P \in Nat, P > 0, NEW m \in Nat, m > 0, NEW x \in Int
  PROVE  /\ P * m \in Nat /\ P * m > 0
         /\ (x % (P * m)) % P = x % P
<1> DEFINE Q == P * m
           d == x \div Q
           r == x % Q
<1>1. Q \in Nat /\ Q > 0
  OBVIOUS
<1>2. r \in 0..(Q - 1) /\ d \in Int /\ x = Q * d + r
  <2> HIDE DEF Q
  <2>. QED
    BY <1>1, Modulo
<1> HIDE DEF d, r
<1>3. Q * d = P * (m * d) /\ m * d \in Int /\ P * (m * d) \in Int
  BY <1>2
<1> DEFINE e == m * d
<1>4. x = r + P * e /\ r \in Int /\ e \in Int
  BY <1>2, <1>3
<1> HIDE DEF Q, e
<1>5. x % P = r % P
  BY <1>4, ModuloAdd
<1>. QED
  BY <1>1, <1>5 DEF Q, r

LEMMA PowerTwice ==
  ASSUME NEW b \in Widths
  PROVE  Power(b) \in Nat /\ \E h \in Nat : h > 0 /\ Power(b) = 2 * h
<1> DEFINE B == ByteValues
           h == B \div 2
<1>1. B \in Nat /\ B > 1 /\ B % 2 = 0
  BY ByteAssumption
<1>2. h \in Nat /\ h > 0 /\ B = 2 * h
  BY <1>1
<1> HIDE DEF h
<1>3. ASSUME NEW x \in Nat, x > 0, NEW y, y = B * x
      PROVE  y \in Nat /\ \E g \in Nat : g > 0 /\ y = 2 * g
  <2>1. h * x \in Nat /\ h * x > 0 /\ B * x = 2 * (h * x)
    BY <1>2, <1>3
  <2>. QED
    BY <1>3, <2>1
<1>4. ASSUME NEW x \in Nat, x > 0, NEW y \in Nat, y > 0
      PROVE  x * y \in Nat /\ x * y > 0
  BY <1>4
<1>5. B * B \in Nat /\ B * B > 0
  BY <1>1, <1>4
<1>6. (B * B) * (B * B) \in Nat /\ (B * B) * (B * B) > 0
  BY <1>4, <1>5
<1>7. B * (B * B) \in Nat /\ B * (B * B) > 0
  BY <1>1, <1>4, <1>5
<1>8. (B * B) * (B * B) = B * (B * (B * B))
  BY <1>1, <1>5, <1>7
<1> DEFINE four == (B * B) * (B * B)
<1>9. four * four = B * (B * (B * B) * four) /\ B * (B * B) * four \in Nat /\ B * (B * B) * four > 0
  <2> DEFINE three == B * (B * B)
  <2>1. four = B * three /\ four \in Nat /\ three \in Nat /\ four > 0 /\ three > 0
    BY <1>6, <1>7, <1>8
  <2> HIDE DEF four, three
  <2>2. four * four = (B * three) * four
    BY <2>1
  <2>3. (B * three) * four = B * (three * four)
    BY <1>1, <2>1
  <2>4. three * four \in Nat /\ three * four > 0
    BY <1>4, <2>1
  <2>. QED
    BY <2>2, <2>3, <2>4 DEF three
<1> DEFINE more == B * (B * B) * four
<1>9a. four * four = B * more /\ more \in Nat /\ more > 0
  BY <1>9
<1> HIDE DEF more
<1>10. CASE b = 1
  BY <1>1, <1>2, <1>10, PowerIs DEF B
<1>11. CASE b = 2
  BY <1>1, <1>3, <1>11, PowerIs DEF B
<1>12. CASE b = 3
  BY <1>3, <1>5, <1>12, PowerIs DEF B
<1>13. CASE b = 4
  <2>1. Power(b) = B * (B * (B * B))
    BY <1>8, <1>13, PowerIs
  <2>. QED
    BY <1>3, <1>7, <2>1
<1>14. CASE b = 8
  <2>1. Power(b) = four * four
    BY <1>14, PowerIs
  <2>. QED
    BY <1>3, <1>9a, <2>1
<1>. QED
  BY <1>10, <1>11, <1>12, <1>13, <1>14 DEF Widths

LEMMA Unsigned ==
  ASSUME NEW b \in Widths, NEW x \in Int
  PROVE  /\ AsUnsigned(b, x) \in Nat /\ AsUnsigned(b, x) % Power(b) = x % Power(b)
         /\ 0 <= x /\ x < Power(b) => AsUnsigned(b, x) = x
<1> DEFINE P == Power(b)
           r == x % P
<1>1. P \in Nat /\ P > 0
  BY PowerTwice
<1> HIDE DEF P
<1>2. r \in 0..(P - 1)
  BY <1>1
<1>3. 0 <= x /\ x < P => r = x
  <2> SUFFICES ASSUME 0 <= x, x < P
               PROVE  r = x
    OBVIOUS
  <2>1. x = P * 0 + x /\ x \in 0..(P - 1)
    BY <1>1
  <2>. QED
    BY <1>1, <2>1, ModuloIs
<1>4. r % P = r
  <2> HIDE DEF r
  <2>1. r = P * 0 + r /\ r \in Int
    BY <1>1, <1>2
  <2>. QED
    BY <1>1, <1>2, <2>1, ModuloIs
<1>. QED
  BY <1>2, <1>3, <1>4 DEF AsUnsigned, P

LEMMA Signed ==
  ASSUME NEW b \in Widths, NEW x \in Int
  PROVE  /\ AsSigned(b, x) \in Int /\ AsSigned(b, x) % Power(b) = x % Power(b)
         /\ -(Power(b) \div 2) <= x /\ x <= (Power(b) \div 2) - 1 => AsSigned(b, x) = x
<1> DEFINE P == Power(b)
           r == x % P
           s == IF 2 * r >= P THEN r - P ELSE r
<1>0. s = AsSigned(b, x)
  BY DEF AsSigned
<1>1. P \in Nat /\ \E h \in Nat : h > 0 /\ P = 2 * h
  BY PowerTwice
<1> HIDE DEF P
<1>1a. PICK h \in Nat : h > 0 /\ P = 2 * h
  BY <1>1
<1>1b. P > 0 /\ P \div 2 = h
  BY <1>1, <1>1a
<1>2. r \in 0..(P - 1)
  BY <1>1, <1>1b
<1>3. s \in Int
  BY <1>1, <1>2
<1>4. s % P = r
  <2> HIDE DEF r
  <2>1. (s = P * 0 + r \/ s = P * (-1) + r) /\ 0 \in Int /\ -1 \in Int
    BY <1>1, <1>2
  <2> HIDE DEF s
  <2>. QED
    BY <1>1, <1>1b, <1>2, <1>3, <2>1, ModuloIs
<1>5. -h <= x /\ x <= h - 1 => s = x
  <2> SUFFICES ASSUME -h <= x, x <= h - 1
               PROVE  s = x
    OBVIOUS
  <2>1. CASE 0 <= x
    <3>1. x = P * 0 + x /\ x \in 0..(P - 1)
      BY <1>1a, <2>1
    <3>2. r = x
      BY <1>1, <1>1b, <3>1, ModuloIs
    <3>. QED
      BY <1>1a, <2>1, <3>2
  <2>2. CASE x < 0
    <3> DEFINE y == x + P
    <3>1. x = P * (-1) + y /\ y \in 0..(P - 1)
      BY <1>1a, <2>2
    <3> HIDE DEF y
    <3>2. r = y
      BY <1>1, <1>1b, <3>1, ModuloIs
    <3>3. 2 * y >= P /\ y - P = x
      BY <1>1a, <2>2 DEF y
    <3> HIDE DEF r
    <3>. QED
      BY <1>1a, <3>2, <3>3
  <2>. QED
    BY <2>1, <2>2
<1> HIDE DEF s
<1>. QED
  BY <1>0, <1>1b, <1>3, <1>4, <1>5 DEF P

-----------------------------------------------------------------------------
\* Conversions between integer types, and of texts and decimals.

LEMMA WidthOf == \A k : Width(k) \in Widths
BY DEF Width, Widths

LEMMA DatumIs ==
  ASSUME NEW d \in Datum
  PROVE  /\ d = [is |-> d.is, n |-> d.n] /\ d.n \in Int /\ d # Null
         /\ d.is = "number" => d = Num(d.n)
         /\ d.is = "fraction" => d = Frac(d.n)
         /\ d.is # "null"
BY DEF Datum, Num, Frac, Null, Text

LEMMA NumberIs ==
  ASSUME NEW n \in Int
  PROVE  Num(n) \in Datum /\ Num(n).is = "number" /\ Num(n).n = n /\ Num(n) # Null
BY DEF Datum, Num, Null, Text

LEMMA NullIs == Null.is = "null" /\ Null.n = 0 /\ ~ Numeric(Null)
BY DEF Null, Text, Numeric

LEMMA CastNumber ==
  ASSUME NEW k, NEW n \in Int
  PROVE  Cast(k, n) \in Int
<1>1. Width(k) \in Widths
  BY WidthOf
<1>2. AsSigned(Width(k), n) \in Int /\ AsUnsigned(Width(k), n) \in Int
  BY <1>1, Signed, Unsigned
<1>. QED
  BY <1>2 DEF Cast

LEMMA LimitsOf ==
  ASSUME NEW k
  PROVE  /\ MinOf(k) \in Int /\ MaxOf(k) \in Int /\ MinOf(k) <= 0 /\ 0 <= MaxOf(k)
         /\ k \in SignedKinds =>
              /\ MinOf(k) = -(Power(Width(k)) \div 2) /\ MaxOf(k) = (Power(Width(k)) \div 2) - 1
         /\ k \notin SignedKinds => MinOf(k) = 0 /\ MaxOf(k) = Power(Width(k)) - 1
<1> DEFINE P == Power(Width(k))
<1>1. Width(k) \in Widths
  BY WidthOf
<1>2. PICK h \in Nat : P \in Nat /\ h > 0 /\ P = 2 * h
  BY <1>1, PowerTwice
<1>3. MinOf(k) = IF k \in SignedKinds THEN -(P \div 2) ELSE 0
  BY DEF MinOf
<1>4. MaxOf(k) = (P \div (IF k \in SignedKinds THEN 2 ELSE 1)) - 1
  BY DEF MaxOf
<1> HIDE DEF P
<1>5. P \div 2 = h /\ P \div 1 = P
  BY <1>2
<1>. QED
  BY <1>2, <1>3, <1>4, <1>5 DEF P

LEMMA CastKeeps ==
  ASSUME NEW k, NEW n \in Int, Fits(k, n)
  PROVE  Cast(k, n) = n
<1> DEFINE b == Width(k)
           P == Power(b)
<1>1. b \in Widths /\ P \in Nat /\ P \div 2 \in Int
  BY WidthOf, PowerTwice
<1>2. MinOf(k) <= n /\ n <= MaxOf(k)
  BY DEF Fits
<1>3. CASE k \in SignedKinds
  <2>1. -(P \div 2) <= n /\ n <= (P \div 2) - 1
    BY <1>2, <1>3, LimitsOf
  <2>2. AsSigned(b, n) = n
    BY <1>1, <2>1, Signed
  <2>. QED
    BY <1>3, <2>2 DEF Cast
<1>4. CASE k \notin SignedKinds
  <2>1. 0 <= n /\ n < P
    BY <1>1, <1>2, <1>4, LimitsOf
  <2>2. AsUnsigned(b, n) = n
    BY <1>1, <2>1, Unsigned
  <2>. QED
    BY <1>4, <2>2 DEF Cast
<1>. QED
  BY <1>3, <1>4

\* What a shorter type has room for a longer one has room for.
LEMMA PowerGrows ==
  /\ Power(2) <= Power(4) /\ Power(2) \div 2 <= Power(4) \div 2
  /\ Power(4) <= Power(8) /\ Power(4) \div 2 <= Power(8) \div 2
<1>1. ASSUME NEW P \in Nat, NEW h \in Nat, h > 0, P = 2 * h
      PROVE  P <= P * P /\ P \div 2 <= (P * P) \div 2
  <2>1. \A x \in Nat : x > 0 => P <= P * x
    BY <1>1
  <2>2. P <= P * P /\ P * P \in Nat
    BY <1>1, <2>1
  <2>. QED
    BY <1>1, <2>2
<1>2. Power(4) = Power(2) * Power(2) /\ Power(8) = Power(4) * Power(4)
  BY PowerIs
<1>3. PICK h \in Nat : Power(2) \in Nat /\ h > 0 /\ Power(2) = 2 * h
  BY PowerTwice DEF Widths
<1>4. PICK g \in Nat : Power(4) \in Nat /\ g > 0 /\ Power(4) = 2 * g
  BY PowerTwice DEF Widths
<1>5. Power(2) <= Power(4) /\ Power(2) \div 2 <= Power(4) \div 2
  BY <1>1, <1>2, <1>3
<1>6. Power(4) <= Power(8) /\ Power(4) \div 2 <= Power(8) \div 2
  BY <1>1, <1>2, <1>4
<1>. QED
  BY <1>5, <1>6

LEMMA FitsLonger ==
  ASSUME NEW n \in Int
  PROVE  /\ Fits("Short", n) => Fits("Int", n)
         /\ Fits("UnsignedShort", n) => Fits("Unsigned", n)
         /\ Fits("Unsigned", n) => Fits("UnsignedLong", n)
<1>1. /\ Width("Short") = 2 /\ Width("Int") = 4 /\ Width("UnsignedShort") = 2
      /\ Width("Unsigned") = 4 /\ Width("UnsignedLong") = 8
  BY DEF Width
<1>2. /\ "Short" \in SignedKinds /\ "Int" \in SignedKinds
      /\ "UnsignedShort" \notin SignedKinds /\ "Unsigned" \notin SignedKinds
      /\ "UnsignedLong" \notin SignedKinds
  BY DEF SignedKinds
<1>3. /\ Power(2) \in Nat /\ Power(4) \in Nat /\ Power(8) \in Nat
      /\ Power(2) \div 2 \in Int /\ Power(4) \div 2 \in Int
  BY PowerTwice DEF Widths
<1>4. Fits("Short", n) => Fits("Int", n)
  BY <1>1, <1>2, <1>3, LimitsOf, PowerGrows DEF Fits
<1>5. Fits("UnsignedShort", n) => Fits("Unsigned", n)
  BY <1>1, <1>2, <1>3, LimitsOf, PowerGrows DEF Fits
<1>6. Fits("Unsigned", n) => Fits("UnsignedLong", n)
  BY <1>1, <1>2, <1>3, LimitsOf, PowerGrows DEF Fits
<1>. QED
  BY <1>4, <1>5, <1>6

-----------------------------------------------------------------------------
\* What a getter may give for a datum d: never the null that get reports, and
\* of a number which the type has room for nothing else than the number.

Rightly(k, d, r) ==
  /\ r # Null
  /\ (k \in IntKinds /\ d.is = "number" /\ RoomFor(k, d.n)) => r \in {d} \cup Refusals

LEMMA NoNull ==
  /\ \A n : Num(n) # Null
  /\ \A n : Frac(n) # Null
  /\ \A b : Bool(b) # Null
  /\ Empty # Null /\ NullValue # Null /\ TypeError # Null /\ Overflow # Null
  /\ ConversionError # Null /\ Crash # Null
BY DEF Num, Frac, Bool, Empty, NullValue, TypeError, Overflow, ConversionError, Crash, Null, Text

LEMMA RefusalsAre ==
  /\ NullValue \in Refusals /\ TypeError \in Refusals /\ Overflow \in Refusals
  /\ ConversionError \in Refusals
BY DEF Refusals

LEMMA RefusesRightly ==
  ASSUME NEW k, NEW d, NEW r \in Refusals
  PROVE  Rightly(k, d, r)
BY NoNull DEF Rightly, Refusals

LEMMA GivesRightly ==
  ASSUME NEW k, NEW d, d # Null
  PROVE  Rightly(k, d, d)
BY DEF Rightly

LEMMA OthersRightly ==
  ASSUME NEW k, NEW d, NEW r, r # Null, k \notin IntKinds
  PROVE  Rightly(k, d, r)
BY DEF Rightly

LEMMA RoomIs ==
  ASSUME NEW k \in IntKinds, NEW n \in Int, RoomFor(k, n)
  PROVE  /\ Fits(k, n)
         /\ k = "Long" => Fits("Int", n)
         /\ k = "UnsignedLong" => Fits("Unsigned", n)
BY DEF RoomFor

LEMMA UninitializedIs ==
  ASSUME NEW k, NEW r \in Uninitialized(k)
  PROVE  r # Null
<1>1. PICK n \in Garbage : r = Num(Cast(k, n))
  BY DEF Uninitialized
<1>. QED
  BY <1>1, NoNull

\* An extraction that goes well gives what the type has room for.
LEMMA ExtractGives ==
  ASSUME NEW k, NEW d \in Datum, NEW r \in Extract(k, d).stored
  PROVE  /\ r # Null
         /\ d.is = "number" /\ Fits(k, d.n) => r = d
<1> DEFINE wraps == k \in UnsignedKinds /\ d.n < 0 /\ -d.n <= MaxOf(k)
           s == IF Fits(k, d.n) \/ wraps THEN Cast(k, d.n)
                ELSE IF d.n < 0 /\ k \in SignedKinds THEN MinOf(k) ELSE MaxOf(k)
           fails == ~ (Fits(k, d.n) \/ wraps)
<1>1. Extract(k, d) =
        CASE d.is = "number" -> [stored |-> {Num(s)}, fail |-> fails, eof |-> TRUE]
          [] d.is \in {"fraction", "date", "time", "datetime"}
                -> [stored |-> {Num(s)}, fail |-> fails, eof |-> FALSE]
          [] d.is = "empty" -> [stored |-> Uninitialized(k), fail |-> TRUE, eof |-> TRUE]
          [] OTHER -> [stored |-> {Num(0)}, fail |-> TRUE, eof |-> FALSE]
  BY DEF Extract
<1>2. Fits(k, d.n) => s = d.n
  BY DatumIs, CastKeeps
<1> HIDE DEF s, fails, wraps
<1>3. CASE d.is = "number"
  <2>1. Extract(k, d).stored = {Num(s)}
    BY <1>1, <1>3
  <2>2. r = Num(s)
    BY <2>1
  <2>. QED
    BY <1>2, <2>2, DatumIs, NoNull
<1>4. CASE d.is \in {"fraction", "date", "time", "datetime"}
  <2>1. Extract(k, d).stored = {Num(s)}
    BY <1>1, <1>4
  <2>. QED
    BY <1>4, <2>1, NoNull
<1>5. CASE d.is = "empty"
  <2>1. Extract(k, d).stored = Uninitialized(k)
    BY <1>1, <1>5
  <2>. QED
    BY <1>5, <2>1, UninitializedIs
<1>6. CASE d.is \notin {"number", "fraction", "date", "time", "datetime", "empty"}
  <2>1. Extract(k, d).stored = {Num(0)}
    BY <1>1, <1>6
  <2>. QED
    BY <1>6, <2>1, NoNull
<1>. QED
  BY <1>3, <1>4, <1>5, <1>6

LEMMA ExtractFloatGives ==
  ASSUME NEW d \in Datum, NEW r \in ExtractFloat(d).stored
  PROVE  r # Null
<1>1. CASE Numeric(d)
  <2>1. ExtractFloat(d).stored = {d}
    BY <1>1 DEF ExtractFloat, Numeric
  <2>. QED
    BY <2>1, DatumIs
<1>2. CASE d.is \in {"date", "time", "datetime"}
  <2>1. ExtractFloat(d).stored = {Num(d.n)}
    BY <1>2 DEF ExtractFloat, Numeric
  <2>. QED
    BY <2>1, NoNull
<1>3. CASE d.is = "empty"
  <2>1. ExtractFloat(d).stored = Uninitialized("Int")
    BY <1>3 DEF ExtractFloat, Numeric
  <2>. QED
    BY <2>1, UninitializedIs
<1>4. CASE ~ Numeric(d) /\ d.is \notin {"date", "time", "datetime", "empty"}
  <2>1. ExtractFloat(d).stored = {Num(0)}
    BY <1>4 DEF ExtractFloat, Numeric
  <2>. QED
    BY <2>1, NoNull
<1>. QED
  BY <1>1, <1>2, <1>3, <1>4

LEMMA ConvertGives ==
  ASSUME NEW k, NEW d \in Datum, NEW r \in Convert(k, d)
  PROVE  r \in {d, ConversionError} /\ r # Null
BY NoNull, DatumIs DEF Convert

LEMMA ConvertFloatGives ==
  ASSUME NEW d \in Datum, NEW r \in ConvertFloat(d)
  PROVE  r \in {d, ConversionError} /\ r # Null
BY NoNull, DatumIs DEF ConvertFloat

LEMMA ParseDecimalGives ==
  ASSUME NEW d \in Datum, NEW r \in ParseDecimal(d)
  PROVE  r \in {d, ConversionError} /\ r # Null
BY NoNull, DatumIs DEF ParseDecimal

LEMMA FromIsoGives ==
  ASSUME NEW k, NEW d, d # Null, NEW r \in FromIso(k, d)
  PROVE  r # Null
BY NoNull DEF FromIso, DateFromIso, TimeFromIso, DatetimeFromIso

LEMMA DecimalGives ==
  ASSUME NEW k, NEW d \in Datum, NEW r \in DecimalInteger(k, d)
  PROVE  /\ r # Null
         /\ d.is = "number" /\ Fits(k, d.n) => r \in {d} \cup Refusals
<1>1. d.is = "number" => Rounded(d) = d.n /\ Num(d.n) = d
  BY DatumIs DEF Rounded
<1>2. \/ r \in Refusals
      \/ r = Num(Rounded(d))
      \/ r = Num(Cast(k, Rounded(d)))
  BY RefusalsAre DEF DecimalInteger
<1>3. r # Null
  BY <1>2, NoNull, RefusesRightly DEF Rightly
<1>4. ASSUME d.is = "number", Fits(k, d.n)
      PROVE  r \in {d} \cup Refusals
  <2>1. Cast(k, d.n) = d.n
    BY <1>4, DatumIs, CastKeeps
  <2>. QED
    BY <1>1, <1>2, <1>4, <2>1
<1>. QED
  BY <1>3, <1>4

-----------------------------------------------------------------------------
\* An answer: get tells null, and a number that has room is kept.  Beside is
\* whether the type of the column is one of those that NumbersKept excepts.

Keeps(a) ==
  (a.kind \in IntKinds /\ a.given.is = "number" /\ RoomFor(a.kind, a.given.n))
    => a.out \in {a.given} \cup Refusals
Reports(a) == a.how = "get" => (a.given = Null) = (a.out = Null)

LEMMA NoAnswerRight == Reports(NoAnswer) /\ Keeps(NoAnswer)
BY DEF NoAnswer, Reports, Keeps, IntKinds, SignedKinds, UnsignedKinds

LEMMA AnsweredRight ==
  ASSUME NEW how, NEW k, NEW null \in BOOLEAN, NEW getter, NEW d, null <=> (d = Null),
         NEW beside \in BOOLEAN,
         ~ null => \A g \in getter : g # Null /\ (~ beside => Rightly(k, d, g)),
         NEW r \in Outcomes(how, null, getter),
         NEW a, a = [how |-> how, kind |-> k, given |-> d, out |-> r]
  PROVE  Reports(a) /\ (~ beside => Keeps(a))
<1>1. a.how = how /\ a.kind = k /\ a.given = d /\ a.out = r
  OBVIOUS
<1>2. CASE null
  <2>1. d = Null /\ d.is # "number"
    BY <1>2, NullIs
  <2>2. how = "get" => r = Null
    BY <1>2 DEF Outcomes
  <2>. QED
    BY <1>1, <2>1, <2>2 DEF Reports, Keeps
<1>3. CASE ~ null
  <2>1. r \in getter /\ d # Null
    BY <1>3 DEF Outcomes
  <2>2. r # Null /\ (~ beside => Rightly(k, d, r))
    BY <1>3, <2>1
  <2>. QED
    BY <1>1, <2>1, <2>2 DEF Reports, Keeps, Rightly
<1>. QED
  BY <1>2, <1>3

-----------------------------------------------------------------------------
\* The invariant.

\* The values of the library itself.
PlainShape(c) == c = [use |-> c.use, kind |-> c.kind, null |-> c.null, data |-> c.data]
PlainRight(c, s) ==
  /\ PlainShape(c) /\ c.use = "out" /\ c.null \in BOOLEAN
  /\ c.null => s = {Null}
  /\ ~ c.null => c.data \in Datum /\ s = {c.data}

LEMMA PlainStarts ==
  ASSUME driver = "none", PlainInit
  PROVE  PlainRight(cell, said) /\ Reports(answer) /\ Keeps(answer)
BY NoAnswerRight DEF PlainInit, PlainRight, PlainShape

LEMMA KindsApart ==
  ASSUME NEW k
  PROVE  /\ k \in IntKinds =>
              k \notin TimeKinds \cup {"Bool", "Decimal", "Float", "Double", "Char", "String", "Blob"}
         /\ k \in TimeKinds => k \notin {"Bool", "Decimal", "Float", "Double", "Char", "String", "Blob"}
BY DEF IntKinds, SignedKinds, UnsignedKinds, TimeKinds

LEMMA PlainGetter ==
  ASSUME NEW k \in Kinds, NEW c, ~ c.null, c.data \in Datum, NEW r \in Getter(k, c)
  PROVE  Rightly(k, c.data, r)
<1> DEFINE d == c.data
<1>0. d \in Datum /\ d # Null
  BY DatumIs
<1>1. CASE k = "Bool"
  <2>1. r = Bool(Truth(d)) /\ k \notin IntKinds
    BY <1>1, KindsApart DEF Getter
  <2>. QED
    BY <2>1, NoNull, OthersRightly
<1>2. CASE k \in IntKinds
  <2>1. r \in GetValue(Convert(k, d))
    BY <1>2, KindsApart DEF Getter
  <2>2. PICK x \in Convert(k, d) : r = IF x = ConversionError THEN TypeError ELSE x
    BY <2>1 DEF GetValue
  <2>3. r = d \/ r \in Refusals
    BY <1>0, <2>2, ConvertGives, RefusalsAre
  <2>. QED
    BY <1>0, <2>3, RefusesRightly, GivesRightly
<1>3. CASE k \in {"Float", "Double"}
  <2>1. r \in GetValue(ConvertFloat(d)) /\ k \notin IntKinds
    BY <1>3, KindsApart DEF Getter
  <2>2. PICK x \in ConvertFloat(d) : r = IF x = ConversionError THEN TypeError ELSE x
    BY <2>1 DEF GetValue
  <2>. QED
    BY <1>0, <2>1, <2>2, ConvertFloatGives, NoNull, OthersRightly
<1>4. CASE k = "Decimal"
  <2>1. r \in ParseDecimal(d) /\ k \notin IntKinds
    BY <1>4, KindsApart DEF Getter
  <2>. QED
    BY <1>0, <2>1, ParseDecimalGives, OthersRightly
<1>5. CASE k = "Char"
  <2>1. r \in GetChar(d) /\ k \notin IntKinds
    BY <1>5, KindsApart DEF Getter
  <2>2. r # Null
    BY <1>0, <2>1 DEF GetChar, Null, Text
  <2>. QED
    BY <2>1, <2>2, OthersRightly
<1>6. CASE k \in TimeKinds
  <2>1. r \in FromIso(k, d) /\ k \notin IntKinds
    BY <1>6, KindsApart DEF Getter
  <2>. QED
    BY <1>0, <2>1, FromIsoGives, OthersRightly
<1>7. CASE k \in {"String", "Blob"}
  <2>1. r = d
    BY <1>7, KindsApart DEF Getter
  <2>. QED
    BY <1>0, <2>1, GivesRightly
<1>. QED
  BY <1>1, <1>2, <1>3, <1>4, <1>5, <1>6, <1>7 DEF Kinds

LEMMA PlainStep ==
  ASSUME Data \subseteq Datum, PlainRight(cell, said), PlainNext
  PROVE  PlainRight(cell', said') /\ Reports(answer') /\ Keeps(answer')
<1>1. ASSUME NEW d \in Data, Construct(d)
      PROVE  PlainRight(cell', said') /\ Reports(answer') /\ Keeps(answer')
  <2>1. cell' = [cell EXCEPT !.null = FALSE, !.data = d] /\ said' = {d} /\ answer' = NoAnswer
    BY <1>1 DEF Construct
  <2>2. PlainShape(cell) /\ cell.use = "out"
    BY DEF PlainRight
  <2>3. PlainShape(cell') /\ cell'.use = "out" /\ ~ cell'.null /\ cell'.null \in BOOLEAN /\ cell'.data = d
    BY <2>1, <2>2 DEF PlainShape
  <2>. QED
    BY <2>1, <2>3, NoAnswerRight DEF PlainRight
<1>2. ASSUME NEW how, NEW k \in Kinds, Get(how, k)
      PROVE  PlainRight(cell', said') /\ Reports(answer') /\ Keeps(answer')
  <2>1. /\ \E r \in Outcomes(how, cell.null, Getter(k, cell)), d \in said :
             answer' = [how |-> how, kind |-> k, given |-> d, out |-> r]
        /\ cell' = cell /\ said' = said
    BY <1>2 DEF Get
  <2>2. PICK r \in Outcomes(how, cell.null, Getter(k, cell)), d \in said :
           answer' = [how |-> how, kind |-> k, given |-> d, out |-> r]
    BY <2>1
  <2>3. cell.null \in BOOLEAN /\ (cell.null <=> (d = Null))
    BY DatumIs DEF PlainRight
  <2>4. ASSUME ~ cell.null, NEW g \in Getter(k, cell) PROVE Rightly(k, d, g)
    BY <2>4, PlainGetter DEF PlainRight
  <2>5. ~ cell.null => \A g \in Getter(k, cell) : g # Null /\ (~ FALSE => Rightly(k, d, g))
    BY <2>4 DEF Rightly
  <2>6. Reports(answer') /\ (~ FALSE => Keeps(answer'))
    BY <2>2, <2>3, <2>5, AnsweredRight
  <2>. QED
    BY <2>1, <2>6
<1>. QED
  BY <1>1, <1>2 DEF PlainNext

-----------------------------------------------------------------------------
\* The conversions of an instance are those of Conversions.

LEMMA PgConversions ==
  /\ Pg!Null = Null /\ Pg!Empty = Empty /\ Pg!NoAnswer = NoAnswer
  /\ Pg!NullValue = NullValue /\ Pg!TypeError = TypeError
  /\ Pg!ConversionError = ConversionError
  /\ Pg!IntKinds = IntKinds /\ Pg!SignedKinds = SignedKinds /\ Pg!Kinds = Kinds
  /\ \A b : Pg!Power(b) = Power(b)
  /\ \A k : Pg!Width(k) = Width(k)
  /\ \A k, n : Pg!Fits(k, n) <=> Fits(k, n)
  /\ \A k, d : Pg!Convert(k, d) = Convert(k, d)
  /\ \A d : Pg!ConvertFloat(d) = ConvertFloat(d) /\ Pg!ParseDecimal(d) = ParseDecimal(d)
  /\ \A how, null, getter : Pg!Outcomes(how, null, getter) = Outcomes(how, null, getter)
<1>1. /\ Pg!Null = Null /\ Pg!Empty = Empty /\ Pg!NoAnswer = NoAnswer
      /\ Pg!NullValue = NullValue /\ Pg!TypeError = TypeError
      /\ Pg!ConversionError = ConversionError
  BY DEF Pg!Null, Null, Pg!Empty, Empty, Pg!NoAnswer, NoAnswer, Pg!NullValue, NullValue,
         Pg!TypeError, TypeError, Pg!ConversionError, ConversionError, Pg!Text, Text
<1>2. /\ Pg!IntKinds = IntKinds /\ Pg!SignedKinds = SignedKinds /\ Pg!Kinds = Kinds
  BY DEF Pg!IntKinds, IntKinds, Pg!SignedKinds, SignedKinds, Pg!UnsignedKinds, UnsignedKinds,
         Pg!Kinds, Kinds, Pg!TimeKinds, TimeKinds
<1>3. \A b : Pg!Power(b) = Power(b)
  BY DEF Pg!Power, Power
<1>4. \A k : Pg!Width(k) = Width(k)
  BY DEF Pg!Width, Width
<1>5. \A k, n : Pg!Fits(k, n) <=> Fits(k, n)
  BY <1>2, <1>3, <1>4 DEF Pg!Fits, Fits, Pg!MinOf, MinOf, Pg!MaxOf, MaxOf
<1>6. \A k, d : Pg!Convert(k, d) = Convert(k, d)
  BY <1>1, <1>5 DEF Pg!Convert, Convert
<1>7. \A d : Pg!ConvertFloat(d) = ConvertFloat(d) /\ Pg!ParseDecimal(d) = ParseDecimal(d)
  BY <1>1 DEF Pg!ConvertFloat, ConvertFloat, Pg!ParseDecimal, ParseDecimal, Pg!Numeric, Numeric
<1>8. \A how, null, getter : Pg!Outcomes(how, null, getter) = Outcomes(how, null, getter)
  BY <1>1 DEF Pg!Outcomes, Outcomes
<1>. QED
  BY <1>1, <1>2, <1>3, <1>4, <1>5, <1>6, <1>7, <1>8

-----------------------------------------------------------------------------
\* postgresql: the text that was set last, or the text of the column.

PgShape(c) ==
  c = [use |-> c.use, kind |-> c.kind, null |-> c.null, value |-> c.value, binary |-> c.binary]
PgRight(c, s) ==
  /\ PgShape(c) /\ c.use \in {"in", "out"} /\ c.null \in BOOLEAN
  /\ c.use = "in" => s = {IF c.null THEN Null ELSE c.value}
  /\ c.use = "out" /\ c.null => s = {Null} /\ c.value = Empty
  /\ c.use = "out" /\ ~ c.null => s = {c.value} /\ c.value \in Datum

LEMMA PgStarts ==
  ASSUME Pg!Init
  PROVE  PgRight(cell, said) /\ Reports(answer) /\ Keeps(answer)
BY NoAnswerRight, PgConversions DEF Pg!Init, PgRight, PgShape

LEMMA PgSeen ==
  ASSUME PgRight(cell, said), cell.use = "in", driver = "postgresql"
  PROVE  SentAsSet
<1>1. Seen = IF cell.null THEN Null ELSE cell.value
  BY PgConversions DEF Seen, Pg!Seen
<1>2. said = {Seen}
  BY <1>1 DEF PgRight
<1>3. Kept(cell.kind, Seen, Seen)
  BY DEF Kept
<1>. QED
  BY <1>2, <1>3 DEF SentAsSet

LEMMA PgValueSet ==
  ASSUME PgRight(cell, said), NEW k, NEW d, NEW binary, Pg!SetValue(k, d, binary)
  PROVE  PgRight(cell', said') /\ answer' = NoAnswer
<1>1. /\ cell.use = "in" /\ said' = {d} /\ answer' = Pg!NoAnswer
      /\ cell' = [cell EXCEPT !.kind = k, !.null = FALSE, !.value = d, !.binary = binary]
  BY DEF Pg!SetValue
<1>2. PgShape(cell)
  BY DEF PgRight
<1>3. PgShape(cell') /\ cell'.use = "in" /\ ~ cell'.null /\ cell'.null \in BOOLEAN /\ cell'.value = d
  BY <1>1, <1>2 DEF PgShape
<1>. QED
  BY <1>1, <1>3, PgConversions DEF PgRight

LEMMA PgNullSet ==
  ASSUME PgRight(cell, said), Pg!SetNull \/ Pg!Clear
  PROVE  PgRight(cell', said') /\ answer' = NoAnswer
<1>1. /\ cell.use = "in" /\ said' = {Pg!Null} /\ answer' = Pg!NoAnswer
      /\ \/ cell' = [cell EXCEPT !.kind = "Null", !.null = TRUE, !.binary = FALSE]
         \/ cell' = [cell EXCEPT !.kind = "Null", !.null = TRUE]
  BY DEF Pg!SetNull, Pg!Clear
<1>2. PgShape(cell)
  BY DEF PgRight
<1>3. PgShape(cell') /\ cell'.use = "in" /\ cell'.null /\ cell'.null \in BOOLEAN
  <2>1. CASE cell' = [cell EXCEPT !.kind = "Null", !.null = TRUE, !.binary = FALSE]
    BY <1>1, <1>2, <2>1 DEF PgShape
  <2>2. CASE cell' = [cell EXCEPT !.kind = "Null", !.null = TRUE]
    BY <1>1, <1>2, <2>2 DEF PgShape
  <2>. QED
    BY <1>1, <2>1, <2>2
<1>. QED
  BY <1>1, <1>3, PgConversions DEF PgRight

LEMMA PgSet ==
  ASSUME PgRight(cell, said), NEW k, NEW d, Pg!Set(k, d)
  PROVE  PgRight(cell', said') /\ answer' = NoAnswer
<1>1. \/ \E binary : Pg!SetValue(k, d, binary)
      \/ Pg!SetNull
  BY DEF Pg!Set, Pg!SetNumber, Pg!SetStringValue, Pg!SetIsoValue
<1>. QED
  BY <1>1, PgValueSet, PgNullSet

LEMMA PgGetter ==
  ASSUME NEW k \in Kinds, NEW c, ~ c.null, c.value \in Datum, NEW r \in Pg!Getter(k, c)
  PROVE  Rightly(k, c.value, r)
<1> DEFINE d == c.value
<1>0. d \in Datum /\ d # Null
  BY DatumIs
<1>1. CASE k \in IntKinds
  <2>1. r \in Convert(k, d)
    BY <1>1, KindsApart, PgConversions DEF Pg!Getter, TimeKinds
  <2>2. r = d \/ r \in Refusals
    BY <1>0, <2>1, ConvertGives, RefusalsAre
  <2>. QED
    BY <1>0, <2>2, RefusesRightly, GivesRightly
<1>2. CASE k \notin IntKinds
  <2>1. \/ r = Pg!Bool(Pg!Truth(d)) \/ r = d \/ r = TypeError \/ r = Pg!Text("misread")
        \/ r \in ConvertFloat(d) \/ r \in ParseDecimal(d)
    BY <1>2, PgConversions DEF Pg!Getter, Pg!GetDate, Pg!GetTime, Pg!GetDatetime
  <2>2. Pg!Bool(Pg!Truth(d)) # Null /\ Pg!Text("misread") # Null
    BY DEF Pg!Bool, Pg!Text, Null, Text
  <2>3. r # Null
    BY <1>0, <2>1, <2>2, NoNull, ConvertFloatGives, ParseDecimalGives
  <2>. QED
    BY <1>2, <2>3, OthersRightly
<1>. QED
  BY <1>1, <1>2

LEMMA PgStep ==
  ASSUME Data \subseteq Datum, PgRight(cell, said), Pg!Next
  PROVE  PgRight(cell', said') /\ Reports(answer') /\ Keeps(answer')
<1>1. ASSUME NEW k, NEW d, Pg!Set(k, d)
      PROVE  PgRight(cell', said') /\ Reports(answer') /\ Keeps(answer')
  BY <1>1, PgSet, NoAnswerRight
<1>2. ASSUME Pg!Clear
      PROVE  PgRight(cell', said') /\ Reports(answer') /\ Keeps(answer')
  BY <1>2, PgNullSet, NoAnswerRight
<1>3. ASSUME NEW d \in Data \cup {Null}, Pg!Fetch(d)
      PROVE  PgRight(cell', said') /\ Reports(answer') /\ Keeps(answer')
  <2> DEFINE n == d = Null
             v == IF n THEN Empty ELSE d
  <2>0. n \in BOOLEAN
    OBVIOUS
  <2>1. said' = {d} /\ answer' = NoAnswer
    BY <1>3, PgConversions DEF Pg!Fetch
  <2>2. cell' = [cell EXCEPT !.use = "out", !.null = n, !.value = v]
    BY <1>3, PgConversions DEF Pg!Fetch
  <2> HIDE DEF n, v
  <2>3. PgShape(cell)
    BY DEF PgRight
  <2>4. PgShape(cell') /\ cell'.use = "out" /\ cell'.null = n /\ cell'.value = v
    BY <2>2, <2>3 DEF PgShape
  <2>5. (n => d = Null /\ v = Empty) /\ (~ n => v = d /\ d \in Datum)
    BY DEF n, v
  <2>. QED
    BY <2>0, <2>1, <2>4, <2>5, NoAnswerRight DEF PgRight
<1>4. ASSUME NEW how, NEW k \in Kinds, Pg!Get(how, k)
      PROVE  PgRight(cell', said') /\ Reports(answer') /\ Keeps(answer')
  <2>1. cell.use = "out" /\ cell' = cell /\ said' = said
    BY <1>4 DEF Pg!Get
  <2>2. PICK r \in Outcomes(how, cell.null, Pg!Getter(k, cell)), d \in said :
           answer' = [how |-> how, kind |-> k, given |-> d, out |-> r]
    BY <1>4, PgConversions DEF Pg!Get
  <2>3. cell.null \in BOOLEAN /\ (cell.null <=> (d = Null))
    BY <2>1, DatumIs DEF PgRight
  <2>4. ASSUME ~ cell.null, NEW g \in Pg!Getter(k, cell) PROVE Rightly(k, d, g)
    BY <2>1, <2>4, PgGetter DEF PgRight
  <2>5. ~ cell.null => \A g \in Pg!Getter(k, cell) : g # Null /\ (~ FALSE => Rightly(k, d, g))
    BY <2>4 DEF Rightly
  <2>6. Reports(answer') /\ (~ FALSE => Keeps(answer'))
    BY <2>2, <2>3, <2>5, AnsweredRight
  <2>. QED
    BY <2>1, <2>6
<1>. QED
  BY <1>1, <1>2, <1>3, <1>4, PgConversions DEF Pg!Next

LEMMA LiteConversions ==
  /\ Lite!Null = Null /\ Lite!Empty = Empty /\ Lite!NoAnswer = NoAnswer
  /\ Lite!NullValue = NullValue
  /\ Lite!IntKinds = IntKinds /\ Lite!SignedKinds = SignedKinds /\ Lite!Kinds = Kinds
  /\ Lite!TimeKinds = TimeKinds
  /\ \A n : Lite!Num(n) = Num(n)
  /\ \A d : Lite!Numeric(d) <=> Numeric(d)
  /\ \A k, n : Lite!Fits(k, n) <=> Fits(k, n)
  /\ \A k, n : Lite!Cast(k, n) = Cast(k, n)
  /\ \A k, d : Lite!FromIso(k, d) = FromIso(k, d)
  /\ \A how, null, getter : Lite!Outcomes(how, null, getter) = Outcomes(how, null, getter)
<1>1. /\ Lite!Null = Null /\ Lite!Empty = Empty /\ Lite!NoAnswer = NoAnswer
      /\ Lite!NullValue = NullValue /\ Lite!TypeError = TypeError
  BY DEF Lite!Null, Null, Lite!Empty, Empty, Lite!NoAnswer, NoAnswer, Lite!NullValue, NullValue,
         Lite!TypeError, TypeError, Lite!Text, Text
<1>2. /\ Lite!IntKinds = IntKinds /\ Lite!SignedKinds = SignedKinds /\ Lite!Kinds = Kinds
      /\ Lite!TimeKinds = TimeKinds
  BY DEF Lite!IntKinds, IntKinds, Lite!SignedKinds, SignedKinds, Lite!UnsignedKinds,
         UnsignedKinds, Lite!Kinds, Kinds, Lite!TimeKinds, TimeKinds
<1>3. \A b : Lite!Power(b) = Power(b)
  BY DEF Lite!Power, Power
<1>4. \A k : Lite!Width(k) = Width(k)
  BY DEF Lite!Width, Width
<1>5. \A k, n : Lite!Fits(k, n) <=> Fits(k, n)
  BY <1>2, <1>3, <1>4 DEF Lite!Fits, Fits, Lite!MinOf, MinOf, Lite!MaxOf, MaxOf
<1>6. \A k, n : Lite!Cast(k, n) = Cast(k, n)
  BY <1>2, <1>3, <1>4
  DEF Lite!Cast, Cast, Lite!AsSigned, AsSigned, Lite!AsUnsigned, AsUnsigned
<1>7. (\A n : Lite!Num(n) = Num(n)) /\ (\A d : Lite!Numeric(d) <=> Numeric(d))
  BY DEF Lite!Num, Num, Lite!Numeric, Numeric
<1>8. \A k, d : Lite!FromIso(k, d) = FromIso(k, d)
  BY <1>1 DEF Lite!FromIso, FromIso, Lite!DateFromIso, DateFromIso, Lite!TimeFromIso,
              TimeFromIso, Lite!DatetimeFromIso, DatetimeFromIso
<1>9. \A how, null, getter : Lite!Outcomes(how, null, getter) = Outcomes(how, null, getter)
  BY <1>1 DEF Lite!Outcomes, Outcomes
<1>. QED
  BY <1>1, <1>2, <1>5, <1>6, <1>7, <1>8, <1>9

-----------------------------------------------------------------------------
\* sqlite: what was bound last, or the column of the row.

LiteShape(c) == c = [use |-> c.use, kind |-> c.kind, class |-> c.class, content |-> c.content]
LiteBound(c) == IF c.class = "NULL" THEN Null ELSE c.content
LiteReal(k, d) == k = "Decimal" \/ (k = "UnsignedLong" /\ ~ Fits("Long", d.n))
LiteSent(k, d, seen) ==
  /\ k = "Unsigned64" /\ Numeric(d) => seen = Num(Cast("Int64", d.n))
  /\ LiteReal(k, d) => seen \in Lite!AsDouble(d)
  /\ ~ (k = "Unsigned64" /\ Numeric(d)) /\ ~ LiteReal(k, d) => seen = d
LiteRight(c, s) ==
  /\ LiteShape(c) /\ c.use \in {"in", "out"}
  /\ c.use = "in" => \A d \in s : LiteSent(c.kind, d, LiteBound(c))
  /\ c.use = "out" => /\ s = {c.content} /\ c.content \in Datum \cup {Null}
                      /\ (c.class = "NULL") <=> (c.content = Null)
                      /\ c.content.is = "number" => Fits("Int64", c.content.n)

LEMMA LiteStarts ==
  ASSUME Lite!Init
  PROVE  LiteRight(cell, said) /\ Reports(answer) /\ Keeps(answer)
BY NoAnswerRight, LiteConversions DEF Lite!Init, LiteRight, LiteShape, LiteBound, LiteSent, LiteReal

LEMMA LiteSeen ==
  ASSUME LiteRight(cell, said), cell.use = "in", driver = "sqlite"
  PROVE  SentAsSet
<1>1. Seen = LiteBound(cell)
  BY LiteConversions DEF Seen, Lite!Seen, LiteBound
<1>2. \A d \in said : LiteSent(cell.kind, d, Seen)
  BY <1>1 DEF LiteRight
<1>3. ASSUME NEW k, NEW d, NEW seen, LiteSent(k, d, seen)
      PROVE  Kept(k, d, seen)
  BY <1>3 DEF Kept, LiteSent, LiteReal
<1>. QED
  BY <1>2, <1>3 DEF SentAsSet

LEMMA LiteBinds ==
  ASSUME LiteRight(cell, said), NEW k, NEW class, NEW d, NEW given, Lite!Bind(k, class, d, given),
         class = "NULL" => d = Null, LiteSent(k, given, d)
  PROVE  LiteRight(cell', said') /\ answer' = NoAnswer
<1>1. /\ cell.use = "in" /\ said' = {given} /\ answer' = NoAnswer
      /\ cell' = [cell EXCEPT !.kind = k, !.class = class, !.content = d]
  BY LiteConversions DEF Lite!Bind
<1>2. LiteShape(cell)
  BY DEF LiteRight
<1>3. /\ LiteShape(cell') /\ cell'.use = "in"
      /\ cell'.kind = k /\ cell'.class = class /\ cell'.content = d
  BY <1>1, <1>2 DEF LiteShape
<1>4. LiteBound(cell') = d
  BY <1>3 DEF LiteBound
<1>. QED
  BY <1>1, <1>3, <1>4 DEF LiteRight

\* A double has room for an unsigned of 32 bits.
LEMMA LiteExact ==
  ASSUME NEW k \in {"Unsigned", "Unsigned32"}, NEW d \in Datum, d.is = "number", Fits(k, d.n),
         NEW x \in Lite!AsDouble(d)
  PROVE  x = d
<1>1. d.n \in Int /\ d = Num(d.n)
  BY DatumIs
<1>3. Power(4) \in Nat /\ Exact \in Nat /\ Power(4) <= Exact
  BY PowerTwice, ExactAssumption DEF Widths
<1>2. 0 <= d.n /\ d.n <= Power(4) - 1
  <2>1. Width(k) = 4 /\ k \notin SignedKinds
    BY DEF Width, SignedKinds
  <2>. QED
    BY <1>1, <1>3, <2>1 DEF Fits, MinOf, MaxOf
<1>4. -Exact <= d.n /\ d.n <= Exact
  BY <1>1, <1>2, <1>3
<1>5. Lite!AsDouble(d) = {Num(d.n)}
  BY <1>4, LiteConversions DEF Lite!AsDouble
<1>. QED
  BY <1>1, <1>5

\* A double is not null.
LEMMA LiteDouble ==
  ASSUME NEW d, d # Null, NEW x \in Lite!AsDouble(d)
  PROVE  x # Null
<1>1. x = d \/ (\E m : x = Num(m)) \/ x = Lite!Approximation(d.n)
  BY LiteConversions DEF Lite!AsDouble
<1>2. Lite!Approximation(d.n) # Null
  BY DEF Lite!Approximation, Null, Text
<1>. QED
  BY <1>1, <1>2, NoNull

LEMMA LiteSet ==
  ASSUME LiteRight(cell, said), NEW k, NEW d \in Datum \cup {Null}, Lite!Set(k, d)
  PROVE  LiteRight(cell', said') /\ answer' = NoAnswer
<1>1. ASSUME NEW class, Lite!Bind(k, class, d, d), class = "NULL" => d = Null, k # "Unsigned64",
             ~ LiteReal(k, d)
      PROVE  LiteRight(cell', said') /\ answer' = NoAnswer
  <2>1. LiteSent(k, d, d)
    BY <1>1 DEF LiteSent
  <2>. QED
    BY <1>1, <2>1, LiteBinds
<1>2. d.is = "number" => d = Num(d.n) /\ d.n \in Int /\ Numeric(d)
  BY DatumIs, NullIs DEF Numeric
<1>3. CASE d.is = "number" /\ Lite!SetInt(k, d.n)
  <2>1. Lite!Bind(k, "INTEGER", d, d) /\ k # "Unsigned64" /\ ~ LiteReal(k, d)
    BY <1>2, <1>3, LiteConversions DEF Lite!SetInt, LiteReal
  <2>. QED
    BY <1>1, <2>1
<1>4. CASE d.is = "number" /\ Lite!SetInt64(k, d.n)
  <2>1. Lite!Bind(k, "INTEGER", d, d) /\ k # "Unsigned64" /\ ~ LiteReal(k, d)
    BY <1>2, <1>4, LiteConversions DEF Lite!SetInt64, LiteReal
  <2>. QED
    BY <1>1, <2>1
<1>5. CASE d.is = "number" /\ Lite!SetUnsigned(k, d.n)
  <2> DEFINE room == Fits(IF k = "UnsignedLong" THEN "Long" ELSE "Int", d.n)
  <2>1. k \in {"Unsigned", "Unsigned32", "UnsignedLong"} /\ Fits(k, d.n)
    BY <1>5, LiteConversions DEF Lite!SetUnsigned
  <2>2. /\ room => Lite!Bind(k, "INTEGER", d, d)
        /\ ~ room => \E x \in Lite!AsDouble(d) : Lite!Bind(k, "REAL", x, d)
    BY <1>2, <1>5, LiteConversions DEF Lite!SetUnsigned
  <2>3. LiteReal(k, d) <=> k = "UnsignedLong" /\ ~ room
    BY <2>1 DEF LiteReal
  <2>4. CASE room
    BY <1>1, <2>1, <2>2, <2>3, <2>4
  <2>5. CASE ~ room
    <3>1. PICK x \in Lite!AsDouble(d) : Lite!Bind(k, "REAL", x, d)
      BY <2>2, <2>5
    <3>2. LiteSent(k, d, x)
      <4>1. CASE k = "UnsignedLong"
        BY <2>3, <2>5, <4>1 DEF LiteSent
      <4>2. CASE k # "UnsignedLong"
        <5>0. d \in Datum /\ d.is = "number" /\ k \in {"Unsigned", "Unsigned32"} /\ Fits(k, d.n)
          BY <1>5, <2>1, <4>2, NullIs
        <5>1. x = d
          BY <5>0, LiteExact
        <5>. QED
          BY <2>1, <2>3, <4>2, <5>1 DEF LiteSent
      <4>. QED
        BY <4>1, <4>2
    <3>. QED
      BY <3>1, <3>2, LiteBinds
  <2>. QED
    BY <2>4, <2>5
<1>6. CASE d.is = "number" /\ k = "Unsigned64" /\ Lite!SetUnsigned64(d.n)
  <2> DEFINE e == Num(Cast("Int64", d.n))
  <2>1. Lite!Bind(k, "INTEGER", e, d)
    BY <1>2, <1>6, LiteConversions DEF Lite!SetUnsigned64
  <2>2. LiteSent(k, d, e)
    BY <1>2, <1>6 DEF LiteSent, LiteReal
  <2> HIDE DEF e
  <2>. QED
    BY <2>1, <2>2, LiteBinds
<1>7. CASE Lite!SetDouble(k, d)
  <2>1. Lite!Bind(k, "REAL", d, d) /\ k # "Unsigned64" /\ ~ LiteReal(k, d)
    BY <1>7 DEF Lite!SetDouble, LiteReal
  <2>. QED
    BY <1>1, <2>1
<1>7a. CASE k = "Decimal" /\ Lite!SetDecimal(d)
  <2>1. PICK x \in Lite!AsDouble(d) : Lite!Bind(k, "REAL", x, d)
    BY <1>7a DEF Lite!SetDecimal
  <2>2. LiteSent(k, d, x)
    BY <1>7a DEF LiteSent, LiteReal
  <2>. QED
    BY <2>1, <2>2, LiteBinds
<1>8. CASE Lite!SetText(k, d)
  <2>1. Lite!Bind(k, "TEXT", d, d) /\ k # "Unsigned64" /\ ~ LiteReal(k, d)
    BY <1>8 DEF Lite!SetText, LiteReal
  <2>. QED
    BY <1>1, <2>1
<1>9. CASE k = "Blob" /\ Lite!SetBlob(d)
  <2>1. Lite!Bind(k, "BLOB", d, d) /\ ~ LiteReal(k, d)
    BY <1>9 DEF Lite!SetBlob, LiteReal
  <2>. QED
    BY <1>1, <1>9, <2>1
<1>10. CASE k = "Null" /\ d = Null /\ Lite!SetNull
  <2>1. Lite!Bind(k, "NULL", d, d) /\ ~ LiteReal(k, d)
    BY <1>10, LiteConversions DEF Lite!SetNull, LiteReal
  <2>. QED
    BY <1>1, <1>10, <2>1
<1>. QED
  BY <1>3, <1>4, <1>5, <1>6, <1>7, <1>7a, <1>8, <1>9, <1>10, LiteConversions DEF Lite!Set

LEMMA LiteClears ==
  ASSUME LiteRight(cell, said), Lite!Clear
  PROVE  LiteRight(cell', said') /\ answer' = NoAnswer
<1>1. Lite!Bind("Null", "NULL", Null, Null)
  BY LiteConversions DEF Lite!Clear, Lite!SetNull
<1>2. LiteSent("Null", Null, Null)
  BY DEF LiteSent, LiteReal
<1>. QED
  BY <1>1, <1>2, LiteBinds

LEMMA LiteFetches ==
  ASSUME LiteRight(cell, said), NEW d \in Datum \cup {Null}, NEW class, Lite!Column(d, class)
  PROVE  LiteRight(cell', said') /\ answer' = NoAnswer
<1>1. /\ cell' = [cell EXCEPT !.use = "out", !.class = class, !.content = d]
      /\ said' = {d} /\ answer' = NoAnswer
      /\ d.is = "number" => Fits("Int64", d.n)
  BY LiteConversions DEF Lite!Column
<1>2. (class = "NULL") <=> (d = Null)
  <2>1. class \in {Lite!Class(d)} \cup (IF Numeric(d) THEN {"TEXT"} ELSE {})
    BY LiteConversions DEF Lite!Column
  <2>2. (Lite!Class(d) = "NULL") <=> (d = Null)
    <3>1. CASE d = Null
      BY <3>1, LiteConversions, NullIs DEF Lite!Class
    <3>2. CASE d # Null
      BY <3>2, LiteConversions DEF Lite!Class
    <3>. QED
      BY <3>1, <3>2
  <2>3. d = Null => ~ Numeric(d)
    BY NullIs
  <2>. QED
    BY <2>1, <2>2, <2>3
<1>3. LiteShape(cell)
  BY DEF LiteRight
<1>4. LiteShape(cell') /\ cell'.use = "out" /\ cell'.class = class /\ cell'.content = d
  BY <1>1, <1>3 DEF LiteShape
<1>. QED
  BY <1>1, <1>2, <1>4 DEF LiteRight

\* The steps from sqlite's integers to the integers asked for.
LEMMA LiteInteger ==
  ASSUME NEW k \in IntKinds, NEW d \in Datum, d.is = "number", RoomFor(k, d.n), Fits("Int64", d.n)
  PROVE  Lite!GetInteger(k, d) = d.n
<1> DEFINE n == d.n
<1>1. n \in Int /\ Lite!ColumnInt64(d) = n
  BY DatumIs DEF Lite!ColumnInt64
<1>2. Fits(k, n) /\ (k = "UnsignedLong" => Fits("Unsigned", n))
  BY <1>1, RoomIs
<1>3. Cast(k, n) = n
  BY <1>1, <1>2, CastKeeps
<1>4. Fits("Int", n) => Cast("Int", n) = n
  BY <1>1, CastKeeps
<1>5. Fits("Unsigned", n) => Cast("Unsigned", n) = n
  BY <1>1, CastKeeps
<1>6. /\ Fits("Short", n) => Fits("Int", n)
      /\ Fits("UnsignedShort", n) => Fits("Unsigned", n)
  BY <1>1, FitsLonger
<1>7. Fits("Int32", n) => Fits("Int", n)
  BY DEF Fits, MinOf, MaxOf, Width, SignedKinds
<1>8. Lite!ColumnInt(d) = Cast("Int", n)
  BY <1>1, LiteConversions DEF Lite!ColumnInt
<1>9. CASE k \in {"Int", "Int32", "Short"}
  <2>1. Lite!GetInteger(k, d) = Cast(k, Cast("Int", n))
    BY <1>8, <1>9, LiteConversions DEF Lite!GetInteger
  <2>. QED
    BY <1>2, <1>3, <1>4, <1>6, <1>7, <1>9, <2>1
<1>10. CASE k \in {"Long", "Int64"}
  BY <1>1, <1>10 DEF Lite!GetInteger
<1>11. CASE k = "UnsignedShort"
  <2>1. Lite!GetInteger(k, d) = Cast(k, Cast("Unsigned", n))
    BY <1>1, <1>11, LiteConversions DEF Lite!GetInteger
  <2>. QED
    BY <1>2, <1>3, <1>5, <1>6, <1>11, <2>1
<1>12. CASE k = "UnsignedLong"
  <2>1. Lite!GetInteger(k, d) = Cast("Unsigned", n)
    BY <1>1, <1>12, LiteConversions DEF Lite!GetInteger
  <2>. QED
    BY <1>2, <1>5, <1>12, <2>1
<1>13. CASE k \in {"Unsigned", "Unsigned32", "Unsigned64"}
  <2>1. Lite!GetInteger(k, d) = Cast(k, n)
    BY <1>1, <1>13, LiteConversions DEF Lite!GetInteger
  <2>. QED
    BY <1>3, <2>1
<1>. QED
  BY <1>9, <1>10, <1>11, <1>12, <1>13 DEF IntKinds, SignedKinds, UnsignedKinds

LEMMA LiteGetter ==
  ASSUME NEW k \in Kinds, NEW c, c.content \in Datum,
         c.content.is = "number" => Fits("Int64", c.content.n),
         NEW r \in Lite!Getter(k, c)
  PROVE  Rightly(k, c.content, r)
<1> DEFINE d == c.content
<1>0. d \in Datum /\ d # Null
  BY DatumIs
<1>1. CASE k \in IntKinds
  <2>1. Lite!Getter(k, c) = {Lite!Num(Lite!GetInteger(k, d))}
    BY <1>1, KindsApart, LiteConversions DEF Lite!Getter
  <2>1a. r = Num(Lite!GetInteger(k, d))
    BY <2>1, LiteConversions
  <2>2. r # Null
    BY <2>1a, NoNull
  <2>3. d.is = "number" /\ RoomFor(k, d.n) => r = d
    BY <1>0, <1>1, <2>1a, LiteInteger, DatumIs
  <2>. QED
    BY <2>2, <2>3 DEF Rightly
<1>2. CASE k \in {"Decimal", "Float", "Double"}
  <2>1. r \in Lite!ColumnDouble(d) /\ k \notin IntKinds
    BY <1>2, KindsApart, LiteConversions DEF Lite!Getter
  <2> DEFINE number == IF Numeric(d) THEN d ELSE Num(Lite!ColumnInt64(d))
  <2>1a. number # Null
    BY <1>0, NoNull
  <2>1b. r \in Lite!AsDouble(number)
    BY <2>1, LiteConversions DEF Lite!ColumnDouble
  <2>2. r # Null
    BY <2>1a, <2>1b, LiteDouble
  <2>. QED
    BY <2>1, <2>2, OthersRightly
<1>3. CASE k = "Bool"
  <2>1. r \in Lite!GetBool(d) /\ k \notin IntKinds
    BY <1>3, KindsApart, LiteConversions DEF Lite!Getter
  <2>2. PICK x \in Lite!GetChar(d) : r = IF x = Lite!NullValue THEN x ELSE Lite!Bool(Lite!Truth(x))
    BY <2>1 DEF Lite!GetBool
  <2>3. Lite!Bool(Lite!Truth(x)) # Null
    BY DEF Lite!Bool, Null, Text
  <2>4. r # Null
    BY <2>2, <2>3, NoNull, LiteConversions
  <2>. QED
    BY <2>1, <2>4, OthersRightly
<1>4. CASE k = "Char"
  <2>1. r \in Lite!GetChar(d) /\ k \notin IntKinds
    BY <1>4, KindsApart, LiteConversions DEF Lite!Getter
  <2>2. r # Null
    BY <1>0, <2>1, NoNull, LiteConversions DEF Lite!GetChar
  <2>. QED
    BY <2>1, <2>2, OthersRightly
<1>5. CASE k \in TimeKinds
  <2>1. r \in UNION {FromIso(k, x) : x \in Lite!GetString(d)} /\ k \notin IntKinds
    BY <1>5, KindsApart, LiteConversions DEF Lite!Getter
  <2>2. Lite!GetString(d) = {d}
    BY <1>0, LiteConversions DEF Lite!GetString
  <2>3. r \in FromIso(k, d)
    BY <2>1, <2>2
  <2>. QED
    BY <1>0, <2>1, <2>3, FromIsoGives, OthersRightly
<1>6. CASE k \in {"String", "Blob"}
  <2>1. r \in Lite!GetString(d) /\ k \notin IntKinds
    BY <1>6, KindsApart, LiteConversions DEF Lite!Getter
  <2>2. r # Null
    BY <1>0, <2>1, LiteConversions DEF Lite!GetString
  <2>. QED
    BY <2>1, <2>2, OthersRightly
<1>. QED
  BY <1>1, <1>2, <1>3, <1>4, <1>5, <1>6 DEF Kinds

LEMMA LiteStep ==
  ASSUME Data \subseteq Datum, LiteRight(cell, said), Lite!Next
  PROVE  LiteRight(cell', said') /\ Reports(answer') /\ Keeps(answer')
<1>1. ASSUME NEW k, NEW d \in Datum \cup {Null}, Lite!Set(k, d)
      PROVE  LiteRight(cell', said') /\ Reports(answer') /\ Keeps(answer')
  BY <1>1, LiteSet, NoAnswerRight
<1>2. ASSUME Lite!Clear
      PROVE  LiteRight(cell', said') /\ Reports(answer') /\ Keeps(answer')
  BY <1>2, LiteClears, NoAnswerRight
<1>3. ASSUME NEW d \in Datum \cup {Null}, NEW class, Lite!Column(d, class)
      PROVE  LiteRight(cell', said') /\ Reports(answer') /\ Keeps(answer')
  BY <1>3, LiteFetches, NoAnswerRight
<1>4. ASSUME NEW how, NEW k \in Kinds, Lite!Get(how, k)
      PROVE  LiteRight(cell', said') /\ Reports(answer') /\ Keeps(answer')
  <2> DEFINE null == cell.class = "NULL"
  <2>1. cell.use = "out" /\ cell' = cell /\ said' = said
    BY <1>4 DEF Lite!Get
  <2>2. PICK r \in Outcomes(how, null, Lite!Getter(k, cell)), d \in said :
           answer' = [how |-> how, kind |-> k, given |-> d, out |-> r]
    BY <1>4, LiteConversions DEF Lite!Get
  <2>3. d = cell.content /\ (null <=> (d = Null)) /\ null \in BOOLEAN
    BY <2>1 DEF LiteRight
  <2>4. ASSUME ~ null, NEW g \in Lite!Getter(k, cell) PROVE Rightly(k, d, g)
    BY <2>1, <2>3, <2>4, LiteGetter DEF LiteRight
  <2> HIDE DEF null
  <2>5. ~ null => \A g \in Lite!Getter(k, cell) : g # Null /\ (~ FALSE => Rightly(k, d, g))
    BY <2>4 DEF Rightly
  <2>6. Reports(answer') /\ (~ FALSE => Keeps(answer'))
    BY <2>2, <2>3, <2>5, AnsweredRight
  <2>. QED
    BY <2>1, <2>6
<1>. QED
  BY <1>1, <1>2, <1>3, <1>4, LiteConversions DEF Lite!Next

LEMMA MyConversions ==
  /\ My!Null = Null /\ My!Empty = Empty /\ My!NoAnswer = NoAnswer
  /\ My!NullValue = NullValue /\ My!TypeError = TypeError /\ My!Crash = Crash
  /\ My!IntKinds = IntKinds /\ My!Kinds = Kinds /\ My!TimeKinds = TimeKinds
  /\ My!UnsignedKinds = UnsignedKinds
  /\ \A n : My!Num(n) = Num(n)
  /\ \A d : My!Numeric(d) <=> Numeric(d)
  /\ \A k, n : My!Fits(k, n) <=> Fits(k, n)
  /\ \A k, n : My!Cast(k, n) = Cast(k, n)
  /\ \A k : My!Width(k) = Width(k)
  /\ \A b : My!Power(b) = Power(b)
  /\ \A b, n : My!AsSigned(b, n) = AsSigned(b, n) /\ My!AsUnsigned(b, n) = AsUnsigned(b, n)
<1>1. /\ My!Null = Null /\ My!Empty = Empty /\ My!NoAnswer = NoAnswer
      /\ My!NullValue = NullValue /\ My!TypeError = TypeError /\ My!Crash = Crash
  BY DEF My!Null, Null, My!Empty, Empty, My!NoAnswer, NoAnswer, My!NullValue, NullValue,
         My!TypeError, TypeError, My!Crash, Crash, My!Text, Text
<1>2. /\ My!IntKinds = IntKinds /\ My!SignedKinds = SignedKinds /\ My!Kinds = Kinds
      /\ My!TimeKinds = TimeKinds /\ My!UnsignedKinds = UnsignedKinds
  BY DEF My!IntKinds, IntKinds, My!SignedKinds, SignedKinds, My!UnsignedKinds,
         UnsignedKinds, My!Kinds, Kinds, My!TimeKinds, TimeKinds
<1>3. \A b : My!Power(b) = Power(b)
  BY DEF My!Power, Power
<1>4. \A k : My!Width(k) = Width(k)
  BY DEF My!Width, Width
<1>5. \A k, n : My!Fits(k, n) <=> Fits(k, n)
  BY <1>2, <1>3, <1>4 DEF My!Fits, Fits, My!MinOf, MinOf, My!MaxOf, MaxOf
<1>6. \A b, n : My!AsSigned(b, n) = AsSigned(b, n) /\ My!AsUnsigned(b, n) = AsUnsigned(b, n)
  BY <1>3 DEF My!AsSigned, AsSigned, My!AsUnsigned, AsUnsigned
<1>7. \A k, n : My!Cast(k, n) = Cast(k, n)
  BY <1>2, <1>4, <1>6 DEF My!Cast, Cast
<1>8. (\A n : My!Num(n) = Num(n)) /\ (\A d : My!Numeric(d) <=> Numeric(d))
  BY DEF My!Num, Num, My!Numeric, Numeric
<1>. QED
  BY <1>1, <1>2, <1>3, <1>4, <1>5, <1>6, <1>7, <1>8

LEMMA MyReadings ==
  /\ \A k, d : My!Extract(k, d) = Extract(k, d)
  /\ \A d : My!ExtractFloat(d) = ExtractFloat(d)
  /\ \A k, d : My!DecimalInteger(k, d) = DecimalInteger(k, d)
  /\ \A d : My!ParseDecimal(d) = ParseDecimal(d)
  /\ \A k, d : My!FromIso(k, d) = FromIso(k, d)
  /\ \A how, null, getter : My!Outcomes(how, null, getter) = Outcomes(how, null, getter)
<1>0. /\ My!SignedKinds = SignedKinds /\ My!UnsignedKinds = UnsignedKinds
      /\ My!Overflow = Overflow /\ My!ConversionError = ConversionError /\ My!TypeError = TypeError
  BY DEF My!SignedKinds, SignedKinds, My!UnsignedKinds, UnsignedKinds, My!Overflow, Overflow,
         My!ConversionError, ConversionError, My!TypeError, TypeError, My!Text, Text
<1>1. \A k : My!MaxOf(k) = MaxOf(k) /\ My!MinOf(k) = MinOf(k)
  BY <1>0, MyConversions DEF My!MinOf, MinOf, My!MaxOf, MaxOf
<1>2. \A k : My!Uninitialized(k) = Uninitialized(k)
  BY MyConversions DEF My!Uninitialized, Uninitialized
<1>3. \A k, d : My!Extract(k, d) = Extract(k, d)
  <2> TAKE k, d
  <2> DEFINE wraps == k \in UnsignedKinds /\ d.n < 0 /\ -d.n <= MaxOf(k)
             s == IF Fits(k, d.n) \/ wraps THEN Cast(k, d.n)
                  ELSE IF d.n < 0 /\ k \in SignedKinds THEN MinOf(k) ELSE MaxOf(k)
             f == ~ (Fits(k, d.n) \/ wraps)
             u == Uninitialized(k)
  <2>1. Extract(k, d) =
          CASE d.is = "number" -> [stored |-> {Num(s)}, fail |-> f, eof |-> TRUE]
            [] d.is \in {"fraction", "date", "time", "datetime"}
                  -> [stored |-> {Num(s)}, fail |-> f, eof |-> FALSE]
            [] d.is = "empty" -> [stored |-> u, fail |-> TRUE, eof |-> TRUE]
            [] OTHER -> [stored |-> {Num(0)}, fail |-> TRUE, eof |-> FALSE]
    BY DEF Extract
  <2> DEFINE wraps1 == k \in My!UnsignedKinds /\ d.n < 0 /\ -d.n <= My!MaxOf(k)
             s1 == IF My!Fits(k, d.n) \/ wraps1 THEN My!Cast(k, d.n)
                   ELSE IF d.n < 0 /\ k \in My!SignedKinds THEN My!MinOf(k) ELSE My!MaxOf(k)
             f1 == ~ (My!Fits(k, d.n) \/ wraps1)
             u1 == My!Uninitialized(k)
  <2>2. My!Extract(k, d) =
          CASE d.is = "number" -> [stored |-> {My!Num(s1)}, fail |-> f1, eof |-> TRUE]
            [] d.is \in {"fraction", "date", "time", "datetime"}
                  -> [stored |-> {My!Num(s1)}, fail |-> f1, eof |-> FALSE]
            [] d.is = "empty" -> [stored |-> u1, fail |-> TRUE, eof |-> TRUE]
            [] OTHER -> [stored |-> {My!Num(0)}, fail |-> TRUE, eof |-> FALSE]
    BY DEF My!Extract
  <2>3. (wraps1 <=> wraps) /\ u1 = u
    BY <1>0, <1>1, <1>2
  <2>4. s1 = s /\ (f1 <=> f)
    <3> HIDE DEF wraps, wraps1
    <3>. QED
      BY <1>0, <1>1, <2>3, MyConversions
  <2>5. f \in BOOLEAN /\ f1 \in BOOLEAN
    OBVIOUS
  <2> HIDE DEF s, f, u, s1, f1, u1, wraps, wraps1
  <2> DEFINE v == {Num(s)}
             z == {Num(0)}
  <2>6. {My!Num(s1)} = v /\ {My!Num(0)} = z
    BY <2>4, MyConversions
  <2> HIDE DEF v, z
  <2>7. Extract(k, d) =
          CASE d.is = "number" -> [stored |-> v, fail |-> f, eof |-> TRUE]
            [] d.is \in {"fraction", "date", "time", "datetime"}
                  -> [stored |-> v, fail |-> f, eof |-> FALSE]
            [] d.is = "empty" -> [stored |-> u, fail |-> TRUE, eof |-> TRUE]
            [] OTHER -> [stored |-> z, fail |-> TRUE, eof |-> FALSE]
    BY <2>1 DEF v, z
  <2>8. My!Extract(k, d) =
          CASE d.is = "number" -> [stored |-> v, fail |-> f1, eof |-> TRUE]
            [] d.is \in {"fraction", "date", "time", "datetime"}
                  -> [stored |-> v, fail |-> f1, eof |-> FALSE]
            [] d.is = "empty" -> [stored |-> u1, fail |-> TRUE, eof |-> TRUE]
            [] OTHER -> [stored |-> z, fail |-> TRUE, eof |-> FALSE]
    BY <2>2, <2>6
  <2>9. f1 = f
    BY <2>4, <2>5
  <2>. QED
    BY <2>3, <2>7, <2>8, <2>9
<1>4. \A d : My!ExtractFloat(d) = ExtractFloat(d)
  <2> TAKE d
  <2>1. CASE Numeric(d)
    BY <2>1, MyConversions DEF My!ExtractFloat, ExtractFloat, Numeric
  <2>2. CASE d.is \in {"date", "time", "datetime"}
    BY <2>2, MyConversions DEF My!ExtractFloat, ExtractFloat, Numeric
  <2>3. CASE d.is = "empty"
    BY <1>2, <2>3, MyConversions DEF My!ExtractFloat, ExtractFloat, Numeric
  <2>4. CASE ~ Numeric(d) /\ d.is \notin {"date", "time", "datetime", "empty"}
    BY <2>4, MyConversions DEF My!ExtractFloat, ExtractFloat, Numeric
  <2>. QED
    BY <2>1, <2>2, <2>3, <2>4
<1>5. \A d : My!Rounded(d) = Rounded(d)
  BY DEF My!Rounded, Rounded
<1>6. \A k, d : My!DecimalInteger(k, d) = DecimalInteger(k, d)
  BY <1>0, <1>1, <1>5, MyConversions DEF My!DecimalInteger, DecimalInteger
<1>7. \A d : My!ParseDecimal(d) = ParseDecimal(d)
  BY <1>0, MyConversions DEF My!ParseDecimal, ParseDecimal
<1>8. \A k, d : My!FromIso(k, d) = FromIso(k, d)
  BY <1>0 DEF My!FromIso, FromIso, My!DateFromIso, DateFromIso, My!TimeFromIso,
              TimeFromIso, My!DatetimeFromIso, DatetimeFromIso
<1>9. \A how, null, getter : My!Outcomes(how, null, getter) = Outcomes(how, null, getter)
  BY MyConversions DEF My!Outcomes, Outcomes
<1>. QED
  BY <1>3, <1>4, <1>6, <1>7, <1>8, <1>9

-----------------------------------------------------------------------------
\* Bytes that are stored in a buffer and read again.

LEMMA SameBytes ==
  ASSUME NEW b, NEW x, NEW y, x % Power(b) = y % Power(b)
  PROVE  AsSigned(b, x) = AsSigned(b, y) /\ AsUnsigned(b, x) = AsUnsigned(b, y)
BY DEF AsSigned, AsUnsigned

LEMMA LowerBytes ==
  ASSUME NEW x \in Int, NEW y \in Int
  PROVE  /\ x % Power(8) = y % Power(8) => x % Power(4) = y % Power(4)
         /\ x % Power(4) = y % Power(4) => x % Power(2) = y % Power(2)
<1>1. ASSUME NEW P \in Nat, P > 0, NEW Q, Q = P * P
      PROVE  x % Q = y % Q => x % P = y % P
  <2>1. (x % (P * P)) % P = x % P /\ (y % (P * P)) % P = y % P
    BY <1>1, ModuloOfModulo
  <2>. QED
    BY <1>1, <2>1
<1>2. Power(4) = Power(2) * Power(2) /\ Power(8) = Power(4) * Power(4)
  BY PowerIs
<1>3. Power(2) \in Nat /\ Power(2) > 0
  <2>1. PICK h \in Nat : Power(2) \in Nat /\ h > 0 /\ Power(2) = 2 * h
    BY PowerTwice DEF Widths
  <2>. QED
    BY <2>1
<1>4. Power(4) \in Nat /\ Power(4) > 0
  <2>1. PICK h \in Nat : Power(4) \in Nat /\ h > 0 /\ Power(4) = 2 * h
    BY PowerTwice DEF Widths
  <2>. QED
    BY <2>1
<1>5. x % Power(8) = y % Power(8) => x % Power(4) = y % Power(4)
  BY <1>1, <1>2, <1>4
<1>6. x % Power(4) = y % Power(4) => x % Power(2) = y % Power(2)
  BY <1>1, <1>2, <1>3
<1>. QED
  BY <1>5, <1>6

LEMMA StoredBytes ==
  ASSUME NEW word \in Nat, NEW w \in Widths, NEW n \in Int
  PROVE  My!Stored(word, w, n) \in Nat /\ My!Stored(word, w, n) % Power(w) = n % Power(w)
<1> DEFINE P == Power(w)
           q == word \div P
           r == word % P
           u == AsUnsigned(w, n)
           s == (word - r) + u
<1>0. My!Stored(word, w, n) = s
  BY MyConversions DEF My!Stored
<1>1. P \in Nat /\ P > 0
  BY PowerTwice
<1>2. u \in Nat /\ u % P = n % P
  BY Unsigned
<1>3. word = P * q + r /\ r \in 0..(P - 1) /\ q \in Int
  <2> HIDE DEF P
  <2>. QED
    BY <1>1, Modulo
<1>4. P * q \in Int
  <2> HIDE DEF P
  <2>. QED
    BY <1>1, <1>3
<1>3a. word - r >= 0
  <2> HIDE DEF P
  <2>1. q >= 0
    BY <1>1
  <2>2. P * q >= 0
    BY <1>1, <1>3, <2>1
  <2> HIDE DEF q, r
  <2>. QED
    BY <1>3, <1>4, <2>2
<1> HIDE DEF P, q, r, u
<1>5. s \in Nat /\ s = u + P * q
  BY <1>2, <1>3, <1>3a, <1>4
<1>6. s % P = u % P
  <2>0. P \in Nat /\ P > 0 /\ q \in Int
    BY <1>1, <1>3
  <2>1. s \in Int /\ u \in Int
    BY <1>2, <1>5
  <2>2. \A x, y \in Int : y = x + P * q => y % P = x % P
    BY <2>0, ModuloAdd
  <2> DEFINE more == P * q
  <2>3. \A x, y \in Int : y = x + more => y % P = x % P
    BY <2>2
  <2>4. s = u + more
    BY <1>5
  <2> HIDE DEF s, more
  <2>. QED
    BY <2>1, <2>3, <2>4
<1>. QED
  BY <1>0, <1>2, <1>5, <1>6 DEF P

-----------------------------------------------------------------------------
\* mysql: the bytes and the content of a bind.

MyShape(c) ==
  c = [use |-> c.use, kind |-> c.kind, type |-> c.type, unsigned |-> c.unsigned,
       word |-> c.word, content |-> c.content, points |-> c.points, isNull |-> c.isNull]
MyTyped(c) == c.word \in Nat /\ c.unsigned \in BOOLEAN /\ c.points \in BOOLEAN /\ c.isNull \in BOOLEAN
MyKept(k, d, seen) ==
  /\ k \in {"Short", "UnsignedShort"} /\ Numeric(d) => seen.is = "number" /\ Cast(k, seen.n) = d.n
  /\ k = "Long" /\ Numeric(d) => seen = Num(Cast("Int", d.n))
  /\ k = "UnsignedLong" /\ Numeric(d) => seen = Num(Cast("Unsigned", d.n))
  /\ k # "Null" /\ d = Null => seen # Null
  /\ ~ (k \in {"Short", "UnsignedShort", "Long", "UnsignedLong"} /\ Numeric(d))
       /\ ~ (k # "Null" /\ d = Null) => seen = d
MyColumn(c, d) ==
  IF c.type \in My!IntTypes THEN d = Num(My!Word(c)) ELSE d = c.content
MyRight(c, s) ==
  /\ MyShape(c) /\ MyTyped(c) /\ c.use \in {"fresh", "in", "out", "row"}
  /\ c.use = "in" => /\ c.type = "NULL" \/ ~ c.points
                     /\ \A d \in s : MyKept(c.kind, d, My!Seen(c))
                     /\ c.kind = "Null" <=> My!Seen(c) = Null
  /\ c.use = "out" => c.points /\ c.type # "NULL"
  /\ c.use = "out" /\ c.isNull => s = {Null}
  /\ c.use = "out" /\ ~ c.isNull => \E d \in Datum : s = {d} /\ MyColumn(c, d)
  /\ c.use = "row" => s = {c.content} /\ c.content \in Datum \cup {Null}

LEMMA MyFresh ==
  ASSUME NEW use
  PROVE  /\ MyShape(My!Fresh(use)) /\ MyTyped(My!Fresh(use)) /\ My!Fresh(use).use = use
         /\ My!Fresh(use).points /\ My!Fresh(use).isNull
BY DEF My!Fresh, MyShape, MyTyped

LEMMA MyStarts ==
  ASSUME My!Init
  PROVE  MyRight(cell, said) /\ Reports(answer) /\ Keeps(answer)
BY MyFresh, NoAnswerRight, MyConversions DEF My!Init, MyRight

LEMMA MySent ==
  ASSUME MyRight(cell, said), cell.use = "in", driver = "mysql"
  PROVE  SentAsSet
<1>1. Seen = My!Seen(cell)
  BY DEF Seen
<1>2. \A d \in said : MyKept(cell.kind, d, Seen)
  BY <1>1 DEF MyRight
<1>3. ASSUME NEW k, NEW d, NEW seen, MyKept(k, d, seen)
      PROVE  Kept(k, d, seen)
  BY <1>3, NullIs DEF Kept, MyKept
<1>. QED
  BY <1>2, <1>3 DEF SentAsSet

\* The bytes of an integer as the server reads them.
LEMMA MyIntegerSeen ==
  ASSUME NEW k \in IntKinds, NEW n \in Int, Fits(k, n), NEW m \in Nat,
         NEW word, word = My!Stored(m, Width(k), My!Passed(k, n)),
         NEW w, w = (IF k \in UnsignedKinds THEN AsUnsigned(Width(IF k \in {"Int64", "Unsigned64"} THEN "Int64" ELSE "Int"), word)
                     ELSE AsSigned(Width(IF k \in {"Int64", "Unsigned64"} THEN "Int64" ELSE "Int"), word))
  PROVE  word \in Nat /\ w \in Int /\ MyKept(k, Num(n), Num(w))
<1> DEFINE p == My!Passed(k, n)
<1>0. /\ Numeric(Num(n)) /\ Num(n).n = n /\ (\A x : Num(x).is = "number" /\ Num(x).n = x)
      /\ Num(n) # Null
  BY NoNull DEF Numeric, Num
<1>1. p \in Int /\ Width(k) \in Widths
  BY CastNumber, MyConversions, WidthOf DEF My!Passed
<1>2. word \in Nat /\ word % Power(Width(k)) = p % Power(Width(k))
  BY <1>1, StoredBytes
<1>3. Cast(k, n) = n
  BY CastKeeps
<1>4. k \in UnsignedKinds <=> k \notin SignedKinds
  BY DEF IntKinds, SignedKinds, UnsignedKinds
<1>5. Width("Int64") = 8 /\ Width("Int") = 4 /\ 2 \in Widths /\ 4 \in Widths /\ 8 \in Widths
  BY DEF Width, Widths
<1>6. w \in Int
  BY <1>2, <1>5, Signed, Unsigned
<1>7. CASE k \in {"Int", "Int32", "Unsigned", "Unsigned32"}
  <2>1. p = n /\ Width(k) = 4
    BY <1>7, MyConversions DEF My!Passed, Width
  <2>2. AsSigned(4, word) = AsSigned(4, n) /\ AsUnsigned(4, word) = AsUnsigned(4, n)
    BY <1>2, <2>1, SameBytes
  <2>3. w = n
    BY <1>3, <1>4, <1>5, <1>7, <2>1, <2>2 DEF Cast
  <2>. QED
    BY <1>0, <1>2, <1>6, <1>7, <2>3 DEF MyKept
<1>8. CASE k \in {"Int64", "Unsigned64"}
  <2>1. p = n /\ Width(k) = 8
    BY <1>8, MyConversions DEF My!Passed, Width
  <2>2. AsSigned(8, word) = AsSigned(8, n) /\ AsUnsigned(8, word) = AsUnsigned(8, n)
    BY <1>2, <2>1, SameBytes
  <2>3. w = n
    BY <1>3, <1>4, <1>5, <1>8, <2>1, <2>2 DEF Cast
  <2>. QED
    BY <1>0, <1>2, <1>6, <1>8, <2>3 DEF MyKept
<1>9. CASE k = "Long"
  <2>1. p = Cast("Int", n) /\ Width(k) = 8 /\ k \in SignedKinds /\ "Int" \in SignedKinds
    BY <1>9, MyConversions DEF My!Passed, Width, SignedKinds
  <2>2. p = AsSigned(4, n)
    BY <1>5, <2>1 DEF Cast
  <2>3. p % Power(4) = n % Power(4)
    BY <1>5, <2>2, Signed
  <2>4. word % Power(4) = p % Power(4)
    BY <1>1, <1>2, <2>1, LowerBytes
  <2>5. AsSigned(4, word) = p
    BY <2>2, <2>3, <2>4, SameBytes
  <2>6. w = Cast("Int", n)
    BY <1>4, <1>5, <1>9, <2>1, <2>5
  <2>. QED
    BY <1>0, <1>2, <1>6, <1>9, <2>6 DEF MyKept
<1>10. CASE k = "UnsignedLong"
  <2>1. /\ p = Cast("Unsigned", n) /\ Width(k) = 8 /\ k \in UnsignedKinds
        /\ "Unsigned" \notin SignedKinds /\ Width("Unsigned") = 4
    BY <1>10, MyConversions DEF My!Passed, Width, UnsignedKinds, SignedKinds
  <2>2. p = AsUnsigned(4, n)
    BY <1>5, <2>1 DEF Cast
  <2>3. p % Power(4) = n % Power(4)
    BY <1>5, <2>2, Unsigned
  <2>4. word % Power(4) = p % Power(4)
    BY <1>1, <1>2, <2>1, LowerBytes
  <2>5. AsUnsigned(4, word) = p
    BY <2>2, <2>3, <2>4, SameBytes
  <2>6. w = Cast("Unsigned", n)
    BY <1>5, <1>10, <2>1, <2>5
  <2>. QED
    BY <1>0, <1>2, <1>6, <1>10, <2>6 DEF MyKept
<1>11. CASE k \in {"Short", "UnsignedShort"}
  <2>1. p = n /\ Width(k) = 2
    BY <1>11, MyConversions DEF My!Passed, Width
  <2>1a. w = AsUnsigned(4, word) \/ w = AsSigned(4, word)
    BY <1>5, <1>11
  <2>1b. AsSigned(4, word) % Power(4) = word % Power(4)
    BY <1>2, <1>5, Signed
  <2>1c. AsUnsigned(4, word) % Power(4) = word % Power(4)
    BY <1>2, <1>5, Unsigned
  <2>2. w % Power(4) = word % Power(4)
    BY <2>1a, <2>1b, <2>1c
  <2>3. w % Power(2) = word % Power(2)
    BY <1>2, <1>6, <2>2, LowerBytes
  <2>4. w % Power(2) = n % Power(2)
    BY <1>2, <2>1, <2>3
  <2>5. AsSigned(2, w) = AsSigned(2, n) /\ AsUnsigned(2, w) = AsUnsigned(2, n)
    BY <2>4, SameBytes
  <2>6. Cast(k, w) = n
    BY <1>3, <2>1, <2>5 DEF Cast
  <2>. QED
    BY <1>0, <1>2, <1>6, <1>11, <2>6 DEF MyKept
<1>. QED
  BY <1>7, <1>8, <1>9, <1>10, <1>11 DEF IntKinds, SignedKinds, UnsignedKinds

LEMMA MyReservedWord ==
  ASSUME NEW c, MyTyped(c), NEW m \in My!Reserved(c)
  PROVE  m \in Nat
BY GarbageAssumption DEF My!Reserved, MyTyped

\* A bind is set: what the server sees of it then.
LEMMA MyBindSet ==
  ASSUME NEW c, MyShape(c), MyTyped(c), NEW d, d # Null, c.kind # "Null",
         c.use = "in", ~ c.points, MyKept(c.kind, d, My!Seen(c))
  PROVE  MyRight(c, {d})
<1>1. My!Seen(c) # Null
  BY NoNull, NullIs DEF MyKept
<1>. QED
  BY <1>1 DEF MyRight

LEMMA MySeenInteger ==
  ASSUME NEW c, c.type \in My!IntTypes, ~ c.points
  PROVE  My!Seen(c) = Num(My!Word(c))
BY MyConversions DEF My!Seen, My!IsNull, My!IntTypes

LEMMA MySeenContent ==
  ASSUME NEW c, c.type \notin My!IntTypes, c.type # "NULL", ~ c.points
  PROVE  My!Seen(c) = c.content
BY DEF My!Seen, My!IsNull

LEMMA MySetsInteger ==
  ASSUME MyRight(cell, said), NEW k \in IntKinds, NEW d \in Datum, My!Fitting(k, d), My!Setting(d),
         My!SetInteger(k, d.n)
  PROVE  MyRight(cell', said') /\ answer' = NoAnswer
<1>1. said' = {d} /\ answer' = NoAnswer
  BY MyConversions DEF My!Setting
<1>2. d.is = "number" /\ d.n \in Int /\ Fits(k, d.n) /\ d = Num(d.n)
  BY DatumIs, MyConversions DEF My!Fitting
<1>3. MyShape(cell) /\ MyTyped(cell)
  BY DEF MyRight
<1>4. PICK m \in My!Reserved(cell) :
        cell' = [cell EXCEPT !.use = "in", !.kind = k, !.points = FALSE,
                   !.type = IF k \in {"Int64", "Unsigned64"} THEN "LONGLONG" ELSE "LONG",
                   !.unsigned = k \in My!UnsignedKinds,
                   !.word = My!Stored(m, My!Width(k), My!Passed(k, d.n)),
                   !.content = My!Null]
  BY DEF My!SetInteger
<1> DEFINE word == My!Stored(m, Width(k), My!Passed(k, d.n))
           type == IF k \in {"Int64", "Unsigned64"} THEN "LONGLONG" ELSE "LONG"
           sign == k \in UnsignedKinds
           b == Width(IF k \in {"Int64", "Unsigned64"} THEN "Int64" ELSE "Int")
           w == IF k \in UnsignedKinds THEN AsUnsigned(b, word) ELSE AsSigned(b, word)
<1>5. cell' = [cell EXCEPT !.use = "in", !.kind = k, !.points = FALSE, !.type = type,
                 !.unsigned = sign, !.word = word, !.content = Null]
  BY <1>4, MyConversions
<1>6. word \in Nat /\ w \in Int /\ MyKept(k, Num(d.n), Num(w))
  <2>1. m \in Nat
    BY <1>3, MyReservedWord
  <2>. QED
    BY <1>2, <2>1, MyIntegerSeen
<1>7. type \in My!IntTypes /\ My!TypeWidth(type) = b
  BY DEF My!IntTypes, My!TypeWidth, Width
<1>8. sign \in BOOLEAN /\ w = IF sign THEN AsUnsigned(b, word) ELSE AsSigned(b, word)
  OBVIOUS
<1> HIDE DEF word, type, sign, b, w
<1>9. /\ MyShape(cell') /\ cell'.use = "in" /\ cell'.kind = k /\ cell'.points = FALSE
      /\ cell'.type = type /\ cell'.unsigned = sign /\ cell'.word = word
      /\ cell'.isNull = cell.isNull
  BY <1>3, <1>5 DEF MyShape
<1>10. MyTyped(cell')
  BY <1>3, <1>6, <1>8, <1>9 DEF MyTyped
<1>11. My!Word(cell') = w
  BY <1>7, <1>8, <1>9, MyConversions DEF My!Word
<1>12. My!Seen(cell') = Num(w)
  BY <1>7, <1>9, <1>11, MySeenInteger
<1>13. MyKept(k, d, Num(w))
  BY <1>2, <1>6
<1>13a. d # Null /\ k # "Null"
  BY DatumIs DEF IntKinds, SignedKinds, UnsignedKinds
<1>14. MyRight(cell', {d})
  BY <1>9, <1>10, <1>12, <1>13, <1>13a, MyBindSet
<1>. QED
  BY <1>1, <1>14

LEMMA MySetsBit ==
  ASSUME MyRight(cell, said), NEW d, My!SetBool(d)
  PROVE  MyRight(cell', said') /\ answer' = NoAnswer
<1>1. d \in {Num(0), Num(1)} /\ My!Setting(d) /\ My!SetBit(d.n)
  BY MyConversions DEF My!SetBool
<1>2. said' = {d} /\ answer' = NoAnswer
  BY <1>1, MyConversions DEF My!Setting
<1>3. d.n \in {0, 1} /\ d.n \in Int /\ d = Num(d.n)
  BY <1>1, NumberIs
<1>4. MyShape(cell) /\ MyTyped(cell)
  BY DEF MyRight
<1>5. PICK m \in My!Reserved(cell) :
        cell' = [cell EXCEPT !.use = "in", !.kind = "Bool", !.points = FALSE,
                   !.type = "SHORT", !.unsigned = TRUE, !.word = My!Stored(m, 2, d.n),
                   !.content = My!Null]
  BY <1>1 DEF My!SetBit
<1> DEFINE word == My!Stored(m, 2, d.n)
<1>6. word \in Nat /\ word % Power(2) = d.n % Power(2)
  <2>1. m \in Nat /\ 2 \in Widths
    BY <1>4, MyReservedWord DEF Widths
  <2>. QED
    BY <1>3, <2>1, StoredBytes
<1>7. AsUnsigned(2, word) = d.n
  <2>1. PICK h \in Nat : Power(2) \in Nat /\ h > 0 /\ Power(2) = 2 * h
    BY PowerTwice DEF Widths
  <2>2. 0 <= d.n /\ d.n < Power(2)
    BY <1>3, <2>1
  <2>3. AsUnsigned(2, d.n) = d.n
    BY <1>3, <2>2, Unsigned DEF Widths
  <2>. QED
    BY <1>6, <2>3, SameBytes
<1> HIDE DEF word
<1>8. cell' = [cell EXCEPT !.use = "in", !.kind = "Bool", !.points = FALSE, !.type = "SHORT",
                 !.unsigned = TRUE, !.word = word, !.content = My!Null]
  BY <1>5 DEF word
<1>9. /\ MyShape(cell') /\ cell'.use = "in" /\ cell'.kind = "Bool" /\ cell'.points = FALSE
      /\ cell'.type = "SHORT" /\ cell'.unsigned = TRUE /\ cell'.word = word
      /\ cell'.isNull = cell.isNull
  BY <1>4, <1>8 DEF MyShape
<1>10. MyTyped(cell')
  BY <1>4, <1>6, <1>9 DEF MyTyped
<1>11. My!Word(cell') = d.n
  BY <1>7, <1>9, MyConversions DEF My!Word, My!TypeWidth
<1>12. My!Seen(cell') = d
  BY <1>3, <1>9, <1>11, MySeenInteger DEF My!IntTypes
<1>13. MyKept("Bool", d, d) /\ d # Null
  BY <1>3, NumberIs DEF MyKept
<1>14. MyRight(cell', {d})
  BY <1>9, <1>10, <1>12, <1>13, MyBindSet
<1>. QED
  BY <1>2, <1>14

LEMMA MySetsContent ==
  ASSUME MyRight(cell, said), NEW k, NEW d, My!Setting(d),
         My!SetContent(k, d) \/ (k \in {"Date", "Time", "Datetime"} /\ My!SetTimestamp(k, d)),
         k \notin {"Short", "UnsignedShort", "Long", "UnsignedLong", "Null"}, d # Null
  PROVE  MyRight(cell', said') /\ answer' = NoAnswer
<1>1. said' = {d} /\ answer' = NoAnswer
  BY MyConversions DEF My!Setting
<1>2. MyShape(cell) /\ MyTyped(cell)
  BY DEF MyRight
<1> DEFINE texts == CASE k = "Decimal" -> "DECIMAL" [] k = "Float" -> "FLOAT"
                      [] k = "Double" -> "DOUBLE" [] k = "CString" -> "BLOB"
                      [] OTHER -> "STRING"
           times == CASE k = "Date" -> "DATE" [] k = "Time" -> "TIME" [] OTHER -> "DATETIME"
           sign == IF k = "Decimal" THEN FALSE ELSE cell.unsigned
<1>3. /\ texts \in {"DECIMAL", "FLOAT", "DOUBLE", "BLOB", "STRING"}
      /\ times \in {"DATE", "TIME", "DATETIME"}
      /\ sign \in BOOLEAN
  <2>1. texts \in {"DECIMAL", "FLOAT", "DOUBLE", "BLOB", "STRING"}
    OBVIOUS
  <2>2. times \in {"DATE", "TIME", "DATETIME"}
    OBVIOUS
  <2>. QED
    BY <1>2, <2>1, <2>2 DEF MyTyped
<1>4. \E m \in Garbage :
        \/ cell' = [cell EXCEPT !.use = "in", !.kind = k, !.points = FALSE, !.type = texts,
                      !.unsigned = sign, !.word = m, !.content = d]
        \/ cell' = [cell EXCEPT !.use = "in", !.kind = k, !.points = FALSE, !.type = times,
                      !.word = m, !.content = d]
  BY DEF My!SetContent, My!SetTimestamp
<1> HIDE DEF texts, times, sign
<1>5. PICK m \in Garbage :
        \/ cell' = [cell EXCEPT !.use = "in", !.kind = k, !.points = FALSE, !.type = texts,
                      !.unsigned = sign, !.word = m, !.content = d]
        \/ cell' = [cell EXCEPT !.use = "in", !.kind = k, !.points = FALSE, !.type = times,
                      !.word = m, !.content = d]
  BY <1>4
<1>6. /\ MyShape(cell') /\ cell'.use = "in" /\ cell'.kind = k /\ cell'.points = FALSE
      /\ cell'.content = d /\ cell'.word = m /\ cell'.isNull = cell.isNull
      /\ cell'.type \in {texts, times} /\ cell'.unsigned \in {sign, cell.unsigned}
  <2>1. CASE cell' = [cell EXCEPT !.use = "in", !.kind = k, !.points = FALSE, !.type = texts,
                        !.unsigned = sign, !.word = m, !.content = d]
    BY <1>2, <2>1 DEF MyShape
  <2>2. CASE cell' = [cell EXCEPT !.use = "in", !.kind = k, !.points = FALSE, !.type = times,
                        !.word = m, !.content = d]
    BY <1>2, <2>2 DEF MyShape
  <2>. QED
    BY <1>5, <2>1, <2>2
<1>7. MyTyped(cell')
  BY <1>2, <1>3, <1>6, GarbageAssumption DEF MyTyped
<1>8. cell'.type \notin My!IntTypes /\ cell'.type # "NULL"
  BY <1>3, <1>6 DEF My!IntTypes
<1>9. My!Seen(cell') = d
  BY <1>6, <1>8, MySeenContent
<1>10. MyKept(k, d, d)
  BY DEF MyKept
<1>11. MyRight(cell', {d})
  BY <1>6, <1>7, <1>9, <1>10, MyBindSet
<1>. QED
  BY <1>1, <1>11

LEMMA MySetsNull ==
  ASSUME MyRight(cell, said), My!SetNull
  PROVE  MyRight(cell', said') /\ answer' = NoAnswer
<1>1. /\ said' = {Null} /\ answer' = NoAnswer
      /\ cell' = [cell EXCEPT !.use = "in", !.kind = "Null", !.type = "NULL",
                              !.word = 0, !.content = Null]
  BY MyConversions DEF My!SetNull, My!Setting
<1>2. MyShape(cell) /\ MyTyped(cell)
  BY DEF MyRight
<1>3. /\ MyShape(cell') /\ cell'.use = "in" /\ cell'.kind = "Null" /\ cell'.type = "NULL"
      /\ cell'.word = 0 /\ cell'.unsigned = cell.unsigned /\ cell'.points = cell.points
      /\ cell'.isNull = cell.isNull
  BY <1>1, <1>2 DEF MyShape
<1>4. MyTyped(cell')
  BY <1>2, <1>3 DEF MyTyped
<1>5. My!Seen(cell') = Null
  BY <1>3, MyConversions DEF My!Seen, My!IsNull
<1>6. MyKept("Null", Null, Null)
  BY DEF MyKept
<1>. QED
  BY <1>1, <1>3, <1>4, <1>5, <1>6 DEF MyRight

LEMMA MySet ==
  ASSUME MyRight(cell, said), NEW k, NEW d \in Datum \cup {Null}, My!Set(k, d)
  PROVE  MyRight(cell', said') /\ answer' = NoAnswer
<1>1. CASE My!SetBool(d)
  BY <1>1, MySetsBit
<1>2. CASE My!SetSigned(k, d) \/ My!SetUnsigned(k, d) \/ My!SetSized(k, d)
  <2>1. My!Fitting(k, d) /\ My!Setting(d) /\ My!SetInteger(k, d.n)
    BY <1>2 DEF My!SetSigned, My!SetUnsigned, My!SetSized
  <2>2. k \in IntKinds
    BY <1>2 DEF My!SetSigned, My!SetUnsigned, My!SetSized, IntKinds, SignedKinds, UnsignedKinds
  <2>3. d \in Datum
    BY <2>1, NullIs DEF My!Fitting
  <2>. QED
    BY <2>1, <2>2, <2>3, MySetsInteger
<1>3. CASE My!SetReal(k, d)
  <2>1. My!Setting(d) /\ My!SetContent(k, d) /\ k \in {"Decimal", "Float", "Double"} /\ d # Null
    BY <1>3, NullIs, MyConversions DEF My!SetReal
  <2>. QED
    BY <2>1, MySetsContent
<1>4. CASE My!SetText(k, d)
  <2>1. My!Setting(d) /\ My!SetContent(k, d) /\ k \in {"Char", "String", "CString", "Blob"}
        /\ d # Null
    BY <1>4, MyConversions DEF My!SetText
  <2>. QED
    BY <2>1, MySetsContent
<1>5. CASE My!SetTime(k, d)
  <2>1. My!Setting(d) /\ My!SetTimestamp(k, d) /\ k \in {"Date", "Time", "Datetime"} /\ d # Null
    BY <1>5, NullIs DEF My!SetTime
  <2>. QED
    BY <2>1, MySetsContent
<1>6. CASE My!SetNull
  BY <1>6, MySetsNull
<1>. QED
  BY <1>1, <1>2, <1>3, <1>4, <1>5, <1>6 DEF My!Set

LEMMA MyClears ==
  ASSUME MyRight(cell, said), My!Clear
  PROVE  MyRight(cell', said') /\ answer' = NoAnswer
<1>1. /\ cell.use = "in" /\ cell' = [cell EXCEPT !.isNull = TRUE]
      /\ said' = {Null} /\ answer' = NoAnswer
  BY MyConversions DEF My!Clear
<1>2. MyShape(cell) /\ MyTyped(cell) /\ (cell.type = "NULL" \/ ~ cell.points)
  BY <1>1 DEF MyRight
<1>3. /\ MyShape(cell') /\ cell'.use = cell.use /\ cell'.kind = cell.kind
      /\ cell'.type = cell.type /\ cell'.unsigned = cell.unsigned /\ cell'.word = cell.word
      /\ cell'.content = cell.content /\ cell'.points = cell.points /\ cell'.isNull = TRUE
  BY <1>1, <1>2 DEF MyShape
<1>4. MyTyped(cell')
  BY <1>2, <1>3 DEF MyTyped
<1>5. My!Seen(cell') = My!Seen(cell)
  <2>1. My!IsNull(cell') <=> My!IsNull(cell)
    BY <1>2, <1>3 DEF My!IsNull
  <2>2. My!Word(cell') = My!Word(cell)
    BY <1>3 DEF My!Word
  <2>. QED
    BY <1>3, <2>1, <2>2 DEF My!Seen
<1>6. cell'.kind = "Null" <=> My!Seen(cell') = Null
  BY <1>1, <1>3, <1>5 DEF MyRight
<1>7. MyKept(cell'.kind, Null, My!Seen(cell'))
  BY <1>6, NullIs DEF MyKept
<1>. QED
  BY <1>1, <1>2, <1>3, <1>4, <1>6, <1>7 DEF MyRight

\* Columns of mysql.

LEMMA MyInits ==
  ASSUME MyRight(cell, said), NEW type, type # "NULL", NEW unsigned \in BOOLEAN,
         My!InitOutBuffer(type, unsigned)
  PROVE  MyRight(cell', said') /\ answer' = NoAnswer
<1> DEFINE fresh == My!Fresh("out")
<1>1. /\ cell' = [fresh EXCEPT !.type = type, !.unsigned = unsigned]
      /\ said' = {Null} /\ answer' = NoAnswer
  BY MyConversions DEF My!InitOutBuffer
<1>2. MyShape(fresh) /\ MyTyped(fresh) /\ fresh.use = "out" /\ fresh.points /\ fresh.isNull
  BY MyFresh
<1> HIDE DEF fresh
<1>3. /\ MyShape(cell') /\ cell'.use = "out" /\ cell'.type = type /\ cell'.unsigned = unsigned
      /\ cell'.word = fresh.word /\ cell'.points = fresh.points /\ cell'.isNull = fresh.isNull
  BY <1>1, <1>2 DEF MyShape
<1>4. MyTyped(cell')
  BY <1>2, <1>3 DEF MyTyped
<1>. QED
  BY <1>1, <1>2, <1>3, <1>4 DEF MyRight

LEMMA MyFetchesInteger ==
  ASSUME MyRight(cell, said), NEW d \in Datum, My!Fetch(d), cell.type \in My!IntTypes
  PROVE  MyRight(cell', said')
<1> DEFINE b == My!TypeWidth(cell.type)
           word == My!Stored(cell.word, b, d.n)
<1>1. b \in Widths
  BY DEF My!TypeWidth, My!IntTypes, Widths
<1>2. /\ cell' = [cell EXCEPT !.isNull = FALSE, !.word = word]
      /\ cell.use = "out" /\ said' = {d}
  BY DEF My!Fetch
<1>3. /\ d.is = "number"
      /\ d.n = IF cell.unsigned THEN AsUnsigned(b, d.n) ELSE AsSigned(b, d.n)
  BY MyConversions DEF My!Fetch, My!Delivers, My!IntTypes
<1>4. MyShape(cell) /\ MyTyped(cell) /\ cell.points /\ cell.type # "NULL"
  BY <1>2 DEF MyRight
<1>5. word \in Nat /\ word % Power(b) = d.n % Power(b)
  BY <1>1, <1>4, DatumIs, StoredBytes DEF MyTyped
<1>6. AsUnsigned(b, word) = AsUnsigned(b, d.n) /\ AsSigned(b, word) = AsSigned(b, d.n)
  BY <1>5, SameBytes
<1> HIDE DEF word
<1>7. /\ MyShape(cell') /\ cell'.use = "out" /\ cell'.type = cell.type
      /\ cell'.unsigned = cell.unsigned /\ cell'.word = word /\ cell'.points = cell.points
      /\ cell'.isNull = FALSE
  BY <1>2, <1>4 DEF MyShape
<1>8. MyTyped(cell')
  BY <1>4, <1>5, <1>7 DEF MyTyped
<1>9. My!Word(cell') = d.n
  BY <1>3, <1>6, <1>7, MyConversions DEF My!Word
<1>10. MyColumn(cell', d)
  BY <1>3, <1>7, <1>9, DatumIs DEF MyColumn
<1>. QED
  BY <1>2, <1>4, <1>7, <1>8, <1>10 DEF MyRight

LEMMA MyFetches ==
  ASSUME MyRight(cell, said), NEW d \in Datum, My!Fetch(d)
  PROVE  MyRight(cell', said') /\ answer' = NoAnswer
<1>0. answer' = NoAnswer
  BY MyConversions DEF My!Fetch
<1>1. CASE cell.type \in My!IntTypes
  BY <1>0, <1>1, MyFetchesInteger
<1>2. CASE cell.type \notin My!IntTypes
  <2>1. /\ cell' = [cell EXCEPT !.isNull = FALSE, !.content = d]
        /\ cell.use = "out" /\ said' = {d}
    BY <1>2 DEF My!Fetch
  <2>2. MyShape(cell) /\ MyTyped(cell) /\ cell.points /\ cell.type # "NULL"
    BY <2>1 DEF MyRight
  <2>3. /\ MyShape(cell') /\ cell'.use = "out" /\ cell'.type = cell.type
        /\ cell'.unsigned = cell.unsigned /\ cell'.word = cell.word /\ cell'.points = cell.points
        /\ cell'.isNull = FALSE /\ cell'.content = d
    BY <2>1, <2>2 DEF MyShape
  <2>4. MyTyped(cell')
    BY <2>2, <2>3 DEF MyTyped
  <2>5. MyColumn(cell', d)
    BY <1>2, <2>3 DEF MyColumn
  <2>. QED
    BY <1>0, <2>1, <2>2, <2>3, <2>4, <2>5 DEF MyRight
<1>. QED
  BY <1>1, <1>2

LEMMA MyFetchesNull ==
  ASSUME MyRight(cell, said), My!FetchNull
  PROVE  MyRight(cell', said') /\ answer' = NoAnswer
<1>1. /\ cell.use = "out" /\ cell' = [cell EXCEPT !.isNull = TRUE]
      /\ said' = {Null} /\ answer' = NoAnswer
  BY MyConversions DEF My!FetchNull
<1>2. MyShape(cell) /\ MyTyped(cell) /\ cell.points /\ cell.type # "NULL"
  BY <1>1 DEF MyRight
<1>3. /\ MyShape(cell') /\ cell'.use = "out" /\ cell'.type = cell.type
      /\ cell'.unsigned = cell.unsigned /\ cell'.word = cell.word /\ cell'.points = cell.points
      /\ cell'.isNull = TRUE
  BY <1>1, <1>2 DEF MyShape
<1>4. MyTyped(cell')
  BY <1>2, <1>3 DEF MyTyped
<1>. QED
  BY <1>1, <1>2, <1>3, <1>4 DEF MyRight

LEMMA MyFetchesRow ==
  ASSUME MyRight(cell, said), NEW d \in Datum \cup {Null}, My!FetchRow(d)
  PROVE  MyRight(cell', said') /\ answer' = NoAnswer
<1> DEFINE fresh == My!Fresh("row")
           null == d = Null
<1>0. null \in BOOLEAN
  OBVIOUS
<1>1. /\ cell' = [fresh EXCEPT !.content = d, !.isNull = null]
      /\ said' = {d} /\ answer' = NoAnswer
  BY MyConversions DEF My!FetchRow
<1>2. MyShape(fresh) /\ MyTyped(fresh) /\ fresh.use = "row"
  BY MyFresh
<1> HIDE DEF fresh, null
<1>3. /\ MyShape(cell') /\ cell'.use = "row" /\ cell'.unsigned = fresh.unsigned
      /\ cell'.word = fresh.word /\ cell'.points = fresh.points /\ cell'.isNull = null
      /\ cell'.content = d
  BY <1>1, <1>2 DEF MyShape
<1>4. MyTyped(cell')
  BY <1>0, <1>2, <1>3 DEF MyTyped
<1>. QED
  BY <1>1, <1>3, <1>4 DEF MyRight

-----------------------------------------------------------------------------
\* The getters of mysql.

LEMMA MyIntegerGot ==
  ASSUME NEW k, NEW c, NEW d \in Datum, MyColumn(c, d), NEW r \in My!GetInteger(k, c)
  PROVE  /\ r # Null
         /\ d.is = "number" /\ Fits(k, d.n) => r \in {d} \cup Refusals
<1>1. CASE c.type \in My!IntTypes
  <2>1. r = Num(Cast(k, My!Word(c)))
    BY <1>1, MyConversions DEF My!GetInteger, My!IntTypes
  <2>2. d = Num(My!Word(c))
    BY <1>1 DEF MyColumn
  <2>3. d.n = My!Word(c)
    BY <2>2 DEF Num
  <2>4. d.is = "number" /\ Fits(k, d.n) => Cast(k, d.n) = d.n
    BY DatumIs, CastKeeps
  <2>. QED
    BY <2>1, <2>2, <2>3, <2>4, NoNull
<1>2. CASE c.type = "DECIMAL"
  <2>1. r \in DecimalInteger(k, c.content)
    BY <1>2, MyReadings DEF My!GetInteger, My!IntTypes
  <2>2. d = c.content
    BY <1>2 DEF MyColumn, My!IntTypes
  <2>. QED
    BY <2>1, <2>2, DecimalGives
<1>3. CASE c.type = "STRING"
  <2>1. r \in Extract(k, c.content).stored \/ r = TypeError
    BY <1>3, MyConversions, MyReadings DEF My!GetInteger, My!IntTypes
  <2>2. d = c.content
    BY <1>3 DEF MyColumn, My!IntTypes
  <2>. QED
    BY <2>1, <2>2, ExtractGives, NoNull, RefusalsAre
<1>4. CASE c.type \notin My!IntTypes \cup {"DECIMAL", "STRING"}
  <2>1. r = TypeError
    BY <1>4, MyConversions DEF My!GetInteger
  <2>. QED
    BY <2>1, NoNull, RefusalsAre
<1>. QED
  BY <1>1, <1>2, <1>3, <1>4

LEMMA MyContentIs ==
  ASSUME NEW c, NEW d \in Datum, MyColumn(c, d), c.type \notin My!IntTypes
  PROVE  c.content = d /\ d # Null
BY DatumIs DEF MyColumn

LEMMA MyTypesApart ==
  ASSUME NEW t
  PROVE  /\ t \in My!IntTypes => t \notin {"FLOAT", "DOUBLE", "DECIMAL", "STRING", "BLOB", "DATE", "TIME", "DATETIME", "NULL", "YEAR"}
         /\ My!IntTypes \ {"LONGLONG"} \subseteq My!IntTypes
BY DEF My!IntTypes

LEMMA MyOthersGot ==
  ASSUME NEW k, NEW c, NEW d \in Datum, MyColumn(c, d),
         NEW r, \/ r \in My!GetFloat(c) \/ r \in My!GetDecimal(c) \/ r \in My!GetChar(c)
                \/ r \in My!GetBool(c) \/ r \in My!GetString(c) \/ r \in My!GetBlob(c)
                \/ r \in My!GetTime(k, c)
  PROVE  r # Null
<1>1. CASE r \in My!GetFloat(c)
  <2>1. CASE c.type \in My!IntTypes \ {"LONGLONG"}
    BY <1>1, <2>1, MyTypesApart, MyConversions, NoNull DEF My!GetFloat
  <2>2. CASE c.type \in {"FLOAT", "DOUBLE"}
    BY <1>1, <2>2, MyTypesApart, MyContentIs DEF My!GetFloat
  <2>3. CASE c.type \in {"DECIMAL", "STRING"}
    <3>1. r \in ExtractFloat(c.content).stored \/ r = TypeError
      BY <1>1, <2>3, MyTypesApart, MyConversions, MyReadings DEF My!GetFloat
    <3>2. c.content = d
      BY <2>3, MyTypesApart, MyContentIs
    <3>. QED
      BY <3>1, <3>2, ExtractFloatGives, NoNull
  <2>4. CASE c.type \notin (My!IntTypes \ {"LONGLONG"}) \cup {"FLOAT", "DOUBLE", "DECIMAL", "STRING"}
    BY <1>1, <2>4, MyConversions, NoNull DEF My!GetFloat
  <2>. QED
    BY <2>1, <2>2, <2>3, <2>4
<1>2. CASE r \in My!GetDecimal(c)
  <2>1. CASE c.type \in My!IntTypes
    BY <1>2, <2>1, MyTypesApart, MyConversions, NoNull DEF My!GetDecimal
  <2>2. CASE c.type \in {"FLOAT", "DOUBLE"}
    BY <1>2, <2>2, MyTypesApart, MyContentIs DEF My!GetDecimal
  <2>3. CASE c.type \in {"DECIMAL", "STRING"}
    <3>1. r \in ParseDecimal(c.content)
      BY <1>2, <2>3, MyTypesApart, MyReadings DEF My!GetDecimal
    <3>2. c.content = d
      BY <2>3, MyTypesApart, MyContentIs
    <3>. QED
      BY <3>1, <3>2, ParseDecimalGives
  <2>4. CASE c.type \notin My!IntTypes \cup {"FLOAT", "DOUBLE", "DECIMAL", "STRING"}
    BY <1>2, <2>4, MyConversions, NoNull DEF My!GetDecimal
  <2>. QED
    BY <2>1, <2>2, <2>3, <2>4
<1>3. ASSUME NEW x \in My!GetChar(c)
      PROVE  x # Null
  <2>1. CASE c.type = "TINY"
    <3>1. x = [is |-> "code", n |-> My!Word(c)]
      BY <1>3, <2>1 DEF My!GetChar
    <3>. QED
      BY <3>1 DEF Null, Text
  <2>2. CASE c.type = "STRING" /\ c.content # My!Empty
    <3>1. x = c.content
      BY <1>3, <2>2 DEF My!GetChar
    <3>. QED
      BY <2>2, <3>1, MyTypesApart, MyContentIs
  <2>3. CASE c.type # "TINY" /\ ~ (c.type = "STRING" /\ c.content # My!Empty)
    BY <1>3, <2>3, MyConversions, NoNull DEF My!GetChar
  <2>. QED
    BY <2>1, <2>2, <2>3
<1>4. CASE r \in My!GetBool(c)
  <2>1. PICK x \in My!GetChar(c) :
          r = IF x = My!TypeError THEN x
              ELSE My!Bool(IF x.is = "code" THEN My!CodeTruth(x.n) ELSE My!Truth(x))
    BY <1>4 DEF My!GetBool
  <2> DEFINE y == IF x.is = "code" THEN My!CodeTruth(x.n) ELSE My!Truth(x)
  <2>2. My!Bool(y) # Null
    BY DEF My!Bool, Null, Text
  <2>. QED
    BY <1>3, <2>1, <2>2
<1>5. CASE r \in My!GetString(c)
  <2>1. CASE c.type \in My!IntTypes \ {"LONGLONG"}
    BY <1>5, <2>1, MyTypesApart, MyConversions, NoNull DEF My!GetString, My!TextTypes, My!TimeTypes
  <2>2. CASE c.type = "LONGLONG"
    BY <1>5, <2>2, MyConversions, NoNull DEF My!GetString, My!TextTypes, My!TimeTypes
  <2>3. CASE c.type \in My!TextTypes \cup My!TimeTypes \cup {"FLOAT", "DOUBLE"}
    <3>1. c.type \notin My!IntTypes
      BY <2>3 DEF My!TextTypes, My!TimeTypes, My!IntTypes
    <3>2. r = c.content
      BY <1>5, <2>3, <3>1 DEF My!GetString, My!IntTypes
    <3>. QED
      BY <3>1, <3>2, MyContentIs
  <2>4. CASE c.type \notin (My!IntTypes \cup My!TextTypes \cup My!TimeTypes \cup {"FLOAT", "DOUBLE", "LONGLONG"})
    BY <1>5, <2>4, MyConversions, NoNull DEF My!GetString
  <2>. QED
    BY <2>1, <2>2, <2>3, <2>4
<1>6. CASE r \in My!GetBlob(c)
  BY <1>6, MyTypesApart, MyContentIs, MyConversions, NoNull DEF My!GetBlob
<1>7. CASE r \in My!GetTime(k, c)
  <2>1. r = TypeError \/ (r = c.content /\ c.type \in {"DATE", "TIME", "DATETIME"})
    BY <1>7, MyConversions DEF My!GetTime, My!TimeTypes
  <2>. QED
    BY <2>1, MyTypesApart, MyContentIs, NoNull
<1>. QED
  BY <1>1, <1>2, <1>3, <1>4, <1>5, <1>6, <1>7

LEMMA MyBoundGot ==
  ASSUME NEW k \in Kinds, NEW c, NEW d \in Datum, MyColumn(c, d), ~ My!IsNull(c),
         NEW r \in My!BoundValue(k, c)
  PROVE  Rightly(k, d, r)
<1>1. CASE k \in IntKinds
  <2> DEFINE j == IF k = "Long" THEN "Int" ELSE k
  <2>1. r \in My!GetInteger(j, c)
    BY <1>1, KindsApart, MyConversions DEF My!BoundValue
  <2>2. r # Null /\ (d.is = "number" /\ Fits(j, d.n) => r \in {d} \cup Refusals)
    BY <2>1, MyIntegerGot
  <2>3. d.is = "number" /\ RoomFor(k, d.n) => Fits(j, d.n)
    BY <1>1, DatumIs, RoomIs
  <2>. QED
    BY <2>2, <2>3 DEF Rightly
<1>2. CASE k \notin IntKinds
  <2>1. k \notin My!IntKinds
    BY <1>2, MyConversions
  <2>2. \/ r \in My!GetFloat(c) \/ r \in My!GetDecimal(c) \/ r \in My!GetChar(c)
        \/ r \in My!GetBool(c) \/ r \in My!GetString(c) \/ r \in My!GetBlob(c)
        \/ r \in My!GetTime(k, c)
    BY <2>1 DEF My!BoundValue
  <2>3. r # Null
    BY <2>2, MyOthersGot
  <2>. QED
    BY <1>2, <2>3, OthersRightly
<1>. QED
  BY <1>1, <1>2

LEMMA MyRowGot ==
  ASSUME NEW k \in Kinds, NEW c, c.content \in Datum, NEW r \in My!RowValue(k, c)
  PROVE  Rightly(k, c.content, r)
<1> DEFINE d == c.content
<1>0. d \in Datum /\ d # Null
  BY DatumIs
<1> DEFINE text == IF c.content = My!Null THEN My!Empty ELSE c.content
           number(x) == IF text = My!Empty THEN {My!Num(0)} ELSE x.stored
<1>1. My!RowValue(k, c) =
        IF k \in {"Bool", "Char"} /\ c.content = My!Null THEN {My!Crash}
        ELSE CASE k = "Bool" -> {My!Bool(My!Truth(text))}
               [] k \in My!IntKinds -> number(My!Extract(k, text))
               [] k \in {"Float", "Double"} -> number(My!ExtractFloat(text))
               [] k = "Decimal" -> My!ParseDecimal(text)
               [] k \in My!TimeKinds -> My!FromIso(k, text)
               [] OTHER -> {text}
  BY DEF My!RowValue
<1>2. text = d /\ c.content # My!Null
  BY <1>0, MyConversions
<1> HIDE DEF text
<1>3. CASE k \in IntKinds
  <2>1. r \in number(Extract(k, d))
    BY <1>1, <1>2, <1>3, KindsApart, MyConversions, MyReadings
  <2>2. (d = Empty /\ r = Num(0)) \/ r \in Extract(k, d).stored
    BY <1>2, <2>1, MyConversions
  <2>3. Empty.is # "number"
    BY DEF Empty, Text
  <2>4. r # Null
    BY <1>0, <2>2, NoNull, ExtractGives
  <2>5. d.is = "number" /\ RoomFor(k, d.n) => r = d
    BY <1>0, <1>3, <2>2, <2>3, DatumIs, RoomIs, ExtractGives
  <2>. QED
    BY <2>4, <2>5 DEF Rightly
<1>4. CASE k \in {"Float", "Double"}
  <2>1. r \in number(ExtractFloat(d)) /\ k \notin IntKinds
    BY <1>1, <1>2, <1>4, KindsApart, MyConversions, MyReadings
  <2>2. r = Num(0) \/ r \in ExtractFloat(d).stored
    BY <2>1, MyConversions
  <2>3. r # Null
    BY <1>0, <2>2, NoNull, ExtractFloatGives
  <2>. QED
    BY <2>1, <2>3, OthersRightly
<1>5. CASE k = "Decimal"
  <2>1. r \in ParseDecimal(d) /\ k \notin IntKinds
    BY <1>1, <1>2, <1>5, KindsApart, MyConversions, MyReadings
  <2>. QED
    BY <1>0, <2>1, ParseDecimalGives, OthersRightly
<1>6. CASE k \in TimeKinds
  <2>1. r \in FromIso(k, d) /\ k \notin IntKinds
    BY <1>1, <1>2, <1>6, KindsApart, MyConversions, MyReadings
  <2>. QED
    BY <1>0, <2>1, FromIsoGives, OthersRightly
<1>7. CASE k = "Bool"
  <2>1. r = My!Bool(My!Truth(text)) /\ k \notin IntKinds
    BY <1>1, <1>2, <1>7, KindsApart, MyConversions
  <2>2. r # Null
    BY <2>1 DEF My!Bool, Null, Text
  <2>. QED
    BY <2>1, <2>2, OthersRightly
<1>8. CASE k \in {"Char", "String", "Blob"}
  <2>1. r = text
    BY <1>1, <1>2, <1>8, KindsApart, MyConversions
  <2>. QED
    BY <1>0, <1>2, <2>1, GivesRightly
<1>. QED
  BY <1>3, <1>4, <1>5, <1>6, <1>7, <1>8 DEF Kinds

LEMMA MyGets ==
  ASSUME MyRight(cell, said), NEW how, NEW k \in Kinds, My!Get(how, k)
  PROVE  MyRight(cell', said') /\ Reports(answer') /\ Keeps(answer')
<1> DEFINE null == IF cell.use = "out" THEN My!IsNull(cell) ELSE cell.content = Null
           getter == IF cell.use = "out" THEN My!BoundValue(k, cell) ELSE My!RowValue(k, cell)
<1>1. cell.use \in {"out", "row"} /\ cell' = cell /\ said' = said
  BY DEF My!Get
<1>2. PICK r \in Outcomes(how, null, getter), d \in said :
        answer' = [how |-> how, kind |-> k, given |-> d, out |-> r]
  BY MyConversions, MyReadings DEF My!Get
<1>3. null \in BOOLEAN /\ (null <=> (d = Null)) /\ (~ null => \A g \in getter : Rightly(k, d, g))
  <2>1. CASE cell.use = "out"
    <3>1. null <=> cell.isNull
      BY <2>1 DEF My!IsNull, MyRight, MyTyped
    <3>2. cell.isNull \in BOOLEAN
      BY DEF MyRight, MyTyped
    <3>3. CASE cell.isNull
      BY <2>1, <3>1, <3>3 DEF MyRight
    <3>4. CASE ~ cell.isNull
      <4>1. d \in Datum /\ MyColumn(cell, d)
        BY <2>1, <3>4 DEF MyRight
      <4>2. ~ My!IsNull(cell)
        BY <2>1, <3>1, <3>4
      <4>3. \A g \in getter : Rightly(k, d, g)
        BY <2>1, <4>1, <4>2, MyBoundGot
      <4>4. ~ null /\ d # Null
        BY <3>1, <3>4, <4>1, DatumIs
      <4>5. null \in BOOLEAN
        BY <2>1 DEF My!IsNull
      <4> HIDE DEF null, getter
      <4>. QED
        BY <4>3, <4>4, <4>5
    <3>. QED
      BY <3>2, <3>3, <3>4
  <2>2. CASE cell.use = "row"
    <3>1. d = cell.content /\ d \in Datum \cup {Null} /\ (null <=> (d = Null)) /\ null \in BOOLEAN
      BY <2>2 DEF MyRight
    <3>2. ASSUME ~ null PROVE \A g \in getter : Rightly(k, d, g)
      BY <2>2, <3>1, <3>2, MyRowGot
    <3>. QED
      BY <3>1, <3>2
  <2>. QED
    BY <1>1, <2>1, <2>2
<1> HIDE DEF null, getter
<1>4. ~ null => \A g \in getter : g # Null /\ (~ FALSE => Rightly(k, d, g))
  BY <1>3 DEF Rightly
<1>5. Reports(answer') /\ (~ FALSE => Keeps(answer'))
  BY <1>2, <1>3, <1>4, AnsweredRight
<1>. QED
  BY <1>1, <1>5

LEMMA MyStep ==
  ASSUME Data \subseteq Datum, MyRight(cell, said), My!Next
  PROVE  MyRight(cell', said') /\ Reports(answer') /\ Keeps(answer')
<1>1. ASSUME NEW k, NEW d \in Datum \cup {Null}, My!Set(k, d)
      PROVE  MyRight(cell', said') /\ Reports(answer') /\ Keeps(answer')
  BY <1>1, MySet, NoAnswerRight
<1>2. ASSUME My!Clear
      PROVE  MyRight(cell', said') /\ Reports(answer') /\ Keeps(answer')
  BY <1>2, MyClears, NoAnswerRight
<1>3. ASSUME NEW type, type # "NULL", NEW unsigned \in BOOLEAN, My!InitOutBuffer(type, unsigned)
      PROVE  MyRight(cell', said') /\ Reports(answer') /\ Keeps(answer')
  BY <1>3, MyInits, NoAnswerRight
<1>4. ASSUME NEW d \in Datum, My!Fetch(d)
      PROVE  MyRight(cell', said') /\ Reports(answer') /\ Keeps(answer')
  BY <1>4, MyFetches, NoAnswerRight
<1>5. ASSUME My!FetchNull
      PROVE  MyRight(cell', said') /\ Reports(answer') /\ Keeps(answer')
  BY <1>5, MyFetchesNull, NoAnswerRight
<1>6. ASSUME NEW d \in Datum \cup {Null}, My!FetchRow(d)
      PROVE  MyRight(cell', said') /\ Reports(answer') /\ Keeps(answer')
  BY <1>6, MyFetchesRow, NoAnswerRight
<1>7. ASSUME NEW how, NEW k \in Kinds, My!Get(how, k)
      PROVE  MyRight(cell', said') /\ Reports(answer') /\ Keeps(answer')
  BY <1>7, MyGets
<1>. QED
  BY <1>1, <1>2, <1>3, <1>4, <1>5, <1>6, <1>7, MyConversions DEF My!Next

LEMMA OraConversions ==
  /\ Ora!Null = Null /\ Ora!Empty = Empty /\ Ora!NoAnswer = NoAnswer
  /\ Ora!NullValue = NullValue /\ Ora!TypeError = TypeError /\ Ora!Crash = Crash
  /\ Ora!Overflow = Overflow
  /\ Ora!IntKinds = IntKinds /\ Ora!Kinds = Kinds /\ Ora!TimeKinds = TimeKinds
  /\ Ora!UnsignedKinds = UnsignedKinds
  /\ \A n : Ora!Num(n) = Num(n)
  /\ \A d : Ora!Numeric(d) <=> Numeric(d)
  /\ \A k, n : Ora!Fits(k, n) <=> Fits(k, n)
  /\ \A k, n : Ora!Cast(k, n) = Cast(k, n)
  /\ \A n : Ora!Frac(n) = Frac(n)
<1>1. /\ Ora!Null = Null /\ Ora!Empty = Empty /\ Ora!NoAnswer = NoAnswer
      /\ Ora!NullValue = NullValue /\ Ora!TypeError = TypeError /\ Ora!Crash = Crash
      /\ Ora!Overflow = Overflow
  BY DEF Ora!Null, Null, Ora!Empty, Empty, Ora!NoAnswer, NoAnswer, Ora!NullValue, NullValue,
         Ora!TypeError, TypeError, Ora!Crash, Crash, Ora!Overflow, Overflow, Ora!Text, Text
<1>2. /\ Ora!IntKinds = IntKinds /\ Ora!SignedKinds = SignedKinds /\ Ora!Kinds = Kinds
      /\ Ora!TimeKinds = TimeKinds /\ Ora!UnsignedKinds = UnsignedKinds
  BY DEF Ora!IntKinds, IntKinds, Ora!SignedKinds, SignedKinds, Ora!UnsignedKinds,
         UnsignedKinds, Ora!Kinds, Kinds, Ora!TimeKinds, TimeKinds
<1>3. \A b : Ora!Power(b) = Power(b)
  BY DEF Ora!Power, Power
<1>4. \A k : Ora!Width(k) = Width(k)
  BY DEF Ora!Width, Width
<1>5. \A k, n : Ora!Fits(k, n) <=> Fits(k, n)
  BY <1>2, <1>3, <1>4 DEF Ora!Fits, Fits, Ora!MinOf, MinOf, Ora!MaxOf, MaxOf
<1>6. \A b, n : Ora!AsSigned(b, n) = AsSigned(b, n) /\ Ora!AsUnsigned(b, n) = AsUnsigned(b, n)
  BY <1>3 DEF Ora!AsSigned, AsSigned, Ora!AsUnsigned, AsUnsigned
<1>7. \A k, n : Ora!Cast(k, n) = Cast(k, n)
  BY <1>2, <1>4, <1>6 DEF Ora!Cast, Cast
<1>8. (\A n : Ora!Num(n) = Num(n)) /\ (\A d : Ora!Numeric(d) <=> Numeric(d))
      /\ (\A n : Ora!Frac(n) = Frac(n))
  BY DEF Ora!Num, Num, Ora!Frac, Frac, Ora!Numeric, Numeric
<1>. QED
  BY <1>1, <1>2, <1>5, <1>7, <1>8

LEMMA OraReadings ==
  /\ \A k, d : Ora!Extract(k, d) = Extract(k, d)
  /\ \A d : Ora!ExtractFloat(d) = ExtractFloat(d)
  /\ \A k, d : Ora!DecimalInteger(k, d) = DecimalInteger(k, d)
  /\ \A d : Ora!ParseDecimal(d) = ParseDecimal(d)
  /\ \A d : Ora!Rounded(d) = Rounded(d)
  /\ \A k : Ora!MaxOf(k) = MaxOf(k) /\ Ora!MinOf(k) = MinOf(k)
  /\ \A k : Ora!Uninitialized(k) = Uninitialized(k)
  /\ \A how, null, getter : Ora!Outcomes(how, null, getter) = Outcomes(how, null, getter)
<1>0. /\ Ora!SignedKinds = SignedKinds /\ Ora!UnsignedKinds = UnsignedKinds
      /\ Ora!Overflow = Overflow /\ Ora!ConversionError = ConversionError /\ Ora!TypeError = TypeError
  BY DEF Ora!SignedKinds, SignedKinds, Ora!UnsignedKinds, UnsignedKinds, Ora!Overflow, Overflow,
         Ora!ConversionError, ConversionError, Ora!TypeError, TypeError, Ora!Text, Text
<1>1. \A k : Ora!MaxOf(k) = MaxOf(k) /\ Ora!MinOf(k) = MinOf(k)
  <2>1. (\A k : Ora!Width(k) = Width(k)) /\ (\A b : Ora!Power(b) = Power(b))
    BY DEF Ora!Width, Width, Ora!Power, Power
  <2>. QED
    BY <1>0, <2>1 DEF Ora!MinOf, MinOf, Ora!MaxOf, MaxOf
<1>2. \A k : Ora!Uninitialized(k) = Uninitialized(k)
  BY OraConversions DEF Ora!Uninitialized, Uninitialized
<1>3. \A k, d : Ora!Extract(k, d) = Extract(k, d)
  <2> TAKE k, d
  <2> DEFINE wraps == k \in UnsignedKinds /\ d.n < 0 /\ -d.n <= MaxOf(k)
             s == IF Fits(k, d.n) \/ wraps THEN Cast(k, d.n)
                  ELSE IF d.n < 0 /\ k \in SignedKinds THEN MinOf(k) ELSE MaxOf(k)
             f == ~ (Fits(k, d.n) \/ wraps)
             u == Uninitialized(k)
  <2>1. Extract(k, d) =
          CASE d.is = "number" -> [stored |-> {Num(s)}, fail |-> f, eof |-> TRUE]
            [] d.is \in {"fraction", "date", "time", "datetime"}
                  -> [stored |-> {Num(s)}, fail |-> f, eof |-> FALSE]
            [] d.is = "empty" -> [stored |-> u, fail |-> TRUE, eof |-> TRUE]
            [] OTHER -> [stored |-> {Num(0)}, fail |-> TRUE, eof |-> FALSE]
    BY DEF Extract
  <2> DEFINE wraps1 == k \in Ora!UnsignedKinds /\ d.n < 0 /\ -d.n <= Ora!MaxOf(k)
             s1 == IF Ora!Fits(k, d.n) \/ wraps1 THEN Ora!Cast(k, d.n)
                   ELSE IF d.n < 0 /\ k \in Ora!SignedKinds THEN Ora!MinOf(k) ELSE Ora!MaxOf(k)
             f1 == ~ (Ora!Fits(k, d.n) \/ wraps1)
             u1 == Ora!Uninitialized(k)
  <2>2. Ora!Extract(k, d) =
          CASE d.is = "number" -> [stored |-> {Ora!Num(s1)}, fail |-> f1, eof |-> TRUE]
            [] d.is \in {"fraction", "date", "time", "datetime"}
                  -> [stored |-> {Ora!Num(s1)}, fail |-> f1, eof |-> FALSE]
            [] d.is = "empty" -> [stored |-> u1, fail |-> TRUE, eof |-> TRUE]
            [] OTHER -> [stored |-> {Ora!Num(0)}, fail |-> TRUE, eof |-> FALSE]
    BY DEF Ora!Extract
  <2>3. (wraps1 <=> wraps) /\ u1 = u
    BY <1>0, <1>1, <1>2
  <2>4. s1 = s /\ (f1 <=> f)
    <3> HIDE DEF wraps, wraps1
    <3>. QED
      BY <1>0, <1>1, <2>3, OraConversions
  <2>5. f \in BOOLEAN /\ f1 \in BOOLEAN
    OBVIOUS
  <2> HIDE DEF s, f, u, s1, f1, u1, wraps, wraps1
  <2> DEFINE v == {Num(s)}
             z == {Num(0)}
  <2>6. {Ora!Num(s1)} = v /\ {Ora!Num(0)} = z
    BY <2>4, OraConversions
  <2> HIDE DEF v, z
  <2>7. Extract(k, d) =
          CASE d.is = "number" -> [stored |-> v, fail |-> f, eof |-> TRUE]
            [] d.is \in {"fraction", "date", "time", "datetime"}
                  -> [stored |-> v, fail |-> f, eof |-> FALSE]
            [] d.is = "empty" -> [stored |-> u, fail |-> TRUE, eof |-> TRUE]
            [] OTHER -> [stored |-> z, fail |-> TRUE, eof |-> FALSE]
    BY <2>1 DEF v, z
  <2>8. Ora!Extract(k, d) =
          CASE d.is = "number" -> [stored |-> v, fail |-> f1, eof |-> TRUE]
            [] d.is \in {"fraction", "date", "time", "datetime"}
                  -> [stored |-> v, fail |-> f1, eof |-> FALSE]
            [] d.is = "empty" -> [stored |-> u1, fail |-> TRUE, eof |-> TRUE]
            [] OTHER -> [stored |-> z, fail |-> TRUE, eof |-> FALSE]
    BY <2>2, <2>6
  <2>9. f1 = f
    BY <2>4, <2>5
  <2>. QED
    BY <2>3, <2>7, <2>8, <2>9
<1>4. \A d : Ora!ExtractFloat(d) = ExtractFloat(d)
  <2> TAKE d
  <2>1. CASE Numeric(d)
    BY <2>1, OraConversions DEF Ora!ExtractFloat, ExtractFloat, Numeric
  <2>2. CASE d.is \in {"date", "time", "datetime"}
    BY <2>2, OraConversions DEF Ora!ExtractFloat, ExtractFloat, Numeric
  <2>3. CASE d.is = "empty"
    BY <1>2, <2>3, OraConversions DEF Ora!ExtractFloat, ExtractFloat, Numeric
  <2>4. CASE ~ Numeric(d) /\ d.is \notin {"date", "time", "datetime", "empty"}
    BY <2>4, OraConversions DEF Ora!ExtractFloat, ExtractFloat, Numeric
  <2>. QED
    BY <2>1, <2>2, <2>3, <2>4
<1>5. \A d : Ora!Rounded(d) = Rounded(d)
  BY DEF Ora!Rounded, Rounded
<1>6. \A k, d : Ora!DecimalInteger(k, d) = DecimalInteger(k, d)
  BY <1>0, <1>1, <1>5, OraConversions DEF Ora!DecimalInteger, DecimalInteger
<1>7. \A d : Ora!ParseDecimal(d) = ParseDecimal(d)
  BY <1>0, OraConversions DEF Ora!ParseDecimal, ParseDecimal
<1>9. \A how, null, getter : Ora!Outcomes(how, null, getter) = Outcomes(how, null, getter)
  BY OraConversions DEF Ora!Outcomes, Outcomes
<1>. QED
  BY <1>1, <1>2, <1>3, <1>4, <1>5, <1>6, <1>7, <1>9

-----------------------------------------------------------------------------
\* oracle: what OCI was told and what the driver remembers of it.

OraShape(b) ==
  b = [use |-> b.use, kind |-> b.kind, data |-> b.data, size |-> b.size, address |-> b.address,
       number |-> b.number, datetime |-> b.datetime, indicator |-> b.indicator,
       boundPtr |-> b.boundPtr, boundType |-> b.boundType, boundLength |-> b.boundLength,
       at |-> b.at, where |-> b.where, as |-> b.as, len |-> b.len, ind |-> b.ind,
       threw |-> b.threw, lastType |-> b.lastType, lastLength |-> b.lastLength]
OraPlace(type) ==
  IF type = "VNU" THEN "number" ELSE IF type = "TIMESTAMP" THEN "datetime" ELSE "data"

\* OCI has the address, the type and the length which the driver remembers, if
\* it remembers any, or it has still got the null of clear.
OraInStep(b) ==
  b.boundType # "none" =>
    /\ b.where = b.boundPtr /\ b.len = b.boundLength
    /\ b.ind <=> (b.boundType = "CHR")
    /\ b.at = OraPlace(b.boundType)
OraCleared(b) == b.kind = "cleared" /\ b.ind /\ b.indicator = -1
OraMemory(b) ==
  /\ b.ind \in BOOLEAN
  /\ b.boundType = "CHR" => b.indicator = -1
  /\ b.boundType \in {"VNU", "TIMESTAMP"} => b.boundLength = 0
  /\ OraInStep(b) \/ OraCleared(b)
\* What the driver remembers is what the last setter has bound for.
OraLast(b) == b.lastType = b.boundType /\ b.lastLength = b.boundLength
OraKeeps(b, d) == Ora!Seen(b) = d \/ (b.kind = "cleared" /\ Ora!Seen(b) = Null)
OraBindRight(b, s) ==
  /\ OraShape(b) /\ b.use = "in" /\ OraMemory(b) /\ OraLast(b)
  /\ b.kind = "none" => s = {Null}
  /\ \A d \in s : OraKeeps(b, d)

\* A bind in which a datum is ready to be bound with a type and a length.
OraReady(b, type, len, d) ==
  \/ type \in {"INT", "UIN", "FLT", "AFC", "BIN"} /\ b.data = d /\ b.size = len
  \/ type = "VNU" /\ b.number = d
  \/ type = "TIMESTAMP" /\ b.datetime = d
  \/ type = "CHR" /\ b.indicator = -1 /\ d = Null

\* The places that setters write are not those which OCI was told.
OraSameBound(b, c) ==
  /\ b.use = c.use /\ b.kind = c.kind /\ b.boundPtr = c.boundPtr
  /\ b.boundType = c.boundType /\ b.boundLength = c.boundLength
  /\ b.at = c.at /\ b.where = c.where /\ b.len = c.len /\ b.ind = c.ind
  /\ b.indicator = c.indicator \/ b.indicator = -1

\* Bound again, or found to be bound already, or not bound because OCI failed.
OraBoundAgain(x, b, type, len) ==
  /\ x = [b EXCEPT !.at = OraPlace(type), !.where = b.address, !.as = type, !.len = len,
                   !.ind = (type = "CHR"), !.boundPtr = b.address, !.boundType = type,
                   !.boundLength = len, !.threw = FALSE]
OraBoundAlready(x, b, type, len) ==
  /\ x = [b EXCEPT !.threw = FALSE]
  /\ b.boundPtr = b.address /\ b.boundType = type
  /\ b.boundLength = len \/ (type \in {"VNU", "TIMESTAMP"} /\ len = 0)

LEMMA OraBoundBy ==
  ASSUME NEW b, NEW type, type # "CHR", NEW len,
         NEW x \in Ora!BoundBy(b, OraPlace(type), type, len, FALSE)
  PROVE  x = Ora!Forgotten(b) \/ OraBoundAgain(x, b, type, len)
<1>1. (type = "CHR") = FALSE
  OBVIOUS
<1>. QED
  BY <1>1 DEF Ora!BoundBy, OraBoundAgain

LEMMA OraBoundData ==
  ASSUME NEW b, NEW type \in {"INT", "UIN", "FLT", "AFC", "BIN"}, NEW len,
         NEW x \in Ora!BoundData(b, type, len)
  PROVE  x = Ora!Forgotten(b) \/ OraBoundAgain(x, b, type, len) \/ OraBoundAlready(x, b, type, len)
<1>1. OraPlace(type) = "data" /\ type # "CHR"
  BY DEF OraPlace
<1>2. CASE b.boundPtr # b.address \/ b.boundType # type \/ b.boundLength # len
  <2>1. x \in Ora!BoundBy(b, "data", type, len, FALSE)
    BY <1>2 DEF Ora!BoundData
  <2>. QED
    BY <1>1, <2>1, OraBoundBy
<1>3. CASE ~ (b.boundPtr # b.address \/ b.boundType # type \/ b.boundLength # len)
  BY <1>3 DEF Ora!BoundData, OraBoundAlready
<1>. QED
  BY <1>2, <1>3

LEMMA OraBoundMember ==
  ASSUME NEW b, NEW type \in {"VNU", "TIMESTAMP"},
         NEW x \in Ora!BoundMember(b, OraPlace(type), type)
  PROVE  x = Ora!Forgotten(b) \/ OraBoundAgain(x, b, type, 0) \/ OraBoundAlready(x, b, type, 0)
<1>2. CASE b.boundPtr # b.address \/ b.boundType # type
  <2>1. x \in Ora!BoundBy(b, OraPlace(type), type, 0, FALSE)
    BY <1>2 DEF Ora!BoundMember
  <2>. QED
    BY <2>1, OraBoundBy
<1>3. CASE ~ (b.boundPtr # b.address \/ b.boundType # type)
  BY <1>3 DEF Ora!BoundMember, OraBoundAlready
<1>. QED
  BY <1>2, <1>3

\* What OCI reads of a bind it was told of.
OraListens(b, type, len) ==
  /\ b.at = OraPlace(type) /\ b.ind \in BOOLEAN /\ (b.ind <=> (type = "CHR"))
  /\ b.where = b.address
  /\ type \notin {"VNU", "TIMESTAMP"} => b.len = len
LEMMA OraSeenBound ==
  ASSUME NEW b, NEW type, NEW len, NEW d, OraReady(b, type, len, d), OraListens(b, type, len)
  PROVE  Ora!Seen(b) = d
<1>1. CASE type \in {"INT", "UIN", "FLT", "AFC", "BIN"}
  BY <1>1 DEF OraReady, OraListens, OraPlace, Ora!Seen
<1>2. CASE type = "VNU"
  BY <1>2 DEF OraReady, OraListens, OraPlace, Ora!Seen
<1>3. CASE type = "TIMESTAMP"
  BY <1>3 DEF OraReady, OraListens, OraPlace, Ora!Seen
<1>4. CASE type = "CHR"
  BY <1>4, OraConversions DEF OraReady, OraListens, OraPlace, Ora!Seen
<1>. QED
  BY <1>1, <1>2, <1>3, <1>4 DEF OraReady

LEMMA OraSeenNull ==
  ASSUME NEW b, b.ind, b.indicator = -1
  PROVE  Ora!Seen(b) = Null
BY OraConversions DEF Ora!Seen

\* What a step leaves of a bind.
OraSamePlaces(x, b) ==
  /\ OraShape(x) /\ x.use = b.use /\ x.kind = b.kind
  /\ x.data = b.data /\ x.size = b.size /\ x.address = b.address /\ x.number = b.number
  /\ x.datetime = b.datetime /\ x.indicator = b.indicator
OraSameTold(x, b) ==
  /\ x.boundPtr = b.boundPtr /\ x.boundType = b.boundType /\ x.boundLength = b.boundLength
  /\ x.at = b.at /\ x.where = b.where /\ x.len = b.len /\ x.ind = b.ind
OraTold(x, type, len) ==
  /\ x.boundPtr = x.address /\ x.boundType = type /\ x.boundLength = len
  /\ x.at = OraPlace(type) /\ x.where = x.address /\ x.len = len
  /\ x.ind \in BOOLEAN /\ (x.ind <=> (type = "CHR"))
OraNamed(x, b, kind, type, len) ==
  /\ OraShape(x) /\ x.use = b.use /\ x.kind = kind /\ x.indicator = b.indicator
  /\ x.lastType = type /\ x.lastLength = len
  /\ OraSameTold(x, b) /\ Ora!Seen(x) = Ora!Seen(b)

LEMMA OraBindsAgain ==
  ASSUME NEW b, OraShape(b), NEW type, NEW len, NEW x, OraBoundAgain(x, b, type, len)
  PROVE  OraSamePlaces(x, b) /\ OraTold(x, type, len) /\ x.threw = FALSE
<1> DEFINE place == OraPlace(type)
           ind == type = "CHR"
<1>0. ind \in BOOLEAN
  OBVIOUS
<1>1. x = [b EXCEPT !.at = place, !.where = b.address, !.as = type, !.len = len,
                    !.ind = ind, !.boundPtr = b.address, !.boundType = type,
                    !.boundLength = len, !.threw = FALSE]
  BY DEF OraBoundAgain
<1> HIDE DEF place, ind
<1>2. /\ OraShape(x) /\ x.use = b.use /\ x.kind = b.kind
      /\ x.data = b.data /\ x.size = b.size /\ x.address = b.address /\ x.number = b.number
      /\ x.datetime = b.datetime /\ x.indicator = b.indicator
      /\ x.boundPtr = b.address /\ x.boundType = type /\ x.boundLength = len
      /\ x.at = place /\ x.where = b.address /\ x.len = len
      /\ x.ind = ind /\ x.threw = FALSE
  BY <1>1 DEF OraShape
<1>. QED
  BY <1>0, <1>2 DEF place, ind, OraSamePlaces, OraTold

LEMMA OraBindsNot ==
  ASSUME NEW b, OraShape(b), NEW x, x = [b EXCEPT !.threw = FALSE]
  PROVE  OraSamePlaces(x, b) /\ OraSameTold(x, b) /\ x.threw = FALSE
BY DEF OraShape, OraSamePlaces, OraSameTold

LEMMA OraForgets ==
  ASSUME NEW b, OraShape(b), NEW x, x = Ora!Forgotten(b)
  PROVE  /\ OraSamePlaces(x, b) /\ x.ind = b.ind /\ x.boundType = "none" /\ x.boundLength = 0
         /\ x.threw = TRUE
BY DEF Ora!Forgotten, OraShape, OraSamePlaces

\* The same bind, whatever it is called.
LEMMA OraKind ==
  ASSUME NEW b, OraShape(b), NEW kind, NEW type, NEW len,
         NEW x, x = [b EXCEPT !.kind = kind, !.lastType = type, !.lastLength = len]
  PROVE  OraNamed(x, b, kind, type, len)
<1>1. /\ OraShape(x) /\ x.use = b.use /\ x.kind = kind /\ x.data = b.data /\ x.size = b.size
      /\ x.address = b.address /\ x.number = b.number /\ x.datetime = b.datetime
      /\ x.indicator = b.indicator /\ OraSameTold(x, b)
      /\ x.lastType = type /\ x.lastLength = len
  BY DEF OraShape, OraSameTold
<1>2. Ora!Seen(x) = Ora!Seen(b)
  BY <1>1 DEF Ora!Seen, OraSameTold
<1>. QED
  BY <1>1, <1>2 DEF OraNamed

\* A setter has prepared the bind b and bound it to x.
OraPrepared(b) == OraShape(b) /\ OraSameBound(b, cell)
OraBinds(x, b, type, len) ==
  \/ x = Ora!Forgotten(b)
  \/ OraBoundAgain(x, b, type, len)
  \/ OraBoundAlready(x, b, type, len)

LEMMA OraReadySame ==
  ASSUME NEW b, NEW x, OraSamePlaces(x, b), NEW type, NEW len, NEW d, OraReady(b, type, len, d)
  PROVE  OraReady(x, type, len, d)
BY DEF OraSamePlaces, OraReady

LEMMA OraThrown ==
  ASSUME NEW b, OraShape(b), OraMemory(b), NEW x, x = Ora!Forgotten(b)
  PROVE  OraSamePlaces(x, b) /\ x.threw = TRUE /\ x.boundType = "none" /\ x.boundLength = 0
         /\ x.ind \in BOOLEAN
BY OraForgets DEF OraMemory

LEMMA OraBoundNew ==
  ASSUME NEW b, OraShape(b), NEW type, NEW len, NEW d, OraReady(b, type, len, d),
         NEW x, OraBoundAgain(x, b, type, len)
  PROVE  /\ OraSamePlaces(x, b) /\ x.threw = FALSE /\ OraTold(x, type, len)
         /\ Ora!Seen(x) = d /\ (type = "CHR" => x.indicator = -1)
<1>1. OraSamePlaces(x, b) /\ OraTold(x, type, len) /\ x.threw = FALSE
  BY OraBindsAgain
<1>2. OraReady(x, type, len, d)
  BY <1>1, OraReadySame
<1>3. Ora!Seen(x) = d
  <2>1. OraListens(x, type, len)
    BY <1>1 DEF OraTold, OraListens
  <2>. QED
    BY <1>2, <2>1, OraSeenBound
<1>. QED
  BY <1>1, <1>2, <1>3 DEF OraReady

\* What is found to be bound already is heard, unless OCI has the null of clear.
OraStays(x, b, d) ==
  /\ OraSamePlaces(x, b) /\ OraSameTold(x, b) /\ x.threw = FALSE /\ OraMemory(x)
  /\ Ora!Seen(x) = d \/ (b.kind = "cleared" /\ Ora!Seen(x) = Null)
LEMMA OraBoundOld ==
  ASSUME NEW b, OraShape(b), OraMemory(b), NEW type, NEW len, NEW d, OraReady(b, type, len, d),
         NEW x, OraBoundAlready(x, b, type, len)
  PROVE  OraStays(x, b, d)
<1>0. /\ x = [b EXCEPT !.threw = FALSE]
      /\ b.boundPtr = b.address /\ b.boundType = type
      /\ b.boundLength = len \/ (type \in {"VNU", "TIMESTAMP"} /\ len = 0)
  BY DEF OraBoundAlready
<1>1. OraSamePlaces(x, b) /\ OraSameTold(x, b) /\ x.threw = FALSE
  BY <1>0, OraBindsNot
<1>2. OraMemory(x)
  BY <1>1 DEF OraMemory, OraInStep, OraCleared, OraSamePlaces, OraSameTold
<1>3. CASE OraCleared(b)
  <2>1. x.ind /\ x.indicator = -1
    BY <1>1, <1>3 DEF OraCleared, OraSamePlaces, OraSameTold
  <2>2. Ora!Seen(x) = Null
    BY <2>1, OraSeenNull
  <2>. QED
    BY <1>1, <1>2, <1>3, <2>2 DEF OraStays, OraCleared
<1>4. CASE OraInStep(b)
  <2>1. OraReady(x, type, len, d)
    BY <1>1, OraReadySame
  <2>2. type # "none"
    BY DEF OraReady
  <2>3. /\ b.where = b.boundPtr /\ b.len = b.boundLength
        /\ b.ind <=> (type = "CHR")
        /\ b.at = OraPlace(type)
    BY <1>0, <1>4, <2>2 DEF OraInStep
  <2>4. /\ x.where = x.address /\ (type \notin {"VNU", "TIMESTAMP"} => x.len = len)
        /\ x.at = OraPlace(type) /\ x.ind \in BOOLEAN /\ (x.ind <=> (type = "CHR"))
    BY <1>0, <1>1, <1>2, <2>3 DEF OraSamePlaces, OraSameTold, OraMemory
  <2>5. OraListens(x, type, len)
    BY <2>4 DEF OraListens
  <2>6. Ora!Seen(x) = d
    BY <2>1, <2>5, OraSeenBound
  <2>. QED
    BY <1>1, <1>2, <2>6 DEF OraStays
<1>. QED
  BY <1>3, <1>4 DEF OraMemory

LEMMA OraPreparedMemory ==
  ASSUME OraBindRight(cell, said), NEW b, OraPrepared(b)
  PROVE  OraShape(b) /\ b.use = "in" /\ b.kind = cell.kind /\ OraMemory(b)
<1>1. OraShape(b) /\ OraMemory(cell) /\ cell.use = "in" /\ OraSameBound(b, cell)
  BY DEF OraPrepared, OraBindRight
<1>. QED
  BY <1>1 DEF OraSameBound, OraMemory, OraInStep, OraCleared

\* The bind x is named: the setter has thrown, or it has returned.
OraThrows(x, y) == x.threw = TRUE /\ OraNamed(y, x, "set", "none", 0)
OraReturns(x, y, type, len) ==
  /\ x.threw = FALSE
  /\ OraNamed(y, x, IF cell.kind = "cleared" /\ cell.lastType = type /\ cell.lastLength = len
                    THEN "cleared" ELSE "set", type, len)
OraSetRight(y, d) ==
  /\ OraShape(y) /\ y.use = "in" /\ y.kind # "none" /\ OraMemory(y) /\ OraLast(y)
  /\ OraKeeps(y, d)

LEMMA OraSetThrew ==
  ASSUME OraBindRight(cell, said), NEW b, OraPrepared(b), NEW x, x = Ora!Forgotten(b),
         NEW y, OraThrows(x, y)
  PROVE  OraBindRight(y, {})
<1>1. OraShape(b) /\ b.use = "in" /\ OraMemory(b)
  BY OraPreparedMemory
<1>2. /\ OraSamePlaces(x, b) /\ x.boundType = "none" /\ x.boundLength = 0 /\ x.ind \in BOOLEAN
  BY <1>1, OraThrown
<1>3. /\ OraShape(y) /\ y.use = x.use /\ y.kind = "set" /\ y.lastType = "none" /\ y.lastLength = 0
      /\ OraSameTold(y, x)
  BY DEF OraThrows, OraNamed
<1>4. OraMemory(y) /\ OraLast(y)
  BY <1>2, <1>3 DEF OraMemory, OraInStep, OraLast, OraSameTold
<1>. QED
  BY <1>1, <1>2, <1>3, <1>4 DEF OraBindRight, OraSamePlaces

LEMMA OraSetAgain ==
  ASSUME OraBindRight(cell, said), NEW b, OraPrepared(b), NEW type, NEW len, NEW d,
         OraReady(b, type, len, d), NEW x, OraBoundAgain(x, b, type, len),
         type \in {"VNU", "TIMESTAMP"} => len = 0,
         NEW y, OraReturns(x, y, type, len)
  PROVE  OraSetRight(y, d)
<1>1. OraShape(b) /\ b.use = "in" /\ OraMemory(b)
  BY OraPreparedMemory
<1>2. /\ OraSamePlaces(x, b) /\ x.threw = FALSE /\ OraTold(x, type, len)
      /\ Ora!Seen(x) = d /\ (type = "CHR" => x.indicator = -1)
  BY <1>1, OraBoundNew
<1>3. /\ OraShape(y) /\ y.use = x.use /\ y.kind \in {"cleared", "set"}
      /\ y.indicator = x.indicator /\ y.lastType = type /\ y.lastLength = len
      /\ OraSameTold(y, x) /\ Ora!Seen(y) = Ora!Seen(x)
  BY DEF OraReturns, OraNamed
<1>4. OraMemory(y)
  BY <1>2, <1>3 DEF OraMemory, OraInStep, OraSameTold, OraTold
<1>5. OraLast(y)
  BY <1>2, <1>3 DEF OraLast, OraSameTold, OraTold
<1>. QED
  BY <1>1, <1>2, <1>3, <1>4, <1>5 DEF OraSetRight, OraKeeps, OraSamePlaces

\* What is not bound again has the type and the length of what was set last.
LEMMA OraSetAlready ==
  ASSUME OraBindRight(cell, said), NEW b, OraPrepared(b), NEW type, NEW len, NEW d,
         OraReady(b, type, len, d), NEW x, OraBoundAlready(x, b, type, len),
         NEW y, OraReturns(x, y, type, len)
  PROVE  OraSetRight(y, d)
<1>1. OraShape(b) /\ b.use = "in" /\ b.kind = cell.kind /\ OraMemory(b)
  BY OraPreparedMemory
<1>2. /\ OraSamePlaces(x, b) /\ OraSameTold(x, b) /\ OraMemory(x)
      /\ Ora!Seen(x) = d \/ (b.kind = "cleared" /\ Ora!Seen(x) = Null)
  <2>1. OraStays(x, b, d)
    BY <1>1, OraBoundOld
  <2>. QED
    BY <2>1 DEF OraStays
<1>3. b.boundType = type /\ b.boundLength = len
  BY <1>1 DEF OraBoundAlready, OraMemory
<1>4. cell.lastType = type /\ cell.lastLength = len
  BY <1>3 DEF OraPrepared, OraSameBound, OraBindRight, OraLast
<1>5. /\ OraShape(y) /\ y.use = x.use
      /\ y.kind = (IF cell.kind = "cleared" THEN "cleared" ELSE "set")
      /\ y.indicator = x.indicator /\ y.lastType = type /\ y.lastLength = len
      /\ OraSameTold(y, x) /\ Ora!Seen(y) = Ora!Seen(x)
  BY <1>4 DEF OraReturns, OraNamed
<1>6. x.kind = b.kind /\ x.use = b.use
  BY <1>2 DEF OraSamePlaces
<1>7. OraMemory(y)
  BY <1>1, <1>2, <1>5, <1>6 DEF OraMemory, OraInStep, OraCleared, OraSameTold
<1>8. OraLast(y)
  BY <1>2, <1>3, <1>5 DEF OraLast, OraSameTold
<1>9. OraKeeps(y, d)
  BY <1>1, <1>2, <1>5 DEF OraKeeps
<1>. QED
  BY <1>1, <1>5, <1>6, <1>7, <1>8, <1>9 DEF OraSetRight

LEMMA OraSetsRight ==
  ASSUME OraBindRight(cell, said), NEW b, OraPrepared(b), NEW type, NEW len, NEW d,
         OraReady(b, type, len, d), NEW binds, Ora!Sets(binds, type, len, d),
         type \in {"VNU", "TIMESTAMP"} => len = 0,
         \A x \in binds : OraBinds(x, b, type, len)
  PROVE  OraBindRight(cell', said') /\ answer' = NoAnswer
<1> DEFINE kind == IF cell.kind = "cleared" /\ cell.lastType = type /\ cell.lastLength = len
                   THEN "cleared" ELSE "set"
<1>1. PICK x \in binds :
        \/ /\ x.threw
           /\ cell' = [x EXCEPT !.kind = "set", !.lastType = "none", !.lastLength = 0]
           /\ said' = {}
        \/ /\ ~ x.threw
           /\ cell' = [x EXCEPT !.kind = kind, !.lastType = type, !.lastLength = len]
           /\ said' = {d}
  BY DEF Ora!Sets
<1>2. answer' = NoAnswer
  BY OraConversions DEF Ora!Sets
<1> HIDE DEF kind
<1>3. OraBinds(x, b, type, len)
  OBVIOUS
<1>4. OraShape(b) /\ b.use = "in" /\ OraMemory(b)
  BY OraPreparedMemory
<1>5. CASE x = Ora!Forgotten(b)
  <2>1. OraShape(x) /\ x.threw = TRUE
    BY <1>4, <1>5, OraThrown DEF OraSamePlaces
  <2>2. cell' = [x EXCEPT !.kind = "set", !.lastType = "none", !.lastLength = 0] /\ said' = {}
    BY <1>1, <2>1
  <2>3. OraThrows(x, cell')
    BY <2>1, <2>2, OraKind DEF OraThrows
  <2>4. OraBindRight(cell', {})
    BY <1>5, <2>3, OraSetThrew
  <2>. QED
    BY <1>2, <2>2, <2>4
<1>6. CASE OraBoundAgain(x, b, type, len) \/ OraBoundAlready(x, b, type, len)
  <2>1. OraShape(x) /\ x.threw = FALSE
    <3>1. ASSUME OraBoundAgain(x, b, type, len)
          PROVE  OraSamePlaces(x, b) /\ x.threw = FALSE
      BY <1>4, <3>1, OraBindsAgain
    <3>2. ASSUME OraBoundAlready(x, b, type, len)
          PROVE  OraSamePlaces(x, b) /\ x.threw = FALSE
      <4>1. x = [b EXCEPT !.threw = FALSE]
        BY <3>2 DEF OraBoundAlready
      <4>. QED
        BY <1>4, <4>1, OraBindsNot
    <3>3. OraSamePlaces(x, b) /\ x.threw = FALSE
      BY <1>6, <3>1, <3>2
    <3>. QED
      BY <3>3 DEF OraSamePlaces
  <2>2. cell' = [x EXCEPT !.kind = kind, !.lastType = type, !.lastLength = len] /\ said' = {d}
    BY <1>1, <2>1
  <2>3. OraNamed(cell', x, kind, type, len)
    BY <2>1, <2>2, OraKind
  <2>4. OraReturns(x, cell', type, len)
    BY <2>1, <2>3 DEF OraReturns, kind
  <2>5. OraSetRight(cell', d)
    BY <1>6, <2>4, OraSetAgain, OraSetAlready
  <2>6. OraBindRight(cell', {d})
    BY <2>5 DEF OraSetRight, OraBindRight
  <2>. QED
    BY <1>2, <2>2, <2>6
<1>. QED
  BY <1>3, <1>5, <1>6 DEF OraBinds

LEMMA OraDataPrepared ==
  ASSUME OraBindRight(cell, said), NEW d, NEW size, NEW b, b = Ora!SetData(cell, d, size)
  PROVE  OraPrepared(b) /\ b.data = d /\ b.size = size
<1> DEFINE address == IF size > cell.address THEN size ELSE cell.address
<1>1. b = [cell EXCEPT !.data = d, !.size = size, !.address = address]
  BY DEF Ora!SetData
<1>2. OraShape(cell)
  BY DEF OraBindRight
<1> HIDE DEF address
<1>. QED
  BY <1>1, <1>2 DEF OraPrepared, OraSameBound, OraShape

LEMMA OraSetsData ==
  ASSUME OraBindRight(cell, said), NEW d, NEW type \in {"INT", "UIN", "FLT", "AFC", "BIN"}, NEW size,
         Ora!SetsData(type, size, d)
  PROVE  OraBindRight(cell', said') /\ answer' = NoAnswer
<1> DEFINE b == Ora!SetData(cell, d, size)
           binds == Ora!BoundData(b, type, size)
<1>1. OraPrepared(b) /\ b.data = d /\ b.size = size
  BY OraDataPrepared
<1>2. \A x \in binds : OraBinds(x, b, type, size)
  BY OraBoundData DEF OraBinds
<1> HIDE DEF b
<1>3. OraReady(b, type, size, d)
  BY <1>1 DEF OraReady
<1> HIDE DEF binds
<1>4. Ora!Sets(binds, type, size, d)
  BY DEF b, binds, Ora!SetsData
<1>. QED
  BY <1>1, <1>2, <1>3, <1>4, OraSetsRight

LEMMA OraSetsNumber ==
  ASSUME OraBindRight(cell, said), NEW d, Ora!SetNumber(d)
  PROVE  OraBindRight(cell', said') /\ answer' = NoAnswer
<1> DEFINE b == [cell EXCEPT !.number = d]
           binds == Ora!BoundMember(b, "number", "VNU")
<1>1. OraPrepared(b) /\ b.number = d
  BY DEF OraPrepared, OraSameBound, OraShape, OraBindRight
<1>2. \A x \in binds : OraBinds(x, b, "VNU", 0)
  <2>1. OraPlace("VNU") = "number"
    BY DEF OraPlace
  <2>. QED
    BY <2>1, OraBoundMember DEF OraBinds
<1>3. Ora!Sets(binds, "VNU", 0, d)
  BY DEF Ora!SetNumber
<1> HIDE DEF b, binds
<1>4. OraReady(b, "VNU", 0, d)
  BY <1>1 DEF OraReady
<1>. QED
  BY <1>1, <1>2, <1>3, <1>4, OraSetsRight

LEMMA OraSetsDatetime ==
  ASSUME OraBindRight(cell, said), NEW d,
         Ora!Sets(Ora!BoundMember([cell EXCEPT !.datetime = d], "datetime", "TIMESTAMP"),
                  "TIMESTAMP", 0, d)
  PROVE  OraBindRight(cell', said') /\ answer' = NoAnswer
<1> DEFINE b == [cell EXCEPT !.datetime = d]
           binds == Ora!BoundMember(b, "datetime", "TIMESTAMP")
<1>1. OraPrepared(b) /\ b.datetime = d
  BY DEF OraPrepared, OraSameBound, OraShape, OraBindRight
<1>2. \A x \in binds : OraBinds(x, b, "TIMESTAMP", 0)
  <2>1. OraPlace("TIMESTAMP") = "datetime"
    BY DEF OraPlace
  <2>. QED
    BY <2>1, OraBoundMember DEF OraBinds
<1>3. Ora!Sets(binds, "TIMESTAMP", 0, d)
  OBVIOUS
<1> HIDE DEF b, binds
<1>4. OraReady(b, "TIMESTAMP", 0, d)
  BY <1>1 DEF OraReady
<1>. QED
  BY <1>1, <1>2, <1>3, <1>4, OraSetsRight

LEMMA OraSetsNull ==
  ASSUME OraBindRight(cell, said), Ora!SetNull
  PROVE  OraBindRight(cell', said') /\ answer' = NoAnswer
<1> DEFINE b == [cell EXCEPT !.indicator = -1]
           again == Ora!BoundBy(b, "data", "CHR", 0, TRUE)
           binds == IF b.boundPtr # b.address \/ b.boundType # "CHR" \/ b.boundLength # 0
                    THEN again ELSE {[b EXCEPT !.threw = FALSE]}
<1>1. OraPrepared(b) /\ b.indicator = -1
  BY DEF OraPrepared, OraSameBound, OraShape, OraBindRight
<1>2. Ora!Sets(binds, "CHR", 0, Null)
  BY OraConversions DEF Ora!SetNull
<1> HIDE DEF b
<1>3. \A x \in again : x = Ora!Forgotten(b) \/ OraBoundAgain(x, b, "CHR", 0)
  <2>1. ("CHR" = "CHR") = TRUE /\ OraPlace("CHR") = "data"
    BY DEF OraPlace
  <2>. QED
    BY <2>1 DEF Ora!BoundBy, OraBoundAgain
<1>4. \A x \in binds : OraBinds(x, b, "CHR", 0)
  BY <1>3 DEF OraBinds, OraBoundAlready
<1> HIDE DEF binds
<1>5. OraReady(b, "CHR", 0, Null)
  BY <1>1 DEF OraReady
<1>. QED
  BY <1>1, <1>2, <1>4, <1>5, OraSetsRight

LEMMA OraSet ==
  ASSUME OraBindRight(cell, said), NEW k, NEW d, Ora!Set(k, d)
  PROVE  OraBindRight(cell', said') /\ answer' = NoAnswer
<1>1. ASSUME NEW type \in {"INT", "UIN", "FLT", "AFC", "BIN"}, NEW size,
             Ora!SetsData(type, size, d)
      PROVE  OraBindRight(cell', said') /\ answer' = NoAnswer
  BY <1>1, OraSetsData
<1>2. CASE Ora!SetNative(k, d)
  BY <1>1, <1>2 DEF Ora!SetNative
<1>3. CASE Ora!SetUnsignedNative(k, d)
  BY <1>1, <1>3 DEF Ora!SetUnsignedNative
<1>4. CASE Ora!SetFloat(k, d)
  BY <1>1, <1>4 DEF Ora!SetFloat
<1>5. CASE Ora!SetText(k, d)
  BY <1>1, <1>5 DEF Ora!SetText
<1>6. CASE Ora!SetBlob(d)
  BY <1>1, <1>6 DEF Ora!SetBlob
<1>7. CASE Ora!SetTimestamp(k, d)
  BY <1>7, OraSetsDatetime DEF Ora!SetTimestamp
<1>8. CASE Ora!SetLong(d) \/ Ora!SetUnsignedLong(d) \/ Ora!SetWide(k, d) \/ Ora!SetDecimal(d)
  BY <1>8, OraSetsNumber DEF Ora!SetLong, Ora!SetUnsignedLong, Ora!SetWide, Ora!SetDecimal
<1>9. CASE Ora!SetNull
  BY <1>9, OraSetsNull
<1>. QED
  BY <1>2, <1>3, <1>4, <1>5, <1>6, <1>7, <1>8, <1>9 DEF Ora!Set

LEMMA OraClears ==
  ASSUME OraBindRight(cell, said), Ora!Clear
  PROVE  OraBindRight(cell', said') /\ answer' = NoAnswer
<1>1. answer' = NoAnswer /\ cell.kind # "none"
  BY OraConversions DEF Ora!Clear
<1>2. OraShape(cell) /\ cell.use = "in" /\ OraMemory(cell) /\ OraLast(cell)
  BY DEF OraBindRight
<1>3. CASE /\ cell' = [cell EXCEPT !.kind = "cleared", !.indicator = -1, !.at = "data",
                                   !.where = cell.address, !.as = "INT", !.len = 0,
                                   !.ind = TRUE, !.threw = FALSE]
           /\ said' = {Null}
  <2>1. /\ OraShape(cell') /\ cell'.use = "in" /\ cell'.kind = "cleared"
        /\ cell'.indicator = -1 /\ cell'.ind = TRUE
        /\ cell'.boundType = cell.boundType /\ cell'.boundLength = cell.boundLength
        /\ cell'.lastType = cell.lastType /\ cell'.lastLength = cell.lastLength
    BY <1>2, <1>3 DEF OraShape
  <2>2. OraMemory(cell') /\ OraLast(cell')
    BY <1>2, <2>1 DEF OraMemory, OraCleared, OraLast
  <2>3. Ora!Seen(cell') = Null
    BY <2>1, OraSeenNull
  <2>. QED
    BY <1>1, <1>3, <2>1, <2>2, <2>3 DEF OraBindRight, OraKeeps
<1>4. CASE /\ cell' = [cell EXCEPT !.indicator = -1, !.threw = TRUE]
           /\ said' = {}
  <2>1. /\ OraShape(cell') /\ cell'.use = "in" /\ cell'.kind = cell.kind
        /\ cell'.indicator = -1 /\ cell'.ind = cell.ind /\ cell'.boundPtr = cell.boundPtr
        /\ cell'.boundType = cell.boundType /\ cell'.boundLength = cell.boundLength
        /\ cell'.at = cell.at /\ cell'.where = cell.where /\ cell'.len = cell.len
        /\ cell'.lastType = cell.lastType /\ cell'.lastLength = cell.lastLength
    BY <1>2, <1>4 DEF OraShape
  <2>2. OraMemory(cell') /\ OraLast(cell')
    BY <1>2, <2>1 DEF OraMemory, OraInStep, OraCleared, OraLast
  <2>. QED
    BY <1>1, <1>4, <2>1, <2>2 DEF OraBindRight
<1>. QED
  BY <1>3, <1>4, OraConversions DEF Ora!Clear

-----------------------------------------------------------------------------
\* oracle: the columns.

OraColumn(c) ==
  c = [use |-> c.use, kind |-> c.kind, type |-> c.type, content |-> c.content, null |-> c.null]
OraBeside(c) == (c.use = "single" /\ c.type = "UIN") \/ c.type = "BLOB"
OraColumnRight(c, s) ==
  /\ OraColumn(c) /\ c.use \in {"single", "multi"} /\ c.null \in BOOLEAN
  /\ c.null => s = {Null}
  /\ ~ c.null => c.content \in Datum /\ s = {c.content}
OraRight(c, s) == OraBindRight(c, s) \/ OraColumnRight(c, s)
OraAnswers(c, a) == Reports(a) /\ (c.use = "in" \/ ~ OraBeside(c) => Keeps(a))

\* A getter may give anything but null of the columns which NumbersKept excepts.
OraGives(k, c, r) == r # Null /\ (~ OraBeside(c) => Rightly(k, c.content, r))

LEMMA OraByType ==
  ASSUME NEW c, NEW integer, NEW float, NEW number, NEW text,
         NEW r \in Ora!ByType(c, integer, float, number, text)
  PROVE  \/ r \in integer \/ r \in float \/ r \in number \/ r \in text
         \/ r = TypeError \/ (r = Crash /\ OraBeside(c))
<1>0. Ora!TypeError = TypeError /\ Ora!Crash = Crash
  BY OraConversions
<1>1. CASE c.type = "TIMESTAMP"
  BY <1>0, <1>1 DEF Ora!ByType
<1>2. CASE c.type \in {"INT", "UIN"}
  BY <1>2 DEF Ora!ByType
<1>3. CASE c.type = "FLT"
  BY <1>3 DEF Ora!ByType
<1>4. CASE c.type = "NUM"
  BY <1>4 DEF Ora!ByType
<1>5. CASE c.type = "BLOB"
  BY <1>0, <1>5 DEF Ora!ByType, OraBeside
<1>6. CASE c.type \notin {"TIMESTAMP", "INT", "UIN", "FLT", "NUM", "BLOB"}
  BY <1>6 DEF Ora!ByType
<1>. QED
  BY <1>1, <1>2, <1>3, <1>4, <1>5, <1>6

LEMMA OraGivesRightly ==
  ASSUME NEW k, NEW c, NEW r, Rightly(k, c.content, r)
  PROVE  OraGives(k, c, r)
BY DEF OraGives, Rightly

LEMMA OraLongValue ==
  ASSUME NEW c, c.content \in Datum, NEW r \in Ora!LongValue(c)
  PROVE  (r = c.content) \/ (r # Null /\ OraBeside(c))
<1>1. CASE c.use = "single" /\ c.type = "UIN"
  <2>1. r \in Uninitialized("Long")
    BY <1>1, OraReadings DEF Ora!LongValue
  <2>. QED
    BY <1>1, <2>1, UninitializedIs DEF OraBeside
<1>2. CASE ~ (c.use = "single" /\ c.type = "UIN")
  BY <1>2 DEF Ora!LongValue
<1>. QED
  BY <1>1, <1>2

LEMMA OraKept ==
  ASSUME NEW k, NEW d \in Datum, NEW r, r # Null,
         d.is = "number" /\ Fits(k, d.n) => r \in {d} \cup Refusals
  PROVE  Rightly(k, d, r)
BY RoomIs, DatumIs DEF Rightly

LEMMA OraNarrowed ==
  ASSUME NEW k, NEW c, c.content \in Datum, NEW r \in Ora!Narrowed(k, c)
  PROVE  OraGives(k, c, r)
<1> DEFINE d == c.content
<1>1. PICK v \in Ora!LongValue(c) : r = Num(Cast(k, v.n))
  BY OraConversions DEF Ora!Narrowed
<1>2. r # Null
  BY <1>1, NoNull
<1>3. CASE v = d
  <2>1. d.is = "number" /\ Fits(k, d.n) => r = d
    BY <1>1, <1>3, DatumIs, CastKeeps
  <2>. QED
    BY <1>2, <2>1, OraKept, OraGivesRightly
<1>4. CASE OraBeside(c)
  BY <1>2, <1>4 DEF OraGives
<1>. QED
  BY <1>3, <1>4, OraLongValue

LEMMA OraRound ==
  ASSUME NEW k, NEW d \in Datum, NEW r \in Ora!Round(k, d)
  PROVE  Rightly(k, d, r)
<1> DEFINE high == d.n > MaxOf(k)
           low == d.n < MinOf(k) - (IF d.is = "fraction" THEN 1 ELSE 0)
           n == Rounded(d)
<1>1. Ora!Round(k, d) =
        IF high \/ low THEN {Overflow} ELSE IF Fits(k, n) THEN {Num(n)} ELSE Uninitialized(k)
  BY OraConversions, OraReadings DEF Ora!Round
<1>2. d.is = "number" /\ Fits(k, d.n) => ~ high /\ ~ low /\ n = d.n /\ Num(n) = d
  BY DatumIs, LimitsOf DEF Fits, Rounded
<1> HIDE DEF high, low, n
<1>3. r # Null
  BY <1>1, NoNull, UninitializedIs
<1>4. d.is = "number" /\ Fits(k, d.n) => r = d
  BY <1>1, <1>2
<1>. QED
  BY <1>3, <1>4, OraKept

LEMMA OraNumberToInt ==
  ASSUME NEW k, NEW d \in Datum, NEW r \in Ora!NumberToInt(k, d)
  PROVE  Rightly(k, d, r)
<1>1. PICK n \in IF d.is = "fraction" THEN {d.n, d.n + 1} ELSE {d.n} :
        r = IF Fits(k, n) THEN Num(n) ELSE Overflow
  BY OraConversions DEF Ora!NumberToInt
<1>2. r # Null
  BY <1>1, NoNull
<1>3. d.is = "number" /\ Fits(k, d.n) => r = d
  BY <1>1, DatumIs
<1>. QED
  BY <1>2, <1>3, OraKept

LEMMA OraRead ==
  ASSUME NEW k, NEW d \in Datum, NEW r \in Ora!Read(k, d)
  PROVE  /\ r # Null
         /\ d.is = "number" /\ Fits(k, d.n) => r \in {d, TypeError}
<1>1. r = TypeError \/ r \in Extract(k, d).stored
  BY OraConversions, OraReadings DEF Ora!Read
<1>. QED
  BY <1>1, NoNull, ExtractGives

LEMMA OraReadRightly ==
  ASSUME NEW k, NEW d \in Datum, NEW r \in Ora!Read(k, d)
  PROVE  Rightly(k, d, r)
<1>1. /\ r # Null
      /\ d.is = "number" /\ Fits(k, d.n) => r \in {d, TypeError}
  BY OraRead
<1>. QED
  BY <1>1, OraKept, RefusalsAre

\* The text of an unsigned short is read as unsigned and narrowed.
LEMMA OraReadShort ==
  ASSUME NEW d \in Datum, NEW v \in Ora!Read("Unsigned", d),
         NEW r, r = IF v = TypeError THEN v ELSE Num(Cast("UnsignedShort", v.n))
  PROVE  Rightly("UnsignedShort", d, r)
<1>1. r # Null
  BY NoNull
<1>2. ASSUME d.is = "number", Fits("UnsignedShort", d.n)
      PROVE  r \in {d} \cup Refusals
  <2>1. Fits("Unsigned", d.n)
    BY <1>2, DatumIs, FitsLonger
  <2>2. v \in {d, TypeError}
    BY <1>2, <2>1, OraRead
  <2>3. Num(Cast("UnsignedShort", d.n)) = d
    BY <1>2, DatumIs, CastKeeps
  <2>. QED
    BY <2>2, <2>3, RefusalsAre
<1>. QED
  BY <1>1, <1>2, OraKept

LEMMA OraDecimalInteger ==
  ASSUME NEW k, NEW d \in Datum, NEW r \in DecimalInteger(k, d)
  PROVE  Rightly(k, d, r)
<1>1. /\ r # Null
      /\ d.is = "number" /\ Fits(k, d.n) => r \in {d} \cup Refusals
  BY DecimalGives
<1>. QED
  BY <1>1, OraKept

LEMMA OraIntegerOf ==
  ASSUME NEW k \in IntKinds, NEW c, c.content \in Datum, NEW number, NEW text,
         \A r \in number : Rightly(k, c.content, r),
         \A r \in text : Rightly(k, c.content, r),
         NEW r \in Ora!ByType(c, Ora!Narrowed(k, c), Ora!Round(k, c.content), number, text)
  PROVE  OraGives(k, c, r)
<1>1. \/ r \in Ora!Narrowed(k, c) \/ r \in Ora!Round(k, c.content)
      \/ r \in number \/ r \in text
      \/ r = TypeError \/ (r = Crash /\ OraBeside(c))
  BY OraByType
<1>2. CASE r \in Ora!Narrowed(k, c)
  BY <1>2, OraNarrowed
<1>3. CASE r \in Ora!Round(k, c.content)
  BY <1>3, OraRound, OraGivesRightly
<1>4. CASE r \in number \/ r \in text
  BY <1>4, OraGivesRightly
<1>5. CASE r = TypeError
  BY <1>5, RefusalsAre, RefusesRightly, OraGivesRightly
<1>6. CASE r = Crash /\ OraBeside(c)
  BY <1>6, NoNull DEF OraGives
<1>. QED
  BY <1>1, <1>2, <1>3, <1>4, <1>5, <1>6

LEMMA OraMultiInteger ==
  ASSUME NEW k \in IntKinds, NEW c, c.content \in Datum, NEW r \in Ora!MultiInteger(k, c)
  PROVE  OraGives(k, c, r)
<1>1. \A x \in Ora!NumberToInt(k, c.content) : Rightly(k, c.content, x)
  BY OraNumberToInt
<1>2. \A x \in Ora!Read(k, c.content) : Rightly(k, c.content, x)
  BY OraReadRightly
<1>3. r \in Ora!ByType(c, Ora!Narrowed(k, c), Ora!Round(k, c.content),
                       Ora!NumberToInt(k, c.content), Ora!Read(k, c.content))
  BY DEF Ora!MultiInteger
<1>. QED
  BY <1>1, <1>2, <1>3, OraIntegerOf

LEMMA OraSingleSigned ==
  ASSUME NEW k \in IntKinds, NEW c, c.content \in Datum, NEW r \in Ora!SingleSigned(k, c)
  PROVE  OraGives(k, c, r)
<1>1. \A x \in DecimalInteger(k, c.content) : Rightly(k, c.content, x)
  BY OraDecimalInteger
<1>2. \A x \in Ora!Read(k, c.content) : Rightly(k, c.content, x)
  BY OraReadRightly
<1>3. r \in Ora!ByType(c, Ora!Narrowed(k, c), Ora!Round(k, c.content),
                       DecimalInteger(k, c.content), Ora!Read(k, c.content))
  BY OraReadings DEF Ora!SingleSigned
<1>. QED
  BY <1>1, <1>2, <1>3, OraIntegerOf

LEMMA OraSingleUnsigned ==
  ASSUME NEW k \in IntKinds, NEW c, c.content \in Datum, NEW r \in Ora!SingleUnsigned(k, c)
  PROVE  OraGives(k, c, r)
<1> DEFINE narrow == {IF v = TypeError THEN v ELSE Num(Cast(k, v.n))
                        : v \in Ora!Read("Unsigned", c.content)}
           text == IF k # "UnsignedShort" THEN Ora!Read(k, c.content) ELSE narrow
<1>1. \A x \in DecimalInteger(k, c.content) : Rightly(k, c.content, x)
  BY OraDecimalInteger
<1>2. \A x \in text : Rightly(k, c.content, x)
  <2>1. CASE k # "UnsignedShort"
    BY <2>1, OraReadRightly
  <2>2. CASE k = "UnsignedShort"
    BY <2>2, OraReadShort
  <2>. QED
    BY <2>1, <2>2
<1>3. r \in Ora!ByType(c, Ora!Narrowed(k, c), Ora!Round(k, c.content),
                       DecimalInteger(k, c.content), text)
  <2>1. narrow = {IF v = Ora!TypeError THEN v ELSE Ora!Num(Ora!Cast(k, v.n))
                    : v \in Ora!Read("Unsigned", c.content)}
    BY OraConversions
  <2> DEFINE narrow1 == {IF v = Ora!TypeError THEN v ELSE Ora!Num(Ora!Cast(k, v.n))
                           : v \in Ora!Read("Unsigned", c.content)}
  <2>2. r \in Ora!ByType(c, Ora!Narrowed(k, c), Ora!Round(k, c.content),
                         Ora!DecimalInteger(k, c.content),
                         IF k # "UnsignedShort" THEN Ora!Read(k, c.content) ELSE narrow1)
    BY DEF Ora!SingleUnsigned
  <2>3. narrow1 = narrow
    BY <2>1
  <2>4. Ora!DecimalInteger(k, c.content) = DecimalInteger(k, c.content)
    BY OraReadings
  <2> HIDE DEF narrow, narrow1
  <2>. QED
    BY <2>2, <2>3, <2>4
<1> HIDE DEF text
<1>. QED
  BY <1>1, <1>2, <1>3, OraIntegerOf

LEMMA OraInteger ==
  ASSUME NEW k \in IntKinds, NEW c, c.content \in Datum, ~ c.null, NEW r \in Ora!Getter(k, c)
  PROVE  OraGives(k, c, r)
<1>0. /\ Ora!UnsignedKinds = UnsignedKinds /\ Ora!TimeKinds = TimeKinds
      /\ k \in SignedKinds \cup UnsignedKinds
  BY OraConversions DEF IntKinds
<1>1. CASE c.use = "single"
  <2>1. r \in Ora!Single(k, c)
    BY <1>1 DEF Ora!Getter
  <2>2. CASE k \in {"Short", "Int", "Long", "Int32"}
    <3>1. r \in Ora!SingleSigned(k, c)
      BY <1>0, <2>1, <2>2 DEF Ora!Single, UnsignedKinds, TimeKinds
    <3>. QED
      BY <3>1, OraSingleSigned
  <2>3. CASE k \in UnsignedKinds \ {"Unsigned64"}
    <3>1. r \in Ora!SingleUnsigned(k, c)
      BY <1>0, <2>1, <2>3 DEF Ora!Single, UnsignedKinds, TimeKinds
    <3>. QED
      BY <3>1, OraSingleUnsigned
  <2>4. CASE k \in {"Int64", "Unsigned64"}
    <3>1. r \in Ora!SingleSigned(k, c)
      BY <1>0, <2>1, <2>4 DEF Ora!Single, Ora!SingleWide, UnsignedKinds, TimeKinds
    <3>. QED
      BY <3>1, OraSingleSigned
  <2>. QED
    BY <1>0, <2>2, <2>3, <2>4 DEF SignedKinds, UnsignedKinds
<1>2. CASE c.use # "single"
  <2>1. r \in Ora!SingleValue(k, c)
    BY <1>2 DEF Ora!Getter
  <2>2. r \in Ora!MultiInteger(k, c)
    BY <1>0, <2>1
       DEF Ora!SingleValue, Ora!MultiSigned, Ora!MultiUnsigned, Ora!MultiWide,
           SignedKinds, UnsignedKinds, TimeKinds
  <2>. QED
    BY <2>2, OraMultiInteger
<1>. QED
  BY <1>1, <1>2

-----------------------------------------------------------------------------
\* The getters of the other types: never the null that get reports.

LEMMA OraNotNull ==
  ASSUME NEW c, NEW integer, NEW float, NEW number, NEW text,
         \A x \in integer : x # Null, \A x \in float : x # Null,
         \A x \in number : x # Null, \A x \in text : x # Null,
         NEW r \in Ora!ByType(c, integer, float, number, text)
  PROVE  r # Null
BY OraByType, NoNull

LEMMA OraIsTrue == \A d : Ora!IsTrue(d) # Null
BY DEF Ora!IsTrue, Ora!Bool, Null, Text

LEMMA OraTruth == \A d : Ora!Bool(Ora!Truth(d)) # Null
BY DEF Ora!Bool, Null, Text

LEMMA OraBoolean ==
  ASSUME NEW c, c.content \in Datum, NEW r, r \in Ora!SingleBool(c) \/ r \in Ora!MultiBool(c)
  PROVE  r # Null
<1> DEFINE true == {Ora!IsTrue(c.content)}
           truth == {Ora!Bool(Ora!Truth(c.content))}
           number == {IF x = Overflow THEN x ELSE Ora!IsTrue(x) : x \in Ora!NumberToInt("Int", c.content)}
<1>1. /\ \A x \in true : x # Null
      /\ \A x \in truth : x # Null
      /\ \A x \in number : x # Null
  BY OraIsTrue, OraTruth, NoNull
<1>2. \/ r \in Ora!ByType(c, true, true, true, truth)
      \/ r \in Ora!ByType(c, true, true, number, truth)
  <2>1. r \in Ora!SingleBool(c) => r \in Ora!ByType(c, true, true, true, truth)
    BY DEF Ora!SingleBool
  <2>2. r \in Ora!MultiBool(c) => r \in Ora!ByType(c, true, true, number, truth)
    BY OraConversions DEF Ora!MultiBool
  <2>. QED
    BY <2>1, <2>2
<1> HIDE DEF true, truth, number
<1>. QED
  BY <1>1, <1>2, OraNotNull

LEMMA OraReal ==
  ASSUME NEW k, NEW c, c.content \in Datum, NEW r \in Ora!Real(k, c)
  PROVE  r # Null
<1> DEFINE float == IF k = "Float" THEN Ora!RoundFloat(c.content) ELSE {c.content}
           number == {c.content}
           text == IF k = "Decimal" THEN Ora!ParseDecimal(c.content) ELSE Ora!ReadFloat(c.content)
<1>1. \A x \in Ora!LongValue(c) : x # Null
  BY OraLongValue, DatumIs
<1>2. \A x \in float : x # Null
  <2>1. \A x \in Ora!RoundFloat(c.content) : x # Null
    BY NoNull, OraConversions DEF Ora!RoundFloat
  <2>. QED
    BY <2>1, DatumIs
<1>3. \A x \in number : x # Null
  BY DatumIs
<1>4. \A x \in text : x # Null
  <2>1. \A x \in Ora!ParseDecimal(c.content) : x # Null
    BY OraReadings, ParseDecimalGives
  <2>2. \A x \in Ora!ReadFloat(c.content) : x # Null
    <3>1. \A x \in Ora!ReadFloat(c.content) : x = TypeError \/ x \in ExtractFloat(c.content).stored
      BY OraReadings, OraConversions DEF Ora!ReadFloat
    <3>. QED
      BY <3>1, NoNull, ExtractFloatGives
  <2>. QED
    BY <2>1, <2>2
<1>5. r \in Ora!ByType(c, Ora!LongValue(c), float, number, text)
  BY DEF Ora!Real
<1> HIDE DEF float, number, text
<1>. QED
  BY <1>1, <1>2, <1>3, <1>4, <1>5, OraNotNull

LEMMA OraCharacters ==
  ASSUME NEW k, NEW c, c.content \in Datum, NEW r \in Ora!Characters(k, c)
  PROVE  r # Null
<1> DEFINE error == {TypeError}
           content == {c.content}
           short == {Ora!Text("shortened")}
<1>1. /\ \A x \in error : x # Null
      /\ \A x \in content : x # Null
      /\ \A x \in short : x # Null
      /\ \A x \in Ora!LongValue(c) : x # Null
  BY NoNull, DatumIs, OraLongValue DEF Ora!Text, Null, Text
<1>2. \/ r \in content
      \/ r \in Ora!ByType(c, error, error, error, content)
      \/ r \in Ora!ByType(c, Ora!LongValue(c), content, content, content)
      \/ r \in Ora!ByType(c, error, error, error, short)
  <2>0. {Ora!TypeError} = error
    BY OraConversions
  <2> HIDE DEF error
  <2>1. CASE k = "Char"
    BY <2>0, <2>1 DEF Ora!Characters
  <2>2. CASE k = "String"
    BY <2>0, <2>2 DEF Ora!Characters
  <2>3. CASE k \notin {"Char", "String"}
    BY <2>0, <2>3 DEF Ora!Characters
  <2>. QED
    BY <2>1, <2>2, <2>3
<1> HIDE DEF error, content, short
<1>3. r \in content => r # Null
  BY <1>1
<1>. QED
  BY <1>1, <1>2, <1>3, OraNotNull

LEMMA OraOthers ==
  ASSUME NEW k \in Kinds \ IntKinds, NEW c, c.content \in Datum, ~ c.null, NEW r \in Ora!Getter(k, c)
  PROVE  r # Null
<1>0. /\ Ora!UnsignedKinds = UnsignedKinds /\ Ora!TimeKinds = TimeKinds
      /\ Ora!TypeError = TypeError
      /\ k \notin {"Short", "Int", "Long", "Int32", "Int64", "Unsigned64"}
      /\ k \notin UnsignedKinds
  BY OraConversions DEF IntKinds, SignedKinds, UnsignedKinds
<1>1. r \in Ora!Single(k, c) \/ r \in Ora!SingleValue(k, c)
  BY DEF Ora!Getter
<1>2. CASE k = "Bool"
  <2>1. r \in Ora!SingleBool(c) \/ r \in Ora!MultiBool(c)
    BY <1>0, <1>1, <1>2 DEF Ora!Single, Ora!SingleValue, TimeKinds
  <2>. QED
    BY <2>1, OraBoolean
<1>3. CASE k \in {"Float", "Double", "Decimal"}
  <2>1. r \in Ora!Real(k, c)
    BY <1>0, <1>1, <1>3
       DEF Ora!Single, Ora!SingleValue, Ora!SingleReal, Ora!MultiReal, TimeKinds
  <2>. QED
    BY <2>1, OraReal
<1>4. CASE k \in TimeKinds
  <2>1. r \in Ora!Moment(c)
    BY <1>0, <1>1, <1>4
       DEF Ora!Single, Ora!SingleValue, Ora!SingleTime, Ora!MultiTime, TimeKinds
  <2>. QED
    BY <1>0, <2>1, NoNull, DatumIs DEF Ora!Moment
<1>5. CASE k \in {"Char", "String", "Blob"}
  <2>1. r \in Ora!Characters(k, c)
    BY <1>0, <1>1, <1>5
       DEF Ora!Single, Ora!SingleValue, Ora!SingleText, Ora!MultiText, TimeKinds
  <2>. QED
    BY <2>1, OraCharacters
<1>. QED
  BY <1>2, <1>3, <1>4, <1>5 DEF Kinds

LEMMA OraGetter ==
  ASSUME NEW k \in Kinds, NEW c, c.content \in Datum, ~ c.null, NEW r \in Ora!Getter(k, c)
  PROVE  OraGives(k, c, r)
<1>1. CASE k \in IntKinds
  BY <1>1, OraInteger
<1>2. CASE k \notin IntKinds
  BY <1>2, OraOthers, OthersRightly, OraGivesRightly
<1>. QED
  BY <1>1, <1>2

-----------------------------------------------------------------------------
\* oracle: the steps.

LEMMA OraStarts ==
  ASSUME Ora!Init
  PROVE  OraRight(cell, said) /\ OraAnswers(cell, answer)
<1>1. cell = Ora!NewBind /\ said = {Null} /\ answer = NoAnswer
  BY OraConversions DEF Ora!Init
<1>2. /\ OraShape(cell) /\ cell.use = "in" /\ cell.kind = "none" /\ cell.ind = FALSE
      /\ cell.boundType = "none" /\ cell.boundLength = 0 /\ cell.at = "nothing"
      /\ cell.lastType = "none" /\ cell.lastLength = 0
  BY <1>1 DEF Ora!NewBind, OraShape
<1>3. OraMemory(cell) /\ OraLast(cell)
  BY <1>2 DEF OraMemory, OraInStep, OraLast
<1>4. Ora!Seen(cell) = Null
  BY <1>2, OraConversions DEF Ora!Seen
<1>. QED
  BY <1>1, <1>2, <1>3, <1>4, NoAnswerRight DEF OraRight, OraBindRight, OraKeeps, OraAnswers

LEMMA OraSent ==
  ASSUME OraRight(cell, said), cell.use = "in", driver = "oracle"
  PROVE  SentAsSet
<1>1. Seen = Ora!Seen(cell)
  BY DEF Seen
<1>2. \A d \in said : OraKeeps(cell, d)
  BY DEF OraRight, OraBindRight, OraColumnRight
<1>3. ASSUME NEW d \in said PROVE Kept(cell.kind, d, Seen)
  BY <1>1, <1>2 DEF OraKeeps, Kept
<1>. QED
  BY <1>3 DEF SentAsSet

LEMMA OraDefines ==
  ASSUME OraRight(cell, said), OraAnswers(cell, answer), NEW use \in {"single", "multi"}, NEW type,
         Ora!Define(use, type)
  PROVE  OraRight(cell', said') /\ OraAnswers(cell', answer')
<1>1. /\ cell = Ora!NewBind /\ said' = said /\ answer' = answer
      /\ cell' = [use |-> use, kind |-> "none", type |-> type, content |-> Null, null |-> TRUE]
  BY OraConversions DEF Ora!Define
<1>2. cell.use = "in" /\ cell.kind = "none"
  BY <1>1 DEF Ora!NewBind
<1>3. said = {Null} /\ Reports(answer) /\ Keeps(answer)
  BY <1>2 DEF OraRight, OraBindRight, OraColumnRight, OraAnswers
<1>4. OraColumn(cell') /\ cell'.use = use /\ cell'.null = TRUE
  BY <1>1 DEF OraColumn
<1>. QED
  BY <1>1, <1>3, <1>4 DEF OraRight, OraColumnRight, OraAnswers

LEMMA OraFetches ==
  ASSUME OraRight(cell, said), NEW d \in Datum \cup {Null}, Ora!Fetch(d)
  PROVE  OraRight(cell', said') /\ answer' = NoAnswer
<1> DEFINE n == d = Null
           v == IF n THEN cell.content ELSE d
<1>0. n \in BOOLEAN
  OBVIOUS
<1>1. said' = {d} /\ answer' = NoAnswer /\ cell.use \in {"single", "multi"}
  BY OraConversions DEF Ora!Fetch
<1>2. cell' = [cell EXCEPT !.content = v, !.null = n]
  BY OraConversions DEF Ora!Fetch
<1>3. OraColumn(cell)
  BY <1>1 DEF OraRight, OraBindRight, OraColumnRight
<1>4. (n => d = Null) /\ (~ n => v = d /\ d \in Datum)
  OBVIOUS
<1> HIDE DEF n, v
<1>5. OraColumn(cell') /\ cell'.use = cell.use /\ cell'.content = v /\ cell'.null = n
  BY <1>2, <1>3 DEF OraColumn
<1>. QED
  BY <1>0, <1>1, <1>4, <1>5 DEF OraRight, OraColumnRight

LEMMA OraGot ==
  ASSUME OraRight(cell, said), NEW how, NEW k \in Kinds, Ora!Get(how, k)
  PROVE  OraRight(cell', said') /\ OraAnswers(cell', answer')
<1>1. cell.use \in {"single", "multi"} /\ cell' = cell /\ said' = said
  BY DEF Ora!Get
<1>2. PICK r \in Outcomes(how, cell.null, Ora!Getter(k, cell)), d \in said :
        answer' = [how |-> how, kind |-> k, given |-> d, out |-> r]
  BY OraReadings DEF Ora!Get
<1>3. OraColumnRight(cell, said)
  BY <1>1 DEF OraRight, OraBindRight
<1>4. cell.null \in BOOLEAN /\ (cell.null <=> (d = Null)) /\ (~ cell.null => cell.content = d)
  BY <1>3, DatumIs DEF OraColumnRight
<1> DEFINE beside == OraBeside(cell)
<1>5. beside \in BOOLEAN
  BY DEF OraBeside
<1>6. ASSUME ~ cell.null, NEW g \in Ora!Getter(k, cell)
      PROVE  g # Null /\ (~ beside => Rightly(k, d, g))
  <2>1. OraGives(k, cell, g)
    BY <1>3, <1>6, OraGetter DEF OraColumnRight
  <2>. QED
    BY <1>4, <1>6, <2>1 DEF OraGives
<1> HIDE DEF beside
<1>7. Reports(answer') /\ (~ beside => Keeps(answer'))
  BY <1>2, <1>4, <1>5, <1>6, AnsweredRight
<1>. QED
  BY <1>1, <1>3, <1>7 DEF OraRight, OraAnswers, beside

LEMMA OraSets ==
  ASSUME OraRight(cell, said), NEW k, NEW d, Ora!Set(k, d)
  PROVE  OraRight(cell', said') /\ OraAnswers(cell', answer')
<1>1. cell.use = "in"
  BY DEF Ora!Set, Ora!SetNative, Ora!SetUnsignedNative, Ora!SetWide, Ora!SetFloat, Ora!SetText,
         Ora!SetTimestamp, Ora!SetLong, Ora!SetUnsignedLong, Ora!SetDecimal, Ora!SetNumber,
         Ora!SetBlob, Ora!SetNull, Ora!SetsData, Ora!Sets
<1>2. OraBindRight(cell, said)
  BY <1>1 DEF OraRight, OraColumnRight
<1>3. OraBindRight(cell', said') /\ answer' = NoAnswer
  BY <1>2, OraSet
<1>. QED
  BY <1>3, NoAnswerRight DEF OraRight, OraAnswers

LEMMA OraStep ==
  ASSUME Data \subseteq Datum, OraRight(cell, said), OraAnswers(cell, answer), Ora!Next
  PROVE  OraRight(cell', said') /\ OraAnswers(cell', answer')
<1>1. ASSUME NEW k, NEW d, Ora!Set(k, d)
      PROVE  OraRight(cell', said') /\ OraAnswers(cell', answer')
  BY <1>1, OraSets
<1>2. CASE Ora!Clear
  <2>1. OraBindRight(cell, said)
    BY <1>2 DEF Ora!Clear, OraRight, OraColumnRight
  <2>2. OraBindRight(cell', said') /\ answer' = NoAnswer
    BY <1>2, <2>1, OraClears
  <2>. QED
    BY <2>2, NoAnswerRight DEF OraRight, OraAnswers
<1>3. ASSUME NEW type, Ora!DefineSingle(type) \/ Ora!DefineMulti(type)
      PROVE  OraRight(cell', said') /\ OraAnswers(cell', answer')
  BY <1>3, OraDefines DEF Ora!DefineSingle, Ora!DefineMulti
<1>4. ASSUME NEW d \in Data \cup {Null}, Ora!Fetch(d)
      PROVE  OraRight(cell', said') /\ OraAnswers(cell', answer')
  BY <1>4, OraFetches, NoAnswerRight DEF OraAnswers
<1>5. ASSUME NEW how, NEW k \in Kinds, Ora!Get(how, k)
      PROVE  OraRight(cell', said') /\ OraAnswers(cell', answer')
  BY <1>5, OraGot
<1>. QED
  BY <1>1, <1>2, <1>3, <1>4, <1>5, OraConversions DEF Ora!Next

-----------------------------------------------------------------------------
\* The invariant of all drivers.

Right ==
  /\ driver \in Drivers
  /\ driver = "none" => PlainRight(cell, said) /\ Reports(answer) /\ Keeps(answer)
  /\ driver = "mysql" => MyRight(cell, said) /\ Reports(answer) /\ Keeps(answer)
  /\ driver = "postgresql" => PgRight(cell, said) /\ Reports(answer) /\ Keeps(answer)
  /\ driver = "sqlite" => LiteRight(cell, said) /\ Reports(answer) /\ Keeps(answer)
  /\ driver = "oracle" => OraRight(cell, said) /\ OraAnswers(cell, answer)

LEMMA Starts == ValueInit => Right
<1>. SUFFICES ASSUME ValueInit PROVE Right
  OBVIOUS
<1>1. CASE driver = "mysql" /\ My!Init
  BY <1>1, MyStarts DEF Right, Drivers
<1>2. CASE driver = "oracle" /\ Ora!Init
  BY <1>2, OraStarts DEF Right, Drivers
<1>3. CASE driver = "postgresql" /\ Pg!Init
  BY <1>3, PgStarts DEF Right, Drivers
<1>4. CASE driver = "sqlite" /\ Lite!Init
  BY <1>4, LiteStarts DEF Right, Drivers
<1>5. CASE driver = "none" /\ PlainInit
  BY <1>5, PlainStarts DEF Right, Drivers
<1>. QED
  BY <1>1, <1>2, <1>3, <1>4, <1>5 DEF ValueInit

\* The facade calls a setter with what it was given or with null.
LEMMA CallsAre ==
  ASSUME NEW d \in Datum \cup {Null}, NEW call \in CallsWith(d)
  PROVE  call.given \in Datum \cup {Null}
<1>1. \A type : SetAny(type, d).given \in {d, Null}
  BY DEF SetAny, SetNull, CallOf
<1>2. SetNull.given = Null
  BY DEF SetNull, CallOf
<1>3. \A type : SetOptional(type, d).given \in {d, Null}
  BY <1>1, <1>2 DEF SetOptional
<1>4. \A type, notNull : SetIf(type, notNull, d).given \in {d, Null}
  BY <1>1, <1>2 DEF SetIf
<1>5. \A member : SetMember(member, d).given \in {d, Null}
  BY <1>1, <1>2 DEF SetMember
<1>6. \/ \E type : call = SetAny(type, d)
      \/ \E type : call = SetOptional(type, d)
      \/ \E type, notNull : call = SetIf(type, notNull, d)
      \/ \E member : call = SetMember(member, d)
  BY DEF CallsWith
<1>. QED
  BY <1>1, <1>3, <1>4, <1>5, <1>6

LEMMA FacadeSets ==
  ASSUME Right, NEW d \in Datum \cup {Null}, NEW call \in CallsWith(d), SetVia(call), driver' = driver
  PROVE  Right'
<1> DEFINE given == call.given
           k == call.setter
<1>0. given \in Datum \cup {Null}
  BY CallsAre
<1> HIDE DEF given, k
<1>1. CASE driver = "mysql" /\ My!Set(k, given)
  <2>1. MyRight(cell, said)
    BY <1>1 DEF Right
  <2>2. MyRight(cell', said') /\ answer' = NoAnswer
    BY <1>0, <1>1, <2>1, MySet
  <2>. QED
    BY <1>1, <2>2, NoAnswerRight DEF Right, Drivers
<1>2. CASE driver = "oracle" /\ Ora!Set(k, given)
  <2>1. OraRight(cell, said)
    BY <1>2 DEF Right
  <2>2. OraRight(cell', said') /\ OraAnswers(cell', answer')
    BY <1>2, <2>1, OraSets
  <2>. QED
    BY <1>2, <2>2 DEF Right, Drivers
<1>3. CASE driver = "postgresql" /\ Pg!Set(k, given)
  <2>1. PgRight(cell, said)
    BY <1>3 DEF Right
  <2>2. PgRight(cell', said') /\ answer' = NoAnswer
    BY <1>3, <2>1, PgSet
  <2>. QED
    BY <1>3, <2>2, NoAnswerRight DEF Right, Drivers
<1>4. CASE driver = "sqlite" /\ Lite!Set(k, given)
  <2>1. LiteRight(cell, said)
    BY <1>4 DEF Right
  <2>2. LiteRight(cell', said') /\ answer' = NoAnswer
    BY <1>0, <1>4, <2>1, LiteSet
  <2>. QED
    BY <1>4, <2>2, NoAnswerRight DEF Right, Drivers
<1>. QED
  BY <1>1, <1>2, <1>3, <1>4 DEF SetVia, given, k

LEMMA Steps == Right /\ [ValueNext]_valueVars => Right'
<1>. SUFFICES ASSUME Right, [ValueNext]_valueVars PROVE Right'
  OBVIOUS
<1>0. Data \subseteq Datum /\ FacadeData \subseteq Datum \cup {Null}
  BY DataAssumption
<1>1. CASE UNCHANGED valueVars
  BY <1>1 DEF valueVars, Right
<1>2. ASSUME NEW d \in FacadeData, NEW call \in CallsWith(d), SetVia(call), driver' = driver
      PROVE  Right'
  BY <1>0, <1>2, FacadeSets
<1>3. CASE driver = "mysql" /\ My!Next /\ driver' = driver
  <2>1. MyRight(cell, said)
    BY <1>3 DEF Right
  <2>2. MyRight(cell', said') /\ Reports(answer') /\ Keeps(answer')
    BY <1>0, <1>3, <2>1, MyStep
  <2>. QED
    BY <1>3, <2>2 DEF Right, Drivers
<1>4. CASE driver = "oracle" /\ Ora!Next /\ driver' = driver
  <2>1. OraRight(cell, said) /\ OraAnswers(cell, answer)
    BY <1>4 DEF Right
  <2>2. OraRight(cell', said') /\ OraAnswers(cell', answer')
    BY <1>0, <1>4, <2>1, OraStep
  <2>. QED
    BY <1>4, <2>2 DEF Right, Drivers
<1>5. CASE driver = "postgresql" /\ Pg!Next /\ driver' = driver
  <2>1. PgRight(cell, said)
    BY <1>5 DEF Right
  <2>2. PgRight(cell', said') /\ Reports(answer') /\ Keeps(answer')
    BY <1>0, <1>5, <2>1, PgStep
  <2>. QED
    BY <1>5, <2>2 DEF Right, Drivers
<1>6. CASE driver = "sqlite" /\ Lite!Next /\ driver' = driver
  <2>1. LiteRight(cell, said)
    BY <1>6 DEF Right
  <2>2. LiteRight(cell', said') /\ Reports(answer') /\ Keeps(answer')
    BY <1>0, <1>6, <2>1, LiteStep
  <2>. QED
    BY <1>6, <2>2 DEF Right, Drivers
<1>7. CASE driver = "none" /\ PlainNext /\ driver' = driver
  <2>1. PlainRight(cell, said)
    BY <1>7 DEF Right
  <2>2. PlainRight(cell', said') /\ Reports(answer') /\ Keeps(answer')
    BY <1>0, <1>7, <2>1, PlainStep
  <2>. QED
    BY <1>7, <2>2 DEF Right, Drivers
<1>. QED
  BY <1>1, <1>2, <1>3, <1>4, <1>5, <1>6, <1>7 DEF ValueNext

LEMMA RightHolds == ValueSpec => []Right
BY Starts, Steps, PTL DEF ValueSpec

LEMMA RightIsSent == Right => SentAsSet
<1>. SUFFICES ASSUME Right, cell.use = "in" PROVE SentAsSet
  BY DEF SentAsSet
<1>1. CASE driver = "none"
  BY <1>1 DEF Right, PlainRight
<1>2. CASE driver = "mysql"
  BY <1>2, MySent DEF Right
<1>3. CASE driver = "postgresql"
  BY <1>3, PgSeen DEF Right
<1>4. CASE driver = "sqlite"
  BY <1>4, LiteSeen DEF Right
<1>5. CASE driver = "oracle"
  BY <1>5, OraSent DEF Right
<1>. QED
  BY <1>1, <1>2, <1>3, <1>4, <1>5 DEF Right, Drivers

LEMMA RightIsAnswered == Right => Reports(answer) /\ (Keeps(answer) \/ (driver = "oracle" /\ OraBeside(cell)))
BY DEF Right, Drivers, OraAnswers

(* Whatever was set before, the server reads of a host variable what the   *)
(* last setter was given, or null after clear; where a driver does not do  *)
(* that, what Kept says of it: clear of mysql and of oracle, shorts and    *)
(* longs of mysql, unsigned 64 bit numbers, unsigned longs and decimals of *)
(* sqlite (Statement::setXXX and clear of the drivers).                    *)
THEOREM SentAsSetHolds == ValueSpec => []SentAsSet
BY RightHolds, RightIsSent, PTL

(* A getter of an integer type gives the number that was delivered or      *)
(* throws, when the type has room for it; the longs of mysql and sqlite    *)
(* have the room of an int (Value::getShort .. getUnsigned64).             *)
THEOREM NumbersKeptHolds == ValueSpec => []NumbersKept
<1>1. Right => NumbersKept
  BY RightIsAnswered DEF NumbersKept, Keeps, OraBeside
<1>. QED
  BY <1>1, RightHolds, PTL

(* get(x) leaves x alone exactly when the column is null (Value::get).     *)
THEOREM NullIsReportedHolds == ValueSpec => []NullIsReported
<1>1. Right => NullIsReported
  BY RightIsAnswered DEF NullIsReported, Reports
<1>. QED
  BY <1>1, RightHolds, PTL
===============================================================================
