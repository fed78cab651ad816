---------------------------- MODULE ReplicateProofs ----------------------------
(***************************************************************************)
(* What the replication driver promises, for every number of programs,     *)
(* databases and statements, as long as only statements fail, and only      *)
(* outside of the transactions the programs begin themselves.              *)
(***************************************************************************)
EXTENDS Replicate, SequenceTheorems, FiniteSetTheorems, TLAPS

-------------------------------------------------------------------------------
(* What std::vector does to its elements, a sequence without duplicates.    *)

(* resize(n) to a smaller size keeps the first n elements, in order.        *)
LEMMA ResizeLemma ==
  ASSUME NEW S, NEW s \in Seq(S), NEW n \in Nat, n <= Len(s)
  PROVE  /\ SubSeq(s, 1, n) \in Seq(S)
         /\ Len(SubSeq(s, 1, n)) = n
         /\ \A i \in 1..n : SubSeq(s, 1, n)[i] = s[i]
         /\ Range(SubSeq(s, 1, n)) \subseteq Range(s)
         /\ IsInjective(s) => IsInjective(SubSeq(s, 1, n))
<1> DEFINE t == SubSeq(s, 1, n)
<1>1. \A i \in 1..n : s[i] \in S
  BY ElementOfSeq
<1>2. /\ t \in Seq(S)
      /\ Len(t) = n
      /\ \A i \in 1..n : t[i] = s[i]
  <2>1. /\ t \in Seq(S)
        /\ Len(t) = IF 1 <= n THEN n - 1 + 1 ELSE 0
        /\ \A i \in 1 .. n-1+1 : t[i] = s[1+i-1]
    BY <1>1, SubSeqProperties
  <2>. QED
    BY <2>1
<1>3. DOMAIN t = 1..n /\ DOMAIN s = 1..Len(s)
  BY <1>2
<1>4. Range(t) \subseteq Range(s)
  BY <1>2, <1>3 DEF Range
<1>5. IsInjective(s) => IsInjective(t)
  BY <1>2, <1>3 DEF IsInjective
<1>. QED
  BY <1>2, <1>4, <1>5

(* emplace_back adds exactly the new element.                               *)
LEMMA PushBackLemma ==
  ASSUME NEW S, NEW s \in Seq(S), NEW e \in S
  PROVE  /\ Append(s, e) \in Seq(S)
         /\ Len(Append(s, e)) = Len(s) + 1
         /\ Range(Append(s, e)) = Range(s) \cup {e}
         /\ IsInjective(s) /\ e \notin Range(s) => IsInjective(Append(s, e))
<1> DEFINE t == Append(s, e)
<1>1. /\ t \in Seq(S)
      /\ Len(t) = Len(s) + 1
      /\ \A i \in 1..Len(s) : t[i] = s[i]
      /\ t[Len(s) + 1] = e
  BY AppendProperties
<1>2. DOMAIN s = 1..Len(s) /\ DOMAIN t = 1..(Len(s) + 1) /\ Len(s) \in Nat
  BY <1>1
<1>3. Range(t) = Range(s) \cup {e}
  BY <1>1, <1>2 DEF Range
<1>4. IsInjective(s) /\ e \notin Range(s) => IsInjective(t)
  BY <1>1, <1>2 DEF Range, IsInjective
<1>. QED
  BY <1>1, <1>3, <1>4

-------------------------------------------------------------------------------
(* What one call of a driver does to a session.                             *)

LEMMA ClosedFresh == Closed \in Session /\ Fresh \in Session
BY DEF Closed, Fresh, Session

(* begin: a transaction is open or counted afterwards only if it was        *)
(* before or the call returned; a call that throws changes nothing.         *)
LEMMA BeginLemma ==
  ASSUME NEW s \in Session, NEW ok \in BOOLEAN, BeginMay(s, ok)
  PROVE  /\ Begun(s, ok) \in Session
         /\ Begun(s, ok).up = s.up
         /\ ~ok => Begun(s, ok) = s
         /\ ok => Begun(s, ok).depth = s.depth + 1
<1>1. CASE ok
  <2>1. Begun(s, ok) = [s EXCEPT !.depth = @ + 1, !.open = s.open \/ TellsBegin(s)]
    BY <1>1 DEF Begun
  <2>2. (s.open \/ TellsBegin(s)) \in BOOLEAN /\ s.depth + 1 \in Nat
    BY DEF Session
  <2>. QED
    BY <1>1, <2>1, <2>2 DEF Session
<1>2. CASE ~ok
  BY <1>2 DEF Begun
<1>. QED
  BY <1>1, <1>2

(* commit and rollback: they open nothing, and the outermost one that       *)
(* returns leaves no transaction open and none counted.                     *)
LEMMA EndLemma ==
  ASSUME NEW s \in Session, NEW ok \in BOOLEAN, NEW pending \in BOOLEAN,
         EndMay(s, ok, pending)
  PROVE  /\ Ended(s, pending) \in Session
         /\ Ended(s, pending).up = s.up
         /\ Ended(s, pending).open = pending
         /\ Ended(s, pending).depth = CountDown(s)
         /\ CountDown(s) \in Nat
         /\ s.depth <= 1 => CountDown(s) = 0
         /\ pending => s.open
         /\ s.depth <= 1 /\ ok => ~pending
<1>1. CountDown(s) \in Nat /\ (s.depth <= 1 => CountDown(s) = 0)
  BY DEF CountDown, Session
<1>2. /\ Ended(s, pending) \in Session
      /\ Ended(s, pending).up = s.up
      /\ Ended(s, pending).open = pending
      /\ Ended(s, pending).depth = CountDown(s)
  BY <1>1 DEF Ended, Session
<1>3. (pending => s.open) /\ (s.depth <= 1 /\ ok => ~pending)
  BY <1>1 DEF EndMay
<1>. QED
  BY <1>1, <1>2, <1>3

-------------------------------------------------------------------------------
(* The order of the urls                                                    *)

(* A sequence of different integers can be sorted: an element's place is    *)
(* the number of elements up to it.                                         *)
LEMMA SortLemma ==
  ASSUME NEW n \in Nat, NEW B \in SUBSET Int, NEW u \in [1..n -> B],
         IsInjective(u), \A b \in B : \E i \in 1..n : u[i] = b
  PROVE  \E s \in [1..n -> B] : Increasing(s)
<1> DEFINE UpTo(b) == {x \in B : x <= b}
           place == [b \in B |-> Cardinality(UpTo(b))]
<1>1. IsFiniteSet(B) /\ Cardinality(B) = n
  <2>1. u \in Bijection(1..n, B)
    BY DEF Bijection, Injection, Surjection
  <2>. QED
    BY <2>1, FS_NatBijection, FS_CountingElements DEF ExistsBijection
<1>2. ASSUME NEW b \in B
      PROVE  IsFiniteSet(UpTo(b)) /\ Cardinality(UpTo(b)) \in 1..n
  <2>1. UpTo(b) \in SUBSET B /\ b \in UpTo(b)
    OBVIOUS
  <2>2. IsFiniteSet(UpTo(b)) /\ Cardinality(UpTo(b)) <= n
    BY <1>1, <2>1, FS_Subset
  <2>3. Cardinality(UpTo(b)) \in Nat /\ Cardinality(UpTo(b)) # 0
    BY <2>1, <2>2, FS_CardinalityType, FS_EmptySet
  <2>. QED
    BY <2>2, <2>3
<1>3. ASSUME NEW a \in B, NEW b \in B, a < b
      PROVE  Cardinality(UpTo(a)) < Cardinality(UpTo(b))
  <2>1. UpTo(a) \in SUBSET UpTo(b) /\ b \in UpTo(b) /\ b \notin UpTo(a)
    <3>1. a \in Int /\ b \in Int
      OBVIOUS
    <3>2. ASSUME NEW x \in UpTo(a)
          PROVE  x \in UpTo(b)
      BY <1>3, <3>1
    <3>3. b <= b /\ ~(b <= a)
      BY <1>3, <3>1
    <3>. QED
      BY <3>2, <3>3
  <2>2. UpTo(a) # UpTo(b)
    BY <2>1
  <2>3. Cardinality(UpTo(a)) <= Cardinality(UpTo(b))
        /\ Cardinality(UpTo(b)) # Cardinality(UpTo(a))
    BY <1>2, <2>1, <2>2, FS_Subset
  <2> HIDE DEF UpTo
  <2>. QED
    BY <1>2, <2>3
<1> HIDE DEF UpTo
<1>4. place \in [B -> 1..n] /\ \A a, b \in B : a < b => place[a] < place[b]
  BY <1>2, <1>3
<1> HIDE DEF place
<1>5. place \in Injection(B, 1..n)
  <2>1. ASSUME NEW a \in B, NEW b \in B, place[a] = place[b]
        PROVE  a = b
    <3>1. place[a] \in Int /\ a \in Int /\ b \in Int
      BY <1>4
    <3>2. ~(a < b) /\ ~(b < a)
      BY <1>4, <2>1, <3>1
    <3>. QED
      BY <3>1, <3>2
  <2>2. DOMAIN place = B
    BY <1>4
  <2>. QED
    BY <1>4, <2>1, <2>2 DEF Injection, IsInjective
<1>6. \A i \in 1..n : \E b \in B : place[b] = i
  <2>1. IsFiniteSet(1..n) /\ Cardinality(1..n) = n
    BY FS_Interval
  <2>2. place \in Surjection(B, 1..n)
    BY <1>1, <1>5, <2>1, FS_Injection
  <2>. QED
    BY <2>2 DEF Surjection
<1> DEFINE s == [i \in 1..n |-> CHOOSE b \in B : place[b] = i]
<1>7. s \in [1..n -> B] /\ \A i \in 1..n : place[s[i]] = i
  BY <1>6
<1>8. ASSUME NEW i \in 1..n, NEW j \in 1..n, i < j
      PROVE  s[i] < s[j]
  <2>1. s[i] \in B /\ s[j] \in B /\ place[s[i]] = i /\ place[s[j]] = j
    BY <1>7
  <2> HIDE DEF s
  <2> DEFINE x == s[i]
             y == s[j]
  <2>2. x \in B /\ y \in B /\ place[x] = i /\ place[y] = j
    BY <2>1
  <2> HIDE DEF x, y
  <2>3. x \in Int /\ y \in Int
    BY <2>2
  <2>4. ~(y < x)
    <3>1. SUFFICES ASSUME y < x
                   PROVE  FALSE
      OBVIOUS
    <3>2. place[y] < place[x]
      BY <1>4, <2>2, <3>1
    <3>. QED
      BY <1>8, <2>2, <3>2
  <2>5. x # y
    BY <1>8, <2>2
  <2>6. x < y
    BY <2>3, <2>4, <2>5
  <2>. QED
    BY <2>6 DEF x, y
<1>. QED
  BY <1>7, <1>8 DEF Increasing

Places(cl) == 1..Len(Connections(cl))

(* The connections of a client are the databases in the order of the urls.  *)
LEMMA ConnectionsLemma ==
  ASSUME NEW cl \in Client
  PROVE  /\ Len(Connections(cl)) \in Nat \ {0}
         /\ \A i \in Places(cl) : Connections(cl)[i] \in Backend
         /\ \A b \in Backend : \E i \in Places(cl) : Connections(cl)[i] = b
         /\ \A i, j \in Places(cl) : i < j => Connections(cl)[i] < Connections(cl)[j]
<1> DEFINE u == UrlList[cl]
           n == Len(u)
           s == Connections(cl)
<1>1. u \in Seq(Backend) /\ Range(u) = Backend /\ IsInjective(u)
  BY UrlListAssumption
<1>2. n \in Nat /\ DOMAIN u = 1..n /\ u \in [1..n -> Backend]
  BY <1>1
<1>3. \A b \in Backend : \E i \in 1..n : u[i] = b
  BY <1>1, <1>2 DEF Range
<1>4. Backend \in SUBSET Int /\ Backend # {}
  BY BackendAssumption
<1>5. \E t \in [1..n -> Backend] : Increasing(t)
  BY <1>1, <1>2, <1>3, <1>4, SortLemma
<1>6. s \in [1..n -> Backend] /\ Increasing(s)
  BY <1>1, <1>2, <1>5 DEF Connections, Sorted
<1> HIDE DEF s
<1>7. DOMAIN s = 1..n /\ Len(s) = n
  BY <1>2, <1>6
<1>8. n # 0
  <2>1. PICK b \in Backend : TRUE
    BY <1>4
  <2>2. PICK i \in 1..n : u[i] = b
    BY <1>3, <2>1
  <2>. QED
    BY <1>2, <2>2
<1>9. s \in Injection(1..n, Backend)
  <2>1. ASSUME NEW i \in 1..n, NEW j \in 1..n, s[i] = s[j]
        PROVE  i = j
    <3>1. s[i] \in Int /\ s[j] \in Int
      BY <1>4, <1>6
    <3>2. ~(i < j) /\ ~(j < i)
      BY <1>6, <1>7, <2>1, <3>1 DEF Increasing
    <3>. QED
      BY <3>2, <1>2
  <2>. QED
    BY <1>6, <1>7, <2>1 DEF Injection, IsInjective
<1>10. s \in Surjection(1..n, Backend)
  <2>1. u \in Bijection(1..n, Backend)
    BY <1>1, <1>2, <1>3 DEF Bijection, Injection, Surjection
  <2>2. IsFiniteSet(Backend) /\ Cardinality(Backend) = n
    BY <1>2, <2>1, FS_NatBijection, FS_CountingElements DEF ExistsBijection
  <2>3. IsFiniteSet(1..n) /\ Cardinality(1..n) = n
    BY <1>2, FS_Interval
  <2>. QED
    BY <1>9, <2>2, <2>3, FS_Injection
<1>. QED
  BY <1>2, <1>6, <1>7, <1>8, <1>10 DEF Places, s, Surjection, Increasing

(* What the loops need to know of a position.                               *)
LEMMA AtLemma ==
  ASSUME NEW cl \in Client, NEW i \in Places(cl)
  PROVE  /\ Connections(cl)[i] \in Backend
         /\ i = 1 => \A b \in Backend : ~(b < Connections(cl)[i])
         /\ i = Len(Connections(cl)) => \A b \in Backend : ~(Connections(cl)[i] < b)
         /\ i # Len(Connections(cl)) =>
               /\ i + 1 \in Places(cl)
               /\ \A b \in Backend : b < Connections(cl)[i + 1] <=>
                                     b < Connections(cl)[i] \/ b = Connections(cl)[i]
               /\ \E b \in Backend : Connections(cl)[i] < b
<1> DEFINE s == Connections(cl)
           n == Len(s)
<1>1. /\ n \in Nat \ {0}
      /\ \A j \in 1..n : s[j] \in Backend /\ s[j] \in Int
      /\ \A b \in Backend : b \in Int /\ \E j \in 1..n : s[j] = b
      /\ \A j, k \in 1..n : j < k => s[j] < s[k]
  BY ConnectionsLemma, BackendAssumption DEF Places
<1>2. i \in 1..n
  BY DEF Places
<1> HIDE DEF s, n
<1>3. i = 1 => \A b \in Backend : ~(b < s[i])
  BY <1>1, <1>2
<1>4. i = n => \A b \in Backend : ~(s[i] < b)
  BY <1>1, <1>2
<1>5. ASSUME i # n
      PROVE  /\ i + 1 \in 1..n
             /\ \A b \in Backend : b < s[i + 1] <=> b < s[i] \/ b = s[i]
             /\ \E b \in Backend : s[i] < b
  <2>1. i + 1 \in 1..n
    BY <1>1, <1>2, <1>5
  <2>2. s[i] < s[i + 1] /\ s[i + 1] \in Backend
    BY <1>1, <1>2, <2>1
  <2>3. ASSUME NEW b \in Backend
        PROVE  b < s[i + 1] <=> b < s[i] \/ b = s[i]
    <3>1. PICK j \in 1..n : s[j] = b
      BY <1>1
    <3>2. j < i \/ j = i \/ j = i + 1 \/ i + 1 < j
      BY <1>1, <1>2
    <3>3. CASE j < i
      BY <1>1, <1>2, <2>1, <2>2, <3>1, <3>3
    <3>4. CASE j = i
      BY <1>1, <1>2, <2>1, <2>2, <3>1, <3>4
    <3>5. CASE j = i + 1
      BY <1>1, <1>2, <2>1, <2>2, <3>1, <3>5
    <3>6. CASE i + 1 < j
      BY <1>1, <1>2, <2>1, <2>2, <3>1, <3>6
    <3>. QED
      BY <3>2, <3>3, <3>4, <3>5, <3>6
  <2>. QED
    BY <2>1, <2>2, <2>3
<1>. QED
  BY <1>1, <1>2, <1>3, <1>4, <1>5 DEF s, n, Places

-------------------------------------------------------------------------------
(* The invariant                                                            *)

(* Only statements fail, outside of the transactions the programs begin     *)
(* themselves; begin reaches the database.                                  *)
OnlyStatementsFail ==
    /\ LazyBegin = FALSE
    /\ Faults[FALSE] \subseteq {"statement"}
    /\ Faults[TRUE] = {}

Loop == {"begin", "exec", "commit", "rollback"}

Shapes ==
    /\ immediate \in SUBSET Backend
    /\ pc \in [Client -> Loop \cup {"idle"}]
    /\ pos \in [Client -> Nat]
    /\ stmt \in [Client -> Work \cup {NoWork}]
    /\ inTxn \in [Client -> BOOLEAN]
    /\ sess \in [Client -> [Backend -> Session]]
    /\ pend \in [Client -> [Backend -> Seq(Work)]]
    /\ log \in [Backend -> Seq(Work)]
    /\ lock \in [Backend -> Client \cup {NoClient}]
    /\ unused \in SUBSET Work
    /\ threw \in SUBSET Work
    /\ returned \in SUBSET Work
    /\ txns \in [Client -> Nat]

(* execute() is called inside of a transaction of the program's own.        *)
Inner(cl) == inTxn[cl] /\ stmt[cl] # NoWork

(* The counter of a client's session, and that session.                     *)
Depth(cl, b) ==
    IF pc[cl] = "idle" THEN IF inTxn[cl] THEN 1 ELSE 0
    ELSE (IF Inner(cl) THEN 1 ELSE 0)
         + (IF pc[cl] = "exec" \/ (pc[cl] = "begin" <=> b < At(cl)) THEN 1 ELSE 0)
Counted(d) == [up |-> TRUE, depth |-> d, open |-> d > 0]

Control(cl) ==
    /\ pos[cl] \in Places(cl)
    /\ pc[cl] = "idle" => stmt[cl] = NoWork
    /\ pc[cl] = "begin" => stmt[cl] # NoWork \/ ~inTxn[cl]
    /\ pc[cl] = "exec" => stmt[cl] # NoWork
    /\ pc[cl] = "commit" => stmt[cl] # NoWork \/ inTxn[cl]
    /\ pc[cl] = "rollback" => (stmt[cl] = NoWork <=> inTxn[cl])
    /\ \A b \in Backend : sess[cl][b] = Counted(Depth(cl, b))

(* The last database in the order of the urls.                              *)
Final == CHOOSE b \in Backend : \A x \in Backend : ~(b < x)

(* What a session has modified: the same at all databases, but for the      *)
(* loop a client is in.                                                     *)
Base(cl) == pend[cl][Final]
Modified(cl) ==
    /\ pc[cl] \in {"idle", "begin"} \/ (pc[cl] = "commit" /\ Inner(cl)) =>
          \A b \in Backend : pend[cl][b] = Base(cl)
    /\ pc[cl] = "exec" =>
          \A b \in Backend :
              pend[cl][b] = IF b < At(cl) THEN Append(Base(cl), stmt[cl]) ELSE Base(cl)
    /\ pc[cl] = "commit" /\ ~Inner(cl) =>
          \A b \in Backend : pend[cl][b] = IF b < At(cl) THEN <<>> ELSE Base(cl)
    /\ pc[cl] = "rollback" => \A b \in Backend : b < At(cl) => pend[cl][b] = <<>>
    /\ pc[cl] \in {"idle", "begin", "exec"} /\ ~inTxn[cl] => Base(cl) = <<>>

(* Who has a database's lock: who modified it, and at one that locks when a *)
(* transaction begins, who is in one.                                       *)
Locks(cl) ==
    \A b \in Backend :
        /\ pend[cl][b] # <<>> => lock[b] = cl
        /\ b \in immediate /\ Depth(cl, b) > 0 => lock[b] = cl
        /\ lock[b] = cl => Depth(cl, b) > 0 /\ (b \in immediate \/ pend[cl][b] # <<>>)

(* A statement is unused, or a client's, or was committed, or threw.        *)
Mine(cl) == {w \in Work : w = stmt[cl] \/ \E b \in Backend : w \in Range(pend[cl][b])}
Logged == {w \in Work : \E b \in Backend : w \in Range(log[b])}
Owned ==
    /\ \A cl \in Client : Mine(cl) \cap unused = {} /\ Mine(cl) \cap threw = {}
    /\ \A c, d \in Client : c # d => Mine(c) \cap Mine(d) = {}
    /\ Logged \cap unused = {} /\ Logged \cap threw = {}
    /\ unused \cap threw = {}
    /\ \A cl \in Client :
          pc[cl] \in {"begin", "exec", "rollback"} => stmt[cl] \notin Logged

(* A statement being committed is already in the logs of the databases the  *)
(* loop has passed.                                                         *)
Arriving ==
    \A cl \in Client : pc[cl] = "commit" /\ ~inTxn[cl] =>
        \A b \in Backend :
            IF b < At(cl) THEN stmt[cl] \in Range(log[b]) ELSE stmt[cl] \in Range(pend[cl][b])

(* Who is committing, and how much further the databases are it has passed. *)
Committing(cl) == pc[cl] = "commit" /\ ~Inner(cl) /\ Base(cl) # <<>>
InStep ==
    /\ \A cl \in Client : Committing(cl) =>
          \A b \in Backend :
              log[b] = IF b < At(cl) THEN log[Final] \o Base(cl) ELSE log[Final]
    /\ (\A cl \in Client : ~Committing(cl)) => \A a, b \in Backend : log[a] = log[b]

-------------------------------------------------------------------------------
(* What a step changes                                                      *)

OthersKeep(cl) ==
    \A c \in Client \ {cl} :
        /\ pc'[c] = pc[c] /\ pos'[c] = pos[c]
        /\ stmt'[c] = stmt[c] /\ inTxn'[c] = inTxn[c]
        /\ sess'[c] = sess[c] /\ pend'[c] = pend[c]

Turns(cl) ==
    /\ ~AtEnd(cl)
    /\ pc'[cl] = pc[cl] /\ pos'[cl] = pos[cl] + 1
    /\ stmt'[cl] = stmt[cl] /\ inTxn'[cl] = inTxn[cl]
    /\ threw' = threw /\ returned' = returned
Enters(cl, loop) ==
    /\ pc'[cl] = loop /\ pos'[cl] = 1
    /\ stmt'[cl] = stmt[cl] /\ inTxn'[cl] = inTxn[cl]
    /\ threw' = threw /\ returned' = returned
Ends(cl, txn) ==
    /\ pc'[cl] = "idle" /\ pos'[cl] = 1
    /\ stmt'[cl] = NoWork /\ inTxn'[cl] = txn

(* Only a statement throws, and no program is in a transaction then.        *)
LEMMA ThrowLemma ==
  ASSUME OnlyStatementsFail, Shapes, NEW cl \in Client, NEW call, MayThrow(cl, call)
  PROVE  call = "statement" /\ ~inTxn[cl]
BY DEF OnlyStatementsFail, Shapes, MayThrow

LEMMA FinishLemma ==
  ASSUME Shapes, NEW cl \in Client, NEW txn \in BOOLEAN, NEW thrown \in BOOLEAN,
         Finish(cl, txn, thrown)
  PROVE  /\ Ends(cl, txn)
         /\ pc' \in [Client -> Loop \cup {"idle"}] /\ pos' \in [Client -> Nat]
         /\ stmt' \in [Client -> Work \cup {NoWork}] /\ inTxn' \in [Client -> BOOLEAN]
         /\ threw' \in SUBSET Work /\ returned' \in SUBSET Work
         /\ \A c \in Client \ {cl} : pc'[c] = pc[c] /\ pos'[c] = pos[c]
                                     /\ stmt'[c] = stmt[c] /\ inTxn'[c] = inTxn[c]
         /\ threw' = IF thrown THEN threw \cup ({stmt[cl]} \ {NoWork}) ELSE threw
         /\ returned' = IF thrown \/ inTxn[cl] THEN returned
                        ELSE returned \cup ({stmt[cl]} \ {NoWork})
<1>1. /\ pc' = [pc EXCEPT ![cl] = "idle"] /\ pos' = [pos EXCEPT ![cl] = 1]
      /\ stmt' = [stmt EXCEPT ![cl] = NoWork] /\ inTxn' = [inTxn EXCEPT ![cl] = txn]
      /\ threw' = IF thrown THEN threw \cup ({stmt[cl]} \ {NoWork}) ELSE threw
      /\ returned' = IF thrown \/ inTxn[cl] THEN returned
                     ELSE returned \cup ({stmt[cl]} \ {NoWork})
  BY DEF Finish, StartLoop
<1>2. /\ pc \in [Client -> Loop \cup {"idle"}] /\ pos \in [Client -> Nat]
      /\ stmt \in [Client -> Work \cup {NoWork}] /\ inTxn \in [Client -> BOOLEAN]
      /\ threw \in SUBSET Work /\ returned \in SUBSET Work
  BY DEF Shapes
<1>3. {stmt[cl]} \ {NoWork} \in SUBSET Work
  BY <1>2
<1>. QED
  BY <1>1, <1>2, <1>3 DEF Ends

LEMMA LoopLemma ==
  ASSUME Shapes, NEW cl \in Client, NEW loop \in Loop, StartLoop(cl, loop)
  PROVE  /\ pc'[cl] = loop /\ pos'[cl] = 1
         /\ pc' \in [Client -> Loop \cup {"idle"}] /\ pos' \in [Client -> Nat]
         /\ \A c \in Client \ {cl} : pc'[c] = pc[c] /\ pos'[c] = pos[c]
BY DEF Shapes, StartLoop

LEMMA AdvanceLemma ==
  ASSUME Shapes, NEW cl \in Client, ~AtEnd(cl), Advance(cl)
  PROVE  /\ Turns(cl)
         /\ pc' = pc /\ pos' \in [Client -> Nat] /\ stmt' = stmt /\ inTxn' = inTxn
         /\ \A c \in Client \ {cl} : pos'[c] = pos[c]
BY DEF Shapes, Advance, Turns

LEMMA SameSession ==
  ASSUME NEW s \in Session, NEW t \in Session,
         s.up = t.up, s.depth = t.depth, s.open <=> t.open
  PROVE  s = t
<1>1. s.open \in BOOLEAN /\ t.open \in BOOLEAN
  BY DEF Session
<1>2. s.open = t.open
  BY <1>1
<1>. QED
  BY <1>2 DEF Session

LEMMA CountedLemma ==
  ASSUME NEW d \in Nat
  PROVE  /\ Counted(d) \in Session
         /\ Counted(d).depth = d /\ Counted(d).up = TRUE
         /\ Counted(d).open <=> d > 0
<1> DEFINE o == d > 0
<1>1. o \in BOOLEAN
  OBVIOUS
<1>2. Counted(d) = [up |-> TRUE, depth |-> d, open |-> o]
  BY DEF Counted
<1> HIDE DEF o
<1>3. /\ Counted(d) \in Session
      /\ Counted(d).depth = d /\ Counted(d).up = TRUE /\ Counted(d).open = o
  BY <1>1, <1>2 DEF Session
<1>4. Counted(d).open <=> o
  BY <1>1, <1>3
<1>. QED
  BY <1>3, <1>4 DEF o

LEMMA CountUpLemma ==
  ASSUME NEW d \in Nat, LazyBegin = FALSE
  PROVE  Begun(Counted(d), TRUE) = Counted(d + 1)
<1> DEFINE s == Counted(d)
           o == s.open \/ TellsBegin(s)
           t == Begun(s, TRUE)
<1>1. s \in Session /\ s.depth = d /\ s.up = TRUE /\ (s.open <=> d > 0)
  BY CountedLemma
<1> HIDE DEF s
<1>2. o
  BY <1>1 DEF TellsBegin
<1>3. t \in Session /\ t.depth = d + 1 /\ t.up = TRUE
  <2>1. BeginMay(s, TRUE)
    BY <1>1 DEF BeginMay
  <2>. QED
    BY <1>1, <2>1, BeginLemma
<1>4. t.open <=> o
  <2>1. t = [s EXCEPT !.depth = @ + 1, !.open = o]
    BY DEF Begun
  <2>2. o \in BOOLEAN
    BY <1>1 DEF Session
  <2> HIDE DEF o, t
  <2>3. t.open = o
    BY <1>1, <2>1, <2>2 DEF Session
  <2>. QED
    BY <2>2, <2>3
<1> HIDE DEF t, o
<1>5. /\ Counted(d + 1) \in Session /\ Counted(d + 1).depth = d + 1
      /\ Counted(d + 1).up = TRUE /\ Counted(d + 1).open
  <2>1. d + 1 \in Nat /\ d + 1 > 0
    OBVIOUS
  <2>. QED
    BY <2>1, CountedLemma
<1>6. t = Counted(d + 1)
  BY <1>2, <1>3, <1>4, <1>5, SameSession
<1>. QED
  BY <1>6 DEF s, t

LEMMA CountDownLemma ==
  ASSUME NEW d \in Nat, d > 0, NEW pending \in BOOLEAN, EndMay(Counted(d), TRUE, pending)
  PROVE  (pending <=> d > 1) /\ Ended(Counted(d), pending) = Counted(d - 1)
<1> DEFINE s == Counted(d)
           t == Ended(s, pending)
<1>1. s \in Session /\ s.depth = d /\ s.up = TRUE /\ (s.open <=> d > 0)
  BY CountedLemma
<1>2. EndMay(s, TRUE, pending)
  BY Zenon
<1> HIDE DEF s
<1>3. CountDown(s) = d - 1
  BY <1>1 DEF CountDown
<1>4. pending <=> d - 1 > 0
  BY <1>1, <1>2, <1>3 DEF EndMay
<1>5. t \in Session /\ t.depth = d - 1 /\ t.up = TRUE /\ (t.open <=> pending)
  <2>1. \A ok \in BOOLEAN : EndMay(s, ok, pending) =>
           /\ Ended(s, pending) \in Session /\ Ended(s, pending).up = s.up
           /\ Ended(s, pending).open = pending /\ Ended(s, pending).depth = CountDown(s)
    BY <1>1, EndLemma
  <2>2. /\ t \in Session /\ t.up = s.up /\ t.open = pending /\ t.depth = CountDown(s)
    BY <1>2, <2>1, Zenon
  <2> HIDE DEF t
  <2>. QED
    BY <1>1, <1>3, <2>2
<1>6. /\ Counted(d - 1) \in Session /\ Counted(d - 1).depth = d - 1
      /\ Counted(d - 1).up = TRUE /\ (Counted(d - 1).open <=> pending)
  <2>1. d - 1 \in Nat
    OBVIOUS
  <2>. QED
    BY <1>4, <2>1, CountedLemma
<1> HIDE DEF t
<1>7. t = Counted(d - 1)
  BY <1>5, <1>6, SameSession
<1>. QED
  BY <1>4, <1>7 DEF s, t

LEMMA DepthLemma ==
  ASSUME NEW cl, NEW b
  PROVE  Depth(cl, b) \in 0..2
BY DEF Depth

(* The place of a loop.                                                     *)
LEMMA PlaceLemma ==
  ASSUME NEW cl \in Client, pos[cl] \in Places(cl)
  PROVE  /\ At(cl) \in Backend
         /\ Final \in Backend /\ \A b \in Backend : b \in Int /\ ~(Final < b)
         /\ pos[cl] = 1 => \A b \in Backend : ~(b < At(cl))
         /\ AtEnd(cl) <=> At(cl) = Final
         /\ AtEnd(cl) => \A b \in Backend : b # At(cl) => b < At(cl)
<1> DEFINE n == Len(Connections(cl))
           last == Connections(cl)[n]
<1>1. n \in Nat \ {0} /\ n \in Places(cl)
  BY ConnectionsLemma DEF Places
<1>2. last \in Backend /\ \A b \in Backend : ~(last < b)
  BY <1>1, AtLemma
<1>3. Final \in Backend /\ \A b \in Backend : ~(Final < b)
  BY <1>2 DEF Final
<1>4. \A b \in Backend : b \in Int
  BY BackendAssumption
<1>5. Final = last
  <2> HIDE DEF last
  <2>1. ~(Final < last) /\ ~(last < Final) /\ Final \in Int /\ last \in Int
    BY <1>2, <1>3, <1>4
  <2>. QED
    BY <2>1
<1>6. /\ At(cl) \in Backend
      /\ pos[cl] = 1 => \A b \in Backend : ~(b < At(cl))
      /\ pos[cl] # n => \E b \in Backend : At(cl) < b
  BY AtLemma DEF At
<1>7. AtEnd(cl) <=> pos[cl] = n
  BY DEF AtEnd
<1>8. AtEnd(cl) => At(cl) = Final
  BY <1>5, <1>7 DEF At
<1>9. At(cl) = Final => AtEnd(cl)
  BY <1>3, <1>6, <1>7
<1>10. ASSUME AtEnd(cl), NEW b \in Backend, b # At(cl)
       PROVE  b < At(cl)
  <2>1. b \in Int /\ At(cl) \in Int /\ ~(At(cl) < b)
    BY <1>3, <1>4, <1>6, <1>8, <1>10
  <2>. QED
    BY <1>10, <2>1
<1>. QED
  BY <1>3, <1>4, <1>6, <1>8, <1>9, <1>10

(* One turn of a loop passes one database.                                  *)
LEMMA PassLemma ==
  ASSUME NEW cl \in Client, pos[cl] \in Places(cl), ~AtEnd(cl), pos'[cl] = pos[cl] + 1
  PROVE  /\ pos'[cl] \in Places(cl)
         /\ \A b \in Backend : b < At(cl)' <=> b < At(cl) \/ b = At(cl)
BY AtLemma DEF AtEnd, At

(* A loop starts with the first database.                                   *)
LEMMA StartLemma ==
  ASSUME NEW cl \in Client, pos'[cl] = 1
  PROVE  /\ pos'[cl] \in Places(cl)
         /\ \A b \in Backend : ~(b < At(cl)')
<1>1. 1 \in Places(cl)
  BY ConnectionsLemma DEF Places
<1>. QED
  BY <1>1, AtLemma DEF At

LEMMA OthersLemma ==
  ASSUME NEW cl \in Client, OthersKeep(cl), NEW c \in Client, c # cl
  PROVE  /\ At(c)' = At(c) /\ Inner(c)' = (Inner(c)) /\ Base(c)' = Base(c)
         /\ \A b : Depth(c, b)' = Depth(c, b)
         /\ Control(c) => Control(c)'
         /\ Modified(c) => Modified(c)'
<1>1. /\ pc'[c] = pc[c] /\ pos'[c] = pos[c] /\ stmt'[c] = stmt[c]
      /\ inTxn'[c] = inTxn[c] /\ sess'[c] = sess[c] /\ pend'[c] = pend[c]
  BY DEF OthersKeep
<1>2. At(c)' = At(c) /\ Inner(c)' = (Inner(c)) /\ Base(c)' = Base(c)
  BY <1>1 DEF At, Inner, Base
<1>3. \A b : Depth(c, b)' = Depth(c, b)
  BY <1>1, <1>2 DEF Depth
<1>4. Control(c) => Control(c)'
  BY <1>1, <1>3 DEF Control
<1>5. Modified(c) => Modified(c)'
  BY <1>1, <1>2 DEF Modified
<1>. QED
  BY <1>2, <1>3, <1>4, <1>5

(* A call of the client's: execute(), or one of a Transaction object.       *)
LEMMA CallLemma ==
  ASSUME Shapes, NEW cl \in Client,
         \/ \E w \in Work : Execute(cl, w)
         \/ ExplicitBegin(cl) \/ ExplicitEnd(cl)
  PROVE  /\ Shapes' /\ OthersKeep(cl)
         /\ sess' = sess /\ pend' = pend /\ log' = log /\ lock' = lock
         /\ threw' = threw /\ returned' = returned /\ immediate' = immediate
         /\ pc[cl] = "idle" /\ pos'[cl] = 1 /\ inTxn'[cl] = inTxn[cl]
         /\ \/ /\ pc'[cl] = "begin" /\ stmt'[cl] \in unused
               /\ unused' = unused \ {stmt'[cl]}
            \/ pc'[cl] = "begin" /\ stmt'[cl] = stmt[cl] /\ ~inTxn[cl] /\ unused' = unused
            \/ /\ pc'[cl] \in {"commit", "rollback"}
               /\ stmt'[cl] = stmt[cl] /\ inTxn[cl] /\ unused' = unused
<1>1. CASE \E w \in Work : Execute(cl, w)
  <2>1. PICK w \in Work : Execute(cl, w)
    BY <1>1
  <2>2. StartLoop(cl, "begin") /\ "begin" \in Loop
    BY <2>1 DEF Execute, Loop
  <2>3. /\ pc'[cl] = "begin" /\ pos'[cl] = 1
        /\ pc' \in [Client -> Loop \cup {"idle"}] /\ pos' \in [Client -> Nat]
        /\ \A c \in Client \ {cl} : pc'[c] = pc[c] /\ pos'[c] = pos[c]
    BY <2>2, LoopLemma
  <2>4. /\ pc[cl] = "idle" /\ w \in unused /\ stmt' = [stmt EXCEPT ![cl] = w]
        /\ unused' = unused \ {w}
        /\ UNCHANGED <<immediate, inTxn, sess, pend, log, lock, threw, returned, txns>>
    BY <2>1 DEF Execute
  <2>5. /\ stmt' \in [Client -> Work \cup {NoWork}] /\ stmt'[cl] = w
        /\ \A c \in Client \ {cl} : stmt'[c] = stmt[c]
    BY <2>4 DEF Shapes
  <2>6. OthersKeep(cl)
    BY <2>3, <2>4, <2>5 DEF OthersKeep
  <2>7. Shapes'
    BY <2>3, <2>4, <2>5 DEF Shapes
  <2>. QED
    BY <2>3, <2>4, <2>5, <2>6, <2>7
<1>2. CASE ExplicitBegin(cl)
  <2>1. StartLoop(cl, "begin") /\ "begin" \in Loop
    BY <1>2 DEF ExplicitBegin, Loop
  <2>2. /\ pc'[cl] = "begin" /\ pos'[cl] = 1
        /\ pc' \in [Client -> Loop \cup {"idle"}] /\ pos' \in [Client -> Nat]
        /\ \A c \in Client \ {cl} : pc'[c] = pc[c] /\ pos'[c] = pos[c]
    BY <2>1, LoopLemma
  <2>3. /\ pc[cl] = "idle" /\ ~inTxn[cl] /\ txns' = [txns EXCEPT ![cl] = @ + 1]
        /\ UNCHANGED <<immediate, stmt, inTxn, sess, pend, log, lock, unused, threw, returned>>
    BY <1>2 DEF ExplicitBegin
  <2>4. OthersKeep(cl)
    BY <2>2, <2>3 DEF OthersKeep
  <2>5. Shapes'
    BY <2>2, <2>3 DEF Shapes
  <2>. QED
    BY <2>2, <2>3, <2>4, <2>5
<1>3. CASE ExplicitEnd(cl)
  <2>1. PICK loop \in {"commit", "rollback"} : StartLoop(cl, loop)
    BY <1>3 DEF ExplicitEnd
  <2>2. /\ pc'[cl] = loop /\ pos'[cl] = 1
        /\ pc' \in [Client -> Loop \cup {"idle"}] /\ pos' \in [Client -> Nat]
        /\ \A c \in Client \ {cl} : pc'[c] = pc[c] /\ pos'[c] = pos[c]
    BY <2>1, LoopLemma DEF Loop
  <2>3. /\ pc[cl] = "idle" /\ inTxn[cl]
        /\ UNCHANGED <<immediate, stmt, inTxn, sess, pend, log, lock, unused, threw,
                       returned, txns>>
    BY <1>3 DEF ExplicitEnd
  <2>4. OthersKeep(cl)
    BY <2>2, <2>3 DEF OthersKeep
  <2>5. Shapes'
    BY <2>2, <2>3 DEF Shapes
  <2>. QED
    BY <2>1, <2>2, <2>3, <2>4, <2>5
<1>. QED
  BY <1>1, <1>2, <1>3

LEMMA BeginStep ==
  ASSUME OnlyStatementsFail, Shapes, NEW cl \in Client, Control(cl), BeginOne(cl)
  PROVE  /\ Shapes' /\ OthersKeep(cl)
         /\ pc[cl] = "begin"
         /\ pend' = pend /\ log' = log /\ unused' = unused /\ immediate' = immediate
         /\ threw' = threw /\ returned' = returned
         /\ \A b \in Backend :
               sess'[cl][b] = IF b = At(cl) THEN Counted(Depth(cl, b) + 1) ELSE sess[cl][b]
         /\ At(cl) \in immediate => LockFree(cl, At(cl))
         /\ \A b \in Backend :
               lock'[b] = IF b = At(cl) /\ b \in immediate THEN cl ELSE lock[b]
         /\ \/ Turns(cl)
            \/ AtEnd(cl) /\ stmt[cl] = NoWork /\ Ends(cl, TRUE)
            \/ AtEnd(cl) /\ stmt[cl] # NoWork /\ Enters(cl, "exec")
<1> DEFINE b == At(cl)
<1>1. b \in Backend /\ pos[cl] \in Places(cl)
  BY PlaceLemma DEF Control
<1>2. ~MayThrow(cl, "begin")
  BY ThrowLemma
<1>3. /\ pc[cl] = "begin"
      /\ b \in immediate => LockFree(cl, b)
      /\ sess' = [sess EXCEPT ![cl][b] = Begun(@, TRUE)]
      /\ lock' = IF b \in immediate THEN [lock EXCEPT ![b] = cl] ELSE lock
      /\ UNCHANGED <<immediate, pend, log, unused, txns>>
  BY <1>2 DEF BeginOne
<1>4. \/ ~AtEnd(cl) /\ Advance(cl)
      \/ AtEnd(cl) /\ stmt[cl] = NoWork /\ Finish(cl, TRUE, FALSE)
      \/ /\ AtEnd(cl) /\ stmt[cl] # NoWork /\ StartLoop(cl, "exec")
         /\ UNCHANGED <<stmt, inTxn, threw, returned>>
  BY <1>2 DEF BeginOne
<1>5. /\ sess \in [Client -> [Backend -> Session]]
      /\ lock \in [Backend -> Client \cup {NoClient}]
  BY DEF Shapes
<1>6. Begun(sess[cl][b], TRUE) = Counted(Depth(cl, b) + 1)
      /\ Counted(Depth(cl, b) + 1) \in Session
  <2>1. sess[cl][b] = Counted(Depth(cl, b)) /\ Depth(cl, b) \in Nat
    BY <1>1, DepthLemma DEF Control
  <2>2. LazyBegin = FALSE
    BY DEF OnlyStatementsFail
  <2>3. \A d \in Nat : Begun(Counted(d), TRUE) = Counted(d + 1)
                      /\ Counted(d + 1) \in Session
    <3>1. ASSUME NEW d \in Nat
          PROVE  Begun(Counted(d), TRUE) = Counted(d + 1)
      BY <2>2, CountUpLemma
    <3>2. ASSUME NEW d \in Nat
          PROVE  Counted(d + 1) \in Session
      <4>1. d + 1 \in Nat
        OBVIOUS
      <4>. QED
        BY <4>1, CountedLemma
    <3>. QED
      BY <3>1, <3>2
  <2>. QED
    BY <2>1, <2>3
<1>7. /\ sess' \in [Client -> [Backend -> Session]]
      /\ \A x \in Backend :
            sess'[cl][x] = IF x = b THEN Counted(Depth(cl, x) + 1) ELSE sess[cl][x]
      /\ \A c \in Client \ {cl} : sess'[c] = sess[c]
  <2>1. sess' = [sess EXCEPT ![cl] = [sess[cl] EXCEPT ![b] = Begun(sess[cl][b], TRUE)]]
    BY <1>3
  <2> HIDE DEF b
  <2>. QED
    BY <1>1, <1>5, <1>6, <2>1
<1>8. /\ lock' \in [Backend -> Client \cup {NoClient}]
      /\ \A x \in Backend : lock'[x] = IF x = b /\ x \in immediate THEN cl ELSE lock[x]
  BY <1>1, <1>3, <1>5
<1>9. CASE ~AtEnd(cl) /\ Advance(cl)
  <2>1. /\ Turns(cl)
        /\ pc' = pc /\ pos' \in [Client -> Nat] /\ stmt' = stmt /\ inTxn' = inTxn
        /\ \A c \in Client \ {cl} : pos'[c] = pos[c]
    BY <1>9, AdvanceLemma
  <2>2. threw' = threw /\ returned' = returned
    BY <2>1 DEF Turns
  <2>3. OthersKeep(cl)
    BY <1>3, <1>7, <2>1 DEF OthersKeep
  <2>4. Shapes'
    BY <1>3, <1>7, <1>8, <2>1, <2>2 DEF Shapes
  <2>. QED
    BY <1>3, <1>7, <1>8, <2>1, <2>2, <2>3, <2>4
<1>10. CASE AtEnd(cl) /\ stmt[cl] = NoWork /\ Finish(cl, TRUE, FALSE)
  <2>1. /\ Ends(cl, TRUE)
        /\ pc' \in [Client -> Loop \cup {"idle"}] /\ pos' \in [Client -> Nat]
        /\ stmt' \in [Client -> Work \cup {NoWork}] /\ inTxn' \in [Client -> BOOLEAN]
        /\ threw' \in SUBSET Work /\ returned' \in SUBSET Work
        /\ \A c \in Client \ {cl} : pc'[c] = pc[c] /\ pos'[c] = pos[c]
                                    /\ stmt'[c] = stmt[c] /\ inTxn'[c] = inTxn[c]
    BY <1>10, FinishLemma
  <2>2. threw' = threw /\ returned' = returned
    BY <1>10 DEF Finish
  <2>3. OthersKeep(cl)
    BY <1>3, <1>7, <2>1 DEF OthersKeep
  <2>4. Shapes'
    BY <1>3, <1>7, <1>8, <2>1 DEF Shapes
  <2>. QED
    BY <1>3, <1>7, <1>8, <1>10, <2>1, <2>2, <2>3, <2>4
<1>11. CASE /\ AtEnd(cl) /\ stmt[cl] # NoWork /\ StartLoop(cl, "exec")
            /\ UNCHANGED <<stmt, inTxn, threw, returned>>
  <2>1. /\ pc'[cl] = "exec" /\ pos'[cl] = 1
        /\ pc' \in [Client -> Loop \cup {"idle"}] /\ pos' \in [Client -> Nat]
        /\ \A c \in Client \ {cl} : pc'[c] = pc[c] /\ pos'[c] = pos[c]
    BY <1>11, LoopLemma DEF Loop
  <2>2. Enters(cl, "exec")
    BY <1>11, <2>1 DEF Enters
  <2>3. OthersKeep(cl)
    BY <1>3, <1>7, <1>11, <2>1 DEF OthersKeep
  <2>4. Shapes'
    BY <1>3, <1>7, <1>8, <1>11, <2>1 DEF Shapes
  <2>. QED
    BY <1>3, <1>7, <1>8, <1>11, <2>2, <2>3, <2>4
<1>. QED
  BY <1>4, <1>9, <1>10, <1>11

LEMMA ExecStep ==
  ASSUME OnlyStatementsFail, Shapes, NEW cl \in Client, Control(cl), ExecOne(cl)
  PROVE  /\ Shapes' /\ OthersKeep(cl)
         /\ pc[cl] = "exec"
         /\ sess' = sess /\ log' = log /\ unused' = unused /\ immediate' = immediate
         /\ threw' = threw /\ returned' = returned
         /\ \/ /\ LockFree(cl, At(cl))
               /\ \A b \in Backend : lock'[b] = IF b = At(cl) THEN cl ELSE lock[b]
               /\ \A b \in Backend :
                     pend'[cl][b] = IF b = At(cl) THEN Append(pend[cl][b], stmt[cl])
                                    ELSE pend[cl][b]
               /\ Turns(cl) \/ (AtEnd(cl) /\ Enters(cl, "commit"))
            \/ ~inTxn[cl] /\ lock' = lock /\ pend' = pend /\ Enters(cl, "rollback")
<1> DEFINE b == At(cl)
<1>1. b \in Backend /\ pos[cl] \in Places(cl)
  BY PlaceLemma DEF Control
<1>2. /\ pc[cl] = "exec" /\ stmt[cl] \in Work
      /\ UNCHANGED <<immediate, sess, log, unused, txns>>
  BY DEF ExecOne, Control, Shapes
<1>3. CASE /\ LockFree(cl, b)
           /\ lock' = [lock EXCEPT ![b] = cl]
           /\ pend' = [pend EXCEPT ![cl][b] = Append(@, stmt[cl])]
           /\ IF ~AtEnd(cl)
              THEN Advance(cl)
              ELSE StartLoop(cl, "commit") /\ UNCHANGED <<stmt, inTxn, threw, returned>>
  <2>1. /\ pend \in [Client -> [Backend -> Seq(Work)]]
        /\ lock \in [Backend -> Client \cup {NoClient}]
    BY DEF Shapes
  <2>2. /\ lock' \in [Backend -> Client \cup {NoClient}]
        /\ \A x \in Backend : lock'[x] = IF x = b THEN cl ELSE lock[x]
    BY <1>1, <1>3, <2>1
  <2>3. Append(pend[cl][b], stmt[cl]) \in Seq(Work)
    BY <1>1, <1>2, <2>1
  <2>4. /\ pend' \in [Client -> [Backend -> Seq(Work)]]
        /\ \A x \in Backend :
              pend'[cl][x] = IF x = b THEN Append(pend[cl][x], stmt[cl]) ELSE pend[cl][x]
        /\ \A c \in Client \ {cl} : pend'[c] = pend[c]
    <3>1. pend' = [pend EXCEPT ![cl] = [pend[cl] EXCEPT ![b] = Append(pend[cl][b], stmt[cl])]]
      BY <1>3
    <3> HIDE DEF b
    <3>. QED
      BY <1>1, <2>1, <2>3, <3>1
  <2>5. CASE ~AtEnd(cl)
    <3>1. /\ Turns(cl)
          /\ pc' = pc /\ pos' \in [Client -> Nat] /\ stmt' = stmt /\ inTxn' = inTxn
          /\ \A c \in Client \ {cl} : pos'[c] = pos[c]
      BY <1>3, <2>5, AdvanceLemma
    <3>2. threw' = threw /\ returned' = returned
      BY <3>1 DEF Turns
    <3>3. OthersKeep(cl)
      BY <1>2, <2>4, <3>1 DEF OthersKeep
    <3>4. Shapes'
      BY <1>2, <2>2, <2>4, <3>1, <3>2 DEF Shapes
    <3>. QED
      BY <1>2, <1>3, <2>2, <2>4, <3>1, <3>2, <3>3, <3>4
  <2>6. CASE AtEnd(cl)
    <3>1. /\ pc'[cl] = "commit" /\ pos'[cl] = 1
          /\ pc' \in [Client -> Loop \cup {"idle"}] /\ pos' \in [Client -> Nat]
          /\ \A c \in Client \ {cl} : pc'[c] = pc[c] /\ pos'[c] = pos[c]
      BY <1>3, <2>6, LoopLemma DEF Loop
    <3>2. UNCHANGED <<stmt, inTxn, threw, returned>> /\ Enters(cl, "commit")
      BY <1>3, <2>6, <3>1 DEF Enters
    <3>3. OthersKeep(cl)
      BY <1>2, <2>4, <3>1, <3>2 DEF OthersKeep
    <3>4. Shapes'
      BY <1>2, <2>2, <2>4, <3>1, <3>2 DEF Shapes
    <3>. QED
      BY <1>2, <1>3, <2>2, <2>4, <2>6, <3>2, <3>3, <3>4
  <2>. QED
    BY <2>5, <2>6
<1>4. CASE /\ MayThrow(cl, "statement")
           /\ StartLoop(cl, "rollback")
           /\ UNCHANGED <<lock, pend, stmt, inTxn, threw, returned>>
  <2>1. ~inTxn[cl]
    BY <1>4, ThrowLemma
  <2>2. /\ pc'[cl] = "rollback" /\ pos'[cl] = 1
        /\ pc' \in [Client -> Loop \cup {"idle"}] /\ pos' \in [Client -> Nat]
        /\ \A c \in Client \ {cl} : pc'[c] = pc[c] /\ pos'[c] = pos[c]
    BY <1>4, LoopLemma DEF Loop
  <2>3. Enters(cl, "rollback")
    BY <1>4, <2>2 DEF Enters
  <2>4. OthersKeep(cl)
    BY <1>2, <1>4, <2>2 DEF OthersKeep
  <2>5. Shapes'
    BY <1>2, <1>4, <2>2 DEF Shapes
  <2>. QED
    BY <1>2, <1>4, <2>1, <2>3, <2>4, <2>5
<1>. QED
  BY <1>3, <1>4 DEF ExecOne

(* A call that ends a transaction only counts inside of another one.        *)
LEMMA EndAtLemma ==
  ASSUME Shapes, NEW cl \in Client, Control(cl), pc[cl] \in {"commit", "rollback"},
         NEW pending \in BOOLEAN, EndAt(cl, At(cl), TRUE, pending)
  PROVE  /\ pending <=> Inner(cl)
         /\ sess' \in [Client -> [Backend -> Session]]
         /\ pend' \in [Client -> [Backend -> Seq(Work)]]
         /\ lock' \in [Backend -> Client \cup {NoClient}]
         /\ \A c \in Client \ {cl} : sess'[c] = sess[c] /\ pend'[c] = pend[c]
         /\ \A b \in Backend :
               /\ sess'[cl][b] = IF b = At(cl) THEN Counted(Depth(cl, b) - 1) ELSE sess[cl][b]
               /\ pend'[cl][b] = IF b = At(cl) /\ ~Inner(cl) THEN <<>> ELSE pend[cl][b]
               /\ lock'[b] = IF b = At(cl) /\ ~Inner(cl) /\ lock[b] = cl THEN NoClient
                             ELSE lock[b]
<1> DEFINE b == At(cl)
           d == Depth(cl, b)
<1>1. b \in Backend /\ b \in Int
  BY PlaceLemma DEF Control
<1>2. /\ EndMay(sess[cl][b], TRUE, pending)
      /\ sess' = [sess EXCEPT ![cl] = [sess[cl] EXCEPT ![b] = Ended(sess[cl][b], pending)]]
      /\ pend' = IF pending THEN pend ELSE [pend EXCEPT ![cl] = [pend[cl] EXCEPT ![b] = <<>>]]
      /\ lock' = IF pending \/ lock[b] # cl THEN lock ELSE [lock EXCEPT ![b] = NoClient]
  BY DEF EndAt
<1>3. /\ sess \in [Client -> [Backend -> Session]]
      /\ pend \in [Client -> [Backend -> Seq(Work)]]
      /\ lock \in [Backend -> Client \cup {NoClient}]
  BY DEF Shapes
<1>4. /\ d \in Nat /\ d > 0 /\ (d > 1 <=> Inner(cl))
  <2>1. ~(b < b)
    BY <1>1
  <2>. QED
    BY <2>1 DEF Depth
<1>5. sess[cl][b] = Counted(d)
  BY <1>1 DEF Control
<1>6. /\ pending <=> Inner(cl)
      /\ Ended(sess[cl][b], pending) = Counted(d - 1) /\ Counted(d - 1) \in Session
  <2> HIDE DEF d, b
  <2>1. \A e \in Nat : Counted(e) \in Session
    BY CountedLemma
  <2>2. d - 1 \in Nat
    BY <1>4
  <2>3. EndMay(Counted(d), TRUE, pending)
    BY <1>2, <1>5
  <2>4. (pending <=> d > 1) /\ Ended(Counted(d), pending) = Counted(d - 1)
    BY <1>4, <2>3, CountDownLemma
  <2>. QED
    BY <1>4, <1>5, <2>1, <2>2, <2>4
<1>7. /\ sess' \in [Client -> [Backend -> Session]]
      /\ \A c \in Client \ {cl} : sess'[c] = sess[c]
      /\ \A x \in Backend :
            sess'[cl][x] = IF x = b THEN Counted(Depth(cl, x) - 1) ELSE sess[cl][x]
  <2>1. /\ sess' \in [Client -> [Backend -> Session]]
        /\ \A c \in Client \ {cl} : sess'[c] = sess[c]
        /\ \A x \in Backend : sess'[cl][x] = IF x = b THEN Counted(d - 1) ELSE sess[cl][x]
    <3> HIDE DEF b, d
    <3>. QED
      BY <1>1, <1>2, <1>3, <1>6
  <2>. QED
    BY <2>1
<1> HIDE DEF d
<1>8. /\ pend' \in [Client -> [Backend -> Seq(Work)]]
      /\ \A c \in Client \ {cl} : pend'[c] = pend[c]
      /\ \A x \in Backend :
            pend'[cl][x] = IF x = b /\ ~Inner(cl) THEN <<>> ELSE pend[cl][x]
  <2>1. CASE Inner(cl)
    BY <1>2, <1>3, <1>6, <2>1
  <2>2. CASE ~Inner(cl)
    <3>1. pend' = [pend EXCEPT ![cl] = [pend[cl] EXCEPT ![b] = <<>>]] /\ <<>> \in Seq(Work)
      BY <1>2, <1>6, <2>2
    <3> HIDE DEF b
    <3>. QED
      BY <1>1, <1>3, <2>2, <3>1
  <2>. QED
    BY <2>1, <2>2
<1>9. /\ lock' \in [Backend -> Client \cup {NoClient}]
      /\ \A x \in Backend :
            lock'[x] = IF x = b /\ ~Inner(cl) /\ lock[x] = cl THEN NoClient ELSE lock[x]
  BY <1>1, <1>2, <1>3, <1>6
<1>. QED
  BY <1>6, <1>7, <1>8, <1>9

LEMMA CommitStep ==
  ASSUME OnlyStatementsFail, Shapes, NEW cl \in Client, Control(cl), CommitOne(cl)
  PROVE  /\ Shapes' /\ OthersKeep(cl)
         /\ pc[cl] = "commit"
         /\ unused' = unused /\ immediate' = immediate /\ threw' = threw
         /\ \A b \in Backend :
               /\ sess'[cl][b] = IF b = At(cl) THEN Counted(Depth(cl, b) - 1) ELSE sess[cl][b]
               /\ pend'[cl][b] = IF b = At(cl) /\ ~Inner(cl) THEN <<>> ELSE pend[cl][b]
               /\ lock'[b] = IF b = At(cl) /\ ~Inner(cl) /\ lock[b] = cl THEN NoClient
                             ELSE lock[b]
               /\ log'[b] = IF b = At(cl) /\ ~Inner(cl) THEN log[b] \o pend[cl][b]
                            ELSE log[b]
         /\ \/ Turns(cl)
            \/ /\ AtEnd(cl) /\ Ends(cl, Inner(cl))
               /\ returned' = IF inTxn[cl] THEN returned
                              ELSE returned \cup ({stmt[cl]} \ {NoWork})
<1> DEFINE b == At(cl)
<1>1. b \in Backend
  BY PlaceLemma DEF Control
<1>2. ~MayThrow(cl, "commit")
  BY ThrowLemma
<1>3. PICK pending \in BOOLEAN :
         /\ EndAt(cl, b, TRUE, pending)
         /\ log' = IF pending THEN log ELSE [log EXCEPT ![b] = @ \o pend[cl][b]]
         /\ IF ~AtEnd(cl) THEN Advance(cl)
            ELSE Finish(cl, inTxn[cl] /\ stmt[cl] # NoWork, FALSE)
  BY <1>2 DEF CommitOne
<1>4. pc[cl] = "commit" /\ UNCHANGED <<immediate, unused, txns>>
  BY DEF CommitOne
<1>5. /\ pending <=> Inner(cl)
      /\ sess' \in [Client -> [Backend -> Session]]
      /\ pend' \in [Client -> [Backend -> Seq(Work)]]
      /\ lock' \in [Backend -> Client \cup {NoClient}]
      /\ \A c \in Client \ {cl} : sess'[c] = sess[c] /\ pend'[c] = pend[c]
      /\ \A x \in Backend :
            /\ sess'[cl][x] = IF x = b THEN Counted(Depth(cl, x) - 1) ELSE sess[cl][x]
            /\ pend'[cl][x] = IF x = b /\ ~Inner(cl) THEN <<>> ELSE pend[cl][x]
            /\ lock'[x] = IF x = b /\ ~Inner(cl) /\ lock[x] = cl THEN NoClient ELSE lock[x]
  BY <1>3, <1>4, EndAtLemma
<1>6. log \in [Backend -> Seq(Work)] /\ pend \in [Client -> [Backend -> Seq(Work)]]
  BY DEF Shapes
<1>7. /\ log' \in [Backend -> Seq(Work)]
      /\ \A x \in Backend :
            log'[x] = IF x = b /\ ~Inner(cl) THEN log[x] \o pend[cl][x] ELSE log[x]
  <2>1. CASE Inner(cl)
    BY <1>3, <1>5, <1>6, <2>1
  <2>2. CASE ~Inner(cl)
    <3>1. log' = [log EXCEPT ![b] = log[b] \o pend[cl][b]]
      BY <1>3, <1>5, <2>2
    <3> HIDE DEF b
    <3>2. log[b] \o pend[cl][b] \in Seq(Work)
      BY <1>1, <1>6
    <3>. QED
      BY <1>1, <1>6, <2>2, <3>1, <3>2
  <2>. QED
    BY <2>1, <2>2
<1>8. CASE ~AtEnd(cl)
  <2>1. /\ Turns(cl)
        /\ pc' = pc /\ pos' \in [Client -> Nat] /\ stmt' = stmt /\ inTxn' = inTxn
        /\ \A c \in Client \ {cl} : pos'[c] = pos[c]
    BY <1>3, <1>8, AdvanceLemma
  <2>2. threw' = threw /\ returned' = returned
    BY <2>1 DEF Turns
  <2>3. OthersKeep(cl)
    BY <1>5, <2>1 DEF OthersKeep
  <2>4. Shapes'
    BY <1>4, <1>5, <1>7, <2>1, <2>2 DEF Shapes
  <2>. QED
    BY <1>4, <1>5, <1>7, <2>1, <2>2, <2>3, <2>4
<1>9. CASE AtEnd(cl)
  <2>1. Finish(cl, Inner(cl), FALSE) /\ Inner(cl) \in BOOLEAN
    BY <1>3, <1>9 DEF Inner
  <2>2. /\ Ends(cl, Inner(cl))
        /\ pc' \in [Client -> Loop \cup {"idle"}] /\ pos' \in [Client -> Nat]
        /\ stmt' \in [Client -> Work \cup {NoWork}] /\ inTxn' \in [Client -> BOOLEAN]
        /\ threw' \in SUBSET Work /\ returned' \in SUBSET Work
        /\ \A c \in Client \ {cl} : pc'[c] = pc[c] /\ pos'[c] = pos[c]
                                    /\ stmt'[c] = stmt[c] /\ inTxn'[c] = inTxn[c]
    BY <2>1, FinishLemma
  <2>3. /\ threw' = threw
        /\ returned' = IF inTxn[cl] THEN returned ELSE returned \cup ({stmt[cl]} \ {NoWork})
    BY <2>1 DEF Finish
  <2>4. OthersKeep(cl)
    BY <1>5, <2>2 DEF OthersKeep
  <2>5. Shapes'
    BY <1>4, <1>5, <1>7, <2>2 DEF Shapes
  <2>. QED
    BY <1>4, <1>5, <1>7, <1>9, <2>2, <2>3, <2>4, <2>5
<1>. QED
  BY <1>8, <1>9

LEMMA RollbackStep ==
  ASSUME OnlyStatementsFail, Shapes, NEW cl \in Client, Control(cl), RollbackOne(cl)
  PROVE  /\ Shapes' /\ OthersKeep(cl)
         /\ pc[cl] = "rollback" /\ ~Inner(cl)
         /\ log' = log /\ unused' = unused /\ immediate' = immediate /\ returned' = returned
         /\ \A b \in Backend :
               /\ sess'[cl][b] = IF b = At(cl) THEN Counted(Depth(cl, b) - 1) ELSE sess[cl][b]
               /\ pend'[cl][b] = IF b = At(cl) THEN <<>> ELSE pend[cl][b]
               /\ lock'[b] = IF b = At(cl) /\ lock[b] = cl THEN NoClient ELSE lock[b]
         /\ \/ Turns(cl)
            \/ /\ AtEnd(cl) /\ Ends(cl, FALSE)
               /\ threw' = threw \cup ({stmt[cl]} \ {NoWork})
<1> DEFINE b == At(cl)
<1>1. pc[cl] = "rollback" /\ ~Inner(cl) /\ UNCHANGED <<immediate, log, unused, txns>>
  BY DEF RollbackOne, Control, Inner
<1>2. ~MayThrow(cl, "rollback")
  BY ThrowLemma
<1>3. PICK pending \in BOOLEAN :
         /\ EndAt(cl, b, TRUE, pending)
         /\ IF ~AtEnd(cl) THEN Advance(cl)
            ELSE Finish(cl, inTxn[cl] /\ stmt[cl] # NoWork, TRUE)
  BY <1>2 DEF RollbackOne
<1>4. /\ sess' \in [Client -> [Backend -> Session]]
      /\ pend' \in [Client -> [Backend -> Seq(Work)]]
      /\ lock' \in [Backend -> Client \cup {NoClient}]
      /\ \A c \in Client \ {cl} : sess'[c] = sess[c] /\ pend'[c] = pend[c]
      /\ \A x \in Backend :
            /\ sess'[cl][x] = IF x = b THEN Counted(Depth(cl, x) - 1) ELSE sess[cl][x]
            /\ pend'[cl][x] = IF x = b THEN <<>> ELSE pend[cl][x]
            /\ lock'[x] = IF x = b /\ lock[x] = cl THEN NoClient ELSE lock[x]
  BY <1>1, <1>3, EndAtLemma
<1>5. CASE ~AtEnd(cl)
  <2>1. /\ Turns(cl)
        /\ pc' = pc /\ pos' \in [Client -> Nat] /\ stmt' = stmt /\ inTxn' = inTxn
        /\ \A c \in Client \ {cl} : pos'[c] = pos[c]
    BY <1>3, <1>5, AdvanceLemma
  <2>2. threw' = threw /\ returned' = returned
    BY <2>1 DEF Turns
  <2>3. OthersKeep(cl)
    BY <1>4, <2>1 DEF OthersKeep
  <2>4. Shapes'
    BY <1>1, <1>4, <2>1, <2>2 DEF Shapes
  <2>. QED
    BY <1>1, <1>4, <2>1, <2>2, <2>3, <2>4
<1>6. CASE AtEnd(cl)
  <2>1. Finish(cl, FALSE, TRUE)
    BY <1>1, <1>3, <1>6 DEF Inner
  <2>2. /\ Ends(cl, FALSE)
        /\ pc' \in [Client -> Loop \cup {"idle"}] /\ pos' \in [Client -> Nat]
        /\ stmt' \in [Client -> Work \cup {NoWork}] /\ inTxn' \in [Client -> BOOLEAN]
        /\ threw' \in SUBSET Work /\ returned' \in SUBSET Work
        /\ \A c \in Client \ {cl} : pc'[c] = pc[c] /\ pos'[c] = pos[c]
                                    /\ stmt'[c] = stmt[c] /\ inTxn'[c] = inTxn[c]
    BY <2>1, FinishLemma
  <2>3. returned' = returned /\ threw' = threw \cup ({stmt[cl]} \ {NoWork})
    BY <2>1 DEF Finish
  <2>4. OthersKeep(cl)
    BY <1>4, <2>2 DEF OthersKeep
  <2>5. Shapes'
    BY <1>1, <1>4, <2>2 DEF Shapes
  <2>. QED
    BY <1>1, <1>4, <1>6, <2>2, <2>3, <2>4, <2>5
<1>. QED
  BY <1>5, <1>6

-------------------------------------------------------------------------------
(* Where every client is, and what its sessions count                       *)

ControlInv == Shapes /\ \A cl \in Client : Control(cl)

LEMMA ControlInit == Init => ControlInv
<1> SUFFICES ASSUME Init
             PROVE  ControlInv
  OBVIOUS
<1>1. Shapes
  <2>1. immediate \in SUBSET Backend
    BY ImmediatesAssumption DEF Init
  <2>2. <<>> \in Seq(Work)
    OBVIOUS
  <2>3. MaxTxn \in Nat /\ Fresh \in Session
    BY MaxTxnAssumption, ClosedFresh
  <2>. QED
    BY <2>1, <2>2, <2>3 DEF Init, Shapes, Loop
<1>2. ASSUME NEW cl \in Client
      PROVE  Control(cl)
  <2>1. pc[cl] = "idle" /\ pos[cl] = 1 /\ stmt[cl] = NoWork /\ ~inTxn[cl]
    BY DEF Init
  <2>2. 1 \in Places(cl)
    BY ConnectionsLemma DEF Places
  <2>3. Counted(0) = Fresh
    <3>1. /\ Counted(0) \in Session /\ Counted(0).depth = 0 /\ Counted(0).up = TRUE
          /\ ~Counted(0).open
      <4>1. 0 \in Nat /\ ~(0 > 0)
        OBVIOUS
      <4>. QED
        BY <4>1, CountedLemma
    <3>2. /\ Fresh \in Session /\ Fresh.depth = 0 /\ Fresh.up = TRUE /\ ~Fresh.open
      BY ClosedFresh DEF Fresh
    <3>. QED
      BY <3>1, <3>2, SameSession
  <2>4. ASSUME NEW b \in Backend
        PROVE  sess[cl][b] = Counted(Depth(cl, b))
    BY <2>1, <2>3 DEF Init, Depth
  <2>. QED
    BY <2>1, <2>2, <2>4 DEF Control
<1>. QED
  BY <1>1, <1>2 DEF ControlInv

LEMMA ControlCall ==
  ASSUME ControlInv, NEW cl \in Client,
         \/ \E w \in Work : Execute(cl, w)
         \/ ExplicitBegin(cl) \/ ExplicitEnd(cl)
  PROVE  Control(cl)' /\ \A b \in Backend : Depth(cl, b)' = Depth(cl, b)
<1>1. /\ sess' = sess /\ pc[cl] = "idle" /\ pos'[cl] = 1 /\ inTxn'[cl] = inTxn[cl]
      /\ \/ pc'[cl] = "begin" /\ stmt'[cl] \in unused
         \/ pc'[cl] = "begin" /\ stmt'[cl] = stmt[cl] /\ ~inTxn[cl]
         \/ pc'[cl] \in {"commit", "rollback"} /\ stmt'[cl] = stmt[cl] /\ inTxn[cl]
  BY CallLemma DEF ControlInv
<1>2. stmt[cl] = NoWork /\ inTxn[cl] \in BOOLEAN /\ \A w \in unused : w # NoWork
  BY <1>1, NoAssumption DEF ControlInv, Control, Shapes
<1>3. pos'[cl] \in Places(cl) /\ \A b \in Backend : ~(b < At(cl)')
  BY <1>1, StartLemma
<1>4. ASSUME NEW b \in Backend
      PROVE  Depth(cl, b)' = Depth(cl, b)
  BY <1>1, <1>2, <1>3 DEF Depth, Inner
<1>5. \A b \in Backend : sess'[cl][b] = Counted(Depth(cl, b)')
  BY <1>1, <1>4 DEF ControlInv, Control
<1>. QED
  BY <1>1, <1>2, <1>3, <1>4, <1>5 DEF Control

LEMMA ControlBegin ==
  ASSUME OnlyStatementsFail, ControlInv, NEW cl \in Client, BeginOne(cl)
  PROVE  /\ Control(cl)'
         /\ \A b \in Backend :
               Depth(cl, b)' = IF b = At(cl) THEN Depth(cl, b) + 1 ELSE Depth(cl, b)
<1>1. /\ pc[cl] = "begin"
      /\ \A b \in Backend :
            sess'[cl][b] = IF b = At(cl) THEN Counted(Depth(cl, b) + 1) ELSE sess[cl][b]
      /\ \/ Turns(cl)
         \/ AtEnd(cl) /\ stmt[cl] = NoWork /\ Ends(cl, TRUE)
         \/ AtEnd(cl) /\ stmt[cl] # NoWork /\ Enters(cl, "exec")
  BY BeginStep DEF ControlInv
<1>2. /\ Control(cl) /\ inTxn[cl] \in BOOLEAN
      /\ pos[cl] \in Places(cl) /\ (stmt[cl] = NoWork => ~inTxn[cl])
      /\ \A b \in Backend : b \in Int /\ ~(b < b)
      /\ At(cl) \in Backend
      /\ AtEnd(cl) => \A b \in Backend : b # At(cl) => b < At(cl)
  BY <1>1, PlaceLemma DEF ControlInv, Control, Shapes
<1>3. \A b \in Backend : sess[cl][b] = Counted(Depth(cl, b))
  BY <1>2 DEF Control
<1>4. /\ \A b \in Backend :
            Depth(cl, b)' = IF b = At(cl) THEN Depth(cl, b) + 1 ELSE Depth(cl, b)
      /\ pos'[cl] \in Places(cl)
      /\ pc'[cl] = "idle" => stmt'[cl] = NoWork
      /\ pc'[cl] = "begin" => stmt'[cl] # NoWork \/ ~inTxn'[cl]
      /\ pc'[cl] = "exec" => stmt'[cl] # NoWork
      /\ pc'[cl] \notin {"commit", "rollback"}
  <2>1. CASE Turns(cl)
    <3>1. /\ pos'[cl] \in Places(cl)
          /\ \A b \in Backend : b < At(cl)' <=> b < At(cl) \/ b = At(cl)
          /\ pc'[cl] = "begin" /\ stmt'[cl] = stmt[cl] /\ inTxn'[cl] = inTxn[cl]
      BY <1>1, <1>2, <2>1, PassLemma DEF Turns
    <3>2. ASSUME NEW b \in Backend
          PROVE  Depth(cl, b)' = IF b = At(cl) THEN Depth(cl, b) + 1 ELSE Depth(cl, b)
      BY <1>1, <1>2, <3>1 DEF Depth, Inner
    <3>. QED
      BY <1>1, <1>2, <3>1, <3>2
  <2>2. CASE AtEnd(cl) /\ stmt[cl] = NoWork /\ Ends(cl, TRUE)
    <3>1. pos'[cl] \in Places(cl) /\ pc'[cl] = "idle" /\ stmt'[cl] = NoWork /\ inTxn'[cl]
      BY <2>2, StartLemma DEF Ends
    <3>2. ASSUME NEW b \in Backend
          PROVE  Depth(cl, b)' = IF b = At(cl) THEN Depth(cl, b) + 1 ELSE Depth(cl, b)
      BY <1>1, <1>2, <2>2, <3>1 DEF Depth, Inner
    <3>. QED
      BY <3>1, <3>2
  <2>3. CASE AtEnd(cl) /\ stmt[cl] # NoWork /\ Enters(cl, "exec")
    <3>1. /\ pos'[cl] \in Places(cl) /\ pc'[cl] = "exec"
          /\ stmt'[cl] = stmt[cl] /\ inTxn'[cl] = inTxn[cl]
      BY <2>3, StartLemma DEF Enters
    <3>2. ASSUME NEW b \in Backend
          PROVE  Depth(cl, b)' = IF b = At(cl) THEN Depth(cl, b) + 1 ELSE Depth(cl, b)
      BY <1>1, <1>2, <2>3, <3>1 DEF Depth, Inner
    <3>. QED
      BY <2>3, <3>1, <3>2
  <2>. QED
    BY <1>1, <2>1, <2>2, <2>3
<1>5. \A b \in Backend : sess'[cl][b] = Counted(Depth(cl, b)')
  BY <1>1, <1>3, <1>4
<1>. QED
  BY <1>4, <1>5 DEF Control

LEMMA ControlExec ==
  ASSUME OnlyStatementsFail, ControlInv, NEW cl \in Client, ExecOne(cl)
  PROVE  Control(cl)' /\ \A b \in Backend : Depth(cl, b)' = Depth(cl, b)
<1>1. /\ pc[cl] = "exec" /\ sess' = sess
      /\ \/ Turns(cl)
         \/ AtEnd(cl) /\ Enters(cl, "commit")
         \/ ~inTxn[cl] /\ Enters(cl, "rollback")
  BY ExecStep DEF ControlInv
<1>2. Control(cl) /\ inTxn[cl] \in BOOLEAN /\ pos[cl] \in Places(cl) /\ stmt[cl] # NoWork
  BY <1>1 DEF ControlInv, Control, Shapes
<1>3. /\ \A b \in Backend : Depth(cl, b)' = Depth(cl, b)
      /\ pos'[cl] \in Places(cl)
      /\ pc'[cl] \in {"exec", "commit", "rollback"}
      /\ stmt'[cl] = stmt[cl] /\ (pc'[cl] = "rollback" => ~inTxn'[cl])
  <2>1. CASE Turns(cl)
    <3>1. /\ pos'[cl] \in Places(cl)
          /\ pc'[cl] = "exec" /\ stmt'[cl] = stmt[cl] /\ inTxn'[cl] = inTxn[cl]
      BY <1>1, <1>2, <2>1, PassLemma DEF Turns
    <3>2. ASSUME NEW b \in Backend
          PROVE  Depth(cl, b)' = Depth(cl, b)
      BY <1>1, <1>2, <3>1 DEF Depth, Inner
    <3>. QED
      BY <3>1, <3>2
  <2>2. ASSUME NEW loop \in {"commit", "rollback"}, Enters(cl, loop),
               loop = "rollback" => ~inTxn[cl]
        PROVE  /\ \A b \in Backend : Depth(cl, b)' = Depth(cl, b)
               /\ pos'[cl] \in Places(cl)
               /\ pc'[cl] \in {"exec", "commit", "rollback"}
               /\ stmt'[cl] = stmt[cl] /\ (pc'[cl] = "rollback" => ~inTxn'[cl])
    <3>1. /\ pos'[cl] \in Places(cl) /\ pc'[cl] = loop
          /\ stmt'[cl] = stmt[cl] /\ inTxn'[cl] = inTxn[cl]
          /\ \A b \in Backend : ~(b < At(cl)')
      BY <2>2, StartLemma DEF Enters
    <3>2. ASSUME NEW b \in Backend
          PROVE  Depth(cl, b)' = Depth(cl, b)
      BY <1>1, <1>2, <3>1 DEF Depth, Inner
    <3>. QED
      BY <2>2, <3>1, <3>2
  <2>. QED
    BY <1>1, <2>1, <2>2
<1>4. \A b \in Backend : sess'[cl][b] = Counted(Depth(cl, b)')
  BY <1>1, <1>2, <1>3 DEF Control
<1>. QED
  BY <1>2, <1>3, <1>4 DEF Control

LEMMA ControlEnd ==
  ASSUME OnlyStatementsFail, ControlInv, NEW cl \in Client, CommitOne(cl) \/ RollbackOne(cl)
  PROVE  /\ Control(cl)'
         /\ \A b \in Backend :
               Depth(cl, b)' = IF b = At(cl) THEN Depth(cl, b) - 1 ELSE Depth(cl, b)
<1>1. /\ pc[cl] \in {"commit", "rollback"}
      /\ \A b \in Backend :
            sess'[cl][b] = IF b = At(cl) THEN Counted(Depth(cl, b) - 1) ELSE sess[cl][b]
      /\ pc[cl] = "rollback" => ~Inner(cl)
      /\ Turns(cl) \/ (AtEnd(cl) /\ Ends(cl, Inner(cl)))
  <2>1. CASE CommitOne(cl)
    BY <2>1, CommitStep DEF ControlInv
  <2>2. CASE RollbackOne(cl)
    <3>1. /\ pc[cl] = "rollback" /\ ~Inner(cl)
          /\ \A b \in Backend :
                sess'[cl][b] = IF b = At(cl) THEN Counted(Depth(cl, b) - 1) ELSE sess[cl][b]
          /\ Turns(cl) \/ (AtEnd(cl) /\ Ends(cl, FALSE))
      BY <2>2, RollbackStep DEF ControlInv
    <3>2. Ends(cl, FALSE) => Ends(cl, Inner(cl))
      <4>1. Inner(cl) \in BOOLEAN
        BY DEF Inner, ControlInv, Shapes
      <4>2. Inner(cl) = FALSE
        BY <3>1, <4>1
      <4>. QED
        BY <4>2
    <3>. QED
      BY <3>1, <3>2
  <2>. QED
    BY <2>1, <2>2
<1>2. /\ Control(cl) /\ inTxn[cl] \in BOOLEAN /\ pos[cl] \in Places(cl)
      /\ \A b \in Backend : b \in Int /\ ~(b < b)
      /\ At(cl) \in Backend
      /\ AtEnd(cl) => \A b \in Backend : b # At(cl) => b < At(cl)
  BY PlaceLemma DEF ControlInv, Control, Shapes
<1>3. \A b \in Backend : sess[cl][b] = Counted(Depth(cl, b))
  BY <1>2 DEF Control
<1>4. CASE Turns(cl)
  <2>1. /\ pos'[cl] \in Places(cl)
        /\ \A b \in Backend : b < At(cl)' <=> b < At(cl) \/ b = At(cl)
        /\ pc'[cl] = pc[cl] /\ stmt'[cl] = stmt[cl] /\ inTxn'[cl] = inTxn[cl]
    BY <1>2, <1>4, PassLemma DEF Turns
  <2>2. ASSUME NEW b \in Backend
        PROVE  Depth(cl, b)' = IF b = At(cl) THEN Depth(cl, b) - 1 ELSE Depth(cl, b)
    BY <1>1, <1>2, <2>1 DEF Depth, Inner
  <2>3. \A b \in Backend : sess'[cl][b] = Counted(Depth(cl, b)')
    BY <1>1, <1>3, <2>2
  <2>. QED
    BY <1>2, <2>1, <2>2, <2>3 DEF Control
<1>5. CASE AtEnd(cl) /\ Ends(cl, Inner(cl))
  <2>1. /\ pos'[cl] \in Places(cl) /\ pc'[cl] = "idle" /\ stmt'[cl] = NoWork
        /\ inTxn'[cl] = Inner(cl)
    BY <1>5, StartLemma DEF Ends
  <2>2. ASSUME NEW b \in Backend
        PROVE  Depth(cl, b)' = IF b = At(cl) THEN Depth(cl, b) - 1 ELSE Depth(cl, b)
    <3>1. ~(b < At(cl)) <=> b = At(cl)
      BY <1>2, <1>5
    <3>2. inTxn'[cl] <=> Inner(cl)
      BY <2>1
    <3>3. Depth(cl, b)' = IF Inner(cl) THEN 1 ELSE 0
      BY <2>1, <3>2 DEF Depth
    <3>. QED
      BY <1>1, <3>1, <3>3 DEF Depth
  <2>3. \A b \in Backend : sess'[cl][b] = Counted(Depth(cl, b)')
    BY <1>1, <1>3, <2>2
  <2>. QED
    BY <2>1, <2>2, <2>3 DEF Control
<1>. QED
  BY <1>1, <1>4, <1>5

(* Every step is a call or one turn of a loop of one client.                *)
LEMMA NextCases ==
  ASSUME Next
  PROVE  \E cl \in Client :
            \/ (\E w \in Work : Execute(cl, w)) \/ ExplicitBegin(cl) \/ ExplicitEnd(cl)
            \/ BeginOne(cl) \/ ExecOne(cl) \/ CommitOne(cl) \/ RollbackOne(cl)
BY DEF Next, Running

LEMMA ControlNext == OnlyStatementsFail /\ ControlInv /\ [Next]_vars => ControlInv'
<1> SUFFICES ASSUME OnlyStatementsFail, ControlInv, [Next]_vars
             PROVE  ControlInv'
  OBVIOUS
<1>1. CASE UNCHANGED vars
  <2>1. Shapes'
    BY <1>1 DEF ControlInv, Shapes, vars
  <2>2. ASSUME NEW cl \in Client
        PROVE  Control(cl)'
    <3>1. \A b : Depth(cl, b)' = Depth(cl, b)
      BY <1>1 DEF Depth, Inner, At, vars
    <3>. QED
      BY <1>1, <3>1 DEF ControlInv, Control, vars
  <2>. QED
    BY <2>1, <2>2 DEF ControlInv
<1>2. ASSUME NEW cl \in Client, Shapes', OthersKeep(cl), Control(cl)'
      PROVE  ControlInv'
  <2>1. ASSUME NEW c \in Client, c # cl
        PROVE  Control(c)'
    BY <1>2, <2>1, OthersLemma DEF ControlInv
  <2>. QED
    BY <1>2, <2>1 DEF ControlInv
<1>3. Shapes /\ \A cl \in Client : Control(cl)
  BY DEF ControlInv
<1>4. ASSUME NEW cl \in Client,
             (\E w \in Work : Execute(cl, w)) \/ ExplicitBegin(cl) \/ ExplicitEnd(cl)
      PROVE  ControlInv'
  BY <1>2, <1>3, <1>4, CallLemma, ControlCall
<1>5. ASSUME NEW cl \in Client, BeginOne(cl)
      PROVE  ControlInv'
  BY <1>2, <1>3, <1>5, BeginStep, ControlBegin
<1>6. ASSUME NEW cl \in Client, ExecOne(cl)
      PROVE  ControlInv'
  BY <1>2, <1>3, <1>6, ExecStep, ControlExec
<1>7. ASSUME NEW cl \in Client, CommitOne(cl)
      PROVE  ControlInv'
  BY <1>2, <1>3, <1>7, CommitStep, ControlEnd
<1>8. ASSUME NEW cl \in Client, RollbackOne(cl)
      PROVE  ControlInv'
  BY <1>2, <1>3, <1>8, RollbackStep, ControlEnd
<1>. QED
  BY <1>1, <1>4, <1>5, <1>6, <1>7, <1>8, NextCases

-------------------------------------------------------------------------------
(* Who holds the locks                                                      *)

LEMMA LocksOthers ==
  ASSUME NEW cl \in Client, OthersKeep(cl), immediate' = immediate,
         NEW c \in Client, c # cl, \A b \in Backend : lock'[b] = c <=> lock[b] = c,
         Locks(c)
  PROVE  Locks(c)'
<1>1. pend'[c] = pend[c] /\ \A b : Depth(c, b)' = Depth(c, b)
  BY OthersLemma DEF OthersKeep
<1>. QED
  BY <1>1 DEF Locks

LEMMA LocksCall ==
  ASSUME ControlInv, NEW cl \in Client, Locks(cl),
         (\E w \in Work : Execute(cl, w)) \/ ExplicitBegin(cl) \/ ExplicitEnd(cl)
  PROVE  Locks(cl)'
<1>1. pend' = pend /\ lock' = lock /\ immediate' = immediate
  BY CallLemma DEF ControlInv
<1>2. \A b \in Backend : Depth(cl, b)' = Depth(cl, b)
  BY ControlCall
<1>. QED
  BY <1>1, <1>2 DEF Locks

LEMMA LocksBegin ==
  ASSUME OnlyStatementsFail, ControlInv, NEW cl \in Client, Locks(cl), BeginOne(cl)
  PROVE  /\ Locks(cl)'
         /\ \A c \in Client \ {cl} : \A b \in Backend : lock'[b] = c <=> lock[b] = c
<1>1. /\ pend' = pend /\ immediate' = immediate
      /\ At(cl) \in immediate => lock[At(cl)] \in {cl, NoClient}
      /\ \A b \in Backend :
            lock'[b] = IF b = At(cl) /\ b \in immediate THEN cl ELSE lock[b]
  BY BeginStep DEF ControlInv, LockFree
<1>2. /\ \A b \in Backend :
            Depth(cl, b)' = IF b = At(cl) THEN Depth(cl, b) + 1 ELSE Depth(cl, b)
      /\ \A b : Depth(cl, b) \in 0..2
  BY ControlBegin, DepthLemma
<1>3. Locks(cl)'
  BY <1>1, <1>2 DEF Locks
<1>4. \A c \in Client \ {cl} : \A b \in Backend : lock'[b] = c <=> lock[b] = c
  BY <1>1, NoAssumption
<1>. QED
  BY <1>3, <1>4

LEMMA LocksExec ==
  ASSUME OnlyStatementsFail, ControlInv, NEW cl \in Client, Locks(cl), ExecOne(cl)
  PROVE  /\ Locks(cl)'
         /\ \A c \in Client \ {cl} : \A b \in Backend : lock'[b] = c <=> lock[b] = c
<1>1. /\ pc[cl] = "exec" /\ immediate' = immediate
      /\ \/ /\ lock[At(cl)] \in {cl, NoClient}
            /\ \A b \in Backend : lock'[b] = IF b = At(cl) THEN cl ELSE lock[b]
            /\ \A b \in Backend :
                  pend'[cl][b] = IF b = At(cl) THEN Append(pend[cl][b], stmt[cl])
                                 ELSE pend[cl][b]
         \/ lock' = lock /\ pend' = pend
  BY ExecStep DEF ControlInv, LockFree
<1>2. \A b \in Backend : Depth(cl, b)' = Depth(cl, b) /\ Depth(cl, b) > 0
  <2>1. \A b \in Backend : Depth(cl, b) > 0
    BY <1>1 DEF Depth
  <2>. QED
    BY <2>1, ControlExec
<1>3. /\ pend \in [Client -> [Backend -> Seq(Work)]] /\ stmt[cl] \in Work
      /\ \A b \in Backend : Append(pend[cl][b], stmt[cl]) # <<>>
  <2>1. pend \in [Client -> [Backend -> Seq(Work)]] /\ stmt[cl] \in Work
    BY <1>1 DEF ControlInv, Shapes, Control
  <2>2. ASSUME NEW s \in Seq(Work), NEW w \in Work
        PROVE  Append(s, w) # <<>>
    OBVIOUS
  <2>. QED
    BY <2>1, <2>2
<1>4. Locks(cl)'
  <2>1. CASE lock' = lock /\ pend' = pend
    BY <1>1, <1>2, <2>1 DEF Locks
  <2>2. CASE /\ \A b \in Backend : lock'[b] = IF b = At(cl) THEN cl ELSE lock[b]
             /\ \A b \in Backend :
                   pend'[cl][b] = IF b = At(cl) THEN Append(pend[cl][b], stmt[cl])
                                  ELSE pend[cl][b]
    BY <1>1, <1>2, <1>3, <2>2 DEF Locks
  <2>. QED
    BY <1>1, <2>1, <2>2
<1>5. \A c \in Client \ {cl} : \A b \in Backend : lock'[b] = c <=> lock[b] = c
  BY <1>1, NoAssumption
<1>. QED
  BY <1>4, <1>5

LEMMA LocksEnd ==
  ASSUME OnlyStatementsFail, ControlInv, NEW cl \in Client, Locks(cl),
         CommitOne(cl) \/ RollbackOne(cl)
  PROVE  /\ Locks(cl)'
         /\ \A c \in Client \ {cl} : \A b \in Backend : lock'[b] = c <=> lock[b] = c
<1>1. /\ pc[cl] \in {"commit", "rollback"} /\ immediate' = immediate
      /\ \A b \in Backend :
            /\ pend'[cl][b] = IF b = At(cl) /\ ~Inner(cl) THEN <<>> ELSE pend[cl][b]
            /\ lock'[b] = IF b = At(cl) /\ ~Inner(cl) /\ lock[b] = cl THEN NoClient
                          ELSE lock[b]
  <2>1. CASE CommitOne(cl)
    BY <2>1, CommitStep DEF ControlInv
  <2>2. CASE RollbackOne(cl)
    BY <2>2, RollbackStep DEF ControlInv
  <2>. QED
    BY <2>1, <2>2
<1>2. /\ \A b \in Backend :
            Depth(cl, b)' = IF b = At(cl) THEN Depth(cl, b) - 1 ELSE Depth(cl, b)
      /\ \A b : Depth(cl, b) \in 0..2
      /\ Inner(cl) => Depth(cl, At(cl)) = 2
      /\ ~Inner(cl) => Depth(cl, At(cl)) = 1
  <2>1. ~(At(cl) < At(cl))
    BY PlaceLemma DEF ControlInv, Control
  <2>2. /\ Inner(cl) => Depth(cl, At(cl)) = 2
        /\ ~Inner(cl) => Depth(cl, At(cl)) = 1
    BY <1>1, <2>1 DEF Depth
  <2>. QED
    BY <2>2, ControlEnd, DepthLemma
<1>3. Locks(cl)'
  BY <1>1, <1>2, NoAssumption DEF Locks
<1>4. \A c \in Client \ {cl} : \A b \in Backend : lock'[b] = c <=> lock[b] = c
  BY <1>1, NoAssumption
<1>. QED
  BY <1>3, <1>4

-------------------------------------------------------------------------------
(* What the sessions have modified                                          *)

LEMMA ModifiedCall ==
  ASSUME ControlInv, NEW cl \in Client, Modified(cl),
         (\E w \in Work : Execute(cl, w)) \/ ExplicitBegin(cl) \/ ExplicitEnd(cl)
  PROVE  Modified(cl)'
<1>1. /\ pend' = pend /\ pc[cl] = "idle" /\ pos'[cl] = 1 /\ inTxn'[cl] = inTxn[cl]
      /\ \/ pc'[cl] = "begin"
         \/ pc'[cl] \in {"commit", "rollback"} /\ inTxn[cl] /\ stmt'[cl] = stmt[cl]
  BY CallLemma DEF ControlInv
<1>2. stmt[cl] = NoWork
  BY <1>1 DEF ControlInv, Control
<1>3. \A b \in Backend : ~(b < At(cl)')
  BY <1>1, StartLemma
<1>4. Base(cl)' = Base(cl)
  BY <1>1 DEF Base
<1>. QED
  BY <1>1, <1>2, <1>3, <1>4 DEF Modified, Inner

LEMMA ModifiedBegin ==
  ASSUME OnlyStatementsFail, ControlInv, NEW cl \in Client, Modified(cl), BeginOne(cl)
  PROVE  Modified(cl)'
<1>1. /\ pend' = pend /\ pc[cl] = "begin"
      /\ \/ Turns(cl)
         \/ Ends(cl, TRUE)
         \/ Enters(cl, "exec")
  BY BeginStep DEF ControlInv
<1>2. Base(cl)' = Base(cl)
  BY <1>1 DEF Base
<1>3. /\ \A b \in Backend : pend[cl][b] = Base(cl)
      /\ ~inTxn[cl] => Base(cl) = <<>>
  BY <1>1 DEF Modified
<1>4. CASE Turns(cl)
  BY <1>1, <1>2, <1>3, <1>4 DEF Modified, Turns
<1>5. CASE Ends(cl, TRUE)
  BY <1>1, <1>2, <1>3, <1>5 DEF Modified, Ends
<1>6. CASE Enters(cl, "exec")
  <2>1. \A b \in Backend : ~(b < At(cl)')
    BY <1>6, StartLemma DEF Enters
  <2>. QED
    BY <1>1, <1>2, <1>3, <1>6, <2>1 DEF Modified, Enters
<1>. QED
  BY <1>1, <1>4, <1>5, <1>6

LEMMA ModifiedExec ==
  ASSUME OnlyStatementsFail, ControlInv, NEW cl \in Client, Modified(cl), ExecOne(cl)
  PROVE  Modified(cl)'
<1>1. /\ pc[cl] = "exec"
      /\ \/ /\ \A b \in Backend :
                  pend'[cl][b] = IF b = At(cl) THEN Append(pend[cl][b], stmt[cl])
                                 ELSE pend[cl][b]
            /\ Turns(cl) \/ (AtEnd(cl) /\ Enters(cl, "commit"))
         \/ Enters(cl, "rollback")
  BY ExecStep DEF ControlInv
<1>2. /\ pos[cl] \in Places(cl) /\ Final \in Backend /\ At(cl) \in Backend
      /\ AtEnd(cl) <=> At(cl) = Final
      /\ AtEnd(cl) => \A b \in Backend : b # At(cl) => b < At(cl)
      /\ ~(At(cl) < At(cl))
  BY PlaceLemma DEF ControlInv, Control
<1>3. /\ \A b \in Backend :
            pend[cl][b] = IF b < At(cl) THEN Append(Base(cl), stmt[cl]) ELSE Base(cl)
      /\ ~inTxn[cl] => Base(cl) = <<>>
  BY <1>1 DEF Modified
<1>4. CASE Enters(cl, "rollback")
  <2>1. \A b \in Backend : ~(b < At(cl)')
    BY <1>4, StartLemma DEF Enters
  <2>. QED
    BY <1>4, <2>1 DEF Modified, Enters
<1>5. CASE /\ \A b \in Backend :
                 pend'[cl][b] = IF b = At(cl) THEN Append(pend[cl][b], stmt[cl])
                                ELSE pend[cl][b]
           /\ Turns(cl)
  <2>1. /\ \A b \in Backend : b < At(cl)' <=> b < At(cl) \/ b = At(cl)
        /\ pc'[cl] = "exec" /\ stmt'[cl] = stmt[cl] /\ inTxn'[cl] = inTxn[cl]
        /\ ~AtEnd(cl)
    BY <1>1, <1>2, <1>5, PassLemma DEF Turns
  <2>2. Base(cl)' = Base(cl)
    BY <1>2, <1>5, <2>1 DEF Base
  <2>3. \A b \in Backend :
           pend'[cl][b] = IF b < At(cl)' THEN Append(Base(cl), stmt[cl]) ELSE Base(cl)
    BY <1>2, <1>3, <1>5, <2>1
  <2>. QED
    BY <1>3, <2>1, <2>2, <2>3 DEF Modified
<1>6. CASE /\ \A b \in Backend :
                 pend'[cl][b] = IF b = At(cl) THEN Append(pend[cl][b], stmt[cl])
                                ELSE pend[cl][b]
           /\ AtEnd(cl) /\ Enters(cl, "commit")
  <2>1. \A b \in Backend : ~(b < At(cl)')
    BY <1>6, StartLemma DEF Enters
  <2>2. \A b \in Backend : pend'[cl][b] = Append(Base(cl), stmt[cl])
    BY <1>2, <1>3, <1>6
  <2>3. Base(cl)' = Append(Base(cl), stmt[cl])
    BY <1>2, <2>2 DEF Base
  <2>. QED
    BY <1>6, <2>1, <2>2, <2>3 DEF Modified, Enters
<1>. QED
  BY <1>1, <1>4, <1>5, <1>6

LEMMA ModifiedCommit ==
  ASSUME OnlyStatementsFail, ControlInv, NEW cl \in Client, Modified(cl), CommitOne(cl)
  PROVE  Modified(cl)'
<1>1. /\ pc[cl] = "commit"
      /\ \A b \in Backend :
            pend'[cl][b] = IF b = At(cl) /\ ~Inner(cl) THEN <<>> ELSE pend[cl][b]
      /\ Turns(cl) \/ (AtEnd(cl) /\ Ends(cl, Inner(cl)))
  BY CommitStep DEF ControlInv
<1>2. /\ pos[cl] \in Places(cl) /\ Final \in Backend /\ At(cl) \in Backend
      /\ AtEnd(cl) <=> At(cl) = Final
      /\ AtEnd(cl) => \A b \in Backend : b # At(cl) => b < At(cl)
  BY PlaceLemma DEF ControlInv, Control
<1>3. /\ Inner(cl) => \A b \in Backend : pend[cl][b] = Base(cl)
      /\ ~Inner(cl) => \A b \in Backend :
            pend[cl][b] = IF b < At(cl) THEN <<>> ELSE Base(cl)
  BY <1>1 DEF Modified
<1>4. CASE Turns(cl)
  <2>1. /\ \A b \in Backend : b < At(cl)' <=> b < At(cl) \/ b = At(cl)
        /\ pc'[cl] = "commit" /\ (Inner(cl)' <=> Inner(cl)) /\ ~AtEnd(cl)
    BY <1>1, <1>2, <1>4, PassLemma DEF Turns, Inner
  <2>2. Base(cl)' = Base(cl)
    BY <1>1, <1>2, <2>1 DEF Base
  <2>3. Inner(cl) => \A b \in Backend : pend'[cl][b] = Base(cl)
    BY <1>1, <1>3
  <2>4. ~Inner(cl) => \A b \in Backend :
           pend'[cl][b] = IF b < At(cl)' THEN <<>> ELSE Base(cl)
    BY <1>1, <1>3, <2>1
  <2>. QED
    BY <2>1, <2>2, <2>3, <2>4 DEF Modified
<1>5. CASE AtEnd(cl) /\ Ends(cl, Inner(cl))
  <2>1. pc'[cl] = "idle" /\ inTxn'[cl] = Inner(cl)
    BY <1>5 DEF Ends
  <2>2. CASE Inner(cl)
    <3>1. \A b \in Backend : pend'[cl][b] = Base(cl)
      BY <1>1, <1>3, <2>2
    <3>2. Base(cl)' = Base(cl)
      BY <1>2, <3>1 DEF Base
    <3>. QED
      BY <2>1, <2>2, <3>1, <3>2 DEF Modified
  <2>3. CASE ~Inner(cl)
    <3>1. \A b \in Backend : pend'[cl][b] = <<>>
      BY <1>1, <1>2, <1>3, <1>5, <2>3
    <3>2. Base(cl)' = <<>>
      BY <1>2, <3>1 DEF Base
    <3>. QED
      BY <2>1, <3>1, <3>2 DEF Modified
  <2>. QED
    BY <2>2, <2>3
<1>. QED
  BY <1>1, <1>4, <1>5

LEMMA ModifiedRollback ==
  ASSUME OnlyStatementsFail, ControlInv, NEW cl \in Client, Modified(cl), RollbackOne(cl)
  PROVE  /\ Modified(cl)'
         /\ pc'[cl] = "idle" => \A b \in Backend : pend'[cl][b] = <<>>
<1>1. /\ pc[cl] = "rollback"
      /\ \A b \in Backend : pend'[cl][b] = IF b = At(cl) THEN <<>> ELSE pend[cl][b]
      /\ Turns(cl) \/ (AtEnd(cl) /\ Ends(cl, FALSE))
  BY RollbackStep DEF ControlInv
<1>2. /\ pos[cl] \in Places(cl) /\ Final \in Backend
      /\ AtEnd(cl) => \A b \in Backend : b # At(cl) => b < At(cl)
  BY PlaceLemma DEF ControlInv, Control
<1>3. \A b \in Backend : b < At(cl) => pend[cl][b] = <<>>
  BY <1>1 DEF Modified
<1>4. CASE Turns(cl)
  <2>1. /\ \A b \in Backend : b < At(cl)' <=> b < At(cl) \/ b = At(cl)
        /\ pc'[cl] = "rollback"
    BY <1>1, <1>2, <1>4, PassLemma DEF Turns
  <2>. QED
    BY <1>1, <1>3, <2>1 DEF Modified
<1>5. CASE AtEnd(cl) /\ Ends(cl, FALSE)
  <2>1. \A b \in Backend : pend'[cl][b] = <<>>
    BY <1>1, <1>2, <1>3, <1>5
  <2>2. Base(cl)' = <<>>
    BY <1>2, <2>1 DEF Base
  <2>. QED
    BY <1>5, <2>1, <2>2 DEF Modified, Ends
<1>. QED
  BY <1>1, <1>4, <1>5

SessionInv == ControlInv /\ \A cl \in Client : Locks(cl) /\ Modified(cl)

LEMMA SessionInit == Init => SessionInv
<1> SUFFICES ASSUME Init
             PROVE  SessionInv
  OBVIOUS
<1>1. ControlInv
  BY ControlInit
<1>2. ASSUME NEW cl \in Client
      PROVE  Locks(cl) /\ Modified(cl)
  <2>1. /\ pc[cl] = "idle" /\ ~inTxn[cl]
        /\ \A b \in Backend : pend[cl][b] = <<>> /\ lock[b] # cl
    BY NoAssumption DEF Init
  <2>2. Final \in Backend /\ \A b \in Backend : Depth(cl, b) = 0
    BY <1>1, <2>1, PlaceLemma DEF Depth, ControlInv, Control
  <2>3. Base(cl) = <<>>
    BY <2>1, <2>2 DEF Base
  <2>. QED
    BY <2>1, <2>2, <2>3 DEF Locks, Modified
<1>. QED
  BY <1>1, <1>2 DEF SessionInv

LEMMA SessionNext == OnlyStatementsFail /\ SessionInv /\ [Next]_vars => SessionInv'
<1> SUFFICES ASSUME OnlyStatementsFail, SessionInv, [Next]_vars
             PROVE  SessionInv'
  OBVIOUS
<1>1. ControlInv'
  BY ControlNext DEF SessionInv
<1>2. CASE UNCHANGED vars
  <2>1. ASSUME NEW cl \in Client
        PROVE  Locks(cl)' /\ Modified(cl)'
    <3>1. /\ \A b : Depth(cl, b)' = Depth(cl, b)
          /\ At(cl)' = At(cl) /\ (Inner(cl)' <=> Inner(cl)) /\ Base(cl)' = Base(cl)
      BY <1>2 DEF Depth, Inner, At, Base, vars
    <3>2. Locks(cl)'
      BY <1>2, <3>1 DEF SessionInv, Locks, vars
    <3>3. Modified(cl)'
      BY <1>2, <3>1 DEF SessionInv, Modified, vars
    <3>. QED
      BY <3>2, <3>3
  <2>. QED
    BY <1>1, <2>1 DEF SessionInv
<1>3. ASSUME NEW cl \in Client, OthersKeep(cl), immediate' = immediate,
             Locks(cl)', Modified(cl)',
             \A c \in Client \ {cl} : \A b \in Backend : lock'[b] = c <=> lock[b] = c
      PROVE  SessionInv'
  <2>1. ASSUME NEW c \in Client, c # cl
        PROVE  Locks(c)' /\ Modified(c)'
    BY <1>3, <2>1, OthersLemma, LocksOthers DEF SessionInv
  <2>. QED
    BY <1>1, <1>3, <2>1 DEF SessionInv
<1>4. /\ ControlInv /\ Shapes
      /\ \A cl \in Client : Control(cl) /\ Locks(cl) /\ Modified(cl)
  BY DEF SessionInv, ControlInv
<1>5. ASSUME NEW cl \in Client,
             (\E w \in Work : Execute(cl, w)) \/ ExplicitBegin(cl) \/ ExplicitEnd(cl)
      PROVE  SessionInv'
  <2>1. OthersKeep(cl) /\ immediate' = immediate /\ lock' = lock
    BY <1>4, <1>5, CallLemma
  <2>2. Locks(cl)' /\ Modified(cl)'
    BY <1>4, <1>5, LocksCall, ModifiedCall
  <2>. QED
    BY <1>3, <2>1, <2>2
<1>6. ASSUME NEW cl \in Client, BeginOne(cl)
      PROVE  SessionInv'
  <2>1. OthersKeep(cl) /\ immediate' = immediate
    BY <1>4, <1>6, BeginStep
  <2>. QED
    BY <1>3, <1>4, <1>6, <2>1, LocksBegin, ModifiedBegin
<1>7. ASSUME NEW cl \in Client, ExecOne(cl)
      PROVE  SessionInv'
  <2>1. OthersKeep(cl) /\ immediate' = immediate
    BY <1>4, <1>7, ExecStep
  <2>. QED
    BY <1>3, <1>4, <1>7, <2>1, LocksExec, ModifiedExec
<1>8. ASSUME NEW cl \in Client, CommitOne(cl)
      PROVE  SessionInv'
  <2>1. OthersKeep(cl) /\ immediate' = immediate
    BY <1>4, <1>8, CommitStep
  <2>. QED
    BY <1>3, <1>4, <1>8, <2>1, LocksEnd, ModifiedCommit
<1>9. ASSUME NEW cl \in Client, RollbackOne(cl)
      PROVE  SessionInv'
  <2>1. OthersKeep(cl) /\ immediate' = immediate
    BY <1>4, <1>9, RollbackStep
  <2>. QED
    BY <1>3, <1>4, <1>9, <2>1, LocksEnd, ModifiedRollback
<1>. QED
  BY <1>2, <1>5, <1>6, <1>7, <1>8, <1>9, NextCases

-------------------------------------------------------------------------------
(* Where a statement is                                                     *)

LEMMA ConcatLemma ==
  ASSUME NEW S, NEW s \in Seq(S), NEW t \in Seq(S)
  PROVE  Range(s \o t) = Range(s) \cup Range(t)
<1> DEFINE u == s \o t
           m == Len(s)
           n == Len(t)
<1>1. m \in Nat /\ n \in Nat /\ DOMAIN s = 1..m /\ DOMAIN t = 1..n
  OBVIOUS
<1>2. /\ DOMAIN u = 1..(m + n)
      /\ \A i \in 1..m : u[i] = s[i]
      /\ \A i \in 1..n : u[m + i] = t[i]
  OBVIOUS
<1> HIDE DEF u, m, n
<1>3. ASSUME NEW x \in Range(u)
      PROVE  x \in Range(s) \cup Range(t)
  <2>1. PICK i \in 1..(m + n) : x = u[i]
    BY <1>2 DEF Range
  <2>2. CASE i <= m
    BY <1>1, <1>2, <2>1, <2>2 DEF Range
  <2>3. CASE i > m
    <3>1. i - m \in 1..n /\ m + (i - m) = i
      BY <1>1, <2>1, <2>3
    <3>2. x = t[i - m]
      BY <1>2, <2>1, <3>1
    <3>. QED
      BY <1>1, <3>1, <3>2 DEF Range
  <2>. QED
    BY <1>1, <2>2, <2>3
<1>4. ASSUME NEW x \in Range(s)
      PROVE  x \in Range(u)
  <2>1. PICK i \in 1..m : x = s[i]
    BY <1>1 DEF Range
  <2>2. i \in 1..(m + n) /\ x = u[i]
    BY <1>1, <1>2, <2>1
  <2>. QED
    BY <1>2, <2>2 DEF Range
<1>5. ASSUME NEW x \in Range(t)
      PROVE  x \in Range(u)
  <2>1. PICK i \in 1..n : x = t[i]
    BY <1>1 DEF Range
  <2>2. m + i \in 1..(m + n) /\ x = u[m + i]
    BY <1>1, <1>2, <2>1
  <2>. QED
    BY <1>2, <2>2 DEF Range
<1>. QED
  BY <1>3, <1>4, <1>5 DEF u

(* How a step may move statements.                                          *)
LEMMA OwnedStep ==
  ASSUME Shapes, Owned, NEW cl \in Client, OthersKeep(cl), NEW T,
         unused' \subseteq unused,
         Mine(cl)' \subseteq Mine(cl) \cup (unused \ unused'),
         Logged' \subseteq Logged \cup Mine(cl),
         threw' \subseteq threw \cup T, T \subseteq Mine(cl),
         T \cap Mine(cl)' = {}, T \cap Logged' = {},
         pc'[cl] \in {"begin", "exec", "rollback"} => stmt'[cl] \notin Logged'
  PROVE  Owned'
<1>1. /\ \A c \in Client : Mine(c) \cap unused = {} /\ Mine(c) \cap threw = {}
      /\ \A c, d \in Client : c # d => Mine(c) \cap Mine(d) = {}
      /\ Logged \cap unused = {} /\ Logged \cap threw = {}
      /\ unused \cap threw = {}
      /\ \A c \in Client :
            pc[c] \in {"begin", "exec", "rollback"} => stmt[c] \notin Logged
  BY DEF Owned
<1>2. \A c \in Client \ {cl} :
         Mine(c)' = Mine(c) /\ pc'[c] = pc[c] /\ stmt'[c] = stmt[c]
  BY DEF OthersKeep, Mine
<1>3. \A c \in Client : stmt[c] \in Mine(c) \/ stmt[c] = NoWork
  BY DEF Shapes, Mine
<1>4. NoWork \notin Logged'
  BY NoAssumption DEF Logged
<1> DEFINE M(c) == Mine(c)'
           L == Logged'
<1>5. /\ M(cl) \subseteq Mine(cl) \cup (unused \ unused') /\ L \subseteq Logged \cup Mine(cl)
      /\ T \cap M(cl) = {} /\ T \cap L = {}
      /\ pc'[cl] \in {"begin", "exec", "rollback"} => stmt'[cl] \notin L
      /\ \A c \in Client \ {cl} : M(c) = Mine(c)
      /\ NoWork \notin L
  BY <1>2, <1>4
<1> HIDE DEF M, L
<1>6. \A c \in Client : M(c) \cap unused' = {} /\ M(c) \cap threw' = {}
  <2>1. M(cl) \cap unused' = {}
    BY <1>1, <1>5
  <2>2. M(cl) \cap threw' = {}
    BY <1>1, <1>5
  <2>3. ASSUME NEW c \in Client, c # cl
        PROVE  M(c) \cap unused' = {} /\ M(c) \cap threw' = {}
    <3>1. M(c) = Mine(c) /\ Mine(c) \cap T = {}
      BY <1>1, <1>5, <2>3
    <3>2. Mine(c) \cap unused = {} /\ Mine(c) \cap threw = {}
      BY <1>1
    <3>. QED
      BY <3>1, <3>2
  <2>. QED
    BY <2>1, <2>2, <2>3
<1>7. ASSUME NEW c \in Client, NEW d \in Client, c # d
      PROVE  M(c) \cap M(d) = {}
  <2>1. ASSUME NEW e \in Client, e # cl
        PROVE  M(e) \cap M(cl) = {}
    <3>1. M(e) = Mine(e) /\ Mine(e) \cap Mine(cl) = {} /\ Mine(e) \cap unused = {}
      BY <1>1, <1>5, <2>1
    <3>. QED
      BY <1>5, <3>1
  <2>2. CASE c = cl
    BY <1>7, <2>1, <2>2
  <2>3. CASE d = cl
    BY <1>7, <2>1, <2>3
  <2>4. CASE c # cl /\ d # cl
    BY <1>1, <1>5, <1>7, <2>4
  <2>. QED
    BY <2>2, <2>3, <2>4
<1>8. L \cap unused' = {} /\ L \cap threw' = {}
  <2>1. L \cap unused' = {}
    BY <1>1, <1>5
  <2>2. L \cap threw = {}
    BY <1>1, <1>5
  <2>. QED
    BY <1>5, <2>1, <2>2
<1>9. unused' \cap threw' = {}
  BY <1>1
<1>10. ASSUME NEW c \in Client, pc'[c] \in {"begin", "exec", "rollback"}
       PROVE  stmt'[c] \notin L
  <2>1. CASE c = cl
    BY <1>5, <1>10, <2>1
  <2>2. CASE c # cl
    <3>1. stmt[c] \notin Logged /\ stmt'[c] = stmt[c]
      BY <1>1, <1>2, <1>10, <2>2
    <3>2. CASE stmt[c] \in Mine(c)
      <4>1. Mine(c) \cap Mine(cl) = {}
        BY <1>1, <2>2
      <4>. QED
        BY <1>5, <3>1, <3>2, <4>1
    <3>3. CASE stmt[c] = NoWork
      BY <1>5, <3>1, <3>3
    <3>. QED
      BY <1>3, <3>2, <3>3
  <2>. QED
    BY <2>1, <2>2
<1>. QED
  BY <1>6, <1>7, <1>8, <1>9, <1>10 DEF Owned, M, L

(* A step at which nothing throws.                                          *)
LEMMA OwnedKeep ==
  ASSUME Shapes, Owned, NEW cl \in Client, OthersKeep(cl),
         unused' \subseteq unused, threw' = threw,
         Mine(cl)' \subseteq Mine(cl) \cup (unused \ unused'),
         Logged' \subseteq Logged \cup Mine(cl),
         pc'[cl] \in {"begin", "exec", "rollback"} => stmt'[cl] \notin Logged'
  PROVE  Owned'
<1> DEFINE T == {}
<1>1. /\ threw' \subseteq threw \cup T /\ T \subseteq Mine(cl)
      /\ T \cap Mine(cl)' = {} /\ T \cap Logged' = {}
  OBVIOUS
<1> HIDE DEF T
<1>. QED
  BY <1>1, OwnedStep

LEMMA OwnedCall ==
  ASSUME ControlInv, Owned, NEW cl \in Client,
         (\E w \in Work : Execute(cl, w)) \/ ExplicitBegin(cl) \/ ExplicitEnd(cl)
  PROVE  Owned'
<1>1. /\ OthersKeep(cl) /\ pend' = pend /\ log' = log /\ threw' = threw
      /\ pc[cl] = "idle" /\ stmt[cl] = NoWork
      /\ \/ stmt'[cl] \in unused /\ unused' = unused \ {stmt'[cl]}
         \/ stmt'[cl] = stmt[cl] /\ unused' = unused
  BY CallLemma DEF ControlInv, Control
<1>2. Logged' = Logged
  BY <1>1 DEF Logged
<1>3. Mine(cl)' \subseteq Mine(cl) \cup (unused \ unused')
  <2>1. CASE stmt'[cl] \in unused /\ unused' = unused \ {stmt'[cl]}
    BY <1>1, <2>1 DEF Mine
  <2>2. CASE stmt'[cl] = stmt[cl]
    BY <1>1, <2>2 DEF Mine
  <2>. QED
    BY <1>1, <2>1, <2>2
<1>4. stmt'[cl] \notin Logged
  <2>1. NoWork \notin Logged
    BY NoAssumption DEF Logged
  <2>. QED
    BY <1>1, <2>1 DEF Owned
<1>5. unused' \subseteq unused
  BY <1>1
<1>. QED
  BY <1>1, <1>2, <1>3, <1>4, <1>5, OwnedKeep DEF ControlInv

LEMMA OwnedBegin ==
  ASSUME OnlyStatementsFail, ControlInv, Owned, NEW cl \in Client, BeginOne(cl)
  PROVE  Owned'
<1>1. /\ OthersKeep(cl) /\ pc[cl] = "begin" /\ pend' = pend /\ log' = log
      /\ unused' = unused /\ threw' = threw
      /\ Turns(cl) \/ Ends(cl, TRUE) \/ Enters(cl, "exec")
  BY BeginStep DEF ControlInv
<1>2. Logged' = Logged
  BY <1>1 DEF Logged
<1>3. /\ stmt'[cl] \in {stmt[cl], NoWork}
      /\ pc'[cl] \in {"begin", "exec"} => stmt'[cl] = stmt[cl]
  BY <1>1 DEF Turns, Ends, Enters
<1>4. Mine(cl)' \subseteq Mine(cl)
  BY <1>1, <1>3, NoAssumption DEF Mine
<1>5. pc'[cl] \in {"begin", "exec", "rollback"} => stmt'[cl] \notin Logged
  BY <1>1, <1>3 DEF Owned, Turns, Ends, Enters
<1>. QED
  BY <1>1, <1>2, <1>4, <1>5, OwnedKeep DEF ControlInv

LEMMA OwnedExec ==
  ASSUME OnlyStatementsFail, ControlInv, Owned, NEW cl \in Client, ExecOne(cl)
  PROVE  Owned'
<1>1. /\ OthersKeep(cl) /\ pc[cl] = "exec" /\ log' = log
      /\ unused' = unused /\ threw' = threw /\ stmt'[cl] = stmt[cl]
      /\ \/ \A b \in Backend :
               pend'[cl][b] = IF b = At(cl) THEN Append(pend[cl][b], stmt[cl])
                              ELSE pend[cl][b]
         \/ pend' = pend
  BY ExecStep DEF ControlInv, Turns, Enters
<1>2. Logged' = Logged
  BY <1>1 DEF Logged
<1>3. /\ stmt[cl] \in Work /\ pend \in [Client -> [Backend -> Seq(Work)]]
  BY <1>1 DEF ControlInv, Control, Shapes
<1>4. \A b \in Backend : Range(pend'[cl][b]) \subseteq Range(pend[cl][b]) \cup {stmt[cl]}
  <2>1. \A b \in Backend :
           Range(Append(pend[cl][b], stmt[cl])) = Range(pend[cl][b]) \cup {stmt[cl]}
    BY <1>3, PushBackLemma
  <2>. QED
    BY <1>1, <2>1
<1>5. Mine(cl)' \subseteq Mine(cl)
  BY <1>1, <1>3, <1>4 DEF Mine
<1>6. stmt'[cl] \notin Logged
  BY <1>1 DEF Owned
<1>. QED
  BY <1>1, <1>2, <1>5, <1>6, OwnedKeep DEF ControlInv

LEMMA OwnedCommit ==
  ASSUME OnlyStatementsFail, ControlInv, Owned, NEW cl \in Client, CommitOne(cl)
  PROVE  Owned'
<1>1. /\ OthersKeep(cl) /\ pc[cl] = "commit"
      /\ unused' = unused /\ threw' = threw
      /\ \A b \in Backend :
            /\ pend'[cl][b] = IF b = At(cl) /\ ~Inner(cl) THEN <<>> ELSE pend[cl][b]
            /\ log'[b] = IF b = At(cl) /\ ~Inner(cl) THEN log[b] \o pend[cl][b] ELSE log[b]
      /\ Turns(cl) \/ Ends(cl, Inner(cl))
  BY CommitStep DEF ControlInv
<1>2. /\ log \in [Backend -> Seq(Work)] /\ pend \in [Client -> [Backend -> Seq(Work)]]
  BY DEF ControlInv, Shapes
<1>3. Logged' \subseteq Logged \cup Mine(cl)
  <2>1. \A b \in Backend :
           Range(log[b] \o pend[cl][b]) = Range(log[b]) \cup Range(pend[cl][b])
    BY <1>2, ConcatLemma
  <2>2. \A b \in Backend : Range(log'[b]) \subseteq Range(log[b]) \cup Range(pend[cl][b])
    BY <1>1, <2>1
  <2>. QED
    BY <2>2 DEF Logged, Mine
<1>4. Mine(cl)' \subseteq Mine(cl)
  <2>1. stmt'[cl] \in {stmt[cl], NoWork}
    BY <1>1 DEF Turns, Ends
  <2>2. Range(<<>>) = {}
    BY DEF Range
  <2>3. \A b \in Backend : Range(pend'[cl][b]) \subseteq Range(pend[cl][b])
    BY <1>1, <2>2
  <2>. QED
    BY <2>1, <2>3, NoAssumption DEF Mine
<1>5. pc'[cl] \notin {"begin", "exec", "rollback"}
  BY <1>1 DEF Turns, Ends
<1>. QED
  BY <1>1, <1>3, <1>4, <1>5, OwnedKeep DEF ControlInv

LEMMA OwnedRollback ==
  ASSUME OnlyStatementsFail, SessionInv, Owned, NEW cl \in Client, RollbackOne(cl)
  PROVE  Owned'
<1>1. /\ OthersKeep(cl) /\ pc[cl] = "rollback" /\ log' = log /\ unused' = unused
      /\ \A b \in Backend : pend'[cl][b] = IF b = At(cl) THEN <<>> ELSE pend[cl][b]
      /\ \/ Turns(cl)
         \/ Ends(cl, FALSE) /\ threw' = threw \cup ({stmt[cl]} \ {NoWork})
  BY RollbackStep DEF SessionInv, ControlInv
<1>2. Logged' = Logged /\ Range(<<>>) = {}
  BY <1>1 DEF Logged, Range
<1>3. \A b \in Backend : Range(pend'[cl][b]) \subseteq Range(pend[cl][b])
  BY <1>1, <1>2
<1>4. Mine(cl)' \subseteq Mine(cl)
  BY <1>1, <1>3, NoAssumption DEF Mine, Turns, Ends
<1>5. CASE Turns(cl)
  <2>1. threw' = threw /\ stmt'[cl] = stmt[cl] /\ stmt[cl] \notin Logged
    BY <1>1, <1>5 DEF Turns, Owned
  <2>. QED
    BY <1>1, <1>2, <1>4, <2>1, OwnedStep DEF SessionInv, ControlInv
<1>6. CASE Ends(cl, FALSE) /\ threw' = threw \cup ({stmt[cl]} \ {NoWork})
  <2> DEFINE T == {stmt[cl]} \ {NoWork}
  <2>1. pc'[cl] = "idle" /\ stmt'[cl] = NoWork
    BY <1>6 DEF Ends
  <2>2. \A b \in Backend : pend'[cl][b] = <<>>
    BY <2>1, ModifiedRollback DEF SessionInv
  <2>3. Mine(cl)' = {}
    BY <1>2, <2>1, <2>2, NoAssumption DEF Mine
  <2>4. T \subseteq Mine(cl)
    BY DEF Mine, SessionInv, ControlInv, Shapes
  <2>5. T \cap Logged = {}
    BY <1>1 DEF Owned
  <2> HIDE DEF T
  <2>6. threw' = threw \cup T
    BY <1>6 DEF T
  <2>. QED
    BY <1>1, <1>2, <2>1, <2>3, <2>4, <2>5, <2>6, OwnedStep DEF SessionInv, ControlInv
<1>. QED
  BY <1>1, <1>5, <1>6

(* What arrived stays, and a client's statement arrives at one database     *)
(* after the other.                                                         *)
LEMMA ArrivingKeep ==
  ASSUME Arriving, ReturnedEverywhere, NEW cl \in Client, OthersKeep(cl),
         \A b \in Backend : Range(log[b]) \subseteq Range(log[b]'),
         pc'[cl] = "commit" /\ ~inTxn'[cl] =>
             \A b \in Backend :
                 IF b < At(cl)' THEN stmt'[cl] \in Range(log'[b])
                 ELSE stmt'[cl] \in Range(pend'[cl][b])
  PROVE  /\ Arriving'
         /\ returned' = returned => ReturnedEverywhere'
<1>1. ASSUME NEW c \in Client, c # cl, pc'[c] = "commit" /\ ~inTxn'[c], NEW b \in Backend
      PROVE  IF b < At(c)' THEN stmt'[c] \in Range(log'[b])
             ELSE stmt'[c] \in Range(pend'[c][b])
  <2>1. /\ pc'[c] = pc[c] /\ inTxn'[c] = inTxn[c] /\ stmt'[c] = stmt[c]
        /\ pend'[c] = pend[c] /\ At(c)' = At(c)
    BY <1>1, OthersLemma DEF OthersKeep
  <2>2. IF b < At(c) THEN stmt[c] \in Range(log[b]) ELSE stmt[c] \in Range(pend[c][b])
    BY <1>1, <2>1 DEF Arriving
  <2>. QED
    BY <2>1, <2>2
<1>2. Arriving'
  BY <1>1 DEF Arriving
<1>. QED
  BY <1>2 DEF ReturnedEverywhere

LEMMA ArrivingCall ==
  ASSUME ControlInv, Arriving, ReturnedEverywhere, NEW cl \in Client,
         (\E w \in Work : Execute(cl, w)) \/ ExplicitBegin(cl) \/ ExplicitEnd(cl)
  PROVE  Arriving' /\ ReturnedEverywhere'
<1>1. /\ OthersKeep(cl) /\ log' = log /\ returned' = returned
      /\ pc'[cl] = "commit" => inTxn'[cl]
  BY CallLemma DEF ControlInv
<1>. QED
  BY <1>1, ArrivingKeep

LEMMA ArrivingBegin ==
  ASSUME OnlyStatementsFail, ControlInv, Arriving, ReturnedEverywhere,
         NEW cl \in Client, BeginOne(cl)
  PROVE  Arriving' /\ ReturnedEverywhere'
<1>1. /\ OthersKeep(cl) /\ log' = log /\ returned' = returned
      /\ pc[cl] = "begin" /\ (Turns(cl) \/ Ends(cl, TRUE) \/ Enters(cl, "exec"))
  BY BeginStep DEF ControlInv
<1>2. pc'[cl] # "commit"
  BY <1>1 DEF Turns, Ends, Enters
<1>. QED
  BY <1>1, <1>2, ArrivingKeep

LEMMA ArrivingExec ==
  ASSUME OnlyStatementsFail, SessionInv, Arriving, ReturnedEverywhere,
         NEW cl \in Client, ExecOne(cl)
  PROVE  Arriving' /\ ReturnedEverywhere'
<1>1. /\ OthersKeep(cl) /\ log' = log /\ returned' = returned /\ pc[cl] = "exec"
      /\ \/ /\ \A b \in Backend :
                  pend'[cl][b] = IF b = At(cl) THEN Append(pend[cl][b], stmt[cl])
                                 ELSE pend[cl][b]
            /\ Turns(cl) \/ (AtEnd(cl) /\ Enters(cl, "commit"))
         \/ Enters(cl, "rollback")
  BY ExecStep DEF SessionInv, ControlInv
<1>2. ASSUME pc'[cl] = "commit", NEW b \in Backend
      PROVE  stmt'[cl] \in Range(pend'[cl][b])
  <2>1. /\ \A x \in Backend :
              pend'[cl][x] = IF x = At(cl) THEN Append(pend[cl][x], stmt[cl]) ELSE pend[cl][x]
        /\ AtEnd(cl) /\ stmt'[cl] = stmt[cl]
    BY <1>1, <1>2 DEF Turns, Enters
  <2>2. /\ pend \in [Client -> [Backend -> Seq(Work)]] /\ stmt[cl] \in Work
        /\ Final \in Backend /\ (b # At(cl) => b < At(cl))
    BY <1>1, <2>1, PlaceLemma DEF SessionInv, ControlInv, Control, Shapes
  <2>3. b < At(cl) => pend[cl][b] = Append(Base(cl), stmt[cl])
    BY <1>1 DEF SessionInv, Modified
  <2>4. \A s \in Seq(Work) : stmt[cl] \in Range(Append(s, stmt[cl]))
    BY <2>2, PushBackLemma
  <2>5. Base(cl) \in Seq(Work) /\ pend[cl][b] \in Seq(Work)
    BY <2>2 DEF Base
  <2>. QED
    BY <2>1, <2>2, <2>3, <2>4, <2>5
<1>3. pc'[cl] = "commit" => \A b \in Backend : ~(b < At(cl)')
  BY <1>1, StartLemma DEF Turns, Enters
<1>. QED
  BY <1>1, <1>2, <1>3, ArrivingKeep

LEMMA ArrivingCommit ==
  ASSUME OnlyStatementsFail, ControlInv, Arriving, ReturnedEverywhere,
         NEW cl \in Client, CommitOne(cl)
  PROVE  Arriving' /\ ReturnedEverywhere'
<1>1. /\ OthersKeep(cl) /\ pc[cl] = "commit"
      /\ \A b \in Backend :
            /\ pend'[cl][b] = IF b = At(cl) /\ ~Inner(cl) THEN <<>> ELSE pend[cl][b]
            /\ log'[b] = IF b = At(cl) /\ ~Inner(cl) THEN log[b] \o pend[cl][b] ELSE log[b]
      /\ \/ Turns(cl)
         \/ /\ AtEnd(cl) /\ Ends(cl, Inner(cl))
            /\ returned' = IF inTxn[cl] THEN returned
                           ELSE returned \cup ({stmt[cl]} \ {NoWork})
  BY CommitStep DEF ControlInv
<1>2. /\ log \in [Backend -> Seq(Work)] /\ pend \in [Client -> [Backend -> Seq(Work)]]
  BY DEF ControlInv, Shapes
<1>3. \A b \in Backend :
         Range(log'[b]) = IF b = At(cl) /\ ~Inner(cl)
                          THEN Range(log[b]) \cup Range(pend[cl][b]) ELSE Range(log[b])
  <2>1. \A b \in Backend :
           Range(log[b] \o pend[cl][b]) = Range(log[b]) \cup Range(pend[cl][b])
    BY <1>2, ConcatLemma
  <2>. QED
    BY <1>1, <2>1
<1>4. /\ pos[cl] \in Places(cl)
      /\ AtEnd(cl) => \A b \in Backend : b # At(cl) => b < At(cl)
  BY PlaceLemma DEF ControlInv, Control
<1>5. ~inTxn[cl] => \A b \in Backend :
         b < At(cl) \/ b = At(cl) => stmt[cl] \in Range(log'[b])
  <2> SUFFICES ASSUME ~inTxn[cl], NEW b \in Backend, b < At(cl) \/ b = At(cl)
               PROVE  stmt[cl] \in Range(log'[b])
    OBVIOUS
  <2>1. IF b < At(cl) THEN stmt[cl] \in Range(log[b]) ELSE stmt[cl] \in Range(pend[cl][b])
    BY <1>1 DEF Arriving
  <2>2. ~Inner(cl)
    BY DEF Inner
  <2>. QED
    BY <1>3, <2>1, <2>2
<1>6. \A b \in Backend : Range(log[b]) \subseteq Range(log'[b])
  BY <1>3
<1>7. CASE Turns(cl)
  <2>1. /\ \A b \in Backend : b < At(cl)' <=> b < At(cl) \/ b = At(cl)
        /\ stmt'[cl] = stmt[cl] /\ inTxn'[cl] = inTxn[cl] /\ returned' = returned
    BY <1>4, <1>7, PassLemma DEF Turns
  <2>2. ASSUME ~inTxn'[cl], NEW b \in Backend
        PROVE  IF b < At(cl)' THEN stmt'[cl] \in Range(log'[b])
               ELSE stmt'[cl] \in Range(pend'[cl][b])
    <3>1. CASE b < At(cl) \/ b = At(cl)
      BY <1>5, <2>1, <2>2, <3>1
    <3>2. CASE ~(b < At(cl)) /\ b # At(cl)
      <4>1. stmt[cl] \in Range(pend[cl][b])
        BY <1>1, <2>1, <2>2, <3>2 DEF Arriving
      <4>. QED
        BY <1>1, <2>1, <3>2, <4>1
    <3>. QED
      BY <3>1, <3>2
  <2>. QED
    BY <1>1, <1>6, <2>1, <2>2, ArrivingKeep
<1>8. CASE /\ AtEnd(cl) /\ Ends(cl, Inner(cl))
           /\ returned' = IF inTxn[cl] THEN returned
                          ELSE returned \cup ({stmt[cl]} \ {NoWork})
  <2>1. pc'[cl] = "idle"
    BY <1>8 DEF Ends
  <2>2. Arriving' /\ (returned' = returned => ReturnedEverywhere')
    BY <1>1, <1>6, <2>1, ArrivingKeep
  <2>3. CASE inTxn[cl]
    BY <1>8, <2>2, <2>3
  <2>4. CASE ~inTxn[cl]
    <3>1. \A b \in Backend : stmt[cl] \in Range(log'[b])
      BY <1>4, <1>5, <1>8, <2>4
    <3>2. \A b \in Backend : returned' \subseteq Range(log'[b])
      BY <1>6, <1>8, <3>1 DEF ReturnedEverywhere
    <3>. QED
      BY <2>2, <3>2 DEF ReturnedEverywhere
  <2>. QED
    BY <2>3, <2>4
<1>. QED
  BY <1>1, <1>7, <1>8

LEMMA ArrivingRollback ==
  ASSUME OnlyStatementsFail, ControlInv, Arriving, ReturnedEverywhere,
         NEW cl \in Client, RollbackOne(cl)
  PROVE  Arriving' /\ ReturnedEverywhere'
<1>1. /\ OthersKeep(cl) /\ log' = log /\ returned' = returned
      /\ pc[cl] = "rollback" /\ (Turns(cl) \/ Ends(cl, FALSE))
  BY RollbackStep DEF ControlInv
<1>2. pc'[cl] # "commit"
  BY <1>1 DEF Turns, Ends
<1>. QED
  BY <1>1, <1>2, ArrivingKeep

-------------------------------------------------------------------------------
(* How far the databases are                                                *)

(* The last database is locked by the one that commits.                     *)
LEMMA OneCommits ==
  ASSUME SessionInv, NEW c \in Client, Committing(c)
  PROVE  lock[Final] = c
<1>1. Final \in Backend
  BY PlaceLemma DEF SessionInv, ControlInv, Control
<1>. QED
  BY <1>1 DEF SessionInv, Locks, Committing, Base

LEMMA CommittingOthers ==
  ASSUME NEW cl \in Client, OthersKeep(cl), NEW c \in Client, c # cl
  PROVE  Committing(c)' <=> Committing(c)
BY OthersLemma DEF Committing, OthersKeep

LEMMA InStepKeep ==
  ASSUME SessionInv, InStep, NEW cl \in Client, OthersKeep(cl),
         \A b \in Backend : log'[b] = log[b], ~Committing(cl), ~Committing(cl)'
  PROVE  InStep'
<1>1. Final \in Backend
  BY PlaceLemma DEF SessionInv, ControlInv, Control
<1>2. \A c \in Client : Committing(c)' <=> Committing(c)
  BY CommittingOthers
<1>3. \A c \in Client : Committing(c) => At(c)' = At(c) /\ Base(c)' = Base(c)
  BY OthersLemma
<1>4. ASSUME NEW c \in Client, Committing(c)', NEW b \in Backend
      PROVE  log'[b] = IF b < At(c)' THEN log'[Final] \o Base(c)' ELSE log'[Final]
  <2>1. log[b] = IF b < At(c) THEN log[Final] \o Base(c) ELSE log[Final]
    BY <1>2, <1>4 DEF InStep
  <2>. QED
    BY <1>1, <1>2, <1>3, <1>4, <2>1
<1>5. ASSUME \A c \in Client : ~Committing(c)', NEW a \in Backend, NEW b \in Backend
      PROVE  log'[a] = log'[b]
  BY <1>1, <1>2, <1>5 DEF InStep
<1>. QED
  BY <1>4, <1>5 DEF InStep

(* A client starts to commit only when no other one is committing.          *)
LEMMA InStepEnter ==
  ASSUME SessionInv, SessionInv', InStep, NEW cl \in Client, OthersKeep(cl), log' = log,
         ~Committing(cl), \A b \in Backend : ~(b < At(cl)'),
         \A c \in Client \ {cl} : \A b \in Backend : lock'[b] = c <=> lock[b] = c
  PROVE  InStep'
<1>1. Final \in Backend
  BY PlaceLemma DEF SessionInv, ControlInv, Control
<1>2. CASE ~Committing(cl)'
  BY <1>2, InStepKeep
<1>3. CASE Committing(cl)'
  <2>1. pend'[cl][Final] # <<>>
    BY <1>3 DEF Committing, Base
  <2>2. lock'[Final] = cl
    BY <1>1, <2>1 DEF SessionInv, Locks
  <2>3. ASSUME NEW c \in Client, c # cl
        PROVE  ~Committing(c)
    <3>1. SUFFICES ASSUME Committing(c)
                   PROVE  FALSE
      OBVIOUS
    <3>2. lock[Final] = c
      BY <3>1, OneCommits
    <3>. QED
      BY <1>1, <2>2, <2>3, <3>2
  <2>4. \A b \in Backend : log[b] = log[Final]
    BY <1>1, <2>3 DEF InStep
  <2>5. \A c \in Client : Committing(c)' => c = cl
    BY <2>3, CommittingOthers
  <2>6. \A b \in Backend :
           log'[b] = IF b < At(cl)' THEN log'[Final] \o Base(cl)' ELSE log'[Final]
    BY <2>4
  <2>. QED
    BY <1>3, <2>5, <2>6 DEF InStep
<1>. QED
  BY <1>2, <1>3

LEMMA InStepCall ==
  ASSUME SessionInv, SessionInv', InStep, NEW cl \in Client,
         (\E w \in Work : Execute(cl, w)) \/ ExplicitBegin(cl) \/ ExplicitEnd(cl)
  PROVE  InStep'
<1>1. OthersKeep(cl) /\ log' = log /\ lock' = lock /\ pc[cl] = "idle" /\ pos'[cl] = 1
  BY CallLemma DEF SessionInv, ControlInv
<1>2. \A b \in Backend : ~(b < At(cl)')
  BY <1>1, StartLemma
<1>3. ~Committing(cl)
  BY <1>1 DEF Committing
<1>. QED
  BY <1>1, <1>2, <1>3, InStepEnter

LEMMA InStepBegin ==
  ASSUME OnlyStatementsFail, SessionInv, InStep, NEW cl \in Client, BeginOne(cl)
  PROVE  InStep'
<1>1. /\ OthersKeep(cl) /\ log' = log
      /\ pc[cl] = "begin" /\ (Turns(cl) \/ Ends(cl, TRUE) \/ Enters(cl, "exec"))
  BY BeginStep DEF SessionInv, ControlInv
<1>2. ~Committing(cl) /\ ~Committing(cl)'
  BY <1>1 DEF Committing, Turns, Ends, Enters
<1>. QED
  BY <1>1, <1>2, InStepKeep

LEMMA InStepExec ==
  ASSUME OnlyStatementsFail, SessionInv, SessionInv', InStep, NEW cl \in Client, ExecOne(cl)
  PROVE  InStep'
<1>1. /\ OthersKeep(cl) /\ log' = log /\ pc[cl] = "exec"
      /\ Turns(cl) \/ Enters(cl, "commit") \/ Enters(cl, "rollback")
  BY ExecStep DEF SessionInv, ControlInv
<1>2. ~Committing(cl)
  BY <1>1 DEF Committing
<1>3. CASE pc'[cl] = "commit"
  <2>1. \A b \in Backend : ~(b < At(cl)')
    BY <1>1, <1>3, StartLemma DEF Turns, Enters
  <2>2. \A c \in Client \ {cl} : \A b \in Backend : lock'[b] = c <=> lock[b] = c
    BY LocksExec DEF SessionInv
  <2>. QED
    BY <1>1, <1>2, <2>1, <2>2, InStepEnter
<1>4. CASE pc'[cl] # "commit"
  <2>1. ~Committing(cl)'
    BY <1>4 DEF Committing
  <2>. QED
    BY <1>1, <1>2, <2>1, InStepKeep
<1>. QED
  BY <1>3, <1>4

LEMMA InStepRollback ==
  ASSUME OnlyStatementsFail, SessionInv, InStep, NEW cl \in Client, RollbackOne(cl)
  PROVE  InStep'
<1>1. /\ OthersKeep(cl) /\ log' = log
      /\ pc[cl] = "rollback" /\ (Turns(cl) \/ Ends(cl, FALSE))
  BY RollbackStep DEF SessionInv, ControlInv
<1>2. ~Committing(cl) /\ ~Committing(cl)'
  BY <1>1 DEF Committing, Turns, Ends
<1>. QED
  BY <1>1, <1>2, InStepKeep

LEMMA InStepCommit ==
  ASSUME OnlyStatementsFail, SessionInv, InStep, NEW cl \in Client, CommitOne(cl)
  PROVE  InStep'
<1>1. /\ OthersKeep(cl) /\ pc[cl] = "commit"
      /\ \A b \in Backend :
            /\ pend'[cl][b] = IF b = At(cl) /\ ~Inner(cl) THEN <<>> ELSE pend[cl][b]
            /\ log'[b] = IF b = At(cl) /\ ~Inner(cl) THEN log[b] \o pend[cl][b] ELSE log[b]
      /\ Turns(cl) \/ (AtEnd(cl) /\ Ends(cl, Inner(cl)))
  BY CommitStep DEF SessionInv, ControlInv
<1>2. /\ pos[cl] \in Places(cl) /\ Final \in Backend /\ At(cl) \in Backend
      /\ AtEnd(cl) <=> At(cl) = Final
      /\ AtEnd(cl) => \A b \in Backend : b # At(cl) => b < At(cl)
      /\ ~(At(cl) < At(cl)) /\ ~(Final < At(cl))
  <2>1. /\ pos[cl] \in Places(cl)
    BY DEF SessionInv, ControlInv, Control
  <2>2. /\ Final \in Backend /\ At(cl) \in Backend
        /\ \A b \in Backend : b \in Int /\ ~(Final < b)
        /\ AtEnd(cl) <=> At(cl) = Final
        /\ AtEnd(cl) => \A b \in Backend : b # At(cl) => b < At(cl)
    BY <2>1, PlaceLemma
  <2>. QED
    BY <2>1, <2>2
<1>3. /\ log \in [Backend -> Seq(Work)] /\ pend \in [Client -> [Backend -> Seq(Work)]]
  BY DEF SessionInv, ControlInv, Shapes
<1>4. ~Inner(cl) => pend[cl][At(cl)] = Base(cl)
  BY <1>1, <1>2 DEF SessionInv, Modified
<1>5. CASE Inner(cl)
  <2>1. ~Committing(cl)
    BY <1>5 DEF Committing
  <2>2. ~Committing(cl)'
    BY <1>1, <1>5 DEF Committing, Turns, Ends, Inner
  <2>. QED
    BY <1>1, <1>5, <2>1, <2>2, InStepKeep
<1>6. CASE ~Inner(cl) /\ Base(cl) = <<>>
  <2>1. ~Committing(cl)
    BY <1>6 DEF Committing
  <2>2. Base(cl)' = <<>>
    BY <1>1, <1>2, <1>6 DEF Base
  <2>3. ~Committing(cl)'
    BY <2>2 DEF Committing
  <2>4. \A s \in Seq(Work) : s \o <<>> = s
    OBVIOUS
  <2>5. \A b \in Backend : log'[b] = log[b]
    BY <1>1, <1>3, <1>4, <1>6, <2>4
  <2>. QED
    BY <1>1, <2>1, <2>3, <2>5, InStepKeep
<1>7. CASE ~Inner(cl) /\ Base(cl) # <<>>
  <2>1. Committing(cl)
    BY <1>1, <1>7 DEF Committing
  <2>2. \A b \in Backend : log[b] = IF b < At(cl) THEN log[Final] \o Base(cl) ELSE log[Final]
    BY <2>1 DEF InStep
  <2>3. ASSUME NEW c \in Client, c # cl
        PROVE  ~Committing(c)'
    <3>1. lock[Final] = cl
      BY <2>1, OneCommits
    <3>2. Committing(c) => lock[Final] = c
      BY OneCommits
    <3>3. Committing(c)' <=> Committing(c)
      BY <1>1, <2>3, CommittingOthers
    <3>. QED
      BY <2>3, <3>1, <3>2, <3>3
  <2>4. log'[At(cl)] = log[Final] \o Base(cl)
    BY <1>1, <1>2, <1>4, <1>7, <2>2
  <2>5. \A b \in Backend : b # At(cl) => log'[b] = log[b]
    BY <1>1
  <2>6. CASE Turns(cl)
    <3>1. /\ \A b \in Backend : b < At(cl)' <=> b < At(cl) \/ b = At(cl)
          /\ ~AtEnd(cl) /\ pc'[cl] = "commit" /\ (Inner(cl)' <=> Inner(cl))
      BY <1>1, <1>2, <2>6, PassLemma DEF Turns, Inner
    <3>2. Base(cl)' = Base(cl) /\ log'[Final] = log[Final]
      BY <1>1, <1>2, <3>1 DEF Base
    <3>3. ASSUME NEW b \in Backend
          PROVE  log'[b] = IF b < At(cl)' THEN log'[Final] \o Base(cl)' ELSE log'[Final]
      <4>1. CASE b = At(cl)
        BY <2>4, <3>1, <3>2, <4>1
      <4>2. CASE b # At(cl)
        BY <2>2, <2>5, <3>1, <3>2, <4>2
      <4>. QED
        BY <4>1, <4>2
    <3>4. Committing(cl)'
      BY <1>7, <3>1, <3>2 DEF Committing
    <3>. QED
      BY <2>3, <3>3, <3>4 DEF InStep
  <2>7. CASE AtEnd(cl) /\ Ends(cl, Inner(cl))
    <3>1. ~Committing(cl)'
      BY <2>7 DEF Ends, Committing
    <3>2. ASSUME NEW b \in Backend
          PROVE  log'[b] = log[Final] \o Base(cl)
      <4>1. CASE b = At(cl)
        BY <2>4, <4>1
      <4>2. CASE b # At(cl)
        BY <1>2, <2>2, <2>5, <2>7, <4>2
      <4>. QED
        BY <4>1, <4>2
    <3>3. \A a, b \in Backend : log'[a] = log'[b]
      BY <3>2
    <3>. QED
      BY <2>3, <3>1, <3>3 DEF InStep
  <2>. QED
    BY <1>1, <2>6, <2>7
<1>. QED
  BY <1>5, <1>6, <1>7

-------------------------------------------------------------------------------
(* The theorems                                                             *)

DataInv == SessionInv /\ Owned /\ Arriving /\ ReturnedEverywhere /\ InStep

LEMMA DataInit == Init => DataInv
<1> SUFFICES ASSUME Init
             PROVE  DataInv
  OBVIOUS
<1>1. SessionInv
  BY SessionInit
<1>2. /\ unused = Work /\ threw = {} /\ returned = {}
      /\ \A b \in Backend : log[b] = <<>>
      /\ \A cl \in Client : /\ pc[cl] = "idle" /\ stmt[cl] = NoWork
                            /\ \A b \in Backend : pend[cl][b] = <<>>
  BY DEF Init
<1>3. Range(<<>>) = {}
  BY DEF Range
<1>4. Logged = {} /\ \A cl \in Client : Mine(cl) = {}
  BY <1>2, <1>3, NoAssumption DEF Logged, Mine
<1>5. Owned
  BY <1>2, <1>4 DEF Owned
<1>6. Arriving /\ ReturnedEverywhere
  BY <1>2 DEF Arriving, ReturnedEverywhere
<1>7. InStep
  <2>1. \A cl \in Client : ~Committing(cl)
    BY <1>2 DEF Committing
  <2>. QED
    BY <1>2, <2>1 DEF InStep
<1>. QED
  BY <1>1, <1>5, <1>6, <1>7 DEF DataInv

LEMMA DataNext == OnlyStatementsFail /\ DataInv /\ [Next]_vars => DataInv'
<1> SUFFICES ASSUME OnlyStatementsFail, DataInv, [Next]_vars
             PROVE  DataInv'
  OBVIOUS
<1>1. SessionInv /\ ControlInv /\ Owned /\ Arriving /\ ReturnedEverywhere /\ InStep
  BY DEF DataInv, SessionInv
<1>2. SessionInv'
  BY <1>1, SessionNext
<1>3. CASE UNCHANGED vars
  <2>1. /\ \A cl : /\ Mine(cl)' = Mine(cl) /\ At(cl)' = At(cl) /\ Base(cl)' = Base(cl)
                   /\ Committing(cl)' <=> Committing(cl)
        /\ Logged' = Logged
    BY <1>3 DEF Mine, At, Base, Committing, Inner, Logged, vars
  <2>2. Owned'
    BY <1>1, <1>3, <2>1 DEF Owned, vars
  <2>3. Arriving' /\ ReturnedEverywhere'
    BY <1>1, <1>3, <2>1 DEF Arriving, ReturnedEverywhere, vars
  <2>4. InStep'
    BY <1>1, <1>3, <2>1 DEF InStep, vars
  <2>. QED
    BY <1>2, <2>2, <2>3, <2>4 DEF DataInv
<1>4. ASSUME NEW cl \in Client,
             (\E w \in Work : Execute(cl, w)) \/ ExplicitBegin(cl) \/ ExplicitEnd(cl)
      PROVE  DataInv'
  BY <1>1, <1>2, <1>4, OwnedCall, ArrivingCall, InStepCall DEF DataInv
<1>5. ASSUME NEW cl \in Client, BeginOne(cl)
      PROVE  DataInv'
  BY <1>1, <1>2, <1>5, OwnedBegin, ArrivingBegin, InStepBegin DEF DataInv
<1>6. ASSUME NEW cl \in Client, ExecOne(cl)
      PROVE  DataInv'
  BY <1>1, <1>2, <1>6, OwnedExec, ArrivingExec, InStepExec DEF DataInv
<1>7. ASSUME NEW cl \in Client, CommitOne(cl)
      PROVE  DataInv'
  BY <1>1, <1>2, <1>7, OwnedCommit, ArrivingCommit, InStepCommit DEF DataInv
<1>8. ASSUME NEW cl \in Client, RollbackOne(cl)
      PROVE  DataInv'
  BY <1>1, <1>2, <1>8, OwnedRollback, ArrivingRollback, InStepRollback DEF DataInv
<1>. QED
  BY <1>3, <1>4, <1>5, <1>6, <1>7, <1>8, NextCases

LEMMA DataAlways == ASSUME OnlyStatementsFail PROVE Spec => []DataInv
<1>1. Init => DataInv
  BY DataInit
<1>2. DataInv /\ [Next]_vars => DataInv'
  BY DataNext
<1>. QED
  BY <1>1, <1>2, PTL DEF Spec

(* No database keeps a statement whose execute() threw.                     *)
THEOREM FailedNowhereHolds == ASSUME OnlyStatementsFail PROVE Spec => []FailedNowhere
<1>1. DataInv => FailedNowhere
  <2> SUFFICES ASSUME DataInv, NEW b \in Backend, NEW w \in Range(log[b]), w \in threw
               PROVE  FALSE
    BY DEF FailedNowhere
  <2>1. w \in Work /\ w \in Logged
    BY DEF DataInv, SessionInv, ControlInv, Shapes, Logged
  <2>. QED
    BY <2>1 DEF DataInv, Owned
<1>. QED
  BY <1>1, DataAlways, PTL

(* A statement whose execute() returned is committed on every database.     *)
THEOREM ReturnedEverywhereHolds ==
  ASSUME OnlyStatementsFail PROVE Spec => []ReturnedEverywhere
<1>1. DataInv => ReturnedEverywhere
  BY DEF DataInv
<1>. QED
  BY <1>1, DataAlways, PTL

LEMMA PrefixLemma ==
  ASSUME NEW S, NEW s \in Seq(S), NEW t \in Seq(S)
  PROVE  IsPrefix(s, s) /\ IsPrefix(s, s \o t)
<1>1. IsPrefix(s, s)
  BY DEF IsPrefix
<1>2. IsPrefix(s, s \o t)
  <2> DEFINE u == s \o t
             n == Len(s)
  <2>1. /\ u \in Seq(S) /\ Len(u) = n + Len(t) /\ n \in Nat /\ Len(t) \in Nat
        /\ \A i \in 1..n : u[i] = s[i]
    OBVIOUS
  <2> HIDE DEF u
  <2>2. n <= Len(u)
    BY <2>1
  <2>3. /\ SubSeq(s, 1, n) \in Seq(S) /\ Len(SubSeq(s, 1, n)) = n
        /\ \A i \in 1..n : SubSeq(s, 1, n)[i] = s[i]
    BY <2>1, ResizeLemma
  <2>4. /\ SubSeq(u, 1, n) \in Seq(S) /\ Len(SubSeq(u, 1, n)) = n
        /\ \A i \in 1..n : SubSeq(u, 1, n)[i] = u[i]
    BY <2>1, <2>2, ResizeLemma
  <2>5. SubSeq(s, 1, n) = SubSeq(u, 1, n)
    BY <2>1, <2>3, <2>4, SeqEqual
  <2>. QED
    BY <2>2, <2>5 DEF IsPrefix, u
<1>. QED
  BY <1>1, <1>2

(* A database lags behind an earlier one, and never differs from it.        *)
THEOREM ReplicasInStepHolds == ASSUME OnlyStatementsFail PROVE Spec => []ReplicasInStep
<1>1. DataInv => ReplicasInStep
  <2> SUFFICES ASSUME DataInv, NEW a \in Backend, NEW b \in Backend, a < b
               PROVE  IsPrefix(log[b], log[a])
    BY DEF ReplicasInStep
  <2>1. /\ InStep /\ log \in [Backend -> Seq(Work)]
        /\ \A c \in Client : pend[c] \in [Backend -> Seq(Work)] /\ pos[c] \in Places(c)
    BY DEF DataInv, SessionInv, ControlInv, Control, Shapes
  <2>2. CASE \A c \in Client : ~Committing(c)
    <3>1. log[b] = log[a]
      BY <2>1, <2>2 DEF InStep
    <3>. QED
      BY <2>1, <3>1, PrefixLemma
  <2>3. ASSUME NEW c \in Client, Committing(c)
        PROVE  IsPrefix(log[b], log[a])
    <3>1. /\ \A x \in Backend :
                log[x] = IF x < At(c) THEN log[Final] \o Base(c) ELSE log[Final]
      BY <2>1, <2>3 DEF InStep
    <3>2. Final \in Backend /\ a \in Int /\ b \in Int /\ At(c) \in Int
      BY <2>1, PlaceLemma
    <3>3. log[Final] \in Seq(Work) /\ Base(c) \in Seq(Work)
      BY <2>1, <3>2 DEF Base
    <3>4. b < At(c) => a < At(c)
      BY <3>2
    <3>5. log[a] = log[b] \/ log[a] = log[b] \o Base(c)
      BY <3>1, <3>4
    <3>. QED
      BY <2>1, <3>3, <3>5, PrefixLemma
  <2>. QED
    BY <2>2, <2>3
<1>. QED
  BY <1>1, DataAlways, PTL

(* When no program is in a call or a transaction, no database is, and all   *)
(* hold the same data.                                                      *)
THEOREM QuietMeansSettledHolds ==
  ASSUME OnlyStatementsFail PROVE Spec => []QuietMeansSettled
<1>1. DataInv => QuietMeansSettled
  <2> SUFFICES ASSUME DataInv, \A cl \in Client : pc[cl] = "idle" /\ ~inTxn[cl]
               PROVE  /\ \A cl \in Client, b \in Backend :
                            sess[cl][b].depth = 0 /\ ~sess[cl][b].open
                      /\ \A b \in Backend : lock[b] = NoClient
                      /\ \A a, b \in Backend : log[a] = log[b]
    BY DEF QuietMeansSettled
  <2>1. \A cl \in Client : Control(cl) /\ Locks(cl)
    BY DEF DataInv, SessionInv, ControlInv
  <2>2. \A cl \in Client, b \in Backend : Depth(cl, b) = 0
    BY DEF Depth
  <2>3. ASSUME NEW cl \in Client, NEW b \in Backend
        PROVE  sess[cl][b].depth = 0 /\ ~sess[cl][b].open
    <3>1. sess[cl][b] = Counted(0)
      BY <2>1, <2>2 DEF Control
    <3>2. 0 \in Nat /\ ~(0 > 0)
      OBVIOUS
    <3>3. Counted(0).depth = 0 /\ ~Counted(0).open
      BY <3>2, CountedLemma
    <3>. QED
      BY <3>1, <3>3
  <2>4. ASSUME NEW b \in Backend
        PROVE  lock[b] = NoClient
    <3>1. lock[b] \in Client \cup {NoClient}
      BY DEF DataInv, SessionInv, ControlInv, Shapes
    <3>2. \A cl \in Client : lock[b] # cl
      BY <2>1, <2>2 DEF Locks
    <3>. QED
      BY <3>1, <3>2
  <2>5. \A cl \in Client : ~Committing(cl)
    BY DEF Committing
  <2>6. \A a, b \in Backend : log[a] = log[b]
    BY <2>5 DEF DataInv, InStep
  <2>. QED
    BY <2>3, <2>4, <2>6
<1>. QED
  BY <1>1, DataAlways, PTL

LEMMA LeastLemma ==
  ASSUME NEW T \in SUBSET Nat, T # {}
  PROVE  \E m \in T : \A n \in T : ~(n < m)
<1> DEFINE R == OpToRel(<, Nat)
<1>1. IsWellFoundedOn(R, Nat)
  BY NatLessThanWellFounded
<1>2. \A x, y \in Nat : <<x, y>> \in R <=> x < y
  BY DEF OpToRel
<1> HIDE DEF R
<1>3. \E m \in T : \A n \in T : ~(<<n, m>> \in R)
  BY <1>1, WFMin
<1>. QED
  BY <1>2, <1>3

(* Of clients in loops one has come furthest.                               *)
LEMMA FurthestLemma ==
  ASSUME ControlInv, NEW T \in SUBSET Client, T # {}
  PROVE  \E c \in T : \A d \in T : ~(At(c) < At(d))
<1> DEFINE Left(c) == Final - At(c)
           N == {Left(c) : c \in T}
<1>1. \A c \in T : Final \in Int /\ At(c) \in Int /\ ~(Final < At(c))
  <2>1. ASSUME NEW c \in T
        PROVE  Final \in Int /\ At(c) \in Int /\ ~(Final < At(c))
    <3>1. c \in Client /\ pos[c] \in Places(c)
      BY DEF ControlInv, Control
    <3>. QED
      BY <3>1, PlaceLemma
  <2>. QED
    BY <2>1
<1>2. \A c \in T : Left(c) \in Nat
  BY <1>1
<1>3. N \in SUBSET Nat /\ N # {}
  BY <1>2
<1>4. PICK m \in N : \A n \in N : ~(n < m)
  BY <1>3, LeastLemma
<1>5. PICK c \in T : m = Left(c)
  BY <1>4
<1>6. ASSUME NEW d \in T, At(c) < At(d)
      PROVE  FALSE
  <2>1. Left(d) \in N /\ ~(Left(d) < Left(c))
    BY <1>4, <1>5
  <2>. QED
    BY <1>1, <1>6, <2>1
<1>. QED
  BY <1>6

(* One who waits does not hold what it waits for.                           *)
LEMMA WaitLemma ==
  ASSUME SessionInv, NEW c \in Client, Waits(c)
  PROVE  /\ At(c) \in Backend /\ lock[At(c)] \in Client \ {c}
         /\ pc[c] = "exec" => At(c) \notin immediate
         /\ pc[c] = "begin" => At(c) \in immediate /\ ~Inner(c)
         /\ pc[c] \in {"exec", "begin"}
<1>1. Control(c) /\ Locks(c)
  BY DEF SessionInv, ControlInv
<1>2. At(c) \in Backend
  BY <1>1, PlaceLemma DEF Control
<1>3. lock[At(c)] \in Client \cup {NoClient} /\ lock[At(c)] \notin {c, NoClient}
  BY <1>2 DEF SessionInv, ControlInv, Shapes, Waits, LockFree
<1>4. pc[c] = "exec" => Depth(c, At(c)) > 0
  BY DEF Depth
<1>5. pc[c] = "begin" /\ Inner(c) => Depth(c, At(c)) > 0
  BY DEF Depth
<1>6. At(c) \in immediate => ~(Depth(c, At(c)) > 0)
  BY <1>1, <1>2, <1>3 DEF Locks
<1>. QED
  BY <1>2, <1>3, <1>4, <1>5, <1>6 DEF Waits

(* A client that waits holds what its loop has passed, or what locks when   *)
(* a transaction begins.                                                    *)
LEMMA HeldLemma ==
  ASSUME SessionInv, NEW h \in Client, Waits(h), NEW b \in Backend, lock[b] = h
  PROVE  /\ pc[h] = "exec" /\ b \notin immediate => b < At(h)
         /\ pc[h] = "begin" => b < At(h) /\ b \in immediate
<1>1. Locks(h) /\ Modified(h) /\ Control(h)
  BY DEF SessionInv, ControlInv
<1>2. /\ At(h) \in Backend /\ lock[At(h)] # h
      /\ pc[h] = "begin" => At(h) \in immediate /\ ~Inner(h)
  BY WaitLemma
<1>3. pend[h][At(h)] = <<>>
  BY <1>1, <1>2 DEF Locks
<1>4. Depth(h, b) > 0 /\ (b \in immediate \/ pend[h][b] # <<>>)
  BY <1>1 DEF Locks
<1>5. ASSUME pc[h] = "exec", b \notin immediate
      PROVE  b < At(h)
  <2>1. ~(At(h) < At(h))
    BY <1>1, PlaceLemma DEF Control
  <2>2. Base(h) = <<>>
    BY <1>1, <1>2, <1>3, <1>5, <2>1 DEF Modified
  <2>. QED
    BY <1>1, <1>4, <1>5, <2>2 DEF Modified
<1>6. ASSUME pc[h] = "begin"
      PROVE  b < At(h) /\ b \in immediate
  <2>1. b < At(h)
    BY <1>2, <1>4, <1>6 DEF Depth
  <2>2. pend[h][b] = pend[h][At(h)]
    BY <1>1, <1>2, <1>6 DEF Modified
  <2>. QED
    BY <1>3, <1>4, <2>1, <2>2
<1>. QED
  BY <1>5, <1>6

(* No clients wait for each other in a circle: a client that executes waits *)
(* for one that executes further on, and one that begins for one that       *)
(* begins further on, or executes.                                          *)
THEOREM NoDeadlockHolds == ASSUME OnlyStatementsFail PROVE Spec => []NoDeadlock
<1>1. DataInv => NoDeadlock
  <2> SUFFICES ASSUME DataInv, NEW S \in SUBSET Client, S # {},
                      \A c \in S : Waits(c) /\ lock[At(c)] \in S
               PROVE  FALSE
    BY DEF NoDeadlock
  <2>1. SessionInv /\ ControlInv
    BY DEF DataInv, SessionInv
  <2> DEFINE E == {c \in S : pc[c] = "exec"}
             T == IF E # {} THEN E ELSE S
  <2>2. T \in SUBSET Client /\ T # {}
    OBVIOUS
  <2>3. ASSUME NEW c \in T
        PROVE  \E h \in T : At(c) < At(h)
    <3> DEFINE h == lock[At(c)]
    <3>1. c \in S /\ c \in Client /\ Waits(c) /\ h \in S /\ h \in Client /\ Waits(h)
      OBVIOUS
    <3>2. /\ At(c) \in Backend
          /\ pc[c] = "exec" => At(c) \notin immediate
          /\ pc[c] = "begin" => At(c) \in immediate
          /\ pc[c] \in {"exec", "begin"}
      BY <2>1, <3>1, WaitLemma
    <3>3. pc[h] \in {"exec", "begin"}
      BY <2>1, <3>1, WaitLemma
    <3>4. /\ pc[h] = "exec" /\ At(c) \notin immediate => At(c) < At(h)
          /\ pc[h] = "begin" => At(c) < At(h) /\ At(c) \in immediate
      BY <2>1, <3>1, <3>2, HeldLemma
    <3>5. CASE E # {}
      <4>1. pc[c] = "exec" /\ T = E
        BY <3>5
      <4>2. pc[h] = "exec" /\ At(c) < At(h)
        BY <3>2, <3>3, <3>4, <4>1
      <4>. QED
        BY <3>1, <4>1, <4>2
    <3>6. CASE E = {}
      <4>1. pc[h] # "exec" /\ T = S
        BY <3>1, <3>6
      <4>. QED
        BY <3>1, <3>3, <3>4, <4>1
    <3>. QED
      BY <3>5, <3>6
  <2> HIDE DEF T
  <2>4. PICK c \in T : \A d \in T : ~(At(c) < At(d))
    BY <2>1, <2>2, FurthestLemma
  <2>. QED
    BY <2>3, <2>4
<1>. QED
  BY <1>1, DataAlways, PTL
================================================================================
