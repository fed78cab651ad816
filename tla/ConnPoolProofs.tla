---------------------------- MODULE ConnPoolProofs ----------------------------
(***************************************************************************)
(* Proofs about ConnPool for any number of clients and connections.        *)
(* Structure: SInv says who may be where and owns what; it is inductive.   *)
(* The other invariants are inductive relative to it.                      *)
(***************************************************************************)
EXTENDS ConnPool, SequenceTheorems, TLAPS

-------------------------------------------------------------------------------
(* What std::vector does to its elements, a sequence without duplicates.    *)

(* resize(n) to a smaller size keeps the first n elements, in order.        *)
LEMMA ResizeLemma ==
  ASSUME NEW S, NEW s \in Seq(S), NEW n \in Nat, n <= Len(s)
  PROVE  /\ SubSeq(s, 1, n) \in Seq(S)
         /\ Len(SubSeq(s, 1, n)) = n
         /\ \A i \in 1..n : SubSeq(s, 1, n)[i] = s[i]
         /\ Range(SubSeq(s, 1, n)) \subseteq Range(s)
         /\ IsInjective(s) => IsInjective(SubSeq(s, 1, n))
<1> DEFINE t == SubSeq(s, 1, n)
<1>1. \A i \in 1..n : s[i] \in S
  BY ElementOfSeq
<1>2. /\ t \in Seq(S)
      /\ Len(t) = n
      /\ \A i \in 1..n : t[i] = s[i]
  <2>1. /\ t \in Seq(S)
        /\ Len(t) = IF 1 <= n THEN n - 1 + 1 ELSE 0
        /\ \A i \in 1 .. n-1+1 : t[i] = s[1+i-1]
    BY <1>1, SubSeqProperties
  <2>. QED
    BY <2>1
<1>3. DOMAIN t = 1..n /\ DOMAIN s = 1..Len(s)
  BY <1>2
<1>4. Range(t) \subseteq Range(s)
  BY <1>2, <1>3 DEF Range
<1>5. IsInjective(s) => IsInjective(t)
  BY <1>2, <1>3 DEF IsInjective
<1>. QED
  BY <1>2, <1>4, <1>5

(* pop_back removes exactly the element back() returned.                    *)
LEMMA PopBackLemma ==
  ASSUME NEW S, NEW s \in Seq(S), s # <<>>
  PROVE  /\ Front(s) \in Seq(S)
         /\ Len(s) > 0 /\ Len(Front(s)) = Len(s) - 1
         /\ Last(s) \in S /\ Last(s) \in Range(s)
         /\ Range(s) = Range(Front(s)) \cup {Last(s)}
         /\ IsInjective(s) => IsInjective(Front(s)) /\ Last(s) \notin Range(Front(s))
<1> DEFINE n == Len(s) - 1
           t == SubSeq(s, 1, n)
<1>1. Len(s) \in Nat /\ Len(s) > 0 /\ DOMAIN s = 1..Len(s)
  OBVIOUS
<1>2. n \in Nat /\ n <= Len(s)
  BY <1>1
<1>3. /\ t \in Seq(S)
      /\ Len(t) = n
      /\ \A i \in 1..n : t[i] = s[i]
      /\ Range(t) \subseteq Range(s)
      /\ IsInjective(s) => IsInjective(t)
  BY <1>2, ResizeLemma
<1>4. DOMAIN t = 1..n
  BY <1>3
<1>5. Last(s) = s[Len(s)] /\ Last(s) \in S /\ Last(s) \in Range(s)
  BY <1>1 DEF Last, Range
<1>6. Range(s) \subseteq Range(t) \cup {Last(s)}
  <2>1. ASSUME NEW i \in 1..Len(s), i # Len(s)
        PROVE  s[i] \in Range(t)
    <3>1. i \in 1..n
      BY <2>1
    <3>. QED
      BY <1>3, <1>4, <3>1 DEF Range
  <2>. QED
    BY <1>1, <1>5, <2>1 DEF Range
<1>7. IsInjective(s) => Last(s) \notin Range(t)
  BY <1>1, <1>3, <1>4, <1>5 DEF Range, IsInjective
<1>. QED
  BY <1>1, <1>3, <1>5, <1>6, <1>7 DEF Front

(* emplace_back adds exactly the new element.                               *)
LEMMA PushBackLemma ==
  ASSUME NEW S, NEW s \in Seq(S), NEW e \in S
  PROVE  /\ Append(s, e) \in Seq(S)
         /\ Len(Append(s, e)) = Len(s) + 1
         /\ Range(Append(s, e)) = Range(s) \cup {e}
         /\ IsInjective(s) /\ e \notin Range(s) => IsInjective(Append(s, e))
<1> DEFINE t == Append(s, e)
<1>1. /\ t \in Seq(S)
      /\ Len(t) = Len(s) + 1
      /\ \A i \in 1..Len(s) : t[i] = s[i]
      /\ t[Len(s) + 1] = e
  BY AppendProperties
<1>2. DOMAIN s = 1..Len(s) /\ DOMAIN t = 1..(Len(s) + 1) /\ Len(s) \in Nat
  BY <1>1
<1>3. Range(t) = Range(s) \cup {e}
  BY <1>1, <1>2 DEF Range
<1>4. IsInjective(s) /\ e \notin Range(s) => IsInjective(t)
  BY <1>1, <1>2 DEF Range, IsInjective
<1>. QED
  BY <1>1, <1>3, <1>4

-------------------------------------------------------------------------------
(* What one call of a driver does to a session.                             *)

LEMMA ClosedFresh == Closed \in Session /\ Fresh \in Session
BY DEF Closed, Fresh, Session

LEMMA LostLemma ==
  ASSUME NEW s \in Session
  PROVE  /\ Lost(s) \in Session
         /\ ~Lost(s).up /\ ~Lost(s).open /\ Lost(s).depth = s.depth
BY DEF Lost, Session

(* begin: a transaction is open or counted afterwards only if it was        *)
(* before or the call returned; a call that throws changes nothing.         *)
LEMMA BeginLemma ==
  ASSUME NEW s \in Session, NEW ok \in BOOLEAN, BeginMay(s, ok)
  PROVE  /\ Begun(s, ok) \in Session
         /\ Begun(s, ok).up = s.up
         /\ ~ok => Begun(s, ok) = s
         /\ ok => Begun(s, ok).depth = s.depth + 1
<1>1. CASE ok
  <2>1. Begun(s, ok) = [s EXCEPT !.depth = @ + 1, !.open = s.open \/ TellsBegin(s)]
    BY <1>1 DEF Begun
  <2>2. (s.open \/ TellsBegin(s)) \in BOOLEAN /\ s.depth + 1 \in Nat
    BY DEF Session
  <2>. QED
    BY <1>1, <2>1, <2>2 DEF Session
<1>2. CASE ~ok
  BY <1>2 DEF Begun
<1>. QED
  BY <1>1, <1>2

(* commit and rollback: they open nothing, and the outermost one that       *)
(* returns leaves no transaction open and none counted.                     *)
LEMMA EndLemma ==
  ASSUME NEW s \in Session, NEW ok \in BOOLEAN, NEW pending \in BOOLEAN,
         EndMay(s, ok, pending)
  PROVE  /\ Ended(s, pending) \in Session
         /\ Ended(s, pending).up = s.up
         /\ Ended(s, pending).open = pending
         /\ Ended(s, pending).depth = CountDown(s)
         /\ CountDown(s) \in Nat
         /\ s.depth <= 1 => CountDown(s) = 0
         /\ pending => s.open
         /\ s.depth <= 1 /\ ok => ~pending
<1>1. CountDown(s) \in Nat /\ (s.depth <= 1 => CountDown(s) = 0)
  BY DEF CountDown, Session
<1>2. /\ Ended(s, pending) \in Session
      /\ Ended(s, pending).up = s.up
      /\ Ended(s, pending).open = pending
      /\ Ended(s, pending).depth = CountDown(s)
  BY <1>1 DEF Ended, Session
<1>3. (pending => s.open) /\ (s.depth <= 1 /\ ok => ~pending)
  BY <1>1 DEF EndMay
<1>. QED
  BY <1>1, <1>2, <1>3

LEMMA ExecuteLemma ==
  ASSUME NEW s \in Session
  PROVE  /\ Executed(s) \in Session
         /\ Executed(s).up = s.up
         /\ Executed(s).depth = s.depth
         /\ Executed(s).open => s.open \/ s.depth > 0
<1>1. (s.open \/ s.depth > 0) \in BOOLEAN
  OBVIOUS
<1>. QED
  BY <1>1 DEF Executed, Session

-------------------------------------------------------------------------------
(* The mutex is held exactly by the client inside connect(), and a ping     *)
(* that was answered came from a spare connection that is still there.      *)
LockInv ==
    /\ \A cl \in Client : pc[cl] \in {"scan", "answered"} <=> mutex = cl
    /\ \A cl \in Client : pc[cl] = "answered" => pool # <<>>

(* A client has a raw connection exactly while it is using one.             *)
HoldInv == \A cl \in Client : held[cl] \in Conn <=> pc[cl] = "using"

SInv == TypeOK /\ LockInv /\ HoldInv /\ ExclusiveUse

-------------------------------------------------------------------------------
(* Destroying connections keeps the types.                                  *)
LEMMA DestroyLemma ==
  ASSUME TypeOK, NEW S, Destroy(S)
  PROVE  /\ sess' \in [Conn -> Session]
         /\ suspect' \subseteq suspect /\ suspect' \cap S = {}
         /\ deadAtLock' \subseteq deadAtLock /\ deadAtLock' \cap S = {}
         /\ \A c \in Conn : c \notin S => sess'[c] = sess[c]
BY ClosedFresh DEF TypeOK, Destroy

(* resize: the vector keeps its oldest connections, the others are closed.  *)
LEMMA ResizePool ==
  ASSUME TypeOK, ExclusiveUse, NEW n \in Nat, n < Len(pool), Resize(n)
  PROVE  /\ pool' \in Seq(Conn) /\ Len(pool') = n
         /\ Pooled' \subseteq Pooled
         /\ IsInjective(pool')
         /\ Destroy(Pooled \ Pooled')
<1>1. Len(pool) \in Nat /\ n <= Len(pool) /\ pool \in Seq(Conn)
  BY DEF TypeOK
<1>2. pool' = SubSeq(pool, 1, n)
  BY DEF Resize
<1>3. /\ pool' \in Seq(Conn) /\ Len(pool') = n
      /\ Range(pool') \subseteq Range(pool)
      /\ IsInjective(pool')
  BY <1>1, <1>2, ResizeLemma DEF ExclusiveUse
<1>. QED
  BY <1>2, <1>3 DEF Resize, Pooled

(* pop_back takes the connection back() returned out of the pool.           *)
LEMMA PopPool ==
  ASSUME TypeOK, ExclusiveUse, pool # <<>>, pool' = Front(pool)
  PROVE  /\ pool' \in Seq(Conn)
         /\ Len(pool) \in Nat /\ Len(pool') = Len(pool) - 1
         /\ Last(pool) \in Conn
         /\ Pooled' = Pooled \ {Last(pool)} /\ Last(pool) \in Pooled
         /\ IsInjective(pool')
<1>1. pool \in Seq(Conn) /\ IsInjective(pool)
  BY DEF TypeOK, ExclusiveUse
<1>2. /\ Front(pool) \in Seq(Conn)
      /\ Len(pool) > 0 /\ Len(Front(pool)) = Len(pool) - 1
      /\ Last(pool) \in Conn /\ Last(pool) \in Range(pool)
      /\ Range(pool) = Range(Front(pool)) \cup {Last(pool)}
      /\ IsInjective(Front(pool)) /\ Last(pool) \notin Range(Front(pool))
  BY <1>1, PopBackLemma
<1>. QED
  BY <1>1, <1>2 DEF Pooled

LEMMA PooledType ==
  ASSUME TypeOK
  PROVE  Pooled \subseteq Conn /\ NoConn \notin Pooled
BY RangeOfSeq, NoConnAssumption DEF TypeOK, Pooled

-------------------------------------------------------------------------------
(* The structural invariant                                                 *)

(* Steps on a session leave the structure alone.                            *)
LEMMA SessionStep ==
  ASSUME SInv, UNCHANGED <<mutex, pool, maxSpare, pc, held, deadAtLock>>,
         inTransaction' \in [Client -> BOOLEAN], dropFlag' \in [Client -> BOOLEAN],
         sess' \in [Conn -> Session], suspect' \subseteq Conn
  PROVE  SInv'
<1>1. TypeOK'
  BY DEF SInv, TypeOK
<1>2. LockInv' /\ HoldInv' /\ ExclusiveUse'
  BY DEF SInv, LockInv, HoldInv, ExclusiveUse, Pooled
<1>. QED
  BY <1>1, <1>2 DEF SInv

(* Steps of one client inside connect() that hand nothing out.              *)
LEMMA ConnectStep ==
  ASSUME SInv, NEW cl \in Client,
         Lock(cl) \/ PingAnswered(cl) \/ PingFailed(cl) \/ CreateFailed(cl)
  PROVE  SInv'
<1>. USE DEF SInv
<1>1. CASE Lock(cl)
  <2>1. Pooled \subseteq Conn
    BY PooledType
  <2>2. TypeOK'
    BY <1>1, <2>1 DEF Lock, TypeOK, PC, wrapperVars
  <2>3. LockInv'
    BY <1>1, NoClientAssumption DEF Lock, LockInv, TypeOK
  <2>4. HoldInv' /\ ExclusiveUse'
    BY <1>1 DEF Lock, HoldInv, ExclusiveUse, Pooled, TypeOK, wrapperVars
  <2>. QED
    BY <2>2, <2>3, <2>4
<1>2. CASE PingAnswered(cl)
  <2>1. TypeOK'
    BY <1>2 DEF PingAnswered, TypeOK, PC, wrapperVars
  <2>2. LockInv'
    BY <1>2 DEF PingAnswered, LockInv, TypeOK
  <2>3. HoldInv' /\ ExclusiveUse'
    BY <1>2 DEF PingAnswered, HoldInv, ExclusiveUse, Pooled, TypeOK, wrapperVars
  <2>. QED
    BY <2>1, <2>2, <2>3
<1>3. CASE PingFailed(cl)
  <2>1. pool # <<>> /\ pool' = Front(pool) /\ Destroy({Last(pool)})
        /\ pc[cl] = "scan" /\ UNCHANGED <<mutex, maxSpare, pc, wrapperVars>>
    BY <1>3 DEF PingFailed
  <2>2. pool' \in Seq(Conn) /\ IsInjective(pool') /\ Pooled' \subseteq Pooled
    BY <2>1, PopPool
  <2>3. TypeOK'
    BY <2>1, <2>2, DestroyLemma DEF TypeOK, wrapperVars
  <2>4. LockInv'
    BY <2>1 DEF LockInv, TypeOK
  <2>5. HoldInv' /\ ExclusiveUse'
    BY <2>1, <2>2 DEF HoldInv, ExclusiveUse, wrapperVars
  <2>. QED
    BY <2>3, <2>4, <2>5
<1>4. CASE CreateFailed(cl)
  <2>1. TypeOK'
    BY <1>4 DEF CreateFailed, TypeOK, PC, wrapperVars
  <2>2. LockInv'
    BY <1>4, NoClientAssumption DEF CreateFailed, LockInv, TypeOK
  <2>3. HoldInv' /\ ExclusiveUse'
    BY <1>4 DEF CreateFailed, HoldInv, ExclusiveUse, Pooled, TypeOK, wrapperVars
  <2>. QED
    BY <2>1, <2>2, <2>3
<1>. QED
  BY <1>1, <1>2, <1>3, <1>4

(* connect() hands out a connection that is in nobody's hands: it has just  *)
(* left the pool or has just been opened.                                   *)
LEMMA HandOutStep ==
  ASSUME SInv, NEW cl \in Client, Take(cl) \/ Create(cl)
  PROVE  SInv'
<1>. USE DEF SInv
<1>0. PICK c \in Conn :
        /\ HandOut(cl, c)
        /\ pc[cl] \in {"scan", "answered"}
        /\ pool' \in Seq(Conn) /\ IsInjective(pool') /\ Pooled' = Pooled \ {c}
        /\ \A a \in Client : held[a] # c
        /\ sess' \in [Conn -> Session]
        /\ UNCHANGED <<maxSpare, suspect>>
  <2>1. CASE Take(cl)
    <3>1. pool # <<>>
      BY <2>1 DEF Take, LockInv
    <3>2. pool' = Front(pool)
      BY <2>1 DEF Take
    <3>3. /\ pool' \in Seq(Conn) /\ IsInjective(pool')
          /\ Last(pool) \in Conn /\ Last(pool) \in Pooled
          /\ Pooled' = Pooled \ {Last(pool)}
      BY <3>1, <3>2, PopPool
    <3>. QED
      BY <2>1, <3>3 DEF Take, ExclusiveUse, TypeOK
  <2>2. CASE Create(cl)
    <3>1. PICK c \in Conn \ Owned : HandOut(cl, c) /\ sess' = [sess EXCEPT ![c] = Fresh]
      BY <2>2 DEF Create
    <3>2. Pooled' = Pooled \ {c} /\ \A a \in Client : held[a] # c
      BY <2>2, <3>1 DEF Create, Owned, Pooled
    <3>3. sess' \in [Conn -> Session]
      BY <3>1, ClosedFresh DEF TypeOK
    <3>. QED
      BY <2>2, <3>1, <3>2, <3>3 DEF Create, TypeOK, ExclusiveUse
  <2>. QED
    BY <2>1, <2>2
<1>1. TypeOK'
  BY <1>0 DEF HandOut, TypeOK, PC
<1>2. LockInv'
  BY <1>0, NoClientAssumption DEF HandOut, LockInv, TypeOK
<1>3. HoldInv'
  BY <1>0 DEF HandOut, HoldInv, TypeOK
<1>4. ExclusiveUse'
  <2>1. \A a \in Client : held'[a] = IF a = cl THEN c ELSE held[a]
    BY <1>0 DEF HandOut, TypeOK
  <2>2. \A a \in Client : held'[a] \notin Pooled'
    BY <1>0, <2>1 DEF ExclusiveUse
  <2>3. \A a, b \in Client : held'[a] = held'[b] /\ held'[a] # NoConn => a = b
    BY <1>0, <2>1 DEF ExclusiveUse
  <2>. QED
    BY <1>0, <2>2, <2>3 DEF ExclusiveUse
<1>. QED
  BY <1>1, <1>2, <1>3, <1>4

(* ~PoolConnection: the client's connection is closed, or becomes the       *)
(* newest spare one, which nobody else holds.                               *)
LEMMA ReleaseStep ==
  ASSUME SInv, NEW cl \in Client, DestroyDropped(cl) \/ DestroyPut(cl)
  PROVE  SInv'
<1>. USE DEF SInv
<1>1. /\ LetGo(cl)
      /\ held[cl] \in Conn /\ pc[cl] = "using"
  BY DEF DestroyDropped, DestroyPut, LetGo, HoldInv
<1>2. \/ pool' = pool /\ Destroy({held[cl]})
      \/ /\ mutex = NoClient
         /\ pool' = Append(pool, held[cl])
         /\ UNCHANGED <<sess, suspect, deadAtLock>>
  BY DEF DestroyDropped, DestroyPut
<1>3. /\ pool' \in Seq(Conn) /\ IsInjective(pool')
      /\ pool' = <<>> => pool = <<>>
      /\ Pooled' \subseteq Pooled \cup {held[cl]}
  <2>1. CASE pool' = pool
    BY <2>1 DEF TypeOK, ExclusiveUse, Pooled
  <2>2. CASE pool' = Append(pool, held[cl])
    <3>1. pool \in Seq(Conn) /\ held[cl] \notin Range(pool) /\ IsInjective(pool)
      BY DEF TypeOK, ExclusiveUse, Pooled
    <3>2. /\ pool' \in Seq(Conn)
          /\ Len(pool') = Len(pool) + 1
          /\ Range(pool') = Range(pool) \cup {held[cl]}
          /\ IsInjective(pool')
      BY <1>1, <2>2, <3>1, PushBackLemma
    <3>3. pool' # <<>>
      BY <3>1, <3>2
    <3>. QED
      BY <3>2, <3>3 DEF Pooled
  <2>. QED
    BY <1>2, <2>1, <2>2
<1>4. TypeOK'
  <2>1. sess' \in [Conn -> Session] /\ suspect' \subseteq Conn /\ deadAtLock' \subseteq Conn
    BY <1>2, DestroyLemma DEF TypeOK
  <2>. QED
    BY <1>1, <1>3, <2>1 DEF LetGo, TypeOK, PC
<1>5. LockInv'
  BY <1>1, <1>3 DEF LetGo, LockInv, TypeOK
<1>6. HoldInv'
  BY <1>1, NoConnAssumption DEF LetGo, HoldInv, TypeOK
<1>7. ExclusiveUse'
  <2>1. \A a \in Client : held'[a] = IF a = cl THEN NoConn ELSE held[a]
    BY <1>1 DEF LetGo, TypeOK
  <2>2. NoConn \notin Pooled'
    BY <1>1, <1>3, PooledType, NoConnAssumption
  <2>3. \A a \in Client : held'[a] \notin Pooled'
    BY <1>1, <1>3, <2>1, <2>2, NoConnAssumption DEF ExclusiveUse, HoldInv, TypeOK
  <2>4. \A a, b \in Client : held'[a] = held'[b] /\ held'[a] # NoConn => a = b
    BY <2>1 DEF ExclusiveUse
  <2>. QED
    BY <1>3, <2>3, <2>4 DEF ExclusiveUse
<1>. QED
  BY <1>4, <1>5, <1>6, <1>7

(* drop and setMaxSpare: the pool shrinks or stays.                         *)
LEMMA AdminStep ==
  ASSUME SInv, NEW m \in Spares, DropSpares(m) \/ SetMaxSpare(m)
  PROVE  SInv'
<1>. USE DEF SInv
<1>1. m \in Nat /\ Len(pool) \in Nat
  BY SparesAssumption DEF TypeOK
<1>2. /\ mutex = NoClient
      /\ maxSpare' \in Nat
      /\ UNCHANGED <<mutex, pc, wrapperVars>>
  BY <1>1 DEF DropSpares, SetMaxSpare, TypeOK
<1>3. /\ pool' \in Seq(Conn) /\ IsInjective(pool') /\ Pooled' \subseteq Pooled
      /\ sess' \in [Conn -> Session] /\ suspect' \subseteq Conn /\ deadAtLock' \subseteq Conn
  <2>1. CASE Len(pool) > m /\ Resize(m)
    BY <1>1, <2>1, ResizePool, DestroyLemma DEF TypeOK
  <2>2. CASE UNCHANGED <<pool, sess, suspect, deadAtLock>>
    BY <2>2 DEF TypeOK, ExclusiveUse, Pooled
  <2>. QED
    BY <2>1, <2>2 DEF DropSpares, SetMaxSpare
<1>4. TypeOK'
  BY <1>2, <1>3 DEF TypeOK, wrapperVars
<1>5. LockInv'
  BY <1>2, NoClientAssumption DEF LockInv
<1>6. HoldInv' /\ ExclusiveUse'
  BY <1>2, <1>3 DEF HoldInv, ExclusiveUse, wrapperVars
<1>. QED
  BY <1>4, <1>5, <1>6

(* The steps that only change a driver session and the wrapper's flags.     *)
SessionAction ==
    \/ \E cl \in Client :
        \/ BeginTransaction(cl) \/ CommitTransaction(cl) \/ RollbackTransaction(cl)
        \/ Execute(cl) \/ PingByClient(cl)
    \/ \E c \in Conn : ServerLoss(c)

LEMMA SessionActionStep ==
  ASSUME SInv, SessionAction
  PROVE  SInv'
<1>. USE DEF SInv
<1>1. ASSUME NEW cl \in Client, pc[cl] = "using"
      PROVE  held[cl] \in Conn /\ sess[held[cl]] \in Session
  BY <1>1 DEF HoldInv, TypeOK
<1>2. ASSUME NEW cl \in Client, BeginTransaction(cl)
      PROVE  SInv'
  <2>1. PICK ok \in BOOLEAN :
          /\ BeginMay(sess[held[cl]], ok)
          /\ sess' = [sess EXCEPT ![held[cl]] = Begun(@, ok)]
          /\ inTransaction' = [inTransaction EXCEPT ![cl] = inTransaction[cl] \/ ok]
    BY <1>2 DEF BeginTransaction
  <2>2. sess' \in [Conn -> Session]
    BY <1>1, <1>2, <2>1, BeginLemma DEF BeginTransaction, TypeOK
  <2>3. inTransaction' \in [Client -> BOOLEAN]
    BY <2>1 DEF TypeOK
  <2>. QED
    BY <1>2, <2>2, <2>3, SessionStep DEF BeginTransaction, TypeOK
<1>3. ASSUME NEW cl \in Client, NEW ok \in BOOLEAN, EndTransaction(cl, ok)
      PROVE  /\ sess' \in [Conn -> Session] /\ inTransaction' \in [Client -> BOOLEAN]
             /\ held[cl] \in Conn
             /\ UNCHANGED <<mutex, pool, maxSpare, pc, held, deadAtLock>>
  <2>1. PICK pending \in BOOLEAN :
          /\ EndMay(sess[held[cl]], ok, pending)
          /\ sess' = [sess EXCEPT ![held[cl]] = Ended(@, pending)]
    BY <1>3 DEF EndTransaction
  <2>2. sess' \in [Conn -> Session] /\ held[cl] \in Conn
    BY <1>1, <1>3, <2>1, EndLemma DEF EndTransaction, TypeOK
  <2>3. inTransaction' \in [Client -> BOOLEAN]
    BY <1>3 DEF EndTransaction, TypeOK
  <2>. QED
    BY <1>3, <2>2, <2>3 DEF EndTransaction
<1>4. ASSUME NEW cl \in Client, CommitTransaction(cl)
      PROVE  SInv'
  BY <1>3, <1>4, SessionStep DEF CommitTransaction, TypeOK
<1>5. ASSUME NEW cl \in Client, RollbackTransaction(cl)
      PROVE  SInv'
  <2>1. PICK ok \in BOOLEAN :
          /\ EndTransaction(cl, ok)
          /\ dropFlag' = [dropFlag EXCEPT ![cl] = dropFlag[cl] \/ ok]
          /\ suspect' = IF ok THEN suspect \cup {held[cl]} ELSE suspect
    BY <1>5 DEF RollbackTransaction
  <2>2. suspect' \subseteq Conn /\ dropFlag' \in [Client -> BOOLEAN]
    BY <1>3, <2>1 DEF TypeOK
  <2>. QED
    BY <1>3, <2>1, <2>2, SessionStep
<1>6. ASSUME NEW cl \in Client, Execute(cl)
      PROVE  SInv'
  <2>1. sess' \in [Conn -> Session]
    BY <1>1, <1>6, ExecuteLemma DEF Execute, TypeOK
  <2>. QED
    BY <1>6, <2>1, SessionStep DEF Execute, wrapperVars, TypeOK
<1>7. ASSUME NEW cl \in Client, PingByClient(cl)
      PROVE  SInv'
  BY <1>1, <1>7, SessionStep DEF PingByClient, TypeOK
<1>8. ASSUME NEW c \in Conn, ServerLoss(c)
      PROVE  SInv'
  <2>1. sess' \in [Conn -> Session]
    BY <1>8, LostLemma DEF ServerLoss, TypeOK
  <2>. QED
    BY <1>8, <2>1, SessionStep DEF ServerLoss, wrapperVars, TypeOK
<1>. QED
  BY <1>2, <1>4, <1>5, <1>6, <1>7, <1>8 DEF SessionAction

LEMMA NextCases ==
  ASSUME Next
  PROVE  \/ \E cl \in Client : Lock(cl) \/ PingAnswered(cl) \/ PingFailed(cl) \/ CreateFailed(cl)
         \/ \E cl \in Client : Take(cl) \/ Create(cl)
         \/ \E cl \in Client : DestroyDropped(cl) \/ DestroyPut(cl)
         \/ \E m \in Spares : DropSpares(m) \/ SetMaxSpare(m)
         \/ SessionAction
BY DEF Next, InsideConnect, SessionAction

LEMMA Structure == Spec => []SInv
<1>1. Init => SInv
  <2> SUFFICES ASSUME Init PROVE SInv
    OBVIOUS
  <2>1. TypeOK
    BY ClosedFresh, SparesAssumption DEF Init, TypeOK, PC
  <2>2. Pooled = {}
    BY DEF Init, Pooled, Range
  <2>3. LockInv /\ HoldInv
    BY NoClientAssumption, NoConnAssumption DEF Init, LockInv, HoldInv
  <2>4. ExclusiveUse
    BY <2>2 DEF Init, ExclusiveUse, IsInjective
  <2>. QED
    BY <2>1, <2>3, <2>4 DEF SInv
<1>2. SInv /\ [Next]_vars => SInv'
  <2> SUFFICES ASSUME SInv, [Next]_vars PROVE SInv'
    OBVIOUS
  <2>1. CASE Next
    BY <2>1, NextCases, ConnectStep, HandOutStep, ReleaseStep, AdminStep, SessionActionStep
  <2>2. CASE UNCHANGED vars
    BY <2>2 DEF SInv, TypeOK, LockInv, HoldInv, ExclusiveUse, Pooled, vars, wrapperVars
  <2>. QED
    BY <2>1, <2>2
<1>. QED
  BY <1>1, <1>2, PTL DEF Spec

(* Every behaviour keeps the variables within their types.                  *)
THEOREM TypeCorrect == Spec => []TypeOK
BY Structure, PTL DEF SInv

(* For any number of clients and connections, nobody else uses a connection *)
(* a client got from connectCached.                                         *)
THEOREM ExclusiveUseHolds == Spec => []ExclusiveUse
BY Structure, PTL DEF SInv

-------------------------------------------------------------------------------
(* Whatever the order of returns, drops and changes of the limit, the       *)
(* spare connections never exceed _maxSpare.                                *)
THEOREM SpareLimitHolds == Spec => []SpareLimit
<1>1. Init => SpareLimit
  BY SparesAssumption DEF Init, SpareLimit
<1>2. SInv /\ SpareLimit /\ [Next]_vars => SpareLimit'
  <2> SUFFICES ASSUME SInv, SpareLimit, [Next]_vars PROVE SpareLimit'
    OBVIOUS
  <2>. USE DEF SInv
  <2>1. Len(pool) \in Nat /\ maxSpare \in Nat /\ pool \in Seq(Conn)
    BY DEF TypeOK
  <2>2. CASE UNCHANGED <<pool, maxSpare>>
    BY <2>2 DEF SpareLimit
  <2>3. ASSUME pool # <<>>, pool' = Front(pool), UNCHANGED maxSpare
        PROVE  SpareLimit'
    BY <2>1, <2>3, PopPool DEF SpareLimit
  <2>4. ASSUME NEW cl \in Client,
               Lock(cl) \/ PingAnswered(cl) \/ PingFailed(cl) \/ CreateFailed(cl)
        PROVE  SpareLimit'
    BY <2>2, <2>3, <2>4 DEF Lock, PingAnswered, PingFailed, CreateFailed
  <2>5. ASSUME NEW cl \in Client, Take(cl) \/ Create(cl)
        PROVE  SpareLimit'
    BY <2>2, <2>3, <2>5 DEF Take, Create, LockInv
  <2>6. ASSUME NEW cl \in Client, DestroyDropped(cl) \/ DestroyPut(cl)
        PROVE  SpareLimit'
    <3>1. UNCHANGED maxSpare /\ held[cl] \in Conn
      BY <2>6 DEF DestroyDropped, DestroyPut, LetGo, HoldInv
    <3>2. CASE RoomToSpare /\ pool' = Append(pool, held[cl])
      <4>1. Len(pool') = Len(pool) + 1
        BY <2>1, <3>1, <3>2, PushBackLemma
      <4>. QED
        BY <2>1, <3>1, <3>2, <4>1 DEF RoomToSpare, SpareLimit
    <3>. QED
      BY <2>2, <2>6, <3>1, <3>2 DEF DestroyDropped, DestroyPut
  <2>7. ASSUME NEW m \in Spares, DropSpares(m) \/ SetMaxSpare(m)
        PROVE  SpareLimit'
    <3>1. m \in Nat
      BY SparesAssumption
    <3>2. CASE DropSpares(m)
      BY <2>1, <3>1, <3>2, ResizePool DEF DropSpares, SpareLimit
    <3>3. CASE SetMaxSpare(m)
      BY <2>1, <3>1, <3>3, ResizePool DEF SetMaxSpare, SpareLimit
    <3>. QED
      BY <2>7, <3>2, <3>3
  <2>8. CASE SessionAction
    BY <2>2, <2>8 DEF SessionAction, BeginTransaction, CommitTransaction,
       RollbackTransaction, EndTransaction, Execute, PingByClient, ServerLoss
  <2>9. CASE UNCHANGED vars
    BY <2>2, <2>9 DEF vars
  <2>. QED
    BY <2>4, <2>5, <2>6, <2>7, <2>8, <2>9, NextCases
<1>. QED
  BY <1>1, <1>2, Structure, PTL DEF Spec

-------------------------------------------------------------------------------
(* A suspect connection is marked in the wrapper of the client that holds   *)
(* it, and it is destroyed when that wrapper is.                            *)
SuspectInv ==
    /\ suspect \subseteq Owned
    /\ Pooled \cap suspect = {}
    /\ \A cl \in Client : held[cl] \in suspect => dropFlag[cl]

(* No connection is reused after a rollback or a failed ping.               *)
THEOREM SuspectNeverPooledHolds == Spec => []SuspectNeverPooled
<1>1. Init => SuspectInv
  BY DEF Init, SuspectInv
<1>2. SInv /\ SuspectInv /\ [Next]_vars => SuspectInv'
  <2> SUFFICES ASSUME SInv, SuspectInv, [Next]_vars PROVE SuspectInv'
    OBVIOUS
  <2>. USE DEF SInv
  <2>1. ASSUME UNCHANGED <<pool, held, suspect, dropFlag>>
        PROVE  SuspectInv'
    BY <2>1 DEF SuspectInv, Owned, Pooled
  <2>2. ASSUME NEW cl \in Client, Lock(cl) \/ PingAnswered(cl) \/ CreateFailed(cl)
        PROVE  SuspectInv'
    BY <2>1, <2>2 DEF Lock, PingAnswered, CreateFailed, wrapperVars
  <2>3. ASSUME NEW cl \in Client, PingFailed(cl)
        PROVE  SuspectInv'
    <3>1. /\ pool # <<>> /\ pool' = Front(pool) /\ UNCHANGED <<held, dropFlag>>
          /\ suspect' = suspect \ {Last(pool)}
      BY <2>3 DEF PingFailed, wrapperVars, Destroy
    <3>2. Pooled' = Pooled \ {Last(pool)}
      BY <3>1, PopPool
    <3>. QED
      BY <3>1, <3>2 DEF SuspectInv, Owned
  <2>4. ASSUME NEW cl \in Client, Take(cl)
        PROVE  SuspectInv'
    <3>1. pool # <<>> /\ pool' = Front(pool)
      BY <2>4 DEF Take, LockInv
    <3>2. Pooled' = Pooled \ {Last(pool)} /\ Last(pool) \in Pooled
      BY <3>1, PopPool
    <3>3. Last(pool) \notin suspect
      BY <3>2 DEF SuspectInv
    <3>4. /\ \A a \in Client : held'[a] = IF a = cl THEN Last(pool) ELSE held[a]
          /\ \A a \in Client : a # cl => dropFlag'[a] = dropFlag[a]
          /\ suspect' = suspect
          /\ held[cl] \notin Conn
      BY <2>4 DEF Take, HandOut, TypeOK, HoldInv
    <3>5. suspect \subseteq Conn
      BY DEF TypeOK
    <3>6. suspect \subseteq Owned'
      BY <3>2, <3>3, <3>4, <3>5 DEF SuspectInv, Owned
    <3>. QED
      BY <3>2, <3>3, <3>4, <3>6 DEF SuspectInv
  <2>5. ASSUME NEW cl \in Client, Create(cl)
        PROVE  SuspectInv'
    <3>1. PICK c \in Conn \ Owned : HandOut(cl, c)
      BY <2>5 DEF Create
    <3>2. /\ \A a \in Client : held'[a] = IF a = cl THEN c ELSE held[a]
          /\ \A a \in Client : a # cl => dropFlag'[a] = dropFlag[a]
          /\ suspect' = suspect /\ Pooled' = Pooled
          /\ held[cl] \notin Conn
      BY <2>5, <3>1 DEF Create, HandOut, TypeOK, HoldInv, Pooled
    <3>3. suspect \subseteq Conn /\ c \notin suspect
      BY <3>1 DEF SuspectInv, TypeOK
    <3>4. suspect \subseteq Owned'
      BY <3>2, <3>3 DEF SuspectInv, Owned
    <3>. QED
      BY <3>2, <3>3, <3>4 DEF SuspectInv
  <2>6. ASSUME NEW cl \in Client, DestroyDropped(cl) \/ DestroyPut(cl)
        PROVE  SuspectInv'
    <3>1. /\ \A a \in Client : held'[a] = IF a = cl THEN NoConn ELSE held[a]
          /\ \A a \in Client : a # cl => dropFlag'[a] = dropFlag[a]
          /\ held[cl] \in Conn
      BY <2>6 DEF DestroyDropped, DestroyPut, LetGo, TypeOK, HoldInv
    <3>2. suspect \subseteq Conn
      BY DEF TypeOK
    <3>3. CASE UNCHANGED pool /\ Destroy({held[cl]})
      <4>1. suspect' = suspect \ {held[cl]} /\ Pooled' = Pooled
        BY <3>3 DEF Destroy, Pooled
      <4>2. suspect' \subseteq Owned'
        BY <3>1, <4>1 DEF SuspectInv, Owned
      <4>. QED
        BY <3>1, <3>2, <4>1, <4>2, NoConnAssumption DEF SuspectInv
    <3>4. CASE Reusable(cl) /\ pool' = Append(pool, held[cl]) /\ UNCHANGED suspect
      <4>1. held[cl] \notin suspect
        BY <3>4 DEF SuspectInv, Reusable
      <4>2. Pooled' = Pooled \cup {held[cl]}
        BY <3>1, <3>4, PushBackLemma DEF TypeOK, Pooled
      <4>3. suspect \subseteq Owned'
        BY <3>1, <4>2 DEF SuspectInv, Owned
      <4>. QED
        BY <3>1, <3>2, <3>4, <4>1, <4>2, <4>3, NoConnAssumption DEF SuspectInv
    <3>. QED
      BY <2>6, <3>3, <3>4 DEF DestroyDropped, DestroyPut
  <2>7. ASSUME NEW m \in Spares, DropSpares(m) \/ SetMaxSpare(m)
        PROVE  SuspectInv'
    <3>1. m \in Nat
      BY SparesAssumption
    <3>2. UNCHANGED <<held, dropFlag>>
      BY <2>7 DEF DropSpares, SetMaxSpare, wrapperVars
    <3>3. CASE UNCHANGED <<pool, suspect>>
      BY <2>1, <3>2, <3>3
    <3>4. CASE Len(pool) > m /\ Resize(m)
      <4>1. Pooled' \subseteq Pooled /\ Destroy(Pooled \ Pooled')
        BY <3>1, <3>4, ResizePool DEF TypeOK
      <4>2. suspect' = suspect \ (Pooled \ Pooled')
        BY <4>1 DEF Destroy
      <4>. QED
        BY <3>2, <4>1, <4>2 DEF SuspectInv, Owned
    <3>. QED
      BY <2>7, <3>3, <3>4 DEF DropSpares, SetMaxSpare
  <2>8. CASE SessionAction
    <3>1. ASSUME NEW cl \in Client,
                 BeginTransaction(cl) \/ CommitTransaction(cl) \/ Execute(cl)
          PROVE  SuspectInv'
      BY <2>1, <3>1 DEF BeginTransaction, CommitTransaction, EndTransaction,
         Execute, wrapperVars
    <3>2. ASSUME NEW cl \in Client, RollbackTransaction(cl) \/ PingByClient(cl)
          PROVE  SuspectInv'
      <4>1. /\ UNCHANGED <<pool, held>>
            /\ \A a \in Client : dropFlag[a] => dropFlag'[a]
            /\ suspect' = suspect \/ (suspect' = suspect \cup {held[cl]} /\ dropFlag'[cl])
            /\ held[cl] \in Conn
        BY <3>2 DEF RollbackTransaction, PingByClient, EndTransaction, TypeOK, HoldInv
      <4>2. Owned' = Owned /\ Pooled' = Pooled
        BY <4>1 DEF Owned, Pooled
      <4>3. \A a \in Client : held[a] = held[cl] => a = cl
        BY <4>1, NoConnAssumption DEF ExclusiveUse
      <4>4. held[cl] \notin Pooled
        BY DEF ExclusiveUse
      <4>5. held[cl] \in Owned
        BY DEF Owned
      <4>6. CASE suspect' = suspect
        BY <4>1, <4>2, <4>6 DEF SuspectInv
      <4>7. CASE suspect' = suspect \cup {held[cl]} /\ dropFlag'[cl]
        BY <4>1, <4>2, <4>3, <4>4, <4>5, <4>7 DEF SuspectInv
      <4>. QED
        BY <4>1, <4>6, <4>7
    <3>3. ASSUME NEW c \in Conn, ServerLoss(c)
          PROVE  SuspectInv'
      BY <2>1, <3>3 DEF ServerLoss, wrapperVars
    <3>. QED
      BY <2>8, <3>1, <3>2, <3>3 DEF SessionAction
  <2>9. CASE UNCHANGED vars
    BY <2>1, <2>9 DEF vars, wrapperVars
  <2>. QED
    BY <2>2, <2>3, <2>4, <2>5, <2>6, <2>7, <2>8, <2>9, NextCases
<1>3. SuspectInv => SuspectNeverPooled
  BY DEF SuspectInv, SuspectNeverPooled
<1>. QED
  BY <1>1, <1>2, <1>3, Structure, PTL DEF Spec

-------------------------------------------------------------------------------
(* When clients do not nest transactions, the wrapper's flag is set         *)
(* whenever its connection counts a transaction or has one open, so only    *)
(* settled connections are put back.                                        *)
SettleInv ==
    /\ SparesAreSettled
    /\ \A cl \in Client : pc[cl] = "using" =>
          /\ sess[held[cl]].depth <= 1
          /\ sess[held[cl]].open => inTransaction[cl]
          /\ sess[held[cl]].depth > 0 => inTransaction[cl]

(* What the steps of one client on its own session must establish.          *)
LEMMA SettleSession ==
  ASSUME SInv, SettleInv, NEW cl \in Client, pc[cl] = "using",
         UNCHANGED <<pool, pc, held>>, NEW s \in Session,
         sess' = [sess EXCEPT ![held[cl]] = s],
         \A a \in Client : a # cl => inTransaction'[a] = inTransaction[a],
         s.depth <= 1, s.open => inTransaction'[cl], s.depth > 0 => inTransaction'[cl]
  PROVE  SettleInv'
<1>. USE DEF SInv
<1>1. /\ held[cl] \in Conn /\ held[cl] \notin Pooled
      /\ \A a \in Client : pc[a] = "using" /\ a # cl => held[a] \in Conn /\ held[a] # held[cl]
  BY NoConnAssumption DEF HoldInv, ExclusiveUse
<1>2. sess'[held[cl]] = s /\ \A c \in Conn : c # held[cl] => sess'[c] = sess[c]
  BY <1>1 DEF TypeOK
<1>3. Pooled' = Pooled /\ Pooled \subseteq Conn
  BY PooledType DEF Pooled
<1>4. SparesAreSettled'
  BY <1>1, <1>2, <1>3 DEF SettleInv, SparesAreSettled
<1>. QED
  BY <1>1, <1>2, <1>4 DEF SettleInv

(* Steps that close connections nobody uses, or none at all.                *)
LEMMA SettleDestroy ==
  ASSUME SInv, SettleInv,
         \A c \in Conn : sess'[c] = sess[c] \/ sess'[c] = Closed,
         UNCHANGED inTransaction,
         Pooled' \subseteq Pooled,
         \A a \in Client : pc'[a] = "using" => pc[a] = "using" /\ held'[a] = held[a]
  PROVE  SettleInv'
<1>. USE DEF SInv
<1>1. Closed.depth = 0 /\ ~Closed.open
  BY DEF Closed
<1>2. Pooled \subseteq Conn
  BY PooledType
<1>3. SparesAreSettled'
  BY <1>1, <1>2 DEF SettleInv, SparesAreSettled
<1>4. ASSUME NEW a \in Client, pc'[a] = "using"
      PROVE  /\ sess'[held'[a]].depth <= 1
             /\ sess'[held'[a]].open => inTransaction'[a]
             /\ sess'[held'[a]].depth > 0 => inTransaction'[a]
  <2>1. held[a] \in Conn /\ held'[a] = held[a] /\ pc[a] = "using"
    BY <1>4 DEF HoldInv
  <2>. QED
    BY <1>1, <2>1 DEF SettleInv
<1>. QED
  BY <1>3, <1>4 DEF SettleInv

LEMMA SettleSessionAction ==
  ASSUME SInv, SettleInv, MaxDepth <= 1, SessionAction
  PROVE  SettleInv'
<1>. USE DEF SInv
<1>1. ASSUME NEW cl \in Client, pc[cl] = "using"
      PROVE  /\ held[cl] \in Conn /\ sess[held[cl]] \in Session
             /\ sess[held[cl]].depth \in Nat /\ sess[held[cl]].depth <= 1
             /\ sess[held[cl]].open => inTransaction[cl]
             /\ sess[held[cl]].depth > 0 => inTransaction[cl]
  BY <1>1 DEF HoldInv, TypeOK, SettleInv, Session
<1>2. ASSUME NEW cl \in Client, BeginTransaction(cl)
      PROVE  SettleInv'
  <2>0. pc[cl] = "using" /\ sess[held[cl]].depth = 0
    BY <1>1, <1>2, MaxDepthAssumption DEF BeginTransaction
  <2>1. PICK ok \in BOOLEAN :
          /\ BeginMay(sess[held[cl]], ok)
          /\ sess' = [sess EXCEPT ![held[cl]] = Begun(sess[held[cl]], ok)]
          /\ inTransaction' = [inTransaction EXCEPT ![cl] = inTransaction[cl] \/ ok]
    BY <1>2 DEF BeginTransaction
  <2> DEFINE s == Begun(sess[held[cl]], ok)
  <2>2. s \in Session /\ s.depth <= 1 /\ (~ok => s = sess[held[cl]])
    BY <1>1, <2>0, <2>1, BeginLemma
  <2>3. /\ \A a \in Client : a # cl => inTransaction'[a] = inTransaction[a]
        /\ ok => inTransaction'[cl]
        /\ inTransaction[cl] => inTransaction'[cl]
    BY <2>1 DEF TypeOK
  <2>4. UNCHANGED <<pool, pc, held>>
    BY <1>2 DEF BeginTransaction
  <2>5. (s.open => inTransaction'[cl]) /\ (s.depth > 0 => inTransaction'[cl])
    BY <1>1, <2>0, <2>2, <2>3
  <2>. HIDE DEF s
  <2>. QED
    BY <2>0, <2>1, <2>2, <2>3, <2>4, <2>5, SettleSession DEF s
<1>3. ASSUME NEW cl \in Client, NEW ok \in BOOLEAN, EndTransaction(cl, ok)
      PROVE  SettleInv'
  <2>0. pc[cl] = "using"
    BY <1>3 DEF EndTransaction
  <2>1. PICK pending \in BOOLEAN :
          /\ EndMay(sess[held[cl]], ok, pending)
          /\ sess' = [sess EXCEPT ![held[cl]] = Ended(sess[held[cl]], pending)]
    BY <1>3 DEF EndTransaction
  <2> DEFINE s == Ended(sess[held[cl]], pending)
  <2>2. /\ s \in Session /\ s.depth = 0 /\ s.open = pending
        /\ pending => sess[held[cl]].open
        /\ ok => ~pending
    BY <1>1, <2>0, <2>1, EndLemma
  <2>3. /\ \A a \in Client : a # cl => inTransaction'[a] = inTransaction[a]
        /\ ~ok /\ inTransaction[cl] => inTransaction'[cl]
    BY <1>3 DEF EndTransaction, TypeOK
  <2>4. UNCHANGED <<pool, pc, held>>
    BY <1>3 DEF EndTransaction
  <2>5. s.open => inTransaction'[cl]
    BY <1>1, <2>0, <2>2, <2>3
  <2>6. sess' = [sess EXCEPT ![held[cl]] = s] /\ s.depth <= 1 /\ ~(s.depth > 0)
    BY <2>1, <2>2
  <2>. HIDE DEF s
  <2>. QED
    BY <2>0, <2>2, <2>3, <2>4, <2>5, <2>6, SettleSession
<1>4. ASSUME NEW cl \in Client, Execute(cl)
      PROVE  SettleInv'
  <2>0. /\ pc[cl] = "using"
        /\ UNCHANGED <<pool, pc, held, inTransaction>>
        /\ sess' = [sess EXCEPT ![held[cl]] = Executed(sess[held[cl]])]
    BY <1>4 DEF Execute, wrapperVars
  <2> DEFINE s == Executed(sess[held[cl]])
  <2>1. s \in Session /\ s.depth = sess[held[cl]].depth
        /\ (s.open => sess[held[cl]].open \/ sess[held[cl]].depth > 0)
    BY <1>1, <2>0, ExecuteLemma
  <2>. HIDE DEF s
  <2>. QED
    BY <1>1, <2>0, <2>1, SettleSession DEF s
<1>5. ASSUME NEW cl \in Client, PingByClient(cl)
      PROVE  SettleInv'
  BY <1>5 DEF PingByClient, SettleInv, SparesAreSettled, Pooled
<1>6. ASSUME NEW c \in Conn, ServerLoss(c)
      PROVE  SettleInv'
  <2>1. /\ UNCHANGED <<pool, pc, held, inTransaction>>
        /\ sess' = [sess EXCEPT ![c] = Lost(sess[c])]
    BY <1>6 DEF ServerLoss, wrapperVars
  <2>2. \A d \in Conn : /\ sess'[d].depth = sess[d].depth
                        /\ sess'[d].open => sess[d].open
    BY <2>1, LostLemma DEF TypeOK
  <2>3. Pooled' = Pooled /\ Pooled \subseteq Conn
    BY <2>1, PooledType DEF Pooled
  <2>4. SparesAreSettled'
    BY <2>2, <2>3 DEF SettleInv, SparesAreSettled
  <2>. QED
    BY <2>1, <2>2, <2>4 DEF SettleInv, HoldInv
<1>. QED
  BY <1>2, <1>3, <1>4, <1>5, <1>6 DEF SessionAction, CommitTransaction, RollbackTransaction

(* No spare connection has a transaction pending, whatever calls failed,    *)
(* provided that no client begins a transaction inside a transaction.       *)
THEOREM SparesAreSettledHolds ==
  ASSUME MaxDepth <= 1
  PROVE  Spec => []SparesAreSettled
<1>1. Init => SettleInv
  BY DEF Init, SettleInv, SparesAreSettled, Pooled, Range
<1>2. SInv /\ SettleInv /\ [Next]_vars => SettleInv'
  <2> SUFFICES ASSUME SInv, SettleInv, [Next]_vars PROVE SettleInv'
    OBVIOUS
  <2>. USE DEF SInv
  <2>1. ASSUME NEW cl \in Client,
               Lock(cl) \/ PingAnswered(cl) \/ PingFailed(cl) \/ CreateFailed(cl)
        PROVE  SettleInv'
    <3>1. UNCHANGED <<held, inTransaction>>
      BY <2>1 DEF Lock, PingAnswered, PingFailed, CreateFailed, wrapperVars
    <3>2. \A a \in Client : pc'[a] = "using" => pc[a] = "using"
      BY <2>1 DEF Lock, PingAnswered, PingFailed, CreateFailed, TypeOK
    <3>3. CASE UNCHANGED <<pool, sess>>
      BY <3>1, <3>2, <3>3, SettleDestroy DEF Pooled
    <3>4. CASE PingFailed(cl)
      <4>1. \A c \in Conn : sess'[c] = sess[c] \/ sess'[c] = Closed
        BY <3>4 DEF PingFailed, Destroy
      <4>2. Pooled' \subseteq Pooled
        BY <3>4, PopPool DEF PingFailed
      <4>. QED
        BY <3>1, <3>2, <4>1, <4>2, SettleDestroy
    <3>. QED
      BY <2>1, <3>3, <3>4 DEF Lock, PingAnswered, CreateFailed
  <2>2. ASSUME NEW cl \in Client, Take(cl) \/ Create(cl)
        PROVE  SettleInv'
    <3>1. PICK c \in Conn :
            /\ HandOut(cl, c)
            /\ sess'[c].depth = 0 /\ ~sess'[c].open
            /\ \A d \in Conn : d # c => sess'[d] = sess[d]
            /\ \A a \in Client : held[a] # c
            /\ Pooled' \subseteq Pooled \ {c}
      <4>1. CASE Take(cl)
        <5>1. pool # <<>> /\ pool' = Front(pool)
          BY <4>1 DEF Take, LockInv
        <5>2. Pooled' = Pooled \ {Last(pool)} /\ Last(pool) \in Pooled /\ Last(pool) \in Conn
          BY <5>1, PopPool
        <5>3. sess[Last(pool)].depth = 0 /\ ~sess[Last(pool)].open
          BY <5>2 DEF SettleInv, SparesAreSettled
        <5>. QED
          BY <4>1, <5>2, <5>3 DEF Take, ExclusiveUse
      <4>2. CASE Create(cl)
        <5>1. PICK c \in Conn \ Owned : HandOut(cl, c) /\ sess' = [sess EXCEPT ![c] = Fresh]
          BY <4>2 DEF Create
        <5>2. sess'[c] = Fresh /\ \A d \in Conn : d # c => sess'[d] = sess[d]
          BY <5>1 DEF TypeOK
        <5>3. Fresh.depth = 0 /\ ~Fresh.open
          BY DEF Fresh
        <5>4. Pooled' = Pooled \ {c} /\ \A a \in Client : held[a] # c
          BY <4>2, <5>1 DEF Create, Owned, Pooled
        <5>. QED
          BY <5>1, <5>2, <5>3, <5>4
      <4>. QED
        BY <2>2, <4>1, <4>2
    <3>2. \A a \in Client :
            /\ held'[a] = IF a = cl THEN c ELSE held[a]
            /\ a # cl => inTransaction'[a] = inTransaction[a] /\ pc'[a] = pc[a]
      BY <3>1 DEF HandOut, TypeOK
    <3>3. Pooled \subseteq Conn
      BY PooledType
    <3>4. SparesAreSettled'
      BY <3>1, <3>3 DEF SettleInv, SparesAreSettled
    <3>5. ASSUME NEW a \in Client, pc'[a] = "using"
          PROVE  /\ sess'[held'[a]].depth <= 1
                 /\ sess'[held'[a]].open => inTransaction'[a]
                 /\ sess'[held'[a]].depth > 0 => inTransaction'[a]
      <4>1. CASE a = cl
        BY <3>1, <3>2, <4>1
      <4>2. CASE a # cl
        <5>1. /\ held'[a] = held[a] /\ held[a] \in Conn /\ held[a] # c /\ pc[a] = "using"
              /\ inTransaction'[a] = inTransaction[a]
          BY <3>1, <3>2, <3>5, <4>2 DEF HoldInv
        <5>. QED
          BY <3>1, <5>1 DEF SettleInv
      <4>. QED
        BY <4>1, <4>2
    <3>. QED
      BY <3>4, <3>5 DEF SettleInv
  <2>3. ASSUME NEW cl \in Client, DestroyDropped(cl) \/ DestroyPut(cl)
        PROVE  SettleInv'
    <3>1. /\ pc[cl] = "using" /\ held[cl] \in Conn
          /\ \A a \in Client : a # cl => /\ pc'[a] = pc[a] /\ held'[a] = held[a]
                                         /\ inTransaction'[a] = inTransaction[a]
          /\ pc'[cl] = "idle"
      BY <2>3 DEF DestroyDropped, DestroyPut, LetGo, TypeOK, HoldInv
    <3>2. \A d \in Conn : d # held[cl] => sess'[d] = sess[d]
      BY <2>3 DEF DestroyDropped, DestroyPut, Destroy
    <3>3. \A a \in Client : a # cl /\ pc[a] = "using" => held[a] \in Conn /\ held[a] # held[cl]
      BY <3>1, NoConnAssumption DEF ExclusiveUse, HoldInv
    <3>4. SparesAreSettled'
      <4>1. Pooled \subseteq Conn /\ held[cl] \notin Pooled
        BY PooledType DEF ExclusiveUse
      <4>2. CASE UNCHANGED pool
        BY <3>2, <4>1, <4>2 DEF SettleInv, SparesAreSettled, Pooled
      <4>3. CASE Reusable(cl) /\ pool' = Append(pool, held[cl]) /\ UNCHANGED sess
        <5>1. Pooled' = Pooled \cup {held[cl]}
          BY <3>1, <4>3, PushBackLemma DEF TypeOK, Pooled
        <5>2. ~inTransaction[cl]
          BY <4>3 DEF Reusable
        <5>3. sess[held[cl]].depth \in Nat
          BY <3>1 DEF TypeOK, Session
        <5>4. sess[held[cl]].depth = 0 /\ ~sess[held[cl]].open
          BY <3>1, <5>2, <5>3 DEF SettleInv
        <5>. QED
          BY <4>1, <4>3, <5>1, <5>4 DEF SettleInv, SparesAreSettled
      <4>. QED
        BY <2>3, <4>2, <4>3 DEF DestroyDropped, DestroyPut
    <3>5. ASSUME NEW a \in Client, pc'[a] = "using"
          PROVE  /\ a # cl /\ pc[a] = "using" /\ held'[a] = held[a]
                 /\ sess'[held[a]] = sess[held[a]]
                 /\ inTransaction'[a] = inTransaction[a]
      BY <3>1, <3>2, <3>3, <3>5
    <3>. QED
      BY <3>4, <3>5 DEF SettleInv
  <2>4. ASSUME NEW m \in Spares, DropSpares(m) \/ SetMaxSpare(m)
        PROVE  SettleInv'
    <3>1. UNCHANGED <<pc, held, inTransaction>> /\ m \in Nat
      BY <2>4, SparesAssumption DEF DropSpares, SetMaxSpare, wrapperVars
    <3>2. CASE UNCHANGED <<pool, sess>>
      BY <3>1, <3>2, SettleDestroy DEF Pooled
    <3>3. CASE Len(pool) > m /\ Resize(m)
      BY <3>1, <3>3, ResizePool, SettleDestroy DEF Destroy, TypeOK
    <3>. QED
      BY <2>4, <3>2, <3>3 DEF DropSpares, SetMaxSpare
  <2>5. CASE SessionAction
    BY <2>5, SettleSessionAction
  <2>6. CASE UNCHANGED vars
    BY <2>6 DEF SettleInv, SparesAreSettled, Pooled, vars, wrapperVars
  <2>. QED
    BY <2>1, <2>2, <2>3, <2>4, <2>5, <2>6, NextCases
<1>3. SettleInv => SparesAreSettled
  BY DEF SettleInv
<1>. QED
  BY <1>1, <1>2, <1>3, Structure, PTL DEF Spec

-------------------------------------------------------------------------------
(* What was dead when connect() took the lock is still in the pool or       *)
(* destroyed, still dead, and not the connection whose ping was answered.   *)
DeadInv ==
    /\ deadAtLock \subseteq Pooled
    /\ \A c \in deadAtLock : ~sess[c].up
    /\ \A cl \in Client : pc[cl] = "answered" => Last(pool) \notin deadAtLock

(* No session comes back to life except by opening a new connection.        *)
LEMMA SessionStaysDown ==
  ASSUME SInv, SessionAction
  PROVE  /\ UNCHANGED <<pool, pc, held, deadAtLock>>
         /\ \A c \in Conn : ~sess[c].up => ~sess'[c].up
<1>. USE DEF SInv
<1>1. ASSUME NEW cl \in Client, pc[cl] = "using"
      PROVE  held[cl] \in Conn /\ sess[held[cl]] \in Session
  BY <1>1 DEF HoldInv, TypeOK
<1>2. ASSUME NEW cl \in Client, NEW s \in Session, pc[cl] = "using",
             s.up = sess[held[cl]].up, sess' = [sess EXCEPT ![held[cl]] = s]
      PROVE  \A c \in Conn : ~sess[c].up => ~sess'[c].up
  BY <1>1, <1>2 DEF TypeOK
<1>3. ASSUME NEW cl \in Client, BeginTransaction(cl)
      PROVE  \A c \in Conn : ~sess[c].up => ~sess'[c].up
  BY <1>1, <1>2, <1>3, BeginLemma DEF BeginTransaction
<1>4. ASSUME NEW cl \in Client, NEW ok \in BOOLEAN, EndTransaction(cl, ok)
      PROVE  \A c \in Conn : ~sess[c].up => ~sess'[c].up
  BY <1>1, <1>2, <1>4, EndLemma DEF EndTransaction
<1>5. ASSUME NEW cl \in Client, Execute(cl)
      PROVE  \A c \in Conn : ~sess[c].up => ~sess'[c].up
  BY <1>1, <1>2, <1>5, ExecuteLemma DEF Execute
<1>6. ASSUME NEW cl \in Client, PingByClient(cl)
      PROVE  \A c \in Conn : ~sess[c].up => ~sess'[c].up
  BY <1>6 DEF PingByClient
<1>7. ASSUME NEW c \in Conn, ServerLoss(c)
      PROVE  \A d \in Conn : ~sess[d].up => ~sess'[d].up
  BY <1>7, LostLemma DEF ServerLoss, TypeOK
<1>8. UNCHANGED <<pool, pc, held, deadAtLock>>
  BY DEF SessionAction, BeginTransaction, CommitTransaction, RollbackTransaction,
     EndTransaction, Execute, PingByClient, ServerLoss, wrapperVars
<1>. QED
  BY <1>3, <1>4, <1>5, <1>6, <1>7, <1>8 DEF SessionAction, CommitTransaction, RollbackTransaction

LEMMA DeadStep ==
  ASSUME SInv, DeadInv, [Next]_vars
  PROVE  DeadInv'
<1>. USE DEF SInv
<1>1. Pooled \subseteq Conn
  BY PooledType
<1>2. ASSUME mutex = NoClient
      PROVE  \A cl \in Client : pc[cl] \notin {"scan", "answered"}
  BY <1>2, NoClientAssumption DEF LockInv
<1>3. ASSUME NEW cl \in Client, pc[cl] \in {"scan", "answered"}
      PROVE  \A a \in Client : a # cl => pc[a] \notin {"scan", "answered"}
  BY <1>3 DEF LockInv
<1>4. ASSUME NEW cl \in Client, Lock(cl)
      PROVE  DeadInv'
  BY <1>2, <1>4 DEF Lock, DeadInv, Pooled, TypeOK
<1>5. ASSUME NEW cl \in Client, PingAnswered(cl)
      PROVE  DeadInv'
  BY <1>3, <1>5 DEF PingAnswered, DeadInv, Pooled, TypeOK
<1>6. ASSUME NEW cl \in Client, PingFailed(cl)
      PROVE  DeadInv'
  <2>1. /\ Pooled' = Pooled \ {Last(pool)}
        /\ deadAtLock' = deadAtLock \ {Last(pool)}
        /\ \A c \in Conn : c # Last(pool) => sess'[c] = sess[c]
    BY <1>6, PopPool DEF PingFailed, Destroy
  <2>2. \A a \in Client : pc'[a] # "answered"
    BY <1>3, <1>6 DEF PingFailed
  <2>. QED
    BY <1>1, <2>1, <2>2 DEF DeadInv
<1>7. ASSUME NEW cl \in Client, CreateFailed(cl)
      PROVE  DeadInv'
  BY <1>7 DEF CreateFailed, DeadInv
<1>8. ASSUME NEW cl \in Client, Take(cl) \/ Create(cl)
      PROVE  DeadInv'
  BY <1>8 DEF Take, Create, HandOut, DeadInv
<1>9. ASSUME NEW cl \in Client, DestroyDropped(cl) \/ DestroyPut(cl)
      PROVE  DeadInv'
  <2>1. held[cl] \in Conn /\ held[cl] \notin Pooled
    BY <1>9 DEF DestroyDropped, DestroyPut, LetGo, HoldInv, ExclusiveUse
  <2>2. \A a \in Client : pc'[a] = "answered" => pc[a] = "answered"
    BY <1>9 DEF DestroyDropped, DestroyPut, LetGo, TypeOK
  <2>3. CASE UNCHANGED pool /\ Destroy({held[cl]})
    <3>1. /\ Pooled' = Pooled
          /\ deadAtLock' = deadAtLock \ {held[cl]}
          /\ \A c \in Conn : c # held[cl] => sess'[c] = sess[c]
      BY <2>3 DEF Pooled, Destroy
    <3>. QED
      BY <1>1, <2>1, <2>2, <2>3, <3>1 DEF DeadInv
  <2>4. CASE mutex = NoClient /\ pool' = Append(pool, held[cl]) /\ UNCHANGED <<sess, deadAtLock>>
    <3>1. Pooled' = Pooled \cup {held[cl]}
      BY <2>1, <2>4, PushBackLemma DEF TypeOK, Pooled
    <3>. QED
      BY <1>2, <2>2, <2>4, <3>1 DEF DeadInv
  <2>. QED
    BY <1>9, <2>3, <2>4 DEF DestroyDropped, DestroyPut
<1>10. ASSUME NEW m \in Spares, DropSpares(m) \/ SetMaxSpare(m)
       PROVE  DeadInv'
  <2>1. /\ m \in Nat
        /\ \A a \in Client : pc'[a] # "answered"
    BY <1>2, <1>10, SparesAssumption DEF DropSpares, SetMaxSpare
  <2>2. CASE UNCHANGED <<pool, sess, deadAtLock>>
    BY <2>1, <2>2 DEF DeadInv, Pooled
  <2>3. CASE Len(pool) > m /\ Resize(m)
    <3>1. Pooled' \subseteq Pooled /\ Destroy(Pooled \ Pooled')
      BY <2>1, <2>3, ResizePool DEF TypeOK
    <3>2. /\ deadAtLock' = deadAtLock \ (Pooled \ Pooled')
          /\ \A c \in Conn : c \in Pooled' => sess'[c] = sess[c]
      BY <3>1 DEF Destroy
    <3>. QED
      BY <1>1, <2>1, <3>1, <3>2 DEF DeadInv
  <2>. QED
    BY <1>10, <2>2, <2>3 DEF DropSpares, SetMaxSpare
<1>11. CASE SessionAction
  BY <1>1, <1>11, SessionStaysDown DEF DeadInv, Pooled
<1>12. CASE UNCHANGED vars
  BY <1>12 DEF DeadInv, Pooled, vars
<1>. QED
  BY <1>4, <1>5, <1>6, <1>7, <1>8, <1>9, <1>10, <1>11, <1>12, NextCases

(* connect() never returns a spare connection that was already dead when    *)
(* it took the lock.                                                        *)
THEOREM NoStaleHandoutHolds == Spec => NoStaleHandout
<1>1. Init => DeadInv
  BY DEF Init, DeadInv
<1>2. SInv /\ DeadInv /\ [Next]_vars => DeadInv'
  BY DeadStep
<1>3. SInv /\ DeadInv /\ [Next]_vars =>
        [\A cl \in Client : pc[cl] # "using" /\ pc'[cl] = "using"
                              => held'[cl] \notin deadAtLock]_vars
  <2> SUFFICES ASSUME SInv, DeadInv, Next,
                      NEW cl \in Client, pc[cl] # "using", pc'[cl] = "using"
               PROVE  held'[cl] \notin deadAtLock
    OBVIOUS
  <2>. USE DEF SInv
  <2>1. ASSUME NEW a \in Client,
               Lock(a) \/ PingAnswered(a) \/ PingFailed(a) \/ CreateFailed(a)
        PROVE  FALSE
    BY <2>1 DEF Lock, PingAnswered, PingFailed, CreateFailed, TypeOK
  <2>2. ASSUME NEW a \in Client, DestroyDropped(a) \/ DestroyPut(a)
        PROVE  FALSE
    BY <2>2 DEF DestroyDropped, DestroyPut, LetGo, TypeOK
  <2>3. ASSUME NEW m \in Spares, DropSpares(m) \/ SetMaxSpare(m)
        PROVE  FALSE
    BY <2>3 DEF DropSpares, SetMaxSpare
  <2>4. CASE SessionAction
    BY <2>4, SessionStaysDown
  <2>5. ASSUME NEW a \in Client, Take(a)
        PROVE  held'[cl] \notin deadAtLock
    BY <2>5 DEF Take, HandOut, DeadInv, TypeOK
  <2>6. ASSUME NEW a \in Client, Create(a)
        PROVE  held'[cl] \notin deadAtLock
    <3>1. PICK c \in Conn \ Owned : HandOut(a, c)
      BY <2>6 DEF Create
    <3>2. held'[cl] = c
      BY <3>1 DEF HandOut, TypeOK
    <3>. QED
      BY <3>1, <3>2 DEF DeadInv, Owned
  <2>. QED
    BY <2>1, <2>2, <2>3, <2>4, <2>5, <2>6, NextCases
<1>. QED
  BY <1>1, <1>2, <1>3, Structure, PTL DEF Spec, NoStaleHandout

-------------------------------------------------------------------------------
(* Every step of the pool is a step of the lease, or changes neither the    *)
(* idle connections nor who holds which.                                    *)
LEMMA LeaseStep ==
  ASSUME SInv, [Next]_vars
  PROVE  [Lease!Next]_<<Pooled, held>>
<1>. USE DEF SInv
<1>1. ASSUME UNCHANGED <<pool, held>>
      PROVE  UNCHANGED <<Pooled, held>>
  BY <1>1 DEF Pooled
<1>2. ASSUME Pooled' \subseteq Pooled, UNCHANGED held
      PROVE  Lease!Next
  BY <1>2 DEF Lease!Next, Lease!Evict
<1>3. ASSUME NEW cl \in Client, Lock(cl) \/ PingAnswered(cl) \/ CreateFailed(cl)
      PROVE  UNCHANGED <<Pooled, held>>
  BY <1>1, <1>3 DEF Lock, PingAnswered, CreateFailed, wrapperVars
<1>4. ASSUME NEW cl \in Client, PingFailed(cl)
      PROVE  Lease!Next
  BY <1>2, <1>4, PopPool DEF PingFailed, wrapperVars
<1>5. ASSUME NEW cl \in Client, Take(cl)
      PROVE  Lease!Next
  <2>1. pool # <<>> /\ pool' = Front(pool)
    BY <1>5 DEF Take, LockInv
  <2>2. Pooled' = Pooled \ {Last(pool)} /\ Last(pool) \in Pooled /\ Last(pool) \in Conn
    BY <2>1, PopPool
  <2>3. held' = [held EXCEPT ![cl] = Last(pool)] /\ held[cl] = NoConn
    BY <1>5 DEF Take, HandOut, HoldInv, TypeOK
  <2>4. Last(pool) \notin Lease!Leased
    BY <2>2 DEF Lease!Leased, ExclusiveUse
  <2>5. Lease!Acquire(cl)
    BY <2>2, <2>3, <2>4 DEF Lease!Acquire
  <2>. QED
    BY <2>5 DEF Lease!Next
<1>6. ASSUME NEW cl \in Client, Create(cl)
      PROVE  Lease!Next
  <2>1. PICK c \in Conn \ Owned : HandOut(cl, c)
    BY <1>6 DEF Create
  <2>2. Pooled = {} /\ Pooled' = Pooled
    BY <1>6 DEF Create, Pooled, Range
  <2>3. held' = [held EXCEPT ![cl] = c] /\ held[cl] = NoConn
    BY <1>6, <2>1 DEF Create, HandOut, HoldInv, TypeOK
  <2>4. c \in Conn \ Lease!Leased
    BY <2>1 DEF Lease!Leased, Owned
  <2>5. Lease!Acquire(cl)
    BY <2>2, <2>3, <2>4 DEF Lease!Acquire
  <2>. QED
    BY <2>5 DEF Lease!Next
<1>7. ASSUME NEW cl \in Client, DestroyDropped(cl) \/ DestroyPut(cl)
      PROVE  Lease!Next
  <2>1. held' = [held EXCEPT ![cl] = NoConn] /\ held[cl] \in Conn
    BY <1>7 DEF DestroyDropped, DestroyPut, LetGo, HoldInv
  <2>2. Pooled' = Pooled \/ Pooled' = Pooled \cup {held[cl]}
    <3>1. CASE UNCHANGED pool
      BY <3>1 DEF Pooled
    <3>2. CASE pool' = Append(pool, held[cl])
      BY <2>1, <3>2, PushBackLemma DEF Pooled, TypeOK
    <3>. QED
      BY <1>7, <3>1, <3>2 DEF DestroyDropped, DestroyPut
  <2>3. Lease!Release(cl)
    BY <2>1, <2>2, NoConnAssumption DEF Lease!Release
  <2>. QED
    BY <2>3 DEF Lease!Next
<1>8. ASSUME NEW m \in Spares, DropSpares(m) \/ SetMaxSpare(m)
      PROVE  Lease!Next
  <2>1. m \in Nat /\ UNCHANGED held
    BY <1>8, SparesAssumption DEF DropSpares, SetMaxSpare, wrapperVars
  <2>2. Pooled' \subseteq Pooled
    <3>1. CASE UNCHANGED pool
      BY <3>1 DEF Pooled
    <3>2. CASE Len(pool) > m /\ Resize(m)
      BY <2>1, <3>2, ResizePool DEF TypeOK
    <3>. QED
      BY <1>8, <3>1, <3>2 DEF DropSpares, SetMaxSpare
  <2>. QED
    BY <1>2, <2>1, <2>2
<1>9. CASE SessionAction
  BY <1>1, <1>9, SessionStaysDown
<1>10. CASE UNCHANGED vars
  BY <1>1, <1>10 DEF vars, wrapperVars
<1>. QED
  BY <1>3, <1>4, <1>5, <1>6, <1>7, <1>8, <1>9, <1>10, NextCases

(* The pool implements the promise of connectCached.                        *)
THEOREM ImplementsLeaseHolds == Spec => ImplementsLease
<1>1. Init => Lease!Init
  BY DEF Init, Lease!Init, Pooled, Range
<1>2. SInv /\ [Next]_vars => [Lease!Next]_<<Pooled, held>>
  BY LeaseStep
<1>. QED
  BY <1>1, <1>2, Structure, PTL DEF Spec, ImplementsLease, Lease!Spec, Lease!vars
===============================================================================
